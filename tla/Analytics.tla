----------------------------- MODULE Analytics -----------------------------
(***************************************************************************)
(* What is computed from the rows of a window (search/analytics.py,        *)
(* search/estimate.py): counts over time, occurrences by sensor, the graph *)
(* of conversations, and the estimate of how much a filter would match.  A *)
(* row says in "hit" whether the filter of the request matches it.         *)
(***************************************************************************)
EXTENDS CaptureStore

CONSTANTS
    SampleTarget, \* SAMPLE_TARGET
    Lagging,      \* the sensors whose status says they lag (world/catalog.py)
    Denied,       \* role -> the sensors it may not read (platform/permissions.py)
    MaxWindow, MaxBuckets \* MAX_WINDOW_MS, MAX_BUCKETS

ASSUME AnalyticsAssumption == {SampleTarget, MaxWindow, MaxBuckets} \subseteq Nat \ {0}

-----------------------------------------------------------------------------
Total(numbers) == FoldLeft(+, 0, numbers)

Matching(rows) == SelectSeq(rows, LAMBDA r : r.hit)

\* The sensors a request is about, or why it is refused; one that names none
\* is about all its reader may read.
ResolveSensors(role, named) ==
    LET known == BuiltInSensors \o SubSeq(ImportNames, 1, Len(imports)) IN
    CASE named = <<>> ->
           [error |-> "", sensors |-> SelectSeq(known, LAMBDA s : s \notin Denied[role])]
      [] named # <<>> /\ ~ ToSet(named) \subseteq Sensors ->
           [error |-> "unknown_sensor", sensors |-> <<>>]
      [] named # <<>> /\ ToSet(named) \subseteq Sensors /\ ToSet(named) \cap Denied[role] # {} ->
           [error |-> "forbidden_sensor", sensors |-> <<>>]
      [] OTHER -> [error |-> "", sensors |-> named]

ValidWindow(from, to) ==
    from < to /\ to - from <= MaxWindow /\ DataStart < to /\ from <= now

\* The part of a window a sensor can answer for.
VisibleWindowExcluded(sensor, from, to) ==
    LET start == Max({from, DataStart})
    IN  [sensor |-> sensor, start |-> start, end |-> Max({start, Min({to, VisibleUntil(sensor)})})]

VisibleWindow(sensor, from, to) ==
    LET start == Max({from, DataStart})
    IN  [sensor |-> sensor, start |-> start,
         end    |-> Max({start, Min({to, VisibleUntil(sensor) + 1})})]

\* The windows of the sensors a request names, in its order.
Windows(sensors, from, to) ==
    [i \in DOMAIN sensors |-> VisibleWindow(sensors[i], from, to)]

RowsIn(window) == Rows(window.sensor, window.start, window.end)

BucketCount(from, to, width) == Max({1, (to - from + width - 1) \div width})

\* The rows of a window that fall into the bucket that starts at a time.
InBucket(window, start, width) ==
    SelectSeq(Matching(RowsIn(window)), LAMBDA r : start <= r.start /\ r.start < start + width)

-----------------------------------------------------------------------------
(* Counts over time.                                                       *)

\* How much of a bucket a sensor captured: what of its window is in it, less
\* the outages.
CoveredTime(window, start, end) ==
    LET low  == Max({start, window.start})
        high == Min({end, window.end})
        lost == [o \in IF window.sensor = Scripted THEN Outages ELSE {} |->
                    Max({0, Min({high, o[2]}) - Max({low, o[1]})})]
    IN  IF high <= low THEN 0
        ELSE Max({0, (high - low) - MapThenSumSet(LAMBDA o : lost[o], DOMAIN lost)})

Protocols(rows) == {rows[i].protocol : i \in DOMAIN rows}

Bucket(windows, start, width) ==
    LET rows == FlattenSeq([i \in DOMAIN windows |-> InBucket(windows[i], start, width)])
    IN  [start      |-> start,
         covered    |-> Total([i \in DOMAIN windows |->
                                  CoveredTime(windows[i], start, start + width)]),
         partial    |-> start <= now /\ now < start + width,
         byProtocol |-> [p \in Protocols(rows) |->
                            Len(SelectSeq(rows, LAMBDA r : r.protocol = p))],
         bytes      |-> Total([i \in DOMAIN rows |-> rows[i].bytes])]

\* A bucket in which nothing was captured is left out.
Histogram(sensors, from, to, width) ==
    LET windows == Windows(sensors, from, to)
    IN  SelectSeq([i \in 1 .. BucketCount(from, to, width) |->
                      Bucket(windows, from + (i - 1) * width, width)],
                  LAMBDA b : b.covered > 0)

\* GET /histogram: refused, or the buckets of the sensors asked about.
HistogramAnswer(role, named, from, to, width) ==
    LET resolved == ResolveSensors(role, named) IN
    CASE resolved.error # "" -> [error |-> resolved.error, buckets |-> <<>>]
      [] resolved.error = "" /\ (~ ValidWindow(from, to) \/ BucketCount(from, to, width) > MaxBuckets) ->
           [error |-> "bad_range", buckets |-> <<>>]
      [] OTHER -> [error |-> "", buckets |-> Histogram(resolved.sensors, from, to, width)]

\* Occurrences of a value, per sensor; a bucket without any is left out.
PivotOccurrences(sensors, from, to, width) ==
    [i \in DOMAIN sensors |->
        SelectSeq([k \in 1 .. BucketCount(from, to, width) |->
                      [start |-> from + (k - 1) * width,
                       count |-> Len(InBucket(VisibleWindow(sensors[i], from, to),
                                              from + (k - 1) * width, width))]],
                  LAMBDA b : b.count > 0)]

-----------------------------------------------------------------------------
(* What a search is told its sensors cannot answer for (search/jobs.py).   *)

GapWarning(sensor, outage, from, to) ==
    [code |-> "capture_gap", sensor |-> sensor,
     from |-> Max({outage[1], from}), to |-> Min({outage[2], to})]

LagWarning(sensor, to) ==
    [code |-> "sensor_lagging", sensor |-> sensor, from |-> VisibleUntil(sensor), to |-> to]

GapsOf(sensor) == IF sensor = Scripted THEN Outages ELSE {}

WarningsForBeginnings(sensors, from, to) ==
    UNION {{GapWarning(s, o, from, to) : o \in {g \in GapsOf(s) : from <= g[1] /\ g[1] < to}}
           \cup {LagWarning(s, to) : l \in {q \in {s} \cap Lagging : VisibleUntil(q) < to}} : s \in sensors}

WarningsFor(sensors, from, to) ==
    UNION {{GapWarning(s, o, from, to) : o \in {g \in GapsOf(s) : Max({g[1], from}) < Min({g[2], to})}}
           \cup {LagWarning(s, to) : l \in {q \in {s} \cap Lagging : VisibleUntil(q) < to}} : s \in sensors}

-----------------------------------------------------------------------------
(* The estimate: of each sensor a sample of every step-th row, newest      *)
(* first, scaled to all its rows and rounded (halves to even).             *)

Rounded(n, d) ==
    LET below == n \div d
        twice == 2 * (n % d)
    IN  IF twice > d \/ (twice = d /\ below % 2 = 1) THEN below + 1 ELSE below

SampledMatchesUp(rows, budget) ==
    LET step   == Max({1, Len(rows) \div budget})
        sample == [i \in 1 .. Len(rows) \div step |-> rows[(i - 1) * step + 1]]
    IN  IF rows = <<>> THEN 0 ELSE Len(Matching(sample)) * (step + 1)

SampledMatches(rows, budget) ==
    LET step   == Max({1, Len(rows) \div budget})
        sample == [i \in 1 .. (Len(rows) + step - 1) \div step |-> rows[(i - 1) * step + 1]]
    IN  IF rows = <<>> THEN 0
        ELSE Rounded(Len(Matching(sample)) * Len(rows), Len(sample))

Estimate(sensors, from, to) ==
    LET windows == Windows(sensors, from, to)
        budget  == Max({1, SampleTarget \div Max({1, Len(windows)})})
    IN  [matches |-> Total([i \in DOMAIN windows |->
                               SampledMatches(Reverse(RowsIn(windows[i])), budget)]),
         scanned |-> Total([i \in DOMAIN windows |-> Len(RowsIn(windows[i]))])]

-----------------------------------------------------------------------------
(* The graph of conversations.                                             *)

Sum(rows) == [sessions |-> Len(rows), bytes |-> Total([i \in DOMAIN rows |-> rows[i].bytes])]

\* Both ends of a row count it, and a row that ends where it starts twice.
GraphNodeOnce(rows, ip) ==
    [id |-> ip] @@ Sum(SelectSeq(rows, LAMBDA r : ip \in {r.src, r.dst}))

GraphNode(rows, ip) ==
    LET out == Sum(SelectSeq(rows, LAMBDA r : r.src = ip))
        in  == Sum(SelectSeq(rows, LAMBDA r : r.dst = ip))
    IN  [id |-> ip, sessions |-> out.sessions + in.sessions, bytes |-> out.bytes + in.bytes]

GraphEdge(rows, a, b) ==
    [a |-> a, b |-> b] @@ Sum(SelectSeq(rows, LAMBDA r : {r.src, r.dst} = {a, b}))

\* All addresses, the busiest first.
Ranking(rows) ==
    LET ips == UNION {{rows[i].src, rows[i].dst} : i \in DOMAIN rows}
    IN  SortSeq(SetToSeq({GraphNode(rows, ip) : ip \in ips}), LAMBDA m, n :
            m.bytes > n.bytes \/ (m.bytes = n.bytes /\ m.id < n.id))

\* Those that fit, and the conversations between them.
GraphOf(rows, nodes, limit, running) ==
    LET ranked == SubSeq(nodes, 1, Min({limit, Len(nodes)}))
        kept   == {ranked[i].id : i \in DOMAIN ranked}
        pairs  == {<<Min({rows[i].src, rows[i].dst}), Max({rows[i].src, rows[i].dst})>> :
                       i \in DOMAIN rows}
    IN  [nodes   |-> ranked,
         edges   |-> {GraphEdge(rows, p[1], p[2]) :
                         p \in {q \in pairs : {q[1], q[2]} \subseteq kept}},
         partial |-> running \/ Len(ranked) < Len(nodes)]

ConversationGraph(rows, limit, running) == GraphOf(rows, Ranking(rows), limit, running)
=============================================================================
