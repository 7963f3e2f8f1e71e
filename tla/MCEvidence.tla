----------------------------- MODULE MCEvidence -----------------------------
(* Instances of what a reader asks of the capture and what is answered: a  *)
(* query typed, a filter row typed, rows read, sessions opened and paged,  *)
(* packets written, samples drawn, a body decoded, an upload scanned, the   *)
(* blocks of the background and the incident made; one part at a time.     *)
EXTENDS Lql, Analytics, PcapWriter, SessionViews, CaptureScan, Background

VARIABLES part, draw, schedule, truth

storyVars == <<draw, schedule, truth>>

evidenceVars == <<lvars, rvars, cvars, pvars, fvars, dvars, uvars, bvars, storyVars, part>>

(* The incident has times of its own: units of ten minutes, hours of six,  *)
(* three days before the epoch and one hour after it.                      *)
StoryAhead == [email |-> 366, contact |-> 360, smb |-> 240, exfil |-> 228, gap |-> 120]
StoryPause == [contact |-> 1, smb |-> 24, exfil |-> 4, gap |-> 24]
StoryDraws ==
  {[shift |-> shift, wait |-> IF long THEN 2 ELSE 1, length |-> IF long THEN 15 ELSE 9,
    lookups |-> <<0, 1>>, denied |-> IF long THEN 1 ELSE 0, files |-> IF long THEN 6 ELSE 4,
    uploads |-> IF long THEN <<2, 3>> ELSE <<4, 5, 4>>,
    lasts |-> IF long THEN <<9, 1>> ELSE IF j[1] = 2 THEN <<1, 5, 1>> ELSE <<2, 1, 2>>,
    jitter |-> [email |-> j[1], contact |-> j[2], smb |-> IF j[3] = 2 THEN 2 ELSE -1,
                exfil |-> j[4], gap |-> 2 * j[4]]] :
     shift \in {-24, 23}, long \in BOOLEAN, j \in [1 .. 4 -> {-3, 2}]}
StoryGaps == [n \in 1 .. 300 |-> 5 + ((n * n) % 3)]
StoryBeacon ==
  [sensor |-> "branch", tag |-> "beacon", start |-> 0, up |-> 1, rules |-> <<"beacon">>]
StoryIndexes == [hq |-> 1, branch |-> 2, dc |-> 3]
Story == INSTANCE Scenario WITH
  HourTime <- 6, MinuteTime <- 1, DataStart <- 0, Epoch <- 432, MaxNow <- 438, Retention <- 288,
  MinuteSpan <- 512, OrdinalSpan <- 32, Scripted <- "branch", SensorIndex <- StoryIndexes,
  BeaconGap <- StoryGaps, FiresFrom <- 11, DedupeTime <- 6, BeaconDraft <- StoryBeacon,
  HeadOffice <- "hq", DataCentre <- "dc", Draws <- StoryDraws, Ahead <- StoryAhead, Pause <- StoryPause,
  MassReadTime <- 2, MassReadSearched <- 2, GapTime <- 2, HoursAsked <- {73}

(* The inputs of the other parts stay at one value.                        *)
OneSession == CHOOSE s \in Sessions : TRUE
OneAsked == CHOOSE a \in [row: FlowRows, width: Widths, open: {TRUE}] : TRUE
OneStart == CHOOSE start \in RowStarts : TRUE
OneDraw == CHOOSE d \in StoryDraws : TRUE
OneBody == [protocol |-> "smb2", body |-> CHOOSE b \in Bodies["smb2"] : TRUE]

EvidenceInit ==
  /\ part \in {"query", "row", "read", "page", "packets", "flow", "decode", "scan", "block", "story"}
  /\ LqlInit /\ CaptureInit /\ ScanInit /\ BackgroundInit
  /\ IF part = "story" THEN draw \in StoryDraws ELSE draw = OneDraw
  /\ schedule = Story!NoBeacons /\ truth = Story!NoTruth
  /\ IF part = "row" THEN raw \in RowStarts ELSE raw = OneStart
  /\ IF part = "packets" THEN session \in Sessions ELSE session = OneSession
  /\ IF part = "flow" THEN FlowInit ELSE asked = OneAsked
  /\ IF part = "decode" THEN DecodeInit ELSE decoded = OneBody
  /\ RowsInit /\ PcapInit /\ FlowInit /\ DecodeInit

QueryPart ==
  part = "query" /\ LqlNext /\ UNCHANGED <<rvars, cvars, pvars, fvars, dvars, uvars, bvars, storyVars, part>>
RowPart ==
  part = "row" /\ RowsNext /\ UNCHANGED <<lvars, cvars, pvars, fvars, dvars, uvars, bvars, storyVars, part>>
CapturePart ==
  /\ Tick \/ (part = "read" /\ Reading) \/ (part = "page" /\ (Paging \/ Fetching))
  /\ part \in {"read", "page"}
  /\ UNCHANGED <<lvars, rvars, pvars, fvars, dvars, uvars, bvars, storyVars, part>>
PacketsPart ==
  part = "packets" /\ PcapNext /\ UNCHANGED <<lvars, rvars, cvars, fvars, dvars, uvars, bvars, storyVars, part>>
FlowPart ==
  part = "flow" /\ FlowNext /\ UNCHANGED <<lvars, rvars, cvars, pvars, dvars, uvars, bvars, storyVars, part>>
DecodePart ==
  part = "decode" /\ DecodeNext /\ UNCHANGED <<lvars, rvars, cvars, pvars, fvars, uvars, bvars, storyVars, part>>
ScanPart ==
  part = "scan" /\ ScanNext /\ UNCHANGED <<lvars, rvars, cvars, pvars, fvars, dvars, bvars, storyVars, part>>

BlockPart ==
  /\ part = "block" /\ BackgroundNext
  /\ UNCHANGED <<lvars, rvars, cvars, pvars, fvars, dvars, uvars, storyVars, part>>
StoryPart ==
  /\ part = "story" /\ Story!ScenarioNext
  /\ UNCHANGED <<lvars, rvars, cvars, pvars, fvars, dvars, uvars, bvars, part>>

EvidenceNext ==
  \/ QueryPart \/ RowPart \/ CapturePart \/ PacketsPart \/ FlowPart \/ DecodePart \/ ScanPart
  \/ BlockPart \/ StoryPart

EvidenceSpec == EvidenceInit /\ [][EvidenceNext]_evidenceVars

-----------------------------------------------------------------------------
(* The catalogue, three addresses, and the rows filters are tried on.      *)
FewHosts ==
  [a \in {<<"1", "1">>, <<"1", "2">>, <<":", "1">>} |->
     CASE a = <<"1", "1">> -> {<<"a">>} [] a = <<"1", "2">> -> {<<"\"", "A">>} [] OTHER -> {}]
FewCountries == [a \in DOMAIN FewHosts |-> IF a = <<"1", "1">> THEN {} ELSE {<<"PT">>}]
FieldDef(type, ops, enum, protocol) ==
  [type |-> type, operators |-> ops, values |-> enum, protocol |-> protocol]
FewFields ==
  [f \in {"dst.port", "src.ip", "host", "protocol", "tls.sni"} |->
     CASE f = "dst.port" -> FieldDef("number", {"eq", "gte", "lte", "between"}, {}, "")
       [] f = "src.ip"   -> FieldDef("ip", {"eq", "cidr", "exists"}, {}, "")
       [] f = "host"     -> FieldDef("text", {"eq", "glob", "exists"}, {}, "")
       [] f = "protocol" -> FieldDef("enum", {"eq"}, {<<"tls">>, <<"dns">>}, "")
       [] f = "tls.sni"  -> FieldDef("text", {"eq", "glob", "exists"}, {}, "tls")]
FilteredRow(protocol, src, dst, port, sni) ==
  [protocol |-> protocol, src |-> src, dst |-> dst, port |-> port, attrs |-> [f \in {"tls.sni"} |-> sni]]
FilteredRows ==
  {FilteredRow("tls", <<"1", "1">>, <<"1", "2">>, <<"1">>, {<<"a">>}),
   FilteredRow("tls", <<"1", "2">>, <<":", "1">>, <<"2">>, {<<>>}),
   FilteredRow("dns", <<":", "1">>, <<"1", "1">>, <<"3">>, {<<"a">>}),
   FilteredRow("dns", <<"1", "2">>, <<"1", "2">>, <<"1", "2">>, {})}

FewPhrases ==
  {<<"(", " ">>, <<")", " ">>, <<"not", " ">>, <<"and", " ">>, <<"OR", " ">>,
   <<"dst.port", " ", "between", " ", "2", ".", ".", "1", " ">>,
   <<"host", "!=", "\"", "\\", "\"", "A", "\"", " ">>, <<"has", " ", "tls.sni", " ">>}
MoreOpeners ==
  {<<"host", " ", "in", " ", "(", "a", ",", "\"", "in", "\"", ")", " ">>,
   <<"host", " ", "in", " ", "(", "a", " ">>, <<",", "A", " ">>,
   <<"host", " ", "~", "a", "*", " ">>, <<"host", "=", "or", " ">>,
   <<"src.ip", " ", "cidr", " ", "1", "/", " ">>, <<"dst.port", " ", "between", " ", "1", " ">>,
   <<".", ".", "3", " ">>, <<".", ".", " ">>, <<"3", " ">>, <<"tls.sni", "=", "\"", "\"", " ">>,
   <<"dst.port", ">=", "a", " ">>, <<"host", " ">>, <<"=", "a", " ">>, <<"\"", "a", " ">>,
   <<"(", "host", "=", "a", " ", "or", " ">>, <<"!", " ">>, <<"protocol", "=", "tls", " ">>}
FewValueChars == {"a", "A", ",", "\\", "1", "*"}
FewRowStarts ==
  {<<f, ":">> \o n \o <<o, ":">> : f \in {"host", "dst.port", "src.ip", "nobody"},
     n \in {<<>>, <<"!">>}, o \in {"eq", "in", "glob", "between", "gte", "cidr", "exists"}}

-----------------------------------------------------------------------------
(* Two sensors, one that lags and went down for a while; an hour is four   *)
(* units and two minutes, and a draft strays out of its hour.              *)
Draft(start, src, dst, rules, files) ==
  [start |-> start, src |-> src, dst |-> dst, rules |-> rules, files |-> files,
   bytes |-> (start % 3) + 1, hit |-> start % 2 = 0, protocol |-> IF src = 1 THEN "dns" ELSE "tls"]
TwoSensors == <<"hq", "branch">>
TwoImports == <<"imp-1", "imp-2">>
OneOutage == {<<8, 10>>}
TwoIndexes == [s \in {"hq", "branch"} |-> IF s = "hq" THEN 1 ELSE 2]
TwoLags == [s \in {"hq", "branch"} |-> IF s = "hq" THEN 0 ELSE 1]
FewDrafts ==
  [s \in {"hq", "branch"} |-> [h \in 0 .. 7 |->
     CASE s = "hq" /\ h = 1 ->
            <<Draft(6, 1, 2, <<"dns">>, <<>>), Draft(4, 2, 1, <<>>, <<"kept", "purged">>),
              Draft(9, 1, 2, <<>>, <<>>)>>
       [] s = "hq" /\ h = 2 ->
            <<Draft(11, 2, 1, <<>>, <<"trap">>), Draft(11, 1, 2, <<"scan">>, <<>>)>>
       [] s = "hq" /\ h = 3 ->
            <<Draft(12, 1, 2, <<>>, <<>>), Draft(13, 3, 2, <<"dns">>, <<>>), Draft(14, 1, 2, <<>>, <<>>)>>
       [] s = "branch" /\ h = 2 ->
            <<Draft(8, 1, 3, <<"dns">>, <<>>), Draft(10, 3, 1, <<"dns">>, <<>>)>>
       [] OTHER -> <<>>]]
OneBeacon == Draft(0, 3, 4, <<"beacon">>, <<>>)
FewGaps == [n \in 1 .. 20 |-> CASE n \in {1, 4} -> 2 [] n = 2 -> 1 [] n > 5 -> 4 [] OTHER -> 3]
FewDelays == [t \in 0 .. 30 |-> IF t % 3 = 1 THEN 1 ELSE 2]
TwoCaptures ==
  [i \in {"i1", "i2"} |-> IF i = "i1" THEN [first |-> 10, last |-> 7, sessions |-> 4]
                          ELSE [first |-> 2, last |-> 18, sessions |-> 2]]
ImportDrafts ==
  [i \in {"i1", "i2"} |-> IF i = "i1" THEN Draft(0, 1, 2, <<>>, <<>>) ELSE Draft(0, 2, 2, <<>>, <<>>)]
FewIds ==
  {EncodeSessionId(1, 2, 0), EncodeSessionId(1, 5, 0), EncodeSessionId(1, 7, 0), EncodeSessionId(2, 3, 1),
   EncodeSessionId(2, 5, 1), EncodeSessionId(3, 3, 0), EncodeSessionId(3, 4, 0)}
TwoRoles == [r \in {"analyst", "observer"} |-> IF r = "observer" THEN {"hq"} ELSE {}]

(* Short and long sessions, with messages that fit a segment and that do   *)
(* not, and sequence numbers that wrap around.                             *)
Says(d, n) == [dir |-> d, len |-> n]
SessionOf(end, up, down, transport, isn, exchange) ==
  [start |-> 5, end |-> end, up |-> up, down |-> down, transport |-> transport, isn |-> isn,
   exchange |-> exchange]
FewSessions ==
  {SessionOf(end, up, down, "tcp", <<isn, 0>>, exchange) :
     end \in {5, 6, 50}, up \in 0 .. 5, down \in {0, 1, 4, 5}, isn \in {13, 3},
     exchange \in {<<>>, <<Says(1, 3)>>, <<Says(1, 2), Says(2, 5)>>,
                   <<Says(2, 1), Says(1, 0), Says(2, 2)>>}}
  \cup {SessionOf(9, up, up, "udp", <<0, 0>>, <<Says(1, up), Says(2, 4)>>) : up \in 0 .. 3}

FlowRow(start, duration, profile, up, down, sent, got) ==
  [start |-> start, duration |-> duration, profile |-> profile,
   totals |-> [c \in {"bytes_up", "bytes_down", "packets_up", "packets_down"} |->
                 CASE c = "bytes_up" -> up [] c = "bytes_down" -> down [] c = "packets_up" -> sent
                   [] OTHER -> got]]
FewFlowRows ==
  {FlowRow(start, duration, profile, 7, down, 2, got) :
     start \in {4, 5}, duration \in {0, 3, 12}, profile \in {"burst", "idle", "upload", "short"},
     down \in {0, 5}, got \in {0, 3}}
FewRanges ==
  [p \in {"burst", "idle", "upload", "bulk", "short"} |->
     CASE p = "burst" -> <<2, 3>> [] p = "short" -> <<1, 3>> [] p = "idle" -> <<2, 6>> [] OTHER -> <<3, 4>>]

(* Headers in both cases of letters, repeated, and not sensitive.          *)
Number(n) == [kind |-> "number", value |-> n]
Header(n, v) == Dict([name |-> Text(n), value |-> Text(v)])
FewSensitive == {"cookie", "set-cookie"}
FewLowerCase ==
  [n \in {"Cookie", "cookie", "Set-Cookie", "Host"} |->
     CASE n = "Host" -> "host" [] n = "Set-Cookie" -> "set-cookie" [] OTHER -> "cookie"]
UpTo(n, values) == UNION {[1 .. k -> values] : k \in 0 .. n}
HeaderLists ==
  UpTo(2, {Header("Cookie", "sid"), Header("cookie", "sid2"), Header("Host", "h"), Header("Set-Cookie", "lang")})
FewBodies ==
  [p \in {"http", "smtp", "smb2", "dns"} |->
     CASE p = "http" -> {Dict([request_headers |-> List(h), response_headers |-> List(g),
                               status |-> Number(200), truncated |-> Bool(FALSE)]) :
                           h \in HeaderLists, g \in HeaderLists}
       [] p = "smtp" -> {Dict([rcpt_to |-> List(r), attachments |-> List(a), starttls |-> Bool(TRUE)]) :
                           r \in UpTo(2, {Text("sid"), Text("sid2")}),
                           a \in {<<>>, <<Dict([size |-> Number(3)])>>}}
       [] p = "smb2" -> {Dict([user |-> Text("sid"), tree |-> Text("t")])}
       [] OTHER -> {Dict([rcode |-> Dict([code |-> Number(0), name |-> Text("ok")]), answers |-> List(s)]) :
                      s \in {<<>>, <<Dict([ttl |-> Number(5), aa |-> Bool(FALSE)])>>, <<Number(1), Number(2)>>}}]

(* A byte is 0 to 3; <<3, 3>> begins a pcap file and <<3, 2>> a pcapng.    *)
FewMagics == [m \in {<<3, 3>>, <<3, 2>>} |-> IF m = <<3, 3>> THEN "pcap" ELSE "pcapng"]

-----------------------------------------------------------------------------
TwoVendors == <<"ws1", "ws2">>
(* Three hours of the office, one of each other sensor.                    *)
OneOf(drafts) == {<<d>> : d \in drafts}
HourZero == {d \in DnsDrafts(1) \cup HttpDrafts(1) \cup PrinterDrafts(1) : d.method # "HEAD" /\ d.rcode # "SERVFAIL"}
(* A download, a page that is not there, and a form that is sent there.     *)
ClearHttp(start) ==
  {d \in HttpDrafts(start) : d.method # "HEAD" /\ (d.status = 404 \/ d.files # <<>>)}
ClearGets(start) == {d \in ClearHttp(start) : d.method = "GET"}
FewOrdinary ==
  (<<"hq", 0>> :> [1 .. 2 -> HourZero]) @@ (<<"hq", 1>> :> {<<DraftOf("tls", 7)>>})
  @@ (<<"hq", 2>> :> {<<DraftOf("tls", 13)>>}) @@ (<<"dc", 0>> :> {<<DraftOf("smb2", 2)>>})
  @@ (<<"branch", 1>> :> OneOf(ClearHttp(8))
                         \cup {<<a, b>> \in ClearGets(10) \X ClearGets(8) : (a.files = <<>>) # (b.files = <<>>)})
FewLocalHours == [k \in DOMAIN FewOrdinary |-> k[2] + 1]
FewAnchors == [h \in {"ws1", "ws2"} |-> IF h = "ws1" THEN 1 ELSE 3]
FewSlips == [t \in 0 .. 20 |-> t % 2]
(* The branch was out for a while of its hour; of two of its downloads the *)
(* first may be lost, and so may a beacon.                                 *)
FewStaged ==
  [k \in DOMAIN FewOrdinary |->
     IF k = <<"branch", 1>> THEN <<[DraftOf("tls", 7) EXCEPT !.tag = "beacon", !.rules = <<"beacon">>],
                                   [DraftOf("tls", 9) EXCEPT !.tag = "beacon"]>>
     ELSE IF k = <<"hq", 0>>
     THEN <<[DraftOf("smtp", 3) EXCEPT !.tag = "email", !.rules = <<"lookalike_sender">>,
                                       !.files = <<[source |-> "smtp_attachment", name |-> "invoice"]>>]>>
     ELSE <<>>]
BranchOut == {[sensor |-> "branch", start |-> 9, end |-> 11]}
FewSlots == [f \in {"trap", "odd"} |-> IF f = "trap" THEN <<"hq", 0>> ELSE <<"branch", 1>>]

-----------------------------------------------------------------------------
\* A text that is read means what its normal form means: normalize, which the
\* URL and the hunts keep, writes parentheses, quotes and escapes so that
\* Parser reads the same conditions again, selecting the same rows, and its
\* own normal form (search/lql.py).
NormalFormReadsBack ==
  parsed.ok =>
    LET again == Parse(Normalize(parsed.node)) IN
    /\ again.ok
    /\ Normalize(again.node) = Normalize(parsed.node)
    /\ Selected(again.node, FilteredRows) = Selected(parsed.node, FilteredRows)

\* An error before the end of the text (LqlError) stays where it is, with what
\* was expected there, whatever is typed behind it, as long as that can be cut
\* into tokens.
ErrorsStay ==
  [][(~ parsed.ok /\ parsed.end < Len(text) /\ Tokenizes(text')) => parsed' = parsed]_lvars

\* A filter row that is read is written back into the URL so that it reads the
\* same: serialize_row escapes what split_values would part (search/grammar.py).
RowReadsBack ==
  part = "row" /\ answer.row # NoRow => ParseRow(SerializeRow(answer.row)).row = answer.row

\* A row selects what its values select one by one: any of them, and for a
\* range the rows between its bounds in either order; negated, all the others
\* (row_to_node, _any_of, compile_filter).
RowMeansItsValues ==
  part = "row" /\ answer.row # NoRow /\ answer.error = "" =>
    LET row == answer.row
        one(i) == Selected(FilterCond(row.field, IF row.op = "in" THEN "eq" ELSE row.op, <<row.values[i]>>),
                           FilteredRows)
        bound(op, i) == Selected(FilterCond(row.field, op, <<row.values[i]>>), FilteredRows)
        selects ==
          CASE row.op = "exists"  -> Selected(FilterCond(row.field, "exists", <<>>), FilteredRows)
            [] row.op = "between" -> (bound("gte", 1) \cap bound("lte", 2)) \cup (bound("gte", 2) \cap bound("lte", 1))
            [] OTHER              -> UNION {one(i) : i \in DOMAIN row.values}
    IN  Selected(answer.node, FilteredRows) = IF row.negated THEN FilteredRows \ selects ELSE selects

(* A query means the same as typed, as written back and as a row, and an   *)
(* error stays where it is.                                                *)
QueriesHold ==
  /\ [](NormalFormReadsBack /\ RowReadsBack /\ RowMeansItsValues)
  /\ ErrorsStay

-----------------------------------------------------------------------------
AllRows(sensor) == FlattenSeq([h \in 1 .. HourOf(MaxNow) + 1 |-> Block(sensor, h - 1)])

Heard == Until(Ensured(ledger, HourOf(now)), now)

\* The ledger (DetectionLedger), built an hour at a time from the rows of two,
\* has every detection that was released, each once, in the order of release;
\* and the session a detection names can be opened.
LedgerIsWhole ==
  part = "read" =>
    LET built(i) == DetectionsIn(AllRows(BuiltInSensors[i]))
        all == SortSeq(FlattenSeq([i \in DOMAIN BuiltInSensors |-> built(i)]), Earlier)
    IN  /\ Heard = SelectSeq(all, LAMBDA d : d.time <= now)
        /\ \A d \in ToSet(Heard) : Row(d.session) # {}

\* A walk through the sessions like one of them (list_related_sessions) shows
\* each that was there when it began exactly once, in pages of any size, while
\* the clock goes on and blocks are made, unless the imports are cleared.
RelatedOnce == walk.over /\ ~ walk.reset => IsInjective(walk.seen) /\ ToSet(walk.seen) = walk.promised

Idle == part = "page" /\ walk = NoWalk /\ pcaps = <<>>

\* Every row a list shows is visible, in order and in its window, no row that
\* is is missing, and its id opens it and each of its files, and no other
\* (SimWorld.rows, raw_row, file; decode_session_id).
EveryListedRowOpens ==
  Idle =>
    \A sensor \in Sensors : \A start \in {0, 7}, end \in {11, MaxNow + 1} :
      LET listed == Rows(sensor, start, end)
          answered(kind) == CASE kind = "trap" -> "extraction_failed" [] kind = "purged" -> "file_purged"
                              [] OTHER -> "sent"
      IN  /\ listed = SelectSeq(AllRows(sensor), LAMBDA r :
                        Max({start, DataStart}) <= r.start /\ r.start < end /\ r.start <= VisibleUntil(sensor))
          /\ \A i \in 2 .. Len(listed) : /\ listed[i - 1].start <= listed[i].start
                                         /\ listed[i - 1].id < listed[i].id
          /\ \A i \in DOMAIN listed : LET r == listed[i] IN
               /\ Row(r.id) = {r}
               /\ \A k \in 1 .. 3 : FileAnswer(r.id, [session |-> r.id, ordinal |-> k])
                                      = IF k \in DOMAIN r.files THEN answered(r.files[k]) ELSE "file_not_found"

-----------------------------------------------------------------------------
SensorLists ==
  {<<>>, <<"branch">>, <<"hq", "branch">>, <<"imp-2">>} \cup (IF imports = <<>> THEN {} ELSE {<<"imp-1", "branch">>})
CountIn(windows) == Total([i \in DOMAIN windows |-> Len(Matching(RowsIn(windows[i])))])

BucketsAddUp(buckets, pivot, all, most) ==
  LET counted(b) == MapThenSumSet(LAMBDA p : b.byProtocol[p], DOMAIN b.byProtocol) IN
  /\ Total([i \in DOMAIN buckets |-> counted(buckets[i])]) = all
  /\ Total([i \in DOMAIN pivot |-> pivot[i].count]) = all
  /\ \A i \in DOMAIN buckets :
       /\ buckets[i].covered <= most
       /\ counted(buckets[i])
            = Total([k \in DOMAIN pivot |-> IF pivot[k].start = buckets[i].start THEN pivot[k].count ELSE 0])

BucketsCover(buckets, sensors, from, to, width) ==
  LET live(s, t) == /\ DataStart <= t /\ t <= VisibleUntil(s)
                    /\ ~ (s = Scripted /\ \E o \in Outages : o[1] <= t /\ t < o[2])
  IN  \A t \in from .. to - 1 : (\E s \in sensors : live(s, t)) =>
        \E i \in DOMAIN buckets : buckets[i].start <= t /\ t < buckets[i].start + width

\* A histogram counts every matching row of its window once, a pivot the same
\* rows, bucket by bucket; no bucket claims more time than it has, and none in
\* which any of the sensors captured is left out; of a sensor its reader may
\* not read nothing is counted (histogram, pivot_occurrences, resolve_sensors).
HistogramAddsUp ==
  Idle => \A role \in DOMAIN Denied, named \in SensorLists, from \in {3, 6}, end \in {<<10, 3>>, <<14, 2>>} :
    LET to == end[1]
        width == end[2]
        sensors == ResolveSensors(role, named).sensors
        answered == HistogramAnswer(role, named, from, to, width)
    IN  answered.error = "" =>
          /\ ToSet(sensors) \cap Denied[role] = {}
          /\ BucketsAddUp(answered.buckets, FlattenSeq(PivotOccurrences(sensors, from, to, width)),
                          CountIn(Windows(sensors, from, to)), width * Len(sensors))
          /\ BucketsCover(answered.buckets, ToSet(sensors), from, to, width)

\* Where a search finds no rows because nobody was looking, it says so: of the
\* sensors that say they lag or were out, no time of a window is blind without a
\* warning that covers it, and no row is listed from a time a gap is announced
\* for (warnings_for, against the blocks and the clock the rows come from).
BlindTimesAreTold ==
  Idle => \A from \in 3 .. 13 : \A to \in from + 1 .. 14 : ValidWindow(from, to) =>
    LET told == WarningsFor(Sensors, from, to)
        covers(w, t) == w.from <= t /\ t < w.to
        gaps == {w \in told : w.code = "capture_gap"}
        blind(s, t) == (s \in Lagging /\ VisibleUntil(s) < t) \/ (s = Scripted /\ \E o \in Outages : o[1] <= t /\ t < o[2])
    IN  /\ \A s \in Sensors, t \in from .. to - 1 : blind(s, t) => \E w \in told : w.sensor = s /\ covers(w, t)
        /\ \A w \in gaps : from <= w.from /\ w.to <= to /\ Rows(w.sensor, w.from, w.to) = <<>>

\* An estimate never promises more rows than there are, and when it looks at
\* every row it is exact (search/estimate.py).
EstimateFits ==
  Idle => \A sensors \in SensorLists \ {<<>>, <<"imp-2">>}, from \in {3, 6}, to \in {10, 14} :
    LET e == Estimate(sensors, from, to)
        windows == Windows(sensors, from, to)
    IN  /\ e.matches <= e.scanned
        /\ (\A i \in DOMAIN windows : Len(RowsIn(windows[i])) < 2 * (SampleTarget \div Len(windows)))
             => e.matches = CountIn(windows)

\* What the edges that end at a node say of it.
NodeAddsUp(graph, n) ==
  LET ends(e) == (IF e.a = n.id THEN 1 ELSE 0) + (IF e.b = n.id THEN 1 ELSE 0)
      sessions == MapThenSumSet(LAMBDA e : ends(e) * e.sessions, graph.edges)
      bytes == MapThenSumSet(LAMBDA e : ends(e) * e.bytes, graph.edges)
  IN  IF graph.partial THEN sessions <= n.sessions /\ bytes <= n.bytes
      ELSE sessions = n.sessions /\ bytes = n.bytes

NodesAddUp(graph) == \A i \in DOMAIN graph.nodes : NodeAddsUp(graph, graph.nodes[i])

RowsOf(windows) == FlattenSeq([i \in DOMAIN windows |-> RowsIn(windows[i])])

\* In a graph of conversations a node's sessions and bytes are those of the
\* edges that end there, an edge with itself twice; a graph that leaves nodes
\* out says so, and its edges account for no more than its nodes
\* (conversation_graph).
GraphAddsUp ==
  Idle => \A sensors \in SensorLists \ {<<>>, <<"imp-2">>}, limit \in {2, 4} :
    NodesAddUp(ConversationGraph(RowsOf(Windows(sensors, 3, 15)), limit, FALSE))

(* What is listed, opened, paged, found by rules, counted, estimated and   *)
(* drawn are the same rows, times without rows for want of a sensor are    *)
(* announced, and of one session the samples add up to its row and its     *)
(* body shows an observer all but what is sensitive.                       *)
RowsAddUp ==
  /\ LedgerIsWhole
  /\ RelatedOnce
  /\ EveryListedRowOpens
  /\ HistogramAddsUp
  /\ BlindTimesAreTold
  /\ EstimateFits
  /\ GraphAddsUp
  /\ SamplesAddUp
  /\ SamplesFitTheSession
  /\ RedactionIsExact

-----------------------------------------------------------------------------
\* A host checks in once in every period, across the hours that are made one
\* by one and in any order, also where a period straddles two of them; a host
\* that looks suspicious raises a detection every second time, one that does
\* not never (_vendor_beacons, _clamp_to_hour).
VendorKeepsTime ==
  \A host \in ToSet(VendorHosts), k \in 0 .. (3 * BlockTime) \div VendorPeriod :
    LET from == VendorAnchor[host] + k * VendorPeriod
        hours == (from \div BlockTime) .. ((from + VendorPeriod - 1) \div BlockTime)
        rows == UNION {{made[<<Office, h>>][i] : i \in DOMAIN made[<<Office, h>>]} : h \in hours}
        seen == {r \in rows : r.host = host /\ from <= r.start /\ r.start < from + VendorPeriod}
    IN  (\A h \in hours : <<Office, h>> \in DOMAIN made) =>
          /\ Cardinality(seen) = 1
          /\ \A r \in seen : (r.rules # <<>>) = (host \in VendorDetectors /\ k % 2 = 0)

\* A detection is named after its session and its rule: however often chance
\* marks a draft, no session names a rule twice, and what it names its own data
\* bear out after all else was done to it (_mark_detections, _eligible).
DetectionsAreNamedOnce ==
  \A key \in DOMAIN made : \A i \in DOMAIN made[key] : LET d == made[key][i] IN
    /\ IsInjective(d.rules)
    /\ \A rule \in ToSet(d.rules) \cap BackgroundRules : Eligible(d, rule)

\* In the block of a seeded file that has a download or a GET at all, one
\* session carries the file, an answer of 200 to a GET, and what is put into the
\* block afterwards takes neither away; only where the sensor was out in that
\* hour may the file be lost. No other block has it (_seed_special_files,
\* _download_carrier, rows_for, _outside_outages).
SeededFilesAreThere ==
  \A key \in DOMAIN made : \A file \in DOMAIN Slots :
    LET rows == made[key]
        carrying == {i \in DOMAIN rows : \E k \in DOMAIN rows[i].files : rows[i].files[k].name = file}
        wasOut == \E o \in SensorOutages : /\ o.sensor = key[1] /\ o.start < (key[2] + 1) * BlockTime
                                           /\ key[2] * BlockTime < o.end
    IN  /\ Slots[file] # key => carrying = {}
        /\ Cardinality(carrying) <= 1
        /\ Slots[file] = key /\ ~ wasOut /\ (\E i \in DOMAIN rows : rows[i].method = "GET") => carrying # {}
        /\ \A i \in carrying : rows[i].method = "GET" /\ rows[i].status = 200

\* What the truth says of the incident is what its sessions say, whatever
\* chance decided and whoever read what before: its stages keep their order and
\* fit the history, the outage swallows none of them but beacons, and the first
\* contact, the beacon that fires, the one whose packets are kept, the files
\* read and the upload are those that a search over all the rows finds
\* (build_params, Incident, SimWorld.truth).
TruthIsInTheCapture ==
  truth # <<>> =>
    LET p == Story!Params(draw)
        whole == Story!ExtendBeacons(Story!NoBeacons, p.beacon, 432)
        rows == [s \in {"hq", "branch", "dc"} |->
                   FlattenSeq([h \in 1 .. 72 |-> Story!ScriptedBlock(draw, whole, s, h - 1)])]
        found(s, tags) == SelectSeq(rows[s], LAMBDA r : r.tag \in tags)
        uploads == found("branch", {"exfil"})
        kept == SelectSeq(found("branch", {"beacon"}), LAMBDA r : r.start >= 432 - 288)
        firing == SelectSeq(rows["branch"], LAMBDA r : r.rules # <<>>)
    IN  /\ 0 <= p.email /\ p.email < p.contact /\ p.contact < p.beacon /\ p.beacon < p.smb
        /\ p.smb < p.exfil /\ p.exfilEnd < p.gap /\ p.gapEnd <= 432 /\ p.email < 432 - 288
        /\ found("hq", {"email"}) = rows["hq"] /\ Len(rows["hq"]) = 1 /\ truth.email = rows["hq"][1].id
        /\ truth.first = Head(rows["branch"]).id
        /\ truth.firing = Head(firing).id /\ truth.firing = found("branch", {"beacon"})[12].id
        /\ truth.kept = Head(kept).id
        /\ truth.files = Len(found("dc", {"smb"})) /\ truth.files = draw.files
        /\ truth.exfil.sessions = Len(uploads) /\ truth.exfil.start = Head(uploads).start
        /\ truth.exfil.end = Max({uploads[i].end : i \in DOMAIN uploads})
        /\ truth.exfil.bytes = FoldLeft(LAMBDA n, r : n + r.up, 0, uploads)

(* Traffic made an hour at a time, in passes that rewrite what earlier     *)
(* ones made, is that of a network that went on: check-ins come once,      *)
(* detections are borne out, seeded files and the incident are there as    *)
(* described.                                                              *)
TrafficIsWhole ==
  /\ VendorKeepsTime
  /\ DetectionsAreNamedOnce
  /\ SeededFilesAreThere
  /\ TruthIsInTheCapture
=============================================================================
