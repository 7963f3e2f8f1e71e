---------------------------- MODULE SessionViews ----------------------------
(***************************************************************************)
(* What a reader is shown of one session besides its row (api/sessions.py):*)
(* its samples over time, and its decoded body.                            *)
(***************************************************************************)
EXTENDS Integers, Sequences, FiniteSets, SequencesExt, FiniteSetsExt

-----------------------------------------------------------------------------
(***************************************************************************)
(* GET /sessions/{id}/flow (api/sessions.py, world/flows.py): the bytes    *)
(* and packets of a session spread over some of the buckets of its         *)
(* duration, chosen by what kind of session it is.  What chance decides is *)
(* left open: how many buckets, which, and how they weigh.  Weights are    *)
(* whole numbers, where the code computes with floats.                     *)
(***************************************************************************)
CONSTANTS
    FlowRows,  \* [start, duration, profile, totals]: totals of the four counts
    Widths,    \* bucket_ms
    Ranges,    \* profile -> <<fewest, most>> samples
    MaxSamples,
    FlowWeights

VARIABLES
    asked,  \* [row, width], and the rows that were not asked for yet
    samples \* [time, counts]

fvars == <<asked, samples>>

Counts == {"bytes_up", "bytes_down", "packets_up", "packets_down"}

-----------------------------------------------------------------------------
\* Shares of a total by weight: rounded down, and what is left goes to the
\* largest fractions, the first of equal ones.
SpreadDown(total, weights) ==
    [i \in DOMAIN weights |-> (total * weights[i]) \div FoldLeft(+, 0, weights)]

Spread(total, weights) ==
    LET scale == FoldLeft(+, 0, weights)
        share == [i \in DOMAIN weights |-> (total * weights[i]) \div scale]
        lost  == [i \in DOMAIN weights |-> (total * weights[i]) % scale]
        rest  == total - FoldLeft(+, 0, share)
        order == SortSeq([i \in DOMAIN weights |-> i], LAMBDA i, j :
                     lost[i] > lost[j] \/ (lost[i] = lost[j] /\ i < j))
        extra(i) == Cardinality({step \in 0 .. rest - 1 :
                                    order[(step % Len(weights)) + 1] = i})
    IN  [i \in DOMAIN weights |-> share[i] + extra(i)]

BucketsOf(row, width) == row.duration \div width + 1

\* How many samples there may be.
TargetCounts(row, width) ==
    LET low  == Ranges[row.profile][1]
        high == Min({Ranges[row.profile][2], Max({low, MaxSamples})})
        packets == row.totals["packets_up"] + row.totals["packets_down"]
    IN  {Max({1, Min({wanted, BucketsOf(row, width), Max({1, packets})})}) : wanted \in low .. high}

\* An idle session is seen in clusters, spread over its duration; two of
\* them may overlap, and what falls behind its end is dropped.
ClusterIndicesLoose(buckets, count) ==
    LET clusters == Max({1, Min({6, IF count \div 3 = 0 THEN 1 ELSE count \div 3})})
        each     == Max({1, count \div clusters})
        span     == Max({1, buckets \div clusters})
        starts   == [0 .. clusters - 1 -> 0 .. span - 1]
    IN  {UNION {{c * span + s[c] + o : o \in 0 .. each - 1} : c \in 0 .. clusters - 1} : s \in starts}

ClusterIndices(buckets, count) ==
    LET clusters == Max({1, Min({6, IF count \div 3 = 0 THEN 1 ELSE count \div 3})})
        each     == Max({1, count \div clusters})
        span     == Max({1, buckets \div clusters})
        starts   == [0 .. clusters - 1 -> 0 .. Max({1, span - each + 1}) - 1]
        chosen(s) == {i \in UNION {{c * span + s[c] + o : o \in 0 .. each - 1} :
                                      c \in 0 .. clusters - 1} : i < buckets}
    IN  {IF chosen(s) = {} THEN {0} ELSE chosen(s) : s \in starts}

\* The sets of buckets that may be chosen.
Indices(profile, buckets, wanted) ==
    LET count == Max({1, Min({wanted, buckets})})
        head  == Max({1, Min({buckets, count * 2})})
    IN  CASE profile = "burst"              -> {0 .. count - 1}
          [] profile \in {"upload", "bulk"} ->
                 {{Min({buckets - 1, (i * buckets) \div count}) : i \in 0 .. count - 1}}
          [] profile = "idle"               -> ClusterIndices(buckets, count)
          [] OTHER -> {s \in SUBSET (0 .. head - 1) : Cardinality(s) = Min({count, head})}

\* A bucket to which nothing falls is left out.
Samples(row, width, indices, up, down) ==
    LET buckets == SetToSortSeq(indices, <)
        shares  == [c \in Counts |->
                       Spread(row.totals[c], IF c \in {"bytes_up", "packets_up"} THEN up ELSE down)]
        base    == row.start - (row.start % width)
    IN  SelectSeq([i \in DOMAIN buckets |->
                      [time   |-> base + buckets[i] * width,
                       counts |-> [c \in Counts |-> shares[c][i]]]],
                  LAMBDA s : \E c \in Counts : s.counts[c] > 0)

-----------------------------------------------------------------------------
FlowInit ==
    /\ asked \in [row : FlowRows, width : Widths, open : {TRUE}]
    /\ samples = <<>>

GetFlow ==
    /\ asked.open
    /\ \E wanted \in TargetCounts(asked.row, asked.width) :
       \E indices \in Indices(asked.row.profile, BucketsOf(asked.row, asked.width), wanted) :
       \E up, down \in [1 .. Cardinality(indices) -> FlowWeights] :
          samples' = Samples(asked.row, asked.width, indices, up, down)
    /\ asked' = [asked EXCEPT !.open = FALSE]

FlowNext == GetFlow

FlowSpec == FlowInit /\ [][FlowNext]_fvars
-----------------------------------------------------------------------------
\* Whatever buckets are chosen and however they weigh, the samples of a
\* session add up to its row, in all four counts (_spread, flow_samples).
SamplesAddUp ==
    ~ asked.open =>
        \A c \in Counts : FoldLeft(LAMBDA n, s : n + s.counts[c], 0, samples) = asked.row.totals[c]

\* Samples are of different buckets, in order, none that ended before the
\* session began or begins after it ended, and never more than MaxSamples
\* (_indices, _cluster_indices, _target_count).
SamplesFitTheSession ==
    /\ Len(samples) <= MaxSamples
    /\ \A i \in DOMAIN samples :
          /\ samples[i].time % asked.width = 0
          /\ asked.row.start < samples[i].time + asked.width
          /\ samples[i].time <= asked.row.start + asked.row.duration
          /\ i > 1 => samples[i - 1].time < samples[i].time

-----------------------------------------------------------------------------
(***************************************************************************)
(* What a reader is shown of a decoded session (world/decode.py): the      *)
(* canonical body, rewritten if the decoder of its sensor is the old one,  *)
(* and then redacted if the reader is an observer.  A value is tagged with *)
(* what it is: "text", "number", "bool", "list" or "dict".                 *)
(***************************************************************************)
CONSTANTS
    Bodies,    \* protocol -> the set of canonical bodies
    Sensitive, \* _SENSITIVE_HEADERS
    LowerCase, \* header name -> the same in lower case
    Secrets    \* the texts in Bodies that are not for observers

VARIABLES
    decoded, \* [protocol, body]: the session that is read
    shown    \* [version, role, body]: what was answered

dvars == <<decoded, shown>>

-----------------------------------------------------------------------------
Text(t) == [kind |-> "text", value |-> t]
Bool(b) == [kind |-> "bool", value |-> b]
List(s) == [kind |-> "list", value |-> s]
Dict(d) == [kind |-> "dict", value |-> d]

Redacted == Dict([redacted |-> Bool(TRUE)])

Has(body, name) == name \in DOMAIN body.value

IsFalse(v) == v.kind = "bool" /\ ~ v.value

(* The old shape: numbers are strings, a list of one is what is in it, and *)
(* what is false is left out of a dict.                                    *)
RECURSIVE V1Value(_)
V1Dict(d) ==
    [name \in {n \in DOMAIN d : ~ IsFalse(d[n])} |-> V1Value(d[name])]

V1Value(v) ==
    CASE v.kind = "number" -> Text(ToString(v.value))
      [] v.kind = "dict"   -> Dict(V1Dict(v.value))
      [] v.kind = "list"   -> IF Len(v.value) = 1 THEN V1Value(v.value[1])
                              ELSE List([i \in DOMAIN v.value |-> V1Value(v.value[i])])
      [] OTHER             -> v

\* Headers become a dict; a name that is repeated has a list of its values.
V1Headers(headers) ==
    LET named(n) == SelectSeq(headers, LAMBDA h : h.value["name"].value = n)
        values(n) == [i \in DOMAIN named(n) |-> named(n)[i].value["value"]]
        names == {headers[i].value["name"].value : i \in DOMAIN headers}
    IN  Dict([n \in names |-> IF Len(values(n)) = 1 THEN values(n)[1] ELSE List(values(n))])

HeaderKeys == {"request_headers", "response_headers"}

V1Rewrite(protocol, body) ==
    LET rewritten(name) ==
            LET v == body.value[name] IN
            CASE protocol = "dns" /\ name = "rcode" /\ v.kind = "dict" ->
                   Text(ToString(v.value["code"].value))
              [] protocol = "http" /\ name \in HeaderKeys /\ v.kind = "list" -> V1Headers(v.value)
              [] OTHER -> v
    IN  Dict(V1Dict([name \in DOMAIN body.value |-> rewritten(name)]))

-----------------------------------------------------------------------------
IsSensitive(name) == LowerCase[name] \in Sensitive

RedactHeadersOfLists(v) ==
    IF v.kind # "list" THEN v
    ELSE List([i \in DOMAIN v.value |->
                 IF IsSensitive(v.value[i].value["name"].value)
                 THEN Dict([v.value[i].value EXCEPT !["value"] = Redacted]) ELSE v.value[i]])

RedactHeaders(v) ==
    CASE v.kind = "list" ->
           List([i \in DOMAIN v.value |->
                   IF IsSensitive(v.value[i].value["name"].value)
                   THEN Dict([v.value[i].value EXCEPT !["value"] = Redacted])
                   ELSE v.value[i]])
      [] v.kind = "dict" ->
           Dict([n \in DOMAIN v.value |-> IF IsSensitive(n) THEN Redacted ELSE v.value[n]])
      [] OTHER -> v

RedactList(v) ==
    IF v.kind = "list" THEN List([i \in DOMAIN v.value |-> Redacted]) ELSE Redacted

Redact(protocol, body) ==
    LET out(name) ==
            LET v == body.value[name] IN
            CASE protocol = "http" /\ name \in HeaderKeys -> RedactHeaders(v)
              [] protocol = "smtp" /\ name = "rcpt_to"    -> RedactList(v)
              [] protocol = "smb2" /\ name = "user"       -> Redacted
              [] OTHER -> v
    IN  Dict([name \in DOMAIN body.value |-> out(name)])

Decoded(protocol, canonical, version, role) ==
    LET body == IF version = "v1" THEN V1Rewrite(protocol, canonical) ELSE canonical
    IN  IF role = "observer" THEN Redact(protocol, body) ELSE body

-----------------------------------------------------------------------------
NothingShown == [version |-> "", role |-> "", body |-> Dict(<<>>)]

DecodeInit ==
    /\ \E protocol \in DOMAIN Bodies : \E body \in Bodies[protocol] :
          decoded = [protocol |-> protocol, body |-> body]
    /\ shown = NothingShown

Show(version, role) ==
    /\ shown' = [version |-> version, role |-> role,
                 body |-> Decoded(decoded.protocol, decoded.body, version, role)]
    /\ UNCHANGED decoded

DecodeNext ==
    \E version \in {"v1", "v2"} : \E role \in {"analyst", "observer"} : Show(version, role)

DecodeSpec == DecodeInit /\ [][DecodeNext]_dvars
-----------------------------------------------------------------------------
\* The texts a reader finds in a value.
RECURSIVE TextsOf(_)
TextsOf(v) ==
    CASE v.kind = "dict" -> UNION {TextsOf(v.value[name]) : name \in DOMAIN v.value}
      [] v.kind = "list" -> UNION {TextsOf(v.value[i]) : i \in DOMAIN v.value}
      [] v.kind = "bool" -> {}
      [] OTHER           -> {ToString(v.value)}

\* An observer sees none of what is to be redacted, and all of the rest that
\* others see, whether the sensor's decoder is the old one, which merges
\* headers and unpacks lists of one before _redact looks at them, or not.
RedactionIsExact ==
    shown.role = "observer" =>
        TextsOf(shown.body)
            = TextsOf(Decoded(decoded.protocol, decoded.body, shown.version, "analyst"))
              \ {ToString(secret) : secret \in Secrets}
=============================================================================
