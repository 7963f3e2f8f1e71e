--------------------------- MODULE ObserverReport ---------------------------
(***************************************************************************)
(* The report on how a client behaves (api/observer.py): what is recorded  *)
(* of one family, in the order of the records' times, and the 25 checks    *)
(* over it.  A check reads the whole log whenever the report is asked for, *)
(* so it is an operator on a context: requests, stream events and the      *)
(* present.  Times are ticks; evidence is the set of the offending places. *)
(***************************************************************************)
EXTENDS Integers, Sequences, FiniteSets, FiniteSetsExt, SequencesExt

CONSTANTS
  Requests,     \* what a client may send and be answered, without its time
  Events,       \* what may happen to its streams, without its time
  RefreshFlight, LogoutGrace, DuplicateWindow, AbandonedAfter, Retry4xxWindow,
  DedupeWindow, DownloadWindow, SubscribeWithin, SseMinGap, EnrichWindow,
  Calm, Restless,      \* health polls: a median gap that passes, that warns
  Tolerated, Burst,    \* identical GETs: tolerated, and a burst; also lookups
  Resumed, HalfResumed,\* percent of re-opened streams that resume: pass, warn
  MaxLimit,
  MaxLog,       \* bound: records of each kind
  MaxGap        \* bound: ticks between records

ASSUME ReportConstants ==
  /\ {RefreshFlight, LogoutGrace, DuplicateWindow, AbandonedAfter, Retry4xxWindow, DedupeWindow,
      DownloadWindow, SubscribeWithin, SseMinGap, EnrichWindow, Calm, Restless, Tolerated, Burst,
      Resumed, HalfResumed, MaxLimit, MaxLog, MaxGap} \subseteq Nat
  /\ Restless <= Calm /\ Tolerated < Burst /\ HalfResumed <= Resumed

VARIABLES
  topic,     \* which requests and events this behaviour is made of
  requests,  \* FamilyLog.requests
  streams,   \* FamilyLog.streams
  now

reportVars == <<topic, requests, streams, now>>

Context == [requests |-> requests, streams |-> streams, now |-> now]

(* Only what is as recent as since.                                        *)
ContextSince(since) ==
  LET recent(r) == r.t >= since
  IN [Context EXCEPT !.requests = SelectSeq(@, recent), !.streams = SelectSeq(@, recent)]

-----------------------------------------------------------------------------
(* What the checks are made of.                                            *)

Where(ctx, P(_)) == {i \in DOMAIN ctx.requests : P(ctx.requests[i])}

WithCode(ctx, codes) == Where(ctx, LAMBDA r : r.code \in codes)

EventsOf(ctx, kinds) == {i \in DOMAIN ctx.streams : ctx.streams[i].kind \in kinds}

FromTheFirst(S) == {<<i, j>> \in S \X S : i < j /\ \A k \in S : i <= k}

Pairwise(S) == {<<i, j>> \in S \X S : i < j /\ \A k \in S : k <= i \/ j <= k}

Verdict(offenders) == IF offenders = {} THEN "pass" ELSE "fail"

Warning(offenders) == IF offenders = {} THEN "pass" ELSE "warn"

IfAny(S, verdict) == IF S = {} THEN "n/a" ELSE verdict

-----------------------------------------------------------------------------
RefreshSingleFlight(ctx) ==
  LET R == ctx.requests
      refreshes == Where(ctx, LAMBDA r : r.path = "refresh")
  IN IfAny(refreshes,
       Verdict({p \in Pairwise(refreshes) : R[p[2]].t - R[p[1]].t < RefreshFlight}))

RefreshReuse(ctx) ==
  IfAny(Where(ctx, LAMBDA r : r.path = "refresh"), Verdict(WithCode(ctx, {"refresh_reused"})))

LatestOf(over) == Max(over)

FirstOf(over) == Min(over)

LogoutOnce(ctx) ==
  LET over == Where(ctx, LAMBDA r : r.path = "logout" /\ r.status = 204)
                \cup WithCode(ctx, {"session_revoked"})
  IN IfAny(over,
       Verdict(Where(ctx, LAMBDA r :
         /\ r.authorization /\ r.path \notin {"login", "refresh", "logout"}
         /\ r.t > ctx.requests[FirstOf(over)].t + LogoutGrace)))

BearerFromBrowser(ctx) ==
  IfAny(Where(ctx, LAMBDA r : r.origin), Verdict(Where(ctx, LAMBDA r : r.origin /\ r.authorization)))

Creations(ctx, statuses) ==
  Where(ctx, LAMBDA r : r.method = "POST" /\ r.path = "searches" /\ r.status \in statuses)

DuplicateJobs(ctx) ==
  LET R == ctx.requests
      made == Creations(ctx, {200, 202})
  IN IF Cardinality(made) < 2 THEN "n/a"
     ELSE Verdict({j \in made : \E i \in made :
            /\ i < j /\ R[i].body = R[j].body /\ ~R[j].replayed
            /\ R[j].t - R[i].t < DuplicateWindow})

(* The time of the last DELETE of a search is the one that is kept.        *)
DeletedAt(ctx, id) ==
  LET deletes == Where(ctx, LAMBDA r : r.method = "DELETE" /\ r.path = "searches" /\ r.id = id)
  IN IF deletes = {} THEN {} ELSE {ctx.requests[Max(deletes)].t}

AbandonedSearches(ctx) ==
  LET R == ctx.requests
      made == Where(ctx, LAMBDA r : r.method = "POST" /\ r.path = "searches" /\ r.id # "")
  IN IfAny(made,
       Verdict({p \in Pairwise(made) :
         /\ ctx.now - R[p[2]].t > AbandonedAfter
         /\ \A t \in DeletedAt(ctx, R[p[1]].id) : t > R[p[2]].t + AbandonedAfter}))

SlotsExhausted(ctx) ==
  IfAny(Where(ctx, LAMBDA r : r.path = "searches" /\ r.method = "POST"),
        Verdict(WithCode(ctx, {"too_many_searches"})))

Limits(r) == r.status \in {429, 503} /\ r.retry > 0

(* What the last limiting answer of its route blocks a record until.       *)
BlockedUntil(R, j) ==
  LET limits == {i \in 1..(j - 1) : R[i].path = R[j].path /\ Limits(R[i])}
  IN IF limits = {} THEN 0 ELSE R[Max(limits)].t + R[Max(limits)].retry

RetryAfterViolations(ctx) ==
  LET R == ctx.requests
  IN IfAny(Where(ctx, Limits), Verdict({j \in DOMAIN R : R[j].t < BlockedUntil(R, j)}))

Same(r, s) == r.method = s.method /\ r.path = s.path /\ r.query = s.query

Retried4xx(ctx) ==
  LET R == ctx.requests
      refused == Where(ctx, LAMBDA r : r.status \in 400..499 \ {401, 408, 409, 425, 429})
  IN IfAny(refused,
       Verdict({i \in refused : \E j \in DOMAIN R :
         i < j /\ Same(R[i], R[j]) /\ R[j].t - R[i].t < Retry4xxWindow}))

(* How many of S come after i, i included, alike and within the window.    *)
BurstAt(R, S, i, window, Alike(_, _)) ==
  Cardinality({j \in S : j >= i /\ Alike(R[i], R[j]) /\ R[j].t - R[i].t <= window})

GetBurst(ctx) ==
  LET gets == Where(ctx, LAMBDA r : r.method = "GET")
  IN Max({1} \cup {BurstAt(ctx.requests, gets, i, DedupeWindow, Same) : i \in gets})

GetDedupe(ctx) ==
  IfAny(Where(ctx, LAMBDA r : r.method = "GET"),
    IF GetBurst(ctx) <= Tolerated THEN "pass" ELSE IF GetBurst(ctx) < Burst THEN "warn" ELSE "fail")

InvalidCursor(ctx) ==
  IfAny(Where(ctx, LAMBDA r : r.query = "cursor"),
        Verdict(WithCode(ctx, {"invalid_cursor", "cursor_sort_mismatch"})))

LimitOverMax(ctx) ==
  IfAny(Where(ctx, LAMBDA r : r.limit >= 0), Warning(Where(ctx, LAMBDA r : r.limit > MaxLimit)))

(* Twice the median of the gaps between polls, so that it stays a number.  *)
TwiceMedian(gaps) ==
  LET n == Len(gaps)
      sorted == SortSeq(gaps, <)
  IN sorted[(n + 1) \div 2] + sorted[n \div 2 + 1]

HealthInterval(ctx) ==
  LET polls == SelectSeq(ctx.requests, LAMBDA r : r.path = "health")
      gaps == [i \in 1..(Len(polls) - 1) |-> polls[i + 1].t - polls[i].t]
  IN IF Len(polls) < 2 THEN "n/a"
     ELSE IF TwiceMedian(gaps) >= 2 * Calm THEN "pass"
     ELSE IF TwiceMedian(gaps) >= 2 * Restless THEN "warn" ELSE "fail"

EstimateRate(ctx) ==
  IfAny(Where(ctx, LAMBDA r : r.path = "estimate"), Verdict(WithCode(ctx, {"estimate_rate_limited"})))

-----------------------------------------------------------------------------
(* Streams.                                                                *)

SseDoubleOpen(ctx) ==
  LET S == ctx.streams
      opens == EventsOf(ctx, {"sse_open"})
  IN IfAny(opens, Verdict({p \in Pairwise(opens) : S[p[2]].t - S[p[1]].t < SseMinGap}))

SseResume(ctx) ==
  LET opens == EventsOf(ctx, {"sse_open"})
      reopens == opens \ {Min(opens)}
      resumed == 100 * Cardinality({i \in reopens : ctx.streams[i].resumes})
  IN IF Cardinality(opens) < 2 THEN "n/a"
     ELSE IF resumed >= Resumed * Cardinality(reopens) THEN "pass"
     ELSE IF resumed >= HalfResumed * Cardinality(reopens) THEN "warn" ELSE "fail"

SseReconnectBackoff(ctx) ==
  LET S == ctx.streams
      closes == EventsOf(ctx, {"sse_close"})
      before(i) == {c \in closes : S[c].t <= S[i].t}
  IN IfAny(closes,
       Verdict({i \in EventsOf(ctx, {"sse_open"}) :
         before(i) # {} /\ S[i].t - S[Max(before(i))].t < SseMinGap}))

WsPongOk(ctx) ==
  IfAny(EventsOf(ctx, {"ws_open"}),
        Verdict({i \in EventsOf(ctx, {"ws_close"}) : ctx.streams[i].code = 4408}))

WsTicketReuse(ctx) ==
  LET rejects == EventsOf(ctx, {"ws_rejected"})
  IN IfAny(EventsOf(ctx, {"ws_open"}) \cup rejects,
           Verdict({i \in rejects : ctx.streams[i].reason = "ticket_reuse"}))

Unsubscribed(ctx) ==
  {i \in EventsOf(ctx, {"ws_open"}) : \A j \in EventsOf(ctx, {"ws_subscribe"}) :
     ctx.streams[j].t - ctx.streams[i].t \notin 0..SubscribeWithin}

WsResubscribe(ctx) == IfAny(EventsOf(ctx, {"ws_open"}), Verdict(Unsubscribed(ctx)))

-----------------------------------------------------------------------------
(* Documents, downloads and lookups.                                       *)

IfMatch(ctx) ==
  IfAny(Where(ctx, LAMBDA r : r.method = "PATCH"), Verdict(Where(ctx, LAMBDA r : r.status = 428)))

(* sent and known are sets of (field, hash): what a PATCH sent, and what   *)
(* the answer of a path held, the answer that refused it included.         *)
MinimalPatch(ctx) ==
  LET R == ctx.requests
      patches == Where(ctx, LAMBDA r : r.method = "PATCH" /\ r.sent # {})
      known(i) == {j \in 1..(i - 1) : R[j].path = R[i].path /\ R[j].known # {}}
  IN IfAny(patches,
       Warning({i \in patches : known(i) # {} /\ R[i].sent \cap R[Max(known(i))].known # {}}))

Downloads(ctx) == Where(ctx, LAMBDA r : r.download)

DownloadSingleRequest(ctx) ==
  LET R == ctx.requests
      alike(r, s) == r.path = s.path
  IN IfAny(Downloads(ctx),
       Verdict({i \in Downloads(ctx) :
         BurstAt(R, Downloads(ctx), i, DownloadWindow, alike) > Tolerated}))

EnrichPerIpStorm(ctx) ==
  LET singles == Where(ctx, LAMBDA r : r.path = "enrich")
      alike(r, s) == TRUE
  IN IfAny(singles,
       Verdict({i \in singles : BurstAt(ctx.requests, singles, i, EnrichWindow, alike) >= Burst}))

ImportChecksum(ctx) ==
  IfAny(Where(ctx, LAMBDA r : r.method = "POST" /\ r.path = "imports"),
        Verdict(WithCode(ctx, {"checksum_mismatch"})))

-----------------------------------------------------------------------------
(* The checks of evaluate_family where an offence is an offence for good;  *)
(* the median of polls, the share of resumed streams and a subscribe that  *)
(* is still to come may recover.                                           *)
Strict(ctx) ==
  <<RefreshSingleFlight(ctx), RefreshReuse(ctx), LogoutOnce(ctx), BearerFromBrowser(ctx),
    DuplicateJobs(ctx), AbandonedSearches(ctx), SlotsExhausted(ctx), RetryAfterViolations(ctx),
    Retried4xx(ctx), GetDedupe(ctx), InvalidCursor(ctx), LimitOverMax(ctx), EstimateRate(ctx),
    SseDoubleOpen(ctx), SseReconnectBackoff(ctx), IfMatch(ctx), MinimalPatch(ctx),
    DownloadSingleRequest(ctx), WsPongOk(ctx), WsTicketReuse(ctx), EnrichPerIpStorm(ctx),
    ImportChecksum(ctx)>>

-----------------------------------------------------------------------------
ReportInit ==
  /\ topic \in DOMAIN Requests
  /\ requests = << >> /\ streams = << >> /\ now = 0

RequestRecorded ==
  /\ Len(requests) < MaxLog
  /\ \E r \in Requests[topic] :
       /\ r.method = "DELETE" => \E i \in DOMAIN requests : requests[i].id = r.id
       /\ requests' = Append(requests, [r EXCEPT !.t = now])
  /\ UNCHANGED <<topic, streams, now>>

EventRecorded ==
  /\ Len(streams) < MaxLog
  /\ \E e \in Events[topic] : streams' = Append(streams, [e EXCEPT !.t = now])
  /\ UNCHANGED <<topic, requests, now>>

LastTime == Max({0} \cup {r.t : r \in ToSet(requests) \cup ToSet(streams)})

(* The next record comes, or the report is asked for, later.               *)
Wait == /\ now < LastTime + MaxGap /\ now' = now + 1
        /\ UNCHANGED <<topic, requests, streams>>

ReportNext == RequestRecorded \/ EventRecorded \/ Wait

ReportSpec == ReportInit /\ [][ReportNext]_reportVars

-----------------------------------------------------------------------------
(* Reading neighbours, one pass or the last event only loses no offence:   *)
(* the checks fail exactly when their threshold, read over every pair of   *)
(* records, is broken ("no two refreshes within 2 s", api/observer.py:488; *)
(* "0 retries before the advertised delay", :522; "no re-open within 1 s   *)
(* of a close", :554; "at most 2 identical GETs within 100 ms", :534).     *)
ThresholdsHold ==
  requests \o streams # << >> =>
  LET R == requests
      S == streams
      within(i, j, window) == i < j /\ R[j].t - R[i].t < window
      opens == {i \in DOMAIN S : S[i].kind = "sse_open"}
  IN /\ RefreshSingleFlight(Context) = "fail" <=>
          \E i, j \in DOMAIN R :
            R[i].path = "refresh" /\ R[j].path = "refresh" /\ within(i, j, RefreshFlight)
     /\ RetryAfterViolations(Context) = "fail" <=>
          \E i, j \in DOMAIN R : R[i].path = R[j].path /\ Limits(R[i]) /\ within(i, j, R[i].retry)
     /\ GetBurst(Context) > Tolerated <=>
          \E from \in 0..now, r \in ToSet(R) :
            Cardinality({i \in DOMAIN R : /\ R[i].method = "GET" /\ Same(R[i], r)
                                          /\ R[i].t \in from..(from + DedupeWindow)}) > Tolerated
     /\ SseDoubleOpen(Context) = "fail" <=>
          \E i, j \in opens : i < j /\ S[j].t - S[i].t < SseMinGap
     /\ SseReconnectBackoff(Context) = "fail" <=>
          \E i \in opens, j \in DOMAIN S :
            S[j].kind = "sse_close" /\ S[i].t - S[j].t \in 0..(SseMinGap - 1)
     /\ SseResume(Context) \in {"warn", "fail"} => \E i \in opens : ~S[i].resumes
     /\ WsResubscribe(Context) = "pass" =>
          \A i \in DOMAIN S : S[i].kind = "ws_open" =>
            \E j \in DOMAIN S : S[j].kind = "ws_subscribe" /\ S[j].t <= S[i].t + SubscribeWithin
     /\ LET polls == SelectSeq(R, LAMBDA r : r.path = "health")
            gaps(P(_)) == {i \in 2..Len(polls) : P(polls[i].t - polls[i - 1].t)}
            most(P(_)) == 2 * Cardinality(gaps(P)) >= Len(polls) - 1
        IN /\ HealthInterval(Context) = "pass" => most(LAMBDA g : g >= Calm)
           /\ HealthInterval(Context) = "fail" => most(LAMBDA g : g < Restless)

Rank(status) == CASE status = "n/a" -> 0 [] status = "pass" -> 1 [] status = "warn" -> 2
                  [] status = "fail" -> 3

(* Asking for less never accuses of more: a strict check over what is as   *)
(* recent as any instant (?since=, or what the ring still holds) is no     *)
(* worse than over the whole log.                                          *)
SinceOnlyForgives ==
  LET whole == Strict(Context)
  IN \A since \in {r.t + 1 : r \in ToSet(requests) \cup ToSet(streams)} :
       LET part == Strict(ContextSince(since))
       IN \A c \in DOMAIN whole : Rank(part[c]) <= Rank(whole[c])

(* An offence is not undone by what the client does next, nor by waiting.  *)
OffencesStick ==
  [][reportVars # reportVars' =>
     LET before == Strict(Context)
         after == Strict(Context)'
     IN \A c \in DOMAIN before : Rank(before[c]) <= Rank(after[c])]_reportVars

(* The report accuses exactly where its thresholds are broken, never more  *)
(* when it is asked for less, and takes no offence back.                   *)
ReportIsFair ==
  /\ [](ThresholdsHold /\ SinceOnlyForgives)
  /\ OffencesStick
=============================================================================
