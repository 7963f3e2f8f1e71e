------------------------------- MODULE LiveTap -------------------------------
(***************************************************************************)
(* What one socket of the live tap says (LiveSocket of realtime/ws.py).    *)
(* Three tasks share it: the receive loop handles one client frame, the    *)
(* produce loop does one round of its ticks, the send loop takes one frame *)
(* off the queue; each lets go of the loop only between two such steps, so *)
(* each step is one action.  A slow client is one whose frames stay queued.*)
(* A row is a pair of its millisecond and its id; now is both the capture  *)
(* clock and the monotonic clock, which run together.                      *)
(***************************************************************************)
EXTENDS Integers, Sequences, FiniteSets, SequencesExt

CONSTANTS
  Sensors,        \* sensors of the ticket that its user may read
  ForeignSensor,        \* a sensor that is not one of them
  RowsAt,         \* sensor -> its rows, <<millisecond, id>>
  Lag,            \* sensor -> lag_s
  Filters,        \* filter -> the rows it matches, over all sensors
  Offers,         \* subscriptions a client may ask for
  Searches,       \* searches a client may watch
  QueueLimit,     \* SEND_QUEUE_LIMIT
  Burst,          \* chaos.live_burst: synthetic copies of each row
  Heartbeat,      \* HEARTBEAT_S, in ticks
  PongDeadline,   \* PONG_DEADLINE_S
  StatsInterval,  \* STATS_INTERVAL_S
  RestartAfter,   \* values of chaos.ws_restart_s, 0 for none
  MaxNow,         \* bound: time
  MaxFrames       \* bound: frames a client sends

ASSUME TapConstants ==
  /\ ForeignSensor \notin Sensors /\ IsFiniteSet(Sensors)
  /\ RowsAt \in [Sensors -> SUBSET (Nat \X Nat)] /\ \A s \in Sensors : IsFiniteSet(RowsAt[s])
  /\ Lag \in [Sensors -> Nat]
  /\ Offers \subseteq [sensors: (SUBSET Sensors) \ {{}}, filter: DOMAIN Filters,
                      channels: (SUBSET {"sessions", "stats"}) \ {{}}]
  /\ {QueueLimit, Heartbeat, PongDeadline, StatsInterval} \subseteq Nat \ {0}
  /\ PongDeadline < Heartbeat
  /\ {Burst, MaxNow, MaxFrames} \subseteq Nat
  /\ RestartAfter \subseteq Nat

VARIABLES
  now,
  sub,       \* _subscription: filter, channels, sensors; where each sensor began and has got to
  paused,    \* _paused
  gen,       \* _generation
  seq,       \* _seq
  sent,      \* _sent
  dropped,   \* _dropped
  counted,   \* _stats: rows counted since they were last told
  queue,     \* _queue
  heard,     \* frames the client has received
  ping,      \* _ping_nonce, _pong_deadline, _next_ping
  nextStats, \* _next_stats
  watched,   \* _watched: search -> the progress last told
  progress,  \* the search service: search -> progress, or Missing
  code,      \* _close_code
  over,      \* the produce loop has ended and the tasks are cancelled
  restart,   \* chaos.ws_restart_s
  frames,    \* frames the client has sent
  shown      \* history: rows released to the current subscription, by sensor

tapVars == <<now, sub, paused, gen, seq, sent, dropped, counted, queue, heard, ping, nextStats,
             watched, progress, code, over, restart, frames, shown>>

Missing == 0
NoPing == 0
NoSub == [filter |-> "none", channels |-> {}, start |-> <<>>, cursor |-> <<>>]

FrameTypes == {"hello", "ack", "session", "stats", "lagging", "ping", "progress", "error"}

(* n: the sequence number, rows or frames it tells of, nonce, or progress. *)
Frame == [type: FrameTypes, gen: Nat, n: Nat]

TapTypeOK ==
  /\ now \in 0..MaxNow
  /\ sub = NoSub \/ sub.filter \in DOMAIN Filters
  /\ paused \in BOOLEAN
  /\ {gen, seq, sent, dropped, counted, nextStats} \subseteq Nat
  /\ queue \in Seq(Frame) /\ heard \in Seq(Frame)
  /\ ping \in [nonce: Nat, deadline: Nat, next: Nat]
  /\ DOMAIN watched \subseteq Searches
  /\ progress \in [Searches -> Nat]
  /\ code \in {"none", "forbidden", "pong", "restart", "revoked"}
  /\ over \in BOOLEAN /\ frames \in 0..MaxFrames

Says(type, g, n) == [type |-> type, gen |-> g, n |-> n]

TapInit ==
  /\ now = 0
  /\ sub = NoSub /\ paused = FALSE
  /\ gen = 0 /\ seq = 0 /\ dropped = 0 /\ counted = 0
  /\ queue = <<Says("hello", 0, 0)>> /\ sent = 1
  /\ heard = <<>>
  /\ ping = [nonce |-> NoPing, deadline |-> 0, next |-> Heartbeat]
  /\ nextStats = StatsInterval
  /\ watched = [s \in {} |-> 0]
  /\ progress = [s \in Searches |-> 1]
  /\ code = "none" /\ over = FALSE
  /\ restart \in RestartAfter
  /\ frames = 0
  /\ shown = [s \in Sensors |-> <<>>]

-----------------------------------------------------------------------------
(* The send queue.  A frame that may be dropped is, when the queue is full.*)

Buffer == [queue |-> queue, sent |-> sent, dropped |-> dropped, seq |-> seq]

Keep(buffer, frame) == [buffer EXCEPT !.queue = Append(@, frame), !.sent = @ + 1]

SessionFrameOneMore(buffer, g) ==
  LET numbered == [buffer EXCEPT !.seq = @ + 1]
  IN  IF Len(buffer.queue) > QueueLimit
      THEN [numbered EXCEPT !.dropped = @ + 1]
      ELSE Keep(numbered, Says("session", g, numbered.seq))

SessionFrame(buffer, g) ==
  LET numbered == [buffer EXCEPT !.seq = @ + 1]
  IN  IF Len(buffer.queue) >= QueueLimit
      THEN [numbered EXCEPT !.dropped = @ + 1]
      ELSE Keep(numbered, Says("session", g, numbered.seq))

Buffered(buffer) ==
  /\ queue' = buffer.queue /\ sent' = buffer.sent
  /\ dropped' = buffer.dropped /\ seq' = buffer.seq

Send(frame) == Buffered(Keep(Buffer, frame))

CloseWith(reason) == code' = IF code = "none" THEN reason ELSE code

-----------------------------------------------------------------------------
(* Client frames.                                                          *)

Before(p, q) == p[1] < q[1] \/ (p[1] = q[1] /\ p[2] < q[2])

VisibleUntil(s) == now - Lag[s]

LastOf(ms) == <<ms, 1000000>>  \* (ms, 1 << 63): after every row of that millisecond

Listening == ~over /\ frames < MaxFrames /\ frames' = frames + 1

StartCursor(s) == LastOf(VisibleUntil(s))

SubscribeLate(offer) ==
  /\ Listening
  /\ sub' = [filter |-> offer.filter, channels |-> offer.channels,
             start |-> [s \in offer.sensors |-> StartCursor(s)],
             cursor |-> [s \in offer.sensors |-> StartCursor(s)]]
  /\ gen' = gen + 1
  /\ paused' = FALSE /\ counted' = 0
  /\ shown' = [s \in Sensors |-> <<>>]
  /\ Send(Says("ack", gen, 0))
  /\ UNCHANGED <<now, heard, ping, nextStats, watched, progress, code, over, restart>>

Subscribe(offer) ==
  /\ Listening
  /\ sub' = [filter |-> offer.filter, channels |-> offer.channels,
             start |-> [s \in offer.sensors |-> StartCursor(s)],
             cursor |-> [s \in offer.sensors |-> StartCursor(s)]]
  /\ gen' = gen + 1
  /\ paused' = FALSE /\ counted' = 0
  /\ shown' = [s \in Sensors |-> <<>>]
  /\ Send(Says("ack", gen + 1, 0))
  /\ UNCHANGED <<now, heard, ping, nextStats, watched, progress, code, over, restart>>

SubscribeForeign ==
  /\ Listening
  /\ CloseWith("forbidden")
  /\ UNCHANGED <<now, sub, paused, gen, seq, sent, dropped, counted, queue, heard, ping,
                 nextStats, watched, progress, over, restart, shown>>

SetPaused(b) ==
  /\ Listening
  /\ paused' = b
  /\ UNCHANGED <<now, sub, gen, seq, sent, dropped, counted, queue, heard, ping, nextStats,
                 watched, progress, code, over, restart, shown>>

(* A bad frame, filter, search or nonce is answered and changes nothing.   *)
Complain ==
  /\ Send(Says("error", 0, 0))
  /\ UNCHANGED <<now, sub, paused, gen, counted, heard, ping, nextStats, watched, progress,
                 code, over, restart, shown>>

Malformed == Listening /\ Complain

Pong(nonce) ==
  /\ ping.nonce # NoPing /\ nonce = ping.nonce
  /\ ping' = [ping EXCEPT !.nonce = NoPing, !.deadline = 0]
  /\ UNCHANGED <<now, sub, paused, gen, seq, sent, dropped, counted, queue, heard, nextStats,
                 watched, progress, code, over, restart, shown>>

Answer(nonce) ==
  /\ Listening
  /\ Pong(nonce) \/ (nonce # ping.nonce /\ Complain)

Watch(s) ==
  /\ Listening
  /\ progress[s] # Missing
  /\ watched' = [x \in DOMAIN watched \cup {s} |-> IF x = s THEN progress[s] ELSE watched[x]]
  /\ Send(Says("progress", 0, progress[s]))
  /\ UNCHANGED <<now, sub, paused, gen, counted, heard, ping, nextStats, progress, code, over,
                 restart, shown>>

WatchMissing(s) == Listening /\ progress[s] = Missing /\ Complain

Unwatch(s) ==
  /\ Listening
  /\ watched' = Restrict(watched, DOMAIN watched \ {s})
  /\ UNCHANGED <<now, sub, paused, gen, seq, sent, dropped, counted, queue, heard, ping,
                 nextStats, progress, code, over, restart, shown>>

-----------------------------------------------------------------------------
(* One round of the produce loop: sessions, then the periodic frames, then *)
(* the heartbeat, then the scheduled restart.                              *)

FreshAgain(s) == {row \in RowsAt[s] : row[1] >= sub.cursor[s][1] /\ row[1] <= VisibleUntil(s)}

Fresh(s) ==
  {row \in RowsAt[s] : /\ row[1] >= sub.cursor[s][1]
                       /\ row[1] <= VisibleUntil(s)
                       /\ Before(sub.cursor[s], row)}

InOrder(rows) ==
  CHOOSE s \in [1..Cardinality(rows) -> rows] : \A i, j \in DOMAIN s : i < j => Before(s[i], s[j])

Matching(s) == Fresh(s) \cap Filters[sub.filter]

Released(s) == InOrder(Matching(s))

Advanced(s) == IF Fresh(s) = {} THEN sub.cursor[s] ELSE Last(InOrder(Fresh(s)))

Watching == sub # NoSub /\ ~paused

Shown == [s \in Sensors |->
            IF Watching /\ s \in DOMAIN sub.cursor THEN shown[s] \o Released(s) ELSE shown[s]]

ReleasedRows ==
  IF Watching THEN Cardinality(UNION {{s} \X Matching(s) : s \in DOMAIN sub.cursor}) ELSE 0

SessionFrames == IF Watching /\ "sessions" \in sub.channels THEN ReleasedRows * (1 + Burst) ELSE 0

AfterFrames[k \in 0..SessionFrames] ==
  IF k = 0 THEN Buffer ELSE SessionFrame(AfterFrames[k - 1], gen)

AfterSessions == AfterFrames[SessionFrames]

StatsDue == now >= nextStats
TellsStats == StatsDue /\ sub # NoSub /\ "stats" \in sub.channels
CountedNow == counted + ReleasedRows

AfterStats(b) == IF TellsStats THEN Keep(b, Says("stats", gen, CountedNow)) ELSE b

AfterLaggingKept(b) ==
  IF StatsDue /\ b.dropped > 0
  THEN [Keep(b, Says("lagging", gen, b.dropped)) EXCEPT !.sent = 0]
  ELSE b

AfterLaggingMixed(b) ==
  IF StatsDue /\ b.dropped > 0
  THEN [Keep(b, Says("lagging", gen, b.dropped)) EXCEPT !.dropped = @ - b.sent, !.sent = 0]
  ELSE b

AfterLagging(b) ==
  IF StatsDue /\ b.dropped > 0
  THEN [Keep(b, Says("lagging", gen, b.dropped)) EXCEPT !.dropped = 0, !.sent = 0]
  ELSE b

Moved == {s \in DOMAIN watched : StatsDue /\ progress[s] # Missing /\ progress[s] # watched[s]}

AfterWatched(b) ==
  LET order == SetToSeq(Moved)
      told == [k \in DOMAIN order |-> Says("progress", 0, progress[order[k]])]
  IN  [b EXCEPT !.queue = @ \o told, !.sent = @ + Len(told)]

PongMissed == ping.nonce # NoPing /\ now >= ping.deadline
PingDue == now >= ping.next /\ ping.nonce = NoPing

AfterPing(b) == IF PingDue THEN Keep(b, Says("ping", 0, now)) ELSE b

RestartDue == restart > 0 /\ now >= restart

Produced == AfterPing(AfterWatched(AfterLagging(AfterStats(AfterSessions))))

Produce ==
  /\ code = "none" /\ ~over
  /\ Buffered(Produced)
  /\ sub' = IF Watching THEN [sub EXCEPT !.cursor = [s \in DOMAIN @ |-> Advanced(s)]] ELSE sub
  /\ shown' = Shown
  /\ counted' = IF TellsStats THEN 0 ELSE CountedNow
  /\ nextStats' = IF StatsDue THEN now + StatsInterval ELSE nextStats
  /\ watched' = [s \in DOMAIN watched |-> IF s \in Moved THEN progress[s] ELSE watched[s]]
  /\ ping' = IF PingDue
             THEN [nonce |-> now, deadline |-> now + PongDeadline, next |-> now + Heartbeat]
             ELSE ping
  /\ code' = CASE PongMissed -> "pong"
               [] RestartDue /\ ~PongMissed -> "restart"
               [] ~PongMissed /\ ~RestartDue -> code
  /\ UNCHANGED <<now, paused, gen, heard, progress, over, restart, frames>>

(* The loop ends at a close code (a client that goes is left out: nothing  *)
(* is heard after it); frames still queued are lost with the send loop.    *)
End ==
  /\ ~over /\ code # "none"
  /\ over' = TRUE
  /\ UNCHANGED <<now, sub, paused, gen, seq, sent, dropped, counted, queue, heard, ping,
                 nextStats, watched, progress, code, restart, frames, shown>>

Deliver ==
  /\ ~over /\ queue # <<>>
  /\ heard' = Append(heard, Head(queue))
  /\ queue' = Tail(queue)
  /\ UNCHANGED <<now, sub, paused, gen, seq, sent, dropped, counted, ping, nextStats, watched,
                 progress, code, over, restart, frames, shown>>

(* The search service: searches go on, and are forgotten.                  *)
SearchMoves(s) ==
  /\ ~over
  /\ progress[s] \in 1..2
  /\ progress' = [progress EXCEPT ![s] = IF @ = 1 THEN 2 ELSE Missing]
  /\ UNCHANGED <<now, sub, paused, gen, seq, sent, dropped, counted, queue, heard, ping,
                 nextStats, watched, code, over, restart, frames, shown>>

Revoked ==
  /\ ~over /\ code = "none"
  /\ CloseWith("revoked")
  /\ UNCHANGED <<now, sub, paused, gen, seq, sent, dropped, counted, queue, heard, ping,
                 nextStats, watched, progress, over, restart, frames, shown>>

TapTick ==
  /\ ~over /\ now < MaxNow
  /\ now' = now + 1
  /\ UNCHANGED <<sub, paused, gen, seq, sent, dropped, counted, queue, heard, ping, nextStats,
                 watched, progress, code, over, restart, frames, shown>>

TapNext ==
  \/ \E offer \in Offers : Subscribe(offer)
  \/ SubscribeForeign
  \/ \E b \in BOOLEAN : SetPaused(b)
  \/ Malformed
  \/ \E nonce \in {ping.nonce, MaxNow + 1} : Answer(nonce)
  \/ \E s \in Searches : Watch(s) \/ WatchMissing(s) \/ Unwatch(s) \/ SearchMoves(s)
  \/ Produce \/ End \/ Deliver \/ Revoked \/ TapTick

TapSpec == TapInit /\ [][TapNext]_tapVars

-----------------------------------------------------------------------------
Spoken == heard \o queue

(* Sequence numbers a frame accounts for: its own, or those it says were   *)
(* dropped.                                                                *)
Accounts(frame) == CASE frame.type = "session" -> 1
                     [] frame.type = "lagging" -> frame.n
                     [] OTHER -> 0

Accounted(said) ==
  LET upTo[k \in 0..Len(said)] == IF k = 0 THEN 0 ELSE upTo[k - 1] + Accounts(said[k])
  IN  upTo[Len(said)]

(* A client that lags is told of every frame it will never get: what its   *)
(* sequence numbers skip is what "lagging" frames said, and what the next  *)
(* one will say, across subscriptions.                                     *)
DropsAreTold == seq = Accounted(Spoken) + dropped

(* Frames that can be dropped never fill more than the queue's limit,      *)
(* whatever pings, answers and errors wait beside them.                    *)
SessionsAreBounded == Cardinality({i \in DOMAIN queue : queue[i].type = "session"}) <= QueueLimit

(* After the ack of a subscription nothing of an earlier one is heard, and *)
(* nothing of it before.                                                   *)
AckComesFirst ==
  \A j \in DOMAIN Spoken :
    Spoken[j].gen # 0 =>
      /\ \A i \in 1..j - 1 : /\ Spoken[i].gen <= Spoken[j].gen
                             /\ Spoken[j].type = "ack" => Spoken[i].gen < Spoken[j].gen
      /\ \E i \in 1..j : Spoken[i].type = "ack" /\ Spoken[i].gen = Spoken[j].gen

(* When a round of the loop tells the statistics it has released, once and *)
(* in order, every matching row that became visible since the subscription *)
(* began: those of a pause, of the same millisecond as the last row, and   *)
(* of a sensor that lags included.                                         *)
DueSince(s) ==
  InOrder({row \in RowsAt[s] \cap Filters[sub.filter] :
             Before(sub.start[s], row) /\ row[1] <= VisibleUntil(s)})

RowsOnce ==
  [][Watching /\ nextStats' # nextStats
       => \A s \in DOMAIN sub.start : shown'[s] = DueSince(s)]_tapVars

(* A client of the tap, however slow, hears every matching row once and in *)
(* order or is told how many it will never get, and can tell to which      *)
(* subscription a frame belongs.                                           *)
TapTellsAll ==
  /\ [](TapTypeOK /\ DropsAreTold /\ SessionsAreBounded /\ AckComesFirst)
  /\ RowsOnce
=============================================================================
