-------------------------- MODULE DetectionStream --------------------------
(***************************************************************************)
(* The detection bus (realtime/bus.py) and the event streams it feeds      *)
(* (realtime/sse.py, api/detections.py): what each stream still has to     *)
(* send, from its resume point to its end, while detections are released,  *)
(* tokens expire, families are revoked and the state is reset.             *)
(*                                                                         *)
(* A stream is cut at its awaits: it was authorised, it has subscribed and *)
(* sends its opening comment, it sends (suspended in a yield) or it waits  *)
(* (suspended in Subscription.next).  "wire" is what was sent and not yet  *)
(* read.  A detection is its number.                                       *)
(***************************************************************************)
EXTENDS Naturals, Sequences, SequencesExt

CONSTANTS
  Families,  \* token families
  Streams,   \* requests of the event stream; used again once they are over
  MaxSeq,    \* bound: detections the capture releases
  Wants,     \* which of them each family's sensors show
  RingSize,  \* RING_SIZE
  QueueSize, \* QUEUE_SIZE
  WireSize   \* bound: unread frames after which a send waits for its reader

ASSUME StreamConstants ==
  /\ MaxSeq \in Nat
  /\ Wants \in [Families -> SUBSET (1..MaxSeq)]
  /\ RingSize \in Nat \ {0}
  /\ QueueSize \in Nat \ {0}
  /\ WireSize \in Nat \ {0}

VARIABLES
  released, \* the newest detection of the capture
  ring,     \* _ring
  cursor,   \* _cursor
  primed,   \* _primed
  active,   \* _active
  signedIn, \* the families that are not revoked
  hooks,    \* _unsubscribe: absent, a registered callback, or one that was spent
  stream    \* every request

bus == <<ring, cursor, primed, active>>
vars == <<released, bus, signedIn, hooks, stream>>

Seqs == 1..MaxSeq
None == MaxSeq + 1 \* no Last-Event-ID

Frame == [kind: {"open"}, head: 0..MaxSeq]
           \cup [kind: {"reset"}, last: 0..MaxSeq]
           \cup [kind: {"detection"}, seq: Seqs]
           \cup [kind: {"reauth"}]

(* head and resume are used until the stream starts, and the rest of what  *)
(* it holds until it ends; they are blank after that.                      *)
(* listens: subscribed and not closed.  lost: what its queue had no room   *)
(* for, kept for the properties.                                           *)
Phases == {"unused", "authorized", "opening", "sending", "waiting", "over"}
Stream == [phase: Phases, family: Families, resume: 0..None, listens: BOOLEAN,
           expired: BOOLEAN, head: 0..MaxSeq, last: 0..MaxSeq, queue: Seq(Seqs),
           lost: SUBSET Seqs, wire: Seq(Frame)]

Unused == [phase |-> "unused"]

StreamTypeOK ==
  /\ released \in 0..MaxSeq
  /\ ring \in Seq(Seqs) /\ Len(ring) <= RingSize
  /\ cursor \in 0..released
  /\ primed \in BOOLEAN /\ active \in BOOLEAN
  /\ signedIn \subseteq Families
  /\ hooks \in [Families -> {"absent", "armed", "spent"}]
  /\ \A s \in Streams : /\ stream[s] = Unused \/ stream[s] \in Stream
                        /\ stream[s] # Unused => Len(stream[s].queue) <= QueueSize

StreamInit ==
  /\ released = 0
  /\ ring = << >> /\ cursor = 0 /\ primed = FALSE /\ active = FALSE
  /\ signedIn = Families
  /\ hooks = [f \in Families |-> "absent"]
  /\ stream = [s \in Streams |-> Unused]

-----------------------------------------------------------------------------
(* The bus.                                                                *)

Used(s) == stream[s] # Unused
Listening(f) == {s \in Streams : Used(s) /\ stream[s].family = f /\ stream[s].listens}

(* The last n of a sequence: a deque with maxlen.                          *)
LastOfOneMore(seq, n) == IF Len(seq) <= n + 1 THEN seq ELSE SubSeq(seq, Len(seq) - n, Len(seq))
LastOf(seq, n) == IF Len(seq) <= n THEN seq ELSE SubSeq(seq, Len(seq) - n + 1, Len(seq))
From(a, b) == [i \in 1..(b - a) |-> a + i]

(* What a sequence holds of a set, in its order; Kept is what it holds of  *)
(* it up to an index.                                                      *)
Kept(seq, S) ==
  LET kept[n \in 0..Len(seq)] ==
        IF n = 0 THEN << >>
        ELSE IF seq[n] \in S THEN Append(kept[n - 1], seq[n]) ELSE kept[n - 1]
  IN  kept

Those(seq, S) == Kept(seq, S)[Len(seq)]

(* Subscription.push of everything after a up to b.                        *)
Queued(r, a, b) == r.queue \o Those(From(a, b), Wants[r.family])

Pushed(r, a, b) ==
  LET queue == Queued(r, a, b)
  IN  IF r.listens
        THEN [r EXCEPT !.queue = LastOf(queue, QueueSize),
                       !.lost = @ \cup (Range(queue) \ Range(LastOf(queue, QueueSize)))]
        ELSE r

(* DetectionBus.refresh up to "now".  The first one since a reset fills the *)
(* ring and tells nobody.                                                  *)
Refreshed(now) ==
  /\ ring' = LastOf(ring \o From(IF primed THEN cursor ELSE 0, now), RingSize)
  /\ cursor' = now
  /\ primed' = TRUE /\ active' = TRUE

(* What a refresh leaves each subscription with.                           *)
Fed(now) ==
  [s \in Streams |-> IF Used(s) /\ primed THEN Pushed(stream[s], cursor, now) ELSE stream[s]]

Oldest == IF ring' = << >> THEN 0 ELSE Head(ring')

(* The capture goes on; nobody has asked for it yet.                       *)
Detect ==
  /\ released < MaxSeq
  /\ released' = released + 1
  /\ UNCHANGED <<bus, signedIn, hooks, stream>>

(* The pump, and GET /v1/detections, which activates it.                   *)
Pump ==
  /\ active
  /\ Refreshed(released)
  /\ stream' = Fed(released)
  /\ UNCHANGED <<released, signedIn, hooks>>

Backfill ==
  /\ signedIn # {}
  /\ Refreshed(released)
  /\ stream' = Fed(released)
  /\ UNCHANGED <<released, signedIn, hooks>>

-----------------------------------------------------------------------------
(* A stream.                                                               *)

(* The dependencies of the route have run; the generator has not started.  *)
Connect(s, f, resume) ==
  /\ ~Used(s)
  /\ f \in signedIn
  /\ stream' = [stream EXCEPT ![s] =
       [phase |-> "authorized", family |-> f, resume |-> resume, listens |-> FALSE,
        expired |-> FALSE, head |-> 0, last |-> 0, queue |-> << >>, lost |-> {},
        wire |-> << >>]]
  /\ UNCHANGED <<released, bus, signedIn, hooks>>

(* DetectionBus.close_family.                                              *)
Silenced(streams, f) ==
  [s \in Streams |-> IF streams[s] # Unused /\ streams[s].family = f
                       THEN [streams[s] EXCEPT !.listens = FALSE] ELSE streams[s]]

Opening(s) ==
  [stream[s] EXCEPT !.phase = "opening", !.listens = TRUE, !.head = released,
                    !.wire = <<[kind |-> "open", head |-> released]>>]

OpenedLate(s, now) == Opening(s)
Opened(s, now) == Pushed(Opening(s), released, now)

(* head_seq, subscribe and the opening comment.  The capture may let out   *)
(* another detection between the two refreshes.  A family without a hook   *)
(* gets one; if it is already revoked the callback runs at once.           *)
Begin(s) ==
  LET f == stream[s].family IN
  /\ Used(s) /\ stream[s].phase = "authorized"
  /\ \E now \in released..MaxSeq :
       LET opened == [Fed(now) EXCEPT ![s] = Opened(s, now)]
       IN  /\ now <= released + 1
           /\ released' = now
           /\ Refreshed(now)
           /\ \/ hooks[f] = "absent" /\ f \in signedIn
                 /\ hooks' = [hooks EXCEPT ![f] = "armed"]
                 /\ stream' = opened
              \/ hooks[f] = "absent" /\ f \notin signedIn
                 /\ hooks' = [hooks EXCEPT ![f] = "spent"]
                 /\ stream' = Silenced(opened, f)
              \/ hooks[f] # "absent"
                 /\ UNCHANGED hooks
                 /\ stream' = opened
  /\ UNCHANGED signedIn

(* The comment is sent: where the stream starts from.                      *)
StartAtHead(s) ==
  /\ Used(s) /\ stream[s].phase = "opening"
  /\ stream[s].resume = None
  /\ stream' = [stream EXCEPT ![s].phase = "sending", ![s].last = stream[s].head,
                              ![s].head = 0, ![s].resume = 0]
  /\ UNCHANGED <<released, bus, signedIn, hooks>>

TooOld(s) == Oldest > 0 /\ stream[s].resume < Oldest - 1

Replayed(s) == Those(ring', {d \in Wants[stream[s].family] : d > stream[s].resume})

ResumeAt(s) ==
  LET r == stream[s] IN
  /\ Used(s) /\ r.phase = "opening"
  /\ r.resume # None
  /\ Refreshed(released)
  /\ stream' = [Fed(released) EXCEPT
       ![s].phase = "sending", ![s].head = 0, ![s].resume = 0,
       ![s].last = IF TooOld(s) THEN r.head
                   ELSE IF Replayed(s) = << >> THEN r.resume ELSE Last(Replayed(s)),
       ![s].wire = @ \o IF TooOld(s) THEN <<[kind |-> "reset", last |-> r.head]>>
                        ELSE [i \in DOMAIN Replayed(s) |->
                                [kind |-> "detection", seq |-> Replayed(s)[i]]]]
  /\ UNCHANGED <<released, signedIn, hooks>>

InLoop(s) == Used(s) /\ stream[s].phase \in {"sending", "waiting"}

ForgetsAlways(s) == hooks' = [hooks EXCEPT ![stream[s].family] = "absent"]

(* DetectionBus._forget_family, for a stream that is out.                  *)
Forgets(s) ==
  hooks' = IF Listening(stream[s].family) \subseteq {s}
             THEN [hooks EXCEPT ![stream[s].family] = "absent"] ELSE hooks

Ends(s, frames) ==
  /\ stream' = [stream EXCEPT ![s].phase = "over", ![s].listens = FALSE, ![s].expired = FALSE,
                              ![s].queue = << >>, ![s].wire = @ \o frames]
  /\ Forgets(s)
  /\ UNCHANGED <<released, bus, signedIn>>

(* The checks at the top of the loop, in their order.                      *)
EndRevoked(s) == InLoop(s) /\ ~stream[s].listens /\ Ends(s, << >>)

EndReauth(s) ==
  /\ InLoop(s) /\ stream[s].listens /\ stream[s].expired
  /\ Ends(s, <<[kind |-> "reauth"]>>)

GoesOn(s) == InLoop(s) /\ stream[s].listens /\ ~stream[s].expired

(* sse_rotate_s have passed.                                               *)
EndRotate(s) == GoesOn(s) /\ Ends(s, << >>)

FreshWhole(s) == stream[s].queue
Fresh(s) == Those(stream[s].queue, {d \in Seqs : d > stream[s].last})

Sends(s, fresh) ==
  /\ Len(stream[s].wire) < WireSize
  /\ stream' = [stream EXCEPT ![s].phase = "sending", ![s].last = Head(fresh),
                              ![s].queue = Tail(fresh),
                              ![s].wire = Append(@, [kind |-> "detection", seq |-> Head(fresh)])]
  /\ UNCHANGED <<released, bus, signedIn, hooks>>

(* Detections that were replayed are taken off the queue without an await. *)
Deliver(s) == GoesOn(s) /\ Fresh(s) # << >> /\ Sends(s, Fresh(s))

Wait(s) ==
  /\ GoesOn(s) /\ stream[s].phase = "sending" /\ Fresh(s) = << >>
  /\ stream' = [stream EXCEPT ![s].phase = "waiting", ![s].queue = << >>]
  /\ UNCHANGED <<released, bus, signedIn, hooks>>

(* A push woke the stream before it was closed: next() still hands it on.  *)
DeliverLast(s) ==
  /\ InLoop(s) /\ stream[s].phase = "waiting"
  /\ stream[s].queue # << >> /\ Head(stream[s].queue) > stream[s].last
  /\ Sends(s, stream[s].queue)

(* The client hung up: the generator is closed at the await it is at.      *)
ClientGone(s) ==
  /\ Used(s)
  /\ IF stream[s].phase \in {"authorized", "over"} THEN UNCHANGED hooks ELSE Forgets(s)
  /\ stream' = [stream EXCEPT ![s] = Unused]
  /\ UNCHANGED <<released, bus, signedIn>>

Serve(s) ==
  \/ Begin(s) \/ StartAtHead(s) \/ ResumeAt(s)
  \/ EndRevoked(s) \/ EndReauth(s) \/ Deliver(s) \/ Wait(s) \/ DeliverLast(s)

-----------------------------------------------------------------------------
(* What happens to sessions.                                               *)

Expire(s) ==
  /\ Used(s) /\ ~stream[s].expired
  /\ stream' = [stream EXCEPT ![s].expired = TRUE]
  /\ UNCHANGED <<released, bus, signedIn, hooks>>

(* revoke_family: the callbacks are called once and dropped.               *)
Revoke(f) ==
  /\ f \in signedIn
  /\ signedIn' = signedIn \ {f}
  /\ IF hooks[f] = "armed"
       THEN stream' = Silenced(stream, f) /\ hooks' = [hooks EXCEPT ![f] = "absent"]
       ELSE UNCHANGED <<stream, hooks>>
  /\ UNCHANGED <<released, bus>>

ResetKeepsRing ==
  /\ signedIn' = {}
  /\ hooks' = [f \in Families |-> "absent"]
  /\ cursor' = 0 /\ primed' = FALSE /\ active' = FALSE
  /\ stream' = [s \in Streams |->
       IF Used(s) THEN [stream[s] EXCEPT !.listens = FALSE, !.expired = TRUE] ELSE Unused]
  /\ UNCHANGED <<released, ring>>

(* POST /__admin/reset: the bus, then the tokens.  A token the store does  *)
(* not know counts as expired.                                             *)
ResetState ==
  /\ signedIn' = {}
  /\ hooks' = [f \in Families |-> "absent"]
  /\ ring' = << >> /\ cursor' = 0 /\ primed' = FALSE /\ active' = FALSE
  /\ stream' = [s \in Streams |->
       IF Used(s) THEN [stream[s] EXCEPT !.listens = FALSE, !.expired = TRUE] ELSE Unused]
  /\ UNCHANGED released

-----------------------------------------------------------------------------
(* Clients that read what they are sent and hang up when they like.        *)

TakeFrame(s) ==
  /\ Used(s) /\ stream[s].wire # << >>
  /\ stream' = [stream EXCEPT ![s].wire = Tail(@)]
  /\ UNCHANGED <<released, bus, signedIn, hooks>>

World ==
  \/ Detect \/ Pump \/ Backfill \/ ResetState
  \/ \E f \in Families : Revoke(f)
  \/ \E s \in Streams : Serve(s) \/ EndRotate(s) \/ Expire(s)

Client(s) ==
  \/ \E f \in Families, resume \in (0..cursor) \cup {None} : Connect(s, f, resume)
  \/ TakeFrame(s) \/ ClientGone(s)

StreamNext == World \/ \E s \in Streams : Client(s)

StreamSpec == StreamInit /\ [][StreamNext]_vars

-----------------------------------------------------------------------------
(* Properties.                                                             *)

Between(a, b) == {d \in Seqs : a < d /\ d <= b}

(* Whatever a subscribed stream has yet to send is on its queue, or in the *)
(* ring it is about to replay: no detection falls between the head it      *)
(* announced, the replay, the queue and what is released meanwhile, unless *)
(* the queue overflowed.                                                   *)
NothingBetween ==
  \A s \in Streams : (Used(s) /\ stream[s].listens) =>
    LET r == stream[s]
        sent == IF r.phase = "opening" THEN r.head ELSE r.last
    IN  Wants[r.family] \cap Between(sent, cursor) \subseteq Range(r.queue) \cup r.lost

(* The detections of a stream that are on their way are in order, without  *)
(* repeats, and none is newer than what the stream counts as sent.         *)
WireInOrder ==
  \A s \in Streams : Used(s) =>
    LET wire == stream[s].wire
        onWire == {i \in DOMAIN wire : wire[i].kind = "detection"}
    IN  \A i, j \in onWire : /\ i < j => wire[i].seq < wire[j].seq
                             /\ wire[i].seq <= stream[s].last

(* A stream is whole at every await: nothing lies between what it          *)
(* announced, its replay and its queue, and what is under way is in order  *)
(* and once.                                                               *)
StreamsAreWhole ==
  /\ StreamTypeOK
  /\ NothingBetween
  /\ WireInOrder

(* The ring holds the newest detections without a hole, so that a resume   *)
(* point the ring covers replays everything after it.                      *)
RingIsContiguous ==
  /\ \A i \in DOMAIN ring : ring[i] = cursor - Len(ring) + i
  /\ primed => Len(ring) = IF cursor < RingSize THEN cursor ELSE RingSize

(* A stream of a family that is signed in is told when the family is       *)
(* revoked, however streams of the family come and go.                     *)
HooksCover ==
  \A f \in signedIn : Listening(f) # {} <=> hooks[f] = "armed"
=============================================================================
