---------------------------- MODULE FeedPromise ----------------------------
(***************************************************************************)
(* What the feed of a session promises the tabs that read it, whatever     *)
(* streams it is put together from: detections are announced once and in   *)
(* order from a point on, what it jumps over was declared by a reset or    *)
(* taken by a full queue, and until it is stopped it catches up.           *)
(***************************************************************************)
EXTENDS Naturals, Sequences, Functions

CONSTANTS
  LastSeq, \* bound: detections the capture releases
  Wanted  \* those on sensors of the user

ASSUME PromiseConstants == LastSeq \in Nat /\ Wanted \subseteq 1..LastSeq

VARIABLES
  latest,     \* the newest detection of the capture
  start,      \* where the feed began
  resumeFrom, \* the last detection it counts as known
  announced,  \* every detection announced, in order
  excused,    \* what it need not announce any more
  stopped     \* it will announce nothing more

promiseVars == <<latest, start, resumeFrom, announced, excused, stopped>>

Unknown == LastSeq + 1 \* it has not heard the head yet

Since(a, b) == {d \in Wanted : a < d /\ d <= b}

PromiseTypeOK ==
  /\ latest \in 0..LastSeq
  /\ resumeFrom \in 0..Unknown /\ start \in 0..Unknown
  /\ announced \in Seq(1..LastSeq) /\ excused \subseteq 1..LastSeq
  /\ stopped \in BOOLEAN

PromiseInit ==
  /\ latest = 0
  /\ start = Unknown /\ resumeFrom = Unknown
  /\ announced = << >> /\ excused = {} /\ stopped = FALSE

(* The capture goes on, and a queue that is full loses what is in it.      *)
Release(now, lost) ==
  /\ now \in latest..LastSeq /\ latest' = now
  /\ lost \subseteq Wanted \cap 1..now /\ excused' = excused \cup lost
  /\ UNCHANGED <<start, resumeFrom, announced, stopped>>

Starts(head) ==
  /\ start = Unknown /\ ~stopped
  /\ head \in 0..latest
  /\ start' = head /\ resumeFrom' = head
  /\ UNCHANGED <<latest, announced, excused, stopped>>

(* Nothing that is wanted is jumped over.                                  *)
Announce(d) ==
  /\ start # Unknown /\ ~stopped
  /\ d \in Since(resumeFrom, latest)
  /\ Since(resumeFrom, d) \ {d} \subseteq excused
  /\ resumeFrom' = d /\ announced' = Append(announced, d)
  /\ UNCHANGED <<latest, start, excused, stopped>>

(* A reset: what lies between is not coming.                               *)
Declare(last) ==
  /\ start # Unknown /\ ~stopped
  /\ last \in resumeFrom..latest
  /\ resumeFrom' = last
  /\ excused' = excused \cup {d \in 1..LastSeq : resumeFrom < d /\ d <= last}
  /\ UNCHANGED <<latest, start, announced, stopped>>

StopForGood ==
  /\ stopped' = TRUE
  /\ UNCHANGED <<latest, start, resumeFrom, announced, excused>>

(* The session leaves: its feed is forgotten, and the next is a new one.   *)
Forget ==
  /\ start' = Unknown /\ resumeFrom' = Unknown
  /\ announced' = << >> /\ excused' = {} /\ stopped' = FALSE
  /\ UNCHANGED latest

PromiseNext ==
  \/ \E now \in 0..LastSeq : \E lost \in SUBSET (Wanted \cap 1..now) : Release(now, lost)
  \/ \E d \in 0..LastSeq : Starts(d) \/ Announce(d) \/ Declare(d)
  \/ StopForGood \/ Forget

(* What was released since it began is announced in the end.               *)
CatchesUp ==
  \A d \in Wanted :
    (start < d /\ d <= latest /\ ~stopped)
      ~> (d \in Range(announced) \cup excused \/ stopped \/ start = Unknown)

PromiseSafety == PromiseInit /\ [][PromiseNext]_promiseVars

PromiseSpec == PromiseSafety /\ CatchesUp

-----------------------------------------------------------------------------
(* What follows for a reader: every detection since the start that the     *)
(* feed counts as known was announced, or is excused, and what was         *)
(* announced is in order and nothing in it is newer than that.             *)
NothingIsSkipped ==
  /\ \A i, j \in DOMAIN announced : i < j => announced[i] < announced[j]
  /\ Range(announced) \subseteq Since(start, resumeFrom)
  /\ start # Unknown => Since(start, resumeFrom) \subseteq Range(announced) \cup excused
=============================================================================
