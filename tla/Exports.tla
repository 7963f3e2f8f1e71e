------------------------------ MODULE Exports ------------------------------
(***************************************************************************)
(* Export bundles of cases (workspace/exports.py, api/cases.py).  A job is *)
(* made ready by a poll or by the next GET, whichever comes first, from    *)
(* the case as it is then.  The download answers 200 first and takes the   *)
(* archive from the job when the body's first part is asked for.  An admin *)
(* reset forgets jobs, keys and cases, but not a job somebody downloads.   *)
(***************************************************************************)
EXTENDS Integers, FiniteSets, Sequences

CONSTANTS
  Queued,      \* QUEUED_S, in ticks
  Duration,    \* DURATION_S
  Lifetime,    \* TTL_S of an export
  KeyLifetime, \* TTL_S of an idempotency record
  ExportKeys,
  Downloads,   \* requests for a bundle
  MaxExports, MaxEdition  \* bounds: jobs; edits of the case

ASSUME ExportConstants ==
  /\ {Queued, Duration, Lifetime, KeyLifetime, MaxExports} \subseteq Nat
  /\ MaxEdition \in Nat \ {0}
  /\ Queued < Duration
  /\ KeyLifetime <= Lifetime + Duration  \* 600 s, and 900 s after 2.5

VARIABLES
  edition,    \* the case: its version
  exports,    \* every job, in order of creation
  cleared,    \* how many of them a reset took from _exports
  keyed,      \* idempotency records: key -> job and age
  downloads,  \* requests: job, and the edition received
  degraded,   \* chaos.pcap_degraded
  refused     \* history: a replay that was told its job is gone

exportVars == <<edition, exports, cleared, keyed, downloads, degraded, refused>>

NoArchive == 0        \* no archive, no job
NotYet == -1     \* a download whose body has not begun
Empty == 0       \* a body without a bundle
OldAge == Duration + Lifetime + 1

Export == [age: 0..OldAge, since: 0..Lifetime + 1, state: {"queued", "running", "ready"},
           archive: 0..MaxEdition, asked: 1..MaxEdition]

ExportTypeOK ==
  /\ edition \in 1..MaxEdition
  /\ exports \in Seq(Export) /\ Len(exports) <= MaxExports
  /\ cleared \in 0..Len(exports)
  /\ DOMAIN keyed \subseteq ExportKeys
  /\ \A k \in DOMAIN keyed : keyed[k] \in [job: DOMAIN exports, age: 0..KeyLifetime]
  /\ downloads \in [Downloads -> [job: 0..MaxExports, got: NotYet..MaxEdition]]
  /\ degraded \in BOOLEAN /\ refused \in BOOLEAN

ExportInit ==
  /\ edition = 1 /\ exports = <<>> /\ cleared = 0
  /\ keyed = [k \in {} |-> NoArchive]
  /\ downloads = [d \in Downloads |-> [job |-> NoArchive, got |-> NotYet]]
  /\ degraded = FALSE /\ refused = FALSE

-----------------------------------------------------------------------------
Expired(x) == x.state = "ready" /\ x.since > Lifetime

Made(x) == [x EXCEPT !.state = "ready", !.archive = edition, !.since = 0]

(* tick(), run by the poll and before every GET.                           *)
TickedOne(x) ==
  CASE x.state = "ready" -> IF Expired(x) THEN [x EXCEPT !.archive = NoArchive] ELSE x
    [] x.state # "ready" /\ x.age >= Duration -> Made(x)
    [] x.state # "ready" /\ x.age < Duration ->
         IF x.age > Queued THEN [x EXCEPT !.state = "running"] ELSE x

AllTicked ==
  [i \in DOMAIN exports |-> IF i > cleared THEN TickedOne(exports[i]) ELSE exports[i]]

Found(i) == i > cleared /\ ~Expired(AllTicked[i])

PollExports ==
  /\ exports' = AllTicked
  /\ UNCHANGED <<edition, cleared, keyed, downloads, degraded, refused>>

EditCase ==
  /\ edition < MaxEdition
  /\ edition' = edition + 1
  /\ UNCHANGED <<exports, cleared, keyed, downloads, degraded, refused>>

New == [age |-> 0, since |-> 0, state |-> "queued", archive |-> NoArchive, asked |-> edition]

AliveForever(k) == k \in DOMAIN keyed

(* lookup purges first, so a key that is too old is a new one.             *)
Alive(k) == k \in DOMAIN keyed /\ keyed[k].age < KeyLifetime

CreateExport(k) ==
  /\ Len(exports) < MaxExports
  /\ k \in ExportKeys => ~Alive(k)
  /\ exports' = Append(exports, New)
  /\ keyed' = IF k \notin ExportKeys THEN keyed
              ELSE [l \in DOMAIN keyed \cup {k} |->
                      IF l = k THEN [job |-> Len(exports) + 1, age |-> 0] ELSE keyed[l]]
  /\ UNCHANGED <<edition, cleared, downloads, degraded, refused>>

(* A replay GETs the job, which may answer that it has expired or is not   *)
(* there.                                                                  *)
ReplayExport(k) ==
  /\ Alive(k)
  /\ exports' = AllTicked
  /\ refused' = (refused \/ ~Found(keyed[k].job))
  /\ UNCHANGED <<edition, cleared, keyed, downloads, degraded>>

(* GET .../file: 503 when degraded, 404 once expired, 409 before it is     *)
(* ready; else 200, with the body still to come.                           *)
Download(d, i) ==
  /\ downloads[d].job = NoArchive
  /\ ~degraded
  /\ exports' = AllTicked
  /\ Found(i) /\ AllTicked[i].state = "ready"
  /\ downloads' = [downloads EXCEPT ![d].job = i]
  /\ UNCHANGED <<edition, cleared, keyed, degraded, refused>>

BodyNow(d) == edition

(* stream(): what the job holds now.                                       *)
Body(d) == exports[downloads[d].job].archive

Stream(d) ==
  /\ downloads[d].job # NoArchive /\ downloads[d].got = NotYet
  /\ downloads' = [downloads EXCEPT ![d].got = Body(d)]
  /\ UNCHANGED <<edition, exports, cleared, keyed, degraded, refused>>

SetDegraded(b) ==
  /\ degraded' = b
  /\ UNCHANGED <<edition, exports, cleared, keyed, downloads, refused>>

ResetKeepsKeyed ==
  /\ cleared < Len(exports)
  /\ cleared' = Len(exports) /\ edition' = 1
  /\ UNCHANGED <<exports, keyed, downloads, degraded, refused>>

(* An admin reset, where there is a job to forget.                         *)
ResetExports ==
  /\ cleared < Len(exports)
  /\ cleared' = Len(exports) /\ edition' = 1
  /\ keyed' = [k \in {} |-> NoArchive]
  /\ UNCHANGED <<exports, downloads, degraded, refused>>

Older(n, most) == IF n < most THEN n + 1 ELSE n

TickExports ==
  /\ exports' = [i \in DOMAIN exports |->
       [exports[i] EXCEPT !.age = Older(@, OldAge),
                          !.since = IF exports[i].state = "ready" THEN Older(@, Lifetime + 1) ELSE @]]
  /\ keyed' = [k \in DOMAIN keyed |-> [keyed[k] EXCEPT !.age = Older(@, KeyLifetime)]]
  /\ UNCHANGED <<edition, cleared, downloads, degraded, refused>>

ExportNext ==
  \/ PollExports \/ EditCase \/ TickExports \/ ResetExports
  \/ \E k \in ExportKeys \cup {"none"} : CreateExport(k) \/ ReplayExport(k)
  \/ \E d \in Downloads : Stream(d) \/ \E i \in DOMAIN exports : Download(d, i)
  \/ \E b \in BOOLEAN : SetDegraded(b)

ExportSpec == ExportInit /\ [][ExportNext]_exportVars

-----------------------------------------------------------------------------
(* A bundle is the case as it was at one moment after it was asked for,    *)
(* the same for everyone who downloads it, however the case goes on.       *)
OneBundle ==
  \A d, e \in Downloads :
    downloads[d].got > Empty /\ downloads[e].got > Empty /\ downloads[d].job = downloads[e].job
      => /\ downloads[d].got = downloads[e].got
         /\ downloads[d].got >= exports[downloads[d].job].asked

(* The same Idempotency-Key returns the same job for as long as the key is *)
(* remembered: no replay finds that its job has expired.                   *)
ReplaysFindTheirJob == ~refused

(* A bundle is of one moment and for everyone the same, and a key that is  *)
(* remembered names a job that is there.                                   *)
ExportSafety ==
  /\ ExportTypeOK
  /\ OneBundle
  /\ ReplaysFindTheirJob

(* A download that answered 200 delivers the bundle.                       *)
DownloadsAreWhole == \A d \in Downloads : downloads[d].got # Empty
=============================================================================
