------------------------------ MODULE RunScreen ------------------------------
(***************************************************************************)
(* The Run button (use-run-search.ts, run-control.tsx) of the search       *)
(* screens one user has open, against the search service of SearchJobs:    *)
(* which search a screen remembers as its own, which it ends before it     *)
(* starts another, and what is left when a call fails on the way.          *)
(*                                                                         *)
(* The label sent as the Idempotency-Key is a hash of the body, so here a  *)
(* body is its own label.                                                  *)
(***************************************************************************)
EXTENDS SearchJobs

CONSTANTS
  Me,      \* the family the screens are signed in with
  Screens, \* the tabs
  Faults   \* what may go wrong: "delete", "post", "commit", "answer", "reload"

ASSUME RunConstants ==
  /\ Me \in Families
  /\ Bodies \subseteq Keys
  /\ Faults \subseteq {"delete", "post", "commit", "answer", "reload"}

VARIABLES
  started, \* started.current and startedLabel.current of each screen
  watched, \* the search in the address bar of each screen
  call     \* the mutation of each screen

screens == <<started, watched, call>>
runVars == <<vars, screens>>

NoSearch == 0
NotStarted == [id |-> NoSearch, label |-> NoKey]
StartedBy == {NotStarted} \cup [id: Ids, label: Bodies]

(* "ending": the DELETE is out; "posting": the POST is; "answered": its    *)
(* answer is on the way; "failed": the error is on the screen.             *)
Call == [phase: {"idle", "failed"}]
          \cup [phase: {"ending", "posting"}, body: Bodies]
          \cup [phase: {"answered"}, body: Bodies, id: Ids]
Idling == [phase |-> "idle"]
Failure == [phase |-> "failed"]

RunTypeOK ==
  /\ started \in [Screens -> StartedBy]
  /\ watched \in [Screens -> {NoSearch} \cup Ids]
  /\ call \in [Screens -> Call]

RunInit ==
  /\ Init
  /\ started = [s \in Screens |-> NotStarted]
  /\ watched = [s \in Screens |-> NoSearch]
  /\ call = [s \in Screens |-> Idling]

-----------------------------------------------------------------------------
(* Pressing Run.  The button is disabled while a call is out.              *)

Pressable(s) == call[s].phase \in {"idle", "failed"}

RunsAlready(s, b) == started[s] # NotStarted /\ started[s].label = b

(* The body the screen's own search was started with: it is the answer.    *)
PressAgain(s, b) ==
  /\ Pressable(s)
  /\ RunsAlready(s, b)
  /\ watched' = [watched EXCEPT ![s] = started[s].id]
  /\ call' = [call EXCEPT ![s] = Idling]
  /\ UNCHANGED <<vars, started>>

PressPosting(s, b) ==
  /\ Pressable(s)
  /\ ~RunsAlready(s, b)
  /\ call' = [call EXCEPT ![s] = [phase |-> "posting", body |-> b]]
  /\ UNCHANGED <<vars, started, watched>>

Press(s, b) ==
  /\ Pressable(s)
  /\ ~RunsAlready(s, b)
  /\ call' = [call EXCEPT ![s] = [phase |-> IF started[s] = NotStarted THEN "posting" ELSE "ending",
                                  body |-> b]]
  /\ UNCHANGED <<vars, started, watched>>

(* endSearch, then the POST whatever the DELETE came to.                   *)
EndOld(s) ==
  /\ call[s].phase = "ending"
  /\ \/ Delete(Me, started[s].id)
     \/ DeleteMissing(Me, started[s].id)
     \/ "delete" \in Faults /\ UNCHANGED vars
  /\ started' = [started EXCEPT ![s] = NotStarted]
  /\ call' = [call EXCEPT ![s] = [phase |-> "posting", body |-> call[s].body]]
  /\ UNCHANGED watched

Answers(s, id) == call' = [call EXCEPT ![s] = [phase |-> "answered", body |-> call[s].body, id |-> id]]
Fails(s) == call' = [call EXCEPT ![s] = Failure]

PostCreates(s) ==
  LET b == call[s].body IN
  /\ call[s].phase = "posting"
  /\ \E failing \in ScanFaults : Create(Me, b, b, failing)
  /\ Answers(s, counter') \/ ("commit" \in Faults /\ Fails(s))
  /\ UNCHANGED <<started, watched>>

PostReplays(s) ==
  LET b == call[s].body IN
  /\ call[s].phase = "posting"
  /\ Replay(Me, b, b)
  /\ Answers(s, records'[<<Me, b>>].id)
  /\ UNCHANGED <<started, watched>>

(* 429, 503 before the commit, or a request that never arrives.            *)
PostFails(s) ==
  LET b == call[s].body IN
  /\ call[s].phase = "posting"
  /\ \/ RefuseSlots(Me, b, b)
     \/ "post" \in Faults /\ (FailBeforeCommit(Me, b, b) \/ UNCHANGED vars)
  /\ Fails(s)
  /\ UNCHANGED <<started, watched>>

HearStarted(s) ==
  /\ call[s].phase = "answered"
  /\ started' = [started EXCEPT ![s] = [id |-> call[s].id, label |-> call[s].body]]
  /\ watched' = [watched EXCEPT ![s] = call[s].id]
  /\ call' = [call EXCEPT ![s] = Idling]
  /\ UNCHANGED <<vars>>

LoseAnswer(s) ==
  /\ "answer" \in Faults
  /\ call[s].phase = "answered"
  /\ Fails(s)
  /\ UNCHANGED <<vars, started, watched>>

-----------------------------------------------------------------------------
(* What else a screen does to searches.                                    *)

(* A poll or a page of rows of the search in the address bar.              *)
Read(s) ==
  /\ watched[s] # NoSearch
  /\ Get(Me, watched[s]) \/ GetMissing(Me, watched[s])
  /\ UNCHANGED screens

(* The Stop button: the job is ended; the Run button is not told.          *)
StopWatched(s) ==
  /\ watched[s] # NoSearch
  /\ jobs[watched[s]].state \notin Finished
  /\ Delete(Me, watched[s])
  /\ UNCHANGED screens

ReloadKeepsId(s) ==
  /\ "reload" \in Faults
  /\ started' = [started EXCEPT ![s].label = NoKey]
  /\ call' = [call EXCEPT ![s] = Idling]
  /\ UNCHANGED <<vars, watched>>

(* A reload keeps the address and forgets the rest.                        *)
Reload(s) ==
  /\ "reload" \in Faults
  /\ started' = [started EXCEPT ![s] = NotStarted]
  /\ call' = [call EXCEPT ![s] = Idling]
  /\ UNCHANGED <<vars, watched>>

Service ==
  /\ Tick \/ Reap \/ \E i \in Ids : Scan(i)
  /\ UNCHANGED screens

RunNext ==
  \/ Service
  \/ \E s \in Screens :
       \/ \E b \in Bodies : Press(s, b) \/ PressAgain(s, b)
       \/ EndOld(s) \/ PostCreates(s) \/ PostReplays(s) \/ PostFails(s)
       \/ HearStarted(s) \/ LoseAnswer(s)
       \/ Read(s) \/ StopWatched(s) \/ Reload(s)

RunSpec == RunInit /\ [][RunNext]_runVars

(* The clock moves and the reaper runs; nothing is asked of the user.      *)
RunFairSpec ==
  /\ RunSpec
  /\ WF_runVars(Tick /\ UNCHANGED screens)
  /\ WF_runVars(Reap /\ UNCHANGED screens)

-----------------------------------------------------------------------------
(* Properties.                                                             *)

(* While nothing fails no slot leaks: every search that is alive is one    *)
(* some screen remembers, or is about to, and so will end before it starts *)
(* another (use-run-search.ts:14).  Replays of another tab's search, Stop, *)
(* expiry and refusals included; hence no more slots than screens.         *)
EverySlotHasItsScreen ==
  \A i \in live : \E s \in Screens :
    \/ started[s].id = i
    \/ call[s].phase = "answered" /\ call[s].id = i

(* Two tabs that start, retry and stop searches hold one slot for each     *)
(* screen at most, and no retry starts a second search.                    *)
TabsKeepTheirSlots ==
  /\ RunTypeOK
  /\ EverySlotHasItsScreen
  /\ NoTwin

Followed(i) == \E s \in Screens :
  watched[s] = i \/ (call[s].phase = "answered" /\ call[s].id = i)

(* Whatever fails, a search no screen knows of gives its slot back, even   *)
(* if its label keeps being posted and the answers keep being lost.        *)
LeakedSlotComesBack == \A i \in Ids : (i \in live /\ ~Followed(i)) ~> (i \notin live \/ Followed(i))
=============================================================================
