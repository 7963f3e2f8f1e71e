-------------------------- MODULE SearchJobsProofs --------------------------
(***************************************************************************)
(* Proofs about the search service, the screens that run searches on it    *)
(* and the screen that reads their results, for every value of the         *)
(* constants.                                                              *)
(***************************************************************************)
EXTENDS RunScreen, ResultScreen, FiniteSetTheorems, WellFoundedInduction, TLAPS

-----------------------------------------------------------------------------
(* What the helpers return.                                                *)

LEMMA OlderType ==
  ASSUME NEW ttl \in Nat, NEW n \in 0..ttl
  PROVE  Older(n, ttl) \in 0..ttl
BY DEF Older

LEMMA AbortJobsType ==
  ASSUME jobs \in [Ids -> Job], NEW S
  PROVE  AbortJobs(S) \in [Ids -> Job]
BY DEF AbortJobs, Abort, Job, States, Finished

LEMMA AbortTasksType ==
  ASSUME task \in [Ids -> TaskStates], NEW S
  PROVE  AbortTasks(S) \in [Ids -> TaskStates]
BY DEF AbortTasks, CancelTask, TaskStates

LEMMA IdleFinite ==
  ASSUME live \subseteq Ids, NEW order \in Ascending(Idle)
  PROVE  /\ Cardinality(Idle) \in Nat
         /\ order \in Seq(Idle)
         /\ order \in Seq(Ids)
<1>1. IsFiniteSet(Ids)
  BY SearchConstants, FS_Interval DEF Ids
<1>2. IsFiniteSet(Idle)
  BY <1>1, FS_Subset DEF Idle
<1>3. Cardinality(Idle) \in Nat
  BY <1>2, FS_CardinalityType
<1>4. Idle \subseteq Ids
  BY DEF Idle
<1>5. order \in [1..Cardinality(Idle) -> Idle]
  BY DEF Ascending
<1>6. order \in Seq(Idle)
  BY <1>3, <1>5
<1> QED BY <1>3, <1>4, <1>5, <1>6

LEMMA RememberExpiredType ==
  ASSUME live \subseteq Ids, expired \in Seq(Ids), NEW order \in Ascending(Idle)
  PROVE  RememberExpired(order) \in Seq(Ids)
<1>1. order \in Seq(Ids)
  BY IdleFinite
<1>2. expired \o order \in Seq(Ids)
  BY <1>1
<1>3. ASSUME NEW s \in Seq(Ids), NEW n \in Nat
      PROVE  LastOf(s, n) \in Seq(Ids)
  BY <1>3 DEF LastOf
<1> QED BY <1>2, <1>3, SearchConstants DEF RememberExpired

(* A purge, or no purge at all, keeps some of the records as they are.     *)
LEMMA LookedUpKeeps ==
  ASSUME TypeOK, NEW k, NEW r \in LookedUp(k)
  PROVE  /\ DOMAIN r \subseteq DOMAIN records
         /\ \A s \in DOMAIN r : r[s] = records[s]
         /\ r \in [DOMAIN r -> Record]
<1>1. CASE r = records
  BY <1>1 DEF TypeOK
<1>2. ASSUME r # records
      PROVE  \E K \in SUBSET DOMAIN records : r = Restrict(records, K)
  <2> DEFINE F == {s \in DOMAIN records : records[s].age < KeyTTL}
             fresh == Restrict(records, F)
  <2>1. DOMAIN fresh = F
    BY DEF Restrict
  <2>2. r \in Purged
    BY <1>2 DEF LookedUp
  <2>3. r = fresh \/ \E K \in Youngest(fresh, MaxEntries) : r = Restrict(fresh, K)
    BY <2>2 DEF Purged
  <2>4. CASE r = fresh
    BY <2>4
  <2>5. CASE \E K \in Youngest(fresh, MaxEntries) : r = Restrict(fresh, K)
    <3>1. PICK K \in Youngest(fresh, MaxEntries) : r = Restrict(fresh, K)
      BY <2>5
    <3>2. K \subseteq F
      BY <2>1 DEF Youngest
    <3>3. Restrict(fresh, K) = Restrict(records, K)
      BY <3>2 DEF Restrict
    <3> QED BY <3>1, <3>2, <3>3
  <2> QED BY <2>3, <2>4, <2>5
<1>3. CASE \E K \in SUBSET DOMAIN records : r = Restrict(records, K)
  BY <1>3 DEF Restrict, TypeOK
<1> QED BY <1>1, <1>2, <1>3

LEMMA LegStays ==
  ASSUME NEW i, NEW job \in Job,
         job.matched <= job.scanned, job.scanned <= job.total,
         Leg(i, job)
  PROVE  \E scanned \in job.scanned..job.total,
            matched \in job.matched..job.total,
            state \in {"running", "failed"} :
              matched <= scanned /\ Settles(i, job, scanned, matched, state)
<1>1. /\ job.total \in Nat /\ job.scanned \in Nat /\ job.matched \in Nat
      /\ ScanSteps \in Nat \ {0}
  BY SearchConstants DEF Job
<1>2. Chunk(job.total) \in Int
  BY <1>1 DEF Chunk
<1>3. /\ PauseAt(job.scanned, job.total) \in Int
      /\ PauseAt(job.scanned, job.total) <= job.total
  <2> DEFINE next == (job.scanned \div Chunk(job.total) + 1) * Chunk(job.total)
  <2>1. Chunk(job.total) > 0
    BY <1>1 DEF Chunk
  <2>2. job.scanned \div Chunk(job.total) \in Int
    BY <1>1, <1>2, <2>1
  <2>3. next \in Int
    BY <1>2, <2>2
  <2> QED BY <1>1, <2>3 DEF PauseAt
<1>4. LegEnd(job) \in Int /\ LegEnd(job) <= job.total
  <2>1. FailAt(job.total) \in Int
    BY <1>1 DEF FailAt
  <2> QED BY <1>1, <1>3, <2>1 DEF LegEnd, Doomed
<1>5. PICK scanned \in job.scanned..LegEnd(job) :
        \E matched \in job.matched..(job.matched + scanned - job.scanned) :
          \E state \in {"running", "failed"} : Settles(i, job, scanned, matched, state)
  BY DEF Leg
<1>6. PICK matched \in job.matched..(job.matched + scanned - job.scanned) :
        \E state \in {"running", "failed"} : Settles(i, job, scanned, matched, state)
  BY <1>5
<1>7. scanned \in job.scanned..job.total /\ matched \in job.matched..job.total /\ matched <= scanned
  BY <1>1, <1>4
<1> QED BY <1>6, <1>7

-----------------------------------------------------------------------------
(* What a step does to the service, whoever asked for it.                  *)

(* The keys in the store that a lookup leaves behind.                      *)
Purges == \E k \in Keys \cup {NoKey} : records' \in LookedUp(k)

OnlyPurges == Purges /\ UNCHANGED <<jobs, live, task, expired, counter>>

Reaps ==
  /\ Purges
  /\ \E order \in Ascending(Idle) : expired' = RememberExpired(order)
  /\ jobs' = AbortJobs(Idle)
  /\ task' = AbortTasks(Idle)
  /\ live' = Kept
  /\ UNCHANGED counter

Creates ==
  \E f \in Families, k \in Keys \cup {NoKey}, b \in Bodies, failing \in ScanFaults :
    Create(f, k, b, failing)

Gets == \E f \in Families, i \in Ids : Get(f, i)
Deletes == \E f \in Families, i \in Ids : Delete(f, i)

(* Leaving off at "paused" or for good.                                    *)
Scans ==
  \E i \in Ids : TaskStart(i) \/ TaskStep(i) \/ TaskDone(i) \/ TaskCancelled(i)

LEMMA StepKinds ==
  ASSUME Next
  PROVE  Tick \/ OnlyPurges \/ Reaps \/ Creates \/ Gets \/ Deletes \/ ResetState \/ Scans
<1>1. CASE Reap
  BY <1>1 DEF Reap, Reaps, Purges, LookedUp
<1>2. ASSUME NEW f \in Families, Request(f)
      PROVE  OnlyPurges \/ Reaps \/ Creates \/ Gets \/ Deletes
  <2>1. ASSUME NEW k \in Keys \cup {NoKey}, NEW b \in Bodies, CreateSearch(f, k, b)
        PROVE  OnlyPurges \/ Reaps \/ Creates
    <3>1. CASE RefuseMismatch(f, k, b)
      BY <3>1 DEF RefuseMismatch, OnlyPurges, Purges
    <3>2. CASE Replay(f, k, b)
      BY <3>2 DEF Replay, OnlyPurges, Purges
    <3>3. CASE FailBeforeCommit(f, k, b)
      BY <3>3 DEF FailBeforeCommit, OnlyPurges, Purges
    <3>4. CASE RefuseSlots(f, k, b)
      BY <3>4 DEF RefuseSlots, Reaps, Purges
    <3>5. CASE \E failing \in ScanFaults : Create(f, k, b, failing)
      BY <3>5 DEF Creates
    <3> QED BY <2>1, <3>1, <3>2, <3>3, <3>4, <3>5 DEF CreateSearch
  <2>2. ASSUME NEW i \in Ids, GetMissing(f, i) \/ DeleteMissing(f, i)
        PROVE  Reaps
    BY <2>2 DEF GetMissing, DeleteMissing, Reap, Reaps, Purges, LookedUp
  <2> QED BY <1>2, <2>1, <2>2 DEF Request, Gets, Deletes
<1>3. ASSUME NEW i \in Ids, Scan(i)
      PROVE  Scans
  BY <1>3 DEF Scan, Scans
<1> QED BY <1>1, <1>2, <1>3 DEF Next

-----------------------------------------------------------------------------
(* The inductive invariant, and that every step keeps it.                  *)

ExpiredNotLive == Range(expired) \cap live = {}

IInv ==
  /\ TypeOK
  /\ CountsAgree
  /\ IdsNeverReused
  /\ ScansFollowJobs
  /\ ExpiredNotLive
  /\ SlotBound

LEMMA RememberedRange ==
  ASSUME TypeOK, NEW order \in Ascending(Idle)
  PROVE  Range(RememberExpired(order)) \subseteq Range(expired) \cup Idle
<1>1. order \in Seq(Idle) /\ expired \in Seq(Ids) /\ order \in Seq(Ids)
  BY IdleFinite DEF TypeOK
<1>2. ASSUME NEW s \in Seq(Ids), NEW n \in Nat
      PROVE  Range(LastOf(s, n)) \subseteq Range(s)
  BY <1>2 DEF LastOf, Range
<1>3. Range(expired \o order) \subseteq Range(expired) \cup Idle
  BY <1>1 DEF Range
<1>4. expired \o order \in Seq(Ids)
  BY <1>1
<1> QED BY <1>2, <1>3, <1>4, SearchConstants DEF RememberExpired

(* Deleting a live search finds nothing to forget.                         *)
LEMMA NothingToForget ==
  ASSUME TypeOK, ExpiredNotLive, NEW order \in Ascending(Idle), NEW i \in Kept
  PROVE  Forget(RememberExpired(order), i) = RememberExpired(order)
<1>1. i \notin Range(expired) \cup Idle
  BY DEF Kept, ExpiredNotLive
<1> QED BY <1>1, RememberedRange DEF Forget

LEMMA SettlesType ==
  ASSUME TypeOK, NEW i \in Ids, NEW job \in Job,
         NEW scanned \in 0..MaxTotal, NEW matched \in 0..MaxTotal,
         NEW state \in {"running"} \cup Finished,
         Settles(i, job, scanned, matched, state)
  PROVE  TypeOK'
<1>1. [job EXCEPT !.state = state, !.scanned = scanned, !.matched = matched] \in Job
  BY DEF Job, States
<1>2. jobs' \in [Ids -> Job]
  BY <1>1 DEF Settles, TypeOK
<1>3. task' \in [Ids -> TaskStates]
  BY DEF Settles, TypeOK, TaskStates
<1> QED BY <1>2, <1>3 DEF Settles, TypeOK

(* What a leg or an ending of a scan leaves behind.                        *)
SameSearch(job, old) ==
  /\ job.family = old.family /\ job.key = old.key /\ job.body = old.body
  /\ job.idle = old.idle /\ job.age = old.age

Outcome(i, job, scanned, matched, state) ==
  /\ Settles(i, job, scanned, matched, state)
  /\ SameSearch(job, jobs[i])
  /\ matched <= scanned /\ scanned <= job.total
  /\ jobs[i].scanned <= scanned /\ jobs[i].matched <= matched
  /\ \/ task[i] \in {"ready", "paused"}
     \/ /\ task[i] = "cancelling" /\ state = "cancelled"
        /\ scanned = jobs[i].scanned /\ matched = jobs[i].matched

LEMMA ScanSettles ==
  ASSUME TypeOK, CountsAgree, NEW i \in Ids, Scan(i)
  PROVE  \E job \in Job, scanned \in 0..MaxTotal, matched \in 0..MaxTotal,
            state \in {"running"} \cup Finished : Outcome(i, job, scanned, matched, state)
<1> USE SearchConstants
<1>1. jobs[i] \in Job
  BY DEF TypeOK
<1>2. /\ jobs[i].matched <= jobs[i].scanned /\ jobs[i].scanned <= jobs[i].total
      /\ jobs[i].matched \in 0..MaxTotal /\ jobs[i].scanned \in 0..MaxTotal
      /\ jobs[i].total \in 0..MaxTotal
  BY <1>1 DEF CountsAgree, Job
<1>3. ASSUME NEW job \in Job, SameSearch(job, jobs[i]),
             job.matched = jobs[i].matched, job.scanned = jobs[i].scanned,
             job.matched <= job.scanned, job.scanned <= job.total,
             task[i] \in {"ready", "paused"}, Leg(i, job)
      PROVE  \E scanned \in 0..MaxTotal, matched \in 0..MaxTotal,
                state \in {"running"} \cup Finished : Outcome(i, job, scanned, matched, state)
  <2>1. PICK scanned \in job.scanned..job.total : \E matched \in job.matched..job.total :
          \E state \in {"running", "failed"} :
            matched <= scanned /\ Settles(i, job, scanned, matched, state)
    BY <1>3, LegStays
  <2>2. PICK matched \in job.matched..job.total : \E state \in {"running", "failed"} :
          matched <= scanned /\ Settles(i, job, scanned, matched, state)
    BY <2>1
  <2>3. PICK state \in {"running", "failed"} :
          matched <= scanned /\ Settles(i, job, scanned, matched, state)
    BY <2>2
  <2>4. job.total \in 0..MaxTotal
    BY DEF Job
  <2>5. scanned \in 0..MaxTotal /\ matched \in 0..MaxTotal
    BY <1>2, <1>3, <2>4
  <2>6. Outcome(i, job, scanned, matched, state)
    BY <1>2, <1>3, <2>3, <2>4 DEF Outcome
  <2>7. state \in {"running"} \cup Finished
    BY DEF Finished
  <2> QED BY <2>5, <2>6, <2>7
<1>4. CASE TaskStart(i)
  <2>1. PICK total \in 0..MaxTotal :
          Leg(i, [jobs[i] EXCEPT !.state = "running", !.total = total])
    BY <1>4 DEF TaskStart
  <2> DEFINE job == [jobs[i] EXCEPT !.state = "running", !.total = total]
  <2>2. job \in Job /\ job.total = total /\ SameSearch(job, jobs[i])
    BY <1>1 DEF Job, States, SameSearch
  <2>3. job.scanned = jobs[i].scanned /\ job.matched = jobs[i].matched
    BY <1>1 DEF Job
  <2>4. jobs[i].scanned = 0 /\ jobs[i].matched = 0
    BY <1>2, <1>4 DEF TaskStart, CountsAgree
  <2>5. task[i] \in {"ready", "paused"} /\ Leg(i, job)
    BY <1>4, <2>1 DEF TaskStart
  <2> HIDE DEF job
  <2> QED BY <1>3, <2>2, <2>3, <2>4, <2>5
<1>5. CASE TaskStep(i)
  BY <1>1, <1>2, <1>3, <1>5 DEF TaskStep, SameSearch
<1>6. CASE TaskDone(i) \/ TaskCancelled(i)
  <2>1. PICK state \in {"done", "cancelled"} :
          /\ Settles(i, jobs[i], jobs[i].scanned, jobs[i].matched, state)
          /\ task[i] = "paused" \/ (task[i] = "cancelling" /\ state = "cancelled")
    BY <1>6 DEF TaskDone, TaskCancelled
  <2>2. Outcome(i, jobs[i], jobs[i].scanned, jobs[i].matched, state)
    BY <1>2, <2>1 DEF Outcome, SameSearch
  <2>3. state \in {"running"} \cup Finished
    BY DEF Finished
  <2> QED BY <1>1, <1>2, <2>2, <2>3
<1> QED BY <1>4, <1>5, <1>6 DEF Scan

LEMMA UnbornType == Unborn \in Job
<1>1. (CHOOSE f \in Families : TRUE) \in Families /\ (CHOOSE b \in Bodies : TRUE) \in Bodies
  BY SearchConstants
<1> QED BY <1>1, SearchConstants DEF Unborn, Job, States

LEMMA NewJobType ==
  ASSUME NEW f \in Families, NEW k \in Keys \cup {NoKey}, NEW b \in Bodies,
         NEW failing \in ScanFaults
  PROVE  /\ NewJob(f, k, b, failing) \in Job
         /\ NewJob(f, k, b, failing).family = f
         /\ NewJob(f, k, b, failing).state = "queued"
         /\ NewJob(f, k, b, failing).idle = 0
         /\ NewJob(f, k, b, failing).scanned = 0
         /\ NewJob(f, k, b, failing).matched = 0
         /\ NewJob(f, k, b, failing).total = 0
<1>1. Unborn.scanned = 0 /\ Unborn.matched = 0 /\ Unborn.total = 0 /\ Unborn.idle = 0
  BY DEF Unborn
<1> QED BY <1>1, UnbornType, SearchConstants DEF NewJob, Job, States

LEMMA TypeStep ==
  ASSUME IInv, Next
  PROVE  TypeOK'
<1> USE SearchConstants DEF IInv
<1>1. ASSUME OnlyPurges PROVE TypeOK'
  <2>1. DOMAIN records' \subseteq Slots /\ records' \in [DOMAIN records' -> Record]
    BY <1>1, LookedUpKeeps DEF OnlyPurges, Purges, TypeOK
  <2> QED BY <1>1, <2>1 DEF OnlyPurges, TypeOK
<1>2. ASSUME NEW S, AbortJobs(S) \in [Ids -> Job], NEW i \in Ids
      PROVE  [AbortJobs(S) EXCEPT ![i].idle = 0] \in [Ids -> Job]
  BY <1>2 DEF Job
<1>3. CASE Tick
  <2>1. ASSUME NEW i \in Ids
        PROVE  [jobs[i] EXCEPT !.idle = Older(@, IdleTTL),
                               !.age = IF jobs[i].key = NoKey THEN 0 ELSE Older(@, KeyTTL)] \in Job
    <3>1. jobs[i] \in Job
      BY DEF TypeOK
    <3>2. Older(jobs[i].idle, IdleTTL) \in 0..IdleTTL /\ Older(jobs[i].age, KeyTTL) \in 0..KeyTTL
      BY <3>1, OlderType DEF Job
    <3>3. 0 \in 0..KeyTTL
      OBVIOUS
    <3> QED BY <3>1, <3>2, <3>3 DEF Job
  <2>2. jobs' \in [Ids -> Job]
    BY <1>3, <2>1 DEF Tick, TypeOK
  <2>3. ASSUME NEW s \in DOMAIN records
        PROVE  [records[s] EXCEPT !.age = Older(@, KeyTTL)] \in Record
    <3>1. records[s] \in Record
      BY DEF TypeOK
    <3>2. Older(records[s].age, KeyTTL) \in 0..KeyTTL
      BY <3>1, OlderType DEF Record
    <3> QED BY <3>1, <3>2 DEF Record
  <2>4. DOMAIN records' = DOMAIN records /\ records' \in [DOMAIN records' -> Record]
    BY <1>3, <2>3 DEF Tick
  <2> QED BY <1>3, <2>2, <2>4 DEF Tick, TypeOK
<1>4. CASE OnlyPurges
  BY <1>1, <1>4
<1>5. ASSUME Reaps PROVE TypeOK'
  <2>1. DOMAIN records' \subseteq Slots /\ records' \in [DOMAIN records' -> Record]
    BY <1>5, LookedUpKeeps DEF Reaps, Purges, TypeOK
  <2>2. expired' \in Seq(Ids)
    BY <1>5, RememberExpiredType DEF Reaps, TypeOK
  <2>3. jobs' \in [Ids -> Job] /\ task' \in [Ids -> TaskStates]
    BY <1>5, AbortJobsType, AbortTasksType DEF Reaps, TypeOK
  <2> QED BY <1>5, <2>1, <2>2, <2>3 DEF Reaps, TypeOK, Kept
<1>6. ASSUME NEW f \in Families, NEW k \in Keys \cup {NoKey}, NEW b \in Bodies,
             NEW failing \in ScanFaults, Create(f, k, b, failing)
      PROVE  TypeOK'
  <2>1. PICK r \in LookedUp(k), order \in Ascending(Idle) :
          LET new == counter + 1 IN
          /\ new <= MaxSearches
          /\ counter' = new
          /\ expired' = RememberExpired(order)
          /\ jobs' = [AbortJobs(Idle) EXCEPT ![new] = NewJob(f, k, b, failing)]
          /\ task' = [AbortTasks(Idle) EXCEPT ![new] = "ready"]
          /\ live' = Kept \cup {new}
          /\ records' = IF k = NoKey THEN r
                        ELSE RememberKey(r, <<f, k>>, [body |-> b, id |-> new, age |-> 0])
    BY <1>6 DEF Create
  <2> DEFINE new == counter + 1
  <2>2. new \in Ids /\ counter' \in 0..MaxSearches
    BY <2>1 DEF Ids, TypeOK
  <2>3. NewJob(f, k, b, failing) \in Job
    BY NewJobType
  <2>4. jobs' \in [Ids -> Job] /\ task' \in [Ids -> TaskStates]
    BY <2>1, <2>3, AbortJobsType, AbortTasksType DEF TypeOK, TaskStates
  <2>5. expired' \in Seq(Ids)
    BY <2>1, RememberExpiredType DEF TypeOK
  <2>6. DOMAIN r \subseteq Slots /\ r \in [DOMAIN r -> Record]
    BY LookedUpKeeps DEF TypeOK
  <2>7. DOMAIN records' \subseteq Slots /\ records' \in [DOMAIN records' -> Record]
    <3>1. CASE k = NoKey
      BY <2>1, <2>6, <3>1
    <3>2. CASE k # NoKey
      <4>1. <<f, k>> \in Slots
        BY <3>2 DEF Slots
      <4>2. [body |-> b, id |-> new, age |-> 0] \in Record
        BY <2>2 DEF Record
      <4>3. records' = RememberKey(r, <<f, k>>, [body |-> b, id |-> new, age |-> 0])
        BY <2>1, <3>2
      <4> QED BY <2>6, <4>1, <4>2, <4>3 DEF RememberKey
    <3> QED BY <3>1, <3>2
  <2>8. live' \subseteq Ids
    BY <2>1, <2>2 DEF Kept, TypeOK
  <2> QED BY <2>2, <2>4, <2>5, <2>7, <2>8 DEF TypeOK
<1>7. ASSUME NEW f \in Families, NEW i \in Ids, Get(f, i)
      PROVE  TypeOK'
  <2>1. expired' \in Seq(Ids)
    BY <1>7, RememberExpiredType DEF Get, TypeOK
  <2>2. jobs' \in [Ids -> Job] /\ task' \in [Ids -> TaskStates]
    BY <1>2, <1>7, AbortJobsType, AbortTasksType DEF Get, TypeOK
  <2> QED BY <1>7, <2>1, <2>2 DEF Get, TypeOK, Kept
<1>8. ASSUME NEW f \in Families, NEW i \in Ids, Delete(f, i)
      PROVE  TypeOK'
  <2>1. expired' \in Seq(Ids)
    BY <1>8, RememberExpiredType, NothingToForget DEF Delete, TypeOK, Visible
  <2>2. jobs' \in [Ids -> Job] /\ task' \in [Ids -> TaskStates]
    BY <1>8, AbortJobsType, AbortTasksType DEF Delete, TypeOK
  <2> QED BY <1>8, <2>1, <2>2 DEF Delete, TypeOK, Kept
<1>9. CASE ResetState
  <2>1. jobs' \in [Ids -> Job] /\ task' \in [Ids -> TaskStates]
    BY <1>9, AbortJobsType, AbortTasksType DEF ResetState, TypeOK
  <2> QED BY <1>9, <2>1 DEF ResetState, TypeOK, NoRecords
<1>10. ASSUME NEW i \in Ids, Scan(i)
       PROVE  TypeOK'
  BY <1>10, ScanSettles, SettlesType DEF Outcome
<1> QED
  BY <1>3, <1>4, <1>5, <1>6, <1>7, <1>8, <1>9, <1>10, StepKinds
  DEF Creates, Gets, Deletes, Scans, Scan

-----------------------------------------------------------------------------
(* Every step that is not a leg of a scan takes a set S of searches out of *)
(* the dict, and either creates one or does not.                           *)

SameCounts(job, old) ==
  job.total = old.total /\ job.scanned = old.scanned /\ job.matched = old.matched

SameOwner(job, old) == job.family = old.family /\ job.key = old.key /\ job.body = old.body

Retired(i, S) ==
  /\ SameOwner(jobs'[i], jobs[i]) /\ SameCounts(jobs'[i], jobs[i])
  /\ jobs'[i].state = IF i \in S /\ jobs[i].state \notin Finished THEN "cancelled"
                      ELSE jobs[i].state
  /\ task'[i] = IF i \in S THEN CancelTask(task[i]) ELSE task[i]

Retires(S) ==
  /\ S \subseteq live
  /\ live' = live \ S
  /\ \A i \in Ids : Retired(i, S)
  /\ counter' = counter
  /\ Range(expired') \subseteq Range(expired) \cup S
  /\ DOMAIN records' \subseteq DOMAIN records
  /\ \A s \in DOMAIN records' : records'[s].id = records[s].id

Births(new, f, S) ==
  /\ S \subseteq live
  /\ new \in Ids /\ new = counter + 1 /\ counter' = new
  /\ live' = (live \ S) \cup {new}
  /\ \A i \in Ids \ {new} : Retired(i, S)
  /\ jobs'[new].family = f /\ jobs'[new].state = "queued" /\ task'[new] = "ready"
  /\ jobs'[new].total = 0 /\ jobs'[new].scanned = 0 /\ jobs'[new].matched = 0
  /\ Cardinality({i \in live \ S : UserOf[jobs[i].family] = UserOf[f]}) < SlotsPerUser
  /\ Range(expired') \subseteq Range(expired) \cup S
  /\ \A s \in DOMAIN records' :
       records'[s].id = new \/ (s \in DOMAIN records /\ records'[s].id = records[s].id)

LEMMA AbortRetires ==
  ASSUME TypeOK, NEW S
  PROVE  \A i \in Ids :
           /\ SameSearch(AbortJobs(S)[i], jobs[i]) /\ SameCounts(AbortJobs(S)[i], jobs[i])
           /\ AbortJobs(S)[i].state = IF i \in S /\ jobs[i].state \notin Finished
                                      THEN "cancelled" ELSE jobs[i].state
           /\ AbortTasks(S)[i] = IF i \in S THEN CancelTask(task[i]) ELSE task[i]
BY DEF AbortJobs, AbortTasks, Abort, TypeOK, Job, SameSearch, SameCounts

LEMMA QuietSteps ==
  ASSUME IInv, Tick \/ OnlyPurges \/ Reaps \/ Gets \/ Deletes \/ ResetState
  PROVE  \E S \in SUBSET live : Retires(S)
<1> USE DEF IInv
<1>1. CASE Tick
  <2>1. \A i \in Ids : Retired(i, {})
    BY <1>1 DEF Tick, TypeOK, Job, Retired, SameOwner, SameCounts
  <2>2. \A s \in DOMAIN records : records'[s].id = records[s].id
    BY <1>1 DEF Tick, TypeOK, Record
  <2>3. DOMAIN records' = DOMAIN records
    BY <1>1 DEF Tick
  <2>4. Retires({})
    BY <1>1, <2>1, <2>2, <2>3 DEF Tick, Retires
  <2> QED BY <2>4
<1>2. CASE OnlyPurges
  <2>1. DOMAIN records' \subseteq DOMAIN records
        /\ \A s \in DOMAIN records' : records'[s] = records[s]
    BY <1>2, LookedUpKeeps DEF OnlyPurges, Purges
  <2>2. \A i \in Ids : Retired(i, {})
    BY <1>2 DEF OnlyPurges, Retired, SameOwner, SameCounts
  <2>3. Retires({})
    BY <1>2, <2>1, <2>2 DEF OnlyPurges, Retires
  <2> QED BY <2>3
<1>3. CASE Reaps
  <2>1. DOMAIN records' \subseteq DOMAIN records
        /\ \A s \in DOMAIN records' : records'[s] = records[s]
    BY <1>3, LookedUpKeeps DEF Reaps, Purges
  <2>2. \A i \in Ids : Retired(i, Idle)
    BY <1>3, AbortRetires DEF Reaps, Retired, SameOwner, SameSearch
  <2>3. Range(expired') \subseteq Range(expired) \cup Idle
    BY <1>3, RememberedRange DEF Reaps
  <2>4. Idle \subseteq live
    BY DEF Idle
  <2>5. Retires(Idle)
    BY <1>3, <2>1, <2>2, <2>3, <2>4 DEF Reaps, Retires, Kept
  <2> QED BY <2>4, <2>5
<1>4. ASSUME NEW f \in Families, NEW j \in Ids, Get(f, j)
      PROVE  \E S \in SUBSET live : Retires(S)
  <2>1. \A i \in Ids : Retired(i, Idle)
    <3>1. AbortJobs(Idle) \in [Ids -> Job]
      BY AbortJobsType DEF TypeOK
    <3>2. \A i \in Ids : jobs'[i] = IF i = j THEN [AbortJobs(Idle)[i] EXCEPT !.idle = 0]
                                    ELSE AbortJobs(Idle)[i]
      BY <1>4, <3>1 DEF Get
    <3>3. \A i \in Ids : /\ SameOwner(jobs'[i], AbortJobs(Idle)[i])
                         /\ SameCounts(jobs'[i], AbortJobs(Idle)[i])
                         /\ jobs'[i].state = AbortJobs(Idle)[i].state
      BY <3>1, <3>2 DEF SameOwner, SameCounts, Job
    <3>4. \A i \in Ids : task'[i] = AbortTasks(Idle)[i]
      BY <1>4 DEF Get
    <3> QED BY <3>3, <3>4, AbortRetires DEF Retired, SameOwner, SameCounts, SameSearch
  <2>2. Range(expired') \subseteq Range(expired) \cup Idle
    BY <1>4, RememberedRange DEF Get
  <2>3. Idle \subseteq live
    BY DEF Idle
  <2>4. Retires(Idle)
    BY <1>4, <2>1, <2>2, <2>3 DEF Get, Retires, Kept
  <2> QED BY <2>3, <2>4
<1>5. ASSUME NEW f \in Families, NEW j \in Ids, Delete(f, j)
      PROVE  \E S \in SUBSET live : Retires(S)
  <2> DEFINE S == Idle \cup {j}
  <2>1. S \subseteq live
    BY <1>5 DEF Delete, Visible, Kept, Idle
  <2>2. \A i \in Ids : Retired(i, S)
    BY <1>5, AbortRetires DEF Delete, Retired, SameOwner, SameSearch
  <2>3. Range(expired') \subseteq Range(expired) \cup Idle
    BY <1>5, RememberedRange, NothingToForget DEF Delete, Visible
  <2>4. Retires(S)
    BY <1>5, <2>1, <2>2, <2>3 DEF Delete, Retires, Kept
  <2> QED BY <2>1, <2>4
<1>6. CASE ResetState
  <2>1. \A i \in Ids : Retired(i, live)
    BY <1>6, AbortRetires DEF ResetState, Retired, SameOwner, SameSearch
  <2>2. Range(expired') = {} /\ DOMAIN records' = {}
    BY <1>6 DEF ResetState, NoRecords, Range
  <2>3. Retires(live)
    BY <1>6, <2>1, <2>2 DEF ResetState, Retires
  <2> QED BY <2>3
<1> QED BY <1>1, <1>2, <1>3, <1>4, <1>5, <1>6 DEF Gets, Deletes

LEMMA CreateSteps ==
  ASSUME IInv, Creates
  PROVE  \E new \in Ids, f \in Families : \E S \in SUBSET live : Births(new, f, S)
<1> USE DEF IInv
<1>1. PICK f \in Families, k \in Keys \cup {NoKey}, b \in Bodies, failing \in ScanFaults :
        Create(f, k, b, failing)
  BY DEF Creates
<1> DEFINE new == counter + 1
<1>2. PICK r \in LookedUp(k), order \in Ascending(Idle) :
        /\ new <= MaxSearches
        /\ Cardinality(Held(UserOf[f])) < SlotsPerUser
        /\ counter' = new
        /\ expired' = RememberExpired(order)
        /\ jobs' = [AbortJobs(Idle) EXCEPT ![new] = NewJob(f, k, b, failing)]
        /\ task' = [AbortTasks(Idle) EXCEPT ![new] = "ready"]
        /\ live' = Kept \cup {new}
        /\ records' = IF k = NoKey THEN r
                      ELSE RememberKey(r, <<f, k>>, [body |-> b, id |-> new, age |-> 0])
  BY <1>1 DEF Create
<1>3. new \in Ids
  BY <1>2 DEF Ids, TypeOK
<1>4. DOMAIN r \subseteq DOMAIN records /\ \A s \in DOMAIN r : r[s] = records[s]
  BY LookedUpKeeps
<1>5. \A s \in DOMAIN records' :
        records'[s].id = new \/ (s \in DOMAIN records /\ records'[s].id = records[s].id)
  BY <1>2, <1>4 DEF RememberKey
<1>6. AbortJobs(Idle) \in [Ids -> Job] /\ AbortTasks(Idle) \in [Ids -> TaskStates]
  BY AbortJobsType, AbortTasksType DEF TypeOK
<1>7. \A i \in Ids \ {new} : Retired(i, Idle)
  BY <1>2, <1>6, AbortRetires DEF Retired, SameOwner, SameSearch
<1>8. jobs'[new] = NewJob(f, k, b, failing) /\ task'[new] = "ready"
  BY <1>2, <1>3, <1>6
<1>9. Range(expired') \subseteq Range(expired) \cup Idle
  BY <1>2, RememberedRange
<1>10. Held(UserOf[f]) = {i \in live \ Idle : UserOf[jobs[i].family] = UserOf[f]}
  BY DEF Held, Kept
<1>11. Idle \subseteq live
  BY DEF Idle
<1>12. Births(new, f, Idle)
  BY <1>2, <1>3, <1>5, <1>7, <1>8, <1>9, <1>10, <1>11, NewJobType DEF Births, Kept
<1> QED BY <1>3, <1>11, <1>12

-----------------------------------------------------------------------------
(* One lemma for each kind of step.                                        *)

LEMMA FiniteIds ==
  ASSUME NEW T \in SUBSET Ids
  PROVE  IsFiniteSet(T) /\ Cardinality(T) \in Nat
<1>1. IsFiniteSet(Ids)
  BY SearchConstants, FS_Interval DEF Ids
<1> QED BY <1>1, FS_Subset, FS_CardinalityType

LEMMA OneMore ==
  ASSUME NEW T, IsFiniteSet(T), NEW x
  PROVE  IsFiniteSet(T \cup {x}) /\ Cardinality(T \cup {x}) <= Cardinality(T) + 1
<1>1. Cardinality(T) \in Nat
  BY FS_CardinalityType
<1> QED BY <1>1, FS_AddElement

LEMMA RetiresKeeps ==
  ASSUME IInv, TypeOK', NEW S \in SUBSET live, Retires(S)
  PROVE  IInv'
<1> USE DEF IInv
<1>1. S \subseteq Ids
  BY DEF TypeOK
<1>2. CountsAgree'
  <2>1. ASSUME NEW i \in Ids
        PROVE  /\ jobs'[i].matched = jobs[i].matched /\ jobs'[i].scanned = jobs[i].scanned
               /\ jobs'[i].total = jobs[i].total
               /\ task'[i] = "ready" => task[i] = "ready"
    BY DEF Retires, Retired, SameCounts, CancelTask, TypeOK, TaskStates
  <2> QED BY <2>1 DEF CountsAgree
<1>3. IdsNeverReused'
  <2>1. ASSUME NEW i \in Ids
        PROVE  jobs'[i].state = "unborn" <=> jobs[i].state = "unborn"
    <3>1. i \in S => jobs[i].state # "unborn"
      BY DEF Retires, IdsNeverReused, TypeOK, Ids
    <3> QED BY <3>1 DEF Retires, Retired
  <2>2. \A i \in Range(expired') : i <= counter
    BY DEF Retires, IdsNeverReused
  <2>3. \A s \in DOMAIN records' : records'[s].id <= counter
    BY DEF Retires, IdsNeverReused
  <2> QED BY <2>1, <2>2, <2>3 DEF Retires, IdsNeverReused
<1>4. ScansFollowJobs'
  <2> SUFFICES ASSUME NEW i \in Ids
               PROVE  /\ IF i \in live'
                           THEN (jobs'[i].state \in {"queued", "running"})
                                <=> (task'[i] \in {"ready", "paused"})
                           ELSE task'[i] \in {"none", "cancelling"}
                      /\ task'[i] = "cancelling" => jobs'[i].state = "cancelled"
    BY DEF ScansFollowJobs
  <2>1. jobs[i].state \in States /\ task[i] \in TaskStates
    BY DEF TypeOK, Job
  <2>2. Retired(i, S)
    BY DEF Retires
  <2>3. CASE i \notin S
    BY <2>2, <2>3 DEF Retires, Retired, ScansFollowJobs
  <2>4. CASE i \in S
    <3>1. i \in live /\ i \notin live'
      BY <2>4 DEF Retires
    <3>2. jobs[i].state # "unborn"
      BY <3>1 DEF IdsNeverReused, TypeOK, Ids
    <3>3. /\ (jobs[i].state \in {"queued", "running"}) <=> (task[i] \in {"ready", "paused"})
          /\ task[i] = "cancelling" => jobs[i].state = "cancelled"
      BY <3>1 DEF ScansFollowJobs
    <3>4. task'[i] = CancelTask(task[i])
      BY <2>2, <2>4 DEF Retired
    <3>5. jobs'[i].state = IF jobs[i].state \notin Finished THEN "cancelled" ELSE jobs[i].state
      BY <2>2, <2>4 DEF Retired
    <3> QED BY <2>1, <3>1, <3>2, <3>3, <3>4, <3>5 DEF CancelTask, TaskStates, States, Finished
  <2> QED BY <2>3, <2>4
<1>5. ExpiredNotLive'
  BY DEF Retires, ExpiredNotLive
<1>6. SlotBound'
  <2> SUFFICES ASSUME NEW u \in Users
               PROVE  Cardinality({i \in live' : UserOf[jobs'[i].family] = u}) <= SlotsPerUser
    BY DEF SlotBound
  <2> DEFINE old == {i \in live : UserOf[jobs[i].family] = u}
             new == {i \in live' : UserOf[jobs'[i].family] = u}
  <2>1. new \subseteq old
    BY <1>1 DEF Retires, Retired, SameOwner, TypeOK
  <2>2. old \subseteq Ids
    BY DEF TypeOK
  <2>3. Cardinality(new) <= Cardinality(old) /\ Cardinality(new) \in Nat /\ Cardinality(old) \in Nat
    BY <2>1, <2>2, FiniteIds, FS_Subset
  <2>4. Cardinality(old) <= SlotsPerUser
    BY DEF SlotBound
  <2> QED BY <2>3, <2>4, SearchConstants
<1> QED BY <1>2, <1>3, <1>4, <1>5, <1>6

LEMMA BirthsKeeps ==
  ASSUME IInv, TypeOK', NEW new \in Ids, NEW f \in Families, NEW S \in SUBSET live,
         Births(new, f, S)
  PROVE  IInv'
<1> USE DEF IInv
<1>1. new = counter + 1 /\ counter' = new /\ counter \in Nat
  BY DEF Births, TypeOK
<1>2. new \notin live /\ new \notin Range(expired)
  BY <1>1 DEF IdsNeverReused
<1>3. \A i \in Ids : i # new => Retired(i, S)
  BY DEF Births
<1>4. CountsAgree'
  <2>1. ASSUME NEW i \in Ids, i # new
        PROVE  /\ jobs'[i].matched = jobs[i].matched /\ jobs'[i].scanned = jobs[i].scanned
               /\ jobs'[i].total = jobs[i].total
               /\ task'[i] = "ready" => task[i] = "ready"
    BY <1>3, <2>1 DEF Retired, SameCounts, CancelTask, TypeOK, TaskStates
  <2>2. jobs'[new].total = 0 /\ jobs'[new].scanned = 0 /\ jobs'[new].matched = 0
    BY DEF Births
  <2> QED BY <2>1, <2>2 DEF CountsAgree
<1>5. IdsNeverReused'
  <2>1. ASSUME NEW i \in Ids
        PROVE  jobs'[i].state = "unborn" <=> i > new
    <3>1. CASE i = new
      BY <1>1, <3>1 DEF Births, Ids
    <3>2. CASE i # new
      <4>1. jobs[i].state = "unborn" <=> i > counter
        BY DEF IdsNeverReused
      <4>2. i \in S => i <= counter
        BY DEF IdsNeverReused
      <4>3. jobs'[i].state = "unborn" <=> jobs[i].state = "unborn"
        BY <1>1, <1>3, <3>2, <4>1, <4>2 DEF Retired, Ids
      <4> QED BY <1>1, <3>2, <4>1, <4>3 DEF Ids
    <3> QED BY <3>1, <3>2
  <2>2. \A i \in live' : i <= counter'
    BY <1>1 DEF Births, IdsNeverReused, TypeOK, Ids
  <2>3. \A i \in Range(expired') : i <= counter'
    <3>1. \A i \in Range(expired) \cup S : i \in Ids /\ i <= counter
      BY DEF IdsNeverReused, TypeOK, Range
    <3> QED BY <1>1, <3>1 DEF Births, Ids
  <2>4. \A s \in DOMAIN records' : records'[s].id <= counter'
    <3>1. \A s \in DOMAIN records : records[s].id \in Nat /\ records[s].id <= counter
      BY DEF IdsNeverReused, TypeOK, Record, Ids
    <3> QED BY <1>1, <3>1 DEF Births
  <2> QED BY <1>1, <2>1, <2>2, <2>3, <2>4 DEF IdsNeverReused
<1>6. ScansFollowJobs'
  <2> SUFFICES ASSUME NEW i \in Ids
               PROVE  /\ IF i \in live'
                           THEN (jobs'[i].state \in {"queued", "running"})
                                <=> (task'[i] \in {"ready", "paused"})
                           ELSE task'[i] \in {"none", "cancelling"}
                      /\ task'[i] = "cancelling" => jobs'[i].state = "cancelled"
    BY DEF ScansFollowJobs
  <2>1. jobs[i].state \in States /\ task[i] \in TaskStates
    BY DEF TypeOK, Job
  <2>2. CASE i = new
    BY <2>2 DEF Births
  <2>3. CASE i # new /\ i \notin S
    BY <1>3, <2>3 DEF Births, Retired, ScansFollowJobs
  <2>4. CASE i # new /\ i \in S
    <3>1. i \in live /\ i \notin live'
      BY <2>4 DEF Births
    <3>2. jobs[i].state # "unborn"
      BY <3>1 DEF IdsNeverReused, TypeOK, Ids
    <3>3. /\ (jobs[i].state \in {"queued", "running"}) <=> (task[i] \in {"ready", "paused"})
          /\ task[i] = "cancelling" => jobs[i].state = "cancelled"
      BY <3>1 DEF ScansFollowJobs
    <3>4. task'[i] = CancelTask(task[i])
      BY <1>3, <2>4 DEF Retired
    <3>5. jobs'[i].state = IF jobs[i].state \notin Finished THEN "cancelled" ELSE jobs[i].state
      BY <1>3, <2>4 DEF Retired
    <3> QED BY <2>1, <3>1, <3>2, <3>3, <3>4, <3>5 DEF CancelTask, TaskStates, States, Finished
  <2> QED BY <2>2, <2>3, <2>4
<1>7. ExpiredNotLive'
  BY <1>2 DEF Births, ExpiredNotLive
<1>8. SlotBound'
  <2> SUFFICES ASSUME NEW u \in Users
               PROVE  Cardinality({i \in live' : UserOf[jobs'[i].family] = u}) <= SlotsPerUser
    BY DEF SlotBound
  <2> DEFINE old == {i \in live : UserOf[jobs[i].family] = u}
             kept == {i \in live \ S : UserOf[jobs[i].family] = u}
             mine == {i \in live' : UserOf[jobs'[i].family] = u}
  <2>1. old \subseteq Ids /\ kept \subseteq old /\ mine \subseteq kept \cup {new}
    BY <1>3 DEF Births, Retired, SameOwner, TypeOK
  <2>2. IsFiniteSet(old) /\ IsFiniteSet(kept)
    BY <2>1, FiniteIds
  <2>3. Cardinality(kept) \in Nat /\ Cardinality(old) \in Nat /\ SlotsPerUser \in Nat
    BY <2>2, FS_CardinalityType, SearchConstants
  <2>4. CASE u = UserOf[f]
    <3>1. Cardinality(kept) < SlotsPerUser
      BY <2>4 DEF Births
    <3>2. IsFiniteSet(kept \cup {new}) /\ Cardinality(kept \cup {new}) <= Cardinality(kept) + 1
      BY <2>2, OneMore
    <3>3. Cardinality(mine) <= Cardinality(kept \cup {new}) /\ Cardinality(mine) \in Nat
          /\ Cardinality(kept \cup {new}) \in Nat
      BY <2>1, <3>2, FS_Subset, FS_CardinalityType
    <3> QED BY <2>3, <3>1, <3>2, <3>3
  <2>5. CASE u # UserOf[f]
    <3>1. mine \subseteq old
      BY <2>1, <2>5 DEF Births
    <3>2. Cardinality(mine) <= Cardinality(old) /\ Cardinality(mine) \in Nat
      BY <2>2, <3>1, FS_Subset, FS_CardinalityType
    <3>3. Cardinality(old) <= SlotsPerUser
      BY DEF SlotBound
    <3> QED BY <2>3, <3>2, <3>3
  <2> QED BY <2>4, <2>5
<1> QED BY <1>4, <1>5, <1>6, <1>7, <1>8

LEMMA ScansKeep ==
  ASSUME IInv, TypeOK', NEW i \in Ids, Scan(i)
  PROVE  IInv'
<1> USE DEF IInv
<1>1. PICK job \in Job, scanned \in 0..MaxTotal : \E matched \in 0..MaxTotal :
        \E state \in {"running"} \cup Finished : Outcome(i, job, scanned, matched, state)
  BY ScanSettles
<1>2. PICK matched \in 0..MaxTotal : \E state \in {"running"} \cup Finished :
        Outcome(i, job, scanned, matched, state)
  BY <1>1
<1>3. PICK state \in {"running"} \cup Finished : Outcome(i, job, scanned, matched, state)
  BY <1>2
<1>4. /\ jobs'[i] = [job EXCEPT !.state = state, !.scanned = scanned, !.matched = matched]
      /\ task'[i] = IF state \in Finished THEN "none" ELSE "paused"
      /\ \A j \in Ids : j # i => jobs'[j] = jobs[j] /\ task'[j] = task[j]
      /\ UNCHANGED <<live, expired, counter, records>>
  BY <1>3 DEF Outcome, Settles, TypeOK
<1>5. /\ jobs'[i].family = jobs[i].family
      /\ jobs'[i].state = state /\ jobs'[i].scanned = scanned /\ jobs'[i].matched = matched
      /\ jobs'[i].total = job.total
  BY <1>3, <1>4 DEF Outcome, SameSearch, Job
<1>6. CountsAgree'
  <2>1. matched <= scanned /\ scanned <= job.total /\ task'[i] # "ready"
    BY <1>3, <1>4 DEF Outcome
  <2> QED BY <1>4, <1>5, <2>1 DEF CountsAgree
<1>7. jobs[i].state # "unborn"
  <2>1. CASE task[i] \in {"ready", "paused"}
    BY <2>1 DEF ScansFollowJobs
  <2>2. CASE task[i] = "cancelling"
    BY <2>2 DEF ScansFollowJobs
  <2> QED BY <1>3, <2>1, <2>2 DEF Outcome
<1>8. IdsNeverReused'
  <2>1. state # "unborn"
    BY DEF Finished
  <2> QED BY <1>4, <1>5, <1>7, <2>1 DEF IdsNeverReused
<1>9. ScansFollowJobs'
  <2>1. CASE task[i] \in {"ready", "paused"}
    <3>1. i \in live
      BY <2>1 DEF ScansFollowJobs
    <3> QED BY <1>4, <1>5, <3>1 DEF ScansFollowJobs, Finished
  <2>2. CASE task[i] = "cancelling" /\ state = "cancelled"
    BY <1>4, <1>5, <2>2 DEF ScansFollowJobs, Finished
  <2> QED BY <1>3, <2>1, <2>2 DEF Outcome
<1>10. ExpiredNotLive'
  BY <1>4 DEF ExpiredNotLive
<1>11. SlotBound'
  <2>1. ASSUME NEW u
        PROVE  {j \in live' : UserOf[jobs'[j].family] = u} = {j \in live : UserOf[jobs[j].family] = u}
    BY <1>4, <1>5 DEF TypeOK
  <2> QED BY <2>1 DEF SlotBound
<1> QED BY <1>6, <1>8, <1>9, <1>10, <1>11

LEMMA InitHolds == Init => IInv
<1> SUFFICES ASSUME Init PROVE IInv
  OBVIOUS
<1>1. TypeOK
  BY UnbornType, SearchConstants DEF Init, TypeOK, TaskStates, NoRecords
<1>2. /\ Unborn.matched = 0 /\ Unborn.scanned = 0 /\ Unborn.total = 0 /\ Unborn.state = "unborn"
  BY DEF Unborn
<1>3. CountsAgree
  BY <1>2 DEF Init, CountsAgree
<1>4. IdsNeverReused
  BY <1>2 DEF Init, IdsNeverReused, Ids, Range, NoRecords
<1>5. ScansFollowJobs
  BY <1>2 DEF Init, ScansFollowJobs
<1>6. ExpiredNotLive
  BY DEF Init, ExpiredNotLive
<1>7. SlotBound
  <2> SUFFICES ASSUME NEW u \in Users
               PROVE  Cardinality({i \in live : UserOf[jobs[i].family] = u}) <= SlotsPerUser
    BY DEF SlotBound
  <2>1. {i \in live : UserOf[jobs[i].family] = u} = {}
    BY DEF Init
  <2>2. Cardinality({}) = 0 /\ 0 <= SlotsPerUser
    BY FS_EmptySet, SearchConstants
  <2> QED BY <2>1, <2>2
<1> QED BY <1>1, <1>3, <1>4, <1>5, <1>6, <1>7 DEF IInv

LEMMA NextKeeps ==
  ASSUME IInv, [Next]_vars
  PROVE  IInv'
<1>1. CASE Next
  <2>1. TypeOK'
    BY <1>1, TypeStep
  <2>2. CASE Tick \/ OnlyPurges \/ Reaps \/ Gets \/ Deletes \/ ResetState
    BY <2>1, <2>2, QuietSteps, RetiresKeeps
  <2>3. CASE Creates
    BY <2>1, <2>3, CreateSteps, BirthsKeeps
  <2>4. CASE Scans
    BY <2>1, <2>4, ScansKeep DEF Scans, Scan
  <2> QED BY <1>1, <2>2, <2>3, <2>4, StepKinds
<1>2. CASE UNCHANGED vars
  <2>1. TypeOK'
    BY <1>2 DEF IInv, TypeOK, vars
  <2>2. Retires({})
    BY <1>2 DEF vars, Retires, Retired, SameOwner, SameCounts
  <2> QED BY <2>1, <2>2, RetiresKeeps
<1> QED BY <1>1, <1>2

LEMMA Invariance == Spec => []IInv
BY InitHolds, NextKeeps, PTL DEF Spec

-----------------------------------------------------------------------------
(* What is expired, and what a key answers.                                *)

(* A record that can be replayed is no younger than its search is idle, so *)
(* peek finds what it names while KeyTTL <= IdleTTL.                       *)
ReplayIsYoung ==
  \A s \in DOMAIN records :
    (records[s].age < KeyTTL /\ records[s].id \in live) =>
      jobs[records[s].id].idle <= records[s].age

Keyed(i) == jobs[i].key # NoKey /\ jobs[i].age < KeyTTL

SlotOf(i) == <<jobs[i].family, jobs[i].key>>

(* What is remembered under the key of a live search was stored with it or *)
(* later: its record is not purged by age while the search is younger.     *)
KeyIsNoOlder ==
  \A i \in live : (Keyed(i) /\ SlotOf(i) \in DOMAIN records) => records[SlotOf(i)].age <= jobs[i].age

AInv ==
  /\ IsInjective(expired)
  /\ Len(expired) <= MaxRememberedExpired
  /\ IsFiniteSet(DOMAIN records)
  /\ ReplayIsYoung
  /\ KeyIsNoOlder
  /\ ForgottenInOrder

LEMMA RememberedOnce ==
  ASSUME TypeOK, ExpiredNotLive, IsInjective(expired), NEW order \in Ascending(Idle)
  PROVE  IsInjective(RememberExpired(order)) /\ Len(RememberExpired(order)) <= MaxRememberedExpired
<1> DEFINE both == expired \o order
<1>1. expired \in Seq(Ids) /\ order \in Seq(Idle) /\ order \in Seq(Ids) /\ both \in Seq(Ids)
  BY IdleFinite DEF TypeOK
<1>2. \A m, n \in DOMAIN order : m < n => order[m] < order[n]
  BY DEF Ascending
<1>3. \A m, n \in 1..Len(order) : order[m] = order[n] => m = n
  <2> SUFFICES ASSUME NEW m \in 1..Len(order), NEW n \in 1..Len(order), m # n
               PROVE  order[m] # order[n]
    OBVIOUS
  <2>1. order[m] \in Ids /\ order[n] \in Ids /\ m \in DOMAIN order /\ n \in DOMAIN order
    BY <1>1
  <2>2. m < n \/ n < m
    OBVIOUS
  <2> QED BY <1>2, <2>1, <2>2 DEF Ids
<1>4. ASSUME NEW m \in 1..Len(expired), NEW n \in 1..Len(order)
      PROVE  expired[m] # order[n]
  <2>1. expired[m] \in Range(expired) /\ order[n] \in live
    BY <1>1 DEF Range, Idle
  <2> QED BY <2>1 DEF ExpiredNotLive
<1>5. \A m, n \in 1..Len(expired) : expired[m] = expired[n] => m = n
  BY <1>1 DEF IsInjective
<1>6. \A m, n \in 1..Len(both) : both[m] = both[n] => m = n
  <2>1. /\ Len(both) = Len(expired) + Len(order)
        /\ Len(expired) \in Nat /\ Len(order) \in Nat
        /\ \A m \in 1..Len(both) : both[m] = IF m <= Len(expired) THEN expired[m]
                                             ELSE order[m - Len(expired)]
    BY <1>1
  <2> HIDE DEF both
  <2> SUFFICES ASSUME NEW m \in 1..Len(both), NEW n \in 1..Len(both), both[m] = both[n]
               PROVE  m = n
    OBVIOUS
  <2>2. CASE m <= Len(expired) /\ n <= Len(expired)
    BY <1>5, <2>1, <2>2
  <2>3. CASE m > Len(expired) /\ n > Len(expired)
    <3>1. m - Len(expired) \in 1..Len(order) /\ n - Len(expired) \in 1..Len(order)
      BY <2>1, <2>3
    <3>2. order[m - Len(expired)] = order[n - Len(expired)]
      BY <2>1, <2>3
    <3>3. m - Len(expired) = n - Len(expired)
      BY <1>3, <3>1, <3>2
    <3> QED BY <2>1, <3>3
  <2>4. CASE m <= Len(expired) /\ n > Len(expired)
    <3>1. m \in 1..Len(expired) /\ n - Len(expired) \in 1..Len(order)
      BY <2>1, <2>4
    <3> QED BY <1>4, <2>1, <2>4, <3>1
  <2>5. CASE m > Len(expired) /\ n <= Len(expired)
    <3>1. n \in 1..Len(expired) /\ m - Len(expired) \in 1..Len(order)
      BY <2>1, <2>5
    <3> QED BY <1>4, <2>1, <2>5, <3>1
  <2> QED BY <2>1, <2>2, <2>3, <2>4, <2>5
<1>7. MaxRememberedExpired \in Nat
  BY SearchConstants
<1> HIDE DEF both
<1> DEFINE last == LastOf(both, MaxRememberedExpired)
<1>8. CASE Len(both) <= MaxRememberedExpired
  <2>1. last = both
    BY <1>8 DEF LastOf
  <2> QED BY <1>1, <1>6, <1>8, <2>1 DEF RememberExpired, both, IsInjective
<1>9. CASE Len(both) > MaxRememberedExpired
  <2> DEFINE gone == Len(both) - MaxRememberedExpired
  <2>1. last = SubSeq(both, gone + 1, Len(both)) /\ gone \in Nat /\ Len(both) \in Nat
    BY <1>1, <1>7, <1>9 DEF LastOf
  <2>2. /\ Len(last) = MaxRememberedExpired /\ DOMAIN last = 1..MaxRememberedExpired
        /\ \A m \in 1..MaxRememberedExpired : last[m] = both[gone + m]
    BY <1>1, <1>7, <1>9, <2>1
  <2> HIDE DEF last
  <2>3. \A m \in 1..MaxRememberedExpired : gone + m \in 1..Len(both)
    BY <1>7, <2>1
  <2>4. ASSUME NEW m \in 1..MaxRememberedExpired, NEW n \in 1..MaxRememberedExpired,
               last[m] = last[n]
        PROVE  m = n
    <3>1. gone + m = gone + n
      BY <1>6, <2>2, <2>3, <2>4
    <3> QED BY <2>1, <3>1
  <2> QED BY <1>7, <2>2, <2>4 DEF RememberExpired, both, last, IsInjective
<1> QED BY <1>1, <1>7, <1>8, <1>9

(* A purge drops what is too old to be the key of a young search, and else *)
(* only what is no younger than everything it keeps of a full store.       *)
LEMMA PurgesInOrder ==
  ASSUME TypeOK, IsFiniteSet(DOMAIN records), KeyIsNoOlder, ForgottenInOrder,
         NEW k, NEW r \in LookedUp(k), NEW i \in live, Keyed(i), SlotOf(i) \notin DOMAIN r
  PROVE  Cardinality(DOMAIN r) >= MaxEntries /\ \A s \in DOMAIN r : r[s].age <= jobs[i].age
<1> USE SearchConstants
<1> DEFINE F == {s \in DOMAIN records : records[s].age < KeyTTL}
           fresh == Restrict(records, F)
<1>1. /\ jobs[i].age \in Nat /\ jobs[i].age < KeyTTL /\ jobs[i].key # NoKey
      /\ KeyTTL \in Nat /\ MaxEntries \in Nat
  BY DEF Keyed, TypeOK, Job
<1>2. \A s \in DOMAIN records : records[s].age \in Nat
  BY DEF TypeOK, Record
<1>3. SlotOf(i) \in DOMAIN records => SlotOf(i) \in F /\ records[SlotOf(i)].age <= jobs[i].age
  BY <1>1, <1>2 DEF KeyIsNoOlder
<1>4. SlotOf(i) \notin DOMAIN records =>
        /\ Cardinality(DOMAIN records) >= MaxEntries
        /\ \A s \in DOMAIN records : records[s].age <= jobs[i].age
  BY <1>1 DEF ForgottenInOrder, SlotOf
<1>5. CASE r = records
  BY <1>4, <1>5
<1>6. CASE r = fresh
  <2>1. DOMAIN r = F /\ \A s \in F : r[s] = records[s]
    BY <1>6 DEF Restrict
  <2>2. SlotOf(i) \notin DOMAIN records
    BY <1>3, <2>1
  <2>3. F = DOMAIN records
    <3>1. ASSUME NEW s \in DOMAIN records PROVE records[s].age < KeyTTL
      BY <1>1, <1>2, <1>4, <2>2
    <3> QED BY <3>1
  <2> HIDE DEF F
  <2> QED BY <1>4, <2>1, <2>2, <2>3
<1>7. CASE \E K \in Youngest(fresh, MaxEntries) : r = Restrict(fresh, K)
  <2>1. PICK K \in Youngest(fresh, MaxEntries) : r = Restrict(fresh, K)
    BY <1>7
  <2>2. DOMAIN fresh = F /\ \A s \in F : fresh[s] = records[s]
    BY DEF Restrict
  <2> HIDE DEF fresh
  <2>3. /\ K \subseteq F /\ Cardinality(K) = MaxEntries
        /\ \A s \in K, t \in F \ K : records[s].age <= records[t].age
    BY <2>2 DEF Youngest
  <2>4. DOMAIN r = K /\ \A s \in K : r[s] = records[s]
    BY <2>1, <2>2, <2>3 DEF Restrict
  <2>5. ASSUME NEW s \in K PROVE records[s].age <= jobs[i].age
    <3>1. records[s].age \in Nat /\ s \in DOMAIN records
      BY <1>2, <2>3
    <3>2. CASE SlotOf(i) \in DOMAIN records
      <4>1. /\ records[s].age <= records[SlotOf(i)].age
            /\ records[SlotOf(i)].age <= jobs[i].age /\ records[SlotOf(i)].age \in Nat
        BY <1>2, <1>3, <2>3, <2>4, <3>2
      <4> QED BY <1>1, <3>1, <4>1
    <3> QED BY <1>4, <3>1, <3>2
  <2> QED BY <1>1, <2>3, <2>4, <2>5
<1>8. r = records \/ r = fresh \/ \E K \in Youngest(fresh, MaxEntries) : r = Restrict(fresh, K)
  BY DEF LookedUp, Purged
<1> QED BY <1>5, <1>6, <1>7, <1>8

(* Steps after which the searches that are left are those that were there, *)
(* as old as they were and read or not, and the store is as a lookup       *)
(* leaves it.                                                              *)
KeepsAnswers ==
  /\ live' \subseteq live
  /\ \A i \in live : /\ SameOwner(jobs'[i], jobs[i]) /\ jobs'[i].age = jobs[i].age
                     /\ jobs'[i].idle \in {0, jobs[i].idle}
  /\ Purges

LEMMA AnswersKept ==
  ASSUME IInv, AInv, KeepsAnswers
  PROVE  IsFiniteSet(DOMAIN records)' /\ ReplayIsYoung' /\ KeyIsNoOlder' /\ ForgottenInOrder'
<1> USE SearchConstants
<1>1. PICK k \in Keys \cup {NoKey} : records' \in LookedUp(k)
  BY DEF KeepsAnswers, Purges
<1>2. DOMAIN records' \subseteq DOMAIN records /\ \A s \in DOMAIN records' : records'[s] = records[s]
  BY <1>1, LookedUpKeeps DEF IInv
<1>3. \A s \in DOMAIN records : records[s].age \in Nat
  BY DEF IInv, TypeOK, Record
<1>4. IsFiniteSet(DOMAIN records')
  BY <1>2, FS_Subset DEF AInv
<1>5. ReplayIsYoung'
  <2> SUFFICES ASSUME NEW s \in DOMAIN records', records'[s].age < KeyTTL, records'[s].id \in live'
               PROVE  jobs'[records'[s].id].idle <= records'[s].age
    BY DEF ReplayIsYoung
  <2>1. /\ records'[s] = records[s] /\ s \in DOMAIN records
        /\ records[s].age \in Nat /\ records[s].id \in live
    BY <1>2, <1>3 DEF KeepsAnswers
  <2>2. jobs[records[s].id].idle <= records[s].age
    BY <2>1 DEF AInv, ReplayIsYoung
  <2>3. jobs'[records[s].id].idle \in {0, jobs[records[s].id].idle}
    BY <2>1 DEF KeepsAnswers
  <2> QED BY <2>1, <2>2, <2>3
<1>6. \A i \in live' : /\ i \in live /\ SlotOf(i)' = SlotOf(i) /\ (Keyed(i)' <=> Keyed(i))
                       /\ jobs'[i].age = jobs[i].age
  BY DEF KeepsAnswers, SameOwner, SlotOf, Keyed
<1>7. KeyIsNoOlder'
  <2> SUFFICES ASSUME NEW i \in live', Keyed(i)', SlotOf(i)' \in DOMAIN records'
               PROVE  records'[SlotOf(i)'].age <= jobs'[i].age
    BY DEF KeyIsNoOlder
  <2>1. i \in live /\ Keyed(i) /\ SlotOf(i) \in DOMAIN records
        /\ records'[SlotOf(i)'] = records[SlotOf(i)]
    BY <1>2, <1>6
  <2> QED BY <1>6, <2>1 DEF AInv, KeyIsNoOlder
<1>8. ForgottenInOrder'
  <2> SUFFICES ASSUME NEW i \in live', Keyed(i)', SlotOf(i)' \notin DOMAIN records'
               PROVE  /\ Cardinality(DOMAIN records') >= MaxEntries
                      /\ \A s \in DOMAIN records' : records'[s].age <= jobs'[i].age
    BY DEF ForgottenInOrder, Keyed, SlotOf
  <2>1. i \in live /\ Keyed(i) /\ SlotOf(i) \notin DOMAIN records' /\ jobs'[i].age = jobs[i].age
    BY <1>6
  <2> QED BY <1>1, <2>1, PurgesInOrder DEF IInv, AInv
<1> QED BY <1>4, <1>5, <1>7, <1>8

LEMMA ReadsKeepAnswers ==
  ASSUME IInv, OnlyPurges \/ Reaps \/ Gets \/ Deletes \/ Scans
  PROVE  KeepsAnswers
<1> USE DEF IInv
<1>1. CASE OnlyPurges
  BY <1>1 DEF OnlyPurges, KeepsAnswers, SameOwner
<1>2. ASSUME NEW S, jobs' = AbortJobs(S)
      PROVE  \A i \in Ids : /\ SameOwner(jobs'[i], jobs[i]) /\ jobs'[i].age = jobs[i].age
                            /\ jobs'[i].idle = jobs[i].idle
  BY <1>2, AbortRetires DEF SameOwner, SameSearch
<1>3. CASE Reaps
  BY <1>2, <1>3 DEF Reaps, Kept, KeepsAnswers, TypeOK
<1>4. UNCHANGED records => Purges
  BY DEF Purges, LookedUp
<1>5. ASSUME NEW f \in Families, NEW j \in Ids, Get(f, j)
      PROVE  KeepsAnswers
  <2>1. AbortJobs(Idle) \in [Ids -> Job]
    BY AbortJobsType DEF TypeOK
  <2>2. \A i \in Ids : jobs'[i] = IF i = j THEN [AbortJobs(Idle)[i] EXCEPT !.idle = 0]
                                  ELSE AbortJobs(Idle)[i]
    BY <1>5, <2>1 DEF Get
  <2>3. \A i \in Ids : /\ SameOwner(jobs'[i], AbortJobs(Idle)[i])
                       /\ jobs'[i].age = AbortJobs(Idle)[i].age
                       /\ jobs'[i].idle \in {0, AbortJobs(Idle)[i].idle}
    BY <2>1, <2>2 DEF SameOwner, Job
  <2>4. \A i \in Ids : SameSearch(AbortJobs(Idle)[i], jobs[i])
    BY AbortRetires
  <2>5. \A i \in Ids : /\ SameOwner(jobs'[i], jobs[i]) /\ jobs'[i].age = jobs[i].age
                       /\ jobs'[i].idle \in {0, jobs[i].idle}
    BY <2>3, <2>4 DEF SameOwner, SameSearch
  <2> QED BY <1>4, <1>5, <2>5 DEF Get, Kept, KeepsAnswers, TypeOK
<1>6. ASSUME NEW f \in Families, NEW j \in Ids, Delete(f, j)
      PROVE  KeepsAnswers
  <2>1. jobs' = AbortJobs(Idle \cup {j}) /\ live' \subseteq live /\ UNCHANGED records
    BY <1>6 DEF Delete, Kept
  <2> QED BY <1>2, <1>4, <2>1 DEF KeepsAnswers, TypeOK
<1>7. ASSUME NEW j \in Ids, Scan(j)
      PROVE  KeepsAnswers
  <2>1. PICK job \in Job, scanned \in 0..MaxTotal : \E matched \in 0..MaxTotal :
          \E state \in {"running"} \cup Finished : Outcome(j, job, scanned, matched, state)
    BY <1>7, ScanSettles
  <2>2. PICK matched \in 0..MaxTotal, state \in {"running"} \cup Finished :
          Outcome(j, job, scanned, matched, state)
    BY <2>1
  <2>3. /\ jobs'[j] = [job EXCEPT !.state = state, !.scanned = scanned, !.matched = matched]
        /\ \A i \in Ids : i # j => jobs'[i] = jobs[i]
        /\ UNCHANGED <<live, records>>
    BY <2>2 DEF Outcome, Settles, TypeOK
  <2>4. SameSearch(job, jobs[j])
    BY <2>2 DEF Outcome
  <2>5. SameOwner(jobs'[j], jobs[j]) /\ jobs'[j].age = jobs[j].age /\ jobs'[j].idle = jobs[j].idle
    BY <2>3, <2>4 DEF SameOwner, SameSearch, Job
  <2> QED BY <1>4, <2>3, <2>5 DEF KeepsAnswers, SameOwner, TypeOK
<1> QED BY <1>1, <1>3, <1>5, <1>6, <1>7 DEF Gets, Deletes, Scans, Scan

(* Every step but a reset keeps what is expired, or reaps.                 *)
LEMMA ExpiredOnce ==
  ASSUME IInv, AInv, Next
  PROVE  IsInjective(expired') /\ Len(expired') <= MaxRememberedExpired
<1> USE DEF IInv, AInv
<1>1. CASE UNCHANGED expired
  BY <1>1
<1>2. CASE \E order \in Ascending(Idle) : expired' = RememberExpired(order)
  BY <1>2, RememberedOnce
<1>3. CASE ResetState
  BY <1>3, SearchConstants DEF ResetState, IsInjective
<1>4. ASSUME NEW f \in Families, NEW i \in Ids, Delete(f, i)
      PROVE  \E order \in Ascending(Idle) : expired' = RememberExpired(order)
  BY <1>4, NothingToForget DEF Delete, Visible
<1>5. ASSUME NEW i \in Ids, Scan(i) PROVE UNCHANGED expired
  BY <1>5, ScanSettles DEF Outcome, Settles
<1>6. Tick \/ OnlyPurges => UNCHANGED expired
  BY DEF Tick, OnlyPurges
<1>7. Reaps \/ Creates \/ Gets => \E order \in Ascending(Idle) : expired' = RememberExpired(order)
  BY DEF Reaps, Creates, Create, Gets, Get
<1> QED BY <1>1, <1>2, <1>3, <1>4, <1>5, <1>6, <1>7, StepKinds DEF Deletes, Scans, Scan

LEMMA TicksKeepAnswers ==
  ASSUME IInv, AInv, Tick
  PROVE  IsFiniteSet(DOMAIN records)' /\ ReplayIsYoung' /\ KeyIsNoOlder' /\ ForgottenInOrder'
<1> USE SearchConstants
<1>1. /\ \A i \in Ids : jobs'[i] = IF i \in live
                                     THEN [jobs[i] EXCEPT !.idle = Older(@, IdleTTL),
                                                          !.age = IF jobs[i].key = NoKey THEN 0
                                                                  ELSE Older(@, KeyTTL)]
                                     ELSE jobs[i]
      /\ DOMAIN records' = DOMAIN records
      /\ \A s \in DOMAIN records : records'[s] = [records[s] EXCEPT !.age = Older(@, KeyTTL)]
      /\ live' = live
  BY DEF Tick
<1>2. \A s \in DOMAIN records : /\ records[s].age \in 0..KeyTTL /\ records'[s].id = records[s].id
                                /\ records'[s].age = Older(records[s].age, KeyTTL)
  <2> SUFFICES ASSUME NEW s \in DOMAIN records
               PROVE  /\ records[s].age \in 0..KeyTTL /\ records'[s].id = records[s].id
                      /\ records'[s].age = Older(records[s].age, KeyTTL)
    OBVIOUS
  <2>1. records[s] \in Record
    BY DEF IInv, TypeOK
  <2>2. records'[s] = [records[s] EXCEPT !.age = Older(records[s].age, KeyTTL)]
    BY <1>1
  <2> QED BY <2>1, <2>2 DEF Record
<1>3. \A i \in live : /\ jobs[i].age \in 0..KeyTTL /\ jobs[i].idle \in 0..IdleTTL
                      /\ jobs'[i].family = jobs[i].family /\ jobs'[i].key = jobs[i].key
                      /\ jobs'[i].idle = Older(jobs[i].idle, IdleTTL)
                      /\ jobs[i].key # NoKey => jobs'[i].age = Older(jobs[i].age, KeyTTL)
  BY <1>1 DEF IInv, TypeOK, Job
<1>4. ASSUME NEW m \in 0..KeyTTL, NEW n \in 0..KeyTTL, Older(n, KeyTTL) < KeyTTL
      PROVE  /\ n < KeyTTL /\ Older(n, KeyTTL) = n + 1
             /\ m <= n => Older(m, KeyTTL) <= Older(n, KeyTTL)
  <2>1. KeyTTL \in Nat /\ m \in Nat /\ n \in Nat /\ n <= KeyTTL
    OBVIOUS
  <2>2. n < KeyTTL
    BY <1>4, <2>1 DEF Older
  <2> QED BY <2>1, <2>2 DEF Older
<1>5. ReplayIsYoung'
  <2> SUFFICES ASSUME NEW s \in DOMAIN records, records'[s].age < KeyTTL, records'[s].id \in live
               PROVE  jobs'[records'[s].id].idle <= records'[s].age
    BY <1>1 DEF ReplayIsYoung
  <2> DEFINE i == records[s].id
  <2>1. /\ i \in live /\ records'[s].id = i
        /\ records[s].age \in 0..KeyTTL /\ records[s].age < KeyTTL
        /\ records'[s].age = records[s].age + 1
    BY <1>2, <1>4
  <2>2. jobs[i].idle <= records[s].age /\ jobs[i].idle \in 0..IdleTTL
    BY <1>3, <2>1 DEF AInv, ReplayIsYoung
  <2>3. Older(jobs[i].idle, IdleTTL) <= records[s].age + 1
    BY <2>1, <2>2 DEF Older
  <2> QED BY <1>3, <2>1, <2>3
<1>6. ASSUME NEW i \in live, Keyed(i)'
      PROVE  /\ Keyed(i) /\ SlotOf(i)' = SlotOf(i)
             /\ \A m \in 0..KeyTTL : m <= jobs[i].age => Older(m, KeyTTL) <= jobs'[i].age
  <2>1. jobs[i].key # NoKey /\ Older(jobs[i].age, KeyTTL) < KeyTTL /\ jobs'[i].age = Older(jobs[i].age, KeyTTL)
    BY <1>3, <1>6 DEF Keyed
  <2> QED BY <1>3, <1>4, <2>1 DEF Keyed, SlotOf
<1>7. KeyIsNoOlder'
  <2> SUFFICES ASSUME NEW i \in live, Keyed(i)', SlotOf(i) \in DOMAIN records
               PROVE  records'[SlotOf(i)].age <= jobs'[i].age
    BY <1>1, <1>6 DEF KeyIsNoOlder
  <2>1. records[SlotOf(i)].age <= jobs[i].age
    BY <1>6 DEF AInv, KeyIsNoOlder
  <2> QED BY <1>2, <1>6, <2>1
<1>8. ForgottenInOrder'
  <2> SUFFICES ASSUME NEW i \in live, Keyed(i)', SlotOf(i)' \notin DOMAIN records
               PROVE  /\ Cardinality(DOMAIN records) >= MaxEntries
                      /\ \A s \in DOMAIN records : records'[s].age <= jobs'[i].age
    BY <1>1 DEF ForgottenInOrder, Keyed, SlotOf
  <2>1. /\ Cardinality(DOMAIN records) >= MaxEntries
        /\ \A s \in DOMAIN records : records[s].age <= jobs[i].age
    BY <1>6 DEF AInv, ForgottenInOrder, Keyed, SlotOf
  <2> QED BY <1>2, <1>6, <2>1
<1> QED BY <1>1, <1>5, <1>7, <1>8 DEF AInv

(* A new key is stored with its search, over whatever its slot held.       *)
LEMMA CreateKeepsAnswers ==
  ASSUME IInv, AInv, Creates
  PROVE  IsFiniteSet(DOMAIN records)' /\ ReplayIsYoung' /\ KeyIsNoOlder' /\ ForgottenInOrder'
<1> USE SearchConstants
<1>1. PICK f \in Families, k \in Keys \cup {NoKey}, b \in Bodies, failing \in ScanFaults :
        Create(f, k, b, failing)
  BY DEF Creates
<1> DEFINE new == counter + 1
           stored == [body |-> b, id |-> new, age |-> 0]
<1>2. PICK r \in LookedUp(k) :
        /\ new <= MaxSearches
        /\ jobs' = [AbortJobs(Idle) EXCEPT ![new] = NewJob(f, k, b, failing)]
        /\ live' = Kept \cup {new}
        /\ records' = IF k = NoKey THEN r ELSE RememberKey(r, <<f, k>>, stored)
  BY <1>1 DEF Create
<1>3. new \in Ids /\ new \notin live /\ \A s \in DOMAIN records : records[s].id # new
  BY <1>2 DEF IInv, TypeOK, Ids, IdsNeverReused, Record
<1>4. /\ DOMAIN r \subseteq DOMAIN records /\ \A s \in DOMAIN r : r[s] = records[s]
      /\ \A s \in DOMAIN records : records[s].age \in Nat
  BY LookedUpKeeps DEF IInv, TypeOK, Record
<1>5. /\ jobs'[new] = NewJob(f, k, b, failing)
      /\ \A i \in Ids \ {new} : jobs'[i] = AbortJobs(Idle)[i]
  BY <1>2, <1>3, AbortJobsType DEF IInv, TypeOK
<1>6. /\ NewJob(f, k, b, failing).idle = 0 /\ NewJob(f, k, b, failing).age \in Nat
      /\ NewJob(f, k, b, failing).key = k /\ NewJob(f, k, b, failing).family = f
  <2>1. NewJob(f, k, b, failing).key = k
    BY UnbornType DEF NewJob, Job
  <2>2. /\ NewJob(f, k, b, failing) \in Job
        /\ NewJob(f, k, b, failing).idle = 0 /\ NewJob(f, k, b, failing).family = f
    BY NewJobType
  <2> QED BY <2>1, <2>2 DEF Job
<1>7. ASSUME NEW i \in live', i # new
      PROVE  /\ i \in live /\ SameSearch(jobs'[i], jobs[i])
             /\ SlotOf(i)' = SlotOf(i) /\ (Keyed(i)' <=> Keyed(i)) /\ jobs[i].age \in Nat
  <2>1. i \in live /\ i \in Ids
    BY <1>2, <1>7 DEF Kept, IInv, TypeOK
  <2>2. SameSearch(jobs'[i], jobs[i])
    BY <1>5, <1>7, <2>1, AbortRetires DEF IInv
  <2> QED BY <2>1, <2>2 DEF SameSearch, SlotOf, Keyed, IInv, TypeOK, Job
<1>8. \A s \in DOMAIN records' :
        \/ s \in DOMAIN r /\ records'[s] = records[s]
        \/ k # NoKey /\ s = <<f, k>> /\ records'[s] = stored
  BY <1>2, <1>4 DEF RememberKey
<1>9. DOMAIN r \subseteq DOMAIN records' /\ (k # NoKey => <<f, k>> \in DOMAIN records')
      /\ IsFiniteSet(DOMAIN r) /\ IsFiniteSet(DOMAIN records')
  <2>1. IsFiniteSet(DOMAIN r)
    BY <1>4, FS_Subset DEF AInv
  <2>2. IsFiniteSet(DOMAIN r \cup {<<f, k>>})
    BY <2>1, FS_AddElement
  <2> QED BY <1>2, <2>1, <2>2 DEF RememberKey
<1>10. ReplayIsYoung'
  <2> SUFFICES ASSUME NEW s \in DOMAIN records', records'[s].age < KeyTTL, records'[s].id \in live'
               PROVE  jobs'[records'[s].id].idle <= records'[s].age
    BY DEF ReplayIsYoung
  <2>1. CASE s \in DOMAIN r /\ records'[s] = records[s]
    <3>1. s \in DOMAIN records /\ records[s].id \in live /\ SameSearch(jobs'[records[s].id], jobs[records[s].id])
      BY <1>3, <1>4, <1>7, <2>1
    <3> QED BY <2>1, <3>1 DEF AInv, ReplayIsYoung, SameSearch
  <2>2. CASE records'[s] = stored
    BY <1>5, <1>6, <2>2
  <2> QED BY <1>8, <2>1, <2>2
<1>11. KeyIsNoOlder'
  <2> SUFFICES ASSUME NEW i \in live', Keyed(i)', SlotOf(i)' \in DOMAIN records'
               PROVE  records'[SlotOf(i)'].age <= jobs'[i].age
    BY DEF KeyIsNoOlder
  <2>1. jobs'[i].age \in Nat
    BY <1>5, <1>6, <1>7 DEF SameSearch
  <2>2. CASE records'[SlotOf(i)'] = stored
    BY <2>1, <2>2
  <2>3. CASE i # new /\ SlotOf(i)' \in DOMAIN r /\ records'[SlotOf(i)'] = records[SlotOf(i)']
    <3>1. records[SlotOf(i)].age <= jobs[i].age
      BY <1>4, <1>7, <2>3 DEF AInv, KeyIsNoOlder
    <3> QED BY <1>7, <2>3, <3>1 DEF SameSearch
  <2>4. CASE i = new
    <3>1. SlotOf(i)' = <<f, k>> /\ k # NoKey
      BY <1>5, <1>6, <2>4 DEF SlotOf, Keyed
    <3>2. records'[<<f, k>>] = stored
      BY <1>2, <3>1 DEF RememberKey
    <3> QED BY <2>2, <3>1, <3>2
  <2> QED BY <1>8, <2>2, <2>3, <2>4
<1>12. ForgottenInOrder'
  <2> SUFFICES ASSUME NEW i \in live', Keyed(i)', SlotOf(i)' \notin DOMAIN records'
               PROVE  /\ Cardinality(DOMAIN records') >= MaxEntries
                      /\ \A s \in DOMAIN records' : records'[s].age <= jobs'[i].age
    BY DEF ForgottenInOrder, Keyed, SlotOf
  <2>1. i # new
    BY <1>5, <1>6, <1>9 DEF SlotOf, Keyed
  <2>2. i \in live /\ Keyed(i) /\ SlotOf(i) \notin DOMAIN r /\ jobs'[i].age = jobs[i].age /\ jobs[i].age \in Nat
    BY <1>7, <1>9, <2>1 DEF SameSearch
  <2>3. Cardinality(DOMAIN r) >= MaxEntries /\ \A s \in DOMAIN r : r[s].age <= jobs[i].age
    BY <2>2, PurgesInOrder DEF IInv, AInv
  <2>4. /\ Cardinality(DOMAIN r) <= Cardinality(DOMAIN records')
        /\ Cardinality(DOMAIN r) \in Nat /\ Cardinality(DOMAIN records') \in Nat
    BY <1>9, FS_Subset, FS_CardinalityType
  <2>5. \A s \in DOMAIN records' : records'[s].age <= jobs[i].age
    BY <1>4, <1>8, <2>2, <2>3
  <2> QED BY <2>2, <2>3, <2>4, <2>5
<1> QED BY <1>9, <1>10, <1>11, <1>12

LEMMA AnswersInit == Init => AInv
<1> SUFFICES ASSUME Init PROVE AInv
  OBVIOUS
<1>1. expired = << >> /\ DOMAIN records = {} /\ live = {}
  BY DEF Init, NoRecords
<1>2. IsInjective(expired) /\ Len(expired) <= MaxRememberedExpired
  BY <1>1, SearchConstants DEF IsInjective
<1>3. IsFiniteSet(DOMAIN records)
  BY <1>1, FS_EmptySet
<1> QED BY <1>1, <1>2, <1>3 DEF AInv, ReplayIsYoung, KeyIsNoOlder, ForgottenInOrder

LEMMA AnswersStep ==
  ASSUME IInv, AInv, [Next]_vars
  PROVE  AInv'
<1>1. CASE UNCHANGED vars
  BY <1>1 DEF vars, AInv, ReplayIsYoung, KeyIsNoOlder, ForgottenInOrder, Keyed, SlotOf
<1>2. CASE Next
  <2>1. IsInjective(expired') /\ Len(expired') <= MaxRememberedExpired
    BY <1>2, ExpiredOnce
  <2>2. CASE OnlyPurges \/ Reaps \/ Gets \/ Deletes \/ Scans
    BY <2>1, <2>2, ReadsKeepAnswers, AnswersKept DEF AInv
  <2>3. CASE Tick
    BY <2>1, <2>3, TicksKeepAnswers DEF AInv
  <2>4. CASE Creates
    BY <2>1, <2>4, CreateKeepsAnswers DEF AInv
  <2>5. CASE ResetState
    <3>1. live' = {} /\ DOMAIN records' = {}
      BY <2>5 DEF ResetState, NoRecords
    <3>2. IsFiniteSet(DOMAIN records')
      BY <3>1, FS_EmptySet
    <3> QED BY <2>1, <3>1, <3>2 DEF AInv, ReplayIsYoung, KeyIsNoOlder, ForgottenInOrder
  <2> QED BY <1>2, <2>2, <2>3, <2>4, <2>5, StepKinds
<1> QED BY <1>1, <1>2

(* A store with room for every slot drops no key that is not too old.      *)
RoomForAll == IsFiniteSet(Slots) /\ Cardinality(Slots) <= MaxEntries

LEMMA NothingDropped ==
  ASSUME RoomForAll, TypeOK, NEW k, NEW r \in LookedUp(k),
         NEW s \in DOMAIN records, records[s].age < KeyTTL
  PROVE  s \in DOMAIN r
<1> DEFINE F == {t \in DOMAIN records : records[t].age < KeyTTL}
           fresh == Restrict(records, F)
<1>1. DOMAIN fresh = F /\ s \in F /\ F \subseteq Slots
  BY DEF Restrict, TypeOK
<1>2. Cardinality(F) <= Cardinality(Slots) /\ Cardinality(F) \in Nat /\ Cardinality(Slots) \in Nat
  BY <1>1, FS_Subset, FS_CardinalityType DEF RoomForAll
<1>3. Cardinality(DOMAIN fresh) <= MaxEntries
  BY <1>1, <1>2, SearchConstants DEF RoomForAll
<1>4. r = records \/ r = fresh
  BY <1>3 DEF LookedUp, Purged
<1> QED BY <1>1, <1>4

(* A search that is created takes no slot a live search is found under.    *)
LEMMA KeysKeepFinding ==
  ASSUME RoomForAll, IInv, AInv, KeyFindsItsSearch, [Next]_vars
  PROVE  KeyFindsItsSearch'
<1> USE SearchConstants
<1>1. ASSUME NEW k, NEW r \in LookedUp(k), NEW i \in live, Keyed(i)
      PROVE  /\ SlotOf(i) \in DOMAIN r /\ SlotOf(i) \in DOMAIN records
             /\ r[SlotOf(i)] = records[SlotOf(i)]
             /\ r[SlotOf(i)].id = i /\ r[SlotOf(i)].body = jobs[i].body
  <2>1. /\ SlotOf(i) \in DOMAIN records
        /\ records[SlotOf(i)].id = i /\ records[SlotOf(i)].body = jobs[i].body
    BY <1>1 DEF KeyFindsItsSearch, SlotOf, Keyed
  <2>2. records[SlotOf(i)].age < KeyTTL
    <3>1. records[SlotOf(i)].age <= jobs[i].age /\ jobs[i].age < KeyTTL
      BY <1>1, <2>1 DEF AInv, KeyIsNoOlder, Keyed
    <3>2. records[SlotOf(i)] \in Record /\ jobs[i] \in Job
      BY <1>1, <2>1 DEF IInv, TypeOK
    <3>3. records[SlotOf(i)].age \in Nat /\ jobs[i].age \in Nat
      BY <3>2 DEF Record, Job
    <3> QED BY <3>1, <3>3
  <2>3. SlotOf(i) \in DOMAIN r
    BY <1>1, <2>1, <2>2, NothingDropped DEF IInv
  <2> QED BY <2>1, <2>3, LookedUpKeeps DEF IInv
<1>2. ASSUME \A i \in live' : Keyed(i)' => /\ SlotOf(i)' \in DOMAIN records'
                                           /\ records'[SlotOf(i)'].id = i
                                           /\ records'[SlotOf(i)'].body = jobs'[i].body
      PROVE  KeyFindsItsSearch'
  BY <1>2 DEF KeyFindsItsSearch, Keyed, SlotOf
<1>3. CASE KeepsAnswers
  <2>1. PICK k \in Keys \cup {NoKey} : records' \in LookedUp(k)
    BY <1>3 DEF KeepsAnswers, Purges
  <2> SUFFICES ASSUME NEW i \in live', Keyed(i)'
               PROVE  /\ SlotOf(i)' \in DOMAIN records' /\ records'[SlotOf(i)'].id = i
                      /\ records'[SlotOf(i)'].body = jobs'[i].body
    BY <1>2
  <2>2. i \in live /\ SlotOf(i)' = SlotOf(i) /\ Keyed(i) /\ jobs'[i].body = jobs[i].body
    BY <1>3 DEF KeepsAnswers, SameOwner, SlotOf, Keyed
  <2> QED BY <1>1, <2>1, <2>2
<1>4. CASE Tick
  <2>1. /\ live' = live /\ DOMAIN records' = DOMAIN records
        /\ \A i \in live : /\ jobs'[i].family = jobs[i].family /\ jobs'[i].key = jobs[i].key
                           /\ jobs'[i].body = jobs[i].body
                           /\ jobs[i].key # NoKey => jobs'[i].age = Older(jobs[i].age, KeyTTL)
        /\ \A s \in DOMAIN records : records'[s].id = records[s].id /\ records'[s].body = records[s].body
    BY <1>4 DEF Tick, IInv, TypeOK, Job, Record
  <2> SUFFICES ASSUME NEW i \in live, Keyed(i)'
               PROVE  /\ SlotOf(i)' \in DOMAIN records' /\ records'[SlotOf(i)'].id = i
                      /\ records'[SlotOf(i)'].body = jobs'[i].body
    BY <1>2, <2>1
  <2>2. jobs[i].key # NoKey /\ Older(jobs[i].age, KeyTTL) < KeyTTL /\ SlotOf(i)' = SlotOf(i)
    BY <2>1 DEF Keyed, SlotOf
  <2>3. Keyed(i)
    <3>1. jobs[i].age \in 0..KeyTTL
      BY DEF IInv, TypeOK, Job
    <3> QED BY <2>2, <3>1 DEF Keyed, Older
  <2>4. SlotOf(i) \in DOMAIN records /\ records[SlotOf(i)].id = i /\ records[SlotOf(i)].body = jobs[i].body
    BY <2>3 DEF KeyFindsItsSearch, Keyed, SlotOf
  <2> QED BY <2>1, <2>2, <2>4
<1>5. CASE Creates
  <2>1. PICK f \in Families, k \in Keys \cup {NoKey}, b \in Bodies, failing \in ScanFaults :
          Create(f, k, b, failing)
    BY <1>5 DEF Creates
  <2> DEFINE new == counter + 1
             stored == [body |-> b, id |-> new, age |-> 0]
  <2>2. PICK r \in LookedUp(k) :
          /\ new <= MaxSearches
          /\ GoesOn(r, f, k, b)
          /\ jobs' = [AbortJobs(Idle) EXCEPT ![new] = NewJob(f, k, b, failing)]
          /\ live' = Kept \cup {new}
          /\ records' = IF k = NoKey THEN r ELSE RememberKey(r, <<f, k>>, stored)
    BY <2>1 DEF Create
  <2>3. new \in Ids
    BY <2>2 DEF IInv, TypeOK, Ids
  <2>4. /\ jobs'[new] = NewJob(f, k, b, failing)
        /\ \A i \in Ids \ {new} : jobs'[i] = AbortJobs(Idle)[i]
    BY <2>2, <2>3, AbortJobsType DEF IInv, TypeOK
  <2>5. /\ NewJob(f, k, b, failing).key = k /\ NewJob(f, k, b, failing).family = f
        /\ NewJob(f, k, b, failing).body = b
    BY UnbornType DEF NewJob, Job
  <2>6. k # NoKey => /\ DOMAIN records' = DOMAIN r \cup {<<f, k>>}
                     /\ records'[<<f, k>>] = stored
                     /\ \A s \in DOMAIN r : s # <<f, k>> => records'[s] = r[s]
    BY <2>2 DEF RememberKey
  <2> SUFFICES ASSUME NEW i \in live', Keyed(i)'
               PROVE  /\ SlotOf(i)' \in DOMAIN records' /\ records'[SlotOf(i)'].id = i
                      /\ records'[SlotOf(i)'].body = jobs'[i].body
    BY <1>2
  <2>7. CASE i = new
    <3>1. SlotOf(i)' = <<f, k>> /\ k # NoKey /\ jobs'[i].body = b
      BY <2>4, <2>5, <2>7 DEF SlotOf, Keyed
    <3> QED BY <2>6, <2>7, <3>1
  <2>8. CASE i # new
    <3>1. i \in live /\ i \in Ids
      BY <2>2, <2>8 DEF Kept, IInv, TypeOK
    <3>2. SameSearch(jobs'[i], jobs[i])
      BY <2>4, <2>8, <3>1, AbortRetires DEF IInv
    <3>3. SlotOf(i)' = SlotOf(i) /\ Keyed(i) /\ jobs'[i].body = jobs[i].body
      BY <3>2 DEF SameSearch, SlotOf, Keyed
    <3>4. SlotOf(i) \in DOMAIN r /\ r[SlotOf(i)].id = i /\ r[SlotOf(i)].body = jobs[i].body
      BY <1>1, <3>1, <3>3
    <3>5. k # NoKey => SlotOf(i) # <<f, k>>
      BY <2>2, <3>1, <3>4 DEF GoesOn, Replayable, Known
    <3> QED BY <2>2, <2>6, <3>3, <3>4, <3>5
  <2> QED BY <2>7, <2>8
<1>6. CASE ResetState
  BY <1>2, <1>6 DEF ResetState
<1>7. CASE UNCHANGED vars
  BY <1>7 DEF vars, KeyFindsItsSearch
<1> QED BY <1>3, <1>4, <1>5, <1>6, <1>7, ReadsKeepAnswers, StepKinds

-----------------------------------------------------------------------------
(* The theorems.                                                           *)

(* The state of the search service is well typed, however it is used.      *)
THEOREM TypeCorrect == Spec => []TypeOK
<1>1. IInv => TypeOK
  BY DEF IInv
<1> QED BY <1>1, Invariance, PTL

(* No user ever holds more than SLOTS_PER_USER searches (jobs.py:286).     *)
THEOREM SlotsAreBounded == Spec => []SlotBound
<1>1. IInv => SlotBound
  BY DEF IInv
<1> QED BY <1>1, Invariance, PTL

(* A live search that has not ended has a task, and a search that left the *)
(* dict is not being scanned (jobs.py:250).                                *)
THEOREM ScansFollow == Spec => []ScansFollowJobs
<1>1. IInv => ScansFollowJobs
  BY DEF IInv
<1> QED BY <1>1, Invariance, PTL

(* Ids are given once, resets included (jobs.py:232).                      *)
THEOREM IdsAreUnique == Spec => []IdsNeverReused
<1>1. IInv => IdsNeverReused
  BY DEF IInv
<1> QED BY <1>1, Invariance, PTL

(* The counts of a search agree at every await (jobs.py:413).              *)
THEOREM CountsAlwaysAgree == Spec => []CountsAgree
<1>1. IInv => CountsAgree
  BY DEF IInv
<1> QED BY <1>1, Invariance, PTL

(* A search that has ended keeps its state and its rows for good: a late   *)
(* task, an abort or a reset never changes what was answered as complete.  *)
THEOREM FinishedStaysFinal == Spec => FinishedIsFinal
<1> DEFINE Final == \A i \in Ids : jobs[i].state \in Finished =>
                      /\ jobs'[i].state = jobs[i].state
                      /\ jobs'[i].scanned = jobs[i].scanned
                      /\ jobs'[i].matched = jobs[i].matched
<1>1. ASSUME IInv, Next PROVE Final
  <2> USE <1>1 DEF IInv
  <2> SUFFICES ASSUME NEW i \in Ids, jobs[i].state \in Finished
               PROVE  /\ jobs'[i].state = jobs[i].state
                      /\ jobs'[i].scanned = jobs[i].scanned
                      /\ jobs'[i].matched = jobs[i].matched
    OBVIOUS
  <2>1. ASSUME NEW S, Retired(i, S)
        PROVE  /\ jobs'[i].state = jobs[i].state
               /\ jobs'[i].scanned = jobs[i].scanned
               /\ jobs'[i].matched = jobs[i].matched
    BY <2>1 DEF Retired, SameCounts
  <2>2. CASE Tick \/ OnlyPurges \/ Reaps \/ Gets \/ Deletes \/ ResetState
    BY <2>1, <2>2, QuietSteps DEF Retires
  <2>3. CASE Creates
    <3>1. PICK new \in Ids, f \in Families : \E S \in SUBSET live : Births(new, f, S)
      BY <2>3, CreateSteps
    <3>2. PICK S \in SUBSET live : Births(new, f, S)
      BY <3>1
    <3>3. jobs[new].state = "unborn"
      BY <3>2 DEF Births, IdsNeverReused, TypeOK, Ids
    <3>4. i # new
      BY <3>3 DEF Finished
    <3> QED BY <2>1, <3>2, <3>4 DEF Births
  <2>4. ASSUME NEW j \in Ids, Scan(j)
        PROVE  /\ jobs'[i].state = jobs[i].state
               /\ jobs'[i].scanned = jobs[i].scanned
               /\ jobs'[i].matched = jobs[i].matched
    <3>1. PICK job \in Job, scanned \in 0..MaxTotal : \E matched \in 0..MaxTotal :
            \E state \in {"running"} \cup Finished : Outcome(j, job, scanned, matched, state)
      BY <2>4, ScanSettles
    <3>2. PICK matched \in 0..MaxTotal, state \in {"running"} \cup Finished :
            Outcome(j, job, scanned, matched, state)
      BY <3>1
    <3>3. CASE i # j
      BY <3>2, <3>3 DEF Outcome, Settles, TypeOK
    <3>4. CASE i = j
      <4>1. task[i] \notin {"ready", "paused"}
        BY DEF ScansFollowJobs, Finished
      <4>2. /\ task[i] = "cancelling" /\ state = "cancelled"
            /\ scanned = jobs[i].scanned /\ matched = jobs[i].matched
        BY <3>2, <3>4, <4>1 DEF Outcome
      <4>3. jobs[i].state = "cancelled"
        BY <4>2 DEF ScansFollowJobs
      <4>4. jobs'[i] = [job EXCEPT !.state = state, !.scanned = scanned, !.matched = matched]
        BY <3>2, <3>4 DEF Outcome, Settles, TypeOK
      <4> QED BY <4>2, <4>3, <4>4 DEF Job
    <3> QED BY <3>3, <3>4
  <2> QED BY <1>1, <2>2, <2>3, <2>4, StepKinds DEF Scans, Scan
<1>2. ASSUME IInv, [Next]_vars PROVE [Final]_vars
  BY <1>1, <1>2
<1> QED BY <1>2, Invariance, PTL DEF Spec, FinishedIsFinal

\* A search that is not created yet has scanned nothing.
UnbornIsEmpty == \A i \in Ids : jobs[i].state = "unborn" => jobs[i].total = 0

LEMMA PercentIs ==
  ASSUME NEW job \in Job, job.scanned <= job.total
  PROVE  /\ Percent(job) \in 0..100
         /\ job.state \in Finished => Percent(job) = 100
         /\ job.state \notin Finished /\ job.scanned = 0 => Percent(job) = 0
         /\ job.total = 0 /\ job.state \notin Finished => Percent(job) = 0
<1>1. job.scanned \in Nat /\ job.total \in Nat
  BY SearchConstants DEF Job
<1>2. ASSUME NEW a \in Nat, NEW b \in Nat, a <= b, b # 0
      PROVE  (a * 100) \div b \in 0..100 /\ (a = 0 => (a * 100) \div b = 0)
  <2>1. (a * 100) \div b \in Int /\ b * ((a * 100) \div b) <= a * 100 /\ a * 100 < b * ((a * 100) \div b) + b
    BY <1>2
  <2>2. a * 100 <= b * 100 /\ 0 <= a * 100
    BY <1>2
  <2> DEFINE q == (a * 100) \div b
  <2>3. q \in Int /\ b * q <= b * 100 /\ 0 < b * q + b
    BY <2>1, <2>2
  <2> HIDE DEF q
  <2>4. q <= 100
    BY <1>2, <2>3
  <2>5. 0 <= q
    BY <1>2, <2>3
  <2>6. a = 0 => q = 0
    <3> SUFFICES ASSUME a = 0 PROVE q = 0
      OBVIOUS
    <3>1. a * 100 = 0
      OBVIOUS
    <3>2. b * q <= 0
      BY <2>1, <3>1 DEF q
    <3> QED BY <1>2, <2>3, <2>5, <3>2
  <2> QED BY <2>3, <2>4, <2>5, <2>6 DEF q
<1>3. CASE job.state \in Finished
  BY <1>3 DEF Percent
<1>4. CASE job.state \notin Finished /\ job.total = 0
  BY <1>4 DEF Percent
<1>5. CASE job.state \notin Finished /\ job.total # 0
  <2>1. Percent(job) = (job.scanned * 100) \div job.total
    BY <1>5 DEF Percent
  <2>2. /\ (job.scanned * 100) \div job.total \in 0..100
        /\ job.scanned = 0 => (job.scanned * 100) \div job.total = 0
    BY <1>1, <1>2, <1>5
  <2> QED BY <1>5, <2>1, <2>2
<1> QED BY <1>3, <1>4, <1>5

LEMMA QuotientGrows ==
  ASSUME NEW a \in Nat, NEW b \in Nat, NEW t \in Nat \ {0}, a <= b
  PROVE  (a * 100) \div t <= (b * 100) \div t
<1> DEFINE p == (a * 100) \div t
           q == (b * 100) \div t
<1>1. p \in Int /\ t * p <= a * 100
  OBVIOUS
<1>2. q \in Int /\ b * 100 < t * q + t
  OBVIOUS
<1> HIDE DEF p, q
<1>3. t * p < t * q + t
  BY <1>1, <1>2
<1>4. t * q + t = t * (q + 1)
  BY <1>2
<1>5. p < q + 1
  BY <1>1, <1>2, <1>3, <1>4
<1>6. p <= q
  BY <1>1, <1>2, <1>5
<1> QED BY <1>6 DEF p, q

LEMMA PercentGrows ==
  ASSUME NEW old \in Job, NEW new \in Job,
         old.scanned <= old.total, new.scanned <= new.total,
         old.state \in Finished => new.state \in Finished,
         \/ new.state \in Finished
         \/ old.scanned = 0 \/ old.total = 0
         \/ new.total = old.total /\ old.scanned <= new.scanned
  PROVE  Percent(new) >= Percent(old)
<1>1. /\ old.scanned \in Nat /\ old.total \in Nat /\ new.scanned \in Nat /\ new.total \in Nat
      /\ Percent(old) \in 0..100 /\ Percent(new) \in 0..100
  BY PercentIs, SearchConstants DEF Job
<1>2. CASE new.state \in Finished
  <2>1. Percent(new) = 100
    BY <1>2, PercentIs
  <2> QED BY <1>1, <2>1
<1>3. CASE old.state \notin Finished /\ (old.scanned = 0 \/ old.total = 0)
  <2>1. Percent(old) = 0
    BY <1>3, PercentIs
  <2> QED BY <1>1, <2>1
<1>4. CASE /\ old.state \notin Finished /\ new.state \notin Finished /\ old.total # 0
           /\ new.total = old.total /\ old.scanned <= new.scanned
  <2>1. /\ Percent(old) = (old.scanned * 100) \div old.total
        /\ Percent(new) = (new.scanned * 100) \div old.total
    BY <1>4 DEF Percent
  <2>2. (old.scanned * 100) \div old.total <= (new.scanned * 100) \div old.total
    BY <1>1, <1>4, QuotientGrows
  <2> QED BY <1>1, <2>1, <2>2
<1> QED BY <1>2, <1>3, <1>4

\* A leg that does not end its scan leaves the window and goes on in it.
LEMMA LegGoesOn ==
  ASSUME IInv, NEW i \in Ids, Scan(i)
  PROVE  \/ jobs'[i].state \in Finished
         \/ jobs[i].scanned = 0
         \/ jobs'[i].total = jobs[i].total /\ jobs[i].scanned <= jobs'[i].scanned
<1> USE DEF IInv
<1>1. jobs[i] \in Job
  BY DEF TypeOK
<1>2. CASE TaskStart(i)
  BY <1>2 DEF TaskStart, CountsAgree
<1>3. CASE TaskStep(i)
  <2>1. jobs[i].matched <= jobs[i].scanned /\ jobs[i].scanned <= jobs[i].total
    BY DEF CountsAgree
  <2>2. PICK scanned \in jobs[i].scanned..jobs[i].total : \E matched \in jobs[i].matched..jobs[i].total :
          \E state \in {"running", "failed"} :
            matched <= scanned /\ Settles(i, jobs[i], scanned, matched, state)
    BY <1>1, <1>3, <2>1, LegStays DEF TaskStep
  <2>3. PICK matched \in jobs[i].matched..jobs[i].total, state \in {"running", "failed"} :
          Settles(i, jobs[i], scanned, matched, state)
    BY <2>2
  <2>4. jobs'[i] = [jobs[i] EXCEPT !.state = state, !.scanned = scanned, !.matched = matched]
    BY <2>3 DEF Settles, TypeOK
  <2>5. jobs'[i].total = jobs[i].total /\ jobs'[i].scanned = scanned
    BY <1>1, <2>4 DEF Job
  <2> QED BY <2>2, <2>5
<1>4. ASSUME NEW state \in Finished, Settles(i, jobs[i], jobs[i].scanned, jobs[i].matched, state)
      PROVE  jobs'[i].state \in Finished
  <2>1. jobs'[i] = [jobs[i] EXCEPT !.state = state, !.scanned = jobs[i].scanned, !.matched = jobs[i].matched]
    BY <1>4 DEF Settles, TypeOK
  <2> QED BY <1>1, <1>4, <2>1 DEF Job
<1>5. CASE TaskDone(i) \/ TaskCancelled(i)
  <2>1. "done" \in Finished /\ "cancelled" \in Finished
    BY DEF Finished
  <2> QED BY <1>4, <1>5, <2>1 DEF TaskDone, TaskCancelled
<1> QED BY <1>2, <1>3, <1>5 DEF Scan

\* No step takes a percentage back, or fills a search that is not created.
LEMMA PercentStep ==
  ASSUME IInv, UnbornIsEmpty, IInv', Next
  PROVE  UnbornIsEmpty' /\ \A i \in Ids : Percent(jobs'[i]) >= Percent(jobs[i])
<1> SUFFICES ASSUME NEW i \in Ids
             PROVE  /\ jobs'[i].state = "unborn" => jobs'[i].total = 0
                    /\ Percent(jobs'[i]) >= Percent(jobs[i])
  BY DEF UnbornIsEmpty, Ids
<1>1. jobs[i] \in Job /\ jobs'[i] \in Job
  BY DEF IInv, TypeOK
<1>2. jobs[i].scanned <= jobs[i].total /\ jobs'[i].scanned <= jobs'[i].total
  BY DEF IInv, CountsAgree
<1>3. jobs[i].scanned \in Nat /\ jobs[i].total \in Nat
  BY <1>1, SearchConstants DEF Job
<1>4. ASSUME NEW S, Retired(i, S)
      PROVE  /\ jobs'[i].state = "unborn" => jobs'[i].total = 0
             /\ Percent(jobs'[i]) >= Percent(jobs[i])
  <2>1. /\ jobs'[i].total = jobs[i].total /\ jobs'[i].scanned = jobs[i].scanned
        /\ jobs'[i].state \in {jobs[i].state, "cancelled"}
    BY <1>4 DEF Retired, SameCounts
  <2>2. jobs'[i].state = "unborn" => jobs'[i].total = 0
    BY <2>1 DEF UnbornIsEmpty
  <2>3. jobs[i].state \in Finished => jobs'[i].state \in Finished
    BY <2>1 DEF Finished
  <2> QED BY <1>1, <1>2, <1>3, <2>1, <2>2, <2>3, PercentGrows
<1>5. CASE Tick \/ OnlyPurges \/ Reaps \/ Gets \/ Deletes \/ ResetState
  BY <1>4, <1>5, QuietSteps DEF Retires, IInv
<1>6. CASE Creates
  <2>1. PICK new \in Ids, f \in Families : \E S \in SUBSET live : Births(new, f, S)
    BY <1>6, CreateSteps DEF IInv
  <2>2. PICK S \in SUBSET live : Births(new, f, S)
    BY <2>1
  <2>3. CASE i # new
    BY <1>4, <2>2, <2>3 DEF Births
  <2>4. CASE i = new
    <3>1. jobs[i].state = "unborn"
      BY <2>2, <2>4 DEF Births, IInv, IdsNeverReused, TypeOK, Ids
    <3>2. jobs[i].total = 0 /\ jobs[i].state \notin Finished
      BY <3>1 DEF UnbornIsEmpty, Finished
    <3>3. jobs'[i].state = "queued" /\ jobs'[i].total = 0
      BY <2>2, <2>4 DEF Births
    <3> QED BY <1>1, <1>2, <3>2, <3>3, PercentGrows
  <2> QED BY <2>3, <2>4
<1>7. ASSUME NEW j \in Ids, Scan(j)
      PROVE  /\ jobs'[i].state = "unborn" => jobs'[i].total = 0
             /\ Percent(jobs'[i]) >= Percent(jobs[i])
  <2>1. PICK job \in Job, scanned \in 0..MaxTotal : \E matched \in 0..MaxTotal :
          \E state \in {"running"} \cup Finished : Outcome(j, job, scanned, matched, state)
    BY <1>7, ScanSettles DEF IInv
  <2>2. PICK matched \in 0..MaxTotal, state \in {"running"} \cup Finished :
          Outcome(j, job, scanned, matched, state)
    BY <2>1
  <2>3. CASE i # j
    <3>1. jobs'[i] = jobs[i]
      BY <2>2, <2>3 DEF Outcome, Settles, IInv, TypeOK
    <3> QED BY <1>1, <1>2, <1>3, <3>1, PercentGrows DEF UnbornIsEmpty
  <2>4. CASE i = j
    <3>1. jobs'[i] = [job EXCEPT !.state = state, !.scanned = scanned, !.matched = matched]
      BY <2>2, <2>4 DEF Outcome, Settles, IInv, TypeOK
    <3>2. jobs'[i].state = state /\ state # "unborn"
      BY <3>1 DEF Job, Finished
    <3>3. jobs[i].state \in Finished => jobs'[i].state \in Finished
      <4> SUFFICES ASSUME jobs[i].state \in Finished PROVE state \in Finished
        BY <3>2
      <4>1. task[i] \notin {"ready", "paused"}
        BY DEF IInv, ScansFollowJobs, Finished
      <4>2. state = "cancelled"
        BY <2>2, <2>4, <4>1 DEF Outcome
      <4> QED BY <4>2 DEF Finished
    <3>4. \/ jobs'[i].state \in Finished
          \/ jobs[i].scanned = 0
          \/ jobs'[i].total = jobs[i].total /\ jobs[i].scanned <= jobs'[i].scanned
      BY <1>7, <2>4, LegGoesOn
    <3>5. Percent(jobs'[i]) >= Percent(jobs[i])
      BY <1>1, <1>2, <3>3, <3>4, PercentGrows
    <3> QED BY <3>2, <3>5
  <2> QED BY <2>3, <2>4
<1> QED BY <1>5, <1>6, <1>7, StepKinds DEF Scans, Scan, IInv

(* The percentage a client polls never goes backwards: also when a search  *)
(* is aborted, when a new leg sizes the window, and when a window is empty *)
(* (jobs.py:173).                                                          *)
THEOREM ProgressNeverDrops == Spec => PercentNeverDrops
<1>1. Init => UnbornIsEmpty
  BY DEF Init, UnbornIsEmpty, Unborn
<1>2. IInv /\ IInv' /\ UnbornIsEmpty /\ [Next]_vars
        => UnbornIsEmpty' /\ [\A i \in Ids : Percent(jobs'[i]) >= Percent(jobs[i])]_vars
  <2> SUFFICES ASSUME IInv, IInv', UnbornIsEmpty, [Next]_vars
               PROVE  UnbornIsEmpty' /\ [\A i \in Ids : Percent(jobs'[i]) >= Percent(jobs[i])]_vars
    OBVIOUS
  <2>1. CASE Next
    BY <2>1, PercentStep
  <2>2. CASE UNCHANGED vars
    BY <2>2 DEF vars, UnbornIsEmpty
  <2> QED BY <2>1, <2>2
<1> QED BY <1>1, <1>2, Invariance, PTL DEF Spec, PercentNeverDrops

LEMMA AnswersInvariance == Spec => [](IInv /\ AInv)
<1>1. Init => IInv /\ AInv
  BY InitHolds, AnswersInit
<1>2. IInv /\ AInv /\ [Next]_vars => (IInv /\ AInv)'
  BY NextKeeps, AnswersStep
<1> QED BY <1>1, <1>2, PTL DEF Spec

(* A key is forgotten before its time only in a full store, and only in    *)
(* favour of keys that were stored no earlier (idempotency.py:55).         *)
THEOREM KeysForgottenInOrder == Spec => []ForgottenInOrder
<1>1. IInv /\ AInv => ForgottenInOrder
  BY DEF AInv
<1> QED BY <1>1, AnswersInvariance, PTL

(* A search is live, expired or neither, is remembered as expired once,    *)
(* and what a key can be answered with has not been idle for too long.     *)
THEOREM ExpiryIsOrderly == Spec => [](ExpiredIsGone /\ ReplayIsAlive)
<1>1. IInv /\ AInv => ExpiredIsGone /\ ReplayIsAlive
  <2> SUFFICES ASSUME IInv, AInv PROVE ExpiredIsGone /\ ReplayIsAlive
    OBVIOUS
  <2>1. ExpiredIsGone
    BY DEF IInv, AInv, ExpiredNotLive, ExpiredIsGone
  <2>2. ReplayIsAlive
    <3> SUFFICES ASSUME NEW s \in DOMAIN records, records[s].age < KeyTTL, records[s].id \in live
                 PROVE  jobs[records[s].id].idle < IdleTTL
      BY DEF ReplayIsAlive
    <3>1. jobs[records[s].id].idle <= records[s].age
      BY DEF AInv, ReplayIsYoung
    <3>2. records[s].age \in Nat /\ jobs[records[s].id].idle \in Nat
      BY DEF IInv, TypeOK, Record, Job
    <3>3. KeyTTL \in Nat /\ IdleTTL \in Nat /\ KeyTTL <= IdleTTL
      BY SearchConstants
    <3> QED BY <3>1, <3>2, <3>3
  <2> QED BY <2>1, <2>2
<1> QED BY <1>1, AnswersInvariance, PTL

(* In a store with room for every slot a key answers with the search it    *)
(* started for as long as both are there.                                  *)
THEOREM AnswersStayRight == ASSUME RoomForAll PROVE Spec => []AnswersAreRight
<1>1. Init => KeyFindsItsSearch
  BY DEF Init, KeyFindsItsSearch
<1>2. IInv /\ AInv /\ KeyFindsItsSearch /\ [Next]_vars => KeyFindsItsSearch'
  BY KeysKeepFinding
<1>3. Spec => []KeyFindsItsSearch
  BY <1>1, <1>2, AnswersInvariance, PTL DEF Spec
<1>4. ExpiredIsGone /\ ReplayIsAlive /\ KeyFindsItsSearch => AnswersAreRight
  BY DEF AnswersAreRight
<1> QED BY <1>3, <1>4, ExpiryIsOrderly, PTL

-----------------------------------------------------------------------------
(* The Run button.                                                         *)

(* What a step does to the screens and the searches that are live.         *)
AllAreMine == \A i \in live : jobs[i].family = Me

(* A screen with a POST out or answered has let go of the search before.   *)
LetGo == \A s \in Screens : call[s].phase \in {"posting", "answered"} => started[s] = NotStarted

Holds(s, i) == started[s].id = i \/ (call[s].phase = "answered" /\ call[s].id = i)

(* Whatever a screen asks, the service answers as it answers anybody.      *)
LEMMA RunIsNext ==
  ASSUME RunTypeOK, live \subseteq Ids, [RunNext]_runVars
  PROVE  [Next]_vars
<1> USE RunConstants
<1>1. \A s \in Screens : call[s].phase \in {"ending", "posting", "answered"} => call[s].body \in Bodies /\ call[s].body \in Keys
  BY DEF RunTypeOK, Call
<1>2. ASSUME Service PROVE Next
  BY <1>2 DEF Service, Next
<1>3. ASSUME NEW s \in Screens, EndOld(s) PROVE Next \/ UNCHANGED vars
  <2>1. ASSUME Delete(Me, started[s].id) PROVE Next
    <3>1. started[s].id \in Ids
      BY <2>1 DEF Delete, Visible, Kept
    <3> QED BY <2>1, <3>1 DEF Next, Request
  <2>2. ASSUME DeleteMissing(Me, started[s].id) PROVE Next
    BY <2>2 DEF DeleteMissing, Next
  <2> QED BY <1>3, <2>1, <2>2 DEF EndOld
<1>4. ASSUME NEW s \in Screens, PostCreates(s) PROVE Next
  <2>1. PICK failing \in ScanFaults : Create(Me, call[s].body, call[s].body, failing)
    BY <1>4 DEF PostCreates
  <2>2. call[s].body \in Bodies /\ call[s].body \in Keys
    BY <1>1, <1>4 DEF PostCreates
  <2> QED BY <2>1, <2>2 DEF Next, Request, CreateSearch
<1>5. ASSUME NEW s \in Screens, PostReplays(s) PROVE Next
  <2>1. Replay(Me, call[s].body, call[s].body) /\ call[s].body \in Bodies /\ call[s].body \in Keys
    BY <1>1, <1>5 DEF PostReplays
  <2> QED BY <2>1 DEF Next, Request, CreateSearch
<1>6. ASSUME NEW s \in Screens, PostFails(s) PROVE Next \/ UNCHANGED vars
  <2>1. call[s].body \in Bodies /\ call[s].body \in Keys
    BY <1>1, <1>6 DEF PostFails
  <2> QED BY <1>6, <2>1 DEF PostFails, Next, Request, CreateSearch
<1>7. ASSUME NEW s \in Screens, Read(s) PROVE Next
  <2>1. watched[s] \in Ids
    BY <1>7 DEF Read, RunTypeOK
  <2> QED BY <1>7, <2>1 DEF Read, Next, Request
<1>8. ASSUME NEW s \in Screens, StopWatched(s) PROVE Next
  <2>1. watched[s] \in Ids
    BY <1>8 DEF StopWatched, RunTypeOK
  <2> QED BY <1>8, <2>1 DEF StopWatched, Next, Request
<1>9. ASSUME NEW s \in Screens, NEW b \in Bodies, Press(s, b) \/ PressAgain(s, b)
      PROVE  UNCHANGED vars
  BY <1>9 DEF Press, PressAgain
<1>10. ASSUME NEW s \in Screens, HearStarted(s) \/ LoseAnswer(s) \/ Reload(s)
       PROVE  UNCHANGED vars
  BY <1>10 DEF HearStarted, LoseAnswer, Reload
<1>11. CASE UNCHANGED runVars
  BY <1>11 DEF runVars
<1>12. CASE RunNext
  BY <1>2, <1>3, <1>4, <1>5, <1>6, <1>7, <1>8, <1>9, <1>10, <1>12 DEF RunNext
<1> QED BY <1>11, <1>12

(* Two live searches under one young key would both be what the key finds. *)
LEMMA KeysAdmitNoTwin ==
  ASSUME TypeOK, KeyFindsItsSearch
  PROVE  NoTwin
<1> SUFFICES ASSUME NEW i \in live, NEW j \in live, i # j, SameKey(i, j),
                    jobs[i].age # KeyTTL, jobs[j].age # KeyTTL
             PROVE  FALSE
  BY DEF NoTwin
<1>1. jobs[i].age < KeyTTL /\ jobs[j].age < KeyTTL
  <2>1. jobs[i].age \in 0..KeyTTL /\ jobs[j].age \in 0..KeyTTL /\ KeyTTL \in Nat
    BY SearchConstants DEF TypeOK, Job
  <2> QED BY <2>1
<1>2. records[<<jobs[i].family, jobs[i].key>>].id = i
  BY <1>1 DEF KeyFindsItsSearch, SameKey
<1>3. records[<<jobs[j].family, jobs[j].key>>].id = j
  BY <1>1 DEF KeyFindsItsSearch, SameKey
<1> QED BY <1>2, <1>3 DEF SameKey

(* Steps of the service that start no search.                              *)
Quiet == live' \subseteq live /\ \A i \in live' : jobs'[i].family = jobs[i].family

LEMMA QuietService ==
  ASSUME IInv,
         \/ Tick \/ OnlyPurges \/ Reaps \/ Gets \/ Deletes \/ Scans
         \/ UNCHANGED vars
  PROVE  Quiet
<1>1. live \subseteq Ids
  BY DEF IInv, TypeOK
<1>2. CASE Tick \/ OnlyPurges \/ Reaps \/ Gets \/ Deletes
  <2>1. PICK S \in SUBSET live : Retires(S)
    BY <1>2, QuietSteps
  <2> QED BY <1>1, <2>1 DEF Retires, Retired, SameOwner, Quiet
<1>3. CASE Scans
  <2>1. PICK j \in Ids : Scan(j)
    BY <1>3 DEF Scans, Scan
  <2>2. PICK job \in Job, scanned \in 0..MaxTotal : \E matched \in 0..MaxTotal :
          \E state \in {"running"} \cup Finished : Outcome(j, job, scanned, matched, state)
    BY <2>1, ScanSettles DEF IInv
  <2>3. PICK matched \in 0..MaxTotal, state \in {"running"} \cup Finished :
          Outcome(j, job, scanned, matched, state)
    BY <2>2
  <2>4. job.family = jobs[j].family /\ live' = live
        /\ jobs' = [jobs EXCEPT ![j] = [job EXCEPT !.state = state, !.scanned = scanned, !.matched = matched]]
    BY <2>3 DEF Outcome, Settles, SameSearch
  <2>5. [job EXCEPT !.state = state, !.scanned = scanned, !.matched = matched].family = job.family
    BY DEF Job
  <2>6. \A i \in Ids : jobs'[i].family = jobs[i].family
    BY <2>4, <2>5 DEF IInv, TypeOK
  <2> QED BY <1>1, <2>4, <2>6 DEF Quiet
<1>4. CASE UNCHANGED vars
  BY <1>4 DEF vars, Quiet
<1> QED BY <1>2, <1>3, <1>4

(* Who holds what it held keeps every slot that is left.                   *)
LEMMA SlotsStay ==
  ASSUME AllAreMine, EverySlotHasItsScreen, Quiet,
         \A s \in Screens, i \in live' : Holds(s, i) => Holds(s, i)'
  PROVE  AllAreMine' /\ EverySlotHasItsScreen'
<1>1. AllAreMine'
  BY DEF AllAreMine, Quiet
<1>2. ASSUME NEW i \in live' PROVE \E s \in Screens : Holds(s, i)'
  <2>1. i \in live
    BY <1>2 DEF Quiet
  <2>2. PICK s \in Screens : Holds(s, i)
    BY <2>1 DEF EverySlotHasItsScreen, Holds
  <2> QED BY <1>2, <2>2
<1> QED BY <1>1, <1>2 DEF EverySlotHasItsScreen, Holds

(* The screen answers and remembers as it is typed to.                     *)
LEMMA ScreenFacts ==
  ASSUME RunTypeOK, NEW s \in Screens
  PROVE  /\ started[s] \in StartedBy /\ call[s] \in Call
         /\ call[s].phase \in {"ending", "posting", "answered"} => call[s].body \in Bodies
         /\ call[s].phase = "answered" => call[s].id \in Ids
         /\ call[s].phase \in {"idle", "failed", "ending", "posting", "answered"}
BY DEF RunTypeOK, Call

(* What the screens of one user are like.                                  *)
ScreensOK == RunTypeOK /\ AllAreMine /\ LetGo /\ EverySlotHasItsScreen

LEMMA NothingHeardKeeps ==
  ASSUME ScreensOK, Quiet, UNCHANGED screens
  PROVE  ScreensOK'
<1>1. RunTypeOK' /\ LetGo'
  BY DEF ScreensOK, RunTypeOK, LetGo, screens
<1>2. \A s \in Screens, i \in live' : Holds(s, i) => Holds(s, i)'
  BY DEF screens, Holds
<1> QED BY <1>1, <1>2, SlotsStay DEF ScreensOK

(* One screen moves on, and what it held it holds or is not live.          *)
LEMMA ScreenMovesOn ==
  ASSUME ScreensOK, Quiet, NEW s \in Screens, NEW st \in StartedBy, NEW c \in Call,
         started' = [started EXCEPT ![s] = st], call' = [call EXCEPT ![s] = c],
         watched' \in [Screens -> {NoSearch} \cup Ids],
         c.phase \in {"posting", "answered"} => st = NotStarted,
         \A i \in live' : Holds(s, i) => st.id = i \/ (c.phase = "answered" /\ c.id = i)
  PROVE  ScreensOK'
<1>1. started' \in [Screens -> StartedBy] /\ call' \in [Screens -> Call]
  BY DEF ScreensOK, RunTypeOK
<1>2. \A t \in Screens : started'[t] = (IF t = s THEN st ELSE started[t])
                         /\ call'[t] = (IF t = s THEN c ELSE call[t])
  BY DEF ScreensOK, RunTypeOK
<1>3. LetGo'
  BY <1>2 DEF ScreensOK, LetGo
<1>4. \A t \in Screens, i \in live' : Holds(t, i) => Holds(t, i)'
  BY <1>2 DEF Holds
<1> QED BY <1>1, <1>3, <1>4, SlotsStay DEF ScreensOK, RunTypeOK

LEMMA PhasesOfCalls ==
  /\ Idling \in Call /\ Failure \in Call /\ NotStarted \in StartedBy
  /\ \A b \in Bodies : [phase |-> "ending", body |-> b] \in Call
                       /\ [phase |-> "posting", body |-> b] \in Call
  /\ \A b \in Bodies, i \in Ids : /\ [phase |-> "answered", body |-> b, id |-> i] \in Call
                                  /\ [id |-> i, label |-> b] \in StartedBy
BY DEF Call, Idling, Failure, StartedBy

(* The search a screen ends is not live afterwards.                        *)
LEMMA EndOldKeeps ==
  ASSUME ScreensOK, IInv, "delete" \notin Faults, NEW s \in Screens, EndOld(s)
  PROVE  ScreensOK'
<1>1. Delete(Me, started[s].id) \/ DeleteMissing(Me, started[s].id)
  BY DEF EndOld
<1>2. live \subseteq Ids /\ Me \in Families
  BY RunConstants DEF IInv, TypeOK
<1>3. Quiet /\ started[s].id \notin live'
  <2>1. CASE Delete(Me, started[s].id)
    <3>1. Deletes
      BY <1>2, <2>1 DEF Delete, Visible, Kept, Deletes
    <3> QED BY <2>1, <3>1, QuietService DEF Delete
  <2>2. CASE DeleteMissing(Me, started[s].id)
    <3>1. Reap
      BY <2>2 DEF DeleteMissing
    <3>2. Reaps
      BY <3>1 DEF Reap, Reaps, Purges, LookedUp
    <3>3. live' = Kept /\ Kept \subseteq live
      BY <3>1 DEF Reap, Kept
    <3>4. started[s].id \notin Kept
      BY <2>2, <3>3 DEF DeleteMissing, Visible, ScreensOK, AllAreMine
    <3> QED BY <3>2, <3>3, <3>4, QuietService
  <2> QED BY <1>1, <2>1, <2>2
<1>4. PICK c : c = [phase |-> "posting", body |-> call[s].body]
  OBVIOUS
<1>5. c \in Call /\ c.phase = "posting"
  BY <1>4, ScreenFacts, PhasesOfCalls DEF EndOld, ScreensOK
<1>6. call[s].phase = "ending" /\ call' = [call EXCEPT ![s] = c]
      /\ started' = [started EXCEPT ![s] = NotStarted] /\ watched' = watched
  BY <1>4 DEF EndOld
<1>7. \A i \in live' : ~ Holds(s, i)
  BY <1>3, <1>6 DEF Holds
<1>8. watched' \in [Screens -> {NoSearch} \cup Ids]
  BY <1>6 DEF ScreensOK, RunTypeOK
<1> QED BY <1>3, <1>5, <1>6, <1>7, <1>8, PhasesOfCalls, ScreenMovesOn

(* A search that is started is one the screen is about to hear of.         *)
LEMMA PostCreatesKeeps ==
  ASSUME ScreensOK, IInv, "commit" \notin Faults, NEW s \in Screens, PostCreates(s)
  PROVE  ScreensOK'
<1> DEFINE b == call[s].body
<1>1. call[s].phase = "posting" /\ b \in Bodies /\ b \in Keys
  BY ScreenFacts, RunConstants DEF PostCreates, ScreensOK
<1>2. PICK failing \in ScanFaults : Create(Me, b, b, failing)
  BY DEF PostCreates
<1>3. Me \in Families
  BY RunConstants
<1>4. PICK r \in LookedUp(b), order \in Ascending(Idle) :
        /\ counter + 1 <= MaxSearches /\ counter' = counter + 1
        /\ jobs' = [AbortJobs(Idle) EXCEPT ![counter + 1] = NewJob(Me, b, b, failing)]
        /\ live' = Kept \cup {counter + 1}
  BY <1>2 DEF Create
<1>5. counter' \in Ids
  BY <1>4 DEF IInv, TypeOK, Ids
<1>6. AbortJobs(Idle) \in [Ids -> Job] /\ \A i \in Ids : AbortJobs(Idle)[i].family = jobs[i].family
  BY AbortJobsType, AbortRetires DEF IInv, TypeOK, SameSearch
<1>7. NewJob(Me, b, b, failing).family = Me
  BY <1>1, <1>3, NewJobType
<1>8. live \subseteq Ids /\ Kept \subseteq live
  BY DEF IInv, TypeOK, Kept
<1>9. \A i \in live' : jobs'[i].family = Me
  <2>1. jobs'[counter'].family = Me
    BY <1>4, <1>5, <1>6, <1>7
  <2>2. ASSUME NEW i \in Kept, i # counter' PROVE jobs'[i].family = Me
    <3>1. i \in Ids /\ jobs[i].family = Me
      BY <1>8, <2>2 DEF ScreensOK, AllAreMine
    <3> QED BY <1>4, <1>5, <1>6, <2>2, <3>1
  <2> QED BY <1>4, <2>1, <2>2
<1>10. PICK c : c = [phase |-> "answered", body |-> b, id |-> counter']
  OBVIOUS
<1>11. c \in Call /\ c.phase = "answered" /\ c.id = counter'
  BY <1>1, <1>5, <1>10, PhasesOfCalls
<1>12. call' = [call EXCEPT ![s] = c] /\ UNCHANGED <<started, watched>>
  BY <1>10 DEF PostCreates, Answers
<1>13. \A t \in Screens : call'[t] = IF t = s THEN c ELSE call[t]
  BY <1>12 DEF ScreensOK, RunTypeOK
<1>14. RunTypeOK'
  BY <1>11, <1>12 DEF ScreensOK, RunTypeOK
<1>15. LetGo'
  BY <1>1, <1>12, <1>13 DEF ScreensOK, LetGo
<1>16. ASSUME NEW i \in live' PROVE \E t \in Screens : Holds(t, i)'
  <2>1. CASE i = counter'
    BY <1>11, <1>13, <2>1 DEF Holds
  <2>2. CASE i # counter'
    <3>1. i \in live
      BY <1>4, <1>8, <1>16, <2>2
    <3>2. PICK t \in Screens : Holds(t, i)
      BY <3>1 DEF ScreensOK, EverySlotHasItsScreen, Holds
    <3>3. t = s => started[t].id = i
      BY <1>1, <3>2 DEF Holds
    <3> QED BY <1>12, <1>13, <3>2, <3>3 DEF Holds
  <2> QED BY <2>1, <2>2
<1>17. EverySlotHasItsScreen' /\ AllAreMine'
  BY <1>9, <1>16 DEF EverySlotHasItsScreen, Holds, AllAreMine
<1> QED BY <1>14, <1>15, <1>17 DEF ScreensOK

LEMMA PostReplaysKeeps ==
  ASSUME ScreensOK, IInv, NEW s \in Screens, PostReplays(s)
  PROVE  ScreensOK'
<1> DEFINE b == call[s].body
<1>1. call[s].phase = "posting" /\ b \in Bodies /\ b \in Keys /\ Me \in Families
  BY ScreenFacts, RunConstants DEF PostReplays, ScreensOK
<1>2. PICK r \in LookedUp(b) :
        Replayable(r, Me, b, b) /\ records' = r /\ UNCHANGED <<jobs, live, task, expired, counter>>
  BY DEF PostReplays, Replay
<1>3. Quiet
  BY <1>1, <1>2, QuietService DEF OnlyPurges, Purges
<1>4. records'[<<Me, b>>].id \in Ids
  BY <1>2 DEF Replayable, IInv, TypeOK
<1>5. PICK c : c = [phase |-> "answered", body |-> b, id |-> records'[<<Me, b>>].id]
  OBVIOUS
<1>6. c \in Call
  BY <1>1, <1>4, <1>5, PhasesOfCalls
<1>7. call' = [call EXCEPT ![s] = c] /\ UNCHANGED <<started, watched>>
  BY <1>5 DEF PostReplays, Answers
<1>8. started[s] = NotStarted /\ started' = [started EXCEPT ![s] = NotStarted]
  BY <1>1, <1>7 DEF ScreensOK, LetGo, RunTypeOK
<1>9. \A i \in live' : ~ Holds(s, i)
  <2>1. live' \subseteq Ids /\ NoSearch \notin Ids
    BY <1>2 DEF IInv, TypeOK, NoSearch, Ids
  <2> QED BY <1>1, <1>8, <2>1 DEF Holds, NotStarted
<1>10. watched' \in [Screens -> {NoSearch} \cup Ids]
  BY <1>7 DEF ScreensOK, RunTypeOK
<1> QED BY <1>3, <1>6, <1>7, <1>8, <1>9, <1>10, PhasesOfCalls, ScreenMovesOn

LEMMA PostFailsKeeps ==
  ASSUME ScreensOK, IInv, "post" \notin Faults, NEW s \in Screens, PostFails(s)
  PROVE  ScreensOK'
<1> DEFINE b == call[s].body
<1>1. call[s].phase = "posting" /\ b \in Bodies /\ b \in Keys /\ Me \in Families
  BY ScreenFacts, RunConstants DEF PostFails, ScreensOK
<1>2. RefuseSlots(Me, b, b)
  BY DEF PostFails
<1>3. Reaps
  BY <1>1, <1>2 DEF RefuseSlots, Reaps, Purges
<1>4. Quiet
  BY <1>3, QuietService
<1>5. call' = [call EXCEPT ![s] = Failure] /\ UNCHANGED <<started, watched>>
  BY DEF PostFails, Fails
<1>6. started[s] = NotStarted /\ started' = [started EXCEPT ![s] = NotStarted]
  BY <1>1, <1>5 DEF ScreensOK, LetGo, RunTypeOK
<1>7. \A i \in live' : Holds(s, i) => NotStarted.id = i
  BY <1>1, <1>6 DEF Holds
<1>8. watched' \in [Screens -> {NoSearch} \cup Ids]
  BY <1>5 DEF ScreensOK, RunTypeOK
<1>9. Failure.phase = "failed"
  BY DEF Failure
<1> QED BY <1>4, <1>5, <1>6, <1>7, <1>8, <1>9, PhasesOfCalls, ScreenMovesOn

(* What was answered is what the screen calls its own.                     *)
LEMMA HearStartedKeeps ==
  ASSUME ScreensOK, IInv, NEW s \in Screens, HearStarted(s)
  PROVE  ScreensOK'
<1>1. call[s].phase = "answered" /\ call[s].id \in Ids /\ call[s].body \in Bodies
  BY ScreenFacts DEF HearStarted, ScreensOK
<1>2. Quiet
  BY QuietService DEF HearStarted
<1>3. PICK st : st = [id |-> call[s].id, label |-> call[s].body]
  OBVIOUS
<1>4. st \in StartedBy /\ st.id = call[s].id
  BY <1>1, <1>3, PhasesOfCalls
<1>5. call' = [call EXCEPT ![s] = Idling] /\ started' = [started EXCEPT ![s] = st]
      /\ watched' = [watched EXCEPT ![s] = call[s].id]
  BY <1>3 DEF HearStarted
<1>6. watched' \in [Screens -> {NoSearch} \cup Ids]
  BY <1>1, <1>5 DEF ScreensOK, RunTypeOK
<1>7. \A i \in live' : Holds(s, i) => st.id = i
  <2>1. live' \subseteq Ids /\ NoSearch \notin Ids
    BY DEF HearStarted, vars, IInv, TypeOK, NoSearch, Ids
  <2>2. started[s].id = NoSearch
    BY <1>1 DEF ScreensOK, LetGo, NotStarted
  <2> QED BY <1>4, <2>1, <2>2 DEF Holds
<1>8. Idling.phase = "idle"
  BY DEF Idling
<1> QED BY <1>2, <1>4, <1>5, <1>6, <1>7, <1>8, PhasesOfCalls, ScreenMovesOn

LEMMA PressKeeps ==
  ASSUME ScreensOK, IInv, NEW s \in Screens, NEW b \in Bodies, Press(s, b) \/ PressAgain(s, b)
  PROVE  ScreensOK'
<1>1. Quiet
  BY QuietService DEF Press, PressAgain
<1>2. started[s] \in StartedBy /\ started' = [started EXCEPT ![s] = started[s]]
  BY DEF ScreensOK, RunTypeOK, Press, PressAgain
<1>3. call[s].phase # "answered"
  BY DEF Press, PressAgain, Pressable
<1>4. \A i \in live' : Holds(s, i) => started[s].id = i
  BY <1>3 DEF Holds
<1>5. CASE PressAgain(s, b)
  <2>1. started[s].id \in Ids
    BY <1>2, <1>5 DEF PressAgain, RunsAlready, StartedBy
  <2>2. watched' \in [Screens -> {NoSearch} \cup Ids]
    BY <1>5, <2>1 DEF PressAgain, ScreensOK, RunTypeOK
  <2>3. call' = [call EXCEPT ![s] = Idling] /\ Idling.phase = "idle"
    BY <1>5 DEF PressAgain, Idling
  <2> QED BY <1>1, <1>2, <1>4, <2>2, <2>3, PhasesOfCalls, ScreenMovesOn
<1>6. CASE Press(s, b)
  <2>1. PICK c : c = [phase |-> IF started[s] = NotStarted THEN "posting" ELSE "ending", body |-> b]
    OBVIOUS
  <2>2. c \in Call /\ (c.phase \in {"posting", "answered"} => started[s] = NotStarted)
    BY <2>1, PhasesOfCalls
  <2>3. watched' \in [Screens -> {NoSearch} \cup Ids]
    BY <1>6 DEF Press, ScreensOK, RunTypeOK
  <2>4. call' = [call EXCEPT ![s] = c]
    BY <1>6, <2>1 DEF Press
  <2> QED BY <1>1, <1>2, <1>4, <2>2, <2>3, <2>4, ScreenMovesOn
<1> QED BY <1>5, <1>6

(* What everybody else does starts no search of this user.                 *)
LEMMA ServiceKeeps ==
  ASSUME ScreensOK, IInv,
         Service \/ \E s \in Screens : Read(s) \/ StopWatched(s)
  PROVE  ScreensOK'
<1>1. Me \in Families
  BY RunConstants
<1>2. ASSUME Reap PROVE Reaps
  BY <1>2 DEF Reap, Reaps, Purges, LookedUp
<1>3. CASE Service
  <2>1. Tick \/ Reaps \/ Scans
    BY <1>2, <1>3 DEF Service, Scans, Scan
  <2>2. Quiet
    BY <2>1, QuietService
  <2> QED BY <1>3, <2>2, NothingHeardKeeps DEF Service
<1>4. ASSUME NEW s \in Screens, Read(s) \/ StopWatched(s) PROVE ScreensOK'
  <2>1. watched[s] \in Ids
    BY <1>4 DEF Read, StopWatched, ScreensOK, RunTypeOK
  <2>2. Gets \/ Reaps \/ Deletes
    BY <1>1, <1>2, <1>4, <2>1 DEF Read, StopWatched, GetMissing, Gets, Deletes
  <2>3. Quiet
    BY <2>2, QuietService
  <2> QED BY <1>4, <2>3, NothingHeardKeeps DEF Read, StopWatched
<1> QED BY <1>3, <1>4

LEMMA ScreensStep ==
  ASSUME ScreensOK, IInv, Faults = {}, [RunNext]_runVars
  PROVE  ScreensOK'
<1>1. CASE UNCHANGED runVars
  BY <1>1, QuietService, NothingHeardKeeps DEF runVars
<1>2. CASE RunNext
  <2>1. ~ \E s \in Screens : LoseAnswer(s) \/ Reload(s)
    BY DEF LoseAnswer, Reload
  <2>2. "delete" \notin Faults /\ "commit" \notin Faults /\ "post" \notin Faults
    OBVIOUS
  <2> QED BY <1>2, <2>1, <2>2, PressKeeps, EndOldKeeps, PostCreatesKeeps, PostReplaysKeeps,
             PostFailsKeeps, HearStartedKeeps, ServiceKeeps DEF RunNext
<1> QED BY <1>1, <1>2

LEMMA ScreensBegin == RunInit => ScreensOK
<1> SUFFICES ASSUME RunInit PROVE ScreensOK
  OBVIOUS
<1>1. RunTypeOK
  BY PhasesOfCalls DEF RunInit, RunTypeOK
<1>2. live = {}
  BY DEF RunInit, Init
<1>3. \A s \in Screens : call[s].phase = "idle"
  BY DEF RunInit, Idling
<1> QED BY <1>1, <1>2, <1>3 DEF ScreensOK, AllAreMine, LetGo, EverySlotHasItsScreen

(* Two tabs or twenty: while no call fails on the way, every live search   *)
(* is held by a screen that will end it before it starts another, and, in  *)
(* a store with room for every key, a retry starts no twin                 *)
(* (use-run-search.ts:14, :21).                                            *)
THEOREM EverySlotIsHeld ==
  ASSUME RoomForAll, Faults = {}
  PROVE  RunSpec => []TabsKeepTheirSlots
<1> DEFINE RInv == ScreensOK /\ IInv /\ AInv /\ KeyFindsItsSearch
<1>1. RunInit => RInv
  BY ScreensBegin, InitHolds, AnswersInit DEF RunInit, Init, KeyFindsItsSearch
<1>2. RInv /\ [RunNext]_runVars => RInv'
  <2> SUFFICES ASSUME RInv, [RunNext]_runVars PROVE RInv'
    OBVIOUS
  <2>1. [Next]_vars
    BY RunIsNext DEF ScreensOK, IInv, TypeOK
  <2>2. ScreensOK'
    BY ScreensStep
  <2>3. IInv' /\ AInv' /\ KeyFindsItsSearch'
    BY <2>1, NextKeeps, AnswersStep, KeysKeepFinding
  <2> QED BY <2>2, <2>3
<1>3. RInv => TabsKeepTheirSlots
  BY KeysAdmitNoTwin DEF ScreensOK, IInv, TabsKeepTheirSlots
<1> QED BY <1>1, <1>2, <1>3, PTL DEF RunSpec

-----------------------------------------------------------------------------
(* The results screen.                                                     *)

TheSearch == jobs[Watched]

\* What becomes of a search that was started: its matches only grow, its end
\* is final, and it leaves the dict for good, with an end.
Moves ==
  /\ counter' = counter
  /\ TheSearch'.family = TheSearch.family
  /\ TheSearch'.matched >= TheSearch.matched
  /\ TheSearch.state \in Finished =>
       TheSearch'.matched = TheSearch.matched /\ TheSearch'.state = TheSearch.state
  /\ Watched \notin live => Watched \notin live'
  /\ IF Watched \in live' THEN TheSearch'.state # "cancelled" ELSE TheSearch'.state \in Finished

\* A search in the dict was not cancelled, and one that left it has ended.
StateFits == IF Watched \in live THEN TheSearch.state # "cancelled" ELSE TheSearch.state \in Finished

LEMMA WatchedFacts ==
  ASSUME IInv
  PROVE  /\ Watched \in Ids /\ TheSearch \in Job /\ counter \in Nat
         /\ TheSearch.matched \in 0..MaxTotal /\ TheSearch.state \in States
         /\ ~Started <=> counter = 0
         /\ Started => TheSearch.state # "unborn"
         /\ ~Started => TheSearch.state = "unborn" /\ live = {}
<1>1. Watched \in Ids
  BY ScreenConstants, SearchConstants DEF Watched, Ids
<1>2. TheSearch \in Job /\ counter \in Nat
  BY <1>1, SearchConstants DEF IInv, TypeOK, TheSearch
<1>3. TheSearch.matched \in 0..MaxTotal /\ TheSearch.state \in States
  BY <1>2 DEF Job
<1>4. ~Started <=> counter = 0
  BY <1>2 DEF Started, Watched
<1>5. TheSearch.state = "unborn" <=> Watched > counter
  BY <1>1 DEF IInv, IdsNeverReused, TheSearch
<1>6. ~Started => live = {}
  <2>1. \A i \in live : i \in Ids /\ i <= counter
    BY DEF IInv, TypeOK, IdsNeverReused
  <2> QED BY <1>4, <2>1 DEF Ids
<1>7. Started <=> ~(Watched > counter)
  BY <1>2 DEF Started, Watched
<1> QED BY <1>1, <1>2, <1>3, <1>4, <1>5, <1>6, <1>7

LEMMA RetiredMoves ==
  ASSUME IInv, StateFits, NEW S \in SUBSET live, Retires(S)
  PROVE  Moves
<1>1. Retired(Watched, S) /\ TheSearch.matched \in Nat
  BY WatchedFacts, SearchConstants DEF Retires
<1>2. /\ TheSearch'.family = TheSearch.family /\ TheSearch'.matched = TheSearch.matched
      /\ TheSearch'.state = IF Watched \in S /\ TheSearch.state \notin Finished THEN "cancelled"
                            ELSE TheSearch.state
  BY <1>1 DEF Retired, SameOwner, SameCounts, TheSearch
<1>3. live' = live \ S /\ counter' = counter
  BY DEF Retires
<1>4. TheSearch'.matched >= TheSearch.matched
  BY <1>1, <1>2
<1>5. IF Watched \in live' THEN TheSearch'.state # "cancelled" ELSE TheSearch'.state \in Finished
  BY <1>2, <1>3 DEF StateFits, Finished
<1> QED BY <1>2, <1>3, <1>4, <1>5 DEF Moves

\* How a leg of the scan of a search in the dict can end.
LEMMA LegStates ==
  ASSUME TypeOK, NEW i \in Ids, Scan(i), task[i] # "cancelling"
  PROVE  jobs'[i].state \in {"running", "failed", "done"}
<1>1. ASSUME NEW job \in Job, NEW scanned, NEW matched, NEW state, Settles(i, job, scanned, matched, state)
      PROVE  jobs'[i].state = state
  <2>1. jobs' = [jobs EXCEPT ![i] = [job EXCEPT !.state = state, !.scanned = scanned, !.matched = matched]]
    BY <1>1 DEF Settles
  <2>2. jobs'[i] = [job EXCEPT !.state = state, !.scanned = scanned, !.matched = matched]
    BY <2>1 DEF TypeOK
  <2> QED BY <2>2 DEF Job
<1>2. ASSUME NEW job \in Job, Leg(i, job)
      PROVE  jobs'[i].state \in {"running", "failed"}
  <2>1. PICK scanned \in job.scanned..LegEnd(job) :
          \E matched \in job.matched..(job.matched + scanned - job.scanned) :
            \/ Settles(i, job, scanned, matched, "running")
            \/ Settles(i, job, scanned, matched, "failed")
    BY <1>2 DEF Leg
  <2> QED BY <1>1, <2>1
<1>3. jobs[i] \in Job
  BY DEF TypeOK
<1>4. CASE TaskStart(i)
  <2>1. PICK total \in 0..MaxTotal : Leg(i, [jobs[i] EXCEPT !.state = "running", !.total = total])
    BY <1>4 DEF TaskStart
  <2>2. [jobs[i] EXCEPT !.state = "running", !.total = total] \in Job
    BY <1>3 DEF Job, States
  <2> QED BY <1>2, <2>1, <2>2
<1>5. CASE TaskStep(i)
  BY <1>2, <1>3, <1>5 DEF TaskStep
<1>6. CASE TaskDone(i)
  BY <1>1, <1>3, <1>6 DEF TaskDone
<1> QED BY <1>4, <1>5, <1>6 DEF Scan, TaskCancelled

LEMMA ScanMoves ==
  ASSUME IInv, StateFits, Started, NEW i \in Ids, Scan(i)
  PROVE  Moves
<1> USE DEF IInv
<1>1. PICK job \in Job, scanned \in 0..MaxTotal : \E matched \in 0..MaxTotal :
        \E state \in {"running"} \cup Finished : Outcome(i, job, scanned, matched, state)
  BY ScanSettles
<1>2. PICK matched \in 0..MaxTotal, state \in {"running"} \cup Finished :
        Outcome(i, job, scanned, matched, state)
  BY <1>1
<1>3. /\ live' = live /\ counter' = counter
      /\ jobs' = [jobs EXCEPT ![i] = [job EXCEPT !.state = state, !.scanned = scanned, !.matched = matched]]
      /\ job.family = jobs[i].family /\ jobs[i].matched <= matched
  BY <1>2 DEF Outcome, Settles, SameSearch
<1>4. CASE i # Watched
  <2>1. TheSearch' = TheSearch
    BY <1>3, <1>4, WatchedFacts DEF TypeOK, TheSearch
  <2>2. TheSearch.matched \in Nat
    BY WatchedFacts, SearchConstants
  <2> QED BY <1>3, <2>1, <2>2 DEF Moves, StateFits
<1>5. CASE i = Watched
  <2>1. TheSearch' = [job EXCEPT !.state = state, !.scanned = scanned, !.matched = matched]
    BY <1>3, <1>5 DEF TypeOK, TheSearch
  <2>2. /\ TheSearch'.family = TheSearch.family /\ TheSearch'.matched = matched
        /\ TheSearch'.state = state
    <3>1. /\ TheSearch'.family = job.family /\ TheSearch'.matched = matched
          /\ TheSearch'.state = state
      BY <2>1 DEF Job
    <3>2. job.family = TheSearch.family
      BY <1>3, <1>5 DEF TheSearch
    <3> QED BY <3>1, <3>2
  <2>3. TheSearch'.matched >= TheSearch.matched
    BY <1>3, <1>5, <2>2, WatchedFacts, SearchConstants DEF TheSearch
  <2>4. CASE Watched \in live
    <3>1. task[i] # "cancelling"
      BY <1>5, <2>4 DEF ScansFollowJobs, StateFits, TheSearch
    <3>2. TheSearch'.state \in {"running", "failed", "done"}
      BY <1>5, <3>1, LegStates DEF TheSearch
    <3>3. task[i] \in {"ready", "paused"}
      BY <1>2, <3>1 DEF Outcome
    <3>4. TheSearch.state \notin Finished
      BY <1>5, <2>4, <3>3 DEF ScansFollowJobs, TheSearch, Finished
    <3> QED BY <1>3, <2>2, <2>3, <2>4, <3>2, <3>4 DEF Moves
  <2>5. CASE Watched \notin live
    <3>1. task[i] \notin {"ready", "paused"}
      BY <1>5, <2>5 DEF ScansFollowJobs
    <3>2. task[i] = "cancelling" /\ state = "cancelled" /\ matched = jobs[i].matched
      BY <1>2, <3>1 DEF Outcome
    <3>3. TheSearch.state = "cancelled"
      BY <1>5, <3>2 DEF ScansFollowJobs, TheSearch
    <3>4. TheSearch'.state = TheSearch.state /\ TheSearch'.matched = TheSearch.matched
      BY <1>5, <2>2, <3>2, <3>3 DEF TheSearch
    <3> QED BY <1>3, <2>2, <2>3, <2>5, <3>3, <3>4 DEF Moves, Finished
  <2> QED BY <2>4, <2>5
<1> QED BY <1>4, <1>5

\* What the service may do while a screen watches.
Serves ==
  \/ Tick \/ Reap \/ \E i \in Ids : Scan(i)
  \/ Get(Reader, Watched) \/ GetMissing(Reader, Watched)
  \/ Delete(Reader, Watched) \/ DeleteMissing(Reader, Watched)

LEMMA ServingMoves ==
  ASSUME IInv, StateFits, Started, Serves
  PROVE  Moves
<1>1. Watched \in Ids /\ Reader \in Families
  BY WatchedFacts, ScreenConstants
<1>2. CASE \E i \in Ids : Scan(i)
  BY <1>2, ScanMoves
<1>3. CASE ~\E i \in Ids : Scan(i)
  <2>1. Tick \/ Reaps \/ Gets \/ Deletes
    BY <1>1, <1>3 DEF Serves, Gets, Deletes, GetMissing, DeleteMissing, Reap, Reaps, Purges, LookedUp
  <2>2. PICK S \in SUBSET live : Retires(S)
    BY <2>1, QuietSteps
  <2> QED BY <2>2, RetiredMoves
<1> QED BY <1>2, <1>3

\* Before a search is started there is nothing to serve.
LEMMA NothingToServe ==
  ASSUME IInv, ~Started, Serves
  PROVE  counter' = counter /\ TheSearch' = TheSearch
<1> USE DEF IInv
<1>1. /\ Watched \in Ids /\ Reader \in Families /\ live = {} /\ \A i \in Ids : i > counter
  BY WatchedFacts, ScreenConstants DEF Ids
<1>2. ASSUME NEW i \in Ids PROVE ~Scan(i)
  <2>1. jobs[i].state = "unborn"
    BY <1>1 DEF IdsNeverReused
  <2>2. task[i] = "none"
    BY <1>1, <2>1 DEF ScansFollowJobs
  <2> QED BY <2>2 DEF Scan, TaskStart, TaskStep, TaskDone, TaskCancelled
<1>3. Idle = {} /\ Kept = {}
  BY <1>1 DEF Idle, Kept
<1>4. AbortJobs({}) = jobs
  BY DEF AbortJobs, TypeOK
<1>5. CASE Tick
  BY <1>1, <1>5 DEF Tick, TypeOK, TheSearch
<1>6. CASE Reap
  BY <1>3, <1>4, <1>6 DEF Reap, TheSearch
<1>7. ~Get(Reader, Watched) /\ ~Delete(Reader, Watched)
  BY <1>3 DEF Get, Delete, Visible
<1> QED BY <1>2, <1>5, <1>6, <1>7 DEF Serves, GetMissing, DeleteMissing

\* Running a search creates the one the screen watches.
LEMMA RunStarts ==
  ASSUME IInv, Run
  PROVE  /\ ~Started /\ counter' = Watched /\ Watched \in live'
         /\ TheSearch'.family = Reader /\ TheSearch'.state = "queued" /\ TheSearch'.matched = 0
         /\ screen' = screen
<1> USE DEF IInv
<1>1. PICK b \in Bodies, failing \in ScanFaults : Create(Reader, NoKey, b, failing)
  BY DEF Run
<1>2. ~Started /\ counter = 0 /\ Reader \in Families /\ screen' = screen
  BY WatchedFacts, ScreenConstants DEF Run
<1>3. PICK new : new = counter + 1
  OBVIOUS
<1>4. new = Watched /\ Watched \in Ids
  BY <1>2, <1>3, WatchedFacts DEF Watched
<1>5. /\ counter' = new /\ live' = Kept \cup {new}
      /\ jobs' = [AbortJobs(Idle) EXCEPT ![new] = NewJob(Reader, NoKey, b, failing)]
  BY <1>1, <1>3 DEF Create
<1>6. jobs'[Watched] = NewJob(Reader, NoKey, b, failing)
  BY <1>4, <1>5, AbortJobsType DEF TypeOK
<1>7. /\ NewJob(Reader, NoKey, b, failing).family = Reader
      /\ NewJob(Reader, NoKey, b, failing).state = "queued"
      /\ NewJob(Reader, NoKey, b, failing).matched = 0
  BY DEF NewJob, Unborn
<1> QED BY <1>2, <1>4, <1>5, <1>6, <1>7 DEF TheSearch

\* The place after a page, and what a page says of the search it is a page of.
EndOf(page) == OffsetOf(page.at) + page.rows

Truthful(page, job) ==
  /\ EndOf(page) <= job.matched
  /\ page.complete => job.state \in Finished /\ EndOf(page) = job.matched /\ ~page.more

Final(list) == list[Len(list)]

\* A list without a hole, and where its next page starts.
GoodList(list, job) ==
  /\ list # << >> => list[1].at = NoCursor
  /\ \A n \in 1..Len(list) : Truthful(list[n], job)
  /\ \A n \in 1..(Len(list) - 1) : list[n + 1].at = NextCursor(list[n])

LeadsOn(list, at) == at = IF list = << >> THEN NoCursor ELSE NextCursor(Final(list))

LEMMA CursorFacts ==
  ASSUME NEW c \in Cursor
  PROVE  OffsetOf(c) \in 0..MaxTotal /\ OffsetOf(c) \in Nat
<1>1. CASE c = NoCursor
  BY <1>1, SearchConstants DEF OffsetOf
<1>2. CASE c # NoCursor
  BY <1>2, SearchConstants DEF OffsetOf, Cursor
<1> QED BY <1>1, <1>2

LEMMA PageFacts ==
  ASSUME NEW page \in Page
  PROVE  /\ page.at \in Cursor /\ page.order \in Orders
         /\ page.rows \in 0..PageSize /\ page.rows \in Nat
         /\ page.more \in BOOLEAN /\ page.complete \in BOOLEAN
         /\ OffsetOf(page.at) \in Nat /\ EndOf(page) \in Nat
<1>1. /\ page.at \in Cursor /\ page.order \in Orders /\ page.rows \in 0..PageSize
      /\ page.more \in BOOLEAN /\ page.complete \in BOOLEAN
  BY DEF Page
<1>2. page.rows \in Nat /\ OffsetOf(page.at) \in Nat
  BY <1>1, CursorFacts, ScreenConstants
<1> QED BY <1>1, <1>2 DEF EndOf

LEMMA NextCursorFacts ==
  ASSUME NEW page \in Page, EndOf(page) <= MaxTotal
  PROVE  NextCursor(page) \in Cursor /\ OffsetOf(NextCursor(page)) = EndOf(page)
<1>1. PICK end : end = EndOf(page)
  OBVIOUS
<1>2. NextCursor(page) = [order |-> page.order, offset |-> end]
  BY <1>1 DEF NextCursor, EndOf
<1>3. page.order \in Orders /\ end \in 0..MaxTotal
  BY <1>1, PageFacts, SearchConstants
<1>4. NextCursor(page) = NoCursor => end = 0
  BY <1>2 DEF NoCursor
<1>5. NextCursor(page).offset = end
  BY <1>2
<1> QED BY <1>1, <1>2, <1>3, <1>4, <1>5 DEF Cursor, OffsetOf

\* The page the service makes.
LEMMA PageOfFacts ==
  ASSUME NEW job \in Job, NEW at \in Cursor, NEW order \in Orders, OffsetOf(at) <= job.matched
  PROVE  /\ PageOf(job, at, order) \in Page /\ Truthful(PageOf(job, at, order), job)
         /\ PageOf(job, at, order).at = at
         /\ \A n \in 0..PageSize : OffsetOf(at) + n <= job.matched => n <= PageOf(job, at, order).rows
<1>1. PICK left : left = job.matched - OffsetOf(at)
  OBVIOUS
<1>2. PICK rows : rows = IF left < PageSize THEN left ELSE PageSize
  OBVIOUS
<1>3. PICK page : page = PageOf(job, at, order)
  OBVIOUS
<1>4. page = [at |-> at, order |-> order, rows |-> rows, more |-> rows < left,
              complete |-> job.state \in Finished /\ ~(rows < left)]
  BY <1>1, <1>2, <1>3 DEF PageOf
<1>5. job.matched \in Nat /\ OffsetOf(at) \in Nat /\ PageSize \in Nat
  BY CursorFacts, SearchConstants, ScreenConstants DEF Job
<1>6. left \in Nat /\ rows \in 0..PageSize /\ rows <= left
  BY <1>1, <1>2, <1>5
<1>7. page \in Page
  BY <1>4, <1>6 DEF Page
<1>8. page.at = at /\ page.rows = rows /\ (page.complete <=> job.state \in Finished /\ ~(rows < left))
      /\ (page.more <=> rows < left)
  BY <1>4
<1>9. EndOf(page) = OffsetOf(at) + rows
  BY <1>8 DEF EndOf
<1>10. EndOf(page) <= job.matched /\ (~(rows < left) => EndOf(page) = job.matched)
  BY <1>1, <1>5, <1>6, <1>9
<1>11. Truthful(page, job)
  BY <1>8, <1>10 DEF Truthful
<1>12. \A n \in 0..PageSize : OffsetOf(at) + n <= job.matched => n <= rows
  BY <1>1, <1>2, <1>5
<1> QED BY <1>3, <1>7, <1>8, <1>11, <1>12

LEMMA ReadCallFacts ==
  ASSUME NEW c \in ReadCall
  PROVE  /\ c # NoCall => c.phase \in {"sent", "answered", "refused"}
         /\ c = NoCall => c.phase = "none"
         /\ c.phase = "sent" => c.at \in Cursor /\ c.order \in Orders
         /\ c.phase = "answered" => c.page \in Page
BY DEF ReadCall, NoCall

\* What the service answers a read.
LEMMA ResultsFacts ==
  ASSUME NEW job \in Job, NEW at \in Cursor, NEW order \in Orders, OffsetOf(at) <= job.matched
  PROVE  /\ ResultsAnswer(job, at, order) \in ReadCall
         /\ ResultsAnswer(job, at, order).phase \in {"answered", "refused"}
         /\ ResultsAnswer(job, at, order).phase = "answered" =>
              ResultsAnswer(job, at, order).page = PageOf(job, at, order)
<1>1. PICK page : page = PageOf(job, at, order)
  OBVIOUS
<1>2. page \in Page
  BY <1>1, PageOfFacts
<1>3. PICK answer : answer = ResultsAnswer(job, at, order)
  OBVIOUS
<1>4. \/ answer = [phase |-> "refused", code |-> 409]
      \/ answer = [phase |-> "refused", code |-> 400]
      \/ answer = [phase |-> "answered", page |-> page]
  BY <1>1, <1>3 DEF ResultsAnswer
<1>5. answer \in ReadCall
  BY <1>2, <1>4 DEF ReadCall
<1>6. answer.phase \in {"answered", "refused"} /\ (answer.phase = "answered" => answer.page = page)
  BY <1>4
<1> QED BY <1>1, <1>3, <1>5, <1>6

LEMMA ReadAnswered ==
  ASSUME NEW c, c.at \in Cursor, c.order \in Orders, TheSearch' \in Job,
         OffsetOf(c.at) <= TheSearch'.matched
  PROVE  /\ ReadAnswer(c) \in ReadCall /\ ReadAnswer(c).phase \in {"answered", "refused"}
         /\ ReadAnswer(c).phase = "answered" => ReadAnswer(c).page = PageOf(TheSearch', c.at, c.order)
<1>1. PICK answer : answer = ReadAnswer(c)
  OBVIOUS
<1>2. CASE Watched \in live'
  BY <1>2, ResultsFacts DEF ReadAnswer, TheSearch
<1>3. CASE Watched \notin live'
  <2>1. PICK code : code = GoneCode
    OBVIOUS
  <2>2. code \in 400..410
    BY <2>1 DEF GoneCode
  <2>3. answer = [phase |-> "refused", code |-> code]
    BY <1>1, <1>3, <2>1 DEF ReadAnswer
  <2>4. answer \in ReadCall
    BY <2>2, <2>3 DEF ReadCall
  <2> QED BY <1>1, <2>3, <2>4
<1> QED BY <1>2, <1>3

-----------------------------------------------------------------------------
(* Lists of pages.                                                         *)

LEMMA ListFacts ==
  ASSUME NEW list \in Seq(Page)
  PROVE  /\ Len(list) \in Nat /\ \A n \in 1..Len(list) : list[n] \in Page
         /\ list # << >> => Len(list) \in 1..Len(list) /\ Len(list) # 0 /\ Final(list) \in Page
         /\ list = << >> => Len(list) = 0
<1>1. Len(list) \in Nat /\ \A n \in 1..Len(list) : list[n] \in Page
  OBVIOUS
<1>2. list # << >> => Len(list) \in 1..Len(list) /\ Len(list) # 0
  OBVIOUS
<1> QED BY <1>1, <1>2 DEF Final

LEMMA AppendGood ==
  ASSUME NEW job, NEW list \in Seq(Page), NEW page \in Page,
         GoodList(list, job), LeadsOn(list, page.at), Truthful(page, job)
  PROVE  /\ Append(list, page) \in Seq(Page) /\ GoodList(Append(list, page), job)
         /\ Append(list, page) # << >> /\ Final(Append(list, page)) = page
<1>1. PICK longer : longer = Append(list, page)
  OBVIOUS
<1>2. /\ longer \in Seq(Page) /\ Len(longer) = Len(list) + 1 /\ Len(list) \in Nat
      /\ \A n \in 1..Len(longer) : longer[n] = IF n = Len(longer) THEN page ELSE list[n]
      /\ longer # << >>
  BY <1>1
<1>3. Final(longer) = page
  BY <1>2 DEF Final
<1>4. longer[1].at = NoCursor
  <2>1. CASE list = << >>
    <3>1. Len(longer) = 1 /\ longer[1] = page
      BY <1>2, <2>1, ListFacts
    <3> QED BY <2>1, <3>1 DEF LeadsOn
  <2>2. CASE list # << >>
    <3>1. longer[1] = list[1]
      BY <1>2, <2>2, ListFacts
    <3> QED BY <2>2, <3>1 DEF GoodList
  <2> QED BY <2>1, <2>2
<1>5. \A n \in 1..Len(longer) : Truthful(longer[n], job)
  <2> TAKE n \in 1..Len(longer)
  <2>1. CASE n = Len(longer)
    BY <1>2, <2>1
  <2>2. CASE n # Len(longer)
    <3>1. n \in 1..Len(list) /\ longer[n] = list[n]
      BY <1>2, <2>2
    <3> QED BY <3>1 DEF GoodList
  <2> QED BY <2>1, <2>2
<1>6. \A n \in 1..(Len(longer) - 1) : longer[n + 1].at = NextCursor(longer[n])
  <2> TAKE n \in 1..(Len(longer) - 1)
  <2>1. n \in 1..Len(list) /\ longer[n] = list[n]
    BY <1>2
  <2>2. CASE n = Len(list)
    <3>1. longer[n + 1] = page /\ list # << >> /\ longer[n] = Final(list)
      BY <1>2, <2>1, <2>2, ListFacts DEF Final
    <3> QED BY <3>1 DEF LeadsOn
  <2>3. CASE n # Len(list)
    <3>1. n \in 1..(Len(list) - 1) /\ longer[n + 1] = list[n + 1]
      BY <1>2, <2>1, <2>3
    <3> QED BY <2>1, <3>1 DEF GoodList
  <2> QED BY <2>2, <2>3
<1> QED BY <1>1, <1>2, <1>3, <1>4, <1>5, <1>6 DEF GoodList

LEMMA ReplaceGood ==
  ASSUME NEW job, NEW list \in Seq(Page), NEW page \in Page,
         list # << >>, GoodList(list, job), page.at = Final(list).at, Truthful(page, job)
  PROVE  /\ [list EXCEPT ![Len(list)] = page] \in Seq(Page)
         /\ GoodList([list EXCEPT ![Len(list)] = page], job)
         /\ [list EXCEPT ![Len(list)] = page] # << >>
         /\ Final([list EXCEPT ![Len(list)] = page]) = page
<1>1. PICK fresh : fresh = [list EXCEPT ![Len(list)] = page]
  OBVIOUS
<1>2. Len(list) \in Nat /\ Len(list) \in 1..Len(list)
  BY ListFacts
<1>3. /\ fresh \in Seq(Page) /\ Len(fresh) = Len(list)
      /\ \A n \in 1..Len(list) : fresh[n] = IF n = Len(list) THEN page ELSE list[n]
  BY <1>1, <1>2
<1>4. fresh # << >> /\ Final(fresh) = page
  BY <1>2, <1>3 DEF Final
<1>5. \A n \in 1..Len(list) : fresh[n].at = list[n].at
  BY <1>3 DEF Final
<1>6. fresh[1].at = NoCursor
  BY <1>2, <1>5 DEF GoodList
<1>7. \A n \in 1..Len(fresh) : Truthful(fresh[n], job)
  BY <1>3 DEF GoodList
<1>8. \A n \in 1..(Len(fresh) - 1) : fresh[n + 1].at = NextCursor(fresh[n])
  <2> TAKE n \in 1..(Len(fresh) - 1)
  <2>1. /\ n \in 1..(Len(list) - 1) /\ n \in 1..Len(list) /\ n + 1 \in 1..Len(list)
        /\ n # Len(list)
    BY <1>2, <1>3
  <2>2. fresh[n] = list[n] /\ fresh[n + 1].at = list[n + 1].at
    BY <1>3, <1>5, <2>1
  <2> QED BY <2>1, <2>2 DEF GoodList
<1> QED BY <1>1, <1>3, <1>4, <1>6, <1>7, <1>8 DEF GoodList

-----------------------------------------------------------------------------
(* The inductive invariant of the results screen.                          *)

\* A screen that started nothing shows nothing and waits for nothing.
Blank ==
  ~Started =>
    /\ status = "unknown" /\ statusCall = NoCall
    /\ pageCall = NoCall /\ tailCall = NoCall /\ cancelCall = NoCall
    /\ \A o \in Orders : pages[o] = << >>

OneSearch ==
  /\ counter <= Watched
  /\ IF Started THEN TheSearch.family = Reader /\ StateFits ELSE TheSearch.matched = 0

\* A word on how the search goes, and whether it still holds.
TellsTrue(word, job, there) ==
  /\ word \in Finished => job.state \in Finished
  /\ word = "cancelled" => Watched \notin there

TruthIsTold ==
  /\ TellsTrue(status, TheSearch, live)
  /\ statusCall.phase = "answered" => TellsTrue(statusCall.status, TheSearch, live)
  /\ cancelCall.phase = "answered" => Watched \notin live

ListsAreGood == \A o \in Orders : GoodList(pages[o], TheSearch)

\* A page that is read goes on where the list ends.
PageFits(c, list, job) ==
  c # NoCall =>
    /\ list = << >> \/ Final(list).more
    /\ c.phase = "sent" => LeadsOn(list, c.at) /\ OffsetOf(c.at) <= job.matched
    /\ c.phase = "answered" => LeadsOn(list, c.page.at) /\ Truthful(c.page, job)

\* The tail reads the last page again, and finds no less in it.
TailFits(c, list, job) ==
  c # NoCall =>
    /\ list # << >> /\ ~Final(list).more /\ ~Final(list).complete
    /\ c.phase = "sent" => c.at = Final(list).at
    /\ c.phase = "answered" =>
         c.page.at = Final(list).at /\ c.page.rows >= Final(list).rows /\ Truthful(c.page, job)

ReadsFit ==
  /\ ListsAreGood
  /\ PageFits(pageCall, pages[sort], TheSearch)
  /\ TailFits(tailCall, pages[sort], TheSearch)

ScreenInv ==
  /\ ScreenTypeOK
  /\ Blank
  /\ OneSearch
  /\ TruthIsTold
  /\ ReadsFit

\* What every step does to the search, and what every step but the first does.
Grows ==
  /\ TheSearch' \in Job /\ TheSearch'.matched \in Nat
  /\ TheSearch'.matched >= TheSearch.matched
  /\ TheSearch.state \in Finished =>
       TheSearch'.matched = TheSearch.matched /\ TheSearch'.state \in Finished

LEMMA GoodGrows ==
  ASSUME IInv, Grows, NEW page \in Page, Truthful(page, TheSearch)
  PROVE  Truthful(page, TheSearch')
<1>1. EndOf(page) \in Nat /\ TheSearch.matched \in Nat
  BY PageFacts, WatchedFacts, SearchConstants
<1>2. EndOf(page) <= TheSearch.matched /\ TheSearch'.matched >= TheSearch.matched /\ TheSearch'.matched \in Nat
  BY DEF Truthful, Grows
<1>3. EndOf(page) <= TheSearch'.matched
  BY <1>1, <1>2
<1> QED BY <1>3 DEF Truthful, Grows

LEMMA ListGrows ==
  ASSUME IInv, Grows, NEW list \in Seq(Page), GoodList(list, TheSearch)
  PROVE  GoodList(list, TheSearch')
<1>1. \A n \in 1..Len(list) : list[n] \in Page /\ Truthful(list[n], TheSearch)
  BY ListFacts DEF GoodList
<1>2. \A n \in 1..Len(list) : Truthful(list[n], TheSearch')
  BY <1>1, GoodGrows
<1> QED BY <1>2 DEF GoodList

LEMMA PageFitsStill ==
  ASSUME IInv, Grows, NEW c \in ReadCall, NEW list, PageFits(c, list, TheSearch)
  PROVE  PageFits(c, list, TheSearch') /\ PageFits(NoCall, list, TheSearch')
<1>1. ASSUME c # NoCall, c.phase = "sent"
      PROVE  LeadsOn(list, c.at) /\ OffsetOf(c.at) <= TheSearch'.matched
  <2>1. OffsetOf(c.at) \in Nat /\ TheSearch.matched \in Nat
    BY <1>1, ReadCallFacts, CursorFacts, WatchedFacts, SearchConstants
  <2>2. LeadsOn(list, c.at) /\ OffsetOf(c.at) <= TheSearch.matched
    BY <1>1 DEF PageFits
  <2> QED BY <2>1, <2>2 DEF Grows
<1>2. ASSUME c # NoCall, c.phase = "answered"
      PROVE  LeadsOn(list, c.page.at) /\ Truthful(c.page, TheSearch')
  <2>1. c.page \in Page /\ LeadsOn(list, c.page.at) /\ Truthful(c.page, TheSearch)
    BY <1>2, ReadCallFacts DEF PageFits
  <2> QED BY <2>1, GoodGrows
<1> QED BY <1>1, <1>2 DEF PageFits

LEMMA TailFitsStill ==
  ASSUME IInv, Grows, NEW c \in ReadCall, NEW list, TailFits(c, list, TheSearch)
  PROVE  TailFits(c, list, TheSearch') /\ TailFits(NoCall, list, TheSearch')
<1>1. ASSUME c # NoCall, c.phase = "answered"
      PROVE  /\ c.page.at = Final(list).at /\ c.page.rows >= Final(list).rows
             /\ Truthful(c.page, TheSearch')
  <2>1. c.page \in Page /\ c.page.at = Final(list).at /\ c.page.rows >= Final(list).rows /\ Truthful(c.page, TheSearch)
    BY <1>1, ReadCallFacts DEF TailFits
  <2> QED BY <2>1, GoodGrows
<1> QED BY <1>1 DEF TailFits

LEMMA ScreenTypes ==
  ASSUME ScreenTypeOK
  PROVE  /\ sort \in Orders /\ pages[sort] \in Seq(Page) /\ \A o \in Orders : pages[o] \in Seq(Page)
         /\ pageCall \in ReadCall /\ tailCall \in ReadCall
BY DEF ScreenTypeOK

\* Reads that are left alone, or dropped, fit the lists that are left alone.
LEMMA ReadsFitStill ==
  ASSUME IInv, Grows, ScreenTypeOK, ReadsFit, pages' = pages,
         \/ sort' = sort /\ pageCall' \in {pageCall, NoCall} /\ tailCall' \in {tailCall, NoCall}
         \/ pageCall' = NoCall /\ tailCall' = NoCall
  PROVE  ReadsFit'
<1>1. ListsAreGood'
  BY ListGrows, ScreenTypes DEF ReadsFit, ListsAreGood
<1>2. CASE pageCall' = NoCall /\ tailCall' = NoCall
  BY <1>1, <1>2 DEF ReadsFit, PageFits, TailFits
<1>3. CASE sort' = sort /\ pageCall' \in {pageCall, NoCall} /\ tailCall' \in {tailCall, NoCall}
  <2>1. PageFits(pageCall, pages[sort], TheSearch') /\ PageFits(NoCall, pages[sort], TheSearch')
    BY ScreenTypes, PageFitsStill DEF ReadsFit
  <2>2. TailFits(tailCall, pages[sort], TheSearch') /\ TailFits(NoCall, pages[sort], TheSearch')
    BY ScreenTypes, TailFitsStill DEF ReadsFit
  <2>3. PageFits(pageCall', pages[sort], TheSearch')
    BY <1>3, <2>1
  <2>4. TailFits(tailCall', pages[sort], TheSearch')
    BY <1>3, <2>2
  <2>5. pages[sort] = pages'[sort']
    BY <1>3
  <2> QED BY <1>1, <2>3, <2>4, <2>5 DEF ReadsFit
<1> QED BY <1>2, <1>3

-----------------------------------------------------------------------------
(* The reads.                                                              *)

LEMMA BothNeverOut ==
  ASSUME ReadsFit PROVE pageCall = NoCall \/ tailCall = NoCall
BY DEF ReadsFit, PageFits, TailFits

LEMMA AskPageFits ==
  ASSUME IInv, ScreenTypeOK, ReadsFit, AskPage
  PROVE  ReadsFit' /\ pageCall' \in ReadCall
<1> DEFINE list == pages[sort]
<1>1. /\ pageCall = NoCall /\ UNCHANGED <<vars, sort, pages, tailCall>>
      /\ list # << >> => Final(list).more
      /\ \E order \in Orders : \E at :
           LeadsOn(list, at) /\ pageCall' = [phase |-> "sent", at |-> at, order |-> order]
  <2>1. PICK order : order = AskedOrder
    OBVIOUS
  <2>2. order \in Orders
    BY <2>1, ScreenConstants, ScreenTypes DEF AskedOrder
  <2>3. pageCall = NoCall /\ UNCHANGED <<vars, sort, pages, tailCall>>
    BY DEF AskPage
  <2>4. \/ /\ list = << >>
           /\ pageCall' = [phase |-> "sent", at |-> NoCursor, order |-> order]
        \/ /\ list # << >> /\ Final(list).more
           /\ pageCall' = [phase |-> "sent", at |-> NextCursor(Final(list)), order |-> order]
    BY <2>1 DEF AskPage, LastPage, Final
  <2> QED BY <2>2, <2>3, <2>4 DEF LeadsOn
<1>2. PICK order \in Orders :
        \E at : LeadsOn(list, at) /\ pageCall' = [phase |-> "sent", at |-> at, order |-> order]
  BY <1>1
<1>3. PICK at : LeadsOn(list, at) /\ pageCall' = [phase |-> "sent", at |-> at, order |-> order]
  BY <1>2
<1>4. TheSearch' = TheSearch /\ TheSearch.matched \in 0..MaxTotal /\ MaxTotal \in Nat
  BY <1>1, WatchedFacts, SearchConstants DEF vars, TheSearch
<1>5. list \in Seq(Page) /\ GoodList(list, TheSearch)
  BY ScreenTypes DEF ReadsFit, ListsAreGood
<1> HIDE DEF list
<1>6. at \in Cursor /\ OffsetOf(at) <= TheSearch.matched
  <2>1. CASE list = << >>
    <3>1. at = NoCursor
      BY <1>3, <2>1 DEF LeadsOn
    <3> QED BY <1>4, <3>1 DEF Cursor, OffsetOf
  <2>2. CASE list # << >>
    <3>1. at = NextCursor(Final(list)) /\ Final(list) \in Page /\ Len(list) \in 1..Len(list)
      BY <1>3, <1>5, <2>2, ListFacts DEF LeadsOn
    <3>2. EndOf(Final(list)) <= TheSearch.matched
      BY <1>5, <3>1 DEF GoodList, Truthful, Final
    <3>3. EndOf(Final(list)) <= MaxTotal
      BY <1>4, <3>1, <3>2, PageFacts
    <3> QED BY <3>1, <3>2, <3>3, NextCursorFacts
  <2> QED BY <2>1, <2>2
<1>7. pageCall' \in ReadCall /\ pageCall'.phase = "sent" /\ pageCall'.at = at
  BY <1>3, <1>6 DEF ReadCall
<1>8. PageFits(pageCall', list, TheSearch')
  BY <1>1, <1>3, <1>4, <1>6, <1>7 DEF PageFits
<1>9. tailCall' = tailCall /\ sort' = sort /\ pages' = pages
  BY <1>1
<1> QED BY <1>4, <1>7, <1>8, <1>9 DEF ReadsFit, ListsAreGood, list

LEMMA AskTailFits ==
  ASSUME IInv, ScreenTypeOK, ReadsFit, AskTail
  PROVE  ReadsFit' /\ tailCall' \in ReadCall
<1> DEFINE list == pages[sort]
<1>1. /\ tailCall = NoCall /\ UNCHANGED <<vars, sort, pages, pageCall>>
      /\ list # << >> /\ ~Final(list).more /\ ~Final(list).complete
  BY DEF AskTail, CaughtUp, LastPage, Final
<1>2. PICK order : order = AskedOrder
  OBVIOUS
<1>3. order \in Orders
  BY <1>2, ScreenConstants, ScreenTypes DEF AskedOrder
<1>4. tailCall' = [phase |-> "sent", at |-> Final(list).at, order |-> order]
  BY <1>2 DEF AskTail, LastPage, Final
<1>5. TheSearch' = TheSearch
  BY <1>1 DEF vars, TheSearch
<1>6. Final(list).at \in Cursor
  BY <1>1, ScreenTypes, ListFacts, PageFacts
<1> HIDE DEF list
<1>7. tailCall' \in ReadCall /\ tailCall'.phase = "sent" /\ tailCall'.at = Final(list).at
  BY <1>3, <1>4, <1>6 DEF ReadCall
<1>8. TailFits(tailCall', list, TheSearch')
  BY <1>1, <1>7 DEF TailFits
<1>9. pageCall' = pageCall /\ sort' = sort /\ pages' = pages
  BY <1>1
<1> QED BY <1>5, <1>7, <1>8, <1>9 DEF ReadsFit, ListsAreGood, list

\* The service answers from a search that has only grown since it was asked.
LEMMA ServePageFits ==
  ASSUME IInv, Grows, ScreenTypeOK, ReadsFit, ServePage
  PROVE  ReadsFit' /\ pageCall' \in ReadCall
<1> DEFINE list == pages[sort]
<1>1. pageCall.phase = "sent" /\ UNCHANGED <<sort, pages, tailCall>> /\ pageCall' = ReadAnswer(pageCall)
  BY DEF ServePage
<1>2. pageCall \in ReadCall /\ pageCall # NoCall
  BY <1>1, ScreenTypes, ReadCallFacts
<1>3. PICK c : c = pageCall
  OBVIOUS
<1>4. c.at \in Cursor /\ c.order \in Orders
  BY <1>1, <1>2, <1>3, ReadCallFacts
<1>5. PageFits(c, list, TheSearch')
  BY <1>2, <1>3, PageFitsStill DEF ReadsFit
<1>6. LeadsOn(list, c.at) /\ OffsetOf(c.at) <= TheSearch'.matched /\ (list = << >> \/ Final(list).more)
  BY <1>1, <1>2, <1>3, <1>5 DEF PageFits
<1>7. TheSearch' \in Job
  BY DEF Grows
<1>8. /\ ReadAnswer(c) \in ReadCall /\ ReadAnswer(c).phase \in {"answered", "refused"}
      /\ ReadAnswer(c).phase = "answered" => ReadAnswer(c).page = PageOf(TheSearch', c.at, c.order)
  BY <1>4, <1>6, <1>7, ReadAnswered
<1>9. PICK page : page = PageOf(TheSearch', c.at, c.order)
  OBVIOUS
<1>10. Truthful(page, TheSearch') /\ page.at = c.at
  BY <1>4, <1>6, <1>7, <1>9, PageOfFacts
<1>11. pageCall' = ReadAnswer(c)
  BY <1>1, <1>3
<1> HIDE DEF list
<1>12. PageFits(pageCall', list, TheSearch')
  <2>1. pageCall'.phase \in {"answered", "refused"} /\ (pageCall'.phase = "answered" => pageCall'.page = page)
    BY <1>8, <1>9, <1>11
  <2> QED BY <1>6, <1>10, <2>1 DEF PageFits
<1>13. TailFits(tailCall, list, TheSearch')
  BY ScreenTypes, TailFitsStill DEF ReadsFit, list
<1>14. ListsAreGood'
  BY <1>1, ListGrows, ScreenTypes DEF ReadsFit, ListsAreGood
<1>15. tailCall' = tailCall /\ pages'[sort'] = list
  BY <1>1 DEF list
<1> QED BY <1>8, <1>11, <1>12, <1>13, <1>14, <1>15 DEF ReadsFit

LEMMA ServeTailFits ==
  ASSUME IInv, Grows, ScreenTypeOK, ReadsFit, ServeTail
  PROVE  ReadsFit' /\ tailCall' \in ReadCall
<1> DEFINE list == pages[sort]
           last == Final(list)
<1>1. tailCall.phase = "sent" /\ UNCHANGED <<sort, pages, pageCall>> /\ tailCall' = ReadAnswer(tailCall)
  BY DEF ServeTail
<1>2. tailCall \in ReadCall /\ tailCall # NoCall
  BY <1>1, ScreenTypes, ReadCallFacts
<1>3. PICK c : c = tailCall
  OBVIOUS
<1>4. c.at \in Cursor /\ c.order \in Orders
  BY <1>1, <1>2, <1>3, ReadCallFacts
<1>5. list # << >> /\ ~last.more /\ ~last.complete /\ c.at = last.at
  BY <1>1, <1>2, <1>3 DEF ReadsFit, TailFits
<1>6. /\ last \in Page /\ GoodList(list, TheSearch) /\ list \in Seq(Page)
      /\ last.rows \in 0..PageSize /\ EndOf(last) \in Nat /\ OffsetOf(last.at) \in Nat
  BY <1>5, ScreenTypes, ListFacts, PageFacts DEF ReadsFit, ListsAreGood
<1>7. Truthful(last, TheSearch)
  BY <1>5, <1>6, ListFacts DEF GoodList, Final
<1>8. EndOf(last) <= TheSearch'.matched
  BY <1>6, <1>7, GoodGrows DEF Truthful
<1>9. TheSearch' \in Job /\ TheSearch'.matched \in Nat
  BY DEF Grows
<1> HIDE DEF last, list
<1>10. OffsetOf(c.at) + last.rows <= TheSearch'.matched /\ OffsetOf(c.at) <= TheSearch'.matched
  <2>1. OffsetOf(c.at) + last.rows = EndOf(last)
    BY <1>5 DEF EndOf
  <2> QED BY <1>5, <1>6, <1>8, <1>9, <2>1, ScreenConstants
<1>11. /\ ReadAnswer(c) \in ReadCall /\ ReadAnswer(c).phase \in {"answered", "refused"}
       /\ ReadAnswer(c).phase = "answered" => ReadAnswer(c).page = PageOf(TheSearch', c.at, c.order)
  BY <1>4, <1>9, <1>10, ReadAnswered
<1>12. PICK page : page = PageOf(TheSearch', c.at, c.order)
  OBVIOUS
<1>13. Truthful(page, TheSearch') /\ page.at = c.at /\ last.rows <= page.rows /\ page \in Page
  BY <1>4, <1>6, <1>9, <1>10, <1>12, PageOfFacts
<1>14. page.rows >= last.rows
  BY <1>6, <1>13, PageFacts, ScreenConstants
<1>15. tailCall' = ReadAnswer(c)
  BY <1>1, <1>3
<1>16. TailFits(tailCall', list, TheSearch')
  <2>1. tailCall'.phase \in {"answered", "refused"} /\ (tailCall'.phase = "answered" => tailCall'.page = page)
    BY <1>11, <1>12, <1>15
  <2> QED BY <1>5, <1>13, <1>14, <2>1 DEF TailFits, last
<1>17. PageFits(pageCall, list, TheSearch')
  BY ScreenTypes, PageFitsStill DEF ReadsFit, list
<1>18. ListsAreGood'
  BY <1>1, ListGrows, ScreenTypes DEF ReadsFit, ListsAreGood
<1>19. pageCall' = pageCall /\ pages'[sort'] = list
  BY <1>1 DEF list
<1> QED BY <1>11, <1>15, <1>16, <1>17, <1>18, <1>19 DEF ReadsFit

\* A list with another in its place.
LEMMA ListsWritten ==
  ASSUME ScreenTypeOK, ListsAreGood, NEW list \in Seq(Page), GoodList(list, TheSearch),
         pages' = [pages EXCEPT ![sort] = list], TheSearch' = TheSearch
  PROVE  ListsAreGood' /\ pages' \in [Orders -> Seq(Page)]
<1>1. pages \in [Orders -> Seq(Page)] /\ sort \in Orders
  BY DEF ScreenTypeOK
<1>2. \A o \in Orders : pages'[o] = IF o = sort THEN list ELSE pages[o]
  BY <1>1
<1>3. \A o \in Orders : GoodList(pages'[o], TheSearch)
  BY <1>2 DEF ListsAreGood
<1> QED BY <1>1, <1>3 DEF ListsAreGood

LEMMA HearPageFits ==
  ASSUME IInv, ScreenTypeOK, ReadsFit, HearPage
  PROVE  ReadsFit' /\ pages' \in [Orders -> Seq(Page)]
<1>1. /\ pageCall.phase \in {"answered", "refused"} /\ pageCall' = NoCall
      /\ UNCHANGED <<vars, sort, tailCall>>
  BY DEF HearPage
<1>2. pageCall # NoCall /\ tailCall' = NoCall
  BY <1>1, ScreenTypes, ReadCallFacts, BothNeverOut
<1>3. TheSearch' = TheSearch
  BY <1>1 DEF vars, TheSearch
<1>4. CASE pageCall.phase = "answered"
  <2>1. PICK page : page = pageCall.page
    OBVIOUS
  <2>2. page \in Page /\ LeadsOn(pages[sort], page.at) /\ Truthful(page, TheSearch)
    BY <1>2, <1>4, <2>1, ScreenTypes, ReadCallFacts DEF ReadsFit, PageFits
  <2>3. PICK list : list = Append(pages[sort], page)
    OBVIOUS
  <2>4. list \in Seq(Page) /\ GoodList(list, TheSearch)
    BY <2>2, <2>3, AppendGood, ScreenTypes DEF ReadsFit, ListsAreGood
  <2>5. pages' = [pages EXCEPT ![sort] = list]
    BY <1>4, <2>1, <2>3 DEF HearPage
  <2>6. ListsAreGood' /\ pages' \in [Orders -> Seq(Page)]
    BY <1>3, <2>4, <2>5, ListsWritten DEF ReadsFit
  <2> QED BY <1>1, <1>2, <2>6 DEF ReadsFit, PageFits, TailFits
<1>5. CASE pageCall.phase # "answered"
  <2>1. pages' = pages
    BY <1>5 DEF HearPage
  <2> QED BY <1>1, <1>2, <1>3, <2>1 DEF ReadsFit, ListsAreGood, PageFits, TailFits, ScreenTypeOK
<1> QED BY <1>4, <1>5

LEMMA HearTailFits ==
  ASSUME IInv, ScreenTypeOK, ReadsFit, HearTail
  PROVE  ReadsFit' /\ pages' \in [Orders -> Seq(Page)]
<1>1. /\ tailCall.phase \in {"answered", "refused"} /\ tailCall' = NoCall
      /\ UNCHANGED <<vars, sort, pageCall>>
  BY DEF HearTail
<1>2. tailCall # NoCall /\ pageCall' = NoCall
  BY <1>1, ScreenTypes, ReadCallFacts, BothNeverOut
<1>3. TheSearch' = TheSearch
  BY <1>1 DEF vars, TheSearch
<1>4. ASSUME tailCall.phase = "answered",
             pages' = [pages EXCEPT ![sort][Len(pages[sort])] = tailCall.page]
      PROVE  ReadsFit' /\ pages' \in [Orders -> Seq(Page)]
  <2>1. PICK page : page = tailCall.page
    OBVIOUS
  <2>2. /\ page \in Page /\ pages[sort] # << >> /\ page.at = Final(pages[sort]).at
        /\ Truthful(page, TheSearch)
    BY <1>2, <1>4, <2>1, ScreenTypes, ReadCallFacts DEF ReadsFit, TailFits
  <2>3. PICK list : list = [pages[sort] EXCEPT ![Len(pages[sort])] = page]
    OBVIOUS
  <2>4. list \in Seq(Page) /\ GoodList(list, TheSearch)
    BY <2>2, <2>3, ReplaceGood, ScreenTypes DEF ReadsFit, ListsAreGood
  <2>5. pages' = [pages EXCEPT ![sort] = list]
    BY <1>4, <2>1, <2>3
  <2>6. ListsAreGood' /\ pages' \in [Orders -> Seq(Page)]
    BY <1>3, <2>4, <2>5, ListsWritten DEF ReadsFit
  <2> QED BY <1>1, <1>2, <2>6 DEF ReadsFit, PageFits, TailFits
<1>5. CASE pages' = pages
  BY <1>1, <1>2, <1>3, <1>5 DEF ReadsFit, ListsAreGood, PageFits, TailFits, ScreenTypeOK
<1> QED BY <1>4, <1>5 DEF HearTail

-----------------------------------------------------------------------------
(* What is said of the search.                                             *)

\* An ending and a departure are for good.
Steady == Grows /\ (Watched \notin live => Watched \notin live')

LEMMA TrueStill ==
  ASSUME Steady, NEW word, TellsTrue(word, TheSearch, live)
  PROVE  TellsTrue(word, TheSearch', live')
BY DEF Steady, Grows, TellsTrue

LEMMA TruthStill ==
  ASSUME Steady, TruthIsTold, status' = status,
         statusCall' = statusCall \/ statusCall'.phase \in {"none", "sent"},
         cancelCall' = cancelCall \/ cancelCall'.phase \in {"none", "sent"}
  PROVE  TruthIsTold'
<1>1. TellsTrue(status', TheSearch', live')
  BY TrueStill DEF TruthIsTold
<1>2. statusCall'.phase = "answered" => TellsTrue(statusCall'.status, TheSearch', live')
  BY TrueStill DEF TruthIsTold
<1>3. cancelCall'.phase = "answered" => Watched \notin live'
  BY DEF TruthIsTold, Steady
<1> QED BY <1>1, <1>2, <1>3 DEF TruthIsTold

\* What the poll is answered.
LEMMA ServeStatusTrue ==
  ASSUME IInv, IInv', Steady, Moves, Started, TruthIsTold, ServeStatus
  PROVE  TruthIsTold' /\ statusCall' \in StatusCall
<1>1. statusCall' = StatusAnswer /\ status' = status /\ cancelCall' = cancelCall
  BY DEF ServeStatus
<1>2. PICK word : word = IF Watched \in live' THEN TheSearch'.state ELSE GoneStatus
  OBVIOUS
<1>3. statusCall' = [phase |-> "answered", status |-> word]
  BY <1>1, <1>2 DEF StatusAnswer, TheSearch
<1>4. TheSearch'.state \in States \ {"unborn"}
  <2>1. Watched \in Ids /\ ~(Watched > counter')
    BY WatchedFacts DEF Moves, Started, Watched
  <2>2. TheSearch'.state # "unborn"
    BY <2>1 DEF IInv, IdsNeverReused, TheSearch
  <2> QED BY <2>2 DEF Steady, Grows, Job
<1>5. word \in Statuses
  BY <1>2, <1>4 DEF GoneStatus, Gone, Statuses, States, RunningStates, Finished
<1>6. TellsTrue(word, TheSearch', live')
  BY <1>2 DEF TellsTrue, Moves, GoneStatus, Finished
<1>7. TellsTrue(status', TheSearch', live')
  BY <1>1, TrueStill DEF TruthIsTold
<1>8. cancelCall'.phase = "answered" => Watched \notin live'
  BY <1>1 DEF TruthIsTold, Steady
<1>9. statusCall'.phase = "answered" /\ statusCall'.status = word /\ statusCall' \in StatusCall
  BY <1>3, <1>5 DEF StatusCall
<1> QED BY <1>6, <1>7, <1>8, <1>9 DEF TruthIsTold

LEMMA StatusCallFacts ==
  ASSUME NEW c \in StatusCall
  PROVE  /\ c.phase = "answered" => c.status \in Statuses
         /\ c = NoCall => c.phase = "none"
         /\ c # NoCall => c.phase \in {"sent", "answered"}
BY DEF StatusCall, NoCall

LEMMA HearStatusTrue ==
  ASSUME Steady, ScreenTypeOK, TruthIsTold, HearStatus
  PROVE  TruthIsTold' /\ status' \in Statuses
<1>1. /\ statusCall.phase = "answered" /\ status' = statusCall.status /\ statusCall' = NoCall
      /\ cancelCall' = cancelCall
  BY DEF HearStatus
<1>2. TellsTrue(status', TheSearch', live')
  BY <1>1, TrueStill DEF TruthIsTold
<1>3. statusCall'.phase # "answered" /\ (cancelCall'.phase = "answered" => Watched \notin live')
  BY <1>1 DEF TruthIsTold, Steady, NoCall
<1>4. status' \in Statuses
  BY <1>1, StatusCallFacts DEF ScreenTypeOK
<1> QED BY <1>2, <1>3, <1>4 DEF TruthIsTold

\* The 204 is sent when the search has left the dict.
LEMMA ServeCancelTrue ==
  ASSUME IInv, Steady, TheSearch.family = Reader, TruthIsTold, ServeCancel
  PROVE  TruthIsTold' /\ cancelCall' \in CancelCall
<1>1. status' = status /\ statusCall' = statusCall /\ cancelCall' = [phase |-> "answered"]
  BY DEF ServeCancel
<1>2. Watched \notin live'
  <2>1. CASE Delete(Reader, Watched)
    BY <2>1 DEF Delete
  <2>2. CASE DeleteMissing(Reader, Watched)
    BY <2>2 DEF DeleteMissing, Visible, Reap, TheSearch
  <2> QED BY <2>1, <2>2 DEF ServeCancel
<1>3. TellsTrue(status', TheSearch', live')
  BY <1>1, TrueStill DEF TruthIsTold
<1>4. statusCall'.phase = "answered" => TellsTrue(statusCall'.status, TheSearch', live')
  BY <1>1, TrueStill DEF TruthIsTold
<1>5. cancelCall' \in CancelCall
  BY <1>1 DEF CancelCall
<1> QED BY <1>2, <1>3, <1>4, <1>5 DEF TruthIsTold

LEMMA HearCancelTrue ==
  ASSUME Steady, StateFits, TruthIsTold, HearCancel, status \in Statuses
  PROVE  TruthIsTold' /\ status' \in Statuses
<1>1. /\ cancelCall.phase = "answered" /\ cancelCall' = NoCall /\ statusCall' = statusCall
      /\ status' = IF status \in Gone THEN status ELSE "cancelled"
      /\ UNCHANGED vars
  BY DEF HearCancel
<1>2. Watched \notin live /\ Watched \notin live' /\ TheSearch.state \in Finished
  BY <1>1 DEF TruthIsTold, Steady, StateFits
<1>3. TellsTrue(status', TheSearch', live')
  BY <1>1, <1>2 DEF TellsTrue, Steady, Grows
<1>4. statusCall'.phase = "answered" => TellsTrue(statusCall'.status, TheSearch', live')
  BY <1>1, TrueStill DEF TruthIsTold
<1>5. status' \in Statuses
  BY <1>1 DEF Statuses, Finished
<1> QED BY <1>1, <1>3, <1>4, <1>5 DEF TruthIsTold, NoCall

-----------------------------------------------------------------------------
(* Every step.                                                             *)

LEMMA ServiceSide ==
  ASSUME [ScreenNext]_allVars
  PROVE  Run \/ Serves \/ UNCHANGED vars
<1>1. CASE Serving
  BY <1>1 DEF Serving, Serves
<1>2. ServeGet \/ Delete(Reader, Watched) \/ DeleteMissing(Reader, Watched) => Serves
  BY DEF ServeGet, Serves
<1>3. CASE Poll
  BY <1>2, <1>3 DEF Poll, AskStatus, ServeStatus, HearStatus
<1>4. CASE PageRead
  BY <1>2, <1>4 DEF PageRead, AskPage, ServePage, HearPage
<1>5. CASE TailRead
  BY <1>2, <1>5 DEF TailRead, AskTail, ServeTail, HearTail
<1>6. CASE Stop
  BY <1>2, <1>6 DEF Stop, AskCancel, ServeCancel, HearCancel
<1>7. CASE Loss
  BY <1>7 DEF Loss, LoseStatus, LosePage, LoseTail, LoseCancel
<1>8. CASE \E o \in Orders : ChangeSort(o)
  BY <1>8 DEF ChangeSort
<1>9. CASE UNCHANGED allVars
  BY <1>9 DEF allVars
<1> QED BY <1>1, <1>3, <1>4, <1>5, <1>6, <1>7, <1>8, <1>9 DEF ScreenNext

\* What the screen asks for, the service does for anybody.
LEMMA ScreenIsNext ==
  ASSUME IInv, [ScreenNext]_allVars
  PROVE  [Next]_vars
<1>1. Watched \in Ids /\ Reader \in Families
  BY WatchedFacts, ScreenConstants
<1>2. CASE Run
  <2>1. PICK b \in Bodies, failing \in ScanFaults : Create(Reader, NoKey, b, failing)
    BY <1>2 DEF Run
  <2>2. CreateSearch(Reader, NoKey, b)
    BY <2>1 DEF CreateSearch
  <2> QED BY <1>1, <2>2 DEF Next, Request
<1>3. CASE Serves
  <2>1. CASE Tick \/ Reap \/ \E i \in Ids : Scan(i)
    BY <2>1 DEF Next
  <2>2. CASE Get(Reader, Watched) \/ GetMissing(Reader, Watched) \/ Delete(Reader, Watched)
             \/ DeleteMissing(Reader, Watched)
    <3>1. Request(Reader)
      BY <1>1, <2>2 DEF Request
    <3> QED BY <1>1, <3>1 DEF Next
  <2> QED BY <1>3, <2>1, <2>2 DEF Serves
<1> QED BY <1>2, <1>3, ServiceSide

LEMMA OneSearchStep ==
  ASSUME IInv, IInv', OneSearch, Run \/ Serves \/ UNCHANGED vars
  PROVE  /\ OneSearch' /\ Grows
         /\ Started => Moves /\ Steady /\ Started'
         /\ ~Started /\ ~Run => ~Started'
<1>1. /\ Watched \in Ids /\ TheSearch.matched \in Nat /\ counter \in Nat
      /\ ~Started <=> counter = 0
  BY WatchedFacts, SearchConstants
<1>2. TheSearch' \in Job /\ TheSearch'.matched \in Nat
  <2>1. TheSearch' \in Job
    BY <1>1 DEF IInv, TypeOK, TheSearch
  <2> QED BY <2>1, SearchConstants DEF Job
<1>3. CASE Run
  <2>1. /\ ~Started /\ counter' = Watched /\ Watched \in live'
        /\ TheSearch'.family = Reader /\ TheSearch'.state = "queued" /\ TheSearch'.matched = 0
    BY <1>3, RunStarts
  <2>2. Started' /\ counter' <= Watched
    BY <2>1 DEF Started, Watched
  <2>3. StateFits'
    BY <2>1 DEF StateFits
  <2>4. TheSearch.state = "unborn" /\ TheSearch.matched = 0
    BY <2>1, WatchedFacts DEF OneSearch
  <2>5. OneSearch'
    BY <2>1, <2>2, <2>3 DEF OneSearch
  <2>6. Grows
    BY <1>2, <2>1, <2>4 DEF Grows, Finished
  <2> QED BY <1>3, <2>1, <2>5, <2>6
<1>4. CASE (Serves \/ UNCHANGED vars) /\ Started
  <2>1. StateFits
    BY <1>4 DEF OneSearch
  <2>2. Moves
    <3>1. CASE Serves
      BY <1>4, <2>1, <3>1, ServingMoves
    <3>2. CASE UNCHANGED vars
      BY <1>1, <2>1, <3>2 DEF vars, Moves, TheSearch, StateFits
    <3> QED BY <1>4, <3>1, <3>2
  <2>3. Started' /\ StateFits'
    BY <1>4, <2>2 DEF Moves, Started, StateFits
  <2>4. OneSearch'
    BY <1>4, <2>2, <2>3 DEF OneSearch, Moves
  <2>5. Grows /\ Steady
    BY <1>2, <2>2 DEF Grows, Steady, Moves
  <2> QED BY <1>3, <1>4, <2>2, <2>3, <2>4, <2>5
<1>5. CASE (Serves \/ UNCHANGED vars) /\ ~Started
  <2>1. counter' = counter /\ TheSearch' = TheSearch
    BY <1>5, NothingToServe DEF vars, TheSearch
  <2>2. ~Started'
    BY <1>5, <2>1 DEF Started
  <2>3. OneSearch' /\ Grows
    BY <1>1, <1>2, <1>5, <2>1, <2>2 DEF OneSearch, Grows
  <2> QED BY <1>5, <2>2, <2>3
<1> QED BY <1>3, <1>4, <1>5

\* Everything else is done by a screen that has started a search.
LEMMA AfterTheStart ==
  ASSUME ScreenTypeOK, Blank, Poll \/ PageRead \/ TailRead \/ Stop \/ Loss \/ \E o \in Orders : ChangeSort(o)
  PROVE  Started
<1> SUFFICES ASSUME ~Started PROVE FALSE
  OBVIOUS
<1>1. /\ status = "unknown" /\ statusCall = NoCall /\ pageCall = NoCall /\ tailCall = NoCall
      /\ cancelCall = NoCall
  BY DEF Blank
<1>2. NoCall.phase = "none" /\ "unknown" \notin RunningStates \cup Finished
  BY DEF NoCall, RunningStates, Finished
<1>3. ~Poll
  BY <1>1, <1>2 DEF Poll, AskStatus, ServeStatus, HearStatus
<1>4. ~PageRead
  BY <1>1, <1>2 DEF PageRead, AskPage, ServePage, HearPage, RowsReadable
<1>5. ~TailRead
  BY <1>1, <1>2 DEF TailRead, AskTail, ServeTail, HearTail, IsRunning
<1>6. ~Stop
  BY <1>1, <1>2 DEF Stop, AskCancel, ServeCancel, HearCancel, IsRunning
<1>7. ~Loss
  BY <1>1, <1>2 DEF Loss, LoseStatus, LosePage, LoseTail, LoseCancel
<1>8. \A o \in Orders : ~ChangeSort(o)
  BY <1>1, <1>2 DEF ChangeSort
<1> QED BY <1>3, <1>4, <1>5, <1>6, <1>7, <1>8

\* What the poll, the Stop button and a lost answer leave of the screen.
LEMMA PollKeeps ==
  ASSUME IInv, IInv', Started, Moves, Steady, ScreenTypeOK, TruthIsTold, ReadsFit, Poll
  PROVE  ScreenTypeOK' /\ TruthIsTold' /\ ReadsFit'
<1>1. Grows /\ NoCall \in ReadCall
  BY DEF Steady, ReadCall
<1>2. CASE AskStatus
  <2>1. statusCall' = [phase |-> "sent"] /\ UNCHANGED <<status, sort, pages, pageCall, tailCall, cancelCall>>
    BY <1>2 DEF AskStatus
  <2>2. TruthIsTold'
    BY <2>1, TruthStill
  <2>3. ReadsFit'
    BY <1>1, <2>1, ReadsFitStill
  <2>4. statusCall' \in StatusCall
    BY <2>1 DEF StatusCall
  <2> QED BY <2>1, <2>2, <2>3, <2>4 DEF ScreenTypeOK
<1>3. CASE ServeStatus
  <2>1. UNCHANGED <<status, sort, pages, pageCall, tailCall, cancelCall>>
    BY <1>3 DEF ServeStatus
  <2>2. ReadsFit'
    BY <1>1, <2>1, ReadsFitStill
  <2> QED BY <1>3, <2>1, <2>2, ServeStatusTrue DEF ScreenTypeOK
<1>4. CASE HearStatus
  <2>1. /\ statusCall' = NoCall /\ UNCHANGED <<sort, pages, cancelCall>>
        /\ \/ pageCall' = NoCall /\ tailCall' = NoCall
           \/ pageCall' = pageCall /\ tailCall' = tailCall
    BY <1>4 DEF HearStatus
  <2>2. ReadsFit'
    BY <1>1, <2>1, ReadsFitStill
  <2>3. statusCall' \in StatusCall
    BY <2>1 DEF StatusCall
  <2> QED BY <1>1, <1>4, <2>1, <2>2, <2>3, HearStatusTrue DEF ScreenTypeOK
<1> QED BY <1>2, <1>3, <1>4 DEF Poll

LEMMA StopKeeps ==
  ASSUME IInv, Steady, OneSearch, Started, ScreenTypeOK, TruthIsTold, ReadsFit, Stop
  PROVE  ScreenTypeOK' /\ TruthIsTold' /\ ReadsFit'
<1>1. Grows /\ StateFits /\ TheSearch.family = Reader /\ status \in Statuses
  BY DEF Steady, OneSearch, ScreenTypeOK
<1>2. UNCHANGED <<statusCall, sort, pages, pageCall, tailCall>>
  BY DEF Stop, AskCancel, ServeCancel, HearCancel
<1>3. ReadsFit'
  BY <1>1, <1>2, ReadsFitStill
<1>4. CASE AskCancel
  <2>1. status' = status /\ cancelCall' = [phase |-> "sent"]
    BY <1>4 DEF AskCancel
  <2>2. TruthIsTold' /\ cancelCall' \in CancelCall
    BY <1>2, <2>1, TruthStill DEF CancelCall
  <2> QED BY <1>2, <1>3, <2>1, <2>2 DEF ScreenTypeOK
<1>5. CASE ServeCancel
  <2>1. status' = status
    BY <1>5 DEF ServeCancel
  <2> QED BY <1>1, <1>2, <1>3, <1>5, <2>1, ServeCancelTrue DEF ScreenTypeOK
<1>6. CASE HearCancel
  <2>1. cancelCall' \in CancelCall
    BY <1>6 DEF HearCancel, CancelCall
  <2> QED BY <1>1, <1>2, <1>3, <1>6, <2>1, HearCancelTrue DEF ScreenTypeOK
<1> QED BY <1>4, <1>5, <1>6 DEF Stop

LEMMA LossKeeps ==
  ASSUME IInv, Steady, ScreenTypeOK, TruthIsTold, ReadsFit, Loss \/ \E o \in Orders : ChangeSort(o)
  PROVE  ScreenTypeOK' /\ TruthIsTold' /\ ReadsFit'
<1>1. Grows /\ NoCall.phase = "none" /\ NoCall \in ReadCall /\ NoCall \in StatusCall /\ NoCall \in CancelCall
  BY DEF Steady, NoCall, ReadCall, StatusCall, CancelCall
<1>2. /\ status' = status /\ pages' = pages
      /\ statusCall' \in {statusCall, NoCall} /\ cancelCall' \in {cancelCall, NoCall}
      /\ sort' \in Orders
      /\ \/ sort' = sort /\ pageCall' \in {pageCall, NoCall} /\ tailCall' \in {tailCall, NoCall}
         \/ pageCall' = NoCall /\ tailCall' = NoCall
  BY ScreenTypes DEF Loss, LoseStatus, LosePage, LoseTail, LoseCancel, ChangeSort
<1>3. TruthIsTold'
  BY <1>1, <1>2, TruthStill
<1>4. ReadsFit'
  BY <1>1, <1>2, ReadsFitStill
<1>5. ScreenTypeOK'
  BY <1>1, <1>2 DEF ScreenTypeOK
<1> QED BY <1>3, <1>4, <1>5

LEMMA ReadingKeeps ==
  ASSUME IInv, Steady, ScreenTypeOK, TruthIsTold, ReadsFit, PageRead \/ TailRead
  PROVE  ScreenTypeOK' /\ TruthIsTold' /\ ReadsFit'
<1>1. Grows /\ NoCall \in ReadCall
  BY DEF Steady, ReadCall
<1>2. UNCHANGED <<status, statusCall, sort, cancelCall>>
  BY DEF PageRead, TailRead, AskPage, ServePage, HearPage, AskTail, ServeTail, HearTail
<1>3. TruthIsTold'
  BY <1>2, TruthStill
<1>4. ASSUME pages' \in [Orders -> Seq(Page)], pageCall' \in ReadCall, tailCall' \in ReadCall
      PROVE  ScreenTypeOK'
  BY <1>2, <1>4 DEF ScreenTypeOK
<1>5. pages \in [Orders -> Seq(Page)] /\ pageCall \in ReadCall /\ tailCall \in ReadCall
  BY DEF ScreenTypeOK
<1>6. CASE AskPage
  <2>1. pages' = pages /\ tailCall' = tailCall
    BY <1>6 DEF AskPage
  <2>2. ReadsFit' /\ pageCall' \in ReadCall
    BY <1>6, AskPageFits
  <2> QED BY <1>3, <1>4, <1>5, <2>1, <2>2
<1>7. CASE ServePage
  <2>1. pages' = pages /\ tailCall' = tailCall
    BY <1>7 DEF ServePage
  <2>2. ReadsFit' /\ pageCall' \in ReadCall
    BY <1>1, <1>7, ServePageFits
  <2> QED BY <1>3, <1>4, <1>5, <2>1, <2>2
<1>8. CASE HearPage
  <2>1. pageCall' = NoCall /\ tailCall' = tailCall
    BY <1>8 DEF HearPage
  <2>2. ReadsFit' /\ pages' \in [Orders -> Seq(Page)]
    BY <1>8, HearPageFits
  <2> QED BY <1>1, <1>3, <1>4, <1>5, <2>1, <2>2
<1>9. CASE AskTail
  <2>1. pages' = pages /\ pageCall' = pageCall
    BY <1>9 DEF AskTail
  <2>2. ReadsFit' /\ tailCall' \in ReadCall
    BY <1>9, AskTailFits
  <2> QED BY <1>3, <1>4, <1>5, <2>1, <2>2
<1>10. CASE ServeTail
  <2>1. pages' = pages /\ pageCall' = pageCall
    BY <1>10 DEF ServeTail
  <2>2. ReadsFit' /\ tailCall' \in ReadCall
    BY <1>1, <1>10, ServeTailFits
  <2> QED BY <1>3, <1>4, <1>5, <2>1, <2>2
<1>11. CASE HearTail
  <2>1. tailCall' = NoCall /\ pageCall' = pageCall
    BY <1>11 DEF HearTail
  <2>2. ReadsFit' /\ pages' \in [Orders -> Seq(Page)]
    BY <1>11, HearTailFits
  <2> QED BY <1>1, <1>3, <1>4, <1>5, <2>1, <2>2
<1> QED BY <1>6, <1>7, <1>8, <1>9, <1>10, <1>11 DEF PageRead, TailRead

LEMMA ScreenStep ==
  ASSUME IInv, ScreenInv, [ScreenNext]_allVars
  PROVE  IInv' /\ ScreenInv'
<1> USE DEF ScreenInv
<1>1. IInv'
  BY ScreenIsNext, NextKeeps
<1>2. /\ OneSearch' /\ Grows
      /\ Started => Moves /\ Steady /\ Started'
      /\ ~Started /\ ~Run => ~Started'
  BY <1>1, ServiceSide, OneSearchStep
<1>3. CASE UNCHANGED screen
  <2>1. ScreenTypeOK'
    BY <1>3 DEF screen, ScreenTypeOK
  <2>2. ReadsFit'
    BY <1>2, <1>3, ReadsFitStill DEF screen
  <2>3. TruthIsTold'
    <3>1. CASE Started
      BY <1>2, <1>3, <3>1, TruthStill DEF screen
    <3>2. CASE ~Started
      BY <1>3, <3>2 DEF screen, Blank, TruthIsTold, TellsTrue, NoCall, Finished
    <3> QED BY <3>1, <3>2
  <2>4. Blank'
    <3>1. ~Started' => ~Started
      BY <1>2
    <3> QED BY <1>3, <3>1 DEF screen, Blank
  <2> QED BY <1>1, <1>2, <2>1, <2>2, <2>3, <2>4
<1>4. CASE Poll \/ PageRead \/ TailRead \/ Stop \/ Loss \/ \E o \in Orders : ChangeSort(o)
  <2>1. Started /\ Moves /\ Steady /\ Started'
    BY <1>2, <1>4, AfterTheStart
  <2>2. Blank'
    BY <2>1 DEF Blank
  <2>3. ScreenTypeOK' /\ TruthIsTold' /\ ReadsFit'
    <3>1. CASE Poll
      BY <1>1, <2>1, <3>1, PollKeeps
    <3>2. CASE PageRead \/ TailRead
      BY <2>1, <3>2, ReadingKeeps
    <3>3. CASE Stop
      BY <2>1, <3>3, StopKeeps
    <3>4. CASE Loss \/ \E o \in Orders : ChangeSort(o)
      BY <2>1, <3>4, LossKeeps
    <3> QED BY <1>4, <3>1, <3>2, <3>3, <3>4
  <2> QED BY <1>1, <1>2, <2>2, <2>3
<1>5. CASE Run \/ Serving \/ UNCHANGED allVars
  BY <1>3, <1>5 DEF Run, Serving, allVars, screen
<1> QED BY <1>4, <1>5 DEF ScreenNext

LEMMA ScreenBegins == ScreenInit => IInv /\ ScreenInv
<1> SUFFICES ASSUME ScreenInit PROVE IInv /\ ScreenInv
  OBVIOUS
<1>1. IInv /\ Watched \in Ids
  BY InitHolds, WatchedFacts DEF ScreenInit
<1>2. ~Started /\ counter <= Watched
  BY DEF ScreenInit, Init, Started, Watched
<1>3. TheSearch.matched = 0
  BY <1>1 DEF ScreenInit, Init, TheSearch, Unborn
<1>4. \A o \in Orders : pages[o] = << >>
  BY DEF ScreenInit
<1>5. ScreenTypeOK
  <2>1. << >> \in Seq(Page)
    OBVIOUS
  <2> QED BY <2>1 DEF ScreenInit, ScreenTypeOK, Statuses, StatusCall, ReadCall, CancelCall
<1>6. Len(<< >>) = 0
  OBVIOUS
<1>7. ReadsFit
  BY <1>4, <1>6 DEF ScreenInit, ReadsFit, ListsAreGood, GoodList, PageFits, TailFits
<1>8. TruthIsTold
  BY DEF ScreenInit, TruthIsTold, TellsTrue, NoCall, Finished
<1> QED BY <1>1, <1>2, <1>3, <1>4, <1>5, <1>7, <1>8 DEF ScreenInv, Blank, OneSearch, ScreenInit

LEMMA ScreenInvariance == ScreenSpec => [](IInv /\ ScreenInv)
<1>1. ASSUME IInv /\ ScreenInv, [ScreenNext]_allVars
      PROVE  (IInv /\ ScreenInv)'
  BY <1>1, ScreenStep
<1> QED BY <1>1, ScreenBegins, PTL DEF ScreenSpec

\* Whatever order polls, pages, tail reads and Stop come and are lost in, the
\* list has no hole and "over" is over (use-results.ts, use-result-tail.ts,
\* use-cancel-search.ts).
THEOREM ScreensAreRight == ScreenSpec => []ScreenIsRight
<1>1. ASSUME IInv, ScreenInv PROVE ScreenIsRight
  <2>1. PagesJoinUp
    BY <1>1 DEF ScreenInv, ReadsFit, ListsAreGood, GoodList, PagesJoinUp
  <2>2. OverMeansOver
    BY <1>1 DEF ScreenInv, TruthIsTold, TellsTrue, OverMeansOver, TheSearch
  <2> QED BY <1>1, <2>1, <2>2 DEF ScreenInv, ScreenIsRight
<1> QED BY <1>1, ScreenInvariance, PTL

-----------------------------------------------------------------------------
(* Reading a log.                                                          *)

LEMMA Counting ==
  ASSUME NEW m \in Nat, NEW S, 0 \in S, \A n \in 0..m - 1 : n \in S => n + 1 \in S
  PROVE  0..m \subseteq S
<1> SUFFICES ASSUME ~ (0..m \subseteq S) PROVE FALSE
  OBVIOUS
<1> DEFINE T == (0..m) \ S
           R == {ss \in Nat \X Nat : ss[1] < ss[2]}
<1>1. IsWellFoundedOn(R, Nat)
  BY NatLessThanWellFounded DEF OpToRel
<1>2. T \subseteq Nat /\ T # {}
  OBVIOUS
<1>3. PICK x \in T : \A y \in T : ~ (<<y, x>> \in R)
  <2> HIDE DEF R, T
  <2> QED BY <1>1, <1>2, WFMin
<1>4. x \in 1..m /\ x \notin S
  BY <1>3
<1>5. x - 1 \in 0..m - 1 /\ x - 1 < x /\ (x - 1) + 1 = x /\ x - 1 \in Nat /\ x \in Nat
  BY <1>4
<1>6. x - 1 \in T
  BY <1>4, <1>5
<1>7. <<x - 1, x>> \in R
  BY <1>5
<1> QED BY <1>3, <1>6, <1>7

Shown(list) == IF list = << >> THEN 0 ELSE EndOf(Final(list))

\* In a list without a hole the rows add up to the place after its last page.
LEMMA RowsAddUp ==
  ASSUME NEW job \in Job, NEW list \in Seq(Page), GoodList(list, job)
  PROVE  RowsUpTo(list)[Len(list)] = Shown(list)
<1> DEFINE L == Len(list)
           G == [n \in 0..L |-> IF n = 0 THEN 0 ELSE EndOf(list[n])]
           Step(g, n) == IF n = 0 THEN 0 ELSE g[n - 1] + list[n].rows
           K == RowsUpTo(list)
<1>1. L \in Nat /\ \A n \in 1..L : list[n] \in Page /\ Truthful(list[n], job)
  BY ListFacts DEF GoodList
<1>2. ASSUME NEW n \in 1..L PROVE OffsetOf(list[n].at) = G[n - 1]
  <2>1. n \in 0..L /\ n - 1 \in 0..L
    BY <1>1
  <2>2. CASE n = 1
    <3>1. list[n].at = NoCursor
      BY <1>1, <2>2 DEF GoodList
    <3> QED BY <2>1, <2>2, <3>1 DEF OffsetOf
  <2>3. CASE n # 1
    <3>1. PICK m : m = n - 1
      OBVIOUS
    <3>2. m \in 1..L - 1 /\ m + 1 = n /\ m \in 1..L /\ m # 0 /\ m \in 0..L
      BY <1>1, <2>3, <3>1
    <3>3. list[n].at = NextCursor(list[m])
      BY <3>2 DEF GoodList
    <3>4. EndOf(list[m]) <= MaxTotal
      <4>1. EndOf(list[m]) <= job.matched /\ EndOf(list[m]) \in Nat
        BY <1>1, <3>2, PageFacts DEF Truthful
      <4>2. job.matched \in 0..MaxTotal
        BY DEF Job
      <4> QED BY <4>1, <4>2, SearchConstants
    <3>5. OffsetOf(list[n].at) = EndOf(list[m])
      BY <1>1, <3>2, <3>3, <3>4, NextCursorFacts
    <3>6. G[m] = EndOf(list[m])
      BY <3>2
    <3> QED BY <3>1, <3>5, <3>6
  <2> QED BY <2>2, <2>3
<1>3. \A n \in 0..L : G[n] = Step(G, n)
  <2> TAKE n \in 0..L
  <2>1. CASE n = 0
    BY <2>1
  <2>2. CASE n # 0
    <3>1. n \in 1..L
      BY <1>1, <2>2
    <3>2. G[n] = EndOf(list[n])
      BY <2>2
    <3>3. OffsetOf(list[n].at) = G[n - 1]
      BY <1>2, <3>1
    <3> HIDE DEF G
    <3> QED BY <2>2, <3>2, <3>3 DEF EndOf
  <2> QED BY <2>1, <2>2
<1>4. G = [n \in 0..L |-> G[n]]
  OBVIOUS
<1> HIDE DEF G, Step, L
<1>5. G = [n \in 0..L |-> Step(G, n)]
  BY <1>3, <1>4
<1>6. K = CHOOSE g : g = [n \in 0..L |-> Step(g, n)]
  BY DEF RowsUpTo, K, Step, L
<1> HIDE DEF K
<1>7. K = [n \in 0..L |-> Step(K, n)]
  BY <1>5, <1>6
<1>8. \A n \in 0..L : K[n] = Step(K, n)
  BY <1>7
<1> DEFINE Same == {n \in 0..L : K[n] = G[n]}
<1>9. 0 \in Same
  <2>1. 0 \in 0..L
    BY <1>1
  <2>2. Step(K, 0) = 0 /\ Step(G, 0) = 0
    BY DEF Step
  <2> QED BY <1>3, <1>8, <2>1, <2>2
<1>10. ASSUME NEW n \in 0..L - 1, n \in Same PROVE n + 1 \in Same
  <2>1. n + 1 \in 0..L /\ n + 1 # 0 /\ n + 1 - 1 = n
    BY <1>1
  <2>2. Step(K, n + 1) = K[n] + list[n + 1].rows /\ Step(G, n + 1) = G[n] + list[n + 1].rows
    BY <2>1 DEF Step
  <2>3. K[n] = G[n]
    BY <1>10
  <2> QED BY <1>3, <1>8, <2>1, <2>2, <2>3
<1>11. 0..L \subseteq Same
  <2> HIDE DEF Same
  <2> QED BY <1>1, <1>9, <1>10, Counting
<1>12. K[L] = G[L]
  BY <1>1, <1>11
<1>13. G[L] = Shown(list)
  <2>1. L \in 0..L /\ (L = 0 <=> list = << >>)
    BY <1>1, ListFacts DEF L
  <2> QED BY <2>1 DEF G, Shown, Final, L
<1> QED BY <1>12, <1>13 DEF K, L

LEMMA ShownFacts ==
  ASSUME IInv, ScreenInv, NEW o \in Orders
  PROVE  RowsShown(o) = Shown(pages[o]) /\ Shown(pages[o]) \in Nat
<1>1. pages[o] \in Seq(Page) /\ GoodList(pages[o], TheSearch) /\ TheSearch \in Job
  BY WatchedFacts, ScreenTypes DEF ScreenInv, ReadsFit, ListsAreGood
<1>2. RowsShown(o) = Shown(pages[o])
  BY <1>1, RowsAddUp DEF RowsShown
<1> QED BY <1>1, <1>2, ListFacts, PageFacts DEF Shown

\* Hearing a read leaves the lists alone, or goes on with one that was not
\* said to be at its end.
LEMMA Heard ==
  ASSUME IInv, ScreenInv, HearPage \/ HearTail
  PROVE  \/ pages' = pages
         \/ \E list \in Seq(Page) :
              /\ pages' = [pages EXCEPT ![sort] = list]
              /\ list # << >> /\ Final(list) \in Page /\ Truthful(Final(list), TheSearch)
              /\ Shown(pages[sort]) <= EndOf(Final(list))
              /\ pages[sort] # << >> => ~Final(pages[sort]).complete
<1> USE DEF ScreenInv
<1> DEFINE old == pages[sort]
<1>1. old \in Seq(Page) /\ GoodList(old, TheSearch) /\ pageCall \in ReadCall /\ tailCall \in ReadCall
  BY ScreenTypes DEF ReadsFit, ListsAreGood
<1>2. old # << >> => Final(old) \in Page /\ Truthful(Final(old), TheSearch)
  BY <1>1, ListFacts DEF GoodList, Final
<1>3. TheSearch.matched \in 0..MaxTotal /\ MaxTotal \in Nat
  BY WatchedFacts, SearchConstants
<1> HIDE DEF old
<1>4. ASSUME HearPage, pageCall.phase = "answered"
      PROVE  \E list \in Seq(Page) :
               /\ pages' = [pages EXCEPT ![sort] = list]
               /\ list # << >> /\ Final(list) \in Page /\ Truthful(Final(list), TheSearch)
               /\ Shown(old) <= EndOf(Final(list))
               /\ old # << >> => ~Final(old).complete
  <2>1. PICK page : page = pageCall.page
    OBVIOUS
  <2>2. /\ page \in Page /\ LeadsOn(old, page.at) /\ Truthful(page, TheSearch)
        /\ old = << >> \/ Final(old).more
    BY <1>1, <1>4, <2>1, ReadCallFacts DEF ReadsFit, PageFits, old
  <2>3. PICK list : list = Append(old, page)
    OBVIOUS
  <2>4. list \in Seq(Page) /\ list # << >> /\ Final(list) = page
    BY <1>1, <2>2, <2>3, AppendGood
  <2>5. pages' = [pages EXCEPT ![sort] = list]
    BY <1>4, <2>1, <2>3 DEF HearPage, old
  <2>6. Shown(old) <= EndOf(page)
    <3>1. OffsetOf(page.at) = Shown(old)
      <4>1. CASE old = << >>
        BY <2>2, <4>1 DEF LeadsOn, OffsetOf, Shown
      <4>2. CASE old # << >>
        <5>1. Final(old) \in Page /\ EndOf(Final(old)) <= TheSearch.matched
          BY <1>2, <4>2 DEF Truthful
        <5>2. EndOf(Final(old)) <= MaxTotal
          BY <1>3, <5>1, PageFacts
        <5>3. page.at = NextCursor(Final(old))
          BY <2>2, <4>2 DEF LeadsOn
        <5> QED BY <4>2, <5>1, <5>2, <5>3, NextCursorFacts DEF Shown
      <4> QED BY <4>1, <4>2
    <3>2. OffsetOf(page.at) \in Nat /\ page.rows \in Nat
      BY <2>2, PageFacts
    <3> QED BY <3>1, <3>2 DEF EndOf
  <2>7. old # << >> => ~Final(old).complete
    BY <1>2, <2>2 DEF Truthful
  <2> QED BY <2>2, <2>4, <2>5, <2>6, <2>7
<1>5. ASSUME HearTail, tailCall.phase = "answered",
             pages' = [pages EXCEPT ![sort][Len(pages[sort])] = tailCall.page]
      PROVE  \E list \in Seq(Page) :
               /\ pages' = [pages EXCEPT ![sort] = list]
               /\ list # << >> /\ Final(list) \in Page /\ Truthful(Final(list), TheSearch)
               /\ Shown(old) <= EndOf(Final(list))
               /\ old # << >> => ~Final(old).complete
  <2>1. PICK page : page = tailCall.page
    OBVIOUS
  <2>2. /\ page \in Page /\ old # << >> /\ page.at = Final(old).at /\ page.rows >= Final(old).rows
        /\ Truthful(page, TheSearch) /\ ~Final(old).complete
    BY <1>1, <1>5, <2>1, ReadCallFacts DEF ReadsFit, TailFits, old
  <2>3. PICK list : list = [old EXCEPT ![Len(old)] = page]
    OBVIOUS
  <2>4. list \in Seq(Page) /\ list # << >> /\ Final(list) = page
    <3>1. page.at = Final(old).at /\ old # << >> /\ Truthful(page, TheSearch) /\ page \in Page
      BY <2>2
    <3>2. /\ [old EXCEPT ![Len(old)] = page] \in Seq(Page)
          /\ [old EXCEPT ![Len(old)] = page] # << >>
          /\ Final([old EXCEPT ![Len(old)] = page]) = page
      BY <1>1, <3>1, ReplaceGood
    <3> QED BY <2>3, <3>2
  <2>5. pages' = [pages EXCEPT ![sort] = list]
    BY <1>5, <2>1, <2>3 DEF old
  <2>6. Shown(old) <= EndOf(page)
    <3>1. /\ page.rows \in Nat /\ Final(old).rows \in Nat /\ OffsetOf(page.at) \in Nat
          /\ OffsetOf(page.at) = OffsetOf(Final(old).at)
      BY <1>2, <2>2, PageFacts
    <3> QED BY <2>2, <3>1 DEF EndOf, Shown
  <2> QED BY <2>2, <2>4, <2>5, <2>6
<1>6. CASE HearPage
  BY <1>4, <1>6 DEF HearPage, old
<1>7. CASE HearTail
  BY <1>5, <1>7 DEF HearTail, old
<1> QED BY <1>6, <1>7

Ended == pages[ScanOrder] # << >> /\ LastPage(ScanOrder).complete

\* What is left alone when the answers to a read are not heard.
LEMMA ListsLeftAlone ==
  ASSUME [ScreenNext]_allVars, ~HearPage, ~HearTail
  PROVE  pages' = pages
<1>1. CASE Poll
  BY <1>1 DEF Poll, AskStatus, ServeStatus, HearStatus
<1>2. CASE PageRead \/ TailRead
  BY <1>2 DEF PageRead, AskPage, ServePage, TailRead, AskTail, ServeTail
<1>3. CASE Stop
  BY <1>3 DEF Stop, AskCancel, ServeCancel, HearCancel
<1>4. CASE Loss \/ \E o \in Orders : ChangeSort(o)
  BY <1>4 DEF Loss, LoseStatus, LosePage, LoseTail, LoseCancel, ChangeSort
<1>5. CASE Run \/ Serving \/ UNCHANGED allVars
  BY <1>5 DEF Run, Serving, allVars, screen
<1> QED BY <1>1, <1>2, <1>3, <1>4, <1>5 DEF ScreenNext

LEMMA LogStep ==
  ASSUME IInv, ScreenInv, [ScreenNext]_allVars
  PROVE  [Log!Next]_(Log!vars)
<1>1. IInv' /\ ScreenInv' /\ ScanOrder \in Orders
  BY ScreenStep, ScreenConstants
<1>2. RowsShown(ScanOrder) = Shown(pages[ScanOrder]) /\ Shown(pages[ScanOrder]) \in Nat
  BY <1>1, ShownFacts
<1>3. RowsShown(ScanOrder)' = Shown(pages[ScanOrder])'
  <2>1. /\ pages'[ScanOrder] \in Seq(Page) /\ GoodList(pages'[ScanOrder], TheSearch') /\ TheSearch' \in Job
    <3>1. pages'[ScanOrder] \in Seq(Page) /\ GoodList(pages'[ScanOrder], TheSearch')
      BY <1>1 DEF ScreenInv, ScreenTypeOK, ReadsFit, ListsAreGood
    <3>2. TheSearch' \in Job
      BY <1>1, WatchedFacts DEF IInv, TypeOK, TheSearch
    <3> QED BY <3>1, <3>2
  <2> QED BY <2>1, RowsAddUp DEF RowsShown
<1>4. TheSearch.matched \in Nat /\ Grows
  BY <1>1, WatchedFacts, SearchConstants, ServiceSide, OneSearchStep DEF ScreenInv
<1>5. CASE ~HearPage /\ ~HearTail
  <2>1. pages' = pages
    BY <1>5, ListsLeftAlone
  <2>2. RowsShown(ScanOrder)' = RowsShown(ScanOrder) /\ Ended' = Ended
    BY <1>2, <1>3, <2>1 DEF Ended, LastPage
  <2>3. CASE TheSearch.state \in Finished
    <3>1. TheSearch'.matched = TheSearch.matched /\ TheSearch'.state \in Finished
      BY <1>4, <2>3 DEF Grows
    <3>2. (TheSearch'.state \in Finished) = (TheSearch.state \in Finished)
      BY <2>3, <3>1
    <3> QED BY <2>2, <3>1, <3>2 DEF Log!vars, TheSearch, Ended
  <2>4. CASE TheSearch.state \notin Finished
    <3>1. TheSearch'.matched >= TheSearch.matched /\ TheSearch'.matched \in Nat
      BY <1>4 DEF Grows
    <3>2. Log!Write
      BY <2>2, <2>4, <3>1 DEF Log!Write, TheSearch, Ended
    <3> QED BY <3>2 DEF Log!Next
  <2> QED BY <2>3, <2>4
<1>6. CASE HearPage \/ HearTail
  <2>1. TheSearch' = TheSearch
    BY <1>6 DEF HearPage, HearTail, vars, TheSearch
  <2>2. CASE pages'[ScanOrder] = pages[ScanOrder]
    <3>1. RowsShown(ScanOrder)' = RowsShown(ScanOrder) /\ Ended' = Ended
      BY <1>2, <1>3, <2>2 DEF Ended, LastPage
    <3> QED BY <2>1, <3>1 DEF Log!vars, TheSearch, Ended
  <2>3. CASE pages'[ScanOrder] # pages[ScanOrder]
    <3>1. PICK list \in Seq(Page) :
            /\ pages' = [pages EXCEPT ![sort] = list]
            /\ list # << >> /\ Final(list) \in Page /\ Truthful(Final(list), TheSearch)
            /\ Shown(pages[sort]) <= EndOf(Final(list))
            /\ pages[sort] # << >> => ~Final(pages[sort]).complete
      BY <1>6, <2>3, Heard
    <3>2. sort = ScanOrder /\ pages'[ScanOrder] = list
      BY <1>1, <2>3, <3>1 DEF ScreenInv, ScreenTypeOK
    <3>3. RowsShown(ScanOrder)' = EndOf(Final(list)) /\ EndOf(Final(list)) \in Nat
      BY <1>3, <3>1, <3>2, PageFacts DEF Shown
    <3>4. RowsShown(ScanOrder)' \in RowsShown(ScanOrder)..TheSearch.matched
      BY <1>2, <1>4, <3>1, <3>2, <3>3 DEF Truthful
    <3>5. ~Ended
      BY <3>1, <3>2 DEF Ended, LastPage, Final
    <3>6. Ended' <=> Final(list).complete
      BY <3>1, <3>2 DEF Ended, LastPage, Final
    <3>7. Ended' => TheSearch.state \in Finished /\ RowsShown(ScanOrder)' = TheSearch.matched
      BY <3>1, <3>3, <3>6 DEF Truthful
    <3>8. Ended' \in BOOLEAN
      BY <3>1, <3>2, PageFacts DEF Ended, LastPage, Final
    <3>9. Log!Read
      BY <2>1, <3>4, <3>5, <3>7, <3>8 DEF Log!Read, TheSearch, Ended
    <3> QED BY <3>9 DEF Log!Next
  <2> QED BY <2>2, <2>3
<1> QED BY <1>5, <1>6

\* Paging a running search is reading an append-only log: no row twice, none
\* withdrawn, and the end is only said when it is the end (results-table.tsx).
THEOREM PagingReadsALog == ScreenSpec => ReadsALog
<1>1. ScreenInit => Log!Init
  <2> SUFFICES ASSUME ScreenInit PROVE Log!Init
    OBVIOUS
  <2>1. IInv /\ ScreenInv /\ ScanOrder \in Orders
    BY ScreenBegins, ScreenConstants
  <2>2. pages[ScanOrder] = << >> /\ ~Started
    BY <2>1 DEF ScreenInit, Init, Started, Watched
  <2>3. TheSearch.matched = 0 /\ TheSearch.state \notin Finished
    BY <2>1, <2>2, WatchedFacts DEF ScreenInv, OneSearch, Finished
  <2>4. RowsShown(ScanOrder) = 0
    BY <2>1, <2>2, ShownFacts DEF Shown
  <2> QED BY <2>2, <2>3, <2>4 DEF Log!Init, TheSearch
<1>2. IInv /\ ScreenInv /\ [ScreenNext]_allVars => [Log!Next]_(Log!vars)
  BY LogStep
<1> QED BY <1>1, <1>2, ScreenInvariance, PTL DEF ScreenSpec, ReadsALog, Log!Spec
=============================================================================
