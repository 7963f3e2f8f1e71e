----------------------------- MODULE SearchJobs -----------------------------
(***************************************************************************)
(* The search service of the capture API (search/jobs.py), the route that  *)
(* starts a search (api/searches.py) and the idempotency store the route   *)
(* leans on (platform/idempotency.py).                                     *)
(*                                                                         *)
(* Everything runs on one event loop.  A handler has no await, so each one *)
(* is one action; a scan is a task that runs from one await to the next,   *)
(* so it is one action per leg.  Time is the number of ticks since a       *)
(* search was last read (idle) and since a key was stored (age); each      *)
(* saturates at its TTL, past which the code makes no distinction.         *)
(***************************************************************************)
EXTENDS Integers, Sequences, FiniteSets, Functions

CONSTANTS
  Families,             \* token families: signed-in sessions that may call
  UserOf,               \* the user every family belongs to
  Keys,                 \* values of the Idempotency-Key header
  NoKey,                \* a request that carries no such header
  Bodies,               \* request bodies, told apart by their fingerprint
  SlotsPerUser,         \* SLOTS_PER_USER
  IdleTTL,              \* IDLE_TTL_S, in ticks
  KeyTTL,               \* idempotency TTL_S, in ticks
  MaxEntries,           \* idempotency MAX_ENTRIES
  MaxRememberedExpired, \* MAX_REMEMBERED_EXPIRED
  ScanSteps,            \* SCAN_STEPS
  ScanFaults,           \* what chaos may say of fail_during_scan: {FALSE} when it is off
  MaxSearches,          \* bound: how many searches are ever created
  MaxTotal              \* bound: how many sessions a window holds

ASSUME SearchConstants ==
  /\ Families # {} /\ Bodies # {}
  /\ NoKey \notin Keys
  /\ {SlotsPerUser, IdleTTL, KeyTTL, MaxEntries, ScanSteps} \subseteq Nat \ {0}
  /\ {MaxRememberedExpired, MaxSearches, MaxTotal} \subseteq Nat
  /\ KeyTTL <= IdleTTL
  /\ ScanFaults \subseteq BOOLEAN

ASSUME FamiliesAssumption == UserOf \in [Families -> {UserOf[f] : f \in Families}]

VARIABLES
  jobs,     \* every SearchJob object ever made, by the number its id is made from
  live,     \* the ids in SearchService._jobs
  task,     \* what the scan task of each job is doing
  expired,  \* SearchService._expired, in insertion order (the owner is the job's)
  counter,  \* SearchService._counter
  records   \* IdempotencyStore._records: (family, key) -> body, search, age

vars == <<jobs, live, task, expired, counter, records>>

Ids == 1..MaxSearches
Slots == Families \X Keys
Users == {UserOf[f] : f \in Families}

Finished == {"done", "failed", "cancelled"}
States == {"unborn", "queued", "running"} \cup Finished

(* "ready": created and not entered yet; "paused": suspended in _pause;    *)
(* "cancelling": suspended, with a CancelledError on its way.              *)
TaskStates == {"none", "ready", "paused", "cancelling"}

Job == [family: Families, key: Keys \cup {NoKey}, body: Bodies, state: States,
        total: 0..MaxTotal, scanned: 0..MaxTotal, matched: 0..MaxTotal,
        failing: BOOLEAN,
        idle: 0..IdleTTL,
        age: 0..KeyTTL]    \* ticks since a key created it; read by properties only

Record == [body: Bodies, id: Ids, age: 0..KeyTTL]

TypeOK ==
  /\ jobs \in [Ids -> Job]
  /\ live \subseteq Ids
  /\ task \in [Ids -> TaskStates]
  /\ expired \in Seq(Ids)
  /\ counter \in 0..MaxSearches
  /\ DOMAIN records \subseteq Slots
  /\ records \in [DOMAIN records -> Record]

Unborn == [family |-> CHOOSE f \in Families : TRUE, key |-> NoKey,
           body |-> CHOOSE b \in Bodies : TRUE, state |-> "unborn",
           total |-> 0, scanned |-> 0, matched |-> 0, failing |-> FALSE,
           idle |-> 0, age |-> 0]

NoRecords == [s \in {} |-> {}]

Init ==
  /\ jobs = [i \in Ids |-> Unborn]
  /\ live = {}
  /\ task = [i \in Ids |-> "none"]
  /\ expired = << >>
  /\ counter = 0
  /\ records = NoRecords

-----------------------------------------------------------------------------
(* Time, for the jobs and records something can still read.                *)

Older(n, ttl) == IF n < ttl THEN n + 1 ELSE ttl

Tick ==
  /\ jobs' = [i \in Ids |-> IF i \in live
                              THEN [jobs[i] EXCEPT !.idle = Older(@, IdleTTL),
                                                   !.age = IF jobs[i].key = NoKey THEN 0
                                                           ELSE Older(@, KeyTTL)]
                              ELSE jobs[i]]
  /\ records' = [s \in DOMAIN records |-> [records[s] EXCEPT !.age = Older(@, KeyTTL)]]
  /\ UNCHANGED <<live, task, expired, counter>>

-----------------------------------------------------------------------------
(* Aborting and reaping.                                                   *)

(* A task that never started is dropped by the loop without running; one   *)
(* that is suspended sees a CancelledError at its await.                   *)
CancelTaskRunsOn(t) == IF t = "ready" THEN "none" ELSE t

CancelTask(t) == CASE t = "ready" -> "none"
                   [] t = "paused" -> "cancelling"
                   [] OTHER -> t

AbortAlways(job) == [job EXCEPT !.state = "cancelled"]

Abort(job) == IF job.state \in Finished THEN job ELSE [job EXCEPT !.state = "cancelled"]

AbortJobs(S) == [i \in Ids |-> IF i \in S THEN Abort(jobs[i]) ELSE jobs[i]]
AbortTasks(S) == [i \in Ids |-> IF i \in S THEN CancelTask(task[i]) ELSE task[i]]

IdleUnfinished == {i \in live : jobs[i].idle >= IdleTTL /\ jobs[i].state \notin Finished}

Idle == {i \in live : jobs[i].idle >= IdleTTL}

(* _reap walks the dict in insertion order, which is the order of ids.     *)
Ascending(S) == {s \in [1..Cardinality(S) -> S] :
                   \A m, n \in DOMAIN s : m < n => s[m] < s[n]}

LastOfOneMore(s, n) == IF Len(s) <= n + 1 THEN s ELSE SubSeq(s, Len(s) - n, Len(s))

LastOf(s, n) == IF Len(s) <= n THEN s ELSE SubSeq(s, Len(s) - n + 1, Len(s))

RememberExpired(order) == LastOf(expired \o order, MaxRememberedExpired)

(* What _reap leaves in _jobs, and everything it does.                     *)
Kept == live \ Idle

Reap ==
  /\ \E order \in Ascending(Idle) : expired' = RememberExpired(order)
  /\ jobs' = AbortJobs(Idle)
  /\ task' = AbortTasks(Idle)
  /\ live' = Kept
  /\ UNCHANGED <<counter, records>>

-----------------------------------------------------------------------------
(* The idempotency store.  Purged is the set of outcomes of _purge: ages   *)
(* in ticks leave the order of two records stored in one tick open.        *)

Oldest(r, n) ==
  {K \in SUBSET DOMAIN r :
     /\ Cardinality(K) = n
     /\ \A s \in K, t \in DOMAIN r \ K : r[s].age >= r[t].age}

Youngest(r, n) ==
  {K \in SUBSET DOMAIN r :
     /\ Cardinality(K) = n
     /\ \A s \in K, t \in DOMAIN r \ K : r[s].age <= r[t].age}

Purged ==
  LET fresh == Restrict(records, {s \in DOMAIN records : records[s].age < KeyTTL})
  IN  IF Cardinality(DOMAIN fresh) <= MaxEntries
        THEN {fresh}
        ELSE {Restrict(fresh, K) : K \in Youngest(fresh, MaxEntries)}

(* lookup purges; a request without a key never gets there.                *)
LookedUp(k) == IF k = NoKey THEN {records} ELSE Purged

RememberFirst(r, slot, record) ==
  [s \in DOMAIN r \cup {slot} |-> IF s \in DOMAIN r THEN r[s] ELSE record]

RememberKey(r, slot, record) ==
  [s \in DOMAIN r \cup {slot} |-> IF s = slot THEN record ELSE r[s]]

Known(r, f, k) == k # NoKey /\ <<f, k>> \in DOMAIN r

-----------------------------------------------------------------------------
(* POST /v1/searches, one action for each way it ends.                     *)

(* 422: the key was used with another body.                                *)
RefuseMismatch(f, k, b) ==
  \E r \in LookedUp(k) :
    /\ Known(r, f, k) /\ r[<<f, k>>].body # b
    /\ records' = r
    /\ UNCHANGED <<jobs, live, task, expired, counter>>

ReplayableUnfinished(r, f, k, b) ==
  /\ Known(r, f, k) /\ r[<<f, k>>].body = b
  /\ r[<<f, k>>].id \in live
  /\ jobs[r[<<f, k>>].id].state \notin Finished

Replayable(r, f, k, b) ==
  /\ Known(r, f, k) /\ r[<<f, k>>].body = b
  /\ r[<<f, k>>].id \in live

ReplayRenews(f, k, b) ==
  \E r \in LookedUp(k) :
    /\ Replayable(r, f, k, b)
    /\ records' = [r EXCEPT ![<<f, k>>].age = 0]
    /\ UNCHANGED <<jobs, live, task, expired, counter>>

(* 200: peek finds the search the key started, without reaping first and   *)
(* without touching it.                                                    *)
Replay(f, k, b) ==
  \E r \in LookedUp(k) :
    /\ Replayable(r, f, k, b)
    /\ records' = r
    /\ UNCHANGED <<jobs, live, task, expired, counter>>

GoesOn(r, f, k, b) ==
  /\ Known(r, f, k) => r[<<f, k>>].body = b
  /\ ~Replayable(r, f, k, b)

(* 503 from the chaos controller before anything is created.               *)
FailBeforeCommit(f, k, b) ==
  \E r \in LookedUp(k) :
    /\ GoesOn(r, f, k, b)
    /\ records' = r
    /\ UNCHANGED <<jobs, live, task, expired, counter>>

HeldUnfinished(u) ==
  {i \in Kept : UserOf[jobs[i].family] = u /\ jobs[i].state \notin Finished}

Held(u) == {i \in Kept : UserOf[jobs[i].family] = u}

(* 429 too_many_searches: every search in the dict counts, ended or not.   *)
RefuseSlots(f, k, b) ==
  \E r \in LookedUp(k), order \in Ascending(Idle) :
    /\ GoesOn(r, f, k, b)
    /\ Cardinality(Held(UserOf[f])) >= SlotsPerUser
    /\ records' = r
    /\ expired' = RememberExpired(order)
    /\ jobs' = AbortJobs(Idle)
    /\ task' = AbortTasks(Idle)
    /\ live' = Kept
    /\ UNCHANGED counter

NewJob(f, k, b, failing) ==
  [Unborn EXCEPT !.family = f, !.key = k, !.body = b, !.state = "queued", !.failing = failing]

(* 202, or a 503 after the commit: the search exists either way.           *)
Create(f, k, b, failing) ==
  \E r \in LookedUp(k), order \in Ascending(Idle) :
    LET new == counter + 1 IN
    /\ new <= MaxSearches
    /\ GoesOn(r, f, k, b)
    /\ Cardinality(Held(UserOf[f])) < SlotsPerUser
    /\ counter' = new
    /\ expired' = RememberExpired(order)
    /\ jobs' = [AbortJobs(Idle) EXCEPT ![new] = NewJob(f, k, b, failing)]
    /\ task' = [AbortTasks(Idle) EXCEPT ![new] = "ready"]
    /\ live' = Kept \cup {new}
    /\ records' = IF k = NoKey THEN r
                  ELSE RememberKey(r, <<f, k>>, [body |-> b, id |-> new, age |-> 0])

-----------------------------------------------------------------------------
(* Reading, deleting and resetting.                                        *)

Visible(f, i) == i \in Kept /\ UserOf[jobs[i].family] = UserOf[f]

(* GET of the search, of a page of its results or of its aggregates: each  *)
(* goes through SearchService.get, which reaps and then touches the job.   *)
Get(f, i) ==
  /\ Visible(f, i)
  /\ \E order \in Ascending(Idle) : expired' = RememberExpired(order)
  /\ jobs' = [AbortJobs(Idle) EXCEPT ![i].idle = 0]
  /\ task' = AbortTasks(Idle)
  /\ live' = Kept
  /\ UNCHANGED <<counter, records>>

(* The same request for an id that is gone or another user's: 410 while it *)
(* is remembered as expired and the caller's, 404 otherwise.               *)
AnswersExpired(f, i) ==
  /\ i \in Range(expired) /\ UserOf[jobs[i].family] = UserOf[f]

GetMissing(f, i) == ~Visible(f, i) /\ Reap

Forget(s, i) == IF i \in Range(s) THEN SelectSeq(s, LAMBDA e : e # i) ELSE s

Delete(f, i) ==
  /\ Visible(f, i)
  /\ \E order \in Ascending(Idle) : expired' = Forget(RememberExpired(order), i)
  /\ jobs' = AbortJobs(Idle \cup {i})
  /\ task' = AbortTasks(Idle \cup {i})
  /\ live' = Kept \ {i}
  /\ UNCHANGED <<counter, records>>

DeleteMissing(f, i) == ~Visible(f, i) /\ Reap

ResetStateRestarts ==
  /\ jobs' = AbortJobs(live)
  /\ task' = AbortTasks(live)
  /\ live' = {}
  /\ expired' = << >>
  /\ records' = NoRecords
  /\ counter' = 0

(* POST /v1/__admin/reset: the counter goes on, so ids are not used again. *)
ResetState ==
  /\ jobs' = AbortJobs(live)
  /\ task' = AbortTasks(live)
  /\ live' = {}
  /\ expired' = << >>
  /\ records' = NoRecords
  /\ UNCHANGED counter

-----------------------------------------------------------------------------
(* The scan: from one await to the next.                                   *)

Chunk(total) == IF total \div ScanSteps > 1 THEN total \div ScanSteps ELSE 1

PauseAtUncapped(n, total) == (n \div Chunk(total) + 1) * Chunk(total)

(* Where the leg that starts after n rows pauses: at a multiple of the     *)
(* chunk, or when the rows run out.                                        *)
PauseAt(n, total) ==
  LET next == (n \div Chunk(total) + 1) * Chunk(total)
  IN  IF next < total THEN next ELSE total

(* A scan told to fail raises once half the rows are behind it, but only   *)
(* while it handles a row: an empty window never fails.                    *)
FailAt(total) == IF total \div 2 > 1 THEN total \div 2 ELSE 1

Doomed(job) ==
  job.failing /\ job.scanned < job.total /\ PauseAt(job.scanned, job.total) >= FailAt(job.total)

LegEnd(job) == IF Doomed(job) THEN FailAt(job.total) ELSE PauseAt(job.scanned, job.total)

Settles(i, job, scanned, matched, state) ==
  /\ jobs' = [jobs EXCEPT ![i] = [job EXCEPT !.state = state, !.scanned = scanned,
                                             !.matched = matched]]
  /\ task' = [task EXCEPT ![i] = IF state \in Finished THEN "none" ELSE "paused"]
  /\ UNCHANGED <<live, expired, counter, records>>

LegMatchesFirst(i, job) ==
  \E scanned \in job.scanned..LegEnd(job) :
    \E matched \in job.matched..(job.matched + scanned + 1 - job.scanned) :
      \/ /\ scanned = LegEnd(job) /\ ~Doomed(job)
         /\ Settles(i, job, scanned, matched, "running")
      \/ Settles(i, job, scanned, matched, "failed")

(* One leg, of a job whose total is set: rows up to the next pause, any    *)
(* number of them matching; or the failure asked for, an error in the      *)
(* generator or an exhausted CPU budget, anywhere on the way.              *)
Leg(i, job) ==
  \E scanned \in job.scanned..LegEnd(job) :
    \E matched \in job.matched..(job.matched + scanned - job.scanned) :
      \/ /\ scanned = LegEnd(job) /\ ~Doomed(job)
         /\ Settles(i, job, scanned, matched, "running")
      \/ Settles(i, job, scanned, matched, "failed")

(* The task is entered: run sets the state and the scan sizes the window.  *)
TaskStart(i) ==
  /\ task[i] = "ready"
  /\ \E total \in 0..MaxTotal :
       Leg(i, [jobs[i] EXCEPT !.state = "running", !.total = total])

TaskStep(i) ==
  /\ task[i] = "paused"
  /\ jobs[i].scanned < jobs[i].total
  /\ Leg(i, jobs[i])

TaskDoneLate(i) ==
  /\ task[i] = "paused"
  /\ jobs[i].scanned > jobs[i].total
  /\ Settles(i, jobs[i], jobs[i].scanned, jobs[i].matched, "done")

(* The last pause is over and the rows have run out.                       *)
TaskDone(i) ==
  /\ task[i] = "paused"
  /\ jobs[i].scanned = jobs[i].total
  /\ Settles(i, jobs[i], jobs[i].scanned, jobs[i].matched, "done")

(* The CancelledError arrives.                                             *)
TaskCancelled(i) ==
  /\ task[i] = "cancelling"
  /\ Settles(i, jobs[i], jobs[i].scanned, jobs[i].matched, "cancelled")

-----------------------------------------------------------------------------
CreateSearch(f, k, b) ==
  \/ RefuseMismatch(f, k, b)
  \/ Replay(f, k, b)
  \/ FailBeforeCommit(f, k, b)
  \/ RefuseSlots(f, k, b)
  \/ \E failing \in ScanFaults : Create(f, k, b, failing)

Request(f) ==
  \/ \E k \in Keys \cup {NoKey}, b \in Bodies : CreateSearch(f, k, b)
  \/ \E i \in Ids : Get(f, i) \/ GetMissing(f, i) \/ Delete(f, i) \/ DeleteMissing(f, i)

Scan(i) == TaskStart(i) \/ TaskStep(i) \/ TaskDone(i) \/ TaskCancelled(i)

Next ==
  \/ Tick
  \/ Reap
  \/ ResetState
  \/ \E f \in Families : Request(f)
  \/ \E i \in Ids : Scan(i)

Spec == Init /\ [][Next]_vars

(* The loop runs every task that is ready, the clock moves, and the reaper *)
(* is a task that wakes for as long as the service is up.                  *)
FairSpec ==
  /\ Spec
  /\ WF_vars(Tick)
  /\ WF_vars(Reap)
  /\ \A i \in Ids : WF_vars(Scan(i))

-----------------------------------------------------------------------------
(* Properties.                                                             *)

(* No user ever holds more than SLOTS_PER_USER searches, over all of the   *)
(* user's sessions and whatever retries, failures and reaping came before. *)
SlotBound ==
  \A u \in Users :
    Cardinality({i \in live : UserOf[jobs[i].family] = u}) <= SlotsPerUser

SameKey(i, j) ==
  jobs[i].key # NoKey /\ jobs[i].key = jobs[j].key /\ jobs[i].family = jobs[j].family

(* A retry never starts a twin: of two live searches that one session      *)
(* started under one key, the older has outlived the key's TTL.            *)
NoTwin ==
  \A i, j \in live :
    (i # j /\ SameKey(i, j)) => (jobs[i].age = KeyTTL \/ jobs[j].age = KeyTTL)

(* For as long as a key is remembered, a retry finds the search it started *)
(* if that search is still there: this is what NoTwin rests on.            *)
KeyFindsItsSearch ==
  \A i \in live :
    LET slot == <<jobs[i].family, jobs[i].key>> IN
    (jobs[i].key # NoKey /\ jobs[i].age < KeyTTL) =>
      /\ slot \in DOMAIN records
      /\ records[slot].id = i
      /\ records[slot].body = jobs[i].body

(* peek may do without reaping: a record young enough to be replayed never *)
(* names a search that has been idle long enough to be discarded.          *)
ReplayIsAlive ==
  \A s \in DOMAIN records :
    (records[s].age < KeyTTL /\ records[s].id \in live) =>
      jobs[records[s].id].idle < IdleTTL

(* A search in the dict that has not ended has a task that will end it,    *)
(* and a search that left the dict is not being scanned any more.          *)
ScansFollowJobs ==
  \A i \in Ids :
    /\ IF i \in live
         THEN (jobs[i].state \in {"queued", "running"}) <=> (task[i] \in {"ready", "paused"})
         ELSE task[i] \in {"none", "cancelling"}
    /\ task[i] = "cancelling" => jobs[i].state = "cancelled"

(* The counts a client is shown agree at every await: no more matches than *)
(* rows scanned, no more rows than the window holds, and nothing scanned   *)
(* before the task is entered.                                             *)
CountsAgree ==
  \A i \in Ids : /\ jobs[i].matched <= jobs[i].scanned
                 /\ jobs[i].scanned <= jobs[i].total
                 /\ task[i] = "ready" => jobs[i].scanned = 0

(* An id names one search for ever: nothing refers to a search that was    *)
(* not created, and a reset does not make old ids come back.               *)
IdsNeverReused ==
  /\ \A i \in Ids : jobs[i].state = "unborn" <=> i > counter
  /\ \A i \in live : i <= counter
  /\ \A i \in Range(expired) : i <= counter
  /\ \A s \in DOMAIN records : records[s].id <= counter

(* A search is never live and expired at once, and is remembered once: the *)
(* 410 answer and the search never compete for an id.                      *)
ExpiredIsGone ==
  /\ Range(expired) \cap live = {}
  /\ IsInjective(expired)
  /\ Len(expired) <= MaxRememberedExpired

(* What a client is told of an id is right at every moment: a live search, *)
(* a 410 or a replay, never two of them, and a key answers with the search *)
(* it started while both are there (jobs.py:281, idempotency.py:75).       *)
AnswersAreRight ==
  /\ ExpiredIsGone
  /\ KeyFindsItsSearch
  /\ ReplayIsAlive

(* A key is forgotten before its time only in a full store, and only in    *)
(* favour of keys stored no earlier: the search whose retry would start a  *)
(* twin is older than every search whose retry would not.                  *)
ForgottenInOrder ==
  \A i \in live :
    (/\ jobs[i].key # NoKey /\ jobs[i].age < KeyTTL
     /\ <<jobs[i].family, jobs[i].key>> \notin DOMAIN records)
    => /\ Cardinality(DOMAIN records) >= MaxEntries
       /\ \A s \in DOMAIN records : records[s].age <= jobs[i].age

(* What a finished search says never changes: neither its state nor its    *)
(* rows, so a page that answered complete: true was really the last one.   *)
(* In particular no task revives a search that was aborted under it.       *)
FinishedIsFinal ==
  [][\A i \in Ids : jobs[i].state \in Finished =>
       /\ jobs'[i].state = jobs[i].state
       /\ jobs'[i].scanned = jobs[i].scanned
       /\ jobs'[i].matched = jobs[i].matched]_vars

PercentOfNothing(job) ==
  IF job.state \in Finished \/ job.total = 0 THEN 100 ELSE (job.scanned * 100) \div job.total

Percent(job) ==
  IF job.state \in Finished THEN 100
  ELSE IF job.total = 0 THEN 0 ELSE (job.scanned * 100) \div job.total

(* The progress a client polls never goes backwards.                       *)
PercentNeverDrops ==
  [][\A i \in Ids : Percent(jobs'[i]) >= Percent(jobs[i])]_vars

(* Every scan that is started comes to an end.                             *)
EveryScanEnds ==
  \A i \in Ids : task[i] # "none" ~> task[i] = "none"

(* A slot nobody uses comes back: no search stays in the dict for ever     *)
(* without being read.                                                     *)
AbandonedSlotFreed ==
  \A i \in Ids : []<>(i \notin live \/ jobs[i].idle = 0)

(* Nothing a search holds is held for ever, and its progress goes one way: *)
(* the scan ends, the percentage does not drop, and a search nobody reads  *)
(* is discarded (jobs.py:409-470).                                         *)
ScansProgress ==
  /\ PercentNeverDrops
  /\ EveryScanEnds
  /\ AbandonedSlotFreed
=============================================================================
