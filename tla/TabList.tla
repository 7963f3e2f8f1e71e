------------------------------ MODULE TabList ------------------------------
(***************************************************************************)
(* The detections on the screens of a session's tabs: a first read, shared *)
(* between everybody who asks within a window (lib/api/hold.ts,            *)
(* app/api/capture/detections/route.ts), merged with what arrives from a   *)
(* feed that keeps FeedPromise while the tab is attached                   *)
(* (lib/detections/use-detections.ts, merge.ts).                           *)
(***************************************************************************)
EXTENDS FeedPromise, FiniteSets

CONSTANTS
  Tabs,      \* tabs of this session
  Users,     \* who asks the web app for a first list
  Nobody,    \* none of them
  Me,        \* the user of this session
  Sees,      \* which detections each of them may see
  SeedLimit, \* SEED_LIMIT
  ListLimit  \* RING_SIZE of merge.ts

ASSUME ListConstants ==
  /\ Me \in Users /\ Nobody \notin Users
  /\ Sees \in [Users -> SUBSET (1..LastSeq)] /\ Sees[Me] = Wanted
  /\ SeedLimit \in Nat \ {0} /\ ListLimit \in Nat \ {0}

VARIABLES
  slot,       \* what is held under the key of this read, whose read is in flight, what the API said
  tab,        \* every tab
  overflowed  \* history: what a full queue took from the feed

listVars == <<promiseVars, slot, tab, overflowed>>

Answers == [by: Users \cup {Nobody}, rows: SUBSET (1..LastSeq), head: 0..LastSeq]
NoAnswer == [by |-> Nobody, rows |-> {}, head |-> 0]

(* since: what the feed knew when the tab attached to it.                  *)
TabStates == [open: BOOLEAN, attached: BOOLEAN, since: 0..Unknown, asks: BOOLEAN,
              seed: Answers, arrived: SUBSET (1..LastSeq), restarted: BOOLEAN]
Shut == [open |-> FALSE, attached |-> FALSE, since |-> Unknown, asks |-> FALSE,
         seed |-> NoAnswer, arrived |-> {}, restarted |-> FALSE]

ListTypeOK ==
  /\ PromiseTypeOK
  /\ slot \in [held: Answers, asker: Users \cup {Nobody}, answer: Answers]
  /\ tab \in [Tabs -> TabStates]
  /\ overflowed \subseteq 1..LastSeq

ListInit ==
  /\ PromiseInit
  /\ slot = [held |-> NoAnswer, asker |-> Nobody, answer |-> NoAnswer]
  /\ tab = [t \in Tabs |-> Shut]
  /\ overflowed = {}

(* The first of a list that is sorted, newest first.                       *)
OldestFirst(S, n) == {d \in S : Cardinality({e \in S : e < d}) < n}
Newest(S, n) == {d \in S : Cardinality({e \in S : e > d}) < n}

-----------------------------------------------------------------------------
(* The first read.                                                         *)

(* An answer that is held is given at once; otherwise one read is sent and *)
(* everybody who asks meanwhile waits for it.                              *)
AskSeed(t) ==
  /\ tab[t].open /\ tab[t].seed = NoAnswer /\ ~tab[t].asks
  /\ IF slot.held # NoAnswer
       THEN tab' = [tab EXCEPT ![t].seed = slot.held] /\ UNCHANGED slot
       ELSE /\ tab' = [tab EXCEPT ![t].asks = TRUE]
            /\ slot' = IF slot.asker = Nobody THEN [slot EXCEPT !.asker = Me] ELSE slot
  /\ UNCHANGED <<promiseVars, overflowed>>

OtherAsks(u) ==
  /\ u # Me /\ slot.held = NoAnswer /\ slot.asker = Nobody
  /\ slot' = [slot EXCEPT !.asker = u]
  /\ UNCHANGED <<promiseVars, tab, overflowed>>

(* GET /v1/detections, for who asked first.                                *)
ServeSeed ==
  /\ slot.asker # Nobody /\ slot.answer = NoAnswer
  /\ slot' = [slot EXCEPT !.answer =
       [by |-> slot.asker, rows |-> Newest(Sees[slot.asker] \cap 1..latest, SeedLimit),
        head |-> latest]]
  /\ UNCHANGED <<promiseVars, tab, overflowed>>

ReadIsOver(held) == slot' = [held |-> held, asker |-> Nobody, answer |-> NoAnswer]

HearSeedReplaces ==
  /\ slot.answer # NoAnswer
  /\ ReadIsOver(slot.answer)
  /\ tab' = [t \in Tabs |-> IF tab[t].asks
       THEN [tab[t] EXCEPT !.asks = FALSE, !.seed = slot.answer, !.arrived = {}] ELSE tab[t]]
  /\ UNCHANGED <<promiseVars, overflowed>>

HearSeed ==
  /\ slot.answer # NoAnswer
  /\ ReadIsOver(slot.answer)
  /\ tab' = [t \in Tabs |-> IF tab[t].asks
       THEN [tab[t] EXCEPT !.asks = FALSE, !.seed = slot.answer] ELSE tab[t]]
  /\ UNCHANGED <<promiseVars, overflowed>>

(* A read that fails is not kept.                                          *)
SeedFails ==
  /\ slot.asker # Nobody
  /\ ReadIsOver(slot.held)
  /\ tab' = [t \in Tabs |-> [tab[t] EXCEPT !.asks = FALSE]]
  /\ UNCHANGED <<promiseVars, overflowed>>

WindowOver ==
  /\ slot.held # NoAnswer
  /\ slot' = [slot EXCEPT !.held = NoAnswer]
  /\ UNCHANGED <<promiseVars, tab, overflowed>>

-----------------------------------------------------------------------------
(* The screen.                                                             *)

Mount(t) ==
  /\ ~tab[t].open
  /\ tab' = [tab EXCEPT ![t].open = TRUE]
  /\ UNCHANGED <<promiseVars, slot, overflowed>>

(* The EventSource connects, or does so again by itself.                   *)
AttachTab(t) ==
  /\ tab[t].open /\ ~tab[t].attached
  /\ tab' = [tab EXCEPT ![t].attached = TRUE, ![t].since = resumeFrom]
  /\ UNCHANGED <<promiseVars, slot, overflowed>>

LoseTab(t) ==
  /\ tab[t].attached
  /\ tab' = [tab EXCEPT ![t].attached = FALSE, ![t].since = Unknown]
  /\ UNCHANGED <<promiseVars, slot, overflowed>>

(* What arrived goes with the screen; the first read stays in the cache.   *)
Unmount(t) ==
  /\ tab[t].open
  /\ tab' = [tab EXCEPT ![t] = [Shut EXCEPT !.seed = tab[t].seed]]
  /\ UNCHANGED <<promiseVars, slot, overflowed>>

CacheForgets(t) ==
  /\ ~tab[t].open /\ tab[t].seed # NoAnswer
  /\ tab' = [tab EXCEPT ![t].seed = NoAnswer]
  /\ UNCHANGED <<promiseVars, slot, overflowed>>

-----------------------------------------------------------------------------
(* The feed, and what the tabs that are attached hear of it.               *)

FeedReleases(now, lost) ==
  /\ Release(now, lost)
  /\ overflowed' = overflowed \cup lost
  /\ UNCHANGED <<slot, tab>>

FeedStarts(head) ==
  /\ Starts(head)
  /\ tab' = [t \in Tabs |-> IF tab[t].attached THEN [tab[t] EXCEPT !.since = head] ELSE tab[t]]
  /\ UNCHANGED <<slot, overflowed>>

FeedAnnounces(d) ==
  /\ Announce(d)
  /\ tab' = [t \in Tabs |-> IF tab[t].attached
       THEN [tab[t] EXCEPT !.arrived = Newest(@ \cup {d}, ListLimit)] ELSE tab[t]]
  /\ UNCHANGED <<slot, overflowed>>

FeedDeclares(last) ==
  /\ Declare(last)
  /\ tab' = [t \in Tabs |-> IF tab[t].attached THEN [tab[t] EXCEPT !.restarted = TRUE] ELSE tab[t]]
  /\ UNCHANGED <<slot, overflowed>>

FeedStops == StopForGood /\ UNCHANGED <<slot, tab, overflowed>>

FeedForgotten ==
  /\ Forget
  /\ tab' = [t \in Tabs |-> [tab[t] EXCEPT !.attached = FALSE, !.since = Unknown]]
  /\ overflowed' = {}
  /\ UNCHANGED slot

ListNext ==
  \/ \E t \in Tabs :
       AskSeed(t) \/ Mount(t) \/ AttachTab(t) \/ LoseTab(t) \/ Unmount(t) \/ CacheForgets(t)
  \/ \E u \in Users : OtherAsks(u)
  \/ ServeSeed \/ HearSeed \/ SeedFails \/ WindowOver
  \/ \E now, d \in 0..LastSeq : FeedReleases(now, Wanted \cap {d})
  \/ \E d \in 0..LastSeq : FeedStarts(d) \/ FeedAnnounces(d) \/ FeedDeclares(d)
  \/ FeedStops \/ FeedForgotten

ListSpec == ListInit /\ [][ListNext]_listVars

-----------------------------------------------------------------------------
(* Properties.                                                             *)

OnScreen(t) == Newest(tab[t].arrived \cup tab[t].seed.rows, ListLimit)

(* The tab attached before the detections its own first list lacks, and    *)
(* has not been cut off since.                                             *)
Overlaps(t) ==
  tab[t].open /\ tab[t].attached /\ tab[t].seed.by = Me /\ tab[t].since <= tab[t].seed.head

(* The list has no hole a user is not told of: if the first list and the   *)
(* stream overlap, what is missing below what is known and above the       *)
(* oldest row is what a full queue took, or what lies behind the notice    *)
(* that the feed restarted, however reads, arrivals and windows interleave.*)
ListHasNoHole ==
  \A t \in Tabs : Overlaps(t) =>
    \A d \in Wanted \ OnScreen(t) :
      /\ d <= resumeFrom
      /\ \E e \in OnScreen(t) : e < d
      /\ tab[t].seed.rows = {} \/ \E e \in tab[t].seed.rows : e <= d
      => d \in overflowed \/ (tab[t].restarted /\ d \in excused)

(* What a tab shows follows from what its feed promises.                   *)
ListsAreWhole ==
  /\ ListTypeOK
  /\ NothingIsSkipped
  /\ ListHasNoHole
=============================================================================
