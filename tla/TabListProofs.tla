--------------------------- MODULE TabListProofs ---------------------------
(***************************************************************************)
(* Theorems of TabList, for any number of tabs, users and detections and   *)
(* every length of the first list and of the list on screen: a tab whose   *)
(* first list and stream overlap shows no hole it does not tell of.        *)
(***************************************************************************)
EXTENDS TabList, FiniteSetTheorems, WellFoundedInduction, TLAPS

-----------------------------------------------------------------------------
(* The newest of a set.                                                    *)

\* A set of numbers with a bound has a greatest.
LEMMA GreatestExists ==
  ASSUME NEW N \in Nat, NEW T \in SUBSET (1..N), T # {}
  PROVE  \E x \in T : \A y \in T : y <= x
<1> DEFINE U == {k \in Nat : \A y \in T : y <= k}
<1>1. U \subseteq Nat /\ U # {}
      BY N \in U
<1>2. PICK m \in U : \A k \in U : ~ (<<k, m>> \in OpToRel(<, Nat))
  <2> HIDE DEF U
  <2> QED BY <1>1, WFMin, NatLessThanWellFounded, Zenon
<1>3. \A k \in U : ~ (k < m)
      BY <1>1, <1>2, Zenon DEF OpToRel
<1>4. m \in T
  <2> SUFFICES ASSUME m \notin T PROVE FALSE
      OBVIOUS
  <2>1. PICK y \in T : y \in 1..N
        OBVIOUS
  <2>2. m \in Nat /\ y <= m /\ m >= 1
        BY <2>1
  <2>3. \A z \in T : z <= m - 1
        BY <2>2
  <2>4. m - 1 \in U
        BY <2>2, <2>3
  <2> QED BY <1>3, <2>2, <2>4
<1> QED BY <1>4

Above(S, d) == {e \in S : e > d}

LEMMA AboveIsFinite ==
  ASSUME NEW N \in Nat, NEW S \in SUBSET (1..N), NEW d \in Nat
  PROVE  /\ IsFiniteSet(S) /\ IsFiniteSet(Above(S, d))
         /\ Cardinality(S) \in Nat /\ Cardinality(Above(S, d)) \in Nat
<1>1. IsFiniteSet(1..N)
      BY FS_Interval
<1>2. IsFiniteSet(S)
      BY <1>1, FS_Subset
<1>3. Above(S, d) \in SUBSET S
      BY DEF Above
<1>4. IsFiniteSet(Above(S, d))
      BY <1>2, <1>3, FS_Subset
<1> QED BY <1>2, <1>4, FS_CardinalityType

LEMMA MoreAreAbove ==
  ASSUME NEW N \in Nat, NEW S \in SUBSET (1..N), NEW R \in SUBSET S,
         NEW c \in Nat, NEW d \in Nat, Above(R, c) \subseteq Above(S, d)
  PROVE  Cardinality(Above(R, c)) <= Cardinality(Above(S, d))
<1>1. IsFiniteSet(Above(S, d))
      BY AboveIsFinite
<1> QED BY <1>1, FS_Subset

\* What is left out is older than everything that is kept.
LEMMA LeftOutIsOlder ==
  ASSUME NEW N \in Nat, NEW S \in SUBSET (1..N), NEW n \in Nat \ {0},
         NEW d \in S \ Newest(S, n)
  PROVE  /\ Cardinality(Above(S, d)) >= n
         /\ \A e \in Newest(S, n) : e > d
<1>1. \A e \in S : Cardinality(Above(S, e)) \in Nat /\ (e \in Newest(S, n) <=> Cardinality(Above(S, e)) < n)
  <2> SUFFICES ASSUME NEW e \in S
               PROVE  /\ Cardinality(Above(S, e)) \in Nat
                      /\ e \in Newest(S, n) <=> Cardinality(Above(S, e)) < n
      OBVIOUS
  <2>1. e \in Nat
        OBVIOUS
  <2>2. Cardinality(Above(S, e)) \in Nat
        BY <2>1, AboveIsFinite
  <2> QED BY <2>2 DEF Newest, Above
<1>2. Cardinality(Above(S, d)) >= n
      BY <1>1
<1>3. ASSUME NEW e \in Newest(S, n), ~ (e > d) PROVE FALSE
  <2>1. e \in S /\ e \in Nat /\ d \in Nat /\ e <= d
        BY <1>3 DEF Newest
  <2>2. \A z \in S : z \in Nat /\ (z > d => z > e)
        BY <2>1
  <2>5. Above(S, d) \subseteq Above(S, e)
        BY <2>2 DEF Above
  <2>3. Cardinality(Above(S, d)) <= Cardinality(Above(S, e))
        BY <2>1, <2>5, MoreAreAbove
  <2>4. Cardinality(Above(S, e)) < n
        BY <1>1, <1>3, <2>1
  <2> QED BY <1>1, <1>2, <2>1, <2>3, <2>4
<1> QED BY <1>2, <1>3

\* What had as many above it as are kept still has.
LEMMA CutStaysCut ==
  ASSUME NEW N \in Nat, NEW S \in SUBSET (1..N), NEW n \in Nat \ {0}, NEW d \in Nat,
         Cardinality(Above(S, d)) >= n
  PROVE  Cardinality(Above(Newest(S, n), d)) >= n
<1> DEFINE K == Newest(S, n)
           Out == Above(S, d) \ K
<1>1. K \in SUBSET S /\ K \in SUBSET (1..N) /\ Out \in SUBSET (1..N)
      BY DEF Newest, Above
<1>2. CASE Out = {}
  <2>1. Above(S, d) \subseteq Above(K, d) /\ S \in SUBSET (1..N) /\ Above(K, d) = Above(S, d)
        BY <1>1, <1>2 DEF Above
  <2> QED BY <2>1
<1>3. CASE Out # {}
  <2>1. PICK x \in Out : \A y \in Out : y <= x
    <3> HIDE DEF Out
    <3> QED BY <1>1, <1>3, GreatestExists
  <2>2. x \in S \ K /\ x > d /\ x \in Nat
        BY <1>1, <2>1 DEF Above
  <2>3. Cardinality(Above(S, x)) >= n
        BY <2>2, LeftOutIsOlder
  <2>4. Above(S, x) \subseteq Above(K, d)
    <3> SUFFICES ASSUME NEW e \in S, e > x PROVE e \in K /\ e > d
        BY DEF Above
    <3>1. e \in Nat /\ e > d
          BY <2>2
    <3>2. e \notin Out
          BY <2>1, <2>2, <3>1
    <3> QED BY <3>1, <3>2 DEF Above
  <2>5. Above(K, d) \subseteq S /\ Above(S, x) \subseteq S /\ IsFiniteSet(Above(K, d)) /\ IsFiniteSet(Above(S, x))
        BY <1>1, <2>2, AboveIsFinite DEF Above
  <2>6. Cardinality(Above(S, x)) <= Cardinality(Above(K, d))
        BY <2>4, <2>5, FS_Subset
  <2>7. Cardinality(Above(S, x)) \in Nat /\ Cardinality(Above(K, d)) \in Nat
        BY <2>5, FS_CardinalityType
  <2> QED BY <2>3, <2>6, <2>7
<1> QED BY <1>2, <1>3

\* Something is kept of whatever there is.
LEMMA SomeAreKept ==
  ASSUME NEW N \in Nat, NEW S \in SUBSET (1..N), NEW n \in Nat \ {0}, S # {}
  PROVE  Newest(S, n) # {}
<1>1. PICK x \in S : \A y \in S : y <= x
      BY GreatestExists
<1>4. \A e \in S : e \in Nat /\ ~ (e > x)
      BY <1>1
<1>2. {e \in S : e > x} = {}
      BY <1>4
<1>3. Cardinality({e \in S : e > x}) = 0
      BY <1>2, FS_EmptySet
<1> QED BY <1>3 DEF Newest

-----------------------------------------------------------------------------
(* The inductive invariant.                                                *)

\* An answer is what the API had when it gave it: nothing its reader may see
\* is missing but what is older than all of it.
TrueAt(a, now) ==
  a.by # Nobody =>
    /\ a.head <= now
    /\ a.rows \subseteq 1..a.head
    /\ \A d \in Sees[a.by] \cap 1..a.head :
         d \in a.rows \/ (a.rows # {} /\ \A e \in a.rows : e > d)

AnswersAreTrue ==
  /\ TrueAt(slot.held, latest) /\ TrueAt(slot.answer, latest)
  /\ \A t \in Tabs : TrueAt(tab[t].seed, latest)

\* Nothing ahead of the feed is excused but what a full queue took.
FeedIsPlain ==
  /\ start = Unknown <=> resumeFrom = Unknown
  /\ start # Unknown => start <= resumeFrom /\ resumeFrom <= latest
  /\ \A d \in excused : d \in overflowed \/ (start # Unknown /\ d <= resumeFrom)

\* Whatever the feed went by since a tab attached has arrived there, was
\* pushed out by newer ones, was taken by a full queue, or lies behind a
\* notice.
Passed(r, d) ==
  \/ d \in r.arrived \/ Cardinality(Above(r.arrived, d)) >= ListLimit
  \/ d \in overflowed \/ (r.restarted /\ d \in excused)

Follows(r) ==
  r.attached =>
    /\ r.since = Unknown <=> start = Unknown
    /\ start # Unknown => /\ r.since <= resumeFrom
                          /\ \A d \in Since(r.since, resumeFrom) : Passed(r, d)

TabsFollow == \A t \in Tabs : Follows(tab[t])

IInv ==
  /\ ListTypeOK
  /\ NothingIsSkipped
  /\ AnswersAreTrue
  /\ FeedIsPlain
  /\ TabsFollow

LEMMA ListInitInv == ListInit => IInv
<1> SUFFICES ASSUME ListInit PROVE IInv
    OBVIOUS
<1> USE PromiseConstants, ListConstants DEF ListInit, PromiseInit
<1>1. ListTypeOK
  <2>1. PromiseTypeOK
    <3>1. LastSeq \in Nat /\ LastSeq + 1 \in Nat
          OBVIOUS
    <3>2. << >> \in Seq(1..LastSeq) /\ {} \subseteq 1..LastSeq /\ FALSE \in BOOLEAN
          OBVIOUS
    <3>3. 0 \in 0..LastSeq /\ LastSeq + 1 \in 0..(LastSeq + 1)
          BY <3>1
    <3> QED BY <3>2, <3>3 DEF PromiseTypeOK, Unknown
  <2>2. NoAnswer \in Answers
        BY DEF NoAnswer, Answers
  <2>3. Shut \in TabStates
        BY <2>2 DEF Shut, TabStates, Unknown
  <2>4. slot \in [held: Answers, asker: Users \cup {Nobody}, answer: Answers]
        BY <2>2
  <2>5. tab \in [Tabs -> TabStates] /\ overflowed \subseteq 1..LastSeq
        BY <2>3
  <2> QED BY <2>1, <2>4, <2>5 DEF ListTypeOK
<1>2. NothingIsSkipped
      BY DEF NothingIsSkipped, Range, Since
<1>3. AnswersAreTrue
      BY DEF AnswersAreTrue, TrueAt, NoAnswer, Shut
<1>4. FeedIsPlain /\ TabsFollow
      BY DEF FeedIsPlain, TabsFollow, Follows, Shut
<1> QED BY <1>1, <1>2, <1>3, <1>4 DEF IInv

-----------------------------------------------------------------------------
(* Why there is no hole.                                                   *)

LEMMA NoHole == IInv => ListHasNoHole
<1> SUFFICES ASSUME IInv, NEW t \in Tabs, Overlaps(t),
                    NEW d \in Wanted \ OnScreen(t), d <= resumeFrom,
                    NEW low \in OnScreen(t), low < d,
                    tab[t].seed.rows = {} \/ \E e \in tab[t].seed.rows : e <= d
             PROVE  d \in overflowed \/ (tab[t].restarted /\ d \in excused)
    BY DEF ListHasNoHole
<1> USE PromiseConstants, ListConstants
<1> DEFINE r == tab[t]
           both == r.arrived \cup r.seed.rows
<1>1. /\ LastSeq \in Nat /\ ListLimit \in Nat \ {0} /\ d \in 1..LastSeq /\ d \in Nat
      /\ r \in TabStates /\ r.seed \in Answers
      /\ both \in SUBSET (1..LastSeq) /\ r.arrived \in SUBSET (1..LastSeq)
      /\ r.since \in 0..Unknown /\ r.seed.head \in 0..LastSeq
      /\ r.attached /\ r.seed.by = Me /\ r.since <= r.seed.head
      BY DEF IInv, ListTypeOK, TabStates, Answers, Overlaps
<1>2. OnScreen(t) = Newest(both, ListLimit)
      BY DEF OnScreen
<1>3. d \notin both
  <2> SUFFICES ASSUME d \in both PROVE FALSE
      OBVIOUS
  <2>1. low > d
    <3>1. d \in both \ Newest(both, ListLimit) /\ low \in Newest(both, ListLimit)
          BY <1>2
    <3> HIDE DEF both
    <3>2. \A e \in Newest(both, ListLimit) : e > d
          BY <1>1, <3>1, LeftOutIsOlder
    <3> QED BY <3>1, <3>2
  <2>2. low \in 1..LastSeq
        BY <1>1, <1>2 DEF Newest
  <2> QED BY <1>1, <2>1, <2>2
<1>4. start # Unknown /\ r.since # Unknown
      BY <1>1 DEF IInv, TabsFollow, Follows, Unknown
<1>5. ~ (d <= r.since)
  <2> SUFFICES ASSUME d <= r.since PROVE FALSE
      OBVIOUS
  <2>1. TrueAt(r.seed, latest) /\ Me # Nobody
        BY DEF IInv, AnswersAreTrue
  <2>2. d \in Sees[Me] \cap 1..r.seed.head
        BY <1>1
  <2>3. r.seed.rows # {} /\ \A e \in r.seed.rows : e > d /\ e \in Nat
        BY <1>1, <1>3, <2>1, <2>2 DEF TrueAt, Answers
  <2> QED BY <1>1, <2>3
<1>6. d \in Since(r.since, resumeFrom)
      BY <1>1, <1>5 DEF Since
<1>7. Passed(r, d)
      BY <1>1, <1>4, <1>6 DEF IInv, TabsFollow, Follows
<1>8. ~ (Cardinality(Above(r.arrived, d)) >= ListLimit)
  <2> SUFFICES ASSUME Cardinality(Above(r.arrived, d)) >= ListLimit PROVE FALSE
      OBVIOUS
  <2>1. low \in both /\ low \in 1..LastSeq /\ low \in Nat /\ Cardinality({e \in both : e > low}) < ListLimit
        BY <1>1, <1>2 DEF Newest
  <2>2. Above(r.arrived, d) \subseteq Above(both, low)
    <3>1. \A e \in r.arrived : e \in Nat /\ (e > d => e > low)
          BY <1>1, <2>1
    <3> QED BY <3>1 DEF Above
  <2>3. Cardinality(Above(r.arrived, d)) <= Cardinality(Above(both, low))
    <3>1. r.arrived \in SUBSET both
          OBVIOUS
    <3> HIDE DEF both
    <3> QED BY <1>1, <2>1, <2>2, <3>1, MoreAreAbove
  <2>4. Cardinality(Above(r.arrived, d)) \in Nat /\ Cardinality(Above(both, low)) \in Nat
    <3> HIDE DEF both
    <3> QED BY <1>1, <2>1, AboveIsFinite
  <2>5. Cardinality(Above(both, low)) < ListLimit
        BY <2>1 DEF Above
  <2> QED BY <1>1, <2>3, <2>4, <2>5
<1> QED BY <1>3, <1>7, <1>8 DEF Passed

-----------------------------------------------------------------------------
(* Steps of readers and screens, of which the feed knows nothing.          *)

Slots == [held: Answers, asker: Users \cup {Nobody}, answer: Answers]

\* A tab that is attached afterwards was and hears on, or attached just now.
HearsOn(r, s) ==
  s.attached =>
    \/ r.attached /\ s.since = r.since /\ s.arrived = r.arrived /\ s.restarted = r.restarted
    \/ s.since = resumeFrom

LEMMA ScreenStep ==
  ASSUME IInv, UNCHANGED <<promiseVars, overflowed>>,
         slot' \in Slots, TrueAt(slot'.held, latest), TrueAt(slot'.answer, latest),
         tab' \in [Tabs -> TabStates],
         \A t \in Tabs : TrueAt(tab'[t].seed, latest) /\ HearsOn(tab[t], tab'[t])
  PROVE  IInv'
<1> USE DEF promiseVars
<1>1. ListTypeOK'
      BY DEF IInv, ListTypeOK, PromiseTypeOK, Slots
<1>2. NothingIsSkipped' /\ FeedIsPlain'
      BY DEF IInv, NothingIsSkipped, FeedIsPlain, Since
<1>3. AnswersAreTrue'
      BY DEF AnswersAreTrue
<1>4. TabsFollow'
  <2> SUFFICES ASSUME NEW t \in Tabs, tab'[t].attached
               PROVE  /\ tab'[t].since = Unknown <=> start = Unknown
                      /\ start # Unknown =>
                           /\ tab'[t].since <= resumeFrom
                           /\ \A d \in Since(tab'[t].since, resumeFrom) : Passed(tab'[t], d)
      BY DEF TabsFollow, Follows, Passed, Since
  <2>1. CASE tab[t].attached /\ tab'[t].since = tab[t].since
             /\ tab'[t].arrived = tab[t].arrived /\ tab'[t].restarted = tab[t].restarted
        BY <2>1 DEF IInv, TabsFollow, Follows, Passed
  <2>2. CASE tab'[t].since = resumeFrom
    <3>1. resumeFrom \in Nat
          BY PromiseConstants DEF IInv, ListTypeOK, PromiseTypeOK, Unknown
    <3>2. Since(resumeFrom, resumeFrom) = {}
      <4>1. \A d \in Wanted : ~ (resumeFrom < d /\ d <= resumeFrom)
            BY <3>1, PromiseConstants
      <4> QED BY <4>1 DEF Since
    <3>3. start = Unknown <=> resumeFrom = Unknown
          BY DEF IInv, FeedIsPlain
    <3> QED BY <2>2, <3>1, <3>2, <3>3
  <2> QED BY <2>1, <2>2 DEF HearsOn
<1> QED BY <1>1, <1>2, <1>3, <1>4 DEF IInv

\* What the invariant says of the answers and the tabs there are.
LEMMA Holding ==
  ASSUME IInv
  PROVE  /\ slot \in Slots /\ tab \in [Tabs -> TabStates]
         /\ slot.held \in Answers /\ slot.answer \in Answers
         /\ NoAnswer \in Answers /\ TrueAt(NoAnswer, latest)
         /\ TrueAt(slot.held, latest) /\ TrueAt(slot.answer, latest)
         /\ \A t \in Tabs : tab[t] \in TabStates /\ TrueAt(tab[t].seed, latest)
         /\ resumeFrom \in 0..Unknown /\ latest \in 0..LastSeq
         /\ Me \in Users
<1> USE PromiseConstants, ListConstants
<1>1. slot \in Slots /\ slot.held \in Answers /\ slot.answer \in Answers
      BY DEF IInv, ListTypeOK, Slots
<1>2. NoAnswer \in Answers /\ TrueAt(NoAnswer, latest)
      BY DEF NoAnswer, Answers, TrueAt
<1> QED BY <1>1, <1>2 DEF IInv, ListTypeOK, PromiseTypeOK, AnswersAreTrue

LEMMA TabSteps ==
  ASSUME IInv, NEW t \in Tabs,
         \/ AskSeed(t) \/ Mount(t) \/ AttachTab(t) \/ LoseTab(t) \/ Unmount(t) \/ CacheForgets(t)
  PROVE  IInv'
<1> USE Holding
<1>1. CASE AskSeed(t)
  <2>1. UNCHANGED <<promiseVars, overflowed>>
        BY <1>1 DEF AskSeed
  <2>2. slot' \in Slots /\ TrueAt(slot'.held, latest) /\ TrueAt(slot'.answer, latest)
        BY <1>1 DEF AskSeed, Slots
  <2>3. tab' \in [Tabs -> TabStates] /\ \A u \in Tabs : TrueAt(tab'[u].seed, latest) /\ HearsOn(tab[u], tab'[u])
    <3>1. CASE slot.held # NoAnswer
      <4> DEFINE given == [tab[t] EXCEPT !.seed = slot.held]
      <4>1. tab' = [tab EXCEPT ![t] = given]
            BY <1>1, <3>1 DEF AskSeed
      <4>2. /\ given \in TabStates /\ given.seed = slot.held /\ given.attached = tab[t].attached
            /\ given.since = tab[t].since /\ given.arrived = tab[t].arrived
            /\ given.restarted = tab[t].restarted
            BY DEF TabStates
      <4> HIDE DEF given
      <4> QED BY <4>1, <4>2 DEF HearsOn
    <3>2. CASE slot.held = NoAnswer
      <4> DEFINE asking == [tab[t] EXCEPT !.asks = TRUE]
      <4>1. tab' = [tab EXCEPT ![t] = asking]
            BY <1>1, <3>2 DEF AskSeed
      <4>2. /\ asking \in TabStates /\ asking.seed = tab[t].seed /\ asking.attached = tab[t].attached
            /\ asking.since = tab[t].since /\ asking.arrived = tab[t].arrived
            /\ asking.restarted = tab[t].restarted
            BY DEF TabStates
      <4> HIDE DEF asking
      <4> QED BY <4>1, <4>2 DEF HearsOn
    <3> QED BY <3>1, <3>2
  <2> QED BY <2>1, <2>2, <2>3, ScreenStep
<1>2. CASE Mount(t)
  <2>1. UNCHANGED <<promiseVars, overflowed>> /\ slot' = slot
        BY <1>2 DEF Mount
  <2>2. tab' \in [Tabs -> TabStates] /\ \A u \in Tabs : TrueAt(tab'[u].seed, latest) /\ HearsOn(tab[u], tab'[u])
        BY <1>2 DEF Mount, TabStates, HearsOn
  <2> QED BY <2>1, <2>2, ScreenStep
<1>3. CASE AttachTab(t)
  <2>1. UNCHANGED <<promiseVars, overflowed>> /\ slot' = slot
        BY <1>3 DEF AttachTab
  <2>2. tab' \in [Tabs -> TabStates] /\ \A u \in Tabs : TrueAt(tab'[u].seed, latest) /\ HearsOn(tab[u], tab'[u])
        BY <1>3 DEF AttachTab, TabStates, HearsOn
  <2> QED BY <2>1, <2>2, ScreenStep
<1>4. CASE LoseTab(t)
  <2>1. UNCHANGED <<promiseVars, overflowed>> /\ slot' = slot
        BY <1>4 DEF LoseTab
  <2>2. Unknown \in 0..Unknown
        BY PromiseConstants DEF Unknown
  <2>3. tab' \in [Tabs -> TabStates] /\ \A u \in Tabs : TrueAt(tab'[u].seed, latest) /\ HearsOn(tab[u], tab'[u])
        BY <1>4, <2>2 DEF LoseTab, TabStates, HearsOn
  <2> QED BY <2>1, <2>3, ScreenStep
<1>5. CASE Unmount(t)
  <2>1. UNCHANGED <<promiseVars, overflowed>> /\ slot' = slot
        BY <1>5 DEF Unmount
  <2>2. Unknown \in 0..Unknown
        BY PromiseConstants DEF Unknown
  <2>3. tab' \in [Tabs -> TabStates] /\ \A u \in Tabs : TrueAt(tab'[u].seed, latest) /\ HearsOn(tab[u], tab'[u])
    <3> DEFINE gone == [Shut EXCEPT !.seed = tab[t].seed]
    <3>1. gone \in TabStates /\ gone.seed = tab[t].seed /\ gone.attached = FALSE
          BY <2>2 DEF Shut, TabStates
    <3>2. tab' = [tab EXCEPT ![t] = gone]
          BY <1>5 DEF Unmount
    <3> HIDE DEF gone
    <3> QED BY <3>1, <3>2 DEF HearsOn
  <2> QED BY <2>1, <2>3, ScreenStep
<1>6. CASE CacheForgets(t)
  <2>1. UNCHANGED <<promiseVars, overflowed>> /\ slot' = slot
        BY <1>6 DEF CacheForgets
  <2>2. tab' \in [Tabs -> TabStates] /\ \A u \in Tabs : TrueAt(tab'[u].seed, latest) /\ HearsOn(tab[u], tab'[u])
        BY <1>6 DEF CacheForgets, TabStates, HearsOn
  <2> QED BY <2>1, <2>2, ScreenStep
<1> QED BY <1>1, <1>2, <1>3, <1>4, <1>5, <1>6

LEMMA ReadSteps ==
  ASSUME IInv,
         ServeSeed \/ HearSeed \/ SeedFails \/ WindowOver \/ \E u \in Users : OtherAsks(u)
  PROVE  IInv'
<1> USE Holding
<1>0. \A t \in Tabs : HearsOn(tab[t], tab[t])
      BY DEF HearsOn
<1>1. CASE \E u \in Users : OtherAsks(u)
  <2>1. UNCHANGED <<promiseVars, tab, overflowed>>
        BY <1>1 DEF OtherAsks
  <2>2. slot' \in Slots /\ TrueAt(slot'.held, latest) /\ TrueAt(slot'.answer, latest)
        BY <1>1 DEF OtherAsks, Slots
  <2> QED BY <1>0, <2>1, <2>2, ScreenStep
<1>2. CASE ServeSeed
  <2> DEFINE seen == Sees[slot.asker] \cap 1..latest
             rows == Newest(seen, SeedLimit)
             said == [by |-> slot.asker, rows |-> rows, head |-> latest]
  <2>1. UNCHANGED <<promiseVars, tab, overflowed>>
        BY <1>2 DEF ServeSeed
  <2>2. /\ slot.asker \in Users /\ Sees[slot.asker] \in SUBSET (1..LastSeq)
        /\ latest \in Nat /\ SeedLimit \in Nat \ {0} /\ seen \in SUBSET (1..latest)
        BY <1>2, PromiseConstants, ListConstants DEF ServeSeed, Slots
  <2>3. rows \subseteq seen /\ rows \subseteq 1..latest
        BY <2>2 DEF Newest
  <2>4. \A d \in seen : d \in rows \/ (rows # {} /\ \A e \in rows : e > d)
    <3> SUFFICES ASSUME NEW d \in seen, d \notin rows
                 PROVE  rows # {} /\ \A e \in rows : e > d
        OBVIOUS
    <3>1. seen # {} /\ d \in seen \ Newest(seen, SeedLimit)
          OBVIOUS
    <3> HIDE DEF seen
    <3> QED BY <2>2, <3>1, SomeAreKept, LeftOutIsOlder
  <2>5. said \in Answers
        BY <2>2, <2>3, PromiseConstants DEF Answers
  <2>6. TrueAt(said, latest)
    <3>1. /\ said.by = slot.asker /\ said.rows = rows /\ said.head = latest
          /\ Sees[said.by] \cap 1..said.head = seen
          OBVIOUS
    <3> HIDE DEF said, rows, seen
    <3>2. said.head <= latest /\ said.rows \subseteq 1..said.head
          BY <2>2, <2>3, <3>1
    <3>3. \A d \in Sees[said.by] \cap 1..said.head :
            d \in said.rows \/ (said.rows # {} /\ \A e \in said.rows : e > d)
          BY <2>4, <3>1
    <3> QED BY <3>2, <3>3, Zenon DEF TrueAt
  <2>7. slot' = [slot EXCEPT !.answer = said]
        BY <1>2 DEF ServeSeed
  <2>8. slot' \in Slots /\ TrueAt(slot'.held, latest) /\ TrueAt(slot'.answer, latest)
    <3> HIDE DEF said
    <3> QED BY <2>5, <2>6, <2>7 DEF Slots
  <2> QED BY <1>0, <2>1, <2>8, ScreenStep
<1>3. CASE HearSeed
  <2>1. UNCHANGED <<promiseVars, overflowed>>
        BY <1>3 DEF HearSeed
  <2>2. slot' \in Slots /\ TrueAt(slot'.held, latest) /\ TrueAt(slot'.answer, latest)
        BY <1>3 DEF HearSeed, ReadIsOver, Slots
  <2>3. tab' \in [Tabs -> TabStates] /\ \A t \in Tabs : TrueAt(tab'[t].seed, latest) /\ HearsOn(tab[t], tab'[t])
        BY <1>3 DEF HearSeed, TabStates, HearsOn
  <2> QED BY <2>1, <2>2, <2>3, ScreenStep
<1>4. CASE SeedFails
  <2>1. UNCHANGED <<promiseVars, overflowed>>
        BY <1>4 DEF SeedFails
  <2>2. slot' \in Slots /\ TrueAt(slot'.held, latest) /\ TrueAt(slot'.answer, latest)
        BY <1>4 DEF SeedFails, ReadIsOver, Slots
  <2>3. tab' \in [Tabs -> TabStates] /\ \A t \in Tabs : TrueAt(tab'[t].seed, latest) /\ HearsOn(tab[t], tab'[t])
        BY <1>4 DEF SeedFails, TabStates, HearsOn
  <2> QED BY <2>1, <2>2, <2>3, ScreenStep
<1>5. CASE WindowOver
  <2>1. UNCHANGED <<promiseVars, tab, overflowed>>
        BY <1>5 DEF WindowOver
  <2>2. slot' \in Slots /\ TrueAt(slot'.held, latest) /\ TrueAt(slot'.answer, latest)
        BY <1>5 DEF WindowOver, Slots
  <2> QED BY <1>0, <2>1, <2>2, ScreenStep
<1> QED BY <1>1, <1>2, <1>3, <1>4, <1>5

-----------------------------------------------------------------------------
(* Steps of the feed.                                                      *)

LEMMA LaterIsTrue ==
  ASSUME NEW a \in Answers, NEW now \in Nat, NEW later \in Nat, now <= later, TrueAt(a, now)
  PROVE  TrueAt(a, later)
BY PromiseConstants DEF TrueAt, Answers

\* What is left to show of a step of the feed.
LEMMA FeedStep ==
  ASSUME IInv, slot' = slot, PromiseTypeOK', overflowed' \subseteq 1..LastSeq, latest <= latest',
         NothingIsSkipped', FeedIsPlain',
         tab' \in [Tabs -> TabStates], \A t \in Tabs : tab'[t].seed = tab[t].seed,
         TabsFollow'
  PROVE  IInv'
<1>1. ListTypeOK'
      BY Holding DEF ListTypeOK, Slots
<1>2. latest \in Nat /\ latest' \in Nat
      BY Holding, PromiseConstants DEF PromiseTypeOK
<1>3. \A t \in Tabs : tab[t].seed \in Answers
      BY Holding DEF TabStates
<1>4. AnswersAreTrue'
      BY <1>2, <1>3, Holding, LaterIsTrue DEF AnswersAreTrue
<1> QED BY <1>1, <1>4 DEF IInv

LEMMA AppendRange ==
  ASSUME NEW s \in Seq(1..LastSeq), NEW d \in 1..LastSeq
  PROVE  /\ Range(Append(s, d)) = Range(s) \cup {d}
         /\ Append(s, d) \in Seq(1..LastSeq)
<1>1. /\ Append(s, d) \in Seq(1..LastSeq) /\ DOMAIN Append(s, d) = 1..(Len(s) + 1)
      /\ DOMAIN s = 1..Len(s) /\ Len(s) \in Nat
      /\ Append(s, d)[Len(s) + 1] = d
      /\ \A i \in 1..Len(s) : Append(s, d)[i] = s[i]
      OBVIOUS
<1>2. Range(s) = {s[i] : i \in 1..Len(s)} /\ Range(Append(s, d)) = {Append(s, d)[i] : i \in 1..(Len(s) + 1)}
      BY <1>1 DEF Range
<1>3. 1..(Len(s) + 1) = 1..Len(s) \cup {Len(s) + 1}
      BY <1>1
<1> QED BY <1>1, <1>2, <1>3

LEMMA ReleaseStep ==
  ASSUME IInv, NEW now \in 0..LastSeq, NEW lost, FeedReleases(now, lost)
  PROVE  IInv'
<1> USE PromiseConstants, Holding
<1>1. /\ latest <= now /\ latest' = now /\ lost \subseteq 1..LastSeq
      /\ excused' = excused \cup lost /\ overflowed' = overflowed \cup lost
      /\ UNCHANGED <<start, resumeFrom, announced, stopped, slot, tab>>
      BY DEF FeedReleases, Release
<1>2. PromiseTypeOK' /\ overflowed' \subseteq 1..LastSeq
      BY <1>1 DEF IInv, ListTypeOK, PromiseTypeOK
<1>3. NothingIsSkipped'
      BY <1>1 DEF IInv, NothingIsSkipped, Since
<1>4. FeedIsPlain'
      BY <1>1 DEF IInv, FeedIsPlain, ListTypeOK, PromiseTypeOK, Unknown
<1>5. TabsFollow'
  <2>1. \A t \in Tabs, d \in Wanted : Passed(tab[t], d) => Passed(tab[t], d)'
        BY <1>1 DEF Passed
  <2> QED BY <1>1, <2>1 DEF IInv, TabsFollow, Follows, Since
<1> QED BY <1>1, <1>2, <1>3, <1>4, <1>5, FeedStep

LEMMA StartStep ==
  ASSUME IInv, NEW head \in 0..LastSeq, FeedStarts(head)
  PROVE  IInv'
<1> USE PromiseConstants, Holding
<1>1. /\ start = Unknown /\ head \in 0..latest /\ start' = head /\ resumeFrom' = head
      /\ UNCHANGED <<latest, announced, excused, stopped, slot, overflowed>>
      /\ tab' = [t \in Tabs |-> IF tab[t].attached THEN [tab[t] EXCEPT !.since = head] ELSE tab[t]]
      BY DEF FeedStarts, Starts
<1>2. head \in 0..Unknown /\ head # Unknown /\ head \in Nat
      BY DEF Unknown
<1>3. PromiseTypeOK' /\ overflowed' \subseteq 1..LastSeq
      BY <1>1, <1>2 DEF IInv, ListTypeOK, PromiseTypeOK
<1>4. NothingIsSkipped'
  <2>1. resumeFrom = Unknown
        BY <1>1 DEF IInv, FeedIsPlain
  <2>2. Since(start, resumeFrom) = {} /\ Since(head, head) = {}
    <3>1. \A d \in Wanted : ~ (head < d /\ d <= head) /\ ~ (Unknown < d /\ d <= Unknown)
          BY <1>2 DEF Unknown
    <3> QED BY <1>1, <2>1, <3>1 DEF Since
  <2>3. Range(announced) = {}
        BY <2>2 DEF IInv, NothingIsSkipped
  <2> QED BY <1>1, <2>2, <2>3 DEF IInv, NothingIsSkipped, Since
<1>5. FeedIsPlain'
  <2>1. start' # Unknown /\ resumeFrom' # Unknown /\ start' <= resumeFrom' /\ resumeFrom' <= latest'
        BY <1>1, <1>2
  <2>2. \A d \in excused' : d \in overflowed'
        BY <1>1 DEF IInv, FeedIsPlain
  <2> QED BY <2>1, <2>2 DEF FeedIsPlain
<1>6. tab' \in [Tabs -> TabStates] /\ \A t \in Tabs : tab'[t].seed = tab[t].seed
      BY <1>1, <1>2 DEF TabStates
<1>7. TabsFollow'
  <2> SUFFICES ASSUME NEW t \in Tabs, tab'[t].attached
               PROVE  tab'[t].since = head
      BY <1>1, <1>2 DEF TabsFollow, Follows, Since, Unknown
  <2> QED BY <1>1 DEF TabStates
<1> QED BY <1>1, <1>3, <1>4, <1>5, <1>6, <1>7, FeedStep

LEMMA AnnounceStep ==
  ASSUME IInv, NEW d \in 0..LastSeq, FeedAnnounces(d)
  PROVE  IInv'
<1> USE PromiseConstants, ListConstants, Holding
<1>1. /\ start # Unknown /\ d \in Since(resumeFrom, latest)
      /\ Since(resumeFrom, d) \ {d} \subseteq excused
      /\ resumeFrom' = d /\ announced' = Append(announced, d)
      /\ UNCHANGED <<latest, start, excused, stopped, slot, overflowed>>
      /\ tab' = [t \in Tabs |-> IF tab[t].attached
            THEN [tab[t] EXCEPT !.arrived = Newest(@ \cup {d}, ListLimit)] ELSE tab[t]]
      BY DEF FeedAnnounces, Announce
<1>2. /\ d \in Wanted /\ d \in 1..LastSeq /\ resumeFrom < d /\ d <= latest
      /\ resumeFrom \in Nat /\ start \in Nat /\ start <= resumeFrom /\ d \in 0..Unknown
      BY <1>1 DEF Since, IInv, FeedIsPlain, ListTypeOK, PromiseTypeOK, Unknown
<1>3. /\ announced \in Seq(1..LastSeq) /\ Range(announced') = Range(announced) \cup {d}
      /\ announced' \in Seq(1..LastSeq)
      BY <1>1, <1>2, AppendRange DEF IInv, ListTypeOK, PromiseTypeOK
<1>4. PromiseTypeOK' /\ overflowed' \subseteq 1..LastSeq
      BY <1>1, <1>2, <1>3 DEF IInv, ListTypeOK, PromiseTypeOK
<1>5. \A x \in Since(resumeFrom, d) : x = d \/ x \in overflowed
      BY <1>1, <1>2 DEF IInv, FeedIsPlain, Since
<1>6. NothingIsSkipped'
  <2>1. \A i, j \in DOMAIN announced' : i < j => announced'[i] < announced'[j]
    <3>1. /\ DOMAIN announced = 1..Len(announced) /\ Len(announced) \in Nat
          /\ DOMAIN announced' = 1..(Len(announced) + 1)
          /\ announced'[Len(announced) + 1] = d
          /\ \A i \in 1..Len(announced) : announced'[i] = announced[i]
          BY <1>1, <1>2, <1>3
    <3>2. \A i \in 1..Len(announced) : announced[i] \in Since(start, resumeFrom)
          BY <3>1 DEF IInv, NothingIsSkipped, Range
    <3>3. \A i \in 1..Len(announced) : announced[i] < d
          BY <1>2, <3>2 DEF Since
    <3>4. \A i, j \in 1..Len(announced) : i < j => announced[i] < announced[j]
          BY <3>1 DEF IInv, NothingIsSkipped
    <3> QED BY <3>1, <3>3, <3>4
  <2>2. Range(announced') \subseteq Since(start, d)
        BY <1>2, <1>3 DEF IInv, NothingIsSkipped, Since
  <2>3. Since(start, d) \subseteq Range(announced') \cup excused
        BY <1>1, <1>2, <1>3 DEF IInv, NothingIsSkipped, Since
  <2> QED BY <1>1, <2>1, <2>2, <2>3 DEF NothingIsSkipped, Since
<1>7. FeedIsPlain'
  <2>1. start # Unknown /\ d # Unknown /\ start <= d
        BY <1>1, <1>2 DEF Unknown
  <2>2. \A x \in excused : x \in overflowed \/ x <= d
    <3>1. \A x \in excused : x \in overflowed \/ (x \in Nat /\ x <= resumeFrom)
          BY <1>1 DEF IInv, FeedIsPlain, ListTypeOK, PromiseTypeOK
    <3> QED BY <1>2, <3>1
  <2> QED BY <1>1, <1>2, <2>1, <2>2 DEF FeedIsPlain
<1>8. ASSUME NEW t \in Tabs, tab[t].attached
      PROVE  /\ tab'[t] = [tab[t] EXCEPT !.arrived = Newest(tab[t].arrived \cup {d}, ListLimit)]
             /\ tab[t] \in TabStates /\ tab'[t] \in TabStates
  <2>1. tab[t] \in TabStates /\ tab[t].arrived \cup {d} \in SUBSET (1..LastSeq)
        BY <1>2 DEF TabStates
  <2>2. Newest(tab[t].arrived \cup {d}, ListLimit) \in SUBSET (1..LastSeq)
        BY <2>1 DEF Newest
  <2> QED BY <1>1, <1>8, <2>1, <2>2 DEF TabStates
<1>9. tab' \in [Tabs -> TabStates] /\ \A t \in Tabs : tab'[t].seed = tab[t].seed
      BY <1>1, <1>8 DEF TabStates
<1>10. TabsFollow'
  <2> SUFFICES ASSUME NEW t \in Tabs, tab'[t].attached
               PROVE  /\ tab'[t].since = Unknown <=> start = Unknown
                      /\ tab'[t].since <= d
                      /\ \A x \in Since(tab'[t].since, d) : Passed(tab'[t], x)
      BY <1>1 DEF TabsFollow, Follows, Passed, Since
  <2> DEFINE r == tab[t]
             all == r.arrived \cup {d}
  <2>1. tab[t].attached
        BY <1>1
  <2>2. /\ tab'[t].since = r.since /\ tab'[t].restarted = r.restarted
        /\ tab'[t].arrived = Newest(all, ListLimit)
        /\ r.since \in 0..Unknown /\ all \in SUBSET (1..LastSeq)
        BY <1>2, <1>8, <2>1 DEF TabStates
  <2>3. /\ r.since = Unknown <=> start = Unknown
        /\ r.since <= resumeFrom
        /\ \A x \in Since(r.since, resumeFrom) : Passed(r, x)
        BY <1>1, <2>1 DEF IInv, TabsFollow, Follows
  <2>4. r.since <= d /\ LastSeq \in Nat /\ ListLimit \in Nat \ {0}
        BY <1>2, <2>2, <2>3 DEF Unknown
  <2>5. ASSUME NEW x \in Since(r.since, d), x \in all
        PROVE  x \in Newest(all, ListLimit) \/ Cardinality(Above(Newest(all, ListLimit), x)) >= ListLimit
    <3> SUFFICES ASSUME x \in all \ Newest(all, ListLimit)
                 PROVE  Cardinality(Above(Newest(all, ListLimit), x)) >= ListLimit
        BY <2>5
    <3>1. x \in Nat
          BY <2>2
    <3> HIDE DEF all
    <3>2. Cardinality(Above(all, x)) >= ListLimit
          BY <2>2, <2>4, LeftOutIsOlder
    <3> QED BY <2>2, <2>4, <3>1, <3>2, CutStaysCut
  <2>6. ASSUME NEW x \in Since(r.since, d), Cardinality(Above(r.arrived, x)) >= ListLimit
        PROVE  Cardinality(Above(Newest(all, ListLimit), x)) >= ListLimit
    <3>1. x \in Nat
          BY DEF Since
    <3>2. r.arrived \in SUBSET all /\ Above(r.arrived, x) \subseteq Above(all, x)
          BY DEF Above
    <3> HIDE DEF all
    <3>3. /\ Cardinality(Above(r.arrived, x)) <= Cardinality(Above(all, x))
          /\ Cardinality(Above(all, x)) \in Nat /\ Cardinality(Above(r.arrived, x)) \in Nat
          BY <2>2, <2>4, <3>1, <3>2, MoreAreAbove, AboveIsFinite
    <3>4. Cardinality(Above(all, x)) >= ListLimit
          BY <2>4, <2>6, <3>3
    <3> QED BY <2>2, <2>4, <3>1, <3>4, CutStaysCut
  <2>7. ASSUME NEW x \in Since(r.since, d)
        PROVE  Passed(tab'[t], x)
    <3>1. CASE x \in Since(r.since, resumeFrom)
      <4>1. Passed(r, x)
            BY <2>3, <3>1
      <4> QED BY <2>2, <2>5, <2>6, <4>1 DEF Passed
    <3>2. CASE x \notin Since(r.since, resumeFrom)
      <4>1. x \in Since(resumeFrom, d)
            BY <1>2, <3>2 DEF Since
      <4> QED BY <1>5, <2>2, <2>5, <4>1 DEF Passed
    <3> QED BY <3>1, <3>2
  <2> QED BY <2>2, <2>3, <2>4, <2>7
<1>11. slot' = slot /\ latest <= latest'
      BY <1>1
<1> QED BY <1>4, <1>6, <1>7, <1>9, <1>10, <1>11, FeedStep

LEMMA DeclareStep ==
  ASSUME IInv, NEW last \in 0..LastSeq, FeedDeclares(last)
  PROVE  IInv'
<1> USE PromiseConstants, Holding
<1>1. /\ start # Unknown /\ last \in resumeFrom..latest /\ resumeFrom' = last
      /\ excused' = excused \cup {d \in 1..LastSeq : resumeFrom < d /\ d <= last}
      /\ UNCHANGED <<latest, start, announced, stopped, slot, overflowed>>
      /\ tab' = [t \in Tabs |-> IF tab[t].attached THEN [tab[t] EXCEPT !.restarted = TRUE] ELSE tab[t]]
      BY DEF FeedDeclares, Declare
<1>2. /\ last \in 0..Unknown /\ last # Unknown /\ last \in Nat /\ last <= latest
      /\ resumeFrom \in Nat /\ resumeFrom <= last
      /\ start \in Nat /\ start <= resumeFrom
      BY <1>1 DEF IInv, FeedIsPlain, ListTypeOK, PromiseTypeOK, Unknown
<1>3. PromiseTypeOK' /\ overflowed' \subseteq 1..LastSeq
      BY <1>1, <1>2 DEF IInv, ListTypeOK, PromiseTypeOK
<1>4. NothingIsSkipped'
  <2>1. Range(announced) \subseteq Since(start, last)
    <3>2. \A x \in Wanted : x <= resumeFrom => x <= last
          BY <1>2
    <3>1. Since(start, resumeFrom) \subseteq Since(start, last)
          BY <3>2 DEF Since
    <3> QED BY <3>1 DEF IInv, NothingIsSkipped
  <2>2. Since(start, last) \subseteq Range(announced) \cup excused'
        BY <1>1, <1>2 DEF IInv, NothingIsSkipped, Since
  <2> QED BY <1>1, <2>1, <2>2 DEF IInv, NothingIsSkipped, Since
<1>5. FeedIsPlain'
  <2>1. \A d \in excused' : d \in overflowed \/ d <= last
    <3>1. \A d \in excused : d \in overflowed \/ (d \in Nat /\ d <= resumeFrom)
          BY <1>1 DEF IInv, FeedIsPlain, ListTypeOK, PromiseTypeOK
    <3> QED BY <1>1, <1>2, <3>1
  <2> QED BY <1>1, <1>2, <2>1 DEF FeedIsPlain, Unknown
<1>6. \A t \in Tabs : tab'[t] \in TabStates /\ tab'[t].seed = tab[t].seed
      BY <1>1 DEF TabStates
<1>7. tab' \in [Tabs -> TabStates]
      BY <1>1, <1>6
<1>8. TabsFollow'
  <2> SUFFICES ASSUME NEW t \in Tabs, tab'[t].attached
               PROVE  /\ tab'[t].since = Unknown <=> start = Unknown
                      /\ tab'[t].since <= last
                      /\ \A x \in Since(tab'[t].since, last) : Passed(tab[t], x)'
      BY <1>1 DEF TabsFollow, Follows, Since
  <2>1. /\ tab[t].attached /\ tab'[t].since = tab[t].since /\ tab'[t].restarted
        /\ tab'[t].arrived = tab[t].arrived /\ tab[t].since \in 0..Unknown
        BY <1>1 DEF TabStates
  <2>2. /\ tab[t].since = Unknown <=> start = Unknown
        /\ tab[t].since <= resumeFrom
        /\ \A x \in Since(tab[t].since, resumeFrom) : Passed(tab[t], x)
        BY <1>1, <2>1 DEF IInv, TabsFollow, Follows
  <2>3. ASSUME NEW x \in Since(tab[t].since, last)
        PROVE  Passed(tab[t], x)'
    <3>1. CASE x \in Since(tab[t].since, resumeFrom)
      <4>1. Passed(tab[t], x)
            BY <2>2, <3>1
      <4> QED BY <1>1, <2>1, <4>1 DEF Passed
    <3>2. CASE x \notin Since(tab[t].since, resumeFrom)
      <4>1. x \in excused'
            BY <1>1, <1>2, <3>2 DEF Since
      <4> QED BY <2>1, <4>1 DEF Passed
    <3> QED BY <3>1, <3>2
  <2>4. tab[t].since <= last
        BY <1>2, <2>1, <2>2 DEF Unknown
  <2> QED BY <2>1, <2>2, <2>3, <2>4
<1>9. slot' = slot /\ latest <= latest'
      BY <1>1
<1> QED BY <1>3, <1>4, <1>5, <1>6, <1>7, <1>8, <1>9, FeedStep

LEMMA StopStep == IInv /\ FeedStops => IInv'
<1> SUFFICES ASSUME IInv, FeedStops PROVE IInv'
    OBVIOUS
<1>1. /\ stopped' = TRUE
      /\ UNCHANGED <<latest, start, resumeFrom, announced, excused, slot, tab, overflowed>>
      BY DEF FeedStops, StopForGood
<1>2. ListTypeOK' /\ NothingIsSkipped'
      BY <1>1 DEF IInv, ListTypeOK, PromiseTypeOK, NothingIsSkipped, Since
<1>3. AnswersAreTrue' /\ FeedIsPlain'
      BY <1>1 DEF IInv, AnswersAreTrue, FeedIsPlain
<1>4. TabsFollow'
      BY <1>1 DEF IInv, TabsFollow, Follows, Passed, Since
<1> QED BY <1>2, <1>3, <1>4 DEF IInv

LEMMA ForgetStep == IInv /\ FeedForgotten => IInv'
<1> SUFFICES ASSUME IInv, FeedForgotten PROVE IInv'
    OBVIOUS
<1> USE PromiseConstants, Holding
<1>1. /\ start' = Unknown /\ resumeFrom' = Unknown /\ announced' = << >>
      /\ excused' = {} /\ stopped' = FALSE /\ overflowed' = {}
      /\ UNCHANGED <<latest, slot>>
      /\ tab' = [t \in Tabs |-> [tab[t] EXCEPT !.attached = FALSE, !.since = Unknown]]
      BY DEF FeedForgotten, Forget
<1>2. Unknown \in 0..Unknown
      BY DEF Unknown
<1>3. << >> \in Seq(1..LastSeq)
      OBVIOUS
<1>4. PromiseTypeOK' /\ overflowed' \subseteq 1..LastSeq
      BY <1>1, <1>2, <1>3 DEF PromiseTypeOK, Unknown
<1>5. NothingIsSkipped'
  <2>1. DOMAIN << >> = {} /\ Range(<< >>) = {}
        BY DEF Range
  <2> QED BY <1>1, <2>1 DEF NothingIsSkipped
<1>6. FeedIsPlain'
      BY <1>1 DEF FeedIsPlain, Unknown
<1>7. \A t \in Tabs : tab'[t] \in TabStates /\ tab'[t].seed = tab[t].seed /\ ~ tab'[t].attached
      BY <1>1, <1>2 DEF TabStates
<1>8. tab' \in [Tabs -> TabStates]
      BY <1>1, <1>7
<1>9. TabsFollow'
      BY <1>7 DEF TabsFollow, Follows
<1>10. slot' = slot /\ latest <= latest'
  <2>1. latest \in 0..LastSeq /\ LastSeq \in Nat
        OBVIOUS
  <2>2. latest <= latest
        BY <2>1
  <2> QED BY <1>1, <2>2, Zenon
<1> QED BY <1>4, <1>5, <1>6, <1>7, <1>8, <1>9, <1>10, FeedStep

-----------------------------------------------------------------------------
(* The theorem.                                                            *)

LEMMA ListStep == IInv /\ [ListNext]_listVars => IInv'
<1> SUFFICES ASSUME IInv, [ListNext]_listVars PROVE IInv'
    OBVIOUS
<1>1. ASSUME NEW t \in Tabs,
             \/ AskSeed(t) \/ Mount(t) \/ AttachTab(t) \/ LoseTab(t) \/ Unmount(t) \/ CacheForgets(t)
      PROVE  IInv'
      BY <1>1, TabSteps
<1>2. CASE ServeSeed \/ HearSeed \/ SeedFails \/ WindowOver \/ \E u \in Users : OtherAsks(u)
      BY <1>2, ReadSteps
<1>3. ASSUME NEW now \in 0..LastSeq, NEW d \in 0..LastSeq, FeedReleases(now, Wanted \cap {d})
      PROVE  IInv'
      BY <1>3, ReleaseStep
<1>4. ASSUME NEW d \in 0..LastSeq, FeedStarts(d) \/ FeedAnnounces(d) \/ FeedDeclares(d)
      PROVE  IInv'
      BY <1>4, StartStep, AnnounceStep, DeclareStep
<1>5. CASE FeedStops \/ FeedForgotten
      BY <1>5, StopStep, ForgetStep
<1>6. CASE UNCHANGED listVars
  <2>1. /\ UNCHANGED <<latest, start, resumeFrom, announced, excused, stopped>>
        /\ UNCHANGED <<slot, tab, overflowed>>
        BY <1>6 DEF listVars, promiseVars
  <2>2. ListTypeOK' /\ NothingIsSkipped'
        BY <2>1 DEF IInv, ListTypeOK, PromiseTypeOK, NothingIsSkipped, Since
  <2>3. AnswersAreTrue' /\ FeedIsPlain'
        BY <2>1 DEF IInv, AnswersAreTrue, FeedIsPlain
  <2>4. TabsFollow'
        BY <2>1 DEF IInv, TabsFollow, Follows, Passed, Since
  <2> QED BY <2>2, <2>3, <2>4 DEF IInv
<1> QED BY <1>1, <1>2, <1>3, <1>4, <1>5, <1>6 DEF ListNext

\* However first reads, held answers, arrivals and notices interleave, what a
\* tab shows has no hole but one it tells of or a full queue made
\* (use-detections.ts, merge.ts, hold.ts).
THEOREM ListsStayWhole == ListSpec => []ListsAreWhole
<1>1. IInv => ListsAreWhole
      BY NoHole DEF IInv, ListsAreWhole
<1> QED BY <1>1, ListInitInv, ListStep, PTL DEF ListSpec
=============================================================================
