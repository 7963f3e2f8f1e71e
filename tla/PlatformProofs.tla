--------------------------- MODULE PlatformProofs ----------------------------
(***************************************************************************)
(* Theorems of Windows and Requests, the platform under every route: for   *)
(* any number of buckets, callers and accounts, every limit, window and    *)
(* number of keys that are remembered; and for any number of families,     *)
(* clients and requests in flight, every chaos profile and size of the     *)
(* records' ring.                                                          *)
(***************************************************************************)
EXTENDS Windows, Requests, WellFoundedInduction, TLAPS

-----------------------------------------------------------------------------
(* What is dropped from a window.                                          *)

\* A set of numbers that is not empty has a least.
LEMMA LeastExists ==
  ASSUME NEW T \in SUBSET Nat, T # {}
  PROVE  \E m \in T : \A k \in T : m <= k
<1>1. PICK m \in T : \A k \in T : ~ (<<k, m>> \in OpToRel(<, Nat))
  BY WFMin, NatLessThanWellFounded, Zenon
<1>2. \A k \in T : ~ (k < m)
  BY <1>1, Zenon DEF OpToRel
<1>3. \A k \in T : m <= k
  BY <1>2
<1> QED BY <1>3

\* n hits at the head are too old, and the one behind them is not.
Drops(ages, window, n) ==
  /\ \A i \in 1..n : ages[i] >= window
  /\ n < Len(ages) => ages[n + 1] < window

Falls(ages) == \A i, j \in 1..Len(ages) : i < j => ages[j] <= ages[i]

LEMMA TooOldExists ==
  ASSUME NEW ages \in Seq(Nat), NEW window \in Nat
  PROVE  TooOld(ages, window) \in 0..Len(ages) /\ Drops(ages, window, TooOld(ages, window))
<1> DEFINE T == {n \in 0..Len(ages) : n < Len(ages) => ages[n + 1] < window}
<1>1. Len(ages) \in Nat
  OBVIOUS
<1>2. T \in SUBSET Nat /\ Len(ages) \in T
  BY <1>1
<1>3. PICK m \in T : \A k \in T : m <= k
  BY <1>2, LeastExists
<1>4. \A i \in 1..m : ages[i] >= window
  <2> SUFFICES ASSUME NEW i \in 1..m, ~ (ages[i] >= window) PROVE FALSE
    OBVIOUS
  <2>1. i - 1 \in 0..Len(ages) /\ (i - 1) + 1 = i /\ i \in 1..Len(ages)
    BY <1>1
  <2>2. ages[i] \in Nat
    BY <2>1
  <2>3. i - 1 \in T
    BY <2>1, <2>2
  <2>4. m \in Nat /\ i <= m /\ i \in Nat
    BY <1>1, <1>3
  <2>5. m <= i - 1
    BY <1>3, <2>3
  <2> QED BY <2>4, <2>5
<1>5. m \in 0..Len(ages) /\ Drops(ages, window, m)
  BY <1>3, <1>4 DEF Drops
<1> HIDE DEF T
<1> QED BY <1>5 DEF TooOld, Drops

\* Only one number of hits can be dropped.
LEMMA DropsOnce ==
  ASSUME NEW ages \in Seq(Nat), NEW window \in Nat,
         NEW m \in 0..Len(ages), NEW n \in 0..Len(ages), Drops(ages, window, m), Drops(ages, window, n)
  PROVE  m = n
<1>1. ASSUME NEW a \in 0..Len(ages), NEW b \in 0..Len(ages), a < b,
             Drops(ages, window, a), Drops(ages, window, b)
      PROVE  FALSE
  <2>1. a + 1 \in 1..b /\ a < Len(ages) /\ a + 1 \in 1..Len(ages)
    BY <1>1
  <2>2. ages[a + 1] >= window /\ ages[a + 1] < window /\ ages[a + 1] \in Nat
    BY <1>1, <2>1 DEF Drops
  <2> QED BY <2>2
<1> QED BY <1>1

LEMMA HitsAreNumbers ==
  ASSUME NEW T \in SUBSET Nat, NEW ages \in Seq(T)
  PROVE  ages \in Seq(Nat)
<1>1. Len(ages) \in Nat /\ ages \in [1..Len(ages) -> T]
  OBVIOUS
<1>2. ages \in [1..Len(ages) -> Nat]
  BY <1>1
<1> QED BY <1>1, <1>2

\* What is left of a window.
LEMMA PrunedIs ==
  ASSUME NEW T \in SUBSET Nat, NEW ages \in Seq(T), NEW window \in Nat,
         NEW n \in 0..Len(ages), Drops(ages, window, n)
  PROVE  /\ Pruned(ages, window) \in Seq(T)
         /\ Len(Pruned(ages, window)) = Len(ages) - n
         /\ \A i \in 1..Len(ages) - n : Pruned(ages, window)[i] = ages[i + n]
<1>1. ages \in Seq(Nat)
  BY HitsAreNumbers
<1>2. TooOld(ages, window) = n
  BY <1>1, TooOldExists, DropsOnce
<1>3. Pruned(ages, window) = SubSeq(ages, n + 1, Len(ages))
  BY <1>2 DEF Pruned
<1> QED BY <1>3

\* A window with nothing too old in it is left alone.
LEMMA PrunedStays ==
  ASSUME NEW T \in SUBSET Nat, NEW ages \in Seq(T), NEW window \in Nat,
         \A i \in 1..Len(ages) : ages[i] < window
  PROVE  Pruned(ages, window) = ages
<1>1. Len(ages) \in Nat /\ 0 \in 0..Len(ages)
  OBVIOUS
<1>2. Drops(ages, window, 0)
  BY <1>1 DEF Drops
<1>3. PICK q : q = Pruned(ages, window)
  OBVIOUS
<1>4. q \in Seq(T) /\ Len(q) = Len(ages) - 0 /\ \A i \in 1..Len(ages) - 0 : q[i] = ages[i + 0]
  BY <1>1, <1>2, <1>3, PrunedIs
<1>5. Len(q) = Len(ages) /\ \A i \in 1..Len(ages) : q[i] = ages[i]
  BY <1>1, <1>4
<1>6. q = ages
  BY <1>4, <1>5
<1> QED BY <1>3, <1>6

\* What is left of a window whose ages fall is young, and falls too.
LEMMA PrunedFacts ==
  ASSUME NEW T \in SUBSET Nat, NEW ages \in Seq(T), NEW window \in Nat, Falls(ages)
  PROVE  \E n \in 0..Len(ages) :
           /\ Drops(ages, window, n)
           /\ Pruned(ages, window) \in Seq(T)
           /\ Len(Pruned(ages, window)) = Len(ages) - n
           /\ \A i \in 1..Len(ages) - n : Pruned(ages, window)[i] = ages[i + n]
           /\ \A i \in 1..Len(ages) - n : Pruned(ages, window)[i] < window
           /\ Falls(Pruned(ages, window))
<1>1. ages \in Seq(Nat)
  BY HitsAreNumbers
<1>2. PICK n \in 0..Len(ages) : Drops(ages, window, n)
  BY <1>1, TooOldExists
<1>3. PICK q : q = Pruned(ages, window)
  OBVIOUS
<1>4. q \in Seq(T) /\ Len(q) = Len(ages) - n /\ \A i \in 1..Len(ages) - n : q[i] = ages[i + n]
  BY <1>2, <1>3, PrunedIs
<1>5. ASSUME NEW i \in 1..Len(ages) - n PROVE q[i] < window
  <2>1. n + 1 \in 1..Len(ages) /\ i + n \in 1..Len(ages) /\ n < Len(ages) /\ n + 1 <= i + n
    OBVIOUS
  <2>2. ages[i + n] <= ages[n + 1] \/ i + n = n + 1
    BY <2>1 DEF Falls
  <2>3. ages[n + 1] < window /\ ages[n + 1] \in Nat /\ ages[i + n] \in Nat
    BY <1>1, <1>2, <2>1 DEF Drops
  <2> QED BY <1>4, <2>2, <2>3
<1>6. Falls(q)
  <2> SUFFICES ASSUME NEW i \in 1..Len(ages) - n, NEW j \in 1..Len(ages) - n, i < j
               PROVE  q[j] <= q[i]
    BY <1>4 DEF Falls
  <2>1. i + n \in 1..Len(ages) /\ j + n \in 1..Len(ages) /\ i + n < j + n
    OBVIOUS
  <2> QED BY <1>4, <2>1 DEF Falls
<1> QED BY <1>2, <1>3, <1>4, <1>5, <1>6

\* A hit more, in what is left.
LEMMA OneHitMore ==
  ASSUME NEW top \in Nat, NEW window \in Nat \ {0}, NEW q \in Seq(0..top), Falls(q),
         \A i \in 1..Len(q) : q[i] < window
  PROVE  /\ Append(q, 0) \in Seq(0..top) /\ Falls(Append(q, 0)) /\ Len(Append(q, 0)) = Len(q) + 1
         /\ Pruned(Append(q, 0), window) = Append(q, 0)
<1>1. PICK a : a = Append(q, 0)
  OBVIOUS
<1>2. /\ a \in Seq(0..top) /\ Len(a) = Len(q) + 1 /\ Len(q) \in Nat
      /\ \A i \in 1..Len(q) : a[i] = q[i]
      /\ a[Len(q) + 1] = 0
  BY <1>1
<1>3. ASSUME NEW i \in 1..Len(a) PROVE a[i] < window
  <2>1. CASE i = Len(q) + 1
    BY <1>2, <2>1
  <2>2. CASE i # Len(q) + 1
    <3>1. i \in 1..Len(q)
      <4>1. Len(a) = Len(q) + 1 /\ Len(q) \in Nat
        BY <1>2
      <4> QED BY <2>2, <4>1
    <3> QED BY <1>2, <3>1
  <2> QED BY <2>1, <2>2
<1>4. Falls(a)
  <2> SUFFICES ASSUME NEW i \in 1..Len(a), NEW j \in 1..Len(a), i < j PROVE a[j] <= a[i]
    BY <1>2 DEF Falls
  <2>1. CASE j = Len(q) + 1
    <3>1. a[i] \in 0..top
      BY <1>2
    <3> QED BY <1>2, <2>1, <3>1
  <2>2. CASE j # Len(q) + 1
    <3>1. i \in 1..Len(q) /\ j \in 1..Len(q)
      <4>1. Len(a) = Len(q) + 1 /\ Len(q) \in Nat
        BY <1>2
      <4> QED BY <2>2, <4>1
    <3>2. q[j] <= q[i]
      BY <3>1 DEF Falls
    <3> QED BY <1>2, <3>1, <3>2
  <2> QED BY <2>1, <2>2
<1>5. 0..top \in SUBSET Nat
  OBVIOUS
<1> QED BY <1>1, <1>2, <1>3, <1>4, <1>5, PrunedStays

\* What an older window keeps is what it keeps of what it had kept.
LEMMA AgedFacts ==
  ASSUME NEW top \in Nat, NEW ages \in Seq(0..top), Falls(ages)
  PROVE  /\ Aged(ages, top) \in Seq(0..top) /\ Len(Aged(ages, top)) = Len(ages)
         /\ \A i \in 1..Len(ages) : Aged(ages, top)[i] = IF ages[i] < top THEN ages[i] + 1 ELSE top
         /\ Falls(Aged(ages, top))
<1>1. PICK a : a = Aged(ages, top)
  OBVIOUS
<1>2. /\ Len(ages) \in Nat
      /\ a = [i \in 1..Len(ages) |-> IF ages[i] < top THEN ages[i] + 1 ELSE top]
      /\ \A i \in 1..Len(ages) : ages[i] \in 0..top
  BY <1>1 DEF Aged
<1>3. \A i \in 1..Len(ages) : a[i] \in 0..top /\ a[i] = IF ages[i] < top THEN ages[i] + 1 ELSE top
  BY <1>2
<1>4. a \in Seq(0..top) /\ Len(a) = Len(ages)
  BY <1>2, <1>3
<1>5. Falls(a)
  <2> SUFFICES ASSUME NEW i \in 1..Len(ages), NEW j \in 1..Len(ages), i < j PROVE a[j] <= a[i]
    BY <1>4 DEF Falls
  <2>1. ages[j] <= ages[i] /\ ages[i] \in 0..top /\ ages[j] \in 0..top
    BY <1>2 DEF Falls
  <2> QED BY <1>3, <2>1
<1> QED BY <1>1, <1>3, <1>4, <1>5

\* Sequences that agree everywhere are the same.
LEMMA SameHits ==
  ASSUME NEW T, NEW a \in Seq(T), NEW b \in Seq(T), Len(a) = Len(b),
         \A i \in 1..Len(a) : a[i] = b[i]
  PROVE  a = b
OBVIOUS

LEMMA AgedPruned ==
  ASSUME NEW top \in Nat, NEW window \in 0..top, NEW ages \in Seq(0..top), Falls(ages)
  PROVE  Pruned(Aged(Pruned(ages, window), top), window) = Pruned(Aged(ages, top), window)
<1>1. 0..top \in SUBSET Nat /\ window \in Nat
  OBVIOUS
<1>2. PICK q : q = Pruned(ages, window)
  OBVIOUS
<1>3. PICK n \in 0..Len(ages) :
        /\ Drops(ages, window, n) /\ q \in Seq(0..top) /\ Len(q) = Len(ages) - n
        /\ \A i \in 1..Len(ages) - n : q[i] = ages[i + n]
        /\ Falls(q)
  BY <1>1, <1>2, PrunedFacts
<1>4. PICK b : b = Aged(q, top)
  OBVIOUS
<1>5. /\ b \in Seq(0..top) /\ Len(b) = Len(q) /\ Falls(b)
      /\ \A i \in 1..Len(q) : b[i] = IF q[i] < top THEN q[i] + 1 ELSE top
  BY <1>3, <1>4, AgedFacts
<1>6. PICK a : a = Aged(ages, top)
  OBVIOUS
<1>7. /\ a \in Seq(0..top) /\ Len(a) = Len(ages) /\ Falls(a)
      /\ \A i \in 1..Len(ages) : a[i] = IF ages[i] < top THEN ages[i] + 1 ELSE top
  BY <1>6, AgedFacts
<1>8. PICK p : p = Pruned(b, window)
  OBVIOUS
<1>9. PICK m \in 0..Len(b) :
        /\ Drops(b, window, m) /\ p \in Seq(0..top) /\ Len(p) = Len(b) - m
        /\ \A i \in 1..Len(b) - m : p[i] = b[i + m]
  <2>1. \E m \in 0..Len(b) :
          /\ Drops(b, window, m)
          /\ Pruned(b, window) \in Seq(0..top)
          /\ Len(Pruned(b, window)) = Len(b) - m
          /\ \A i \in 1..Len(b) - m : Pruned(b, window)[i] = b[i + m]
          /\ \A i \in 1..Len(b) - m : Pruned(b, window)[i] < window
          /\ Falls(Pruned(b, window))
    BY <1>1, <1>5, PrunedFacts
  <2> QED BY <1>8, <2>1
<1>10. Len(ages) \in Nat /\ Len(a) \in Nat /\ Len(b) = Len(ages) - n /\ n + m \in 0..Len(a)
  <2>1. Len(ages) \in Nat /\ n \in Nat /\ n <= Len(ages) /\ Len(b) = Len(ages) - n /\ Len(a) = Len(ages)
    BY <1>3, <1>5, <1>7
  <2>2. m \in Nat /\ m <= Len(b)
    BY <1>9, <2>1
  <2> QED BY <2>1, <2>2
<1>11. \A i \in 1..Len(ages) - n : b[i] = a[i + n] /\ i + n \in 1..Len(ages)
  <2> SUFFICES ASSUME NEW i \in 1..Len(ages) - n PROVE b[i] = a[i + n] /\ i + n \in 1..Len(ages)
    OBVIOUS
  <2>1. i + n \in 1..Len(ages) /\ i \in 1..Len(q)
    BY <1>3, <1>10
  <2> QED BY <1>3, <1>5, <1>7, <2>1
<1>12. Drops(a, window, n + m)
  <2>1. ASSUME NEW i \in 1..n + m PROVE a[i] >= window
    <3>1. CASE i <= n
      <4>1. i \in 1..n /\ i \in 1..Len(ages)
        BY <1>10, <3>1
      <4>2. ages[i] >= window /\ ages[i] \in 0..top
        BY <1>3, <4>1 DEF Drops
      <4> QED BY <1>7, <4>1, <4>2
    <3>2. CASE ~ (i <= n)
      <4>1. i - n \in 1..m /\ i - n \in 1..Len(ages) - n /\ (i - n) + n = i
        BY <1>9, <1>10, <3>2
      <4>2. b[i - n] >= window
        BY <1>9, <4>1 DEF Drops
      <4> QED BY <1>11, <4>1, <4>2
    <3> QED BY <3>1, <3>2
  <2>2. ASSUME n + m < Len(a) PROVE a[n + m + 1] < window
    <3>1. m < Len(b) /\ m + 1 \in 1..Len(ages) - n /\ (m + 1) + n = n + m + 1
      <4>1. m \in Nat /\ n \in Nat /\ Len(a) = Len(ages)
        BY <1>7, <1>9, <1>10
      <4> QED BY <1>10, <2>2, <4>1
    <3>2. b[m + 1] < window
      BY <1>9, <3>1 DEF Drops
    <3> QED BY <1>11, <3>1, <3>2
  <2> QED BY <2>1, <2>2 DEF Drops
<1>13. PICK c : c = Pruned(a, window)
  OBVIOUS
<1>14. /\ c \in Seq(0..top) /\ Len(c) = Len(a) - (n + m)
       /\ \A i \in 1..Len(a) - (n + m) : c[i] = a[i + (n + m)]
  BY <1>1, <1>7, <1>10, <1>12, <1>13, PrunedIs
<1>15. Len(c) = Len(p) /\ \A i \in 1..Len(c) : c[i] = p[i]
  <2>1. Len(c) = Len(p) /\ Len(p) = Len(b) - m /\ Len(p) \in Nat
    BY <1>7, <1>9, <1>10, <1>14
  <2>2. ASSUME NEW i \in 1..Len(c) PROVE c[i] = p[i]
    <3>1. i \in 1..Len(b) - m /\ i + m \in 1..Len(ages) - n /\ (i + m) + n = i + (n + m)
          /\ i \in 1..Len(a) - (n + m)
      BY <1>7, <1>9, <1>10, <1>14, <2>1
    <3> QED BY <1>9, <1>11, <1>14, <3>1
  <2> QED BY <2>1, <2>2
<1>16. c = p
  BY <1>9, <1>14, <1>15, SameHits
<1> QED BY <1>2, <1>4, <1>6, <1>8, <1>13, <1>16

-----------------------------------------------------------------------------
(* The delay that is told.                                                 *)

\* Whole seconds that cover a number of ticks, and no second more.
LEMMA CeilingCovers ==
  ASSUME NEW t \in Nat, NEW s \in Nat \ {0}, s < t
  PROVE  /\ (t + s - 1) \div s \in Nat
         /\ ((t + s - 1) \div s) * s >= t
         /\ ((t + s - 1) \div s - 1) * s < t
<1>1. PICK x : x = t + s - 1
  OBVIOUS
<1>2. x \in Nat /\ x >= s
  BY <1>1
<1>3. PICK d, r : d = x \div s /\ r = x % s
  OBVIOUS
<1>4. d \in Int /\ r \in 0..s - 1 /\ x = s * d + r
  BY <1>2, <1>3, Z3
<1>5. s * d \in Int /\ d * s = s * d /\ (d - 1) * s = s * d - s
  BY <1>4
<1>6. s * d >= t /\ s * d - s < t
  BY <1>1, <1>2, <1>4, <1>5
<1>7. d >= 0
  <2> SUFFICES ASSUME d < 0 PROVE FALSE
    BY <1>4
  <2>1. s * d <= 0
    BY <1>4
  <2> QED BY <1>5, <1>6, <2>1
<1> QED BY <1>1, <1>3, <1>4, <1>5, <1>6, <1>7

LEMMA SecondsCover ==
  ASSUME NEW ticks \in Nat \ {0}
  PROVE  /\ Seconds(ticks) \in Nat \ {0}
         /\ Seconds(ticks) * Second >= ticks
         /\ Seconds(ticks) > 1 => (Seconds(ticks) - 1) * Second < ticks
<1>1. Second \in Nat \ {0}
  BY WindowConstants
<1>2. CASE ticks <= Second
  BY <1>1, <1>2 DEF Seconds
<1>3. CASE ~ (ticks <= Second)
  <2>1. Second < ticks /\ ticks \in Nat
    BY <1>1, <1>3
  <2>2. Seconds(ticks) = (ticks + Second - 1) \div Second
    BY <1>3 DEF Seconds
  <2>3. PICK w : w = Seconds(ticks)
    OBVIOUS
  <2>4. w \in Nat /\ w * Second >= ticks /\ (w - 1) * Second < ticks
    BY <1>1, <2>1, <2>2, <2>3, CeilingCovers
  <2>5. w # 0
    BY <1>1, <2>1, <2>4
  <2> QED BY <2>3, <2>4, <2>5
<1> QED BY <1>2, <1>3

\* A full window is full for as long as its oldest hit counts.
LEMMA FullForAsLong ==
  ASSUME NEW top \in Nat, NEW ages \in Seq(0..top), Falls(ages), NEW window \in Nat,
         NEW limit \in Nat \ {0}, Len(ages) = limit, NEW seconds \in Nat
  PROVE  StillFull(ages, seconds, window, limit) <=> ages[1] + seconds * Second < window
<1>1. PICK w : w = seconds * Second
  OBVIOUS
<1>2. w \in Nat
  BY <1>1, WindowConstants
<1>3. PICK later : later = [i \in DOMAIN ages |-> ages[i] + w]
  OBVIOUS
<1>4. /\ later = [i \in 1..limit |-> ages[i] + w]
      /\ \A i \in 1..limit : ages[i] \in Nat
  BY <1>3
<1>5. later \in Seq(Nat) /\ Len(later) = limit /\ \A i \in 1..limit : later[i] = ages[i] + w
  BY <1>2, <1>4
<1>6. Falls(later)
  <2> SUFFICES ASSUME NEW i \in 1..limit, NEW j \in 1..limit, i < j PROVE later[j] <= later[i]
    BY <1>5 DEF Falls
  <2>1. ages[j] <= ages[i]
    BY DEF Falls
  <2> QED BY <1>2, <1>4, <1>5, <2>1
<1>7. PICK q : q = Pruned(later, window)
  OBVIOUS
<1>8. PICK n \in 0..Len(later) : Drops(later, window, n) /\ Len(q) = Len(later) - n
  <2>1. \E n \in 0..Len(later) :
           /\ Drops(later, window, n)
           /\ Pruned(later, window) \in Seq(Nat)
           /\ Len(Pruned(later, window)) = Len(later) - n
           /\ \A i \in 1..Len(later) - n : Pruned(later, window)[i] = later[i + n]
           /\ \A i \in 1..Len(later) - n : Pruned(later, window)[i] < window
           /\ Falls(Pruned(later, window))
    BY <1>2, <1>5, <1>6, PrunedFacts
  <2> QED BY <1>7, <2>1
<1>9. StillFull(ages, seconds, window, limit) <=> n = 0
  <2>1. StillFull(ages, seconds, window, limit) <=> Len(q) >= limit
    BY <1>1, <1>3, <1>7 DEF StillFull
  <2>2. n \in Nat /\ Len(q) = limit - n
    BY <1>5, <1>8
  <2> QED BY <2>1, <2>2
<1>10. n = 0 <=> later[1] < window
  <2>1. 1 \in 1..limit /\ later[1] \in Nat /\ 0 < Len(later)
    BY <1>5
  <2>2. ASSUME n = 0 PROVE later[1] < window
    BY <1>8, <2>1, <2>2 DEF Drops
  <2>3. ASSUME n # 0 PROVE later[1] >= window
    <3>1. 1 \in 1..n
      BY <1>8, <2>3
    <3> QED BY <1>8, <3>1 DEF Drops
  <2> QED BY <2>1, <2>2, <2>3
<1>11. later[1] = ages[1] + w
  BY <1>5
<1> QED BY <1>1, <1>9, <1>10, <1>11

-----------------------------------------------------------------------------
(* The windows.                                                            *)

\* Ages in every window that is kept, oldest first.
Oldest(f, top) == \A k \in DOMAIN f : f[k] \in Seq(0..top) /\ Falls(f[k])

\* What counts in a window of the limiter, whether it is kept or forgotten.
Counted(p) == Pruned(Of(hits, p), Window[p[1]])

WInv ==
  /\ DOMAIN hits \subseteq Pairs /\ Oldest(hits, ForgetAfter)
  /\ DOMAIN failures \subseteq Emails /\ Oldest(failures, LoginWindow)
  /\ admitted \in [Pairs -> Seq(0..ForgetAfter)]
  /\ \A p \in Pairs : admitted[p] = Counted(p)
  /\ LimitsHold

LEMMA WindowFacts ==
  /\ ForgetAfter \in Nat /\ LoginWindow \in Nat \ {0} /\ MaxFailures \in Nat \ {0}
  /\ \A p \in Pairs : /\ Window[p[1]] \in Nat \ {0} /\ Window[p[1]] \in 0..ForgetAfter
                      /\ Limit[p[1]] \in Nat \ {0}
  /\ 0..ForgetAfter \in SUBSET Nat /\ 0..LoginWindow \in SUBSET Nat
<1>1. ForgetAfter \in Nat /\ LoginWindow \in Nat \ {0} /\ MaxFailures \in Nat \ {0}
  BY WindowConstants
<1>2. \A b \in Buckets : Window[b] \in Nat \ {0} /\ Window[b] <= ForgetAfter /\ Limit[b] \in Nat \ {0}
  BY WindowConstants
<1>3. \A p \in Pairs : p[1] \in Buckets
  BY DEF Pairs
<1> QED BY <1>1, <1>2, <1>3

LEMMA HitIs ==
  ASSUME NEW T, NEW ages \in Seq(T), NEW i \in 1..Len(ages)
  PROVE  ages[i] \in T
OBVIOUS

LEMMA Nothing ==
  ASSUME NEW top \in Nat
  PROVE  << >> \in Seq(0..top) /\ Falls(<< >>) /\ Len(<< >>) = 0
<1>1. << >> \in Seq(0..top) /\ Len(<< >>) = 0
  OBVIOUS
<1> QED BY <1>1 DEF Falls

\* What is forgotten counts no more: the last hit is older than any window.
LEMMA ForgottenCountsNot ==
  ASSUME NEW top \in Nat, NEW window \in 0..top, NEW ages \in Seq(0..top), Falls(ages),
         ages # << >> => ages[Len(ages)] >= top
  PROVE  Pruned(ages, window) = << >>
<1>1. 0..top \in SUBSET Nat /\ Len(ages) \in Nat /\ Len(ages) \in 0..Len(ages) /\ window \in Nat
  OBVIOUS
<1>2. ASSUME NEW i \in 1..Len(ages) PROVE ages[i] >= window
  <2>1. Len(ages) \in 1..Len(ages) /\ ages # << >>
    BY <1>1
  <2>2. ages[Len(ages)] <= ages[i] \/ i = Len(ages)
    BY <1>1, <2>1 DEF Falls
  <2>3. ages[i] \in Nat /\ ages[Len(ages)] \in Nat /\ ages[Len(ages)] >= top
    BY <2>1
  <2> QED BY <2>2, <2>3
<1>3. Drops(ages, window, Len(ages))
  BY <1>1, <1>2 DEF Drops
<1>4. PICK q : q = Pruned(ages, window)
  OBVIOUS
<1>5. q \in Seq(0..top) /\ Len(q) = Len(ages) - Len(ages)
  BY <1>1, <1>3, <1>4, PrunedIs
<1>6. Len(q) = 0
  BY <1>1, <1>5
<1>7. q = << >>
  BY <1>5, <1>6
<1> QED BY <1>4, <1>7

LEMMA NothingCounts ==
  ASSUME NEW window \in Nat
  PROVE  Pruned(<< >>, window) = << >>
<1>1. << >> \in Seq(Nat) /\ \A i \in 1..Len(<< >>) : << >>[i] < window
  OBVIOUS
<1>2. Nat \in SUBSET Nat
  OBVIOUS
<1> QED BY <1>1, <1>2, PrunedStays

LEMMA OfIsTidy ==
  ASSUME NEW top \in Nat, NEW f, Oldest(f, top), NEW k
  PROVE  Of(f, k) \in Seq(0..top) /\ Falls(Of(f, k))
BY Nothing DEF Of, Oldest

\* Making room forgets what counts no more.
LEMMA TrackedCounts ==
  ASSUME WInv
  PROVE  /\ DOMAIN Tracked \subseteq Pairs /\ Oldest(Tracked, ForgetAfter)
         /\ \A p \in Pairs : Pruned(Of(Tracked, p), Window[p[1]]) = Counted(p)
<1> DEFINE kept == {p \in DOMAIN hits : KeepsRecent(hits[p])}
<1>1. CASE Tracked = hits
  BY <1>1 DEF WInv, Counted
<1>2. CASE Tracked = Restrict(hits, kept)
  <2>1. DOMAIN Tracked = kept /\ \A p \in kept : Tracked[p] = hits[p]
    BY <1>2 DEF Restrict
  <2>2. DOMAIN Tracked \subseteq Pairs /\ Oldest(Tracked, ForgetAfter)
    BY <2>1 DEF WInv, Oldest
  <2>3. ASSUME NEW p \in Pairs PROVE Pruned(Of(Tracked, p), Window[p[1]]) = Counted(p)
    <3>1. CASE p \in DOMAIN hits /\ p \notin kept
      <4>1. Of(Tracked, p) = << >> /\ Of(hits, p) = hits[p]
        BY <2>1, <3>1 DEF Of
      <4>2. hits[p] \in Seq(0..ForgetAfter) /\ Falls(hits[p])
        BY <3>1 DEF WInv, Oldest
      <4>3. hits[p] # << >> => hits[p][Len(hits[p])] >= ForgetAfter
        <5> SUFFICES ASSUME hits[p] # << >> PROVE hits[p][Len(hits[p])] >= ForgetAfter
          OBVIOUS
        <5>1. Len(hits[p]) \in 1..Len(hits[p])
          BY <4>2
        <5>2. hits[p][Len(hits[p])] \in 0..ForgetAfter
          <6>1. PICK x : x = hits[p]
            OBVIOUS
          <6>2. x \in Seq(0..ForgetAfter) /\ Len(x) \in 1..Len(x)
            BY <4>2, <5>1, <6>1
          <6>3. \A i \in 1..Len(x) : x[i] \in 0..ForgetAfter
            BY <6>2, HitIs
          <6> QED BY <6>1, <6>2, <6>3
        <5> QED BY <3>1, <5>2, WindowFacts DEF KeepsRecent
      <4>4. Pruned(hits[p], Window[p[1]]) = << >>
        BY <4>2, <4>3, WindowFacts, ForgottenCountsNot
      <4>5. Pruned(<< >>, Window[p[1]]) = << >>
        BY WindowFacts, NothingCounts
      <4> QED BY <4>1, <4>4, <4>5 DEF Counted
    <3>2. CASE ~ (p \in DOMAIN hits /\ p \notin kept)
      <4>1. Of(Tracked, p) = Of(hits, p)
        BY <2>1, <3>2 DEF Of
      <4> QED BY <4>1 DEF Counted
    <3> QED BY <3>1, <3>2
  <2> QED BY <2>2, <2>3
<1> QED BY <1>1, <1>2 DEF Tracked

\* What counts is no more than it was, and the window is the caller's.
LEMMA WindowedFacts ==
  ASSUME WInv, NEW b \in Buckets, NEW c \in Callers
  PROVE  /\ <<b, c>> \in Pairs /\ <<b, c>>[1] = b
         /\ Pruned(Of(Tracked, <<b, c>>), Window[b]) = Counted(<<b, c>>)
         /\ Counted(<<b, c>>) \in Seq(0..ForgetAfter) /\ Falls(Counted(<<b, c>>))
         /\ \A i \in 1..Len(Counted(<<b, c>>)) : Counted(<<b, c>>)[i] < Window[b]
         /\ Pruned(Counted(<<b, c>>), Window[b]) = Counted(<<b, c>>)
<1>1. PICK p : p = <<b, c>>
  OBVIOUS
<1>2. p \in Pairs /\ p[1] = b
  BY <1>1 DEF Pairs
<1>3. PICK ages : ages = Of(hits, p)
  OBVIOUS
<1>4. ages \in Seq(0..ForgetAfter) /\ Falls(ages)
  BY <1>3, OfIsTidy, WindowFacts DEF WInv
<1>5. PICK w : w = Window[p[1]]
  OBVIOUS
<1>6. w \in Nat
  BY <1>2, <1>5, WindowFacts
<1>7. \E n \in 0..Len(ages) :
        /\ Drops(ages, w, n)
        /\ Pruned(ages, w) \in Seq(0..ForgetAfter)
        /\ Len(Pruned(ages, w)) = Len(ages) - n
        /\ \A i \in 1..Len(ages) - n : Pruned(ages, w)[i] = ages[i + n]
        /\ \A i \in 1..Len(ages) - n : Pruned(ages, w)[i] < w
        /\ Falls(Pruned(ages, w))
  BY <1>4, <1>6, WindowFacts, PrunedFacts
<1>8. Counted(p) = Pruned(ages, w)
  BY <1>3, <1>5 DEF Counted
<1>9. PICK q : q = Counted(p)
  OBVIOUS
<1>10. q \in Seq(0..ForgetAfter) /\ Falls(q) /\ \A i \in 1..Len(q) : q[i] < w
  BY <1>7, <1>8, <1>9
<1>11. Pruned(q, w) = q
  BY <1>6, <1>10, WindowFacts, PrunedStays
<1> QED BY <1>1, <1>2, <1>5, <1>9, <1>10, <1>11, TrackedCounts

\* One window is written, and the others are those that were not forgotten.
LEMMA HitsWritten ==
  ASSUME WInv, NEW b \in Buckets, NEW c \in Callers, NEW q \in Seq(0..ForgetAfter),
         Falls(q), Pruned(q, Window[b]) = q,
         hits' = [x \in DOMAIN Tracked \cup {<<b, c>>} |-> IF x = <<b, c>> THEN q ELSE Tracked[x]]
  PROVE  /\ DOMAIN hits' \subseteq Pairs /\ Oldest(hits', ForgetAfter)
         /\ \A p \in Pairs : Counted(p)' = IF p = <<b, c>> THEN q ELSE Counted(p)
<1>1. PICK k : k = <<b, c>>
  OBVIOUS
<1>2. k \in Pairs /\ k[1] = b
  BY <1>1, WindowedFacts
<1>3. DOMAIN hits' = DOMAIN Tracked \cup {k}
      /\ \A x \in DOMAIN hits' : hits'[x] = IF x = k THEN q ELSE Tracked[x]
  BY <1>1
<1>4. Oldest(hits', ForgetAfter)
  BY <1>3, TrackedCounts DEF Oldest
<1>5. ASSUME NEW p \in Pairs PROVE Counted(p)' = IF p = k THEN q ELSE Counted(p)
  <2>1. Of(hits', p) = IF p = k THEN q ELSE Of(Tracked, p)
    BY <1>3 DEF Of
  <2>2. Counted(p)' = Pruned(Of(hits', p), Window[p[1]])
    BY DEF Counted
  <2> QED BY <1>2, <2>1, <2>2, TrackedCounts
<1> QED BY <1>1, <1>2, <1>3, <1>4, <1>5, TrackedCounts

LEMMA AdmitKeeps ==
  ASSUME WInv, NEW b \in Buckets, NEW c \in Callers, Admit(b, c)
  PROVE  WInv'
<1>1. PICK k : k = <<b, c>>
  OBVIOUS
<1>2. PICK q : q = Counted(k)
  OBVIOUS
<1>3. /\ k \in Pairs /\ k[1] = b
      /\ Pruned(Of(Tracked, k), Window[b]) = q
      /\ q \in Seq(0..ForgetAfter) /\ Falls(q)
      /\ \A i \in 1..Len(q) : q[i] < Window[b]
  BY <1>1, <1>2, WindowedFacts
<1>4. Len(q) < Limit[b] /\ Limit[b] \in Nat /\ Window[b] \in Nat \ {0} /\ Len(q) \in Nat
  <2>1. ~ (Len(q) >= Limit[b])
    BY <1>1, <1>3 DEF Admit, Full
  <2>2. Len(q) \in Nat
    BY <1>3
  <2>3. Limit[b] \in Nat /\ Window[b] \in Nat \ {0}
    BY WindowConstants
  <2> QED BY <2>1, <2>2, <2>3
<1>5. PICK a : a = Append(q, 0)
  OBVIOUS
<1>6. a \in Seq(0..ForgetAfter) /\ Falls(a) /\ Len(a) = Len(q) + 1 /\ Pruned(a, Window[b]) = a
  <2>1. PICK w, top : w = Window[b] /\ top = ForgetAfter
    OBVIOUS
  <2>2. w \in Nat \ {0} /\ top \in Nat
    BY <1>4, <2>1, WindowFacts
  <2>3. q \in Seq(0..top) /\ Falls(q) /\ \A i \in 1..Len(q) : q[i] < w
    BY <1>3, <2>1
  <2>4. a \in Seq(0..top) /\ Falls(a) /\ Len(a) = Len(q) + 1 /\ Pruned(a, w) = a
    BY <1>5, <2>2, <2>3, OneHitMore
  <2> QED BY <2>1, <2>4
<1>7. hits' = [x \in DOMAIN Tracked \cup {k} |-> IF x = k THEN a ELSE Tracked[x]]
  <2>1. PICK w : w = Windowed(b, c)
    OBVIOUS
  <2>2. w = [x \in DOMAIN Tracked \cup {k} |-> IF x = k THEN q ELSE Tracked[x]]
    BY <1>1, <1>3, <2>1 DEF Windowed, Put
  <2>3. hits' = [w EXCEPT ![k] = Append(@, 0)]
    BY <1>1, <2>1 DEF Admit
  <2> QED BY <1>5, <2>2, <2>3
<1>8. /\ DOMAIN hits' \subseteq Pairs /\ Oldest(hits', ForgetAfter)
      /\ \A p \in Pairs : Counted(p)' = IF p = k THEN a ELSE Counted(p)
  BY <1>1, <1>6, <1>7, HitsWritten
<1>9. admitted' = [admitted EXCEPT ![k] = a] /\ failures' = failures
  <2>1. admitted[k] = q
    BY <1>2, <1>3 DEF WInv
  <2> QED BY <1>1, <1>5, <2>1 DEF Admit
<1>10. \A p \in Pairs : admitted'[p] = IF p = k THEN a ELSE admitted[p]
  BY <1>9 DEF WInv
<1>11. admitted' \in [Pairs -> Seq(0..ForgetAfter)]
  BY <1>6, <1>9 DEF WInv
<1>12. \A p \in Pairs : admitted'[p] = Counted(p)' /\ Len(admitted'[p]) <= Limit[p[1]]
  BY <1>3, <1>4, <1>6, <1>8, <1>10 DEF WInv, LimitsHold
<1>13. LimitsHold'
  BY <1>9, <1>12 DEF WInv, LimitsHold, LoginPruned
<1>14. DOMAIN failures' \subseteq Emails /\ Oldest(failures', LoginWindow)
  BY <1>9 DEF WInv
<1> QED BY <1>8, <1>11, <1>12, <1>13, <1>14 DEF WInv

LEMMA RefuseKeeps ==
  ASSUME WInv, NEW b \in Buckets, NEW c \in Callers, Refuse(b, c)
  PROVE  WInv'
<1>1. PICK k : k = <<b, c>>
  OBVIOUS
<1>2. PICK q : q = Counted(k)
  OBVIOUS
<1>3. /\ k \in Pairs /\ k[1] = b /\ q \in Seq(0..ForgetAfter) /\ Falls(q)
      /\ Pruned(Of(Tracked, k), Window[b]) = q /\ Pruned(q, Window[b]) = q
  BY <1>1, <1>2, WindowedFacts
<1>4. hits' = [x \in DOMAIN Tracked \cup {k} |-> IF x = k THEN q ELSE Tracked[x]]
  BY <1>1, <1>3 DEF Refuse, Windowed, Put
<1>5. /\ DOMAIN hits' \subseteq Pairs /\ Oldest(hits', ForgetAfter)
      /\ \A p \in Pairs : Counted(p)' = IF p = k THEN q ELSE Counted(p)
  <2>1. hits' = [x \in DOMAIN Tracked \cup {<<b, c>>} |-> IF x = <<b, c>> THEN q ELSE Tracked[x]]
    BY <1>1, <1>4
  <2>2. /\ DOMAIN hits' \subseteq Pairs /\ Oldest(hits', ForgetAfter)
        /\ \A p \in Pairs : Counted(p)' = IF p = <<b, c>> THEN q ELSE Counted(p)
    <3>1. q \in Seq(0..ForgetAfter) /\ Falls(q) /\ Pruned(q, Window[b]) = q
      BY <1>3
    <3> QED BY <2>1, <3>1, HitsWritten
  <2> QED BY <1>1, <2>2
<1>6. \A p \in Pairs : Counted(p)' = Counted(p)
  BY <1>2, <1>5
<1>7. UNCHANGED <<failures, admitted>>
  BY DEF Refuse
<1> QED BY <1>5, <1>6, <1>7 DEF WInv, LimitsHold, LoginPruned

\* What an account has failed is young and falls, and is no more than allowed.
LEMMA LoginFacts ==
  ASSUME WInv, NEW e \in Emails
  PROVE  /\ LoginPruned(e) \in Seq(0..LoginWindow) /\ Falls(LoginPruned(e))
         /\ \A i \in 1..Len(LoginPruned(e)) : LoginPruned(e)[i] < LoginWindow
         /\ Pruned(LoginPruned(e), LoginWindow) = LoginPruned(e)
<1>1. PICK ages : ages = Of(failures, e)
  OBVIOUS
<1>2. ages \in Seq(0..LoginWindow) /\ Falls(ages)
  BY <1>1, OfIsTidy, WindowFacts DEF WInv
<1>3. \E n \in 0..Len(ages) :
        /\ Drops(ages, LoginWindow, n)
        /\ Pruned(ages, LoginWindow) \in Seq(0..LoginWindow)
        /\ Len(Pruned(ages, LoginWindow)) = Len(ages) - n
        /\ \A i \in 1..Len(ages) - n : Pruned(ages, LoginWindow)[i] = ages[i + n]
        /\ \A i \in 1..Len(ages) - n : Pruned(ages, LoginWindow)[i] < LoginWindow
        /\ Falls(Pruned(ages, LoginWindow))
  BY <1>2, WindowFacts, PrunedFacts
<1>4. LoginPruned(e) = Pruned(ages, LoginWindow)
  BY <1>1 DEF LoginPruned
<1>5. PICK q : q = LoginPruned(e)
  OBVIOUS
<1>6. q \in Seq(0..LoginWindow) /\ Falls(q) /\ \A i \in 1..Len(q) : q[i] < LoginWindow
  BY <1>3, <1>4, <1>5
<1>7. Pruned(q, LoginWindow) = q
  BY <1>6, WindowFacts, PrunedStays
<1> QED BY <1>5, <1>6, <1>7

\* The failures of one account are written.
LEMMA FailuresWritten ==
  ASSUME WInv, NEW e \in Emails, NEW q \in Seq(0..LoginWindow), Falls(q),
         Pruned(q, LoginWindow) = q, Len(q) <= MaxFailures,
         failures' = Put(failures, e, q), UNCHANGED <<hits, admitted>>
  PROVE  WInv'
<1>1. DOMAIN failures' = DOMAIN failures \cup {e}
      /\ \A x \in DOMAIN failures' : failures'[x] = IF x = e THEN q ELSE failures[x]
  BY DEF Put
<1>2. DOMAIN failures' \subseteq Emails /\ Oldest(failures', LoginWindow)
  BY <1>1 DEF WInv, Oldest
<1>3. ASSUME NEW x \in DOMAIN failures' PROVE Len(LoginPruned(x)') <= MaxFailures
  <2>1. Of(failures', x) = IF x = e THEN q ELSE Of(failures, x)
    BY <1>1, <1>3 DEF Of
  <2>2. LoginPruned(x)' = Pruned(Of(failures', x), LoginWindow)
    BY DEF LoginPruned
  <2>3. x # e => Len(LoginPruned(x)) <= MaxFailures
    BY <1>1, <1>3 DEF WInv, LimitsHold
  <2> QED BY <2>1, <2>2, <2>3 DEF LoginPruned
<1> QED BY <1>2, <1>3 DEF WInv, LimitsHold, Counted

LEMMA LoginKeeps ==
  ASSUME WInv, NEW e \in Emails, LoginRefused(e) \/ LoginWrong(e) \/ LoginRight(e)
  PROVE  WInv'
<1>1. PICK q : q = LoginPruned(e)
  OBVIOUS
<1>2. /\ q \in Seq(0..LoginWindow) /\ Falls(q) /\ Pruned(q, LoginWindow) = q
      /\ \A i \in 1..Len(q) : q[i] < LoginWindow
  BY <1>1, LoginFacts
<1>3. CASE LoginRefused(e)
  <2>1. Len(q) <= MaxFailures
    <3>1. CASE e \in DOMAIN failures
      BY <1>1, <3>1 DEF WInv, LimitsHold
    <3>2. CASE e \notin DOMAIN failures
      <4>1. q = Pruned(<< >>, LoginWindow)
        BY <1>1, <3>2 DEF LoginPruned, Of
      <4>2. q = << >>
        BY <4>1, WindowFacts, NothingCounts
      <4> QED BY <4>2, WindowFacts
    <3> QED BY <3>1, <3>2
  <2> QED BY <1>1, <1>2, <1>3, <2>1, FailuresWritten DEF LoginRefused
<1>4. CASE LoginWrong(e)
  <2>1. PICK a : a = Append(q, 0)
    OBVIOUS
  <2>2. a \in Seq(0..LoginWindow) /\ Falls(a) /\ Len(a) = Len(q) + 1 /\ Pruned(a, LoginWindow) = a
    BY <1>2, <2>1, WindowFacts, OneHitMore
  <2>3. Len(a) <= MaxFailures
    <3>1. ~ (Len(q) >= MaxFailures) /\ Len(q) \in Nat
      BY <1>1, <1>2, <1>4 DEF LoginWrong, LoginFull
    <3> QED BY <2>2, <3>1, WindowFacts
  <2> QED BY <1>1, <1>4, <2>1, <2>2, <2>3, FailuresWritten DEF LoginWrong
<1>5. CASE LoginRight(e)
  <2>1. failures' = Restrict(failures, DOMAIN failures \ {e}) /\ UNCHANGED <<hits, admitted>>
    BY <1>5 DEF LoginRight
  <2>2. DOMAIN failures' = DOMAIN failures \ {e} /\ \A x \in DOMAIN failures' : failures'[x] = failures[x]
    BY <2>1 DEF Restrict
  <2>3. \A x \in DOMAIN failures' : Of(failures', x) = Of(failures, x)
    BY <2>2 DEF Of
  <2>4. \A x \in DOMAIN failures' : LoginPruned(x)' = LoginPruned(x)
    BY <2>3 DEF LoginPruned
  <2>5. DOMAIN failures' \subseteq Emails /\ Oldest(failures', LoginWindow)
    BY <2>2 DEF WInv, Oldest
  <2>6. \A x \in DOMAIN failures' : Len(LoginPruned(x)') <= MaxFailures
    BY <2>2, <2>4 DEF WInv, LimitsHold
  <2> QED BY <2>1, <2>5, <2>6 DEF WInv, LimitsHold, Counted
<1> QED BY <1>3, <1>4, <1>5

LEMMA TickKeeps ==
  ASSUME WInv, TickWindows
  PROVE  WInv'
<1>1. /\ hits' = [p \in DOMAIN hits |-> Aged(hits[p], ForgetAfter)]
      /\ failures' = [e \in DOMAIN failures |-> Aged(failures[e], LoginWindow)]
      /\ admitted' = [p \in Pairs |-> Pruned(Aged(admitted[p], ForgetAfter), Window[p[1]])]
  BY DEF TickWindows
<1>2. Oldest(hits', ForgetAfter) /\ Oldest(failures', LoginWindow)
  <2>1. \A p \in DOMAIN hits : Aged(hits[p], ForgetAfter) \in Seq(0..ForgetAfter)
                               /\ Falls(Aged(hits[p], ForgetAfter))
    BY WindowFacts, AgedFacts DEF WInv, Oldest
  <2>2. \A e \in DOMAIN failures : Aged(failures[e], LoginWindow) \in Seq(0..LoginWindow)
                                   /\ Falls(Aged(failures[e], LoginWindow))
    BY WindowFacts, AgedFacts DEF WInv, Oldest
  <2> QED BY <1>1, <2>1, <2>2 DEF Oldest
<1>3. DOMAIN hits' \subseteq Pairs /\ DOMAIN failures' \subseteq Emails
  BY <1>1 DEF WInv
<1>4. ASSUME NEW top \in Nat, NEW ages \in Seq(0..top), Falls(ages), NEW w \in 0..top
      PROVE  /\ Pruned(Aged(Pruned(ages, w), top), w) = Pruned(Aged(ages, top), w)
             /\ Pruned(Aged(ages, top), w) \in Seq(0..top)
             /\ Len(Pruned(Aged(ages, top), w)) <= Len(Pruned(ages, w))
  <2>1. 0..top \in SUBSET Nat /\ w \in Nat
    OBVIOUS
  <2>2. PICK q : q = Pruned(ages, w)
    OBVIOUS
  <2>3. q \in Seq(0..top) /\ Falls(q)
    BY <1>4, <2>1, <2>2, PrunedFacts
  <2>4. PICK a : a = Aged(q, top)
    OBVIOUS
  <2>5. a \in Seq(0..top) /\ Len(a) = Len(q) /\ Falls(a)
    BY <2>3, <2>4, AgedFacts
  <2>6. PICK p : p = Pruned(a, w)
    OBVIOUS
  <2>7. \E n \in 0..Len(a) :
           /\ Drops(a, w, n)
           /\ Pruned(a, w) \in Seq(0..top)
           /\ Len(Pruned(a, w)) = Len(a) - n
           /\ \A i \in 1..Len(a) - n : Pruned(a, w)[i] = a[i + n]
           /\ \A i \in 1..Len(a) - n : Pruned(a, w)[i] < w
           /\ Falls(Pruned(a, w))
    BY <2>1, <2>5, PrunedFacts
  <2>8. p \in Seq(0..top) /\ Len(p) <= Len(q)
    BY <2>5, <2>6, <2>7
  <2>9. p = Pruned(Aged(ages, top), w)
    BY <1>4, <2>2, <2>4, <2>6, AgedPruned
  <2> QED BY <2>2, <2>4, <2>6, <2>8, <2>9
<1>5. ASSUME NEW p \in Pairs
      PROVE  /\ admitted'[p] = Counted(p)' /\ admitted'[p] \in Seq(0..ForgetAfter)
             /\ Len(admitted'[p]) <= Limit[p[1]]
  <2>1. PICK ages : ages = Of(hits, p)
    OBVIOUS
  <2>2. ages \in Seq(0..ForgetAfter) /\ Falls(ages)
    BY <2>1, OfIsTidy, WindowFacts DEF WInv
  <2>3. admitted[p] = Pruned(ages, Window[p[1]]) /\ Len(admitted[p]) <= Limit[p[1]]
    BY <2>1 DEF WInv, LimitsHold, Counted
  <2>4. Of(hits', p) = Aged(ages, ForgetAfter)
    <3>1. Aged(<< >>, ForgetAfter) = << >>
      BY DEF Aged
    <3> QED BY <1>1, <2>1, <3>1 DEF Of
  <2>5. Counted(p)' = Pruned(Aged(ages, ForgetAfter), Window[p[1]])
    BY <2>4 DEF Counted
  <2>6. PICK w : w = Window[p[1]]
    OBVIOUS
  <2>7. w \in 0..ForgetAfter
    BY <2>6, WindowFacts
  <2>8. /\ Pruned(Aged(Pruned(ages, w), ForgetAfter), w) = Pruned(Aged(ages, ForgetAfter), w)
        /\ Pruned(Aged(ages, ForgetAfter), w) \in Seq(0..ForgetAfter)
        /\ Len(Pruned(Aged(ages, ForgetAfter), w)) <= Len(Pruned(ages, w))
    BY <1>4, <2>2, <2>7, WindowFacts
  <2>9. admitted'[p] = Pruned(Aged(ages, ForgetAfter), w)
    BY <1>1, <2>3, <2>6, <2>8
  <2>10. Len(admitted'[p]) <= Len(admitted[p]) /\ admitted'[p] \in Seq(0..ForgetAfter)
    BY <2>3, <2>6, <2>8, <2>9
  <2>11. Len(admitted'[p]) \in Nat /\ Len(admitted[p]) \in Nat /\ Limit[p[1]] \in Nat
    BY <2>10, WindowFacts DEF WInv
  <2> QED BY <2>3, <2>5, <2>6, <2>9, <2>10, <2>11
<1>6. ASSUME NEW e \in DOMAIN failures PROVE Len(LoginPruned(e)') <= MaxFailures
  <2>1. PICK ages : ages = failures[e]
    OBVIOUS
  <2>2. ages \in Seq(0..LoginWindow) /\ Falls(ages) /\ Len(Pruned(ages, LoginWindow)) <= MaxFailures
    BY <1>6, <2>1 DEF WInv, Oldest, LimitsHold, LoginPruned, Of
  <2>3. LoginPruned(e)' = Pruned(Aged(ages, LoginWindow), LoginWindow)
    BY <1>1, <1>6, <2>1 DEF LoginPruned, Of
  <2>4. LoginWindow \in 0..LoginWindow
    BY WindowFacts
  <2>5. /\ Len(Pruned(Aged(ages, LoginWindow), LoginWindow)) <= Len(Pruned(ages, LoginWindow))
        /\ Pruned(Aged(ages, LoginWindow), LoginWindow) \in Seq(0..LoginWindow)
    BY <1>4, <2>2, <2>4, WindowFacts
  <2>6. Pruned(ages, LoginWindow) \in Seq(0..LoginWindow)
    BY <2>2, WindowFacts, PrunedFacts
  <2>7. PICK x, y : x = Len(Pruned(Aged(ages, LoginWindow), LoginWindow)) /\ y = Len(Pruned(ages, LoginWindow))
    OBVIOUS
  <2>8. x \in Nat /\ y \in Nat /\ x <= y /\ y <= MaxFailures
    BY <2>2, <2>5, <2>6, <2>7
  <2> QED BY <2>3, <2>7, <2>8, WindowFacts
<1>7. admitted' \in [Pairs -> Seq(0..ForgetAfter)]
  <2>1. \A p \in Pairs : Pruned(Aged(admitted[p], ForgetAfter), Window[p[1]]) \in Seq(0..ForgetAfter)
    BY <1>1, <1>5
  <2> QED BY <1>1, <2>1
<1>8. LimitsHold'
  BY <1>1, <1>5, <1>6 DEF LimitsHold
<1> QED BY <1>2, <1>3, <1>5, <1>7, <1>8 DEF WInv

LEMMA ResetKeeps ==
  ASSUME WInv, ResetWindows
  PROVE  WInv'
<1>1. DOMAIN hits' = {} /\ DOMAIN failures' = {} /\ admitted' = [p \in Pairs |-> << >>]
  BY DEF ResetWindows
<1>2. Oldest(hits', ForgetAfter) /\ Oldest(failures', LoginWindow)
  BY <1>1 DEF Oldest
<1>3. << >> \in Seq(0..ForgetAfter) /\ Len(<< >>) = 0
  OBVIOUS
<1>4. ASSUME NEW p \in Pairs PROVE Counted(p)' = << >>
  <2>1. Of(hits', p) = << >>
    BY <1>1 DEF Of
  <2>2. Pruned(<< >>, Window[p[1]]) = << >>
    BY WindowFacts, NothingCounts
  <2> QED BY <2>1, <2>2 DEF Counted
<1>5. admitted' \in [Pairs -> Seq(0..ForgetAfter)] /\ \A p \in Pairs : admitted'[p] = << >>
  BY <1>1, <1>3
<1>6. LimitsHold'
  BY <1>1, <1>3, <1>5, WindowFacts DEF LimitsHold
<1> QED BY <1>1, <1>2, <1>4, <1>5, <1>6 DEF WInv

LEMMA WindowsBegin == WindowsInit => WInv
<1> SUFFICES ASSUME WindowsInit PROVE WInv
  OBVIOUS
<1>1. DOMAIN hits = {} /\ DOMAIN failures = {} /\ admitted = [p \in Pairs |-> << >>]
  BY DEF WindowsInit
<1>2. Oldest(hits, ForgetAfter) /\ Oldest(failures, LoginWindow)
  BY <1>1 DEF Oldest
<1>3. << >> \in Seq(0..ForgetAfter) /\ Len(<< >>) = 0
  OBVIOUS
<1>4. ASSUME NEW p \in Pairs PROVE Counted(p) = << >>
  <2>1. Of(hits, p) = << >>
    BY <1>1 DEF Of
  <2>2. Pruned(<< >>, Window[p[1]]) = << >>
    BY WindowFacts, NothingCounts
  <2> QED BY <2>1, <2>2 DEF Counted
<1>5. admitted \in [Pairs -> Seq(0..ForgetAfter)] /\ \A p \in Pairs : admitted[p] = << >>
  BY <1>1, <1>3
<1>6. LimitsHold
  BY <1>1, <1>3, <1>5, WindowFacts DEF LimitsHold
<1> QED BY <1>1, <1>2, <1>4, <1>5, <1>6 DEF WInv

LEMMA WindowsGoOn == WInv /\ [WindowsNext]_windowVars => WInv'
<1> SUFFICES ASSUME WInv, [WindowsNext]_windowVars PROVE WInv'
  OBVIOUS
<1>1. CASE \E b \in Buckets, c \in Callers : Admit(b, c) \/ Refuse(b, c)
  BY <1>1, AdmitKeeps, RefuseKeeps
<1>2. CASE \E e \in Emails : LoginRefused(e) \/ LoginWrong(e) \/ LoginRight(e)
  BY <1>2, LoginKeeps
<1>3. CASE ResetWindows
  BY <1>3, ResetKeeps
<1>4. CASE TickWindows
  BY <1>4, TickKeeps
<1>5. CASE UNCHANGED windowVars
  <2>1. UNCHANGED <<hits, failures, admitted>>
    BY <1>5 DEF windowVars
  <2> QED BY <2>1 DEF WInv, Oldest, LimitsHold, Counted, LoginPruned
<1> QED BY <1>1, <1>2, <1>3, <1>4, <1>5 DEF WindowsNext

\* A full window whose oldest hit is young: the time it has left, in whole
\* seconds, empties a place, and a second less does not.
LEMMA WaitIsRight ==
  ASSUME NEW top \in Nat, NEW ages \in Seq(0..top), Falls(ages), NEW window \in Nat \ {0},
         NEW limit \in Nat \ {0}, Len(ages) = limit, ages[1] < window
  PROVE  /\ ~ StillFull(ages, Seconds(window - ages[1]), window, limit)
         /\ Seconds(window - ages[1]) > 1
              => StillFull(ages, Seconds(window - ages[1]) - 1, window, limit)
<1>1. PICK a, left : a = ages[1] /\ left = window - ages[1]
  OBVIOUS
<1>2. a \in Nat /\ left \in Nat \ {0} /\ a + left = window
  <2>1. 1 \in 1..Len(ages)
    OBVIOUS
  <2>2. ages[1] \in 0..top
    BY <2>1
  <2> QED BY <1>1, <2>2
<1>3. PICK w : w = Seconds(left)
  OBVIOUS
<1>4. w \in Nat \ {0} /\ w * Second >= left /\ (w > 1 => (w - 1) * Second < left)
  BY <1>2, <1>3, SecondsCover
<1>5. Second \in Nat
  BY WindowConstants
<1>6. ~ StillFull(ages, w, window, limit)
  <2>1. w \in Nat /\ w * Second \in Nat
    BY <1>4, <1>5
  <2>2. StillFull(ages, w, window, limit) <=> ages[1] + w * Second < window
    BY <2>1, FullForAsLong
  <2>3. ~ (a + w * Second < window)
    BY <1>2, <1>4, <2>1
  <2> QED BY <1>1, <2>2, <2>3
<1>7. ASSUME w > 1 PROVE StillFull(ages, w - 1, window, limit)
  <2>1. w - 1 \in Nat /\ (w - 1) * Second \in Nat
    BY <1>4, <1>5
  <2>2. StillFull(ages, w - 1, window, limit) <=> ages[1] + (w - 1) * Second < window
    BY <2>1, FullForAsLong
  <2>3. a + (w - 1) * Second < window
    BY <1>2, <1>4, <1>7, <2>1
  <2> QED BY <1>1, <2>2, <2>3
<1> QED BY <1>1, <1>3, <1>6, <1>7

\* An answer that is the whole window is long enough.
LEMMA WholeWindowIsEnough ==
  ASSUME NEW top \in Nat, NEW ages \in Seq(0..top), Falls(ages), NEW window \in Nat \ {0},
         NEW limit \in Nat \ {0}, Len(ages) = limit, NEW wait \in Nat, wait * Second = window
  PROVE  ~ StillFull(ages, wait, window, limit)
<1>1. StillFull(ages, wait, window, limit) <=> ages[1] + wait * Second < window
  BY FullForAsLong
<1>2. 1 \in 1..Len(ages)
  OBVIOUS
<1>3. ages[1] \in 0..top
  BY <1>2
<1> QED BY <1>1, <1>3

LEMMA WindowsAreRight == WInv => WindowsHold
<1> SUFFICES ASSUME WInv PROVE WindowsHold
  OBVIOUS
<1>1. WindowsTypeOK
  BY DEF WInv, Oldest, WindowsTypeOK, Ages
<1>2. ASSUME NEW p \in DOMAIN hits
      PROVE  LET ages == Pruned(hits[p], Window[p[1]])
                 wait == RetryAfter(p[1], ages)
             IN Len(ages) = Limit[p[1]] =>
                  /\ ~StillFull(ages, wait, Window[p[1]], Limit[p[1]])
                  /\ FixedRetry[p[1]] = 0 /\ wait > 1
                       => StillFull(ages, wait - 1, Window[p[1]], Limit[p[1]])
  <2>1. PICK b, c : b \in Buckets /\ c \in Callers /\ p = <<b, c>>
    BY <1>2 DEF WInv, Pairs
  <2>2. PICK q : q = Counted(p)
    OBVIOUS
  <2>3. q = Pruned(hits[p], Window[b]) /\ p[1] = b
    BY <1>2, <2>1, <2>2 DEF Counted, Of
  <2>4. q \in Seq(0..ForgetAfter) /\ Falls(q) /\ \A i \in 1..Len(q) : q[i] < Window[b]
    BY <2>1, <2>2, WindowedFacts
  <2>5. PICK window, limit, wait : window = Window[b] /\ limit = Limit[b] /\ wait = RetryAfter(b, q)
    OBVIOUS
  <2>6. /\ window \in Nat \ {0} /\ limit \in Nat \ {0} /\ FixedRetry[b] \in Nat
        /\ FixedRetry[b] = 0 \/ FixedRetry[b] * Second = window
    BY <2>1, <2>5, WindowConstants
  <2>7. ASSUME Len(q) = limit
        PROVE  /\ ~ StillFull(q, wait, window, limit)
               /\ FixedRetry[b] = 0 /\ wait > 1 => StillFull(q, wait - 1, window, limit)
    <3>1. CASE FixedRetry[b] # 0
      <4>1. wait \in Nat /\ wait * Second = window
        BY <2>5, <2>6, <3>1 DEF RetryAfter
      <4>2. ~ StillFull(q, wait, window, limit)
        BY <2>4, <2>6, <2>7, <4>1, WindowFacts, WholeWindowIsEnough
      <4> QED BY <3>1, <4>2
    <3>2. CASE FixedRetry[b] = 0
      <4>1. q # << >> /\ 1 \in 1..Len(q)
        BY <2>4, <2>6, <2>7
      <4>2. q[1] < window /\ wait = Seconds(window - q[1])
        BY <2>4, <2>5, <3>2, <4>1 DEF RetryAfter
      <4>3. /\ ~ StillFull(q, Seconds(window - q[1]), window, limit)
            /\ Seconds(window - q[1]) > 1
                 => StillFull(q, Seconds(window - q[1]) - 1, window, limit)
        BY <2>4, <2>6, <2>7, <4>2, WindowFacts, WaitIsRight
      <4> QED BY <4>2, <4>3
    <3> QED BY <3>1, <3>2
  <2> QED BY <2>3, <2>5, <2>7
<1>3. ASSUME NEW e \in DOMAIN failures
      PROVE  LET ages == LoginPruned(e)
             IN Len(ages) = MaxFailures =>
                  ~StillFull(ages, LoginRetryAfter(ages), LoginWindow, MaxFailures)
  <2>1. e \in Emails
    BY <1>3 DEF WInv
  <2>2. PICK q : q = LoginPruned(e)
    OBVIOUS
  <2>3. q \in Seq(0..LoginWindow) /\ Falls(q) /\ \A i \in 1..Len(q) : q[i] < LoginWindow
    BY <2>1, <2>2, LoginFacts
  <2>4. ASSUME Len(q) = MaxFailures
        PROVE  ~ StillFull(q, LoginRetryAfter(q), LoginWindow, MaxFailures)
    <3>1. 1 \in 1..Len(q)
      BY <2>3, <2>4, WindowFacts
    <3>2. q[1] < LoginWindow
      BY <2>3, <3>1
    <3>3. ~ StillFull(q, Seconds(LoginWindow - q[1]), LoginWindow, MaxFailures)
      BY <2>3, <2>4, <3>2, WindowFacts, WaitIsRight
    <3> QED BY <3>3 DEF LoginRetryAfter
  <2> QED BY <2>2, <2>4
<1>4. WaitingIsEnough
  BY <1>2, <1>3 DEF WaitingIsEnough
<1> QED BY <1>1, <1>4 DEF WInv, WindowsHold

(* WindowsHold, for every limit, window and number of callers: in no        *)
(* window of a bucket are more calls let through than its limit allows,    *)
(* though _window forgets idle keys to make room (ratelimit.py:97-104), no *)
(* account has more failures than login_limit.py:26-30 allows, and whoever *)
(* is refused and waits exactly as long as retry_after_s says              *)
(* (ratelimit.py:115-124) is let in and need not have waited less.         *)
THEOREM BudgetsHold == WindowsSpec => []WindowsHold
<1> QED BY WindowsBegin, WindowsGoOn, WindowsAreRight, PTL DEF WindowsSpec

-----------------------------------------------------------------------------
(* The records of the observer.                                            *)

\* No record has a number that is still to be given.
NumbersGiven == \A f \in DOMAIN log : \A i \in DOMAIN log[f] : log[f][i].seq <= seq

\* An answer has a status.
AnswersHaveOne ==
  \A s \in InFlight : flight[s] # Idle /\ flight[s].phase = "answered" => flight[s].status \in Statuses

RInv == RecordsAreRight /\ NumbersGiven /\ AnswersHaveOne

\* The end of a family's records, one longer, and at most as long as the ring.
LEMMA LastOfThem ==
  ASSUME NEW T, NEW s \in Seq(T), RingSize \in Nat
  PROVE  /\ LastRecords(s) \in Seq(T) /\ Len(LastRecords(s)) <= RingSize
         /\ \E n \in Nat : /\ Len(LastRecords(s)) + n = Len(s)
                           /\ \A i \in DOMAIN LastRecords(s) : i + n \in DOMAIN s /\ LastRecords(s)[i] = s[i + n]
<1>1. Len(s) \in Nat /\ DOMAIN s = 1..Len(s)
  OBVIOUS
<1>2. CASE Len(s) <= RingSize
  <2>1. LastRecords(s) = s
    BY <1>2 DEF LastRecords
  <2>2. 0 \in Nat /\ Len(s) + 0 = Len(s) /\ \A i \in DOMAIN s : i + 0 \in DOMAIN s /\ s[i] = s[i + 0]
    BY <1>1
  <2> QED BY <1>2, <2>1, <2>2
<1>3. CASE ~ (Len(s) <= RingSize)
  <2>1. PICK n : n = Len(s) - RingSize
    OBVIOUS
  <2>2. n \in Nat /\ n + RingSize = Len(s)
    BY <1>1, <1>3, <2>1
  <2>3. PICK q : q = SubSeq(s, n + 1, Len(s))
    OBVIOUS
  <2>4. q \in Seq(T) /\ Len(q) = RingSize /\ \A i \in 1..RingSize : i + n \in 1..Len(s) /\ q[i] = s[i + n]
    <3>1. PICK m : m = Len(s)
      OBVIOUS
    <3>2. m \in Nat /\ m - (n + 1) + 1 = RingSize /\ n + 1 \in 1..m + 1
      <4>1. m \in Nat /\ n \in Nat /\ n + RingSize = m
        BY <1>1, <2>2, <3>1
      <4> QED BY <4>1
    <3>3. q = SubSeq(s, n + 1, m) /\ s \in Seq(T) /\ \A i \in 1..RingSize : i + n \in 1..m
      BY <2>2, <2>3, <3>1
    <3>4. q \in Seq(T) /\ Len(q) = RingSize
      BY <3>1, <3>2, <3>3
    <3>5. \A i \in 1..RingSize : q[i] = s[i + n]
      BY <2>2, <3>1, <3>2, <3>3
    <3> QED BY <3>1, <3>3, <3>4, <3>5
  <2>5. LastRecords(s) = q
    BY <1>3, <2>1, <2>3 DEF LastRecords
  <2>6. DOMAIN q = 1..RingSize
    BY <2>4
  <2>7. Len(q) + n = Len(s) /\ \A i \in DOMAIN q : i + n \in DOMAIN s /\ q[i] = s[i + n]
    <3>1. Len(q) + n = Len(s)
      BY <2>2, <2>4
    <3> QED BY <1>1, <2>4, <2>6, <3>1
  <2>8. q \in Seq(T) /\ Len(q) <= RingSize
    BY <2>4
  <2> QED BY <2>2, <2>5, <2>7, <2>8
<1> QED BY <1>2, <1>3

\* Steps that leave the log and the numbers alone.
LEMMA LogUntouched ==
  ASSUME RInv, RequestsTypeOK', AnswersHaveOne', UNCHANGED <<seq, log>>
  PROVE  RInv'
BY DEF RInv, RecordsAreRight, NumbersGiven, RecordsBelong, RecordsInOrder

LEMMA RequestsBegin == RequestsInit => RInv
<1> SUFFICES ASSUME RequestsInit PROVE RInv
  OBVIOUS
<1>1. RequestsTypeOK /\ AnswersHaveOne
  BY RequestConstants DEF RequestsInit, RequestsTypeOK, AnswersHaveOne
<1> QED BY <1>1 DEF RequestsInit, RInv, RecordsAreRight, NumbersGiven, RecordsBelong, RecordsInOrder

\* A request under way is one the middleware knows.
LEMMA UnderWay ==
  ASSUME RequestsTypeOK, NEW s \in InFlight, flight[s] # Idle
  PROVE  /\ flight[s] \in Requests /\ flight[s].family \in Families
         /\ flight[s].authed \in BOOLEAN /\ flight[s].fault \in {"none", "unavailable", "drop"}
BY DEF RequestsTypeOK, Requests

LEMMA AnswerIsTyped ==
  ASSUME RequestsTypeOK, NEW s \in InFlight, flight[s] # Idle, NEW status \in Statuses,
         NEW authed \in BOOLEAN, Answers(s, status, authed)
  PROVE  /\ flight' \in [InFlight -> Requests \cup {Idle}]
         /\ \A t \in InFlight : t # s => flight'[t] = flight[t]
         /\ flight'[s].status = status
<1>1. PICK r : r = [flight[s] EXCEPT !.phase = "answered", !.status = status, !.authed = authed]
  OBVIOUS
<1>2. r \in Requests /\ r.status = status
  BY <1>1, UnderWay DEF Requests
<1>3. flight' = [flight EXCEPT ![s] = r]
  BY <1>1 DEF Answers
<1> QED BY <1>2, <1>3 DEF RequestsTypeOK

LEMMA ArrivalKeeps ==
  ASSUME RInv, NEW s \in InFlight, NEW f \in Families, NEW kind \in Kinds, Arrive(s, f, kind)
  PROVE  RInv'
<1>1. RequestsTypeOK
  BY DEF RInv, RecordsAreRight
<1>2. flight' \in [InFlight -> Requests \cup {Idle}] /\ AnswersHaveOne'
  <2>1. PICK fault \in Faults(kind) :
          flight' = [flight EXCEPT ![s] = [phase |-> "delayed", family |-> f, kind |-> kind,
                                           fault |-> fault, authed |-> FALSE, status |-> 0]]
    BY DEF Arrive
  <2>2. fault \in {"none", "unavailable", "drop"}
    BY <2>1 DEF Faults
  <2>3. [phase |-> "delayed", family |-> f, kind |-> kind,
         fault |-> fault, authed |-> FALSE, status |-> 0] \in Requests
    BY <2>2 DEF Requests
  <2>4. flight' \in [InFlight -> Requests \cup {Idle}]
    BY <1>1, <2>1, <2>3 DEF RequestsTypeOK
  <2>5. flight'[s].phase = "delayed" /\ \A t \in InFlight : t # s => flight'[t] = flight[t]
    BY <1>1, <2>1 DEF RequestsTypeOK
  <2> QED BY <2>4, <2>5 DEF RInv, AnswersHaveOne
<1>3. DOMAIN counters' \subseteq Keys /\ counters' \in [DOMAIN counters' -> Nat]
  <2>1. CASE counters' = counters
    BY <1>1, <2>1 DEF RequestsTypeOK
  <2>2. CASE counters' = Bump(KeyFor(f))
    <3>1. PICK k : k = KeyFor(f)
      OBVIOUS
    <3>2. k \in Keys
      BY <3>1, RequestConstants DEF KeyFor, Keys
    <3>3. PICK kept : kept = IF Cardinality(DOMAIN counters) > MaxCounters /\ k \notin DOMAIN counters
                               THEN [x \in {} |-> 0] ELSE counters
      OBVIOUS
    <3>4. DOMAIN kept \subseteq Keys /\ \A x \in DOMAIN kept : kept[x] \in Nat
      BY <1>1, <3>3 DEF RequestsTypeOK
    <3>5. counters' = Set(kept, k, Get(kept, k, 0) + 1)
      BY <2>2, <3>1, <3>3 DEF Bump
    <3>6. Get(kept, k, 0) + 1 \in Nat
      BY <3>4 DEF Get
    <3> QED BY <3>2, <3>4, <3>5, <3>6 DEF Set
  <2> QED BY <2>1, <2>2 DEF Arrive
<1>4. UNCHANGED <<signedIn, profile, sticky, seq, log>>
  BY DEF Arrive
<1>5. RequestsTypeOK'
  BY <1>1, <1>2, <1>3, <1>4 DEF RequestsTypeOK
<1> QED BY <1>2, <1>4, <1>5, LogUntouched

LEMMA AnswerKeeps ==
  ASSUME RInv, NEW s \in InFlight,
         Faulted(s) \/ RefusedAuth(s) \/ Serve(s) \/ ServeLogin(s) \/ ServeLogout(s)
  PROVE  RInv'
<1>1. RequestsTypeOK
  BY DEF RInv, RecordsAreRight
<1>2. flight[s] # Idle
  BY DEF Faulted, RefusedAuth, Serve, ServeLogin, ServeLogout, Reaches
<1>3. ASSUME NEW status \in Statuses, NEW authed \in BOOLEAN, Answers(s, status, authed)
      PROVE  flight' \in [InFlight -> Requests \cup {Idle}] /\ AnswersHaveOne'
  <2>1. /\ flight' \in [InFlight -> Requests \cup {Idle}]
        /\ \A t \in InFlight : t # s => flight'[t] = flight[t]
        /\ flight'[s].status = status
    BY <1>1, <1>2, <1>3, AnswerIsTyped
  <2> QED BY <2>1 DEF RInv, AnswersHaveOne
<1>4. flight' \in [InFlight -> Requests \cup {Idle}] /\ AnswersHaveOne'
  <2>1. {200, 204, 401, 429, 503} = Statuses /\ FALSE \in BOOLEAN /\ TRUE \in BOOLEAN
    BY DEF Statuses
  <2>2. CASE Faulted(s)
    <3>1. PICK status : status = IF flight[s].fault = "drop" THEN 200 ELSE 503
      OBVIOUS
    <3>2. Answers(s, status, FALSE) /\ status \in Statuses
      BY <2>1, <2>2, <3>1 DEF Faulted, Answers
    <3> QED BY <1>3, <2>1, <3>2
  <2>3. CASE RefusedAuth(s)
    BY <1>3, <2>1, <2>3 DEF RefusedAuth
  <2>4. CASE Serve(s)
    <3>1. PICK status \in {200, 429} : Answers(s, status, TRUE)
      BY <2>4 DEF Serve
    <3>2. status \in Statuses /\ TRUE \in BOOLEAN
      BY <2>1, <3>1
    <3> QED BY <1>3, <3>1, <3>2, Zenon
  <2>5. CASE ServeLogin(s)
    <3>1. CASE Answers(s, 200, FALSE)
      BY <1>3, <2>1, <3>1
    <3>2. CASE \E status \in {401, 429} : Answers(s, status, FALSE)
      <4>1. PICK status \in {401, 429} : Answers(s, status, FALSE)
        BY <3>2
      <4>2. status \in Statuses /\ FALSE \in BOOLEAN
        BY <2>1, <4>1
      <4> QED BY <1>3, <4>1, <4>2, Zenon
    <3> QED BY <2>5, <3>1, <3>2 DEF ServeLogin
  <2>6. CASE ServeLogout(s)
    BY <1>3, <2>1, <2>6 DEF ServeLogout
  <2> QED BY <2>2, <2>3, <2>4, <2>5, <2>6
<1>5. signedIn' \subseteq Families
  BY <1>1, <1>2, UnderWay DEF RequestsTypeOK, Faulted, RefusedAuth, Serve, ServeLogin, ServeLogout
<1>6. UNCHANGED <<profile, counters, sticky, seq, log>>
  BY DEF Faulted, RefusedAuth, Serve, ServeLogin, ServeLogout
<1>7. RequestsTypeOK'
  BY <1>1, <1>4, <1>5, <1>6 DEF RequestsTypeOK
<1> QED BY <1>4, <1>6, <1>7, LogUntouched

\* The record is the newest of the family it is written under.
LEMMA RecordKeeps ==
  ASSUME RInv, NEW s \in InFlight, Record(s)
  PROVE  RInv'
<1>1. RequestsTypeOK /\ RecordsBelong /\ RecordsInOrder /\ NumbersGiven
  BY DEF RInv, RecordsAreRight
<1>2. flight[s] # Idle /\ flight[s].phase = "answered"
  BY DEF Record
<1>3. PICK r : r = flight[s]
  OBVIOUS
<1>4. r \in Requests /\ r.family \in Families /\ r.authed \in BOOLEAN /\ r.status \in Statuses
  BY <1>1, <1>2, <1>3 DEF RInv, AnswersHaveOne, RequestsTypeOK, Requests
<1>5. PICK who : who = Identity(r)
  OBVIOUS
<1>6. who \in Families \cup {Anonymous} /\ (r.authed => who = r.family) /\ (Recognised(r) => who = r.family)
  BY <1>1, <1>4, <1>5 DEF Identity, Recognised, Get, RequestsTypeOK
<1>7. PICK new : new = [seq |-> seq + 1, by |-> r.family, authed |-> r.authed,
                        status |-> r.status, dropped |-> r.fault = "drop"]
  OBVIOUS
<1>8. new \in Records /\ new.seq = seq + 1 /\ new.by = r.family /\ new.authed = r.authed
  BY <1>1, <1>4, <1>7 DEF Records, RequestsTypeOK
<1>9. PICK old : old = Get(log, who, << >>)
  OBVIOUS
<1>10. /\ old \in Seq(Records)
       /\ \A i \in DOMAIN old : who \in DOMAIN log /\ i \in DOMAIN log[who] /\ old[i] = log[who][i]
  BY <1>1, <1>9 DEF Get, RequestsTypeOK
<1>11. PICK longer : longer = Append(old, new)
  OBVIOUS
<1>12. /\ longer \in Seq(Records) /\ Len(longer) = Len(old) + 1
       /\ \A i \in DOMAIN longer : i = Len(longer) \/ i \in DOMAIN old
       /\ \A i \in DOMAIN old : longer[i] = old[i]
       /\ longer[Len(longer)] = new
  BY <1>8, <1>10, <1>11
<1>13. PICK q : q = LastRecords(longer)
  OBVIOUS
<1>14. /\ q \in Seq(Records) /\ Len(q) <= RingSize
       /\ \E n \in Nat : /\ Len(q) + n = Len(longer)
                         /\ \A i \in DOMAIN q : i + n \in DOMAIN longer /\ q[i] = longer[i + n]
  <2>1. RingSize \in Nat
    BY RequestConstants
  <2>2. PICK T : T = Records
    OBVIOUS
  <2>3. longer \in Seq(T)
    BY <1>12, <2>2
  <2>4. /\ LastRecords(longer) \in Seq(T) /\ Len(LastRecords(longer)) <= RingSize
        /\ \E n \in Nat : /\ Len(LastRecords(longer)) + n = Len(longer)
                          /\ \A i \in DOMAIN LastRecords(longer) :
                               i + n \in DOMAIN longer /\ LastRecords(longer)[i] = longer[i + n]
    BY <2>1, <2>3, LastOfThem
  <2> QED BY <1>13, <2>2, <2>4
<1>15. PICK n \in Nat : /\ Len(q) + n = Len(longer)
                        /\ \A i \in DOMAIN q : i + n \in DOMAIN longer /\ q[i] = longer[i + n]
  BY <1>14
<1>16. /\ seq' = seq + 1
       /\ sticky' = IF Recognised(r) THEN Set(sticky, ClientOf[r.family], who) ELSE sticky
       /\ log' = Set(log, who, q)
       /\ flight' = [flight EXCEPT ![s] = Idle]
       /\ UNCHANGED <<signedIn, profile, counters>>
  BY <1>3, <1>5, <1>7, <1>9, <1>11, <1>13 DEF Record
<1>17. DOMAIN log' = DOMAIN log \cup {who} /\ \A f \in DOMAIN log' : log'[f] = IF f = who THEN q ELSE log[f]
  BY <1>16 DEF Set
<1>18. RequestsTypeOK'
  <2>1. \A f \in DOMAIN log' : log'[f] \in Seq(Records) /\ Len(log'[f]) <= RingSize
    BY <1>1, <1>14, <1>17 DEF RequestsTypeOK
  <2>2. DOMAIN log' \subseteq Families \cup {Anonymous}
    BY <1>1, <1>6, <1>17 DEF RequestsTypeOK
  <2>3. DOMAIN sticky' \subseteq Clients /\ sticky' \in [DOMAIN sticky' -> Families]
    BY <1>1, <1>4, <1>6, <1>16, RequestConstants DEF Set, RequestsTypeOK
  <2>4. flight' \in [InFlight -> Requests \cup {Idle}]
    BY <1>1, <1>16 DEF RequestsTypeOK
  <2> QED BY <1>1, <1>16, <2>1, <2>2, <2>3, <2>4 DEF RequestsTypeOK
<1>19. AnswersHaveOne'
  BY <1>1, <1>16 DEF RInv, AnswersHaveOne, RequestsTypeOK
<1>20. seq \in Nat /\ \A i \in DOMAIN old : old[i].seq \in Nat /\ old[i].seq <= seq
  <2>1. \A i \in DOMAIN old : old[i] \in Records
    BY <1>10
  <2> QED BY <1>1, <1>10, <2>1 DEF RequestsTypeOK, NumbersGiven, Records
\* What a place of the new log holds: an old record of the family, or the new one.
<1>21. ASSUME NEW f \in DOMAIN log', NEW i \in DOMAIN log'[f]
       PROVE  \/ /\ f = who /\ i + n = Len(longer) /\ log'[f][i] = new
              \/ /\ f = who /\ i + n \in DOMAIN log[who] /\ who \in DOMAIN log
                 /\ i + n \in DOMAIN old /\ log'[f][i] = log[who][i + n]
              \/ /\ f # who /\ f \in DOMAIN log /\ i \in DOMAIN log[f] /\ log'[f][i] = log[f][i]
  <2>1. CASE f # who
    BY <1>17, <1>21, <2>1
  <2>2. CASE f = who
    <3>1. log'[f] = q /\ i \in DOMAIN q
      BY <1>17, <1>21, <2>2
    <3>2. i + n \in DOMAIN longer /\ q[i] = longer[i + n]
      BY <1>15, <3>1
    <3> QED BY <1>10, <1>12, <2>2, <3>1, <3>2
  <2> QED BY <2>1, <2>2
<1>22. RecordsBelong'
  BY <1>1, <1>6, <1>8, <1>21 DEF RecordsBelong
<1>23. NumbersGiven'
  <2> SUFFICES ASSUME NEW f \in DOMAIN log', NEW i \in DOMAIN log'[f]
               PROVE  log'[f][i].seq <= seq + 1
    BY <1>16 DEF NumbersGiven
  <2>1. CASE log'[f][i] = new
    BY <1>8, <1>20, <2>1
  <2>2. CASE f \in DOMAIN log /\ i \in DOMAIN log[f] /\ log'[f][i] = log[f][i]
    <3>1. log[f][i] \in Records
      BY <1>1, <2>2 DEF RequestsTypeOK
    <3> QED BY <1>1, <1>20, <2>2, <3>1 DEF NumbersGiven, Records
  <2>3. CASE i + n \in DOMAIN old /\ log'[f][i] = log[who][i + n]
    BY <1>10, <1>20, <2>3
  <2> QED BY <1>21, <2>1, <2>2, <2>3
\* The numbers of the old records and the places they had.
<1>24. ASSUME NEW f \in DOMAIN log', NEW i \in DOMAIN log'[f]
       PROVE  /\ i \in Nat /\ i + n \in Nat /\ log'[f][i].seq \in Nat /\ Len(longer) \in Nat
              /\ f = who => (i + n = Len(longer) /\ log'[f][i].seq = seq + 1)
                            \/ (i + n < Len(longer) /\ log'[f][i].seq <= seq)
              /\ f # who => log'[f][i].seq <= seq
  <2>1. log'[f] \in Seq(Records)
    BY <1>18, <1>24 DEF RequestsTypeOK
  <2>2. i \in Nat /\ log'[f][i] \in Records
    BY <1>24, <2>1
  <2>3. Len(longer) \in Nat /\ Len(old) \in Nat
    BY <1>10, <1>12
  <2>4. f # who => f \in DOMAIN log /\ i \in DOMAIN log[f] /\ log'[f][i] = log[f][i]
    BY <1>17, <1>24
  <2>5. f # who => log'[f][i].seq <= seq
    BY <1>1, <2>4 DEF NumbersGiven
  <2>6. ASSUME f = who
        PROVE  \/ i + n = Len(longer) /\ log'[f][i] = new
               \/ i + n \in DOMAIN old /\ log'[f][i] = old[i + n]
    <3>1. log'[f] = q /\ i \in DOMAIN q
      BY <1>17, <1>24, <2>6
    <3> QED BY <1>12, <1>15, <3>1
  <2>7. \A k \in DOMAIN old : k < Len(longer)
    BY <1>10, <1>12, <2>3
  <2>8. f = who => (i + n = Len(longer) /\ log'[f][i].seq = seq + 1)
                   \/ (i + n < Len(longer) /\ log'[f][i].seq <= seq)
    BY <1>8, <1>20, <2>6, <2>7
  <2> QED BY <2>2, <2>3, <2>5, <2>8 DEF Records
<1>25. ASSUME NEW f \in DOMAIN log', NEW i \in DOMAIN log'[f], NEW j \in DOMAIN log'[f], i < j
       PROVE  log'[f][i].seq < log'[f][j].seq
  <2>1. CASE f # who
    BY <1>1, <1>17, <1>25, <2>1 DEF RecordsInOrder
  <2>2. CASE f = who
    <3>1. i + n < j + n /\ i \in Nat /\ j \in Nat /\ j + n <= Len(longer) /\ Len(longer) \in Nat
      BY <1>24, <1>25, <2>2
    <3>2. i + n # Len(longer) /\ log'[f][i].seq <= seq /\ log'[f][i].seq \in Nat
      BY <1>24, <2>2, <3>1
    <3>3. CASE j + n = Len(longer)
      <4>1. log'[f][j].seq = seq + 1
        BY <1>24, <2>2, <3>1, <3>3
      <4> QED BY <1>20, <3>2, <4>1
    <3>4. CASE j + n # Len(longer)
      <4>1. /\ who \in DOMAIN log /\ i + n \in DOMAIN log[who] /\ j + n \in DOMAIN log[who]
            /\ log'[f][i] = log[who][i + n] /\ log'[f][j] = log[who][j + n]
        BY <1>21, <2>2, <3>2, <3>4
      <4> QED BY <1>1, <3>1, <4>1 DEF RecordsInOrder
    <3> QED BY <3>3, <3>4
  <2> QED BY <2>1, <2>2
<1>26. ASSUME NEW f \in DOMAIN log', NEW g \in DOMAIN log', NEW i \in DOMAIN log'[f],
              NEW j \in DOMAIN log'[g], log'[f][i].seq = log'[g][j].seq
       PROVE  f = g /\ i = j
  <2>1. i \in Nat /\ j \in Nat /\ i + n \in Nat /\ j + n \in Nat /\ seq \in Nat
    BY <1>20, <1>24
  <2>2. CASE log'[f][i].seq = seq + 1
    <3>1. f = who /\ g = who /\ i + n = Len(longer) /\ j + n = Len(longer)
      <4>1. f = who /\ i + n = Len(longer)
        BY <1>24, <2>1, <2>2
      <4>2. log'[g][j].seq = seq + 1 /\ ~ (seq + 1 <= seq)
        BY <1>26, <2>1, <2>2
      <4>3. g = who
        BY <1>24, <4>2
      <4>4. j + n = Len(longer)
        BY <1>24, <4>2, <4>3
      <4> QED BY <4>1, <4>3, <4>4
    <3> QED BY <2>1, <3>1
  <2>3. CASE log'[f][i].seq # seq + 1
    <3>1. /\ ~ (f = who /\ log'[f][i] = new)
          /\ ~ (g = who /\ log'[g][j] = new)
      BY <1>8, <1>26, <2>3
    <3>2. PICK k : IF f = who THEN k = i + n ELSE k = i
      OBVIOUS
    <3>3. PICK m : IF g = who THEN m = j + n ELSE m = j
      OBVIOUS
    <3>4. f \in DOMAIN log /\ k \in DOMAIN log[f] /\ log'[f][i] = log[f][k]
      BY <1>21, <3>1, <3>2
    <3>5. g \in DOMAIN log /\ m \in DOMAIN log[g] /\ log'[g][j] = log[g][m]
      BY <1>21, <3>1, <3>3
    <3>6. f = g /\ k = m
      BY <1>1, <1>26, <3>4, <3>5 DEF RecordsInOrder
    <3> QED BY <2>1, <3>2, <3>3, <3>6
  <2> QED BY <2>2, <2>3
<1>27. RecordsInOrder'
  BY <1>25, <1>26 DEF RecordsInOrder
<1> QED BY <1>18, <1>19, <1>22, <1>23, <1>27 DEF RInv, RecordsAreRight

LEMMA RequestsGoOn == RInv /\ [RequestsNext]_requestVars => RInv'
<1> SUFFICES ASSUME RInv, [RequestsNext]_requestVars PROVE RInv'
  OBVIOUS
<1>1. CASE \E s \in InFlight : Handled(s)
  BY <1>1, AnswerKeeps, RecordKeeps DEF Handled
<1>2. CASE \E s \in InFlight : \E f \in Families, kind \in Kinds : Arrive(s, f, kind)
  BY <1>2, ArrivalKeeps
<1>3. CASE \E p \in Profiles : Configure(p)
  <2>1. RequestsTypeOK' /\ AnswersHaveOne' /\ UNCHANGED <<seq, log>>
    BY <1>3, RequestConstants DEF Configure, RInv, RecordsAreRight, RequestsTypeOK, AnswersHaveOne
  <2> QED BY <2>1, LogUntouched
<1>4. CASE ResetPlatform
  BY <1>4 DEF ResetPlatform, RInv, RecordsAreRight, RequestsTypeOK, AnswersHaveOne, NumbersGiven,
              RecordsBelong, RecordsInOrder
<1>5. CASE UNCHANGED requestVars
  <2>1. RequestsTypeOK' /\ AnswersHaveOne' /\ UNCHANGED <<seq, log>>
    BY <1>5 DEF requestVars, RInv, RecordsAreRight, RequestsTypeOK, AnswersHaveOne
  <2> QED BY <2>1, LogUntouched
<1> QED BY <1>1, <1>2, <1>3, <1>4, <1>5 DEF RequestsNext

(* RecordsAreRight, for any number of overlapping requests: whatever is     *)
(* delayed, failed or dropped by chaos and whichever answer is out first,  *)
(* a request that was authenticated is recorded under its own family       *)
(* (observer.py:420-431), the records of a family are in the order of      *)
(* their numbers, and no number is given twice (observer.py:163-196).      *)
THEOREM LogsAreRight == RequestsSpec => []RecordsAreRight
<1>1. RInv => RecordsAreRight
  BY DEF RInv
<1> QED BY <1>1, RequestsBegin, RequestsGoOn, PTL DEF RequestsSpec
==============================================================================
