-------------------------- MODULE EvidenceProofs ---------------------------
(***************************************************************************)
(* Theorems of CaptureScan, of PcapWriter and of CaptureStore, for every   *)
(* limit and size, and for whatever chance decides.                        *)
(*                                                                         *)
(* An upload that is cut into chunks anywhere is scanned as one that is    *)
(* read in one go: the scanner is on its way through the file (OnItsWay),  *)
(* a turn of its loop keeps it there, and when it waits it knows all that  *)
(* can be read so far.                                                     *)
(*                                                                         *)
(* The packets written for a session are a conversation that can be put    *)
(* together again (Reassembles), and each side said what was counted       *)
(* (Accounted): together with what is still to be said, or filled in, all  *)
(* that its row lists.                                                     *)
(*                                                                         *)
(* The capture is one, whoever reads what part of it first.  The schedules *)
(* of beacons that come up (Drawn) begin alike, so two that are drawn up   *)
(* past an hour agree on it (PastAlike), and a block is the one a first    *)
(* reader finds; no two of its rows have an id in common (FreshIsSound),   *)
(* so the row that packets were written for (Kept) is the one its id has.  *)
(***************************************************************************)
EXTENDS CaptureScan, PcapWriter, CaptureStore, SequenceTheorems, FiniteSetTheorems, WellFoundedInduction, TLAPS

-----------------------------------------------------------------------------
(* Counting, and functions defined by recursion.                           *)

LEMMA LeastExists ==
  ASSUME NEW T \in SUBSET Nat, T # {}
  PROVE  \E m \in T : \A k \in T : m <= k
<1>1. PICK m \in T : \A k \in T : ~ (<<k, m>> \in OpToRel(<, Nat))
  BY WFMin, NatLessThanWellFounded, Zenon
<1>2. \A k \in T : ~ (k < m)
  BY <1>1, Zenon DEF OpToRel
<1>3. \A k \in T : m <= k
  BY <1>2
<1> QED BY <1>3

LEMMA Counting ==
  ASSUME NEW m \in Nat, NEW S, 0 \in S, \A n \in 0..m - 1 : n \in S => n + 1 \in S
  PROVE  0..m \subseteq S
<1> SUFFICES ASSUME ~ (0..m \subseteq S) PROVE FALSE
  OBVIOUS
<1> DEFINE T == (0..m) \ S
<1>1. T \subseteq Nat /\ T # {}
  OBVIOUS
<1>2. PICK x \in T : \A y \in T : x <= y
  <2> HIDE DEF T
  <2> QED BY <1>1, LeastExists
<1>3. x \in 1..m /\ x \notin S
  BY <1>2
<1>4. x - 1 \in 0..m - 1 /\ (x - 1) + 1 = x /\ ~ (x <= x - 1)
  BY <1>3
<1>5. x - 1 \in S
  BY <1>2, <1>4
<1> QED BY <1>3, <1>4, <1>5

Repeats(g, L, S, base, step) ==
  /\ g \in [0..L -> S]
  /\ g[0] = base
  /\ \A n \in 1..L : g[n] = step[n][g[n - 1]]

\* A step, taken any number of times from where it begins.
LEMMA RecursionExists ==
  ASSUME NEW L \in Nat, NEW S, NEW base \in S, NEW step \in [1..L -> [S -> S]]
  PROVE  \E g : Repeats(g, L, S, base, step)
<1> DEFINE Reached == {m \in 0..L : \E g : Repeats(g, m, S, base, step)}
<1>1. 0 \in Reached
  <2> DEFINE g == [n \in 0..0 |-> base]
  <2>1. g \in [0..0 -> S] /\ g[0] = base /\ 1..0 = {} /\ 0 \in 0..L
    OBVIOUS
  <2> HIDE DEF g
  <2> QED BY <2>1 DEF Repeats
<1>2. ASSUME NEW m \in 0..L - 1, m \in Reached PROVE m + 1 \in Reached
  <2>1. PICK g : Repeats(g, m, S, base, step)
    BY <1>2
  <2> USE <2>1 DEF Repeats
  <2>2. m + 1 \in 1..L /\ m \in 0..m /\ m + 1 \in 0..L
    OBVIOUS
  <2>3. g[m] \in S /\ step[m + 1][g[m]] \in S
    BY <2>1, <2>2
  <2> DEFINE h == [n \in 0..m + 1 |-> IF n = m + 1 THEN step[m + 1][g[m]] ELSE g[n]]
  <2>4. h \in [0..m + 1 -> S]
    <3>1. ASSUME NEW n \in 0..m + 1 PROVE (IF n = m + 1 THEN step[m + 1][g[m]] ELSE g[n]) \in S
      <4>1. n # m + 1 => n \in 0..m
        OBVIOUS
      <4> QED BY <2>3, <4>1
    <3> QED BY <3>1
  <2>5. h[0] = base
    <3>1. 0 \in 0..m + 1 /\ 0 # m + 1
      OBVIOUS
    <3>2. h[0] = g[0]
      BY <3>1
    <3> HIDE DEF h
    <3> QED BY <2>1, <3>2
  <2>6. ASSUME NEW n \in 1..m + 1 PROVE h[n] = step[n][h[n - 1]]
    <3>1. CASE n = m + 1
      <4>1. n - 1 = m /\ n - 1 \in 0..m + 1 /\ n - 1 # m + 1 /\ n \in 0..m + 1
        BY <3>1
      <4>2. h[n - 1] = g[m] /\ h[n] = step[m + 1][g[m]]
        BY <3>1, <4>1
      <4> HIDE DEF h
      <4> QED BY <3>1, <4>2
    <3>2. CASE n # m + 1
      <4>1. n \in 1..m /\ n - 1 \in 0..m + 1 /\ n - 1 # m + 1 /\ n \in 0..m + 1
        BY <3>2
      <4>2. h[n - 1] = g[n - 1] /\ h[n] = g[n]
        BY <3>2, <4>1
      <4> HIDE DEF h
      <4> QED BY <2>1, <4>1, <4>2
    <3> QED BY <3>1, <3>2
  <2> HIDE DEF h
  <2> QED BY <2>2, <2>4, <2>5, <2>6
<1>3. L \in Reached
  <2>1. 0..L \subseteq Reached
    <3> HIDE DEF Reached
    <3> QED BY <1>1, <1>2, Counting
  <2> HIDE DEF Reached
  <2> QED BY <2>1
<1> QED BY <1>3

-----------------------------------------------------------------------------
(* Rests of a division, the lesser and the greater of two.                 *)

LEMMA RestIsUnique ==
  ASSUME NEW n \in Nat \ {0}, NEW p \in Int, NEW q \in Int, NEW a \in 0..n - 1, NEW b \in 0..n - 1,
         n * p + a = n * q + b
  PROVE  a = b
<1>1. ASSUME NEW x \in Int, NEW y \in Int, NEW c \in 0..n - 1, NEW d \in 0..n - 1,
             n * x + c = n * y + d, x < y
      PROVE FALSE
  <2>1. n * (y - x) >= n
    <3>1. y - x \in Nat /\ y - x >= 1
      BY <1>1
    <3>2. \A z \in Nat : z >= 1 => n * z >= n
      OBVIOUS
    <3> QED BY <3>1, <3>2
  <2>2. n * (y - x) = n * y - n * x
    OBVIOUS
  <2> QED BY <1>1, <2>1, <2>2
<1>2. ~ (p < q) /\ ~ (q < p)
  BY <1>1
<1>3. p = q
  BY <1>2
<1> QED BY <1>3

LEMMA RestOf ==
  ASSUME NEW n \in Nat \ {0}, NEW a \in Nat
  PROVE  a % n \in 0..n - 1 /\ a = n * (a \div n) + (a % n) /\ a \div n \in Nat
OBVIOUS

LEMMA QuotientsGrow ==
  ASSUME NEW n \in Nat \ {0}, NEW x \in Nat, NEW y \in Nat
  PROVE  /\ x \div n \in Nat /\ y \div n \in Nat
         /\ x <= y => x \div n <= y \div n
         /\ x + n <= y => x \div n < y \div n
<1> DEFINE p == x \div n
           q == y \div n
           r == x % n
           s == y % n
<1>1. /\ x = n * p + r /\ r \in 0..n - 1 /\ p \in Nat
      /\ y = n * q + s /\ s \in 0..n - 1 /\ q \in Nat
  BY RestOf
<1> HIDE DEF p, q, r, s
<1>2. \A u, v \in Nat : u <= v => n * u <= n * v
  OBVIOUS
<1>3. n * p \in Nat /\ n * q \in Nat /\ n * (q + 1) = n * q + n
  BY <1>1
<1>4. ~ (x <= y /\ q < p)
  <2>1. q < p => n * (q + 1) <= n * p
    BY <1>1, <1>2
  <2> QED BY <1>1, <1>3, <2>1
<1>5. ~ (x + n <= y /\ q <= p)
  <2>1. q <= p => n * q <= n * p
    BY <1>1, <1>2
  <2> QED BY <1>1, <1>3, <2>1
<1>6. p \in Nat /\ q \in Nat /\ (x <= y => p <= q) /\ (x + n <= y => p < q)
  BY <1>1, <1>4, <1>5
<1> QED BY <1>6 DEF p, q

\* Counting on from a rest.
LEMMA RestGoesOn ==
  ASSUME NEW n \in Nat \ {0}, NEW a \in Nat, NEW b \in Nat
  PROVE  ((a % n) + b) % n = (a + b) % n /\ a % n \in Nat
<1> DEFINE r == a % n
           u == a \div n
           s == (r + b) % n
           v == (r + b) \div n
           t == (a + b) % n
           w == (a + b) \div n
<1>1. r \in 0..n - 1 /\ a = n * u + r /\ u \in Nat
  BY RestOf
<1>2. s \in 0..n - 1 /\ r + b = n * v + s /\ v \in Nat
  <2>1. r + b \in Nat
    BY <1>1
  <2> QED BY <2>1, RestOf
<1>3. t \in 0..n - 1 /\ a + b = n * w + t /\ w \in Nat
  <2>1. a + b \in Nat
    OBVIOUS
  <2> QED BY <2>1, RestOf
<1> HIDE DEF r, u, s, v, t, w
<1>4. n * (u + v) + s = n * w + t
  <2>1. n * (u + v) = n * u + n * v
    BY <1>1, <1>2
  <2> QED BY <1>1, <1>2, <1>3, <2>1
<1>5. s = t
  <2>1. u + v \in Int /\ w \in Int
    BY <1>1, <1>2, <1>3
  <2> HIDE DEF r, u, s, v, t, w
  <2> QED BY <1>2, <1>3, <1>4, <2>1, RestIsUnique
<1> QED BY <1>1, <1>5 DEF r, s, t

LEMMA LesserIs ==
  ASSUME NEW a \in Int, NEW b \in Int
  PROVE  Min({a, b}) = IF a <= b THEN a ELSE b
<1> DEFINE m == IF a <= b THEN a ELSE b
<1>1. m \in {a, b} /\ \A y \in {a, b} : m <= y
  OBVIOUS
<1>2. \A x \in {a, b} : (\A y \in {a, b} : x <= y) => x = m
  OBVIOUS
<1> HIDE DEF m
<1>3. Min({a, b}) = m
  BY <1>1, <1>2 DEF Min
<1> QED BY <1>3 DEF m

LEMMA GreaterIs ==
  ASSUME NEW a \in Int, NEW b \in Int
  PROVE  Max({a, b}) = IF a >= b THEN a ELSE b
<1> DEFINE m == IF a >= b THEN a ELSE b
<1>1. m \in {a, b} /\ \A y \in {a, b} : m >= y
  OBVIOUS
<1>2. \A x \in {a, b} : (\A y \in {a, b} : x >= y) => x = m
  OBVIOUS
<1> HIDE DEF m
<1>3. Max({a, b}) = m
  BY <1>1, <1>2 DEF Max
<1> QED BY <1>3 DEF m

-----------------------------------------------------------------------------
(* The scanner of an upload: what it knows on its way through a file.      *)

ScanKinds == {""} \cup {Magics[magic] : magic \in DOMAIN Magics}

ScanRec ==
  [state: {"magic", "header", "record", "payload", "done"}, buffer: Seq(Bytes), skip: Nat,
   size: Nat, kind: ScanKinds, decided: BOOLEAN, first: Int, last: Int]

MagicOf(file) == SubSeq(file, 1, MagicSize)

KindOf(file) == IF MagicOf(file) \in DOMAIN Magics THEN Magics[MagicOf(file)] ELSE ""

\* The times are those of the first records of a file, as many as that.
TimesTo(s, file, k) ==
  /\ k \in 0..Len(file)
  /\ \A j \in 0..k - 1 : Reads(file, Place(file)[j])
  /\ s.first = IF k = 0 THEN NoTime ELSE file[Place(file)[0]]
  /\ s.last = IF k = 0 THEN NoTime ELSE file[Place(file)[k - 1]]

\* What is buffered is the file from behind a place on.
Behind(s, file, p) ==
  /\ p \in 0..Len(file)
  /\ Len(s.buffer) = Len(file) - p
  /\ \A j \in 1..Len(s.buffer) : s.buffer[j] = file[p + j]

InHead(s, file) == s.buffer = file /\ s.skip = 0 /\ TimesTo(s, file, 0)

InRecords(s, file) ==
  \E k \in 0..Len(file) : TimesTo(s, file, k) /\ Behind(s, file, Place(file)[k] - 1 - s.skip)

TooLong(s, file) ==
  \E k \in 0..Len(file) :
    TimesTo(s, file, k) /\ Place(file)[k] + 1 \in DOMAIN file /\ ~ Reads(file, Place(file)[k])

OnItsWay(s, file) ==
  /\ s \in ScanRec
  /\ s.state = "magic" => InHead(s, file) /\ ~ s.decided /\ s.kind = ""
  /\ s.state # "magic" => s.decided /\ Len(file) >= MagicSize /\ s.kind = KindOf(file)
  /\ s.state = "header" => InHead(s, file) /\ s.kind = "pcap"
  /\ s.state = "record" => s.skip = 0
  /\ s.state \in {"record", "payload"} => InRecords(s, file) /\ s.kind = "pcap"
  /\ s.state = "done" => IF s.kind = "pcap" THEN TooLong(s, file) ELSE TimesTo(s, file, 0)

\* Another turn would do nothing.
Waits(s) ==
  /\ s.state = "magic" => Len(s.buffer) < MagicSize
  /\ s.state = "header" => Len(s.buffer) < HeaderSize
  /\ s.state = "record" => Len(s.buffer) < RecordSize
  /\ s.state = "payload" => s.skip > 0 /\ Len(s.buffer) = 0

ScanInv ==
  /\ uploaded \in Seq(Bytes)
  /\ OnItsWay(scan, uploaded)
  /\ Waits(scan)
  /\ scan.size = Len(uploaded)
  /\ verdict = "not_a_capture" <=> Len(uploaded) >= MagicSize /\ MagicOf(uploaded) \notin DOMAIN Magics

-----------------------------------------------------------------------------
LEMMA ScanFacts ==
  /\ HeaderSize \in Nat /\ MaxRecord \in Nat /\ MaxUploadBytes \in Nat /\ MaxChunk \in Nat
  /\ \A b \in Bytes : b \in Nat
<1>1. HeaderSize \in {HeaderSize, MaxRecord, MaxUploadBytes, MaxChunk}
      /\ MaxRecord \in {HeaderSize, MaxRecord, MaxUploadBytes, MaxChunk}
      /\ MaxUploadBytes \in {HeaderSize, MaxRecord, MaxUploadBytes, MaxChunk}
      /\ MaxChunk \in {HeaderSize, MaxRecord, MaxUploadBytes, MaxChunk}
  OBVIOUS
<1> QED BY <1>1, ScanConstants

\* The recursion of Place is well defined.
LEMMA PlaceIs ==
  ASSUME NEW file \in Seq(Bytes)
  PROVE  /\ \A k \in 0..Len(file) : Place(file)[k] \in Nat
         /\ Place(file)[0] = HeaderSize + 1
         /\ \A k \in 1..Len(file) :
              Place(file)[k] = IF Reads(file, Place(file)[k - 1])
                               THEN Place(file)[k - 1] + RecordSize + file[Place(file)[k - 1] + 1]
                               ELSE Place(file)[k - 1]
<1> DEFINE L == Len(file)
           Next(i) == IF Reads(file, i) THEN i + RecordSize + file[i + 1] ELSE i
           step == [k \in 1..L |-> [i \in Nat |-> Next(i)]]
           Step(g, k) == IF k = 0 THEN HeaderSize + 1
                         ELSE LET i == g[k - 1]
                              IN IF Reads(file, i) THEN i + RecordSize + file[i + 1] ELSE i
<1>1. L \in Nat /\ HeaderSize + 1 \in Nat
  BY ScanFacts
<1>2. step \in [1..L -> [Nat -> Nat]]
  <2>1. ASSUME NEW i \in Nat PROVE Next(i) \in Nat
    <3>1. CASE Reads(file, i)
      <4>1. file[i + 1] \in Bytes
        BY <3>1 DEF Reads
      <4>2. file[i + 1] \in Nat
        BY <4>1, ScanFacts
      <4> QED BY <3>1, <4>2 DEF RecordSize
    <3>2. CASE ~ Reads(file, i)
      BY <3>2
    <3> QED BY <3>1, <3>2
  <2> HIDE DEF Next
  <2> QED BY <2>1
<1>3. PICK g \in [0..L -> Nat] : g[0] = HeaderSize + 1 /\ \A n \in 1..L : g[n] = step[n][g[n - 1]]
  <2> DEFINE S == Nat
             base == HeaderSize + 1
  <2>1. base \in S /\ step \in [1..L -> [S -> S]] /\ L \in Nat
    BY <1>1, <1>2
  <2> HIDE DEF step, L, S, base
  <2>2. \E g : Repeats(g, L, S, base, step)
    BY <2>1, RecursionExists
  <2> QED BY <2>2 DEF S, base, Repeats
<1>4. \A n \in 0..L : g[n] = Step(g, n)
  <2> TAKE n \in 0..L
  <2>1. CASE n = 0
    BY <1>3, <2>1
  <2>2. CASE n # 0
    <3>1. n \in 1..L /\ n - 1 \in 0..L
      BY <1>1, <2>2
    <3>2. g[n - 1] \in Nat
      BY <1>3, <3>1
    <3>3. step[n][g[n - 1]] = Next(g[n - 1])
      <4> HIDE DEF Next
      <4> QED BY <3>1, <3>2
    <3>4. g[n] = Next(g[n - 1])
      <4> HIDE DEF Next, step
      <4> QED BY <1>3, <3>1, <3>3
    <3>5. Step(g, n) = Next(g[n - 1])
      <4> HIDE DEF step
      <4> QED BY <2>2 DEF Next
    <3> QED BY <3>4, <3>5
  <2> QED BY <2>1, <2>2
<1>5. g = [n \in 0..L |-> Step(g, n)]
  <2>1. g = [n \in 0..L |-> g[n]]
    BY <1>3
  <2> HIDE DEF Step, L
  <2> QED BY <1>4, <2>1
<1> DEFINE U == CHOOSE f : f = [n \in 0..L |-> Step(f, n)]
<1>6. Place(file) = U
  BY DEF Place
<1>7. U = [n \in 0..L |-> Step(U, n)]
  <2> HIDE DEF Step, L
  <2> QED BY <1>5
<1>8. \A n \in 0..L : U[n] = g[n]
  <2> HIDE DEF U
  <2> DEFINE Same == {n \in 0..L : U[n] = g[n]}
  <2>1. 0 \in Same
    <3>1. U[0] = Step(U, 0) /\ 0 \in 0..L
      <4> HIDE DEF Step
      <4> QED BY <1>1, <1>7
    <3> QED BY <1>3, <3>1
  <2>2. ASSUME NEW n \in 0..L - 1, n \in Same PROVE n + 1 \in Same
    <3>1. n + 1 \in 0..L /\ n + 1 # 0 /\ (n + 1) - 1 = n
      BY <1>1
    <3>2. U[n + 1] = Step(U, n + 1) /\ g[n + 1] = Step(g, n + 1)
      <4> HIDE DEF Step
      <4> QED BY <1>4, <1>7, <3>1
    <3>3. U[n] = g[n]
      BY <2>2
    <3> HIDE DEF step
    <3>4. Step(U, n + 1) = Step(g, n + 1)
      BY <3>1, <3>3
    <3> QED BY <3>1, <3>2, <3>4
  <2>3. 0..L \subseteq Same
    <3> HIDE DEF Same, L
    <3> QED BY <1>1, <2>1, <2>2, Counting
  <2> QED BY <2>3
<1>9. ASSUME NEW k \in 1..L PROVE k \in 0..L /\ k - 1 \in 0..L /\ k # 0
  BY <1>1
<1> HIDE DEF U, step
<1>10. \A k \in 0..L : Place(file)[k] \in Nat
  BY <1>3, <1>6, <1>8
<1>11. Place(file)[0] = HeaderSize + 1
  <2>1. 0 \in 0..L
    BY <1>1
  <2> HIDE DEF L
  <2> QED BY <1>3, <1>6, <1>8, <2>1
<1>12. \A k \in 1..L : Place(file)[k] = Next(Place(file)[k - 1])
  <2> TAKE k \in 1..L
  <2>1. g[k] = Step(g, k) /\ k # 0 /\ U[k] = g[k] /\ U[k - 1] = g[k - 1]
    <3> HIDE DEF Step, L
    <3> QED BY <1>4, <1>8, <1>9
  <2>2. Step(g, k) = Next(g[k - 1])
    BY <2>1
  <2> HIDE DEF Step, Next
  <2> QED BY <1>6, <2>1, <2>2
<1> QED BY <1>10, <1>11, <1>12

\* A record takes its header and its payload.
LEMMA PlacesGoOn ==
  ASSUME NEW file \in Seq(Bytes), NEW k \in 0..Len(file),
         \A j \in 0..k - 1 : Reads(file, Place(file)[j])
  PROVE  HeaderSize + 1 + 2 * k <= Place(file)[k]
<1> DEFINE Far == {j \in 0..k : HeaderSize + 1 + 2 * j <= Place(file)[j]}
<1>1. 0 \in Far
  BY PlaceIs, ScanFacts
<1>2. ASSUME NEW j \in 0..k - 1, j \in Far PROVE j + 1 \in Far
  <2>1. j + 1 \in 1..Len(file) /\ (j + 1) - 1 = j /\ j \in 0..Len(file) /\ j + 1 \in 0..k
    OBVIOUS
  <2> DEFINE p == Place(file)[j]
             q == Place(file)[j + 1]
  <2>2. Reads(file, p) /\ p \in Nat /\ HeaderSize + 1 + 2 * j <= p
    BY <1>2, <2>1, PlaceIs
  <2>3. q = p + RecordSize + file[p + 1]
    <3>1. q = IF Reads(file, Place(file)[(j + 1) - 1])
              THEN Place(file)[(j + 1) - 1] + RecordSize + file[Place(file)[(j + 1) - 1] + 1]
              ELSE Place(file)[(j + 1) - 1]
      BY <2>1, PlaceIs
    <3> QED BY <2>1, <2>2, <3>1
  <2>4. file[p + 1] \in Nat
    <3>1. file[p + 1] \in Bytes
      BY <2>2 DEF Reads
    <3> QED BY <3>1, ScanFacts
  <2> HIDE DEF p
  <2>5. HeaderSize + 1 + 2 * (j + 1) <= q
    BY <2>2, <2>3, <2>4, ScanFacts DEF RecordSize
  <2> QED BY <2>1, <2>5
<1>3. 0..k \subseteq Far
  <2> HIDE DEF Far
  <2> QED BY <1>1, <1>2, Counting
<1> QED BY <1>3

\* Where no record can be read none follows.
LEMMA RecordsAre ==
  ASSUME NEW file \in Seq(Bytes), NEW k \in 0..Len(file),
         \A j \in 0..k - 1 : Reads(file, Place(file)[j]),
         ~ Reads(file, Place(file)[k])
  PROVE  Records(file) = 0..k - 1
<1> DEFINE Stays == {m \in 0..Len(file) - k : Place(file)[k + m] = Place(file)[k]}
<1>1. 0 \in Stays
  BY PlaceIs
<1>2. ASSUME NEW m \in 0..Len(file) - k - 1, m \in Stays PROVE m + 1 \in Stays
  <2>1. k + (m + 1) \in 1..Len(file) /\ (k + (m + 1)) - 1 = k + m /\ m + 1 \in 0..Len(file) - k
    OBVIOUS
  <2>2. ~ Reads(file, Place(file)[k + m]) /\ Place(file)[k + m] = Place(file)[k]
    BY <1>2
  <2>3. Place(file)[k + (m + 1)] = Place(file)[k + m]
    BY <2>1, <2>2, PlaceIs
  <2> QED BY <2>1, <2>2, <2>3
<1>3. 0..Len(file) - k \subseteq Stays
  <2>1. Len(file) - k \in Nat
    OBVIOUS
  <2> HIDE DEF Stays
  <2> QED BY <1>1, <1>2, <2>1, Counting
<1>4. ASSUME NEW n \in 0..Len(file), n >= k PROVE ~ Reads(file, Place(file)[n])
  <2>1. n - k \in 0..Len(file) - k /\ k + (n - k) = n
    BY <1>4
  <2>2. Place(file)[k + (n - k)] = Place(file)[k]
    BY <1>3, <2>1
  <2> QED BY <2>1, <2>2
<1>5. \A n \in 0..Len(file) : n < k => n \in 0..k - 1
  OBVIOUS
<1>6. \A n \in 0..k - 1 : n \in 0..Len(file)
  OBVIOUS
<1>7. \A n \in 0..Len(file) : n < k \/ n >= k
  OBVIOUS
<1> QED BY <1>4, <1>5, <1>6, <1>7 DEF Records

-----------------------------------------------------------------------------
(* The scanner: one turn of its loop.                                      *)

LEMMA BytesLeft ==
  ASSUME NEW u \in Seq(Bytes), NEW n \in 0..Len(u)
  PROVE  /\ Dropped(u, n) \in Seq(Bytes)
         /\ Len(Dropped(u, n)) = Len(u) - n
         /\ \A j \in 1..Len(u) - n : Dropped(u, n)[j] = u[n + j]
<1>1. Len(u) \in Nat /\ n + 1 \in Nat /\ 1 <= n + 1 /\ Len(u) <= Len(u)
  OBVIOUS
<1>2. \A j \in n + 1..Len(u) : u[j] \in Bytes
  OBVIOUS
<1> QED BY <1>1, <1>2 DEF Dropped

\* What is left of what is buffered lies behind a later place.
LEMMA BehindLater ==
  ASSUME NEW s, NEW t, NEW file \in Seq(Bytes), NEW p \in Int, NEW n \in Nat,
         s.buffer \in Seq(Bytes), Behind(s, file, p), n <= Len(s.buffer),
         t.buffer = Dropped(s.buffer, n)
  PROVE  Behind(t, file, p + n) /\ t.buffer \in Seq(Bytes)
<1> DEFINE u == s.buffer
           v == t.buffer
<1>1. u \in Seq(Bytes) /\ n \in 0..Len(u) /\ v = Dropped(u, n) /\ Len(u) \in Nat
  OBVIOUS
<1>2. p \in 0..Len(file) /\ Len(u) = Len(file) - p /\ \A j \in 1..Len(u) : u[j] = file[p + j]
  BY DEF Behind
<1>3. Len(file) \in Nat
  OBVIOUS
<1> HIDE DEF u, v
<1>4. v \in Seq(Bytes) /\ Len(v) = Len(u) - n /\ \A j \in 1..Len(u) - n : v[j] = u[n + j]
  BY <1>1, BytesLeft
<1>5. \A j \in 1..Len(u) - n : n + j \in 1..Len(u) /\ p + (n + j) = (p + n) + j
  BY <1>1, <1>2
<1>6. \A j \in 1..Len(v) : v[j] = file[(p + n) + j]
  BY <1>2, <1>4, <1>5
<1>7. p + n \in 0..Len(file) /\ Len(v) = Len(file) - (p + n)
  BY <1>1, <1>2, <1>3, <1>4
<1> QED BY <1>4, <1>6, <1>7 DEF Behind, v

\* The magic is read once it is there.
LEMMA MagicIsRead ==
  ASSUME NEW s, NEW file \in Seq(Bytes), OnItsWay(s, file), s.state = "magic", Len(s.buffer) >= MagicSize
  PROVE  OnItsWay(ReadMagic(s), file)
<1> DEFINE t == ReadMagic(s)
<1>1. s \in ScanRec /\ s.buffer = file /\ s.skip = 0 /\ TimesTo(s, file, 0)
  BY DEF OnItsWay, InHead
<1>2. KindOf(file) \in ScanKinds
  BY DEF KindOf, ScanKinds
<1>3. t = [s EXCEPT !.decided = TRUE, !.kind = KindOf(file),
                    !.state = IF KindOf(file) = "pcap" THEN "header" ELSE "done"]
  BY <1>1 DEF ReadMagic, KindOf, MagicOf
<1>4. /\ t \in ScanRec /\ t.buffer = file /\ t.skip = 0 /\ t.first = s.first /\ t.last = s.last
      /\ t.decided /\ t.kind = KindOf(file)
      /\ t.state = IF KindOf(file) = "pcap" THEN "header" ELSE "done"
  BY <1>1, <1>2, <1>3 DEF ScanRec
<1>5. TimesTo(t, file, 0)
  BY <1>1, <1>4 DEF TimesTo
<1>6. Len(file) >= MagicSize
  BY <1>1
<1> SUFFICES OnItsWay(t, file)
  OBVIOUS
<1> HIDE DEF t
<1>7. CASE KindOf(file) = "pcap"
  BY <1>4, <1>5, <1>6, <1>7 DEF OnItsWay, InHead
<1>8. CASE KindOf(file) # "pcap"
  BY <1>4, <1>5, <1>6, <1>8 DEF OnItsWay
<1> QED BY <1>7, <1>8

LEMMA HeaderIsRead ==
  ASSUME NEW s, NEW file \in Seq(Bytes), OnItsWay(s, file), s.state = "header", Len(s.buffer) >= HeaderSize
  PROVE  OnItsWay(ReadHeader(s), file)
<1> DEFINE t == ReadHeader(s)
<1>1. /\ s \in ScanRec /\ s.buffer = file /\ s.skip = 0 /\ TimesTo(s, file, 0) /\ s.kind = "pcap"
      /\ s.decided /\ Len(file) >= MagicSize /\ s.kind = KindOf(file)
  BY DEF OnItsWay, InHead
<1>2. HeaderSize \in 0..Len(file) /\ HeaderSize \in Nat /\ Len(file) \in Nat
  BY <1>1, ScanFacts
<1>3. Behind(s, file, 0)
  BY <1>1, <1>2 DEF Behind
<1>4. t = [s EXCEPT !.buffer = Dropped(s.buffer, HeaderSize), !.state = "record"]
  BY DEF ReadHeader
<1>5. t.buffer = Dropped(s.buffer, HeaderSize) /\ t.state = "record"
  BY <1>1, <1>4 DEF ScanRec
<1>6. Behind(t, file, HeaderSize) /\ t.buffer \in Seq(Bytes)
  <2> HIDE DEF t
  <2>1. s.buffer \in Seq(Bytes) /\ HeaderSize <= Len(s.buffer) /\ 0 \in Int
    BY <1>1, <1>2
  <2>2. Behind(t, file, 0 + HeaderSize) /\ t.buffer \in Seq(Bytes)
    BY <1>2, <1>3, <1>5, <2>1, BehindLater
  <2> QED BY <1>2, <2>2
<1>7. /\ t \in ScanRec /\ t.skip = 0 /\ t.first = s.first /\ t.last = s.last
      /\ t.decided = s.decided /\ t.kind = s.kind
  BY <1>1, <1>4, <1>5, <1>6 DEF ScanRec
<1>8. TimesTo(t, file, 0)
  BY <1>1, <1>7 DEF TimesTo
<1> SUFFICES OnItsWay(t, file)
  OBVIOUS
<1> HIDE DEF t
<1>9. 0 \in 0..Len(file) /\ Place(file)[0] - 1 - t.skip = HeaderSize
  BY <1>2, <1>7, PlaceIs
<1>10. InRecords(t, file)
  BY <1>6, <1>8, <1>9 DEF InRecords
<1>11. t.kind = KindOf(file) /\ t.kind = "pcap" /\ t.decided /\ Len(file) >= MagicSize
  BY <1>1, <1>7
<1> QED BY <1>5, <1>7, <1>10, <1>11 DEF OnItsWay

LEMMA RecordIsRead ==
  ASSUME NEW s, NEW file \in Seq(Bytes), OnItsWay(s, file), s.state = "record", Len(s.buffer) >= RecordSize
  PROVE  OnItsWay(ReadRecord(s), file)
<1> DEFINE t == ReadRecord(s)
<1> SUFFICES OnItsWay(t, file)
  OBVIOUS
<1>1. /\ s \in ScanRec /\ s.buffer \in Seq(Bytes) /\ s.skip = 0 /\ InRecords(s, file) /\ s.kind = "pcap"
      /\ s.decided /\ Len(file) >= MagicSize /\ s.kind = KindOf(file) /\ s.first \in Int /\ s.last \in Int
  BY DEF OnItsWay, ScanRec
<1>2. PICK k \in 0..Len(file) : TimesTo(s, file, k) /\ Behind(s, file, Place(file)[k] - 1 - s.skip)
  BY <1>1 DEF InRecords
<1> DEFINE i == Place(file)[k]
           u == s.buffer
<1>3. i \in Nat /\ Len(file) \in Nat
  BY PlaceIs
<1>4. \A j \in 0..k - 1 : Reads(file, Place(file)[j])
  BY <1>2 DEF TimesTo
<1>5. k + 1 <= i
  <2>1. HeaderSize + 1 + 2 * k <= i
    BY <1>4, PlacesGoOn
  <2> HIDE DEF i
  <2> QED BY <1>3, <2>1, ScanFacts
<1> HIDE DEF i, u
<1>6. Behind(s, file, i - 1)
  BY <1>1, <1>2, <1>3 DEF i
<1>7. i - 1 \in 0..Len(file) /\ Len(u) = Len(file) - (i - 1) /\ \A j \in 1..Len(u) : u[j] = file[i - 1 + j]
  BY <1>6 DEF Behind, u
<1>8. Len(u) >= 2 /\ i + 1 \in 1..Len(file) /\ i \in 1..Len(file) /\ k + 1 \in 1..Len(file) /\ (k + 1) - 1 = k
  <2>1. Len(u) >= 2
    BY DEF u, RecordSize
  <2> QED BY <1>3, <1>5, <1>7, <2>1
<1>9. u[1] = file[i] /\ u[2] = file[i + 1] /\ file[i] \in Nat /\ file[i + 1] \in Nat
  <2>1. 1 \in 1..Len(u) /\ 2 \in 1..Len(u) /\ i - 1 + 1 = i /\ i - 1 + 2 = i + 1
    BY <1>3, <1>7, <1>8
  <2>2. file[i] \in Bytes /\ file[i + 1] \in Bytes
    BY <1>8
  <2> QED BY <1>7, <2>1, <2>2, ScanFacts
<1>10. Reads(file, i) <=> file[i + 1] <= MaxRecord
  BY <1>8 DEF Reads
<1>11. CASE file[i + 1] > MaxRecord
  <2>1. t = [s EXCEPT !.state = "done"]
    BY <1>9, <1>11 DEF ReadRecord, u
  <2>2. /\ t \in ScanRec /\ t.state = "done" /\ t.first = s.first /\ t.last = s.last
        /\ t.decided = s.decided /\ t.kind = s.kind
    BY <1>1, <2>1 DEF ScanRec
  <2> HIDE DEF t
  <2>3. TimesTo(t, file, k)
    BY <1>2, <2>2 DEF TimesTo
  <2>4. ~ Reads(file, i) /\ i + 1 \in DOMAIN file
    BY <1>8, <1>9, <1>10, <1>11, ScanFacts
  <2>5. TooLong(t, file)
    BY <2>3, <2>4 DEF TooLong, i
  <2>6. t.decided /\ t.kind = KindOf(file) /\ t.kind = "pcap"
    BY <1>1, <2>2
  <2> QED BY <1>1, <2>2, <2>5, <2>6 DEF OnItsWay
<1>12. CASE ~ (file[i + 1] > MaxRecord)
  <2> DEFINE time == file[i]
             first == IF s.first = NoTime THEN time ELSE s.first
  <2>1. t = [s EXCEPT !.first = first, !.last = time, !.buffer = Dropped(s.buffer, RecordSize),
                      !.skip = file[i + 1], !.state = "payload"]
    BY <1>9, <1>12 DEF ReadRecord, u
  <2>2. t.buffer = Dropped(u, 2)
    BY <1>1, <2>1 DEF ScanRec, u, RecordSize
  <2>3. Behind(t, file, i + 1) /\ t.buffer \in Seq(Bytes)
    <3> HIDE DEF t
    <3>1. i - 1 \in Int /\ (i - 1) + 2 = i + 1 /\ 2 \in Nat /\ 2 <= Len(s.buffer)
      BY <1>3, <1>8 DEF u
    <3>2. Behind(t, file, (i - 1) + 2) /\ t.buffer \in Seq(Bytes)
      BY <1>1, <1>6, <2>2, <3>1, BehindLater DEF u
    <3> QED BY <3>1, <3>2
  <2>4. /\ t \in ScanRec /\ t.state = "payload" /\ t.first = first /\ t.last = time
        /\ t.skip = file[i + 1] /\ t.decided = s.decided /\ t.kind = s.kind
    <3>1. first \in Int /\ time \in Int /\ Dropped(s.buffer, RecordSize) \in Seq(Bytes) /\ file[i + 1] \in Nat
      <4>1. t.buffer = Dropped(s.buffer, RecordSize)
        BY <2>2 DEF u, RecordSize
      <4> QED BY <1>1, <1>9, <2>3, <4>1
    <3> HIDE DEF first, time
    <3> QED BY <1>1, <2>1, <3>1 DEF ScanRec
  <2> HIDE DEF t
  <2>5. Reads(file, i)
    BY <1>9, <1>10, <1>12, ScanFacts
  <2>6. Place(file)[k + 1] = i + 2 + file[i + 1]
    <3>1. Place(file)[k + 1] = IF Reads(file, Place(file)[(k + 1) - 1])
               THEN Place(file)[(k + 1) - 1] + RecordSize + file[Place(file)[(k + 1) - 1] + 1]
               ELSE Place(file)[(k + 1) - 1]
      BY <1>8, PlaceIs
    <3> QED BY <1>8, <2>5, <3>1 DEF i, RecordSize
  <2>7. \A j \in 0..(k + 1) - 1 : Reads(file, Place(file)[j])
    <3>1. \A j \in 0..(k + 1) - 1 : j \in 0..k - 1 \/ j = k
      OBVIOUS
    <3> QED BY <1>4, <2>5, <3>1 DEF i
  <2>8. first = file[Place(file)[0]]
    <3>1. CASE k = 0
      BY <1>2, <3>1 DEF TimesTo, i
    <3>2. CASE k # 0
      <4>1. s.first = file[Place(file)[0]]
        BY <1>2, <3>2 DEF TimesTo
      <4>2. file[Place(file)[0]] \in Nat
        <5>1. Reads(file, Place(file)[0]) /\ Place(file)[0] \in Nat /\ Place(file)[0] >= 1
          BY <1>4, <3>2, PlaceIs, ScanFacts
        <5>2. Place(file)[0] \in 1..Len(file)
          BY <1>3, <5>1 DEF Reads
        <5>3. file[Place(file)[0]] \in Bytes
          BY <5>2
        <5> QED BY <5>3, ScanFacts
      <4> QED BY <4>1, <4>2 DEF NoTime
    <3> QED BY <3>1, <3>2
  <2>9. TimesTo(t, file, k + 1)
    <3>1. k + 1 # 0 /\ k + 1 \in 0..Len(file)
      BY <1>8
    <3> QED BY <1>8, <2>4, <2>7, <2>8, <3>1 DEF TimesTo, i
  <2>10. Place(file)[k + 1] - 1 - t.skip = i + 1
    BY <1>3, <1>9, <2>4, <2>6
  <2>11. InRecords(t, file)
    <3>1. k + 1 \in 0..Len(file)
      BY <1>8
    <3> QED BY <2>3, <2>9, <2>10, <3>1 DEF InRecords
  <2>12. t.decided /\ t.kind = KindOf(file) /\ t.kind = "pcap"
    BY <1>1, <2>4
  <2> QED BY <1>1, <2>4, <2>11, <2>12 DEF OnItsWay
<1> QED BY <1>11, <1>12

\* How much of the payload that is still to be skipped is there.
TakenFrom(s) == IF s.skip <= Len(s.buffer) THEN s.skip ELSE Len(s.buffer)

LEMMA PayloadReadIs ==
  ASSUME NEW s \in ScanRec, s.state = "payload"
  PROVE  /\ ReadPayload(s) \in ScanRec
         /\ TakenFrom(s) \in Nat /\ TakenFrom(s) <= Len(s.buffer) /\ TakenFrom(s) <= s.skip
         /\ ReadPayload(s).buffer = Dropped(s.buffer, TakenFrom(s))
         /\ ReadPayload(s).skip = s.skip - TakenFrom(s)
         /\ ReadPayload(s).state = IF TakenFrom(s) < s.skip THEN "payload" ELSE "record"
         /\ ReadPayload(s).first = s.first /\ ReadPayload(s).last = s.last /\ ReadPayload(s).size = s.size
         /\ ReadPayload(s).decided = s.decided /\ ReadPayload(s).kind = s.kind
<1> DEFINE take == TakenFrom(s)
           t == ReadPayload(s)
<1>1. s.skip \in Nat /\ s.buffer \in Seq(Bytes) /\ Len(s.buffer) \in Nat
  BY DEF ScanRec
<1>2. take \in 0..Len(s.buffer) /\ take \in Nat /\ s.skip - take \in Nat
  BY <1>1 DEF TakenFrom
<1>3. Min({s.skip, Len(s.buffer)}) = take
  BY <1>1, LesserIs DEF TakenFrom
<1> HIDE DEF take
<1>4. t = [s EXCEPT !.buffer = Dropped(s.buffer, take), !.skip = s.skip - take,
                    !.state = IF take < s.skip THEN "payload" ELSE "record"]
  BY <1>3 DEF ReadPayload
<1>5. Dropped(s.buffer, take) \in Seq(Bytes)
  BY <1>1, <1>2, BytesLeft
<1>6. /\ t \in ScanRec /\ t.buffer = Dropped(s.buffer, take) /\ t.skip = s.skip - take
      /\ t.state = IF take < s.skip THEN "payload" ELSE "record"
      /\ t.first = s.first /\ t.last = s.last /\ t.size = s.size /\ t.decided = s.decided /\ t.kind = s.kind
  BY <1>2, <1>4, <1>5 DEF ScanRec
<1> QED BY <1>1, <1>2, <1>6 DEF take

LEMMA PayloadIsRead ==
  ASSUME NEW s, NEW file \in Seq(Bytes), OnItsWay(s, file), s.state = "payload"
  PROVE  OnItsWay(ReadPayload(s), file)
<1> DEFINE t == ReadPayload(s)
           take == TakenFrom(s)
<1> SUFFICES OnItsWay(t, file)
  OBVIOUS
<1>1. /\ s \in ScanRec /\ s.buffer \in Seq(Bytes) /\ s.skip \in Nat /\ InRecords(s, file) /\ s.kind = "pcap"
      /\ s.decided /\ Len(file) >= MagicSize /\ s.kind = KindOf(file)
  BY DEF OnItsWay, ScanRec
<1>2. /\ t \in ScanRec /\ take \in Nat /\ take <= Len(s.buffer) /\ take <= s.skip
      /\ t.buffer = Dropped(s.buffer, take) /\ t.skip = s.skip - take
      /\ t.state = IF take < s.skip THEN "payload" ELSE "record"
      /\ t.first = s.first /\ t.last = s.last /\ t.decided = s.decided /\ t.kind = s.kind
  BY <1>1, PayloadReadIs
<1> HIDE DEF t, take
<1>3. PICK k \in 0..Len(file) : TimesTo(s, file, k) /\ Behind(s, file, Place(file)[k] - 1 - s.skip)
  BY <1>1 DEF InRecords
<1> DEFINE p == Place(file)[k] - 1 - s.skip
<1>4. p \in Int /\ p + take = Place(file)[k] - 1 - t.skip
  <2>1. Place(file)[k] \in Nat
    BY PlaceIs
  <2> QED BY <1>1, <1>2, <2>1
<1>5. Behind(t, file, p + take)
  BY <1>1, <1>2, <1>3, <1>4, BehindLater
<1>6. TimesTo(t, file, k)
  BY <1>2, <1>3 DEF TimesTo
<1>7. InRecords(t, file)
  BY <1>4, <1>5, <1>6 DEF InRecords
<1>8. t.state = "record" => t.skip = 0
  <2>1. CASE take < s.skip
    BY <1>2, <2>1
  <2>2. CASE ~ (take < s.skip)
    BY <1>1, <1>2, <2>2
  <2> QED BY <2>1, <2>2
<1>9. t.state \in {"record", "payload"} /\ t.kind = "pcap" /\ t.decided /\ t.kind = KindOf(file)
  BY <1>1, <1>2
<1>10. t.state # "magic" /\ t.state # "header" /\ t.state # "done"
  BY <1>9
<1> QED BY <1>1, <1>2, <1>7, <1>8, <1>9, <1>10 DEF OnItsWay

\* How far a scanner is from having to wait.
StepsIn(state) ==
  CASE state = "magic" -> 3 [] state = "header" -> 2 [] state = "payload" -> 2 [] state = "record" -> 1
    [] OTHER -> 0

Distance(s) == 2 * Len(s.buffer) + StepsIn(s.state)

LEMMA StepsAre ==
  /\ StepsIn("magic") = 3 /\ StepsIn("header") = 2 /\ StepsIn("payload") = 2 /\ StepsIn("record") = 1
  /\ StepsIn("done") = 0
BY DEF StepsIn

LEMMA TurnsCover ==
  ASSUME NEW s \in ScanRec
  PROVE  Distance(s) \in Nat /\ Turns(s) \in Nat /\ Distance(s) <= Turns(s)
<1>1. Len(s.buffer) \in Nat /\ s.state \in {"magic", "header", "record", "payload", "done"}
  BY DEF ScanRec
<1>2. StepsIn(s.state) \in 0..3
  BY <1>1, StepsAre
<1> QED BY <1>1, <1>2 DEF Distance, Turns

\* A turn leaves a scanner on its way, and nearer to having to wait.
LEMMA TurnIs ==
  ASSUME NEW s, NEW file \in Seq(Bytes), OnItsWay(s, file)
  PROVE  /\ OnItsWay(Turn(s), file)
         /\ Turn(s).size = s.size
         /\ Waits(s) => Waits(Turn(s))
         /\ Waits(s) \/ Distance(Turn(s)) < Distance(s)
<1>1. s \in ScanRec /\ s.buffer \in Seq(Bytes) /\ Len(s.buffer) \in Nat /\ s.skip \in Nat
  <2>1. s \in ScanRec
    BY DEF OnItsWay
  <2> QED BY <2>1 DEF ScanRec
<1>2. s.state \in {"magic", "header", "record", "payload", "done"}
  BY <1>1 DEF ScanRec
<1>3. CASE s.state = "magic" /\ Len(s.buffer) >= MagicSize
  <2>1. Turn(s) = ReadMagic(s)
    BY <1>3 DEF Turn
  <2> DEFINE t == ReadMagic(s)
  <2>2. OnItsWay(t, file)
    BY <1>3, MagicIsRead
  <2>3. t.buffer = s.buffer /\ t.size = s.size /\ t.state \in {"header", "done"}
    BY <1>1 DEF ReadMagic, ScanRec
  <2> HIDE DEF t
  <2>4. Distance(t) < Distance(s)
    BY <1>1, <1>3, <2>3, StepsAre DEF Distance
  <2>5. ~ Waits(s)
    BY <1>1, <1>3 DEF Waits, MagicSize
  <2> QED BY <2>1, <2>2, <2>3, <2>4, <2>5 DEF t
<1>4. CASE s.state = "header" /\ Len(s.buffer) >= HeaderSize
  <2>1. Turn(s) = ReadHeader(s)
    BY <1>4 DEF Turn
  <2> DEFINE t == ReadHeader(s)
  <2>2. OnItsWay(t, file)
    BY <1>4, HeaderIsRead
  <2>3. t.buffer = Dropped(s.buffer, HeaderSize) /\ t.size = s.size /\ t.state = "record"
    BY <1>1 DEF ReadHeader, ScanRec
  <2>4. Len(t.buffer) = Len(s.buffer) - HeaderSize /\ HeaderSize \in Nat
    <3>1. HeaderSize \in 0..Len(s.buffer) /\ HeaderSize \in Nat
      BY <1>1, <1>4, ScanFacts
    <3> HIDE DEF t
    <3> QED BY <1>1, <2>3, <3>1, BytesLeft
  <2> HIDE DEF t
  <2>5. Distance(t) < Distance(s)
    BY <1>1, <1>4, <2>3, <2>4, StepsAre DEF Distance
  <2>6. ~ Waits(s)
    BY <1>1, <1>4, <2>4 DEF Waits
  <2> QED BY <2>1, <2>2, <2>3, <2>5, <2>6 DEF t
<1>5. CASE s.state = "record" /\ Len(s.buffer) >= RecordSize
  <2>1. Turn(s) = ReadRecord(s)
    BY <1>5 DEF Turn
  <2> DEFINE t == ReadRecord(s)
  <2>2. OnItsWay(t, file)
    BY <1>5, RecordIsRead
  <2>3. /\ t.size = s.size
        /\ \/ t.buffer = s.buffer /\ t.state = "done"
           \/ t.buffer = Dropped(s.buffer, 2) /\ t.state = "payload"
    <3>1. CASE s.buffer[2] > MaxRecord
      BY <1>1, <3>1 DEF ReadRecord, ScanRec
    <3>2. CASE ~ (s.buffer[2] > MaxRecord)
      BY <1>1, <3>2 DEF ReadRecord, ScanRec, RecordSize
    <3> QED BY <3>1, <3>2
  <2> HIDE DEF t
  <2>4. 2 \in 0..Len(s.buffer) /\ 2 \in Nat
    BY <1>1, <1>5 DEF RecordSize
  <2>5. Len(Dropped(s.buffer, 2)) = Len(s.buffer) - 2
    BY <1>1, <2>4, BytesLeft
  <2>6. Distance(t) < Distance(s)
    <3>1. CASE t.buffer = s.buffer /\ t.state = "done"
      BY <1>1, <1>5, <3>1, StepsAre DEF Distance
    <3>2. CASE t.buffer = Dropped(s.buffer, 2) /\ t.state = "payload"
      BY <1>1, <1>5, <2>5, <3>2, StepsAre DEF Distance
    <3> QED BY <2>3, <3>1, <3>2
  <2>7. ~ Waits(s)
    BY <1>1, <1>5 DEF Waits, RecordSize
  <2> QED BY <2>1, <2>2, <2>3, <2>6, <2>7 DEF t
<1>6. CASE s.state = "payload"
  <2>1. Turn(s) = ReadPayload(s)
    BY <1>6 DEF Turn
  <2> DEFINE t == ReadPayload(s)
             take == TakenFrom(s)
  <2>2. OnItsWay(t, file)
    BY <1>6, PayloadIsRead
  <2>3. /\ take \in Nat /\ take <= Len(s.buffer) /\ take <= s.skip
        /\ t.buffer = Dropped(s.buffer, take) /\ t.skip = s.skip - take /\ t.size = s.size
        /\ t.state = IF take < s.skip THEN "payload" ELSE "record"
    BY <1>1, <1>6, PayloadReadIs
  <2>4. take = s.skip \/ take = Len(s.buffer)
    BY DEF TakenFrom
  <2> HIDE DEF t, take
  <2>5. Len(t.buffer) = Len(s.buffer) - take
    <3>1. take \in 0..Len(s.buffer)
      BY <1>1, <2>3
    <3> QED BY <1>1, <2>3, <3>1, BytesLeft
  <2>6. ASSUME Waits(s) PROVE Waits(t)
    <3>1. s.skip > 0 /\ Len(s.buffer) = 0
      BY <1>6, <2>6 DEF Waits
    <3>2. take = 0
      BY <2>3, <3>1
    <3>3. take < s.skip /\ t.skip > 0 /\ Len(t.buffer) = 0
      BY <1>1, <2>3, <2>5, <3>1, <3>2
    <3>4. t.state = "payload"
      BY <2>3, <3>3
    <3> QED BY <3>3, <3>4 DEF Waits
  <2>7. ASSUME ~ Waits(s) PROVE Distance(t) < Distance(s)
    <3>1. s.skip = 0 \/ Len(s.buffer) > 0
      BY <1>1, <1>6, <2>7 DEF Waits
    <3>2. CASE take < s.skip
      <4>1. t.state = "payload" /\ take = Len(s.buffer) /\ Len(t.buffer) = 0 /\ Len(s.buffer) > 0
        BY <1>1, <2>3, <2>4, <2>5, <3>1, <3>2
      <4> QED BY <1>1, <1>6, <4>1, StepsAre DEF Distance
    <3>3. CASE ~ (take < s.skip)
      <4>1. t.state = "record" /\ Len(t.buffer) \in Nat /\ Len(t.buffer) <= Len(s.buffer)
        BY <1>1, <2>3, <2>5, <3>3
      <4> QED BY <1>1, <1>6, <4>1, StepsAre DEF Distance
    <3> QED BY <3>2, <3>3
  <2> QED BY <2>1, <2>2, <2>3, <2>6, <2>7 DEF t
<1>7. CASE /\ ~ (s.state = "magic" /\ Len(s.buffer) >= MagicSize)
           /\ ~ (s.state = "header" /\ Len(s.buffer) >= HeaderSize)
           /\ ~ (s.state = "record" /\ Len(s.buffer) >= RecordSize)
           /\ s.state # "payload"
  <2>1. Turn(s) = s
    BY <1>7 DEF Turn
  <2>2. Waits(s)
    BY <1>1, <1>7, ScanFacts DEF Waits, MagicSize, RecordSize
  <2> QED BY <2>1, <2>2
<1> QED BY <1>3, <1>4, <1>5, <1>6, <1>7

\* The loop ends where another turn would do nothing.
LEMMA ParsedIs ==
  ASSUME NEW s, NEW file \in Seq(Bytes), OnItsWay(s, file)
  PROVE  OnItsWay(Parsed(s), file) /\ Waits(Parsed(s)) /\ Parsed(s).size = s.size
<1> DEFINE L == Turns(s)
           S == {r \in ScanRec : OnItsWay(r, file) /\ r.size = s.size}
           step == [n \in 1..L |-> [r \in S |-> Turn(r)]]
           Step(g, n) == IF n = 0 THEN s ELSE Turn(g[n - 1])
<1>1. s \in ScanRec /\ s \in S /\ L \in Nat /\ Distance(s) \in Nat /\ Distance(s) <= L
  <2>1. s \in ScanRec
    BY DEF OnItsWay
  <2> QED BY <2>1, TurnsCover
<1>2. \A r \in S : Turn(r) \in S
  <2>1. ASSUME NEW r \in S PROVE Turn(r) \in S
    <3>1. OnItsWay(r, file) /\ r.size = s.size
      OBVIOUS
    <3>2. OnItsWay(Turn(r), file) /\ Turn(r).size = r.size
      BY <3>1, TurnIs
    <3>3. Turn(r) \in ScanRec
      BY <3>2 DEF OnItsWay
    <3> QED BY <3>1, <3>2, <3>3
  <2> QED BY <2>1
<1>3. PICK g : Repeats(g, L, S, s, step)
  <2> HIDE DEF S, L
  <2>1. step \in [1..L -> [S -> S]]
    BY <1>2
  <2> HIDE DEF step
  <2> QED BY <1>1, <2>1, RecursionExists
<1>4. /\ g \in [0..L -> S] /\ g[0] = s
      /\ \A n \in 1..L : g[n] = Turn(g[n - 1])
  <2> HIDE DEF S, L
  <2>1. g \in [0..L -> S] /\ g[0] = s /\ \A n \in 1..L : g[n] = step[n][g[n - 1]]
    <3> HIDE DEF step
    <3> QED BY <1>3 DEF Repeats
  <2>2. ASSUME NEW n \in 1..L PROVE step[n][g[n - 1]] = Turn(g[n - 1])
    <3>1. g[n - 1] \in S
      BY <1>1, <2>1
    <3> QED BY <3>1
  <2> HIDE DEF step
  <2> QED BY <2>1, <2>2
<1> HIDE DEF S, L, step
<1>5. \A n \in 0..L : g[n] = Step(g, n)
  <2> TAKE n \in 0..L
  <2>1. CASE n = 0
    BY <1>4, <2>1
  <2>2. CASE n # 0
    <3>1. n \in 1..L
      BY <1>1, <2>2
    <3> QED BY <1>4, <2>2, <3>1
  <2> QED BY <2>1, <2>2
<1>6. g = [n \in 0..L |-> Step(g, n)]
  <2>1. g = [n \in 0..L |-> g[n]]
    BY <1>4
  <2> HIDE DEF Step
  <2> QED BY <1>5, <2>1
<1> DEFINE U == CHOOSE f : f = [n \in 0..L |-> Step(f, n)]
<1>7. Parsed(s) = U[L]
  BY DEF Parsed, L
<1>8. U = [n \in 0..L |-> Step(U, n)]
  <2> HIDE DEF Step
  <2> QED BY <1>6
<1>9. \A n \in 0..L : U[n] = Step(U, n)
  <2> HIDE DEF Step, U
  <2> QED BY <1>8
<1> HIDE DEF U
<1>10. 0 \in 0..L /\ L \in 0..L
  BY <1>1
<1> DEFINE Runs == {n \in 0..L : /\ U[n] = g[n]
                                 /\ Waits(g[n]) \/ Distance(g[n]) + n <= Distance(s)}
<1>11. 0 \in Runs
  <2>1. U[0] = s /\ g[0] = s
    BY <1>4, <1>9, <1>10
  <2> QED BY <1>1, <1>10, <2>1
<1>12. ASSUME NEW n \in 0..L - 1, n \in Runs PROVE n + 1 \in Runs
  <2>1. n + 1 \in 0..L /\ n + 1 \in 1..L /\ n + 1 # 0 /\ (n + 1) - 1 = n /\ n \in 0..L
    BY <1>1
  <2>2. U[n] = g[n] /\ (Waits(g[n]) \/ Distance(g[n]) + n <= Distance(s))
    BY <1>12
  <2>3. U[n + 1] = Turn(g[n]) /\ g[n + 1] = Turn(g[n])
    BY <1>4, <1>9, <2>1, <2>2
  <2>4. g[n] \in S /\ g[n + 1] \in S
    BY <1>4, <2>1
  <2>5. OnItsWay(g[n], file) /\ g[n] \in ScanRec /\ g[n + 1] \in ScanRec
    BY <2>4 DEF S
  <2>6. /\ Waits(g[n]) => Waits(Turn(g[n]))
        /\ Waits(g[n]) \/ Distance(Turn(g[n])) < Distance(g[n])
    BY <2>5, TurnIs
  <2>7. Distance(g[n]) \in Nat /\ Distance(g[n + 1]) \in Nat
    BY <2>5, TurnsCover
  <2>8. Waits(g[n + 1]) \/ Distance(g[n + 1]) + (n + 1) <= Distance(s)
    BY <1>1, <2>1, <2>2, <2>3, <2>6, <2>7
  <2> QED BY <2>1, <2>3, <2>8
<1>13. 0..L \subseteq Runs
  <2> HIDE DEF Runs
  <2> QED BY <1>1, <1>11, <1>12, Counting
<1>14. L \in Runs
  BY <1>10, <1>13
<1>15. U[L] = g[L] /\ (Waits(g[L]) \/ Distance(g[L]) + L <= Distance(s))
  BY <1>14
<1>16. g[L] \in ScanRec /\ OnItsWay(g[L], file) /\ g[L].size = s.size
  <2>1. g[L] \in S
    BY <1>4, <1>10
  <2> QED BY <2>1 DEF S
<1>17. Waits(g[L])
  <2> DEFINE r == g[L]
  <2>1. r \in ScanRec /\ (Waits(r) \/ Distance(r) + L <= Distance(s))
    BY <1>15, <1>16
  <2> HIDE DEF r
  <2>2. Len(r.buffer) \in Nat /\ r.state \in {"magic", "header", "record", "payload", "done"}
    BY <2>1 DEF ScanRec
  <2>3. ASSUME ~ Waits(r) PROVE r.state = "done"
    <3>1. Distance(r) + L <= Distance(s) /\ Distance(r) \in Nat
      BY <2>1, <2>3, TurnsCover
    <3>2. Distance(r) <= 0
      BY <1>1, <3>1
    <3>3. StepsIn(r.state) <= 0
      <4>1. StepsIn(r.state) \in 0..3
        BY <2>2, StepsAre
      <4> QED BY <2>2, <3>2, <4>1 DEF Distance
    <3> QED BY <2>2, <3>3, StepsAre
  <2>4. r.state = "done" => Waits(r)
    BY DEF Waits
  <2> QED BY <2>3, <2>4 DEF r
<1> QED BY <1>7, <1>15, <1>16, <1>17

-----------------------------------------------------------------------------
(* The scanner: more arrives.                                              *)

LEMMA LongerFile ==
  ASSUME NEW file \in Seq(Bytes), NEW chunk \in Seq(Bytes)
  PROVE  /\ file \o chunk \in Seq(Bytes)
         /\ Len(file \o chunk) = Len(file) + Len(chunk)
         /\ \A i \in 1..Len(file) : i \in 1..Len(file \o chunk) /\ (file \o chunk)[i] = file[i]
         /\ \A i \in 1..Len(chunk) : (file \o chunk)[Len(file) + i] = chunk[i]
<1>1. file \o chunk \in Seq(Bytes) /\ Len(file) \in Nat /\ Len(chunk) \in Nat
  OBVIOUS
<1>2. Len(file \o chunk) = Len(file) + Len(chunk)
  OBVIOUS
<1>3. \A i \in 1..Len(file) : (file \o chunk)[i] = file[i]
  OBVIOUS
<1>4. \A i \in 1..Len(chunk) : (file \o chunk)[Len(file) + i] = chunk[i]
  OBVIOUS
<1> QED BY <1>1, <1>2, <1>3, <1>4

\* What could be read stays where it is.
LEMMA PlacesStay ==
  ASSUME NEW file \in Seq(Bytes), NEW chunk \in Seq(Bytes), NEW k \in 0..Len(file),
         \A j \in 0..k - 1 : Reads(file, Place(file)[j])
  PROVE  /\ k \in 0..Len(file \o chunk)
         /\ \A j \in 0..k : Place(file \o chunk)[j] = Place(file)[j]
         /\ \A j \in 0..k - 1 : /\ Reads(file \o chunk, Place(file)[j])
                                /\ (file \o chunk)[Place(file)[j]] = file[Place(file)[j]]
<1> DEFINE all == file \o chunk
           Same == {j \in 0..k : Place(all)[j] = Place(file)[j]}
<1>1. /\ all \in Seq(Bytes) /\ Len(all) \in Nat /\ Len(file) \in Nat /\ Len(file) <= Len(all)
      /\ \A i \in 1..Len(file) : i \in 1..Len(all) /\ all[i] = file[i]
  BY LongerFile
<1> HIDE DEF all
<1>2. ASSUME NEW j \in 0..k - 1
      PROVE  /\ Place(file)[j] \in 1..Len(file) /\ Place(file)[j] + 1 \in 1..Len(file)
             /\ all[Place(file)[j]] = file[Place(file)[j]] /\ all[Place(file)[j] + 1] = file[Place(file)[j] + 1]
             /\ Reads(all, Place(file)[j])
  <2> DEFINE i == Place(file)[j]
  <2>1. j \in 0..Len(file) /\ \A n \in 0..j - 1 : n \in 0..k - 1
    BY <1>1
  <2>2. HeaderSize + 1 + 2 * j <= i /\ i \in Nat
    BY <2>1, PlacesGoOn, PlaceIs
  <2>3. Reads(file, i)
    OBVIOUS
  <2> HIDE DEF i
  <2>4. i \in 1..Len(file) /\ i + 1 \in 1..Len(file)
    BY <1>1, <2>2, <2>3, ScanFacts DEF Reads
  <2>5. all[i] = file[i] /\ all[i + 1] = file[i + 1] /\ i + 1 \in 1..Len(all)
    BY <1>1, <2>4
  <2>6. Reads(all, i)
    BY <1>1, <2>3, <2>5 DEF Reads
  <2> QED BY <2>4, <2>5, <2>6 DEF i
<1>3. 0 \in Same
  BY <1>1, PlaceIs
<1>4. ASSUME NEW j \in 0..k - 1, j \in Same PROVE j + 1 \in Same
  <2>1. j + 1 \in 1..Len(file) /\ j + 1 \in 1..Len(all) /\ (j + 1) - 1 = j /\ j + 1 \in 0..k
    BY <1>1
  <2> DEFINE i == Place(file)[j]
  <2>2. Place(all)[j] = i /\ Reads(file, i) /\ Reads(all, i) /\ all[i + 1] = file[i + 1]
    BY <1>2, <1>4
  <2>3. Place(file)[j + 1] = i + RecordSize + file[i + 1]
    <3>1. Place(file)[j + 1] = IF Reads(file, Place(file)[(j + 1) - 1])
              THEN Place(file)[(j + 1) - 1] + RecordSize + file[Place(file)[(j + 1) - 1] + 1]
              ELSE Place(file)[(j + 1) - 1]
      BY <2>1, PlaceIs
    <3> QED BY <2>1, <2>2, <3>1
  <2>4. Place(all)[j + 1] = i + RecordSize + all[i + 1]
    <3>1. Place(all)[j + 1] = IF Reads(all, Place(all)[(j + 1) - 1])
              THEN Place(all)[(j + 1) - 1] + RecordSize + all[Place(all)[(j + 1) - 1] + 1]
              ELSE Place(all)[(j + 1) - 1]
      BY <1>1, <2>1, PlaceIs
    <3> QED BY <2>1, <2>2, <3>1
  <2> QED BY <2>1, <2>2, <2>3, <2>4
<1>5. 0..k \subseteq Same
  <2>1. k \in Nat
    OBVIOUS
  <2> HIDE DEF Same
  <2> QED BY <1>3, <1>4, <2>1, Counting
<1>6. k \in 0..Len(all)
  BY <1>1
<1>7. \A j \in 0..k : Place(all)[j] = Place(file)[j]
  BY <1>5
<1> QED BY <1>2, <1>6, <1>7 DEF all

LEMMA TimesStay ==
  ASSUME NEW file \in Seq(Bytes), NEW chunk \in Seq(Bytes), NEW k, NEW s, NEW t,
         TimesTo(s, file, k), t.first = s.first, t.last = s.last
  PROVE  TimesTo(t, file \o chunk, k)
<1>1. k \in 0..Len(file) /\ \A j \in 0..k - 1 : Reads(file, Place(file)[j])
  BY DEF TimesTo
<1> DEFINE all == file \o chunk
<1>2. /\ k \in 0..Len(all)
      /\ \A j \in 0..k : Place(all)[j] = Place(file)[j]
      /\ \A j \in 0..k - 1 : Reads(all, Place(file)[j]) /\ all[Place(file)[j]] = file[Place(file)[j]]
  BY <1>1, PlacesStay
<1> HIDE DEF all
<1>3. \A j \in 0..k - 1 : j \in 0..k
  BY <1>1
<1>4. \A j \in 0..k - 1 : Reads(all, Place(all)[j]) /\ all[Place(all)[j]] = file[Place(file)[j]]
  BY <1>2, <1>3
<1>5. k # 0 => 0 \in 0..k - 1 /\ k - 1 \in 0..k - 1
  BY <1>1
<1>6. t.first = (IF k = 0 THEN NoTime ELSE all[Place(all)[0]])
  BY <1>4, <1>5 DEF TimesTo
<1>7. t.last = (IF k = 0 THEN NoTime ELSE all[Place(all)[k - 1]])
  BY <1>4, <1>5 DEF TimesTo
<1> QED BY <1>2, <1>4, <1>6, <1>7 DEF TimesTo, all

LEMMA MagicStays ==
  ASSUME NEW file \in Seq(Bytes), NEW chunk \in Seq(Bytes), Len(file) >= MagicSize
  PROVE  MagicOf(file \o chunk) = MagicOf(file)
<1> DEFINE all == file \o chunk
<1>1. /\ all \in Seq(Bytes) /\ Len(all) \in Nat /\ Len(file) \in Nat /\ Len(file) <= Len(all)
      /\ all[1] = file[1] /\ all[2] = file[2]
  BY LongerFile DEF MagicSize
<1> HIDE DEF all
<1> DEFINE u == SubSeq(all, 1, 2)
           v == SubSeq(file, 1, 2)
<1>2. u \in Seq(Bytes) /\ Len(u) = 2 /\ u[1] = all[1] /\ u[2] = all[2]
  BY <1>1 DEF MagicSize
<1>3. v \in Seq(Bytes) /\ Len(v) = 2 /\ v[1] = file[1] /\ v[2] = file[2]
  BY <1>1 DEF MagicSize
<1> HIDE DEF u, v
<1>4. \A i \in 1..2 : u[i] = v[i]
  BY <1>1, <1>2, <1>3
<1>5. u = v
  BY <1>2, <1>3, <1>4
<1> QED BY <1>5 DEF MagicOf, MagicSize, all, u, v

LEMMA PlacesAddUp ==
  ASSUME NEW a \in Nat, NEW b \in Nat, NEW c \in Nat, NEW p \in Int, NEW j \in 1..a + b, a = c - p, j > a
  PROVE  j - a \in 1..b /\ a + (j - a) = j /\ c + (j - a) = p + j
OBVIOUS

\* A scanner that is on its way still is when more of the file arrives.
LEMMA MoreArrives ==
  ASSUME NEW file \in Seq(Bytes), NEW chunk \in Seq(Bytes), NEW s, NEW n \in Nat, OnItsWay(s, file),
         NEW t, t = [s EXCEPT !.size = n, !.buffer = IF s.state = "done" THEN s.buffer ELSE s.buffer \o chunk]
  PROVE  OnItsWay(t, file \o chunk)
<1> DEFINE all == file \o chunk
<1>1. /\ all \in Seq(Bytes) /\ Len(all) \in Nat /\ Len(file) \in Nat /\ Len(chunk) \in Nat
      /\ Len(all) = Len(file) + Len(chunk)
      /\ \A i \in 1..Len(file) : i \in 1..Len(all) /\ all[i] = file[i]
      /\ \A i \in 1..Len(chunk) : all[Len(file) + i] = chunk[i]
  BY LongerFile
<1>2. s \in ScanRec /\ s.buffer \in Seq(Bytes) /\ s.skip \in Nat
  <2>1. s \in ScanRec
    BY DEF OnItsWay
  <2> QED BY <2>1 DEF ScanRec
<1>3. /\ t \in ScanRec /\ t.state = s.state /\ t.skip = s.skip /\ t.kind = s.kind /\ t.decided = s.decided
      /\ t.first = s.first /\ t.last = s.last
      /\ s.state # "done" => t.buffer = s.buffer \o chunk
  <2>1. s.buffer \o chunk \in Seq(Bytes)
    BY <1>2
  <2>2. CASE s.state = "done"
    <3>1. t = [s EXCEPT !.size = n]
      BY <1>2, <2>2 DEF ScanRec
    <3> QED BY <1>2, <2>2, <3>1 DEF ScanRec
  <2>3. CASE s.state # "done"
    <3>1. t = [s EXCEPT !.size = n, !.buffer = s.buffer \o chunk]
      BY <2>3
    <3> QED BY <1>2, <2>1, <2>3, <3>1 DEF ScanRec
  <2> QED BY <2>2, <2>3
<1>4. \A k : TimesTo(s, file, k) => TimesTo(t, all, k)
  BY <1>3, TimesStay
<1>5. ASSUME Len(file) >= MagicSize PROVE Len(all) >= MagicSize /\ KindOf(all) = KindOf(file)
  <2>1. MagicOf(all) = MagicOf(file)
    BY <1>5, MagicStays
  <2>2. Len(all) >= MagicSize
    BY <1>1, <1>5 DEF MagicSize
  <2> QED BY <2>1, <2>2 DEF KindOf
<1>6. InHead(s, file) /\ s.state # "done" => InHead(t, all)
  BY <1>3, <1>4 DEF InHead
<1>7. InRecords(s, file) /\ s.state # "done" => InRecords(t, all)
  <2> SUFFICES ASSUME InRecords(s, file), s.state # "done" PROVE InRecords(t, all)
    OBVIOUS
  <2>1. PICK k \in 0..Len(file) : TimesTo(s, file, k) /\ Behind(s, file, Place(file)[k] - 1 - s.skip)
    BY DEF InRecords
  <2> DEFINE p == Place(file)[k] - 1 - s.skip
  <2>2. Place(all)[k] = Place(file)[k]
    BY <2>1, PlacesStay DEF TimesTo
  <2>3. p = Place(all)[k] - 1 - t.skip
    BY <1>3, <2>2
  <2> HIDE DEF p
  <2>4. /\ p \in 0..Len(file) /\ Len(s.buffer) = Len(file) - p
        /\ \A j \in 1..Len(s.buffer) : s.buffer[j] = file[p + j]
    BY <2>1 DEF Behind, p
  <2> DEFINE u == s.buffer
             v == u \o chunk
  <2>0. u \in Seq(Bytes)
    BY <1>2
  <2> HIDE DEF u
  <2>5. /\ v \in Seq(Bytes) /\ Len(v) = Len(u) + Len(chunk) /\ Len(u) \in Nat
        /\ \A i \in 1..Len(u) : v[i] = u[i]
        /\ \A i \in 1..Len(chunk) : v[Len(u) + i] = chunk[i]
    BY <2>0, LongerFile
  <2> HIDE DEF v, all
  <2>6. ASSUME NEW j \in 1..Len(v) PROVE v[j] = all[p + j]
    <3>1. CASE j <= Len(u)
      <4>1. j \in 1..Len(u) /\ p + j \in 1..Len(file)
        BY <1>1, <2>4, <2>5, <3>1 DEF u
      <4> QED BY <1>1, <2>4, <2>5, <4>1 DEF u
    <3>2. CASE j > Len(u)
      <4>1. j - Len(u) \in 1..Len(chunk) /\ Len(u) + (j - Len(u)) = j /\ Len(file) + (j - Len(u)) = p + j
        <5>1. Len(u) = Len(file) - p /\ j \in 1..Len(u) + Len(chunk) /\ Len(u) \in Nat
          BY <2>4, <2>5 DEF u
        <5>2. p \in Int
          BY <2>4
        <5>3. Len(file) \in Nat /\ Len(chunk) \in Nat /\ j > Len(u) /\ j \in Int
          BY <1>1, <2>5, <3>2
        <5>4. Len(u) = Len(file) - p
          BY <5>1
        <5>5. j \in 1..Len(u) + Len(chunk) /\ Len(u) \in Nat
          BY <5>1
        <5> QED BY <5>2, <5>3, <5>4, <5>5, PlacesAddUp, Z3
      <4>2. v[j] = chunk[j - Len(u)] /\ all[p + j] = chunk[j - Len(u)]
        BY <1>1, <2>5, <4>1
      <4> QED BY <4>2
    <3> QED BY <2>5, <3>1, <3>2
  <2>7. p \in 0..Len(all) /\ Len(v) = Len(all) - p
    BY <1>1, <2>4, <2>5 DEF u
  <2>8. t.buffer = v
    BY <1>3 DEF u, v
  <2>9. Behind(t, all, p)
    BY <2>6, <2>7, <2>8 DEF Behind
  <2>10. k \in 0..Len(all) /\ TimesTo(t, all, k)
    BY <1>1, <1>4, <2>1
  <2> QED BY <2>3, <2>9, <2>10 DEF InRecords
<1>8. TooLong(s, file) => TooLong(t, all)
  <2> SUFFICES ASSUME TooLong(s, file) PROVE TooLong(t, all)
    OBVIOUS
  <2>1. PICK k \in 0..Len(file) : /\ TimesTo(s, file, k) /\ Place(file)[k] + 1 \in DOMAIN file
                                  /\ ~ Reads(file, Place(file)[k])
    BY DEF TooLong
  <2>2. Place(all)[k] = Place(file)[k]
    BY <2>1, PlacesStay DEF TimesTo
  <2> DEFINE i == Place(file)[k]
  <2>3. i + 1 \in 1..Len(file) /\ i + 1 \in 1..Len(all) /\ all[i + 1] = file[i + 1]
    BY <1>1, <2>1
  <2> HIDE DEF i, all
  <2>4. ~ Reads(all, i) /\ i + 1 \in DOMAIN all
    BY <1>1, <2>1, <2>3 DEF Reads, i
  <2>5. k \in 0..Len(all) /\ TimesTo(t, all, k)
    BY <1>1, <1>4, <2>1
  <2> QED BY <2>2, <2>4, <2>5 DEF TooLong, i
<1> HIDE DEF all
<1> SUFFICES OnItsWay(t, all)
  BY DEF all
<1>9. s.state \in {"magic", "header", "record", "payload", "done"}
  BY <1>2 DEF ScanRec
<1>10. CASE s.state = "magic"
  BY <1>3, <1>6, <1>10 DEF OnItsWay
<1>11. CASE s.state = "header"
  BY <1>3, <1>5, <1>6, <1>11 DEF OnItsWay
<1>12. CASE s.state \in {"record", "payload"}
  BY <1>3, <1>5, <1>7, <1>12 DEF OnItsWay
<1>13. CASE s.state = "done"
  BY <1>3, <1>4, <1>5, <1>8, <1>13 DEF OnItsWay
<1> QED BY <1>9, <1>10, <1>11, <1>12, <1>13

-----------------------------------------------------------------------------
(* The scanner: what it tells.                                             *)

LEMMA GreatestOf ==
  ASSUME NEW k \in Nat, k # 0
  PROVE  Max(0..k - 1) = k - 1
<1>1. k - 1 \in 0..k - 1 /\ \A y \in 0..k - 1 : k - 1 >= y
  OBVIOUS
<1>2. \A x \in 0..k - 1 : (\A y \in 0..k - 1 : x >= y) => x = k - 1
  OBVIOUS
<1> QED BY <1>1, <1>2 DEF Max

\* The times a scanner holds when it has to wait are those of all the records.
LEMMA TimesAreTold ==
  ASSUME NEW file \in Seq(Bytes), NEW s, OnItsWay(s, file), Waits(s)
  PROVE  LET read == IF Len(file) >= MagicSize /\ KindOf(file) = "pcap" THEN Records(file) ELSE {}
         IN  /\ s.first = (IF read = {} THEN NoTime ELSE file[Place(file)[0]])
             /\ s.last = (IF read = {} THEN NoTime ELSE file[Place(file)[Max(read)]])
<1> DEFINE pcap == Len(file) >= MagicSize /\ KindOf(file) = "pcap"
           read == IF pcap THEN Records(file) ELSE {}
           Told == /\ s.first = (IF read = {} THEN NoTime ELSE file[Place(file)[0]])
                   /\ s.last = (IF read = {} THEN NoTime ELSE file[Place(file)[Max(read)]])
<1> SUFFICES Told
  OBVIOUS
<1>1. s \in ScanRec /\ s.buffer \in Seq(Bytes) /\ s.skip \in Nat /\ Len(s.buffer) \in Nat /\ Len(file) \in Nat
  <2>1. s \in ScanRec
    BY DEF OnItsWay
  <2> QED BY <2>1 DEF ScanRec
<1>2. s.state \in {"magic", "header", "record", "payload", "done"}
  BY <1>1 DEF ScanRec
\* Where no more can be read.
<1>3. ASSUME NEW k, pcap, TimesTo(s, file, k), ~ Reads(file, Place(file)[k]) PROVE Told
  <2>1. k \in 0..Len(file) /\ \A j \in 0..k - 1 : Reads(file, Place(file)[j])
    BY <1>3 DEF TimesTo
  <2>2. Records(file) = 0..k - 1
    BY <1>3, <2>1, RecordsAre
  <2>3. read = 0..k - 1
    BY <1>3, <2>2
  <2> HIDE DEF read
  <2>4. CASE k = 0
    <3>1. read = {}
      BY <2>3, <2>4
    <3> QED BY <1>3, <2>4, <3>1 DEF TimesTo
  <2>5. CASE k # 0
    <3>1. k \in Nat /\ 0 \in 0..k - 1
      BY <1>1, <2>1, <2>5
    <3>2. read # {} /\ Max(read) = k - 1
      BY <2>3, <2>5, <3>1, GreatestOf
    <3> QED BY <1>3, <2>5, <3>2 DEF TimesTo
  <2> QED BY <2>4, <2>5
\* Where nothing is to be read.
<1>4. ASSUME ~ pcap, TimesTo(s, file, 0) PROVE Told
  BY <1>4 DEF TimesTo
<1>5. CASE s.state = "magic"
  <2>1. s.buffer = file /\ TimesTo(s, file, 0) /\ Len(s.buffer) < MagicSize
    BY <1>5 DEF OnItsWay, InHead, Waits
  <2>2. ~ pcap
    BY <1>1, <2>1 DEF MagicSize
  <2> HIDE DEF pcap, Told
  <2> QED BY <1>4, <2>1, <2>2
<1>6. CASE s.state = "header"
  <2>1. s.buffer = file /\ TimesTo(s, file, 0) /\ Len(s.buffer) < HeaderSize /\ pcap
    BY <1>6 DEF OnItsWay, InHead, Waits
  <2>2. ~ Reads(file, Place(file)[0])
    BY <1>1, <2>1, PlaceIs, ScanFacts DEF Reads
  <2> HIDE DEF pcap, Told
  <2> QED BY <1>3, <2>1, <2>2
<1>7. CASE s.state \in {"record", "payload"}
  <2>1. InRecords(s, file) /\ pcap
    BY <1>7 DEF OnItsWay
  <2>2. PICK k \in 0..Len(file) : TimesTo(s, file, k) /\ Behind(s, file, Place(file)[k] - 1 - s.skip)
    BY <2>1 DEF InRecords
  <2> DEFINE i == Place(file)[k]
  <2>3. i \in Nat
    BY PlaceIs
  <2> HIDE DEF i
  <2>4. Len(s.buffer) = Len(file) - (i - 1 - s.skip)
    BY <2>2 DEF Behind, i
  <2>5. i + 1 > Len(file)
    <3>1. CASE s.state = "record"
      <4>1. Len(s.buffer) < 2 /\ s.skip = 0
        BY <3>1 DEF OnItsWay, Waits, RecordSize
      <4> QED BY <1>1, <2>3, <2>4, <4>1
    <3>2. CASE s.state = "payload"
      <4>1. s.skip > 0 /\ Len(s.buffer) = 0
        BY <3>2 DEF Waits
      <4> QED BY <1>1, <2>3, <2>4, <4>1
    <3> QED BY <1>7, <3>1, <3>2
  <2>6. ~ Reads(file, i)
    BY <1>1, <2>3, <2>5 DEF Reads
  <2> HIDE DEF pcap, Told
  <2> QED BY <1>3, <2>1, <2>2, <2>6 DEF i
<1>8. CASE s.state = "done" /\ s.kind = "pcap"
  <2>1. TooLong(s, file) /\ pcap
    BY <1>8 DEF OnItsWay
  <2>2. PICK k \in 0..Len(file) : TimesTo(s, file, k) /\ ~ Reads(file, Place(file)[k])
    BY <2>1 DEF TooLong
  <2> HIDE DEF pcap, Told
  <2> QED BY <1>3, <2>1, <2>2
<1>9. CASE s.state = "done" /\ s.kind # "pcap"
  <2>1. TimesTo(s, file, 0) /\ ~ pcap
    BY <1>9 DEF OnItsWay
  <2> HIDE DEF pcap, Told
  <2> QED BY <1>4, <2>1
<1> HIDE DEF Told
<1> QED BY <1>2, <1>5, <1>6, <1>7, <1>8, <1>9

LEMMA ScanStarts == ScanInit => ScanInv
<1> SUFFICES ASSUME ScanInit PROVE ScanInv
  OBVIOUS
<1>1. /\ uploaded = <<>> /\ scan = NewScan /\ verdict = "" /\ uploaded \in Seq(Bytes) /\ Len(uploaded) = 0
      /\ scan.size = Len(uploaded) /\ scan.buffer = uploaded /\ scan.state = "magic" /\ scan.skip = 0
      /\ scan.first = NoTime /\ scan.last = NoTime /\ ~ scan.decided /\ scan.kind = ""
  <2>1. <<>> \in Seq(Bytes) /\ Len(<<>>) = 0
    OBVIOUS
  <2> QED BY <2>1 DEF ScanInit, NewScan
<1>2. scan \in ScanRec
  <2>1. "" \in ScanKinds /\ <<>> \in Seq(Bytes) /\ 0 \in Nat /\ NoTime \in Int
    BY DEF ScanKinds, NoTime
  <2> QED BY <1>1, <2>1 DEF NewScan, ScanRec
<1>3. InHead(scan, uploaded)
  <2>1. 0 \in 0..Len(uploaded) /\ \A j \in 0..0 - 1 : FALSE
    <3>1. 0 \in 0..0 /\ 0..0 - 1 = {}
      OBVIOUS
    <3> QED BY <1>1, <3>1
  <2> QED BY <1>1, <2>1 DEF InHead, TimesTo
<1>4. OnItsWay(scan, uploaded)
  BY <1>1, <1>2, <1>3 DEF OnItsWay
<1>5. Len(uploaded) = 0 /\ Len(scan.buffer) = 0 /\ scan.state = "magic" /\ verdict = ""
  BY <1>1
<1>6. Waits(scan) /\ ~ (Len(uploaded) >= MagicSize) /\ verdict # "not_a_capture"
  <2>0. 0 < MagicSize /\ ~ (0 >= MagicSize)
    BY DEF MagicSize
  <2>1. Waits(scan)
    BY <1>5, <2>0, Zenon DEF Waits
  <2>2. ~ (Len(uploaded) >= MagicSize)
    BY <1>5, <2>0, Zenon
  <2>3. verdict # "not_a_capture"
    BY <1>5
  <2> QED BY <2>1, <2>2, <2>3
<1> QED BY <1>1, <1>4, <1>6 DEF ScanInv

LEMMA ScanStep == ScanInv /\ [ScanNext]_uvars => ScanInv'
<1> SUFFICES ASSUME ScanInv, [ScanNext]_uvars PROVE ScanInv'
  OBVIOUS
<1>1. CASE UNCHANGED uvars
  BY <1>1 DEF ScanInv, uvars
<1>2. CASE ScanNext
  <2>1. PICK n \in 1..MaxChunk : \E chunk \in [1..n -> Bytes] : PartData(chunk)
    BY <1>2 DEF ScanNext
  <2>2. PICK chunk \in [1..n -> Bytes] : PartData(chunk)
    BY <2>1
  <2>3. chunk \in Seq(Bytes)
    <3>1. n \in Nat
      BY ScanFacts
    <3> QED BY <3>1
  <2>4. uploaded \in Seq(Bytes) /\ OnItsWay(scan, uploaded) /\ Waits(scan) /\ scan.size = Len(uploaded)
    BY DEF ScanInv
  <2>5. CASE scan.size + Len(chunk) > MaxUploadBytes
    <3>1. verdict = "" /\ verdict' = "too_large" /\ UNCHANGED <<uploaded, scan>>
      BY <2>2, <2>5 DEF PartData
    <3> QED BY <3>1 DEF ScanInv
  <2>6. CASE ~ (scan.size + Len(chunk) > MaxUploadBytes)
    <3>1. /\ scan' = Fed(scan, chunk) /\ uploaded' = uploaded \o chunk
          /\ verdict' = IF scan'.decided /\ scan'.kind = "" THEN "not_a_capture" ELSE ""
      BY <2>2, <2>6 DEF PartData
    <3> DEFINE all == uploaded \o chunk
               size == scan.size + Len(chunk)
               t == [scan EXCEPT !.size = size, !.buffer = IF scan.state = "done" THEN scan.buffer ELSE scan.buffer \o chunk]
               s == scan'
    <3>2. scan \in ScanRec
      BY <2>4 DEF OnItsWay
    <3>3. all \in Seq(Bytes) /\ Len(all) = Len(uploaded) + Len(chunk) /\ size \in Nat
          /\ Len(uploaded) \in Nat /\ Len(chunk) \in Nat
      BY <2>3, <2>4, LongerFile
    <3>4. OnItsWay(t, all)
      <4> HIDE DEF size
      <4> QED BY <2>3, <2>4, <3>3, MoreArrives
    <3>5. t.size = size /\ t.state = scan.state
      BY <3>2 DEF ScanRec
    <3>6. OnItsWay(s, all) /\ Waits(s) /\ s.size = size
      <4>1. CASE scan.state = "done"
        <5>1. t = [scan EXCEPT !.size = scan.size + Len(chunk)]
          BY <3>2, <4>1 DEF ScanRec
        <5>2. s = t
          BY <3>1, <4>1, <5>1 DEF Fed
        <5> HIDE DEF t, s, all
        <5>3. Waits(t)
          BY <3>5, <4>1 DEF Waits
        <5> QED BY <3>4, <3>5, <5>2, <5>3
      <4>2. CASE scan.state # "done"
        <5>1. t = [[scan EXCEPT !.size = scan.size + Len(chunk)] EXCEPT !.buffer = scan.buffer \o chunk]
          BY <3>2, <4>2 DEF ScanRec
        <5>2. s = Parsed([[scan EXCEPT !.size = scan.size + Len(chunk)] EXCEPT !.buffer = @ \o chunk])
          BY <3>1, <4>2 DEF Fed
        <5>3. [[scan EXCEPT !.size = scan.size + Len(chunk)] EXCEPT !.buffer = @ \o chunk] = t
          BY <3>2, <5>1 DEF ScanRec
        <5>4. s = Parsed(t)
          BY <5>2, <5>3
        <5> HIDE DEF t, s, all, size
        <5> QED BY <3>3, <3>4, <3>5, <5>4, ParsedIs
      <4> QED BY <4>1, <4>2
    <3> HIDE DEF t
    <3>7. verdict' = "not_a_capture" <=> Len(all) >= MagicSize /\ MagicOf(all) \notin DOMAIN Magics
      <4>1. s \in ScanRec
        BY <3>6 DEF OnItsWay
      <4>2. CASE s.state = "magic"
        <5>1. ~ s.decided /\ s.buffer = all /\ Len(s.buffer) < MagicSize
          BY <3>6, <4>2 DEF OnItsWay, InHead, Waits
        <5>2. ~ (Len(all) >= MagicSize)
          BY <3>3, <5>1 DEF MagicSize
        <5> QED BY <3>1, <5>1, <5>2
      <4>3. CASE s.state # "magic"
        <5>1. s.decided /\ Len(all) >= MagicSize /\ s.kind = KindOf(all)
          BY <3>6, <4>3 DEF OnItsWay
        <5>2. KindOf(all) = "" <=> MagicOf(all) \notin DOMAIN Magics
          BY ScanConstants DEF KindOf
        <5> QED BY <3>1, <5>1, <5>2
      <4> QED BY <4>2, <4>3
    <3> QED BY <3>1, <3>3, <3>6, <3>7 DEF ScanInv
  <2> QED BY <2>5, <2>6
<1> QED BY <1>1, <1>2

LEMMA ScanTells == ScanInv => ScanReadsTheFile
<1> SUFFICES ASSUME ScanInv PROVE ScanReadsTheFile
  OBVIOUS
<1>1. /\ uploaded \in Seq(Bytes) /\ OnItsWay(scan, uploaded) /\ Waits(scan) /\ scan.size = Len(uploaded)
      /\ verdict = "not_a_capture" <=> Len(uploaded) >= MagicSize /\ MagicOf(uploaded) \notin DOMAIN Magics
  BY DEF ScanInv
<1> DEFINE magic == SubSeq(uploaded, 1, MagicSize)
           known == Len(uploaded) >= MagicSize /\ magic \in DOMAIN Magics
           some == known /\ Magics[magic] = "pcap"
           read == IF some THEN Records(uploaded) ELSE {}
<1>2. some <=> Len(uploaded) >= MagicSize /\ KindOf(uploaded) = "pcap"
  BY DEF KindOf, MagicOf
<1>3. read = IF Len(uploaded) >= MagicSize /\ KindOf(uploaded) = "pcap" THEN Records(uploaded) ELSE {}
  BY <1>2
<1>4. /\ scan.first = (IF read = {} THEN NoTime ELSE uploaded[Place(uploaded)[0]])
      /\ scan.last = (IF read = {} THEN NoTime ELSE uploaded[Place(uploaded)[Max(read)]])
  <2> HIDE DEF read
  <2> QED BY <1>1, <1>3, TimesAreTold
<1>5. verdict = "not_a_capture" <=> Len(uploaded) >= MagicSize /\ ~ known
  BY <1>1 DEF MagicOf
<1> HIDE DEF some, known
<1> QED BY <1>1, <1>4, <1>5 DEF ScanReadsTheFile, some, known

\* However an upload is cut into chunks, the scanner tells what reading its
\* bytes in one go would: their number, the times of the first and of the last
\* record, and whether they are a capture (CaptureScanner.feed).
THEOREM ScanIsOneReading == ScanSpec => []ScanReadsTheFile
<1>1. ScanInit => ScanInv
  BY ScanStarts
<1>2. ScanInv /\ [ScanNext]_uvars => ScanInv'
  BY ScanStep
<1>3. ScanInv => ScanReadsTheFile
  BY ScanTells
<1> QED BY <1>1, <1>2, <1>3, PTL DEF ScanSpec

-----------------------------------------------------------------------------
(* Adding up.                                                              *)

AddsUp(g, s) ==
  /\ g \in [0..Len(s) -> Nat]
  /\ g[0] = 0
  /\ \A k \in 1..Len(s) : g[k] = g[k - 1] + s[k]

\* The recursion of TotalOf is well defined.
LEMMA TotalIs ==
  ASSUME NEW s \in Seq(Nat)
  PROVE  /\ \E g : AddsUp(g, s)
         /\ \A g : AddsUp(g, s) => TotalOf(s) = g[Len(s)]
<1> DEFINE L == Len(s)
           step == [k \in 1..L |-> [n \in Nat |-> n + s[k]]]
           Step(g, k) == IF k = 0 THEN 0 ELSE g[k - 1] + s[k]
           U == CHOOSE f : f = [k \in 0..L |-> Step(f, k)]
<1>1. L \in Nat /\ \A k \in 1..L : s[k] \in Nat
  OBVIOUS
<1>2. \E g : AddsUp(g, s)
  <2>1. step \in [1..L -> [Nat -> Nat]] /\ 0 \in Nat
    BY <1>1
  <2> DEFINE S == Nat
             base == 0
  <2>2. base \in S /\ step \in [1..L -> [S -> S]]
    BY <2>1
  <2> HIDE DEF step, L, S, base
  <2>3. PICK g : Repeats(g, L, S, base, step)
    BY <1>1, <2>2, RecursionExists
  <2>4. g \in [0..L -> Nat] /\ g[0] = 0 /\ \A n \in 1..L : g[n] = step[n][g[n - 1]]
    BY <2>3 DEF S, base, Repeats
  <2>5. ASSUME NEW n \in 1..L PROVE g[n] = g[n - 1] + s[n]
    <3>1. n - 1 \in 0..L
      BY <1>1
    <3>2. g[n - 1] \in Nat
      BY <2>4, <3>1
    <3>3. step[n][g[n - 1]] = g[n - 1] + s[n]
      BY <3>2 DEF step
    <3> QED BY <2>4, <3>3
  <2> QED BY <2>4, <2>5 DEF AddsUp, L
<1>3. ASSUME NEW g, AddsUp(g, s) PROVE TotalOf(s) = g[Len(s)]
  <2>1. g \in [0..L -> Nat] /\ g[0] = 0 /\ \A k \in 1..L : g[k] = g[k - 1] + s[k]
    BY <1>3 DEF AddsUp
  <2>2. \A k \in 0..L : g[k] = Step(g, k)
    <3> TAKE k \in 0..L
    <3>1. CASE k = 0
      BY <2>1, <3>1
    <3>2. CASE k # 0
      <4>1. k \in 1..L
        BY <1>1, <3>2
      <4> HIDE DEF L
      <4> QED BY <2>1, <3>2, <4>1
    <3> QED BY <3>1, <3>2
  <2>3. g = [k \in 0..L |-> Step(g, k)]
    <3>1. g = [k \in 0..L |-> g[k]]
      BY <2>1
    <3> HIDE DEF Step, L
    <3> QED BY <2>2, <3>1
  <2>4. TotalOf(s) = U[L]
    BY DEF TotalOf
  <2>5. U = [k \in 0..L |-> Step(U, k)]
    <3> HIDE DEF Step, L
    <3> QED BY <2>3
  <2> HIDE DEF U
  <2> DEFINE Same == {k \in 0..L : U[k] = g[k]}
  <2>6. 0 \in Same
    <3>1. U[0] = Step(U, 0) /\ 0 \in 0..L
      <4> HIDE DEF Step
      <4> QED BY <1>1, <2>5
    <3> QED BY <2>1, <3>1
  <2>7. ASSUME NEW k \in 0..L - 1, k \in Same PROVE k + 1 \in Same
    <3>1. k + 1 \in 0..L /\ k + 1 # 0 /\ (k + 1) - 1 = k
      BY <1>1
    <3>2. U[k + 1] = Step(U, k + 1) /\ g[k + 1] = Step(g, k + 1)
      <4> HIDE DEF Step
      <4> QED BY <2>2, <2>5, <3>1
    <3>3. U[k] = g[k]
      BY <2>7
    <3>4. Step(U, k + 1) = Step(g, k + 1)
      BY <3>1, <3>3
    <3> QED BY <3>1, <3>2, <3>4
  <2>8. 0..L \subseteq Same
    <3> HIDE DEF Same, L
    <3> QED BY <1>1, <2>6, <2>7, Counting
  <2>9. L \in 0..L
    BY <1>1
  <2> HIDE DEF L
  <2>10. U[L] = g[L]
    BY <2>8, <2>9
  <2> QED BY <2>4, <2>10 DEF L
<1> QED BY <1>2, <1>3

LEMMA NothingIsZero ==
  ASSUME NEW s \in Seq(Nat), Len(s) = 0
  PROVE  TotalOf(s) = 0
<1>1. PICK g : AddsUp(g, s) /\ TotalOf(s) = g[Len(s)]
  BY TotalIs
<1> QED BY <1>1 DEF AddsUp

LEMMA TotalIsNat ==
  ASSUME NEW s \in Seq(Nat)
  PROVE  TotalOf(s) \in Nat
<1>1. PICK g : AddsUp(g, s) /\ TotalOf(s) = g[Len(s)]
  BY TotalIs
<1>2. Len(s) \in 0..Len(s)
  OBVIOUS
<1> QED BY <1>1, <1>2 DEF AddsUp

\* One more at the end.
LEMMA TotalGrows ==
  ASSUME NEW s \in Seq(Nat), NEW t \in Seq(Nat), Len(t) = Len(s) + 1,
         \A k \in 1..Len(s) : t[k] = s[k]
  PROVE  TotalOf(t) = TotalOf(s) + t[Len(t)]
<1> DEFINE L == Len(s)
<1>1. PICK g : AddsUp(g, s) /\ TotalOf(s) = g[Len(s)]
  BY TotalIs
<1>2. g \in [0..L -> Nat] /\ g[0] = 0 /\ \A k \in 1..L : g[k] = g[k - 1] + s[k]
  BY <1>1 DEF AddsUp
<1>3. L \in Nat /\ L + 1 # 0 /\ Len(t) = L + 1 /\ L \in 0..L /\ L + 1 \in 1..L + 1 /\ t[L + 1] \in Nat
  OBVIOUS
<1> DEFINE h == [k \in 0..L + 1 |-> IF k = L + 1 THEN g[L] + t[L + 1] ELSE g[k]]
<1>4. h \in [0..L + 1 -> Nat]
  <2> HIDE DEF L
  <2>1. ASSUME NEW k \in 0..L + 1 PROVE (IF k = L + 1 THEN g[L] + t[L + 1] ELSE g[k]) \in Nat
    <3>1. k # L + 1 => k \in 0..L
      BY <1>3
    <3>2. g[L] \in Nat
      BY <1>2, <1>3
    <3> QED BY <1>2, <1>3, <3>1, <3>2
  <2> QED BY <2>1
<1>5. h[0] = 0
  <2>1. 0 \in 0..L + 1 /\ 0 # L + 1
    BY <1>3
  <2> HIDE DEF L
  <2> QED BY <1>2, <2>1
<1>6. ASSUME NEW k \in 1..L + 1 PROVE h[k] = h[k - 1] + t[k]
  <2> HIDE DEF L
  <2>1. CASE k = L + 1
    <3>1. k - 1 = L /\ L \in 0..L + 1 /\ L # L + 1 /\ L + 1 \in 0..L + 1
      BY <1>3, <2>1
    <3>2. h[L] = g[L] /\ h[L + 1] = g[L] + t[L + 1]
      BY <3>1
    <3> QED BY <2>1, <3>1, <3>2
  <2>2. CASE k # L + 1
    <3>1. k \in 1..L /\ k \in 0..L + 1 /\ k - 1 \in 0..L + 1 /\ k - 1 # L + 1
      BY <1>3, <2>2
    <3>2. h[k] = g[k] /\ h[k - 1] = g[k - 1]
      BY <2>2, <3>1
    <3>3. t[k] = s[k]
      BY <3>1 DEF L
    <3> QED BY <1>2, <3>1, <3>2, <3>3
  <2> QED BY <2>1, <2>2
<1>7. h[L + 1] = g[L] + t[L + 1]
  <2> HIDE DEF L
  <2> QED BY <1>3
<1> HIDE DEF h
<1>8. AddsUp(h, t)
  BY <1>3, <1>4, <1>5, <1>6 DEF AddsUp
<1> QED BY <1>1, <1>3, <1>7, <1>8, TotalIs

\* One more in front.
LEMMA TotalOfRest ==
  ASSUME NEW s \in Seq(Nat), NEW t \in Seq(Nat), Len(s) = Len(t) + 1,
         \A k \in 1..Len(t) : t[k] = s[k + 1]
  PROVE  TotalOf(s) = s[1] + TotalOf(t)
<1> DEFINE L == Len(t)
<1>1. PICK g : AddsUp(g, t) /\ TotalOf(t) = g[Len(t)]
  BY TotalIs
<1>2. g \in [0..L -> Nat] /\ g[0] = 0 /\ \A k \in 1..L : g[k] = g[k - 1] + t[k]
  BY <1>1 DEF AddsUp
<1>3. L \in Nat /\ Len(s) = L + 1 /\ s[1] \in Nat
  OBVIOUS
<1> DEFINE h == [k \in 0..L + 1 |-> IF k = 0 THEN 0 ELSE s[1] + g[k - 1]]
<1>4. h \in [0..L + 1 -> Nat]
  <2> HIDE DEF L
  <2>1. ASSUME NEW k \in 0..L + 1 PROVE (IF k = 0 THEN 0 ELSE s[1] + g[k - 1]) \in Nat
    <3>1. k # 0 => k - 1 \in 0..L
      BY <1>3
    <3>2. k # 0 => g[k - 1] \in Nat
      BY <1>2, <3>1
    <3> QED BY <1>3, <3>2
  <2> QED BY <2>1
<1>5. h[0] = 0
  <2>1. 0 \in 0..L + 1
    BY <1>3
  <2> HIDE DEF L
  <2> QED BY <2>1
<1>6. ASSUME NEW k \in 1..L + 1 PROVE h[k] = h[k - 1] + s[k]
  <2> HIDE DEF L
  <2>0. k \in 0..L + 1 /\ k # 0
    BY <1>3
  <2>1. h[k] = s[1] + g[k - 1]
    BY <2>0
  <2>2. CASE k = 1
    BY <1>2, <1>3, <1>5, <2>1, <2>2
  <2>3. CASE k # 1
    <3>1. k - 1 \in 1..L /\ k - 1 \in 0..L + 1 /\ k - 1 # 0 /\ (k - 1) + 1 = k /\ (k - 1) - 1 \in 0..L
      BY <1>3, <2>3
    <3>2. h[k - 1] = s[1] + g[(k - 1) - 1]
      BY <3>1
    <3>3. g[k - 1] = g[(k - 1) - 1] + t[k - 1]
      BY <1>2, <3>1
    <3>4. t[k - 1] = s[k]
      BY <3>1 DEF L
    <3>5. t[k - 1] \in Nat /\ g[(k - 1) - 1] \in Nat
      <4>1. t[k - 1] \in Nat
        BY <3>1 DEF L
      <4> QED BY <1>2, <3>1, <4>1
    <3> HIDE DEF h
    <3> QED BY <1>3, <2>1, <3>2, <3>3, <3>4, <3>5
  <2> QED BY <2>2, <2>3
<1>7. h[L + 1] = s[1] + g[L]
  <2>1. L + 1 \in 0..L + 1 /\ L + 1 # 0 /\ (L + 1) - 1 = L
    BY <1>3
  <2> HIDE DEF L
  <2> QED BY <2>1
<1> HIDE DEF h
<1>8. AddsUp(h, s)
  BY <1>3, <1>4, <1>5, <1>6 DEF AddsUp
<1> QED BY <1>1, <1>3, <1>7, <1>8, TotalIs

-----------------------------------------------------------------------------
(* The limits of the writer.                                               *)

LEMMA WriterFacts ==
  /\ MaxPackets \in Nat /\ MaxPackets >= 1 /\ MaxPackets <= 1000
  /\ Mss \in Nat \ {0} /\ SeqSpan \in Nat \ {0} /\ StepLimit \in Nat \ {0}
<1>1. Mss \in {Mss, SeqSpan, StepLimit} /\ SeqSpan \in {Mss, SeqSpan, StepLimit}
      /\ StepLimit \in {Mss, SeqSpan, StepLimit}
  OBVIOUS
<1> QED BY <1>1, PcapAssumption

LEMMA SessionFacts ==
  ASSUME NEW row \in Sessions
  PROVE  /\ row.start \in Nat /\ row.end \in Nat /\ row.up \in Nat /\ row.down \in Nat
         /\ row.isn[UP] \in Nat /\ row.isn[DOWN] \in Nat
         /\ row.transport \in {"tcp", "udp"} /\ row.exchange \in Seq(Message)
<1> DEFINE N == {row.start, row.end, row.up, row.down, row.isn[UP], row.isn[DOWN]}
<1>1. row.start \in N /\ row.end \in N /\ row.up \in N /\ row.down \in N /\ row.isn[UP] \in N /\ row.isn[DOWN] \in N
  OBVIOUS
<1>2. N \subseteq Nat /\ row.transport \in {"tcp", "udp"} /\ row.exchange \in Seq(Message)
  BY PcapAssumption
<1> HIDE DEF N
<1> QED BY <1>1, <1>2

\* As many steps as there may be packets fit the session.
LEMMA StepsFit ==
  ASSUME NEW row \in Sessions
  PROVE  /\ StepOf(row) \in Nat /\ StepOf(row) >= 1
         /\ \A k \in 1..MaxPackets :
              row.start * 1000 + (k - 1) * StepOf(row) < Max({row.end, row.start + 1}) * 1000
<1> DEFINE long == Max({1, row.end - row.start})
           span == long * 1000
           part == span \div MaxPackets
           step == StepOf(row)
<1>1. row.start \in Nat /\ row.end \in Nat
  BY SessionFacts
<1>2. long = (IF 1 >= row.end - row.start THEN 1 ELSE row.end - row.start)
      /\ Max({row.end, row.start + 1}) = (IF row.end >= row.start + 1 THEN row.end ELSE row.start + 1)
  <2>1. 1 \in Int /\ row.end - row.start \in Int /\ row.end \in Int /\ row.start + 1 \in Int
    BY <1>1
  <2> QED BY <2>1, GreaterIs
<1>3. long \in Nat /\ long >= 1 /\ Max({row.end, row.start + 1}) = row.start + long
  BY <1>1, <1>2
<1>4. span \in Nat /\ span >= 1000 /\ row.start * 1000 \in Nat
      /\ Max({row.end, row.start + 1}) * 1000 = row.start * 1000 + span
  <2> HIDE DEF long
  <2> QED BY <1>1, <1>3
<1>5. part \in Nat /\ part >= 1 /\ MaxPackets * part <= span
  <2> HIDE DEF span
  <2>1. span = MaxPackets * part + (span % MaxPackets) /\ span % MaxPackets \in 0..MaxPackets - 1 /\ part \in Nat
    <3>1. MaxPackets \in Nat \ {0}
      BY WriterFacts
    <3>2. span = MaxPackets * (span \div MaxPackets) + (span % MaxPackets) /\ span % MaxPackets \in 0..MaxPackets - 1
          /\ span \div MaxPackets \in Nat
      <4>1. span \in Nat
        BY <1>4
      <4> QED BY <4>1, <3>1, RestOf
    <3> QED BY <3>2
  <2> DEFINE rest == span % MaxPackets
  <2> HIDE DEF part, rest
  <2>2. part # 0
    <3> SUFFICES ASSUME part = 0 PROVE FALSE
      OBVIOUS
    <3>1. MaxPackets * part = 0
      BY WriterFacts
    <3> QED BY <1>4, <2>1, <3>1, WriterFacts DEF rest
  <2>3. MaxPackets * part \in Nat
    BY <2>1, WriterFacts
  <2> QED BY <1>4, <2>1, <2>2, <2>3, WriterFacts DEF rest
<1>6. step \in Nat /\ step >= 1 /\ step <= part
  <2>1. step = Max({1, Min({part, StepLimit})})
    BY DEF StepOf
  <2> HIDE DEF part, step
  <2>2. Min({part, StepLimit}) = IF part <= StepLimit THEN part ELSE StepLimit
    BY <1>5, WriterFacts, LesserIs
  <2> DEFINE m == Min({part, StepLimit})
  <2>3. m \in Nat /\ m >= 1 /\ m <= part
    BY <1>5, <2>2, WriterFacts
  <2> HIDE DEF m
  <2>4. Max({1, m}) = IF 1 >= m THEN 1 ELSE m
    BY <2>3, GreaterIs
  <2> QED BY <2>1, <2>3, <2>4 DEF m
<1>7. ASSUME NEW k \in 1..MaxPackets PROVE (k - 1) * step < span
  <2> HIDE DEF span, part, step
  <2> DEFINE M == MaxPackets
  <2>0. M \in Nat /\ k \in 1..M
    BY WriterFacts
  <2> HIDE DEF M
  <2>1. (k - 1) * step <= (k - 1) * part
    BY <1>5, <1>6, <2>0
  <2>2. (k - 1) * part <= M * part - part
    <3>1. (k - 1) * part = k * part - part
      BY <1>5, <2>0
    <3>2. k * part <= M * part
      BY <1>5, <2>0
    <3> QED BY <1>5, <2>0, <3>1, <3>2
  <2>3. M * part <= span
    BY <1>5 DEF M
  <2>4. (k - 1) * step \in Nat /\ (k - 1) * part \in Nat /\ M * part \in Nat
    BY <1>5, <1>6, <2>0
  <2> QED BY <1>4, <1>5, <2>1, <2>2, <2>3, <2>4
<1>8. ASSUME NEW k \in 1..MaxPackets
      PROVE row.start * 1000 + (k - 1) * step < Max({row.end, row.start + 1}) * 1000
  <2> DEFINE x == row.start * 1000
             y == (k - 1) * step
  <2>1. k - 1 \in Nat
    BY WriterFacts
  <2>2. y \in Nat /\ y < span /\ x \in Nat
    <3> HIDE DEF step, span
    <3> QED BY <1>4, <1>6, <1>7, <2>1
  <2> HIDE DEF x, y, span
  <2> QED BY <1>4, <2>2 DEF x, y
<1> QED BY <1>6, <1>8

LEMMA StepIs ==
  ASSUME NEW row \in Sessions
  PROVE  StepOf(row) \in Nat /\ StepOf(row) >= 1
<1>1. StepOf(row) \in Nat
  BY StepsFit
<1>2. StepOf(row) >= 1
  BY StepsFit
<1> QED BY <1>1, <1>2

\* The pieces of a message are as long as a message is, up to any of them.
LEMMA PiecesAre ==
  ASSUME NEW size \in Nat
  PROVE  /\ Len(Chunks(size)) \in Nat
         /\ \A i \in 1..Len(Chunks(size)) :
              /\ Chunks(size)[i] \in Nat
              /\ Min({size, (i - 1) * Mss}) + Chunks(size)[i] = Min({size, i * Mss})
         /\ Min({size, Len(Chunks(size)) * Mss}) = size
<1> DEFINE u == size + Mss - 1
           n == u \div Mss
           r == u % Mss
           M == Mss
<1>0. M \in Nat /\ M >= 1
  BY WriterFacts
<1>1. u \in Nat /\ n \in Nat /\ r \in 0..M - 1 /\ u = M * n + r /\ size = u - M + 1
  <2>1. u \in Nat /\ size = u - M + 1
    BY <1>0
  <2>2. u % Mss \in 0..Mss - 1 /\ u = Mss * (u \div Mss) + (u % Mss) /\ u \div Mss \in Nat
    BY <2>1, WriterFacts, RestOf
  <2> QED BY <2>1, <2>2
<1>2. Len(Chunks(size)) = n /\ \A i \in 1..n : Chunks(size)[i] = Min({Mss, size - (i - 1) * Mss})
  <2>1. Chunks(size) = [i \in 1..n |-> Min({Mss, size - (i - 1) * Mss})]
    BY DEF Chunks
  <2>2. Len([i \in 1..n |-> Min({Mss, size - (i - 1) * Mss})]) = n
    BY <1>1
  <2> QED BY <2>1, <2>2
<1>3. size <= n * M
  <2> HIDE DEF u, n, r, M
  <2>1. M * n \in Nat /\ n * M = M * n
    BY <1>0, <1>1
  <2> QED BY <1>0, <1>1, <2>1
<1>4. ASSUME NEW i \in 1..n
      PROVE /\ Chunks(size)[i] \in Nat
            /\ Min({size, (i - 1) * Mss}) + Chunks(size)[i] = Min({size, i * Mss})
  <2> DEFINE a == (i - 1) * M
             b == i * M
  <2>1. a \in Nat /\ b \in Nat /\ b = a + M
    <3> HIDE DEF u, n, r, M
    <3> QED BY <1>0, <1>1
  <2>2. a < size
    <3> HIDE DEF u, n, r, M
    <3>1. (i - 1) * M <= (n - 1) * M
      BY <1>0, <1>1
    <3>2. (n - 1) * M = M * n - M
      BY <1>0, <1>1
    <3>3. M * n \in Nat /\ (n - 1) * M \in Int
      BY <1>0, <1>1
    <3> HIDE DEF a
    <3>4. a <= (n - 1) * M
      BY <3>1 DEF a
    <3> QED BY <1>0, <1>1, <2>1, <3>2, <3>3, <3>4
  <2>3. Chunks(size)[i] = Min({M, size - a})
    BY <1>2
  <2> HIDE DEF a, b, M, n
  <2>4. Min({M, size - a}) = (IF M <= size - a THEN M ELSE size - a)
        /\ Min({size, a}) = (IF size <= a THEN size ELSE a)
        /\ Min({size, b}) = (IF size <= b THEN size ELSE b)
    <3>1. size - a \in Int /\ M \in Int /\ a \in Int /\ b \in Int /\ size \in Int
      BY <1>0, <2>1
    <3> QED BY <3>1, LesserIs
  <2>5. Chunks(size)[i] \in Nat /\ Min({size, a}) + Chunks(size)[i] = Min({size, b})
    BY <1>0, <2>1, <2>2, <2>3, <2>4
  <2> QED BY <2>5 DEF a, b, M
<1>5. Min({size, n * Mss}) = size
  <2> HIDE DEF u, n, r
  <2> DEFINE c == n * Mss
  <2>1. c \in Int /\ size <= c
    BY <1>0, <1>1, <1>3
  <2> HIDE DEF c
  <2>2. Min({size, c}) = IF size <= c THEN size ELSE c
    BY <2>1, LesserIs
  <2> QED BY <2>1, <2>2 DEF c
<1> HIDE DEF n
<1> QED BY <1>1, <1>2, <1>4, <1>5

-----------------------------------------------------------------------------
(* What the packets of a conversation carry.                               *)

Flags == {"SYN", "ACK", "PSH", "FIN"}

PacketsOf(row) ==
  IF row.transport = "udp" THEN [dir: Directions, len: Nat, time: Nat]
  ELSE [dir: Directions, flags: SUBSET Flags, len: Nat, time: Nat, seq: Nat, ack: Nat]

FlowRec(row) ==
  [packets: Seq(PacketsOf(row)), clock: Nat, next: [Directions -> Nat], sent: [Directions -> Nat]]

Reassembles(row, packets) ==
  \A k \in 1..Len(packets) :
    /\ packets[k].seq = Expected(row, SubSeq(packets, 1, k - 1), packets[k].dir)
    /\ "ACK" \in packets[k].flags =>
         packets[k].ack = Expected(row, SubSeq(packets, 1, k - 1), Other(packets[k].dir))

\* What is written is stamped and counted.
Packed(row, f) ==
  /\ f \in FlowRec(row)
  /\ Len(f.packets) <= MaxPackets
  /\ f.clock = row.start * 1000 + Len(f.packets) * StepOf(row)
  /\ \A k \in 1..Len(f.packets) : f.packets[k].time = row.start * 1000 + (k - 1) * StepOf(row)
  /\ \A d \in Directions : f.sent[d] = BytesIn(f.packets, d)

\* And of a conversation, numbered.
Numbered(row, f) ==
  /\ \A d \in Directions : f.next[d] = Expected(row, f.packets, d)
  /\ Reassembles(row, f.packets)

GoodFlow(row, f) == Packed(row, f) /\ (row.transport = "tcp" => Numbered(row, f))

LEMMA BytesGrow ==
  ASSUME NEW P, \A p \in P : p.len \in Nat, NEW packets \in Seq(P), NEW p \in P, NEW d
  PROVE  /\ BytesIn(packets, d) \in Nat
         /\ BytesIn(Append(packets, p), d) = BytesIn(packets, d) + (IF p.dir = d THEN p.len ELSE 0)
<1> DEFINE Weight(q) == IF q.dir = d THEN q.len ELSE 0
           longer == Append(packets, p)
           s == [k \in 1..Len(packets) |-> Weight(packets[k])]
           t == [k \in 1..Len(longer) |-> Weight(longer[k])]
<1>1. longer \in Seq(P) /\ Len(longer) = Len(packets) + 1 /\ Len(packets) \in Nat
      /\ longer[Len(packets) + 1] = p /\ \A k \in 1..Len(packets) : longer[k] = packets[k]
  OBVIOUS
<1> HIDE DEF longer
<1>2. \A q \in P : Weight(q) \in Nat
  OBVIOUS
<1> HIDE DEF Weight
<1>3. s \in Seq(Nat) /\ t \in Seq(Nat)
  <2>1. \A k \in 1..Len(packets) : Weight(packets[k]) \in Nat
    BY <1>2
  <2>2. \A k \in 1..Len(longer) : Weight(longer[k]) \in Nat
    BY <1>1, <1>2
  <2> QED BY <1>1, <2>1, <2>2
<1>4. Len(s) = Len(packets) /\ Len(t) = Len(packets) + 1
  BY <1>1
<1>5. \A k \in 1..Len(s) : t[k] = s[k]
  BY <1>1, <1>4
<1>6. t[Len(t)] = Weight(p)
  BY <1>1, <1>4
<1>7. BytesIn(packets, d) = TotalOf(s) /\ BytesIn(longer, d) = TotalOf(t)
  BY DEF BytesIn, Weight
<1> HIDE DEF s, t
<1>8. TotalOf(t) = TotalOf(s) + t[Len(t)]
  BY <1>3, <1>4, <1>5, TotalGrows
<1>9. TotalOf(s) \in Nat
  BY <1>3, TotalIsNat
<1> QED BY <1>6, <1>7, <1>8, <1>9 DEF longer, Weight

LEMMA BytesOfRest ==
  ASSUME NEW P, \A p \in P : p.len \in Nat, NEW messages \in Seq(P), messages # <<>>, NEW d
  PROVE  /\ BytesIn(Tail(messages), d) \in Nat
         /\ BytesIn(messages, d)
              = (IF Head(messages).dir = d THEN Head(messages).len ELSE 0) + BytesIn(Tail(messages), d)
<1> DEFINE Weight(q) == IF q.dir = d THEN q.len ELSE 0
           rest == Tail(messages)
           s == [k \in 1..Len(messages) |-> Weight(messages[k])]
           t == [k \in 1..Len(rest) |-> Weight(rest[k])]
<1>1. rest \in Seq(P) /\ Len(messages) = Len(rest) + 1 /\ Len(rest) \in Nat
      /\ Head(messages) = messages[1] /\ \A k \in 1..Len(rest) : rest[k] = messages[k + 1]
  OBVIOUS
<1> HIDE DEF rest
<1>2. \A q \in P : Weight(q) \in Nat
  OBVIOUS
<1> HIDE DEF Weight
<1>3. s \in Seq(Nat) /\ t \in Seq(Nat)
  <2>1. \A k \in 1..Len(messages) : Weight(messages[k]) \in Nat
    BY <1>2
  <2>2. \A k \in 1..Len(rest) : Weight(rest[k]) \in Nat
    BY <1>1, <1>2
  <2> QED BY <1>1, <2>1, <2>2
<1>4. Len(s) = Len(rest) + 1 /\ Len(t) = Len(rest)
  BY <1>1
<1>5. \A k \in 1..Len(t) : t[k] = s[k + 1]
  BY <1>1, <1>4
<1>6. s[1] = Weight(Head(messages))
  BY <1>1, <1>4
<1>7. BytesIn(messages, d) = TotalOf(s) /\ BytesIn(rest, d) = TotalOf(t)
  BY DEF BytesIn, Weight
<1> HIDE DEF s, t
<1>8. TotalOf(s) = s[1] + TotalOf(t)
  BY <1>3, <1>4, <1>5, TotalOfRest
<1>9. TotalOf(t) \in Nat
  BY <1>3, TotalIsNat
<1> QED BY <1>6, <1>7, <1>8, <1>9 DEF rest, Weight

LEMMA NoBytes ==
  ASSUME NEW d
  PROVE  BytesIn(<<>>, d) = 0
<1> DEFINE s == [k \in 1..Len(<<>>) |-> IF <<>>[k].dir = d THEN <<>>[k].len ELSE 0]
<1>1. Len(<<>>) = 0 /\ 1..0 = {}
  OBVIOUS
<1>2. s \in Seq(Nat) /\ Len(s) = 0
  <2>1. \A k \in 1..Len(<<>>) : FALSE
    BY <1>1
  <2>2. s \in [1..0 -> Nat]
    BY <1>1, <2>1
  <2> HIDE DEF s
  <2> QED BY <2>2
<1>3. BytesIn(<<>>, d) = TotalOf(s)
  BY DEF BytesIn
<1> HIDE DEF s
<1> QED BY <1>2, <1>3, NothingIsZero

\* Every packet moves what is expected of its side on.
LEMMA ExpectedGrows ==
  ASSUME NEW row \in Sessions, row.transport = "tcp", NEW packets \in Seq(PacketsOf(row)),
         NEW p \in PacketsOf(row), NEW d \in Directions
  PROVE  /\ Expected(row, packets, d) \in Nat
         /\ Expected(row, Append(packets, p), d)
              = IF p.dir = d THEN (Expected(row, packets, d) + Took(p)) % SeqSpan
                ELSE Expected(row, packets, d)
<1> DEFINE P == PacketsOf(row)
           Weight(q) == IF q.dir = d THEN Took(q) ELSE 0
           longer == Append(packets, p)
           s == [k \in 1..Len(packets) |-> Weight(packets[k])]
           t == [k \in 1..Len(longer) |-> Weight(longer[k])]
           isn == row.isn[d]
<1>1. longer \in Seq(P) /\ Len(longer) = Len(packets) + 1 /\ Len(packets) \in Nat
      /\ longer[Len(packets) + 1] = p /\ \A k \in 1..Len(packets) : longer[k] = packets[k]
  OBVIOUS
<1> HIDE DEF longer
<1>2. \A q \in P : Took(q) \in Nat /\ Weight(q) \in Nat
  <2>1. P = [dir: Directions, flags: SUBSET Flags, len: Nat, time: Nat, seq: Nat, ack: Nat]
    BY DEF PacketsOf
  <2> HIDE DEF P
  <2>2. \A q \in P : q.len \in Nat
    BY <2>1
  <2>3. \A q \in P : Took(q) \in Nat
    BY <2>2 DEF Took
  <2> QED BY <2>3
<1> HIDE DEF Weight, P
<1>3. s \in Seq(Nat) /\ t \in Seq(Nat)
  <2>1. \A k \in 1..Len(packets) : Weight(packets[k]) \in Nat
    BY <1>2 DEF P
  <2>2. \A k \in 1..Len(longer) : Weight(longer[k]) \in Nat
    BY <1>1, <1>2
  <2> QED BY <1>1, <2>1, <2>2
<1>4. Len(s) = Len(packets) /\ Len(t) = Len(packets) + 1
  BY <1>1
<1>5. \A k \in 1..Len(s) : t[k] = s[k]
  BY <1>1, <1>4
<1>6. t[Len(t)] = Weight(p)
  BY <1>1, <1>4
<1>7. Expected(row, packets, d) = (isn + TotalOf(s)) % SeqSpan
      /\ Expected(row, longer, d) = (isn + TotalOf(t)) % SeqSpan
  BY DEF Expected, Weight
<1> HIDE DEF s, t
<1>8. TotalOf(t) = TotalOf(s) + Weight(p)
  BY <1>3, <1>4, <1>5, <1>6, TotalGrows
<1>9. TotalOf(s) \in Nat /\ isn \in Nat /\ Weight(p) \in Nat /\ SeqSpan \in Nat \ {0}
  <2>1. TotalOf(s) \in Nat
    BY <1>3, TotalIsNat
  <2>2. isn \in Nat
    BY SessionFacts DEF Directions
  <2>3. Weight(p) \in Nat
    BY <1>2 DEF P
  <2> QED BY <2>1, <2>2, <2>3, WriterFacts
<1> DEFINE a == isn + TotalOf(s)
           b == Weight(p)
<1>10. a \in Nat /\ b \in Nat /\ isn + TotalOf(t) = a + b
  BY <1>8, <1>9
<1> HIDE DEF isn, a, b
<1>11. (a + b) % SeqSpan = ((a % SeqSpan) + b) % SeqSpan /\ a % SeqSpan \in Nat
  <2>1. SeqSpan \in Nat \ {0}
    BY <1>9
  <2> QED BY <1>10, <2>1, RestGoesOn
<1>12. Expected(row, packets, d) = a % SeqSpan /\ Expected(row, longer, d) = (a + b) % SeqSpan
  BY <1>7, <1>10 DEF a
<1>13. CASE p.dir = d
  <2>1. b = Took(p)
    BY <1>13 DEF b, Weight
  <2> QED BY <1>11, <1>12, <1>13, <2>1 DEF longer
<1>14. CASE p.dir # d
  <2>1. b = 0 /\ a + b = a
    <3>1. b = 0
      BY <1>14 DEF b, Weight
    <3> QED BY <1>10, <3>1
  <2> QED BY <1>11, <1>12, <1>14, <2>1 DEF longer
<1> QED BY <1>13, <1>14

LEMMA SidesAre ==
  /\ UP \in Directions /\ DOWN \in Directions /\ UP # DOWN
  /\ \A d \in Directions : /\ Other(d) \in Directions /\ Other(d) # d
                           /\ \A e \in Directions : e # d => e = Other(d)
BY DEF Directions, UP, DOWN, Other

LEMMA PacketsHaveBytes ==
  ASSUME NEW row
  PROVE  \A p \in PacketsOf(row) : p.dir \in Directions /\ p.len \in Nat /\ p.time \in Nat
<1>1. CASE row.transport = "udp"
  BY <1>1 DEF PacketsOf
<1>2. CASE row.transport # "udp"
  BY <1>2 DEF PacketsOf
<1> QED BY <1>1, <1>2

\* A packet that is stamped with the time of the clock is packed.
LEMMA AddPacks ==
  ASSUME session \in Sessions, NEW f, Packed(session, f), ~ Full(f),
         NEW packet \in PacketsOf(session), packet.time = f.clock
  PROVE  /\ Packed(session, Add(f, packet))
         /\ Add(f, packet).packets = Append(f.packets, packet)
         /\ Add(f, packet).next = f.next
         /\ Add(f, packet).sent = [f.sent EXCEPT ![packet.dir] = @ + packet.len]
<1> DEFINE g == Add(f, packet)
           n == Len(f.packets)
           step == StepOf(session)
           base == session.start * 1000
           P == PacketsOf(session)
<1>1. f \in FlowRec(session) /\ n \in Nat /\ n < MaxPackets /\ f.packets \in Seq(P)
      /\ f.clock = base + n * step
      /\ \A k \in 1..n : f.packets[k].time = base + (k - 1) * step
      /\ \A d \in Directions : f.sent[d] = BytesIn(f.packets, d)
  <2>1. f \in FlowRec(session) /\ f.packets \in Seq(P) /\ Len(f.packets) \in Nat
    BY DEF Packed, FlowRec
  <2>2. Len(f.packets) < MaxPackets
    BY <2>1, WriterFacts DEF Full
  <2> QED BY <2>1, <2>2 DEF Packed
<1>2. packet.dir \in Directions /\ packet.len \in Nat
  BY PacketsHaveBytes
<1>3. step \in Nat /\ base \in Nat
  <2>1. session.start \in Nat
    BY SessionFacts
  <2>2. StepOf(session) \in Nat
    BY StepIs
  <2> QED BY <2>1, <2>2
<1> HIDE DEF step, base, P
<1>4. g = [f EXCEPT !.packets = Append(@, packet), !.clock = @ + step, !.sent[packet.dir] = @ + packet.len]
  BY DEF Add, step
<1>5. f \in [packets: Seq(P), clock: Nat, next: [Directions -> Nat], sent: [Directions -> Nat]]
  BY <1>1 DEF FlowRec, P
<1> HIDE DEF g
<1>6. g.packets = Append(f.packets, packet) /\ g.next = f.next /\ g.clock = f.clock + step
      /\ g.sent = [f.sent EXCEPT ![packet.dir] = @ + packet.len]
  BY <1>4, <1>5
<1>7. g \in FlowRec(session)
  <2>1. Append(f.packets, packet) \in Seq(P)
    BY <1>1 DEF P
  <2>2. f.clock + step \in Nat
    BY <1>3, <1>5
  <2>3. [f.sent EXCEPT ![packet.dir] = @ + packet.len] \in [Directions -> Nat]
    BY <1>2, <1>5
  <2>4. g = [packets |-> Append(f.packets, packet), clock |-> f.clock + step, next |-> f.next,
             sent |-> [f.sent EXCEPT ![packet.dir] = @ + packet.len]]
    BY <1>4, <1>5
  <2>5. f.next \in [Directions -> Nat]
    BY <1>5
  <2> QED BY <2>1, <2>2, <2>3, <2>4, <2>5 DEF FlowRec, P
<1>8. Len(g.packets) = n + 1 /\ g.packets[n + 1] = packet /\ \A k \in 1..n : g.packets[k] = f.packets[k]
  BY <1>1, <1>6
<1>9. g.clock = base + (n + 1) * step
  <2> HIDE DEF n
  <2>1. (n + 1) * step = n * step + step /\ n * step \in Nat
    BY <1>1, <1>3
  <2> QED BY <1>1, <1>3, <1>6, <2>1
<1>10. ASSUME NEW k \in 1..n + 1 PROVE g.packets[k].time = base + (k - 1) * step
  <2> HIDE DEF n
  <2>1. CASE k = n + 1
    <3>1. (n + 1) - 1 = n
      BY <1>1
    <3> QED BY <1>1, <1>8, <2>1, <3>1
  <2>2. CASE k # n + 1
    <3>1. k \in 1..n
      BY <1>1, <2>2
    <3> QED BY <1>1, <1>8, <3>1
  <2> QED BY <2>1, <2>2
<1>11. ASSUME NEW d \in Directions PROVE g.sent[d] = BytesIn(g.packets, d)
  <2>1. BytesIn(f.packets, d) \in Nat
        /\ BytesIn(Append(f.packets, packet), d) = BytesIn(f.packets, d) + (IF packet.dir = d THEN packet.len ELSE 0)
    <3>1. \A p \in P : p.len \in Nat
      BY PacketsHaveBytes DEF P
    <3> QED BY <1>1, <3>1, BytesGrow DEF P
  <2>2. g.sent[d] = IF packet.dir = d THEN f.sent[d] + packet.len ELSE f.sent[d]
    BY <1>2, <1>5, <1>6
  <2>3. f.sent[d] = BytesIn(f.packets, d)
    BY DEF Packed
  <2> QED BY <1>2, <1>6, <2>1, <2>2, <2>3
<1>12. Packed(session, g)
  <2>1. n + 1 <= MaxPackets
    BY <1>1, WriterFacts
  <2> HIDE DEF n
  <2> QED BY <1>7, <1>8, <1>9, <1>10, <1>11, <2>1 DEF Packed, base, step
<1> QED BY <1>6, <1>12 DEF g

\* The record of a segment.
SegmentOf(f, direction, flags, size) ==
  [dir |-> direction, flags |-> flags, len |-> size, time |-> f.clock, seq |-> f.next[direction],
   ack |-> IF "ACK" \in flags THEN f.next[Other(direction)] ELSE 0]

Goes(f, d, flags, size) ==
  /\ Segment(f, d, flags, size).packets = Append(f.packets, SegmentOf(f, d, flags, size))
  /\ Segment(f, d, flags, size).sent = [f.sent EXCEPT ![d] = @ + size]
  /\ Segment(f, d, flags, size).next
       = [f.next EXCEPT ![d] = (@ + (size + (IF flags \cap {"SYN", "FIN"} # {} THEN 1 ELSE 0))) % SeqSpan]

\* A segment goes on where its side left off and acknowledges what the other
\* said; one that does not fit changes nothing.
LEMMA SegmentIs ==
  ASSUME session \in Sessions, session.transport = "tcp", NEW f, GoodFlow(session, f),
         NEW d \in Directions, NEW flags \in SUBSET Flags, ~ ({"SYN", "FIN"} \subseteq flags), NEW size \in Nat
  PROVE  /\ GoodFlow(session, Segment(f, d, flags, size))
         /\ ~ Full(f) => Goes(f, d, flags, size)
<1>1. CASE Full(f)
  BY <1>1 DEF Segment
<1>2. CASE ~ Full(f)
  <2> DEFINE packet == SegmentOf(f, d, flags, size)
             taken == size + (IF flags \cap {"SYN", "FIN"} # {} THEN 1 ELSE 0)
             added == Add(f, packet)
             g == Segment(f, d, flags, size)
             P == PacketsOf(session)
  <2>1. Packed(session, f) /\ Numbered(session, f)
    BY DEF GoodFlow
  <2>2. f.packets \in Seq(P) /\ f.clock \in Nat /\ f.next \in [Directions -> Nat] /\ f.sent \in [Directions -> Nat]
        /\ Len(f.packets) \in Nat
    BY <2>1 DEF Packed, FlowRec
  <2>3. packet \in P /\ packet.dir = d /\ packet.len = size /\ packet.time = f.clock /\ packet.flags = flags
        /\ packet.seq = f.next[d] /\ ("ACK" \in flags => packet.ack = f.next[Other(d)])
    <3>1. Other(d) \in Directions
      BY SidesAre
    <3>2. f.next[d] \in Nat /\ (IF "ACK" \in flags THEN f.next[Other(d)] ELSE 0) \in Nat
      BY <2>2, <3>1
    <3>3. P = [dir: Directions, flags: SUBSET Flags, len: Nat, time: Nat, seq: Nat, ack: Nat]
      BY DEF PacketsOf
    <3> HIDE DEF P
    <3> QED BY <2>2, <3>2, <3>3 DEF SegmentOf
  <2>4. /\ Packed(session, added) /\ added.packets = Append(f.packets, packet) /\ added.next = f.next
        /\ added.sent = [f.sent EXCEPT ![d] = @ + size]
    <3> HIDE DEF packet
    <3> QED BY <1>2, <2>1, <2>3, AddPacks
  <2>5. g = [added EXCEPT !.next[d] = (@ + taken) % SeqSpan]
    BY <1>2 DEF Segment, SegmentOf
  <2>6. Took(packet) = taken /\ taken \in Nat
    <3> HIDE DEF packet
    <3>1. "SYN" \in flags => "FIN" \notin flags
      OBVIOUS
    <3>2. flags \cap {"SYN", "FIN"} # {} <=> "SYN" \in flags \/ "FIN" \in flags
      OBVIOUS
    <3> QED BY <2>3, <3>1, <3>2 DEF Took
  <2> HIDE DEF taken, packet, added, g, P
  <2>7. added \in FlowRec(session)
    BY <2>4 DEF Packed
  <2>8. (f.next[d] + taken) % SeqSpan \in Nat
    <3>1. f.next[d] + taken \in Nat
      BY <2>2, <2>6
    <3> QED BY <3>1, WriterFacts
  <2>9. g.packets = added.packets /\ g.sent = added.sent /\ g.clock = added.clock
        /\ g.next = [f.next EXCEPT ![d] = (@ + taken) % SeqSpan] /\ g \in FlowRec(session)
    <3>1. added \in [packets: Seq(P), clock: Nat, next: [Directions -> Nat], sent: [Directions -> Nat]]
      BY <2>7 DEF FlowRec, P
    <3>2. g = [packets |-> added.packets, clock |-> added.clock,
               next |-> [added.next EXCEPT ![d] = (@ + taken) % SeqSpan], sent |-> added.sent]
      BY <2>5, <3>1
    <3>3. [f.next EXCEPT ![d] = (@ + taken) % SeqSpan] \in [Directions -> Nat]
      BY <2>2, <2>8
    <3>4. g.next = [f.next EXCEPT ![d] = (@ + taken) % SeqSpan]
      BY <2>4, <3>2
    <3>5. added.packets \in Seq(P) /\ added.clock \in Nat /\ added.sent \in [Directions -> Nat]
      BY <3>1
    <3> QED BY <2>4, <3>2, <3>3, <3>4, <3>5 DEF FlowRec, P
  <2>10. Packed(session, g)
    BY <2>4, <2>9 DEF Packed
  <2>11. ASSUME NEW e \in Directions PROVE g.next[e] = Expected(session, g.packets, e)
    <3>1. Expected(session, Append(f.packets, packet), e)
            = IF packet.dir = e THEN (Expected(session, f.packets, e) + Took(packet)) % SeqSpan
              ELSE Expected(session, f.packets, e)
      BY <2>2, <2>3, ExpectedGrows DEF P
    <3>2. f.next[e] = Expected(session, f.packets, e)
      BY <2>1 DEF Numbered
    <3>3. g.next[e] = IF d = e THEN (f.next[e] + taken) % SeqSpan ELSE f.next[e]
      BY <2>2, <2>9
    <3> QED BY <2>3, <2>4, <2>6, <2>9, <3>1, <3>2, <3>3
  <2>12. Reassembles(session, g.packets)
    <3> SUFFICES ASSUME NEW k \in 1..Len(g.packets)
                 PROVE  /\ g.packets[k].seq = Expected(session, SubSeq(g.packets, 1, k - 1), g.packets[k].dir)
                        /\ "ACK" \in g.packets[k].flags =>
                             g.packets[k].ack
                               = Expected(session, SubSeq(g.packets, 1, k - 1), Other(g.packets[k].dir))
      BY DEF Reassembles
    <3> DEFINE n == Len(f.packets)
    <3>1. g.packets = Append(f.packets, packet)
      BY <2>4, <2>9
    <3>2. Len(g.packets) = n + 1 /\ g.packets[n + 1] = packet /\ n \in Nat
          /\ \A j \in 1..n : g.packets[j] = f.packets[j]
      BY <2>2, <2>3, <3>1
    <3>3. SubSeq(g.packets, 1, k - 1) = SubSeq(f.packets, 1, k - 1)
      <4>1. k - 1 \in 0..n /\ 1..k - 1 \subseteq 1..n
        BY <3>2
      <4>2. SubSeq(g.packets, 1, k - 1) = [j \in 1..k - 1 |-> g.packets[j]]
            /\ SubSeq(f.packets, 1, k - 1) = [j \in 1..k - 1 |-> f.packets[j]]
        <5>1. \A s : SubSeq(s, 1, k - 1) = [j \in 1..(1 + (k - 1)) - 1 |-> s[(1 + j) - 1]]
          BY <4>1
        <5>2. (1 + (k - 1)) - 1 = k - 1 /\ \A j \in 1..k - 1 : (1 + j) - 1 = j
          BY <4>1
        <5> QED BY <5>1, <5>2
      <4> QED BY <3>2, <4>1, <4>2
    <3>4. CASE k = n + 1
      <4>1. SubSeq(f.packets, 1, n) = f.packets /\ k - 1 = n
        BY <2>2, <3>2, <3>4
      <4>2. Other(d) \in Directions
        BY <2>1, SidesAre
      <4>3. f.next[d] = Expected(session, f.packets, d) /\ f.next[Other(d)] = Expected(session, f.packets, Other(d))
        BY <2>1, <4>2 DEF Numbered
      <4> HIDE DEF n
      <4> QED BY <2>3, <3>2, <3>3, <3>4, <4>1, <4>3
    <3>5. CASE k # n + 1
      <4>1. k \in 1..n
        BY <3>2, <3>5
      <4>2. g.packets[k] = f.packets[k]
        BY <3>2, <4>1
      <4>3. /\ f.packets[k].seq = Expected(session, SubSeq(f.packets, 1, k - 1), f.packets[k].dir)
            /\ "ACK" \in f.packets[k].flags =>
                 f.packets[k].ack = Expected(session, SubSeq(f.packets, 1, k - 1), Other(f.packets[k].dir))
        BY <2>1, <4>1 DEF Numbered, Reassembles
      <4> QED BY <3>3, <4>2, <4>3
    <3> QED BY <3>4, <3>5
  <2>13. GoodFlow(session, g)
    BY <2>10, <2>11, <2>12 DEF GoodFlow, Numbered
  <2> QED BY <1>2, <2>4, <2>9, <2>13 DEF g, taken, packet, Goes
<1> QED BY <1>1, <1>2

-----------------------------------------------------------------------------
(* How many bytes a conversation says.                                     *)

\* Each side said so much, or less if the writer is full.
Accounted(f, told) ==
  \A d \in Directions : f.sent[d] <= told[d] /\ (Full(f) \/ f.sent[d] = told[d])

Bytes2 == [Directions -> Nat]

More(told, d, size) == [told EXCEPT ![d] = @ + size]

LEMMA MoreIs ==
  ASSUME NEW told \in Bytes2, NEW d \in Directions, NEW size \in Nat
  PROVE  /\ More(told, d, size) \in Bytes2
         /\ More(told, d, size)[d] = told[d] + size
         /\ \A e \in Directions : e # d => More(told, d, size)[e] = told[e]
         /\ size = 0 => More(told, d, size) = told
<1>1. told \in [Directions -> Nat] /\ told[d] \in Nat /\ told[d] + 0 = told[d]
  BY DEF Bytes2
<1>2. size = 0 => More(told, d, size) = told
  <2> SUFFICES ASSUME size = 0 PROVE [told EXCEPT ![d] = @ + size] = told
    BY DEF More
  <2> QED BY <1>1
<1> QED BY <1>1, <1>2 DEF More, Bytes2

LEMMA SegmentSays ==
  ASSUME session \in Sessions, session.transport = "tcp", NEW f, GoodFlow(session, f),
         NEW d \in Directions, NEW flags \in SUBSET Flags, ~ ({"SYN", "FIN"} \subseteq flags), NEW size \in Nat,
         NEW told \in Bytes2, Accounted(f, told)
  PROVE  Accounted(Segment(f, d, flags, size), More(told, d, size))
<1> DEFINE g == Segment(f, d, flags, size)
<1>1. f.sent \in [Directions -> Nat] /\ told \in [Directions -> Nat]
  BY DEF GoodFlow, Packed, FlowRec, Bytes2
<1>2. More(told, d, size)[d] = told[d] + size
      /\ \A e \in Directions : e # d => More(told, d, size)[e] = told[e]
  BY MoreIs
<1>3. CASE Full(f)
  <2>1. g = f
    BY <1>3 DEF Segment
  <2>2. \A e \in Directions : f.sent[e] <= told[e] /\ f.sent[e] \in Nat /\ told[e] \in Nat
    BY <1>1 DEF Accounted
  <2> HIDE DEF g
  <2>3. \A e \in Directions : f.sent[e] <= More(told, d, size)[e]
    BY <1>2, <2>2
  <2> QED BY <1>3, <2>1, <2>3 DEF Accounted, g
<1>4. CASE ~ Full(f)
  <2>1. g.sent = [f.sent EXCEPT ![d] = @ + size]
    <3>1. Goes(f, d, flags, size)
      BY <1>4, SegmentIs
    <3> QED BY <3>1 DEF Goes
  <2>2. \A e \in Directions : f.sent[e] = told[e] /\ told[e] \in Nat
    BY <1>1, <1>4 DEF Accounted
  <2> HIDE DEF g
  <2>3. \A e \in Directions : g.sent[e] = More(told, d, size)[e] /\ g.sent[e] \in Nat
    BY <1>1, <1>2, <2>1, <2>2
  <2> QED BY <2>3 DEF Accounted, g
<1> QED BY <1>3, <1>4

\* Something said and its acknowledgement.
Pair(f, d, flags, size) == Segment(Segment(f, d, flags, size), Other(d), {"ACK"}, 0)

LEMMA PairSays ==
  ASSUME session \in Sessions, session.transport = "tcp", NEW f, GoodFlow(session, f),
         NEW d \in Directions, NEW flags \in SUBSET Flags, ~ ({"SYN", "FIN"} \subseteq flags), NEW size \in Nat
  PROVE  /\ GoodFlow(session, Pair(f, d, flags, size))
         /\ \A told \in Bytes2 : Accounted(f, told) => Accounted(Pair(f, d, flags, size), More(told, d, size))
<1> DEFINE g == Segment(f, d, flags, size)
           ack == {"ACK"}
<1>1. GoodFlow(session, g)
  BY SegmentIs
<1>2. Other(d) \in Directions /\ ack \in SUBSET Flags /\ ~ ({"SYN", "FIN"} \subseteq ack) /\ 0 \in Nat
  BY SidesAre DEF Flags
<1>3. Pair(f, d, flags, size) = Segment(g, Other(d), ack, 0)
  BY DEF Pair
<1> HIDE DEF g, ack
<1>4. GoodFlow(session, Segment(g, Other(d), ack, 0))
  BY <1>1, <1>2, SegmentIs
<1>5. ASSUME NEW told \in Bytes2, Accounted(f, told)
      PROVE  Accounted(Segment(g, Other(d), ack, 0), More(told, d, size))
  <2>1. Accounted(g, More(told, d, size))
    BY <1>5, SegmentSays DEF g
  <2>2. More(told, d, size) \in Bytes2
    BY MoreIs
  <2> DEFINE more == More(told, d, size)
  <2> HIDE DEF more
  <2>3. more \in Bytes2 /\ Accounted(g, more)
    BY <2>1, <2>2 DEF more
  <2>4. Accounted(Segment(g, Other(d), ack, 0), More(more, Other(d), 0))
    BY <1>1, <1>2, <2>3, SegmentSays
  <2>5. More(more, Other(d), 0) = more
    BY <1>2, <2>3, MoreIs
  <2> QED BY <2>4, <2>5 DEF more
<1> QED BY <1>3, <1>4, <1>5

SayFlags(size, i) == IF i = Len(Chunks(size)) THEN {"PSH", "ACK"} ELSE {"ACK"}

GoodFlows == {f \in FlowRec(session) : GoodFlow(session, f)}

\* A message is said piece by piece, and all of it.
LEMMA SaidIs ==
  ASSUME session \in Sessions, session.transport = "tcp", NEW f, GoodFlow(session, f),
         NEW d \in Directions, NEW size \in Nat
  PROVE  /\ GoodFlow(session, Said(f, d, size))
         /\ \A told \in Bytes2 : Accounted(f, told) => Accounted(Said(f, d, size), More(told, d, size))
<1> DEFINE L == Len(Chunks(size))
           S == GoodFlows
           Say(g, k) == Pair(g, d, SayFlags(size, k), Chunks(size)[k])
           step == [k \in 1..L |-> [g \in S |-> Say(g, k)]]
           Step(after, k) == IF k = 0 THEN f ELSE Say(after[k - 1], k)
           U == CHOOSE h : h = [k \in 0..L |-> Step(h, k)]
<1>1. L \in Nat /\ \A k \in 1..L : Chunks(size)[k] \in Nat
  BY PiecesAre
<1>2. \A k \in 1..L : SayFlags(size, k) \in SUBSET Flags /\ ~ ({"SYN", "FIN"} \subseteq SayFlags(size, k))
  BY DEF SayFlags, Flags
<1>3. f \in S
  BY DEF GoodFlows, GoodFlow, Packed
<1>4. ASSUME NEW k \in 1..L, NEW g \in S PROVE Say(g, k) \in S
  <2>1. GoodFlow(session, g)
    BY DEF GoodFlows
  <2>2. GoodFlow(session, Say(g, k))
    <3> DEFINE flags == SayFlags(size, k)
               piece == Chunks(size)[k]
    <3>1. flags \in SUBSET Flags /\ ~ ({"SYN", "FIN"} \subseteq flags) /\ piece \in Nat
      BY <1>1, <1>2
    <3> HIDE DEF flags, piece
    <3>2. GoodFlow(session, Pair(g, d, flags, piece))
      BY <2>1, <3>1, PairSays
    <3> QED BY <3>2 DEF flags, piece
  <2> HIDE DEF Say
  <2> QED BY <2>2 DEF GoodFlows, GoodFlow, Packed
<1>5. PICK g \in [0..L -> S] : g[0] = f /\ \A n \in 1..L : g[n] = step[n][g[n - 1]]
  <2>1. step \in [1..L -> [S -> S]]
    <3> HIDE DEF Say, S, L
    <3> QED BY <1>4
  <2> HIDE DEF step, L, S
  <2>2. \E g : Repeats(g, L, S, f, step)
    BY <1>1, <1>3, <2>1, RecursionExists
  <2> QED BY <2>2 DEF Repeats
<1>6. ASSUME NEW k \in 1..L PROVE k \in 0..L /\ k # 0 /\ k - 1 \in 0..L /\ g[k - 1] \in S
  BY <1>1, <1>5
<1>7. ASSUME NEW k \in 1..L PROVE g[k] = Say(g[k - 1], k)
  <2>1. step[k][g[k - 1]] = Say(g[k - 1], k)
    <3> HIDE DEF Say, S
    <3> QED BY <1>6
  <2> HIDE DEF step, Say
  <2> QED BY <1>5, <2>1
<1>8. \A k \in 0..L : g[k] = Step(g, k)
  <2> TAKE k \in 0..L
  <2>1. CASE k = 0
    BY <1>5, <2>1
  <2>2. CASE k # 0
    <3>1. k \in 1..L
      BY <1>1, <2>2
    <3> HIDE DEF Say, L, step
    <3> QED BY <1>7, <2>2, <3>1
  <2> QED BY <2>1, <2>2
<1>9. g = [k \in 0..L |-> Step(g, k)]
  <2>1. g = [k \in 0..L |-> g[k]]
    BY <1>5
  <2> HIDE DEF Step, L
  <2> QED BY <1>8, <2>1
<1>10. Said(f, d, size) = U[L]
  BY DEF Said, Pair, SayFlags
<1>11. U = [k \in 0..L |-> Step(U, k)]
  <2> HIDE DEF Step, L
  <2> QED BY <1>9
<1> HIDE DEF U
<1> DEFINE Same == {k \in 0..L : U[k] = g[k]}
<1>12. 0 \in Same
  <2>1. U[0] = Step(U, 0) /\ 0 \in 0..L
    <3> HIDE DEF Step, L
    <3>1. 0 \in 0..L
      BY <1>1
    <3> QED BY <1>11, <3>1
  <2>2. Step(U, 0) = f
    OBVIOUS
  <2> HIDE DEF Step, L, step
  <2> QED BY <1>5, <2>1, <2>2
<1>13. ASSUME NEW k \in 0..L - 1, k \in Same PROVE k + 1 \in Same
  <2>1. k + 1 \in 0..L /\ k + 1 # 0 /\ (k + 1) - 1 = k
    BY <1>1
  <2>2. U[k + 1] = Step(U, k + 1) /\ g[k + 1] = Step(g, k + 1)
    <3> HIDE DEF Step, L
    <3> QED BY <1>8, <1>11, <2>1
  <2>3. U[k] = g[k]
    BY <1>13
  <2>4. Step(U, k + 1) = Step(g, k + 1)
    <3> HIDE DEF Say, step
    <3> QED BY <2>1, <2>3
  <2> HIDE DEF Step
  <2> QED BY <2>1, <2>2, <2>4
<1>14. 0..L \subseteq Same
  <2> HIDE DEF Same, L
  <2> QED BY <1>1, <1>12, <1>13, Counting
<1>15. L \in 0..L /\ Said(f, d, size) = g[L]
  <2>1. L \in 0..L
    BY <1>1
  <2> HIDE DEF L, step
  <2> QED BY <1>10, <1>14, <2>1
<1> HIDE DEF step, Step, Same
<1>16. GoodFlow(session, Said(f, d, size))
  <2>1. g[L] \in S
    <3> HIDE DEF L, S
    <3> QED BY <1>5, <1>15
  <2> QED BY <1>15, <2>1 DEF GoodFlows
<1>17. ASSUME NEW told \in Bytes2, Accounted(f, told)
       PROVE  Accounted(Said(f, d, size), More(told, d, size))
  <2> DEFINE Upto(k) == Min({size, k * Mss})
             Told == {k \in 0..L : Upto(k) \in Nat /\ Accounted(g[k], More(told, d, Upto(k)))}
  <2>1. 0 \in Told
    <3>1. 0 * Mss = 0 /\ 0 \in 0..L
      BY <1>1, WriterFacts
    <3>2. Upto(0) = 0
      <4>1. Min({size, 0}) = IF size <= 0 THEN size ELSE 0
        BY LesserIs
      <4> QED BY <3>1, <4>1
    <3>3. More(told, d, 0) = told
      BY MoreIs
    <3> HIDE DEF Upto
    <3> QED BY <1>5, <1>17, <3>1, <3>2, <3>3
  <2>2. ASSUME NEW k \in 0..L - 1, k \in Told PROVE k + 1 \in Told
    <3> DEFINE n == k + 1
               piece == Chunks(size)[n]
               flags == SayFlags(size, n)
               u == Upto(k)
    <3>1. n \in 1..L /\ n \in 0..L /\ n - 1 = k
      BY <1>1
    <3> HIDE DEF n, L
    <3>2. piece \in Nat /\ u + piece = Upto(n)
      BY <3>1, PiecesAre DEF L
    <3>3. u \in Nat /\ Accounted(g[k], More(told, d, u))
      BY <2>2
    <3>4. flags \in SUBSET Flags /\ ~ ({"SYN", "FIN"} \subseteq flags)
      BY <1>2, <3>1
    <3>5. g[k] \in S /\ g[n] = Say(g[k], n)
      BY <1>6, <1>7, <3>1
    <3>6. GoodFlow(session, g[k]) /\ g[n] = Pair(g[k], d, flags, piece)
      BY <3>5 DEF GoodFlows
    <3> HIDE DEF Upto, u, piece, flags, Say
    <3> DEFINE m == More(told, d, u)
    <3>7. m \in Bytes2 /\ m[d] = told[d] + u /\ \A e \in Directions : e # d => m[e] = told[e]
      BY <3>3, MoreIs
    <3>8. Accounted(g[k], m)
      BY <3>3
    <3> HIDE DEF m
    <3>9. Accounted(g[n], More(m, d, piece))
      BY <3>2, <3>4, <3>6, <3>7, <3>8, PairSays
    <3>10. More(m, d, piece) = More(told, d, u + piece)
      <4>1. u + piece \in Nat
        BY <3>2, <3>3
      <4>2. told \in [Directions -> Nat] /\ m \in [Directions -> Nat]
        BY <3>7 DEF Bytes2
      <4>3. More(m, d, piece) \in [Directions -> Nat] /\ More(m, d, piece)[d] = m[d] + piece
            /\ \A e \in Directions : e # d => More(m, d, piece)[e] = m[e]
        BY <3>2, <3>7, MoreIs DEF Bytes2
      <4>4. More(told, d, u + piece) \in [Directions -> Nat] /\ More(told, d, u + piece)[d] = told[d] + (u + piece)
            /\ \A e \in Directions : e # d => More(told, d, u + piece)[e] = told[e]
        BY <4>1, MoreIs DEF Bytes2
      <4>5. m[d] + piece = told[d] + (u + piece)
        <5>1. told[d] \in Nat
          BY <4>2
        <5> QED BY <3>2, <3>3, <3>7, <5>1
      <4>6. \A e \in Directions : More(m, d, piece)[e] = More(told, d, u + piece)[e]
        BY <3>7, <4>3, <4>4, <4>5
      <4> QED BY <4>3, <4>4, <4>6
    <3>11. Upto(n) \in Nat /\ Accounted(g[n], More(told, d, Upto(n)))
      BY <3>2, <3>3, <3>9, <3>10
    <3> QED BY <3>1, <3>11 DEF n
  <2>3. 0..L \subseteq Told
    <3> HIDE DEF Told, L
    <3> QED BY <1>1, <2>1, <2>2, Counting
  <2>4. Upto(L) = size
    BY PiecesAre
  <2>5. Accounted(g[L], More(told, d, Upto(L)))
    <3> HIDE DEF L, Upto
    <3> QED BY <1>15, <2>3
  <2> HIDE DEF L, Upto
  <2> QED BY <1>15, <2>4, <2>5
<1> QED BY <1>16, <1>17

-----------------------------------------------------------------------------
(* Writing the packets of a session.                                       *)

Asked(row, d) == BytesIn(row.exchange, d)

Listed(row, d) == IF d = UP THEN row.up ELSE row.down

Goal(row, d) == IF row.transport = "udp" THEN Asked(row, d) ELSE Max({Asked(row, d), Listed(row, d)})

\* A side closed and the other acknowledged it.
Closed(packets, d) ==
  \E i \in 1..Len(packets) :
    /\ packets[i].dir = d /\ "FIN" \in packets[i].flags
    /\ \E k \in i + 1..Len(packets) :
         packets[k].dir = Other(d) /\ packets[k].ack = (packets[i].seq + 1) % SeqSpan

WritingInv ==
  /\ session \in Sessions /\ ahead \in Seq(Message) /\ left \in Bytes2
  /\ stage \in {"handshake", "exchange", "fill", "written"}
  /\ GoodFlow(session, flow)
  /\ stage \in {"handshake", "fill"} => session.transport = "tcp"
  /\ stage = "handshake" => flow.packets = <<>> /\ ahead = session.exchange
  /\ stage \in {"handshake", "exchange"} =>
       \E told \in Bytes2 : /\ Accounted(flow, told)
                            /\ \A d \in Directions : told[d] + BytesIn(ahead, d) = Asked(session, d)
  /\ stage = "fill" =>
       \E told \in Bytes2 : /\ Accounted(flow, told)
                            /\ \A d \in Directions : told[d] + left[d] = Goal(session, d)
  /\ stage = "written" =>
       /\ \A d \in Directions : /\ flow.sent[d] <= Goal(session, d)
                                /\ Full(flow) \/ flow.sent[d] = Goal(session, d)
       /\ session.transport = "tcp" /\ ~ Full(flow) => \A d \in Directions : Closed(flow.packets, d)

LEMMA GoalIs ==
  ASSUME NEW row \in Sessions, NEW d \in Directions
  PROVE  /\ Asked(row, d) \in Nat /\ Listed(row, d) \in Nat /\ Goal(row, d) \in Nat
         /\ Asked(row, d) <= Goal(row, d)
         /\ row.transport = "udp" => Goal(row, d) = Asked(row, d)
         /\ row.transport # "udp" => Goal(row, d) = IF Asked(row, d) >= Listed(row, d) THEN Asked(row, d) ELSE Listed(row, d)
<1>1. row.exchange \in Seq(Message) /\ row.up \in Nat /\ row.down \in Nat
  BY SessionFacts
<1>2. Asked(row, d) \in Nat
  <2>1. \A m \in Message : m.len \in Nat
    BY DEF Message
  <2>2. CASE row.exchange = <<>>
    BY <2>2, NoBytes DEF Asked
  <2>3. CASE row.exchange # <<>>
    <3> DEFINE messages == row.exchange
    <3>1. messages \in Seq(Message) /\ messages # <<>> /\ Head(messages) \in Message
      BY <1>1, <2>3
    <3> HIDE DEF messages
    <3>2. BytesIn(Tail(messages), d) \in Nat
          /\ BytesIn(messages, d)
               = (IF Head(messages).dir = d THEN Head(messages).len ELSE 0) + BytesIn(Tail(messages), d)
      BY <2>1, <3>1, BytesOfRest
    <3>3. BytesIn(messages, d) \in Nat
      BY <2>1, <3>1, <3>2
    <3> QED BY <3>3 DEF messages, Asked
  <2> QED BY <2>2, <2>3
<1>3. Listed(row, d) \in Nat
  BY <1>1 DEF Listed
<1> DEFINE a == Asked(row, d)
           b == Listed(row, d)
<1>4. a \in Nat /\ b \in Nat
  BY <1>2, <1>3
<1>5. Goal(row, d) = IF row.transport = "udp" THEN a ELSE Max({a, b})
  BY DEF Goal
<1> HIDE DEF a, b
<1>6. Max({a, b}) = IF a >= b THEN a ELSE b
  BY <1>4, GreaterIs
<1>7. Goal(row, d) \in Nat /\ a <= Goal(row, d)
      /\ (row.transport = "udp" => Goal(row, d) = a)
      /\ (row.transport # "udp" => Goal(row, d) = IF a >= b THEN a ELSE b)
  BY <1>4, <1>5, <1>6
<1> QED BY <1>4, <1>7 DEF a, b

\* An empty conversation.
LEMMA NewFlowIsGood ==
  ASSUME NEW row \in Sessions
  PROVE  GoodFlow(row, NewFlow(row)) /\ NewFlow(row).packets = <<>>
         /\ \A d \in Directions : NewFlow(row).sent[d] = 0
<1> DEFINE f == NewFlow(row)
<1>1. row.start \in Nat /\ \A d \in Directions : row.isn[d] \in Nat
  BY SessionFacts DEF Directions
<1>2. \A d \in Directions : row.isn[d] % SeqSpan \in Nat
  BY <1>1, WriterFacts
<1>3. f = [packets |-> <<>>, clock |-> row.start * 1000,
           next |-> [d \in Directions |-> row.isn[d] % SeqSpan], sent |-> [d \in Directions |-> 0]]
  BY DEF NewFlow
<1> HIDE DEF f
<1>4. f.packets = <<>> /\ f.clock = row.start * 1000 /\ Len(f.packets) = 0
      /\ \A d \in Directions : f.sent[d] = 0 /\ f.next[d] = row.isn[d] % SeqSpan
  BY <1>3
<1>5. f \in FlowRec(row)
  <2>1. <<>> \in Seq(PacketsOf(row)) /\ row.start * 1000 \in Nat
        /\ [d \in Directions |-> row.isn[d] % SeqSpan] \in [Directions -> Nat]
        /\ [d \in Directions |-> 0] \in [Directions -> Nat]
    BY <1>1, <1>2
  <2> QED BY <1>3, <2>1 DEF FlowRec
<1>6. Packed(row, f)
  <2>1. 0 * StepOf(row) = 0 /\ row.start * 1000 + 0 = row.start * 1000
    <3>1. StepOf(row) \in Nat
      BY StepIs
    <3> QED BY <1>1, <3>1
  <2>2. \A d \in Directions : f.sent[d] = BytesIn(f.packets, d)
    BY <1>4, NoBytes
  <2>3. Len(f.packets) <= MaxPackets
    BY <1>4, WriterFacts
  <2> QED BY <1>4, <1>5, <2>1, <2>2, <2>3 DEF Packed
<1>7. row.transport = "tcp" => Numbered(row, f)
  <2> SUFFICES ASSUME row.transport = "tcp" PROVE Numbered(row, f)
    OBVIOUS
  <2>1. ASSUME NEW d \in Directions PROVE Expected(row, <<>>, d) = row.isn[d] % SeqSpan
    <3> DEFINE s == [k \in 1..Len(<<>>) |-> IF <<>>[k].dir = d THEN Took(<<>>[k]) ELSE 0]
    <3>1. Len(<<>>) = 0 /\ 1..0 = {}
      OBVIOUS
    <3>2. s \in Seq(Nat) /\ Len(s) = 0
      <4>1. s \in [1..0 -> Nat]
        BY <3>1
      <4> HIDE DEF s
      <4> QED BY <4>1
    <3>3. Expected(row, <<>>, d) = (row.isn[d] + TotalOf(s)) % SeqSpan
      BY DEF Expected
    <3> HIDE DEF s
    <3>4. TotalOf(s) = 0
      BY <3>2, NothingIsZero
    <3>5. row.isn[d] + 0 = row.isn[d]
      <4>1. row.isn[d] \in Nat
        BY <1>1
      <4> QED BY <4>1
    <3> QED BY <3>3, <3>4, <3>5
  <2>2. Reassembles(row, f.packets)
    BY <1>4 DEF Reassembles
  <2> QED BY <1>4, <2>1, <2>2 DEF Numbered
<1> QED BY <1>4, <1>6, <1>7 DEF GoodFlow, f

LEMMA WritingStarts == PcapInit => WritingInv
<1> SUFFICES ASSUME PcapInit PROVE WritingInv
  OBVIOUS
<1>1. session \in Sessions /\ ahead = session.exchange /\ flow = NewFlow(session)
      /\ stage = (IF session.transport = "udp" THEN "exchange" ELSE "handshake")
      /\ left = [d \in Directions |-> 0]
  BY DEF PcapInit
<1>2. session.transport \in {"tcp", "udp"} /\ ahead \in Seq(Message)
  BY <1>1, SessionFacts
<1>3. GoodFlow(session, flow) /\ flow.packets = <<>> /\ \A d \in Directions : flow.sent[d] = 0
  BY <1>1, NewFlowIsGood
<1> DEFINE told == [d \in Directions |-> 0]
<1>4. told \in Bytes2 /\ left \in Bytes2 /\ \A d \in Directions : told[d] = 0
  BY <1>1 DEF Bytes2
<1> HIDE DEF told
<1>5. Accounted(flow, told)
  BY <1>3, <1>4 DEF Accounted
<1>6. \A d \in Directions : told[d] + BytesIn(ahead, d) = Asked(session, d)
  <2> TAKE d \in Directions
  <2>1. Asked(session, d) \in Nat /\ BytesIn(ahead, d) = Asked(session, d)
    BY <1>1, GoalIs DEF Asked
  <2> QED BY <1>4, <2>1
<1> QED BY <1>1, <1>2, <1>3, <1>4, <1>5, <1>6 DEF WritingInv

LEMMA FlagsAre ==
  /\ {"SYN"} \in SUBSET Flags /\ ~ ({"SYN", "FIN"} \subseteq {"SYN"})
  /\ {"SYN", "ACK"} \in SUBSET Flags /\ ~ ({"SYN", "FIN"} \subseteq {"SYN", "ACK"})
  /\ {"ACK"} \in SUBSET Flags /\ ~ ({"SYN", "FIN"} \subseteq {"ACK"})
  /\ {"PSH", "ACK"} \in SUBSET Flags /\ ~ ({"SYN", "FIN"} \subseteq {"PSH", "ACK"})
  /\ {"FIN", "ACK"} \in SUBSET Flags /\ ~ ({"SYN", "FIN"} \subseteq {"FIN", "ACK"})
BY DEF Flags

\* A segment that carries nothing.
LEMMA EmptySegment ==
  ASSUME session \in Sessions, session.transport = "tcp", NEW f, GoodFlow(session, f),
         NEW d \in Directions, NEW flags \in SUBSET Flags, ~ ({"SYN", "FIN"} \subseteq flags)
  PROVE  /\ GoodFlow(session, Segment(f, d, flags, 0))
         /\ \A told \in Bytes2 : Accounted(f, told) => Accounted(Segment(f, d, flags, 0), told)
         /\ Full(f) => Segment(f, d, flags, 0) = f
         /\ ~ Full(f) => Len(Segment(f, d, flags, 0).packets) = Len(f.packets) + 1
<1>0. 0 \in Nat
  OBVIOUS
<1>1. GoodFlow(session, Segment(f, d, flags, 0))
  BY <1>0, SegmentIs
<1>2. ASSUME NEW told \in Bytes2, Accounted(f, told) PROVE Accounted(Segment(f, d, flags, 0), told)
  <2>1. Accounted(Segment(f, d, flags, 0), More(told, d, 0))
    BY <1>0, <1>2, SegmentSays
  <2>2. More(told, d, 0) = told
    BY <1>0, MoreIs
  <2> QED BY <2>1, <2>2
<1>3. Full(f) => Segment(f, d, flags, 0) = f
  BY DEF Segment
<1>4. ASSUME ~ Full(f) PROVE Len(Segment(f, d, flags, 0).packets) = Len(f.packets) + 1
  <2>1. Segment(f, d, flags, 0).packets = Append(f.packets, SegmentOf(f, d, flags, 0))
    <3>1. Goes(f, d, flags, 0)
      BY <1>0, <1>4, SegmentIs
    <3> QED BY <3>1 DEF Goes
  <2>2. f.packets \in Seq(PacketsOf(session))
    BY DEF GoodFlow, Packed, FlowRec
  <2>3. \A x : Len(Append(f.packets, x)) = Len(f.packets) + 1
    BY <2>2
  <2> QED BY <2>1, <2>3
<1> QED BY <1>1, <1>2, <1>3, <1>4

LEMMA HandshakeWrites ==
  ASSUME WritingInv, Handshake
  PROVE  WritingInv'
<1>1. session \in Sessions /\ session.transport = "tcp" /\ GoodFlow(session, flow) /\ flow.packets = <<>>
      /\ ahead \in Seq(Message) /\ left \in Bytes2
  BY DEF WritingInv, Handshake
<1>2. PICK told \in Bytes2 : Accounted(flow, told) /\ \A d \in Directions : told[d] + BytesIn(ahead, d) = Asked(session, d)
  BY DEF WritingInv, Handshake
<1> DEFINE a == Segment(flow, UP, {"SYN"}, 0)
           b == Segment(a, DOWN, {"SYN", "ACK"}, 0)
           c == Segment(b, UP, {"ACK"}, 0)
<1>3. flow' = c /\ session' = session /\ ahead' = ahead /\ left' = left
      /\ stage' = IF MaxPackets < 3 THEN "written" ELSE "exchange"
  BY DEF Handshake, Shaken
<1>4. GoodFlow(session, a) /\ Accounted(a, told) /\ (Full(flow) => a = flow)
      /\ (~ Full(flow) => Len(a.packets) = Len(flow.packets) + 1)
  BY <1>1, <1>2, FlagsAre, SidesAre, EmptySegment
<1> HIDE DEF a
<1>5. GoodFlow(session, b) /\ Accounted(b, told) /\ (Full(a) => b = a)
      /\ (~ Full(a) => Len(b.packets) = Len(a.packets) + 1)
  BY <1>1, <1>2, <1>4, FlagsAre, SidesAre, EmptySegment
<1> HIDE DEF b
<1>6. GoodFlow(session, c) /\ Accounted(c, told) /\ (Full(b) => c = b)
      /\ (~ Full(b) => Len(c.packets) = Len(b.packets) + 1)
  BY <1>1, <1>2, <1>5, FlagsAre, SidesAre, EmptySegment
<1> HIDE DEF c
<1>7. MaxPackets < 3 => Full(c)
  BY <1>1, <1>4, <1>5, <1>6, WriterFacts DEF Full
<1>8. \A d \in Directions : c.sent[d] <= Goal(session, d)
  <2> TAKE d \in Directions
  <2>1. c.sent[d] <= told[d] /\ told[d] + BytesIn(ahead, d) = Asked(session, d) /\ Asked(session, d) <= Goal(session, d)
    BY <1>1, <1>2, <1>6, GoalIs DEF Accounted
  <2>2. c.sent[d] \in Nat /\ told[d] \in Nat /\ Asked(session, d) \in Nat /\ Goal(session, d) \in Nat
    BY <1>1, <1>6, GoalIs DEF GoodFlow, Packed, FlowRec, Bytes2
  <2>3. BytesIn(ahead, d) \in Nat
    <3>1. ahead = session.exchange
      BY DEF WritingInv, Handshake
    <3> QED BY <1>1, <3>1, GoalIs DEF Asked
  <2> QED BY <2>1, <2>2, <2>3
<1>9. CASE MaxPackets < 3
  BY <1>1, <1>3, <1>6, <1>7, <1>8, <1>9 DEF WritingInv
<1>10. CASE ~ (MaxPackets < 3)
  BY <1>1, <1>2, <1>3, <1>6, <1>10 DEF WritingInv
<1> QED BY <1>9, <1>10

LEMMA ExchangeWrites ==
  ASSUME WritingInv, Exchange
  PROVE  WritingInv'
<1> DEFINE said == Head(ahead)
<1>1. session \in Sessions /\ GoodFlow(session, flow) /\ ahead \in Seq(Message) /\ ahead # <<>> /\ left \in Bytes2
      /\ session.transport \in {"tcp", "udp"} /\ stage = "exchange"
  BY SessionFacts DEF WritingInv, Exchange
<1>2. PICK told \in Bytes2 : Accounted(flow, told) /\ \A d \in Directions : told[d] + BytesIn(ahead, d) = Asked(session, d)
  BY <1>1 DEF WritingInv
<1>3. session' = session /\ ahead' = Tail(ahead) /\ left' = left /\ stage' = stage
      /\ flow' = IF session.transport = "udp" THEN Datagram(flow, said.dir, said.len)
                 ELSE Said(flow, said.dir, said.len)
  BY DEF Exchange
<1>4. said.dir \in Directions /\ said.len \in Nat /\ Tail(ahead) \in Seq(Message)
  <2>1. said \in Message
    BY <1>1
  <2> HIDE DEF said
  <2> QED BY <1>1, <2>1 DEF Message
<1> DEFINE more == More(told, said.dir, said.len)
<1>5. more \in Bytes2 /\ more[said.dir] = told[said.dir] + said.len
      /\ \A e \in Directions : e # said.dir => more[e] = told[e]
  BY <1>4, MoreIs
<1>6. \A d \in Directions : more[d] + BytesIn(Tail(ahead), d) = Asked(session, d)
  <2> TAKE d \in Directions
  <2>1. BytesIn(Tail(ahead), d) \in Nat
        /\ BytesIn(ahead, d) = (IF said.dir = d THEN said.len ELSE 0) + BytesIn(Tail(ahead), d)
    <3>1. \A m \in Message : m.len \in Nat
      BY DEF Message
    <3> QED BY <1>1, <3>1, BytesOfRest
  <2>2. told[d] + BytesIn(ahead, d) = Asked(session, d) /\ told[d] \in Nat
    BY <1>2 DEF Bytes2
  <2> HIDE DEF said, more
  <2> QED BY <1>4, <1>5, <2>1, <2>2
<1> HIDE DEF more
<1>7. CASE session.transport = "tcp"
  <2> DEFINE g == Said(flow, said.dir, said.len)
  <2>1. GoodFlow(session, g) /\ Accounted(g, more)
    <3> HIDE DEF said
    <3> QED BY <1>1, <1>2, <1>4, <1>7, SaidIs DEF more
  <2>2. flow' = g
    BY <1>3, <1>7
  <2> HIDE DEF g, said
  <2> QED BY <1>1, <1>3, <1>4, <1>5, <1>6, <1>7, <2>1, <2>2 DEF WritingInv
<1>8. CASE session.transport = "udp"
  <2> DEFINE d == said.dir
             packet == [dir |-> d, len |-> said.len, time |-> flow.clock]
             g == Add(flow, packet)
  <2>1. flow' = g
    BY <1>3, <1>8 DEF Datagram
  <2>2. Packed(session, flow) /\ flow.sent \in [Directions -> Nat] /\ flow.clock \in Nat
    BY <1>1 DEF GoodFlow, Packed, FlowRec
  <2>3. packet \in PacketsOf(session) /\ packet.time = flow.clock /\ packet.dir = d /\ packet.len = said.len
    BY <1>4, <1>8, <2>2 DEF PacketsOf
  <2> HIDE DEF said, packet
  <2>4. CASE Full(flow)
    <3>1. g = flow
      BY <2>4 DEF Add
    <3>2. Accounted(flow, more)
      <4> SUFFICES ASSUME NEW e \in Directions PROVE flow.sent[e] <= more[e]
        BY <2>4 DEF Accounted
      <4>1. flow.sent[e] <= told[e] /\ flow.sent[e] \in Nat /\ told[e] \in Nat
        BY <1>2, <2>2 DEF Accounted, Bytes2
      <4> QED BY <1>4, <1>5, <4>1
    <3> QED BY <1>1, <1>3, <1>4, <1>5, <1>6, <1>8, <2>1, <3>1, <3>2 DEF WritingInv
  <2>5. CASE ~ Full(flow)
    <3>1. Packed(session, g) /\ g.sent = [flow.sent EXCEPT ![d] = @ + said.len]
      <4>1. Packed(session, g) /\ g.sent = [flow.sent EXCEPT ![packet.dir] = @ + packet.len]
        BY <1>1, <2>2, <2>3, <2>5, AddPacks
      <4> HIDE DEF g
      <4> QED BY <2>3, <4>1
    <3> HIDE DEF g
    <3>2. Accounted(g, more)
      <4> SUFFICES ASSUME NEW e \in Directions PROVE g.sent[e] <= more[e] /\ g.sent[e] = more[e]
        BY DEF Accounted
      <4>1. flow.sent[e] = told[e] /\ flow.sent[e] \in Nat
        BY <1>2, <2>2, <2>5 DEF Accounted
      <4>2. g.sent[e] = IF e = d THEN flow.sent[e] + said.len ELSE flow.sent[e]
        BY <1>4, <2>2, <3>1
      <4>3. more[e] = IF e = d THEN told[e] + said.len ELSE told[e]
        BY <1>5
      <4> QED BY <1>4, <4>1, <4>2, <4>3
    <3>3. GoodFlow(session, g)
      BY <1>8, <3>1 DEF GoodFlow
    <3> QED BY <1>1, <1>3, <1>4, <1>5, <1>6, <1>8, <2>1, <3>2, <3>3 DEF WritingInv
  <2> QED BY <2>4, <2>5
<1> QED BY <1>1, <1>7, <1>8

LEMMA EndExchangeWrites ==
  ASSUME WritingInv, EndExchange
  PROVE  WritingInv'
<1>1. session \in Sessions /\ GoodFlow(session, flow) /\ ahead = <<>> /\ left \in Bytes2 /\ stage = "exchange"
      /\ session.transport \in {"tcp", "udp"} /\ ahead \in Seq(Message)
  BY SessionFacts DEF WritingInv, EndExchange
<1>2. PICK told \in Bytes2 : Accounted(flow, told) /\ \A d \in Directions : told[d] + BytesIn(ahead, d) = Asked(session, d)
  BY <1>1 DEF WritingInv
<1>3. session' = session /\ ahead' = ahead /\ flow' = flow
  BY DEF EndExchange
<1>4. ASSUME NEW d \in Directions
      PROVE  /\ flow.sent[d] \in Nat /\ flow.sent[d] <= Asked(session, d)
             /\ Full(flow) \/ flow.sent[d] = Asked(session, d)
  <2>1. told[d] = Asked(session, d)
    <3>1. BytesIn(ahead, d) = 0 /\ told[d] \in Nat
      BY <1>1, NoBytes DEF Bytes2
    <3> QED BY <1>2, <3>1
  <2>2. flow.sent[d] \in Nat
    BY <1>1 DEF GoodFlow, Packed, FlowRec
  <2> QED BY <1>2, <2>1, <2>2 DEF Accounted
<1>5. CASE session.transport = "udp"
  <2>1. stage' = "written" /\ left' = left
    BY <1>5 DEF EndExchange
  <2>2. \A d \in Directions : flow.sent[d] <= Goal(session, d) /\ (Full(flow) \/ flow.sent[d] = Goal(session, d))
    BY <1>1, <1>4, <1>5, GoalIs
  <2> QED BY <1>1, <1>3, <1>5, <2>1, <2>2 DEF WritingInv
<1>6. CASE session.transport = "tcp"
  <2>1. stage' = "fill" /\ left' = Unsaid(flow, session)
    BY <1>6 DEF EndExchange
  <2> DEFINE rest == Unsaid(flow, session)
             exchanged == [d \in Directions |-> Goal(session, d) - rest[d]]
  <2>2. ASSUME NEW d \in Directions
        PROVE  /\ rest[d] \in Nat /\ exchanged[d] \in Nat /\ exchanged[d] + rest[d] = Goal(session, d)
               /\ flow.sent[d] <= exchanged[d] /\ (Full(flow) \/ flow.sent[d] = exchanged[d])
    <3> DEFINE s == flow.sent[d]
               a == Asked(session, d)
               b == Listed(session, d)
               goal == Goal(session, d)
    <3>1. s \in Nat /\ a \in Nat /\ b \in Nat /\ s <= a /\ (Full(flow) \/ s = a)
          /\ goal = (IF a >= b THEN a ELSE b)
      BY <1>1, <1>4, <1>6, GoalIs
    <3>2. rest[d] = Max({0, b - s})
      BY DEF Unsaid, Listed
    <3>3. exchanged[d] = goal - rest[d]
      OBVIOUS
    <3> HIDE DEF s, a, b, goal, exchanged, rest
    <3>4. Max({0, b - s}) = IF 0 >= b - s THEN 0 ELSE b - s
      <4>1. 0 \in Int /\ b - s \in Int
        BY <3>1
      <4> QED BY <4>1, GreaterIs
    <3>5. rest[d] \in Nat /\ exchanged[d] \in Nat /\ exchanged[d] + rest[d] = goal /\ s <= exchanged[d] /\ (Full(flow) \/ s = exchanged[d])
      BY <3>1, <3>2, <3>3, <3>4
    <3> QED BY <3>5 DEF s, goal
  <2>3. rest \in Bytes2
    <3>1. rest = [d \in Directions |-> rest[d]]
      BY DEF Unsaid
    <3> HIDE DEF rest, exchanged
    <3> QED BY <2>2, <3>1 DEF Bytes2
  <2>4. exchanged \in Bytes2
    <3>1. exchanged = [d \in Directions |-> exchanged[d]]
      OBVIOUS
    <3> HIDE DEF rest, exchanged
    <3> QED BY <2>2, <3>1 DEF Bytes2
  <2> HIDE DEF rest, exchanged
  <2>5. Accounted(flow, exchanged) /\ \A d \in Directions : exchanged[d] + rest[d] = Goal(session, d)
    BY <2>2 DEF Accounted
  <2>6. left' = rest
    BY <2>1 DEF rest
  <2> QED BY <1>1, <1>3, <1>6, <2>1, <2>3, <2>4, <2>5, <2>6 DEF WritingInv
<1> QED BY <1>1, <1>5, <1>6

LEMMA FillOneWrites ==
  ASSUME WritingInv, FillOne
  PROVE  WritingInv'
<1>1. session \in Sessions /\ GoodFlow(session, flow) /\ ahead \in Seq(Message) /\ left \in Bytes2
      /\ session.transport = "tcp" /\ stage = "fill" /\ (left[UP] > 0 \/ left[DOWN] > 0)
  BY DEF WritingInv, FillOne
<1>2. PICK told \in Bytes2 : Accounted(flow, told) /\ \A d \in Directions : told[d] + left[d] = Goal(session, d)
  BY <1>1 DEF WritingInv
<1> DEFINE d == Heavier
           size == Min({Mss, left[d]})
           flags == {"PSH", "ACK"}
           g == Pair(flow, d, flags, size)
<1>3. session' = session /\ ahead' = ahead /\ stage' = stage /\ flow' = g
      /\ left' = [left EXCEPT ![d] = @ - size]
  BY DEF FillOne, Pair
<1>4. d \in Directions
  BY SidesAre DEF Heavier
<1> HIDE DEF d
<1>5. left[d] \in Nat
  BY <1>1, <1>4 DEF Bytes2
<1>6. size \in Nat /\ size <= left[d]
  <2>1. Min({Mss, left[d]}) = IF Mss <= left[d] THEN Mss ELSE left[d]
    BY <1>5, WriterFacts, LesserIs
  <2> QED BY <1>5, <2>1, WriterFacts
<1> HIDE DEF size
<1>7. flags \in SUBSET Flags /\ ~ ({"SYN", "FIN"} \subseteq flags)
  BY FlagsAre
<1> HIDE DEF flags
<1>8. GoodFlow(session, g) /\ Accounted(g, More(told, d, size))
  BY <1>1, <1>2, <1>4, <1>6, <1>7, PairSays
<1> HIDE DEF g
<1> DEFINE more == More(told, d, size)
           rest == [left EXCEPT ![d] = @ - size]
<1>9. more \in Bytes2 /\ more[d] = told[d] + size /\ \A e \in Directions : e # d => more[e] = told[e]
  BY <1>4, <1>6, MoreIs
<1>10. rest \in Bytes2 /\ rest[d] = left[d] - size /\ \A e \in Directions : e # d => rest[e] = left[e]
  <2>1. left \in [Directions -> Nat] /\ left[d] - size \in Nat
    BY <1>1, <1>5, <1>6 DEF Bytes2
  <2> QED BY <1>4, <2>1 DEF Bytes2
<1> HIDE DEF more, rest
<1>11. \A e \in Directions : more[e] + rest[e] = Goal(session, e)
  <2> TAKE e \in Directions
  <2>1. told[e] + left[e] = Goal(session, e) /\ told[e] \in Nat /\ left[e] \in Nat
    BY <1>1, <1>2 DEF Bytes2
  <2> QED BY <1>6, <1>9, <1>10, <2>1
<1>12. left' = rest /\ Accounted(g, more)
  BY <1>3, <1>8 DEF rest, more
<1>13. stage' = "fill" /\ session' = session /\ ahead' = ahead /\ flow' = g
  BY <1>1, <1>3
<1>14. GoodFlow(session, g)
  BY <1>8
<1> QED BY <1>1, <1>9, <1>10, <1>11, <1>12, <1>13, <1>14 DEF WritingInv

LEMMA FinishWrites ==
  ASSUME WritingInv, Finish
  PROVE  WritingInv'
<1>1. session \in Sessions /\ session.transport = "tcp" /\ GoodFlow(session, flow)
      /\ ahead \in Seq(Message) /\ left \in Bytes2
  BY DEF WritingInv, Finish
<1>2. PICK told \in Bytes2 : Accounted(flow, told) /\ \A d \in Directions : told[d] + left[d] = Goal(session, d)
  BY DEF WritingInv, Finish
<1> DEFINE fin == {"FIN", "ACK"}
           ack == {"ACK"}
           a == Segment(flow, UP, fin, 0)
           b == Segment(a, DOWN, fin, 0)
           c == Segment(b, UP, ack, 0)
<1>3. flow' = c /\ session' = session /\ ahead' = ahead /\ left' = left /\ stage' = "written"
      /\ (Full(flow) \/ (left[UP] = 0 /\ left[DOWN] = 0))
  BY DEF Finish
<1>0. /\ fin \in SUBSET Flags /\ ~ ({"SYN", "FIN"} \subseteq fin) /\ "FIN" \in fin /\ "ACK" \in fin
      /\ ack \in SUBSET Flags /\ ~ ({"SYN", "FIN"} \subseteq ack) /\ "ACK" \in ack
      /\ UP \in Directions /\ DOWN \in Directions /\ 0 \in Nat
  BY FlagsAre, SidesAre
<1> HIDE DEF fin, ack
<1>4. GoodFlow(session, a) /\ Accounted(a, told) /\ (Full(flow) => a = flow)
      /\ (~ Full(flow) => Goes(flow, UP, fin, 0))
  BY <1>0, <1>1, <1>2, EmptySegment, SegmentIs
<1>5. GoodFlow(session, b) /\ Accounted(b, told) /\ (Full(a) => b = a) /\ (~ Full(a) => Goes(a, DOWN, fin, 0))
  <2> HIDE DEF a
  <2> QED BY <1>0, <1>1, <1>2, <1>4, EmptySegment, SegmentIs
<1>6. GoodFlow(session, c) /\ Accounted(c, told) /\ (Full(b) => c = b) /\ (~ Full(b) => Goes(b, UP, ack, 0))
  <2> HIDE DEF a, b
  <2> QED BY <1>0, <1>1, <1>2, <1>5, EmptySegment, SegmentIs
<1>7. ASSUME ~ Full(c) PROVE ~ Full(b) /\ ~ Full(a) /\ ~ Full(flow)
  <2> HIDE DEF a, b, c
  <2> QED BY <1>4, <1>5, <1>6, <1>7
<1>8. ASSUME NEW d \in Directions
      PROVE  c.sent[d] <= Goal(session, d) /\ (Full(c) \/ c.sent[d] = Goal(session, d))
  <2> HIDE DEF a, b, c
  <2>1. c.sent[d] \in Nat /\ told[d] \in Nat /\ left[d] \in Nat
    BY <1>1, <1>6 DEF GoodFlow, Packed, FlowRec, Bytes2
  <2>2. c.sent[d] <= told[d] /\ (Full(c) \/ c.sent[d] = told[d])
    BY <1>6 DEF Accounted
  <2>3. ~ Full(c) => left[d] = 0
    BY <1>3, <1>7 DEF Directions
  <2>4. told[d] + left[d] = Goal(session, d)
    BY <1>2
  <2> QED BY <2>1, <2>2, <2>3, <2>4
<1>9. ASSUME ~ Full(c), NEW d \in Directions PROVE Closed(c.packets, d)
  <2> DEFINE n == Len(flow.packets)
             p == SegmentOf(flow, UP, fin, 0)
             q == SegmentOf(a, DOWN, fin, 0)
             r == SegmentOf(b, UP, ack, 0)
  <2>1. Goes(flow, UP, fin, 0) /\ Goes(a, DOWN, fin, 0) /\ Goes(b, UP, ack, 0)
    <3> HIDE DEF a, b, c
    <3> QED BY <1>4, <1>5, <1>6, <1>7, <1>9
  <2>2. a.packets = Append(flow.packets, p) /\ b.packets = Append(a.packets, q) /\ c.packets = Append(b.packets, r)
    BY <2>1 DEF Goes
  <2>3. a.next[UP] = (flow.next[UP] + 1) % SeqSpan /\ b.next[DOWN] = (a.next[DOWN] + 1) % SeqSpan
    <3>1. fin \cap {"SYN", "FIN"} # {}
      BY <1>0
    <3>2. 0 + (IF fin \cap {"SYN", "FIN"} # {} THEN 1 ELSE 0) = 1
      BY <3>1
    <3>3. a.next = [flow.next EXCEPT ![UP] = (@ + (0 + (IF fin \cap {"SYN", "FIN"} # {} THEN 1 ELSE 0))) % SeqSpan]
      BY <2>1 DEF Goes
    <3>4. b.next = [a.next EXCEPT ![DOWN] = (@ + (0 + (IF fin \cap {"SYN", "FIN"} # {} THEN 1 ELSE 0))) % SeqSpan]
      BY <2>1 DEF Goes
    <3> HIDE DEF a, b
    <3>5. flow.next \in [Directions -> Nat] /\ a.next \in [Directions -> Nat]
      BY <1>1, <1>4 DEF GoodFlow, Packed, FlowRec
    <3>6. a.next = [flow.next EXCEPT ![UP] = (@ + 1) % SeqSpan] /\ b.next = [a.next EXCEPT ![DOWN] = (@ + 1) % SeqSpan]
      BY <3>2, <3>3, <3>4
    <3> QED BY <1>0, <3>5, <3>6
  <2>4. /\ p.dir = UP /\ p.flags = fin /\ p.seq = flow.next[UP]
        /\ q.dir = DOWN /\ q.flags = fin /\ q.seq = a.next[DOWN] /\ q.ack = a.next[UP]
        /\ r.dir = UP /\ r.ack = b.next[DOWN]
    <3> HIDE DEF a, b
    <3>1. Other(UP) = DOWN /\ Other(DOWN) = UP
      BY DEF Other, UP, DOWN
    <3> QED BY <1>0, <3>1 DEF SegmentOf
  <2>5. flow.packets \in Seq(PacketsOf(session)) /\ a.packets \in Seq(PacketsOf(session))
        /\ b.packets \in Seq(PacketsOf(session)) /\ n \in Nat
    <3> HIDE DEF a, b, c
    <3> QED BY <1>1, <1>4, <1>5 DEF GoodFlow, Packed, FlowRec
  <2> HIDE DEF p, q, r, a, b, c
  <2>6. Len(a.packets) = n + 1 /\ a.packets[n + 1] = p
    BY <2>2, <2>5
  <2>7. Len(b.packets) = n + 2 /\ b.packets[n + 1] = p /\ b.packets[n + 2] = q
    <3>1. Len(b.packets) = Len(a.packets) + 1 /\ b.packets[Len(a.packets) + 1] = q
          /\ \A j \in 1..Len(a.packets) : b.packets[j] = a.packets[j]
      BY <2>2, <2>5
    <3>2. n + 1 \in 1..n + 1 /\ (n + 1) + 1 = n + 2
      BY <2>5
    <3> HIDE DEF n
    <3> QED BY <2>6, <3>1, <3>2
  <2>8. Len(c.packets) = n + 3 /\ c.packets[n + 1] = p /\ c.packets[n + 2] = q /\ c.packets[n + 3] = r
    <3>1. Len(c.packets) = Len(b.packets) + 1 /\ c.packets[Len(b.packets) + 1] = r
          /\ \A j \in 1..Len(b.packets) : c.packets[j] = b.packets[j]
      BY <2>2, <2>5
    <3>2. n + 1 \in 1..n + 2 /\ n + 2 \in 1..n + 2 /\ (n + 2) + 1 = n + 3
      BY <2>5
    <3> HIDE DEF n
    <3> QED BY <2>7, <3>1, <3>2
  <2>9. /\ n + 1 \in 1..n + 3 /\ n + 2 \in 1..n + 3 /\ n + 2 \in (n + 1) + 1..n + 3 /\ n + 3 \in (n + 2) + 1..n + 3
    BY <2>5
  <2>10. Other(UP) = DOWN /\ Other(DOWN) = UP /\ (d = UP \/ d = DOWN)
    BY DEF Other, UP, DOWN, Directions
  <2> DEFINE i == n + 1
             j == n + 2
             k == n + 3
  <2>11. /\ Len(c.packets) = k /\ c.packets[i] = p /\ c.packets[j] = q /\ c.packets[k] = r
         /\ i \in 1..k /\ j \in 1..k /\ j \in i + 1..k /\ k \in j + 1..k
    BY <2>8, <2>9
  <2> HIDE DEF i, j, k, n
  <2>12. CASE d = UP
    <3>1. /\ c.packets[i].dir = d /\ "FIN" \in c.packets[i].flags
          /\ c.packets[j].dir = Other(d) /\ c.packets[j].ack = (c.packets[i].seq + 1) % SeqSpan
      BY <1>0, <2>3, <2>4, <2>10, <2>11, <2>12
    <3> QED BY <2>11, <3>1 DEF Closed
  <2>13. CASE d = DOWN
    <3>1. /\ c.packets[j].dir = d /\ "FIN" \in c.packets[j].flags
          /\ c.packets[k].dir = Other(d) /\ c.packets[k].ack = (c.packets[j].seq + 1) % SeqSpan
      BY <1>0, <2>3, <2>4, <2>10, <2>11, <2>13
    <3> QED BY <2>11, <3>1 DEF Closed
  <2> QED BY <2>10, <2>12, <2>13
<1> HIDE DEF a, b, c
<1> QED BY <1>1, <1>3, <1>6, <1>8, <1>9 DEF WritingInv

LEMMA WritingStep == WritingInv /\ [PcapNext]_pvars => WritingInv'
<1> SUFFICES ASSUME WritingInv, [PcapNext]_pvars PROVE WritingInv'
  OBVIOUS
<1>1. CASE Handshake
  BY <1>1, HandshakeWrites
<1>2. CASE Exchange
  BY <1>2, ExchangeWrites
<1>3. CASE EndExchange
  BY <1>3, EndExchangeWrites
<1>4. CASE FillOne
  BY <1>4, FillOneWrites
<1>5. CASE Finish
  BY <1>5, FinishWrites
<1>6. CASE UNCHANGED pvars
  <2>1. session' = session /\ stage' = stage /\ ahead' = ahead /\ flow' = flow /\ left' = left
    BY <1>6 DEF pvars
  <2> QED BY <2>1 DEF WritingInv
<1> QED BY <1>1, <1>2, <1>3, <1>4, <1>5, <1>6 DEF PcapNext

LEMMA WritingIsAsListed == WritingInv => PacketsAsListed
<1> SUFFICES ASSUME WritingInv PROVE PacketsAsListed
  OBVIOUS
<1> DEFINE n == Len(flow.packets)
           step == StepOf(session)
           base == session.start * 1000
<1>1. session \in Sessions /\ GoodFlow(session, flow) /\ Packed(session, flow) /\ session.transport \in {"tcp", "udp"}
      /\ session.start \in Nat
  BY SessionFacts DEF WritingInv, GoodFlow
<1>2. n \in Nat /\ DOMAIN flow.packets = 1..n /\ n <= MaxPackets
  <2>1. flow.packets \in Seq(PacketsOf(session)) /\ n <= MaxPackets
    BY <1>1 DEF Packed, FlowRec
  <2> QED BY <2>1
<1>3. StreamsReassemble
  <2>1. session.transport = "tcp" => Reassembles(session, flow.packets)
    BY <1>1 DEF GoodFlow, Numbered
  <2> HIDE DEF n
  <2>2. Len(flow.packets) = n
    BY DEF n
  <2> QED BY <1>2, <2>1, <2>2 DEF StreamsReassemble, Reassembles
<1>4. BytesAsListed
  <2> SUFFICES ASSUME stage = "written" PROVE BytesAsListed
    BY DEF BytesAsListed
  <2>1. ASSUME NEW d \in Directions
        PROVE  /\ BytesIn(flow.packets, d) <= Goal(session, d)
               /\ Full(flow) \/ BytesIn(flow.packets, d) = Goal(session, d)
    <3>1. flow.sent[d] = BytesIn(flow.packets, d)
      BY <1>1 DEF Packed
    <3> QED BY <3>1 DEF WritingInv
  <2>2. session.transport = "tcp" /\ ~ Full(flow) => \A d \in Directions : Closed(flow.packets, d)
    BY DEF WritingInv
  <2> HIDE DEF n
  <2>3. Len(flow.packets) = n
    BY DEF n
  <2>4. \A d \in Directions :
          Goal(session, d) = IF session.transport = "udp" THEN BytesIn(session.exchange, d)
                             ELSE Max({BytesIn(session.exchange, d), IF d = UP THEN session.up ELSE session.down})
    BY DEF Goal, Asked, Listed
  <2>5. session.transport = "tcp" /\ ~ Full(flow) =>
              \A d \in Directions : \E i \in DOMAIN flow.packets :
                  /\ flow.packets[i].dir = d /\ "FIN" \in flow.packets[i].flags
                  /\ \E k \in i + 1 .. Len(flow.packets) :
                         /\ flow.packets[k].dir = Other(d)
                         /\ flow.packets[k].ack = (flow.packets[i].seq + 1) % SeqSpan
    BY <1>2, <2>2, <2>3 DEF Closed
  <2> QED BY <2>1, <2>4, <2>5 DEF BytesAsListed
<1>5. PacketsFitTheSession
  <2>1. step \in Nat /\ step >= 1
    BY <1>1, StepIs
  <2>2. base \in Nat
    BY <1>1
  <2>3. \A k \in 1..n : flow.packets[k].time = base + (k - 1) * step
    BY <1>1 DEF Packed
  <2>4. \A k \in 1..MaxPackets : base + (k - 1) * step < Max({session.end, session.start + 1}) * 1000
    BY <1>1, StepsFit
  <2> HIDE DEF step, base, n
  <2>5. ASSUME NEW k \in 1..n
        PROVE  /\ k > 1 => flow.packets[k - 1].time < flow.packets[k].time
               /\ base <= flow.packets[k].time
               /\ flow.packets[k].time < Max({session.end, session.start + 1}) * 1000
    <3>1. (k - 1) * step \in Nat
      <4>1. k - 1 \in Nat
        BY <1>2
      <4> QED BY <2>1, <4>1
    <3>2. ASSUME k > 1 PROVE flow.packets[k - 1].time < flow.packets[k].time
      <4>1. k - 1 \in 1..n /\ (k - 1) - 1 \in Nat
        BY <1>2, <3>2
      <4>2. (k - 1) * step = ((k - 1) - 1) * step + step /\ ((k - 1) - 1) * step \in Nat
        BY <2>1, <4>1
      <4>3. flow.packets[k - 1].time = base + ((k - 1) - 1) * step /\ flow.packets[k].time = base + (k - 1) * step
        BY <2>3, <4>1
      <4> DEFINE x == ((k - 1) - 1) * step
                 y == (k - 1) * step
      <4>4. x \in Nat /\ y = x + step /\ flow.packets[k - 1].time = base + x /\ flow.packets[k].time = base + y
        BY <4>2, <4>3
      <4> HIDE DEF x, y
      <4> QED BY <2>1, <2>2, <4>4
    <3>3. k \in 1..MaxPackets
      BY <1>2, WriterFacts
    <3>4. base <= base + (k - 1) * step
      BY <2>2, <3>1
    <3> QED BY <2>3, <2>4, <3>2, <3>3, <3>4
  <2>6. Len(flow.packets) = n /\ session.start * 1000 = base
    BY DEF n, base
  <2> DEFINE end == Max({session.end, session.start + 1}) * 1000
  <2> HIDE DEF end
  <2>7. ASSUME NEW k \in DOMAIN flow.packets
        PROVE  /\ k > 1 => flow.packets[k - 1].time < flow.packets[k].time
               /\ session.start * 1000 <= flow.packets[k].time
               /\ flow.packets[k].time < end
    <3>1. k \in 1..n
      BY <1>2
    <3>2. k > 1 => flow.packets[k - 1].time < flow.packets[k].time
      BY <2>5, <3>1
    <3>3. base <= flow.packets[k].time
      BY <2>5, <3>1
    <3>4. flow.packets[k].time < end
      BY <2>5, <3>1 DEF end
    <3>5. session.start * 1000 <= flow.packets[k].time
      <4> DEFINE time == flow.packets[k].time
      <4> HIDE DEF time
      <4>1. base <= time
        BY <3>3 DEF time
      <4> QED BY <2>6, <4>1, Zenon DEF time
    <3> QED BY <3>2, <3>4, <3>5, Zenon
  <2>8. Len(flow.packets) <= MaxPackets
    BY <1>2, <2>6
  <2> QED BY <2>7, <2>8 DEF PacketsFitTheSession, end
<1> QED BY <1>3, <1>4, <1>5 DEF PacketsAsListed

\* The packets of a session (build_pcap) can be put together again, carry what
\* its row lists as far as they are kept, and fit its time, whatever its
\* protocols say to each other, for every limit of packets and of a segment, and
\* also where the numbers wrap around.
THEOREM PacketsAreAsListed == PcapSpec => []PacketsAsListed
<1>1. PcapInit => WritingInv
  BY WritingStarts
<1>2. WritingInv /\ [PcapNext]_pvars => WritingInv'
  BY WritingStep
<1>3. WritingInv => PacketsAsListed
  BY WritingIsAsListed
<1> QED BY <1>1, <1>2, <1>3, PTL DEF PcapSpec

-----------------------------------------------------------------------------
(* The capture: the schedule of beacons is one, however far it is drawn.   *)

ScheduleRec == [times : Seq(Int), firing : SUBSET Int, lastFire : Int]

AddNext(s) ==
  AddBeacon(s, IF s.times = <<>> THEN BeaconStart ELSE Last(s.times) + Gap(Len(s.times)))

GoesOn(S) == NoBeacons \in S /\ \A s \in S : AddNext(s) \in S

\* The schedules that come up when beacons are added one by one.
Drawn == {s \in ScheduleRec : \A S \in SUBSET ScheduleRec : GoesOn(S) => s \in S}

\* What is assumed of the constants of time and of ids.
LEMMA CaptureFacts ==
  /\ HourTime \in Nat \ {0} /\ MinuteTime \in Nat \ {0} /\ MinuteSpan \in Nat \ {0} /\ OrdinalSpan \in Nat \ {0}
  /\ BeaconStart \in Nat /\ DedupeTime \in Nat /\ FiresFrom \in Nat /\ FirstImportIndex \in Nat
  /\ DataStart \in Nat /\ Epoch \in Nat /\ MaxNow \in Nat
  /\ BeaconGap \in Seq(Nat \ {0}) /\ BeaconGap # <<>>
BY CaptureAssumption DEF CaptureAssumption

\* The least of a set of numbers.
LEMMA LeastIs ==
  ASSUME NEW S \in SUBSET Nat, S # {}
  PROVE  Min(S) \in S /\ \A x \in S : Min(S) <= x
<1>1. \E m \in S : \A x \in S : m <= x
  BY LeastExists
<1> QED BY <1>1 DEF Min

\* The shortest gap there is.
ShortestGap == Min(ToSet(BeaconGap))

LEMMA ShortestGapIs ==
  /\ ShortestGap \in Nat \ {0}
  /\ \A gap \in ToSet(BeaconGap) : ShortestGap <= gap
<1>1. BeaconGap \in Seq(Nat \ {0}) /\ Len(BeaconGap) \in Nat \ {0}
  BY CaptureFacts, EmptySeq
<1>2. ToSet(BeaconGap) \in SUBSET Nat /\ 0 \notin ToSet(BeaconGap)
  BY <1>1 DEF ToSet
<1>3. BeaconGap[1] \in ToSet(BeaconGap)
  BY <1>1 DEF ToSet
<1> QED BY <1>2, <1>3, LeastIs DEF ShortestGap

\* A gap between beacons is one of those drawn.
LEMMA GapIs ==
  ASSUME NEW n \in Nat \ {0}
  PROVE  Gap(n) \in ToSet(BeaconGap) /\ Gap(n) \in Nat \ {0}
<1> DEFINE L == Len(BeaconGap)
           i == ((n - 1) % L) + 1
<1>1. BeaconGap \in Seq(Nat \ {0}) /\ L \in Nat \ {0}
  BY CaptureFacts, EmptySeq
<1>2. (n - 1) % L \in 0..L - 1
  <2>1. n - 1 \in Nat
    OBVIOUS
  <2> HIDE DEF L
  <2> QED BY <1>1, <2>1
<1>3. i \in 1..L
  <2> HIDE DEF L
  <2> QED BY <1>1, <1>2
<1>4. BeaconGap[i] \in Nat \ {0} /\ i \in DOMAIN BeaconGap
  <2> HIDE DEF i
  <2> QED BY <1>1, <1>3
<1> QED BY <1>4 DEF Gap, ToSet

\* A beacon is added at the end.
LEMMA AddBeaconIs ==
  ASSUME NEW s \in ScheduleRec, NEW t \in Int
  PROVE  LET r == AddBeacon(s, t) IN
         /\ r \in ScheduleRec
         /\ r.times = Append(s.times, t)
         /\ \A i \in 1..Len(s.times) : i \in r.firing <=> i \in s.firing
<1> DEFINE n == Len(s.times)
           c == ConsiderFire(s, t)
<1>1. s.times \in Seq(Int) /\ s.firing \in SUBSET Int /\ s.lastFire \in Int /\ n \in Nat
  BY DEF ScheduleRec
<1>2. c = s \/ c = [s EXCEPT !.lastFire = t, !.firing = s.firing \cup {n + 1}]
  BY DEF ConsiderFire
<1>3. c \in ScheduleRec /\ c.times = s.times /\ \A i \in 1..n : i \in c.firing <=> i \in s.firing
  <2>1. CASE c = s
    BY <2>1
  <2>2. CASE c = [s EXCEPT !.lastFire = t, !.firing = s.firing \cup {n + 1}]
    <3>1. n + 1 \in Int /\ \A i \in 1..n : i # n + 1
      BY <1>1
    <3> HIDE DEF n, c
    <3>2. c \in ScheduleRec /\ c.times = s.times /\ c.firing = s.firing \cup {n + 1}
      BY <1>1, <2>2, <3>1 DEF ScheduleRec
    <3> QED BY <3>1, <3>2
  <2> QED BY <1>2, <2>1, <2>2
<1>4. AddBeacon(s, t) = [c EXCEPT !.times = Append(c.times, t)]
  BY DEF AddBeacon
<1>5. Append(c.times, t) \in Seq(Int)
  BY <1>1, <1>3
<1> HIDE DEF c, n
<1> QED BY <1>3, <1>4, <1>5 DEF ScheduleRec, n

\* The next beacon is later than the last.
LEMMA AddNextIs ==
  ASSUME NEW s \in ScheduleRec
  PROVE  LET r == AddNext(s)
             n == Len(s.times)
         IN  /\ r \in ScheduleRec
             /\ Len(r.times) = n + 1
             /\ \A i \in 1..n : r.times[i] = s.times[i] /\ (i \in r.firing <=> i \in s.firing)
             /\ n = 0 => r.times[n + 1] = BeaconStart
             /\ n # 0 => r.times[n + 1] = s.times[n] + Gap(n)
<1> DEFINE n == Len(s.times)
           t == IF s.times = <<>> THEN BeaconStart ELSE Last(s.times) + Gap(Len(s.times))
           r == AddNext(s)
<1>1. s.times \in Seq(Int) /\ n \in Nat /\ (s.times = <<>> <=> n = 0)
  <2>1. s.times \in Seq(Int)
    BY DEF ScheduleRec
  <2> QED BY <2>1, EmptySeq
<1>2. n = 0 => t = BeaconStart
  BY <1>1
<1>3. n # 0 => t = s.times[n] + Gap(n) /\ s.times[n] \in Int /\ Gap(n) \in Nat
  BY <1>1, GapIs DEF Last
<1>4. t \in Int
  <2> HIDE DEF n, t
  <2> QED BY <1>2, <1>3, CaptureFacts
<1>5. r = AddBeacon(s, t)
  BY DEF AddNext
<1> HIDE DEF t, r
<1>6. /\ r \in ScheduleRec /\ r.times = Append(s.times, t)
      /\ \A i \in 1..n : i \in r.firing <=> i \in s.firing
  BY <1>4, <1>5, AddBeaconIs
<1>7. Len(r.times) = n + 1 /\ r.times[n + 1] = t /\ \A i \in 1..n : r.times[i] = s.times[i]
  BY <1>1, <1>4, <1>6
<1> QED BY <1>2, <1>3, <1>6, <1>7 DEF r, n

\* The schedules begin with none and go on.
LEMMA DrawnGrows ==
  /\ NoBeacons \in Drawn /\ Drawn \subseteq ScheduleRec
  /\ \A s \in Drawn : AddNext(s) \in Drawn
<1>1. NoBeacons \in ScheduleRec
  BY EmptySeq DEF NoBeacons, ScheduleRec
<1>2. NoBeacons \in Drawn
  BY <1>1 DEF Drawn, GoesOn
<1>3. ASSUME NEW s \in Drawn PROVE AddNext(s) \in Drawn
  <2>1. s \in ScheduleRec
    BY DEF Drawn
  <2>2. AddNext(s) \in ScheduleRec
    BY <2>1, AddNextIs
  <2>3. ASSUME NEW S \in SUBSET ScheduleRec, GoesOn(S) PROVE AddNext(s) \in S
    <3>1. s \in S
      BY <2>3 DEF Drawn
    <3> QED BY <2>3, <3>1 DEF GoesOn
  <2> QED BY <2>2, <2>3 DEF Drawn
<1> QED BY <1>2, <1>3 DEF Drawn

\* What holds of no beacons, and goes on, holds of every schedule.
LEMMA DrawnInduction ==
  ASSUME NEW P \in SUBSET ScheduleRec, NoBeacons \in P,
         \A s \in Drawn \cap P : AddNext(s) \in P
  PROVE  Drawn \subseteq P
<1> DEFINE S == Drawn \cap P
<1>1. GoesOn(S)
  BY DrawnGrows DEF GoesOn
<1>2. S \in SUBSET ScheduleRec
  OBVIOUS
<1> HIDE DEF S
<1>3. Drawn \subseteq S
  BY <1>1, <1>2 DEF Drawn
<1> QED BY <1>3 DEF S

\* Beacons come one after the other, the first at its time.
LEMMA DrawnFacts ==
  ASSUME NEW s \in Drawn
  PROVE  /\ s \in ScheduleRec
         /\ \A i \in 1..Len(s.times) : s.times[i] >= BeaconStart
         /\ \A i, j \in 1..Len(s.times) :
               i < j => s.times[i] < s.times[j] /\ s.times[i] + ShortestGap <= s.times[j]
<1> DEFINE InTime(r) == /\ \A i \in 1..Len(r.times) : r.times[i] >= BeaconStart
                        /\ \A i, j \in 1..Len(r.times) : i < j => r.times[i] + ShortestGap <= r.times[j]
           P == {r \in ScheduleRec : InTime(r)}
<1>1. NoBeacons \in P
  <2>1. Len(NoBeacons.times) = 0 /\ NoBeacons \in ScheduleRec
    BY EmptySeq, DrawnGrows DEF NoBeacons
  <2>2. 1..0 = {}
    OBVIOUS
  <2> QED BY <2>1, <2>2
<1>2. ASSUME NEW r \in Drawn \cap P PROVE AddNext(r) \in P
  <2> DEFINE n == Len(r.times)
             a == r.times
             q == AddNext(r)
             b == q.times
  <2>1. r \in ScheduleRec /\ InTime(r)
    OBVIOUS
  <2>2. a \in Seq(Int) /\ n \in Nat
    BY <2>1 DEF ScheduleRec
  <2>3. q \in ScheduleRec /\ Len(b) = n + 1 /\ (\A i \in 1..n : b[i] = a[i])
        /\ (n = 0 => b[n + 1] = BeaconStart) /\ (n # 0 => b[n + 1] = a[n] + Gap(n))
    BY <2>1, AddNextIs
  <2>4. n # 0 => Gap(n) \in Nat \ {0} /\ ShortestGap <= Gap(n) /\ ShortestGap \in Nat
    BY <2>2, GapIs, ShortestGapIs
  <2>5. /\ \A i \in 1..n : a[i] \in Int /\ a[i] >= BeaconStart
        /\ \A i, j \in 1..n : i < j => a[i] + ShortestGap <= a[j]
    BY <2>1, <2>2
  <2> HIDE DEF n, a, b
  <2>6. b[n + 1] \in Int /\ b[n + 1] >= BeaconStart /\ \A i \in 1..n : a[i] + ShortestGap <= b[n + 1]
    <3>1. CASE n = 0
      BY <2>3, <3>1, CaptureFacts
    <3>2. CASE n # 0
      <4>1. n \in 1..n
        BY <2>2, <3>2
      <4>2. b[n + 1] \in Int /\ a[n] + ShortestGap <= b[n + 1] /\ a[n] \in Int /\ a[n] <= b[n + 1]
        BY <2>3, <2>4, <2>5, <3>2, <4>1
      <4>3. \A i \in 1..n : a[i] <= a[n]
        BY <2>2, <2>5, <4>1, ShortestGapIs
      <4> QED BY <2>5, <4>1, <4>2, <4>3, CaptureFacts, ShortestGapIs
    <3> QED BY <3>1, <3>2
  <2>7. \A i \in 1..n + 1 : b[i] >= BeaconStart
    <3> TAKE i \in 1..n + 1
    <3>1. i = n + 1 \/ i \in 1..n
      BY <2>2
    <3> QED BY <2>3, <2>5, <2>6, <3>1
  <2>8. \A i, j \in 1..n + 1 : i < j => b[i] + ShortestGap <= b[j]
    <3> TAKE i, j \in 1..n + 1
    <3> HAVE i < j
    <3>1. i \in 1..n /\ (j = n + 1 \/ j \in 1..n)
      BY <2>2
    <3> QED BY <2>3, <2>5, <2>6, <3>1
  <2>9. InTime(q)
    BY <2>3, <2>7, <2>8 DEF b
  <2> QED BY <2>3, <2>9
<1>3. P \in SUBSET ScheduleRec
  OBVIOUS
<1>4. Drawn \subseteq P
  <2> HIDE DEF P
  <2> QED BY <1>1, <1>2, <1>3, DrawnInduction
<1>5. s \in P /\ s.times \in Seq(Int)
  BY <1>4 DEF ScheduleRec
<1> QED BY <1>5, ShortestGapIs

\* One schedule is the beginning of another.
Begins(r, s) ==
  /\ Len(r.times) <= Len(s.times)
  /\ \A i \in 1..Len(r.times) : r.times[i] = s.times[i] /\ (i \in r.firing <=> i \in s.firing)

\* A schedule has one before it.
LEMMA DrawnOneByOne ==
  ASSUME NEW s \in Drawn
  PROVE  s = NoBeacons \/ \E r \in Drawn : s = AddNext(r)
<1> DEFINE P == {s2 \in Drawn : s2 = NoBeacons \/ \E r \in Drawn : s2 = AddNext(r)}
<1>1. P \in SUBSET ScheduleRec /\ NoBeacons \in P /\ \A s2 \in Drawn \cap P : AddNext(s2) \in P
  BY DrawnGrows
<1> HIDE DEF P
<1>2. s \in P
  BY <1>1, DrawnInduction
<1> QED BY <1>2 DEF P

\* Of two schedules, the shorter is how the longer begins.
LEMMA DrawnIsOne ==
  ASSUME NEW r \in Drawn, NEW s \in Drawn, Len(r.times) <= Len(s.times)
  PROVE  Begins(r, s)
<1> DEFINE Later(u) == \A q \in Drawn : Len(q.times) <= Len(u.times) =>
                          Begins(q, u) /\ (Len(q.times) = Len(u.times) => q = u)
           P == {u \in Drawn : Later(u)}
<1>0. \A q \in Drawn : q \in ScheduleRec /\ Len(q.times) \in Nat
  <2>1. \A q \in ScheduleRec : Len(q.times) \in Nat
    BY DEF ScheduleRec
  <2> QED BY <2>1, DrawnFacts
<1>1. NoBeacons \in P
  <2>1. NoBeacons \in Drawn /\ Len(NoBeacons.times) = 0
    BY DrawnGrows, EmptySeq DEF NoBeacons
  <2>2. ASSUME NEW q \in Drawn, Len(q.times) <= 0 PROVE q = NoBeacons
    <3>1. CASE \E p \in Drawn : q = AddNext(p)
      <4>1. PICK p \in Drawn : q = AddNext(p)
        BY <3>1
      <4>2. Len(q.times) = Len(p.times) + 1
        BY <1>0, <4>1, AddNextIs
      <4> QED BY <1>0, <2>2, <4>2
    <3> QED BY <3>1, DrawnOneByOne
  <2>3. Begins(NoBeacons, NoBeacons)
    BY <2>1 DEF Begins
  <2>4. Later(NoBeacons)
    BY <2>1, <2>2, <2>3
  <2> QED BY <2>1, <2>4
<1>2. ASSUME NEW u \in Drawn \cap P PROVE AddNext(u) \in P
  <2> DEFINE v == AddNext(u)
             n == Len(u.times)
  <2>1. u \in ScheduleRec /\ n \in Nat /\ v \in Drawn
    BY <1>0, DrawnGrows
  <2>2. Len(v.times) = n + 1 /\ Begins(u, v)
    <3>1. Len(v.times) = n + 1 /\ \A i \in 1..n : v.times[i] = u.times[i] /\ (i \in v.firing <=> i \in u.firing)
      BY <2>1, AddNextIs
    <3> QED BY <2>1, <3>1 DEF Begins
  <2>3. Later(u)
    OBVIOUS
  <2> HIDE DEF v
  <2>4. ASSUME NEW q \in Drawn, Len(q.times) <= n + 1
        PROVE  Begins(q, v) /\ (Len(q.times) = n + 1 => q = v)
    <3>1. CASE Len(q.times) = n + 1
      <4>1. q # NoBeacons
        <5>1. Len(NoBeacons.times) = 0
          BY EmptySeq DEF NoBeacons
        <5> QED BY <2>1, <3>1, <5>1
      <4>2. PICK p \in Drawn : q = AddNext(p)
        BY <4>1, DrawnOneByOne
      <4>3. Len(q.times) = Len(p.times) + 1 /\ Len(p.times) \in Nat
        BY <1>0, <4>2, AddNextIs
      <4>4. Len(p.times) = n
        BY <2>1, <3>1, <4>3
      <4>5. p = u
        BY <2>1, <2>3, <4>4
      <4>6. q = v
        BY <4>2, <4>5 DEF v
      <4>7. Begins(v, v)
        BY <2>1, <2>2 DEF Begins
      <4> QED BY <4>6, <4>7
    <3>2. CASE Len(q.times) # n + 1
      <4>1. Len(q.times) <= n /\ Len(q.times) \in Nat
        BY <1>0, <2>1, <2>4, <3>2
      <4>2. Begins(q, u)
        BY <2>3, <4>1
      <4> HIDE DEF n
      <4>3. Begins(q, v)
        <5>1. \A i \in 1..Len(q.times) : i \in 1..n
          BY <2>1, <4>1
        <5>2. \A i \in 1..Len(q.times) : q.times[i] = v.times[i] /\ (i \in q.firing <=> i \in v.firing)
          BY <2>2, <4>2, <5>1 DEF Begins, n
        <5> QED BY <2>1, <2>2, <4>1, <5>2 DEF Begins
      <4> QED BY <3>2, <4>3
    <3> QED BY <3>1, <3>2
  <2>5. Later(v)
    BY <2>2, <2>4
  <2> QED BY <2>1, <2>5 DEF v
<1>3. P \in SUBSET ScheduleRec
  BY DrawnGrows
<1>4. s \in P
  <2> HIDE DEF P
  <2> QED BY <1>1, <1>2, <1>3, DrawnInduction
<1> QED BY <1>4

-----------------------------------------------------------------------------
(* How far a schedule is drawn up.                                         *)

\* The greatest of a set that is bounded.
LEMMA GreatestIs ==
  ASSUME NEW S \in SUBSET Int, S # {}, NEW b \in Int, \A x \in S : x <= b
  PROVE  Max(S) \in S /\ \A x \in S : Max(S) >= x
<1> DEFINE T == {n \in Nat : b - n \in S}
<1>1. \A x \in S : b - x \in Nat /\ b - (b - x) = x
  OBVIOUS
<1>2. T \in SUBSET Nat /\ T # {}
  BY <1>1
<1>3. PICK m \in T : \A n \in T : m <= n
  <2> HIDE DEF T
  <2> QED BY <1>2, LeastExists
<1>4. b - m \in S /\ m \in Nat
  OBVIOUS
<1>5. \A x \in S : b - m >= x
  <2> TAKE x \in S
  <2>1. b - x \in T
    BY <1>1
  <2>2. m <= b - x
    BY <1>3, <2>1
  <2> QED BY <1>4, <2>2
<1> QED BY <1>4, <1>5 DEF Max

Past(s, until) == s.times # <<>> /\ Last(s.times) > until

\* A schedule is drawn up past any time.
LEMMA ExtendIs ==
  ASSUME NEW s \in Drawn, NEW until \in Int
  PROVE  LET e == ExtendBeacons(s, BeaconStart, until) IN e \in Drawn /\ Past(e, until)
<1> DEFINE least == Min(ToSet(BeaconGap))
           q == (until - BeaconStart) \div least
           L == Max({1, q + 2})
           Ext(r) == Extended(r, BeaconStart, until)
           step == [n \in 1..L |-> [r \in Drawn |-> Ext(r)]]
           Step(g, n) == IF n = 0 THEN s ELSE Ext(g[n - 1])
<1>1. least \in Nat \ {0} /\ \A n \in Nat \ {0} : Gap(n) >= least /\ Gap(n) \in Nat \ {0}
  <2>1. ToSet(BeaconGap) \in SUBSET (Nat \ {0})
    <3>1. BeaconGap \in [1..Len(BeaconGap) -> Nat \ {0}]
      BY CaptureFacts
    <3> QED BY <3>1 DEF ToSet
  <2>2. Gap(1) \in ToSet(BeaconGap)
    BY GapIs
  <2>3. least \in ToSet(BeaconGap) /\ \A x \in ToSet(BeaconGap) : least <= x
    <3>1. ToSet(BeaconGap) \in SUBSET Nat /\ ToSet(BeaconGap) # {}
      BY <2>1, <2>2
    <3> QED BY <3>1, LeastIs
  <2> HIDE DEF least
  <2> QED BY <2>1, <2>3, GapIs
<1> HIDE DEF least
<1>2. q \in Int /\ until - BeaconStart < (q + 1) * least
  <2>1. until - BeaconStart \in Int
    BY CaptureFacts
  <2>2. \A x \in Int, d \in Nat \ {0} : x \div d \in Int /\ x < ((x \div d) + 1) * d
    OBVIOUS
  <2> QED BY <1>1, <2>1, <2>2
<1> HIDE DEF q
<1>3. L \in Nat /\ L >= 1 /\ L >= q + 2
  <2>1. L = IF 1 >= q + 2 THEN 1 ELSE q + 2
    <3> DEFINE m == IF 1 >= q + 2 THEN 1 ELSE q + 2
    <3>1. m \in {1, q + 2} /\ \A y \in {1, q + 2} : m >= y
      BY <1>2
    <3>2. \A x \in {1, q + 2} : (\A y \in {1, q + 2} : x >= y) => x = m
      BY <1>2
    <3> HIDE DEF m
    <3>3. L = m
      BY <3>1, <3>2 DEF Max
    <3> QED BY <3>3 DEF m
  <2> HIDE DEF L
  <2> QED BY <1>2, <2>1
<1> HIDE DEF L
<1>4. \A r \in Drawn : /\ Ext(r) \in Drawn
                       /\ Past(r, until) => Ext(r) = r
                       /\ ~ Past(r, until) => Ext(r) = AddNext(r)
  <2> TAKE r \in Drawn
  <2>1. r.times \in Seq(Int)
    BY DrawnFacts DEF ScheduleRec
  <2>2. r.times # <<>> => Last(r.times) \in Int
    BY <2>1, EmptySeq DEF Last
  <2>3. /\ Past(r, until) => Ext(r) = r
        /\ ~ Past(r, until) => Ext(r) = AddNext(r)
    BY <2>2 DEF Extended, Past, AddNext
  <2> QED BY <2>3, DrawnGrows
<1> HIDE DEF Ext
<1>5. PICK g : Repeats(g, L, Drawn, s, step)
  <2>1. step \in [1..L -> [Drawn -> Drawn]]
    BY <1>4
  <2> HIDE DEF step
  <2> QED BY <1>3, <2>1, RecursionExists
<1>6. /\ g \in [0..L -> Drawn] /\ g[0] = s
      /\ \A n \in 1..L : g[n] = Ext(g[n - 1])
  <2>1. g \in [0..L -> Drawn] /\ g[0] = s /\ \A n \in 1..L : g[n] = step[n][g[n - 1]]
    <3> HIDE DEF step
    <3> QED BY <1>5 DEF Repeats
  <2>2. ASSUME NEW n \in 1..L PROVE step[n][g[n - 1]] = Ext(g[n - 1])
    <3>1. g[n - 1] \in Drawn
      BY <1>3, <2>1
    <3> QED BY <3>1
  <2> HIDE DEF step
  <2> QED BY <2>1, <2>2
<1> HIDE DEF step
<1>7. \A n \in 0..L : g[n] = Step(g, n)
  <2> TAKE n \in 0..L
  <2>1. CASE n = 0
    BY <1>6, <2>1
  <2>2. CASE n # 0
    <3>1. n \in 1..L
      BY <1>3, <2>2
    <3> QED BY <1>6, <2>2, <3>1
  <2> QED BY <2>1, <2>2
<1>8. g = [n \in 0..L |-> Step(g, n)]
  <2>1. g = [n \in 0..L |-> g[n]]
    BY <1>6
  <2> HIDE DEF Step
  <2> QED BY <1>7, <2>1
<1> DEFINE U == CHOOSE f : f = [n \in 0..L |-> Step(f, n)]
<1>9. ExtendBeacons(s, BeaconStart, until) = U[L]
  BY DEF ExtendBeacons, L, q, least, Ext
<1>10. U = [n \in 0..L |-> Step(U, n)]
  <2> HIDE DEF Step
  <2> QED BY <1>8
<1>11. \A n \in 0..L : U[n] = Step(U, n)
  <2> HIDE DEF Step, U
  <2> QED BY <1>10
<1> HIDE DEF U
<1>12. 0 \in 0..L /\ L \in 0..L
  BY <1>3
<1> DEFINE Far(r, n) == \/ n = 0
                        \/ Past(r, until)
                        \/ r.times # <<>> /\ Last(r.times) >= BeaconStart + (n - 1) * least
           Runs == {n \in 0..L : U[n] = g[n] /\ Far(g[n], n)}
<1>13. 0 \in Runs
  <2>1. U[0] = s /\ g[0] = s
    BY <1>6, <1>11, <1>12
  <2> QED BY <1>12, <2>1
<1>14. ASSUME NEW n \in 0..L - 1, n \in Runs PROVE n + 1 \in Runs
  <2> DEFINE r == g[n]
             t == g[n + 1]
  <2>1. n + 1 \in 0..L /\ n + 1 \in 1..L /\ n + 1 # 0 /\ (n + 1) - 1 = n /\ n \in 0..L
    BY <1>3
  <2>2. U[n] = r /\ Far(r, n)
    BY <1>14
  <2>3. U[n + 1] = Ext(r) /\ t = Ext(r)
    BY <1>6, <1>11, <2>1, <2>2
  <2>4. r \in Drawn /\ t \in Drawn
    BY <1>6, <2>1
  <2> HIDE DEF r, t
  <2>5. CASE Past(r, until)
    <3>1. Past(t, until)
      BY <1>4, <2>3, <2>4, <2>5
    <3> QED BY <2>1, <2>3, <3>1 DEF t
  <2>6. CASE ~ Past(r, until)
    <3> DEFINE k == Len(r.times)
    <3>1. t = AddNext(r)
      BY <1>4, <2>3, <2>4, <2>6
    <3>2. r \in ScheduleRec /\ t \in ScheduleRec /\ k \in Nat
      <4>1. r \in ScheduleRec /\ t \in ScheduleRec
        BY <2>4, DrawnFacts
      <4> QED BY <4>1 DEF ScheduleRec
    <3>3. /\ Len(t.times) = k + 1
          /\ k = 0 => t.times[k + 1] = BeaconStart
          /\ k # 0 => t.times[k + 1] = r.times[k] + Gap(k)
      BY <3>1, <3>2, AddNextIs
    <3>4. t.times # <<>> /\ Last(t.times) = t.times[k + 1] /\ r.times \in Seq(Int) /\ (r.times = <<>> <=> k = 0)
      <4>1. t.times \in Seq(Int) /\ r.times \in Seq(Int)
        BY <3>2 DEF ScheduleRec
      <4>2. t.times # <<>>
        BY <3>2, <3>3, <4>1, EmptySeq
      <4>3. r.times = <<>> <=> k = 0
        BY <4>1, EmptySeq
      <4> HIDE DEF k
      <4> QED BY <3>3, <4>1, <4>2, <4>3 DEF Last
    <3>5. Last(t.times) >= BeaconStart + n * least
      <4>1. CASE k = 0
        <5>1. n = 0
          <6>1. r.times = <<>>
            BY <3>4, <4>1
          <6> QED BY <2>2, <2>6, <6>1
        <5>2. n * least = 0
          BY <1>1, <5>1
        <5> HIDE DEF k
        <5> QED BY <3>3, <3>4, <4>1, <5>2, CaptureFacts
      <4>2. CASE k # 0
        <5>1. r.times[k] \in Int /\ r.times[k] >= BeaconStart /\ Last(r.times) = r.times[k]
          <6>1. k \in 1..k
            BY <3>2, <4>2
          <6>2. r.times[k] \in Int
            <7> HIDE DEF k
            <7>1. r.times \in [1..k -> Int]
              BY <3>4 DEF k
            <7> QED BY <6>1, <7>1
          <6>3. r.times[k] >= BeaconStart
            BY <2>4, <6>1, DrawnFacts
          <6> QED BY <6>2, <6>3 DEF Last
        <5>2. Gap(k) \in Nat /\ Gap(k) >= least
          BY <1>1, <3>2, <4>2
        <5>3. t.times[k + 1] = r.times[k] + Gap(k)
          BY <3>3, <4>2
        <5> HIDE DEF k
        <5>4. CASE n = 0
          <6>1. n * least = 0
            BY <1>1, <5>4
          <6> QED BY <3>4, <5>1, <5>2, <5>3, <6>1, CaptureFacts
        <5>5. CASE n # 0
          <6>1. r.times[k] >= BeaconStart + (n - 1) * least
            BY <2>2, <2>6, <5>1, <5>5
          <6>2. (n - 1) * least + least = n * least /\ (n - 1) * least \in Int /\ n * least \in Int
            BY <1>1, <2>1
          <6>3. \A a, b, c, d, e \in Int : a >= BeaconStart + b /\ c >= d /\ b + d = e => a + c >= BeaconStart + e
            BY CaptureFacts
          <6>4. Gap(k) \in Int /\ least \in Int
            BY <1>1, <5>2
          <6>5. r.times[k] + Gap(k) >= BeaconStart + n * least
            BY <5>1, <5>2, <6>1, <6>2, <6>3, <6>4
          <6> QED BY <3>4, <5>3, <6>5
        <5> QED BY <5>4, <5>5
      <4> QED BY <4>1, <4>2
    <3>6. Far(t, n + 1)
      BY <2>1, <3>4, <3>5
    <3> HIDE DEF Far
    <3> QED BY <2>1, <2>3, <3>6 DEF t
  <2> QED BY <2>5, <2>6
<1>15. 0..L \subseteq Runs
  <2> HIDE DEF Runs
  <2> QED BY <1>3, <1>13, <1>14, Counting
<1>16. U[L] = g[L] /\ Far(g[L], L) /\ g[L] \in Drawn
  BY <1>6, <1>12, <1>15
<1>17. Past(g[L], until)
  <2> DEFINE r == g[L]
  <2> SUFFICES ASSUME ~ Past(r, until) PROVE FALSE
    OBVIOUS
  <2>1. r \in Drawn /\ r.times # <<>> /\ Last(r.times) >= BeaconStart + (L - 1) * least
    BY <1>3, <1>16
  <2>2. Last(r.times) \in Int
    <3>1. r.times \in Seq(Int)
      BY <2>1, DrawnFacts DEF ScheduleRec
    <3> HIDE DEF r
    <3> QED BY <2>1, <3>1, EmptySeq DEF Last
  <2>3. (L - 1) * least >= (q + 1) * least
    <3>1. \A x, y \in Int, d \in Nat : x >= y => x * d >= y * d
      OBVIOUS
    <3>2. L - 1 \in Int /\ q + 1 \in Int /\ L - 1 >= q + 1 /\ least \in Nat
      BY <1>1, <1>2, <1>3
    <3> QED BY <3>1, <3>2
  <2>4. (L - 1) * least \in Int /\ (q + 1) * least \in Int
    BY <1>1, <1>2, <1>3
  <2> HIDE DEF r
  <2>5. Last(r.times) > until
    BY <1>2, <2>1, <2>2, <2>3, <2>4, CaptureFacts
  <2> QED BY <2>1, <2>5 DEF Past
<1> QED BY <1>9, <1>16, <1>17

-----------------------------------------------------------------------------
(* The rows of an hour, and of the beacons of it.                          *)

RowsDue(rows, hour) == {i \in DOMAIN rows : HourOf(rows[i].start) = hour}

\* The rows of an hour are some of the rows.
LEMMA OfHourIs ==
  ASSUME NEW rows, NEW N \in Nat, DOMAIN rows = 1..N, NEW hour
  PROVE  /\ IsFiniteSet(RowsDue(rows, hour)) /\ Cardinality(RowsDue(rows, hour)) \in Nat
         /\ OfHour(rows, hour) = [k \in 1..Cardinality(RowsDue(rows, hour)) |-> rows[Min(RowsDue(rows, hour)) + k - 1]]
         /\ \A k \in 1..Cardinality(RowsDue(rows, hour)) : Min(RowsDue(rows, hour)) + k - 1 \in 1..N
<1> DEFINE due == RowsDue(rows, hour)
<1>1. OfHour(rows, hour) = [k \in 1..Cardinality(due) |-> rows[Min(due) + k - 1]]
  BY DEF OfHour, RowsDue
<1>2. due \in SUBSET (1..N) /\ IsFiniteSet(1..N)
  BY FS_Interval DEF RowsDue
<1> HIDE DEF due
<1>3. IsFiniteSet(due) /\ Cardinality(due) \in Nat
  BY <1>2, FS_Subset, FS_CardinalityType
<1>4. ASSUME NEW k \in 1..Cardinality(due) PROVE Min(due) + k - 1 \in 1..N
  <2>1. due # {}
    <3>1. due = {} => Cardinality(due) = 0
      BY FS_EmptySet
    <3> QED BY <1>3, <3>1
  <2>2. Min(due) \in 1..N /\ \A x \in due : Min(due) <= x
    <3>1. due \in SUBSET Nat
      BY <1>2
    <3> QED BY <1>2, <2>1, <3>1, LeastIs
  <2>3. due \in SUBSET (Min(due)..N)
    BY <1>2, <2>2
  <2>4. Cardinality(due) <= N - Min(due) + 1
    <3>1. IsFiniteSet(Min(due)..N) /\ Cardinality(Min(due)..N) = N - Min(due) + 1
      BY <2>2, FS_Interval
    <3> QED BY <2>3, <3>1, FS_Subset
  <2> QED BY <1>3, <2>2, <2>4
<1> QED BY <1>1, <1>3, <1>4 DEF due

\* What a beacon looks like.
BeaconOf(s, i) ==
  [BeaconDraft EXCEPT !.start = s.times[i], !.rules = IF i \in s.firing THEN @ ELSE <<>>]

Due(s, hour) == {i \in 1..Len(s.times) : HourOf(s.times[i]) = hour}

\* The beacons of an hour.
LEMMA BeaconRowsAre ==
  ASSUME NEW s \in Drawn, NEW hour
  PROVE  /\ IsFiniteSet(Due(s, hour)) /\ Cardinality(Due(s, hour)) \in Nat
         /\ BeaconRows(s, hour) = [k \in 1..Cardinality(Due(s, hour)) |-> BeaconOf(s, Min(Due(s, hour)) + k - 1)]
         /\ \A k \in 1..Cardinality(Due(s, hour)) : Min(Due(s, hour)) + k - 1 \in 1..Len(s.times)
<1> DEFINE N == Len(s.times)
           rows == [i \in 1..N |-> BeaconOf(s, i)]
           due == RowsDue(rows, hour)
<1>1. s.times \in Seq(Int) /\ N \in Nat /\ DOMAIN s.times = 1..N
  <2>1. s.times \in Seq(Int)
    BY DrawnFacts DEF ScheduleRec
  <2> QED BY <2>1
<1>2. BeaconRows(s, hour) = OfHour(rows, hour)
  BY <1>1 DEF BeaconRows, BeaconOf
<1>3. \A i \in 1..N : rows[i].start = s.times[i] /\ rows[i] = BeaconOf(s, i)
  BY CaptureAssumption DEF CaptureAssumption, BeaconOf
<1>4. DOMAIN rows = 1..N
  OBVIOUS
<1> HIDE DEF rows
<1>5. due = Due(s, hour)
  BY <1>3, <1>4 DEF Due, RowsDue
<1>6. /\ IsFiniteSet(due) /\ Cardinality(due) \in Nat
      /\ OfHour(rows, hour) = [k \in 1..Cardinality(due) |-> rows[Min(due) + k - 1]]
      /\ \A k \in 1..Cardinality(due) : Min(due) + k - 1 \in 1..N
  <2> HIDE DEF N
  <2> QED BY <1>1, <1>4, OfHourIs
<1> HIDE DEF due
<1>7. [k \in 1..Cardinality(due) |-> rows[Min(due) + k - 1]]
        = [k \in 1..Cardinality(due) |-> BeaconOf(s, Min(due) + k - 1)]
  BY <1>3, <1>6
<1> QED BY <1>2, <1>5, <1>6, <1>7

\* A time is in its hour.
LEMMA HourIs ==
  ASSUME NEW t \in Int
  PROVE  HourOf(t) \in Int /\ HourOf(t) * HourTime <= t /\ t < (HourOf(t) + 1) * HourTime
<1>1. \A d \in Nat \ {0} : t \div d \in Int /\ (t \div d) * d <= t /\ t < ((t \div d) + 1) * d
  OBVIOUS
<1> QED BY <1>1, CaptureFacts DEF HourOf

\* Where a longer schedule goes on is past the hour.
LEMMA BeginsAlike ==
  ASSUME NEW r \in Drawn, NEW s \in Drawn, Begins(r, s), NEW hour \in Int, Past(r, (hour + 1) * HourTime)
  PROVE  BeaconRows(r, hour) = BeaconRows(s, hour)
<1> DEFINE m == Len(r.times)
           n == Len(s.times)
<1>1. r.times \in Seq(Int) /\ s.times \in Seq(Int)
  BY DrawnFacts DEF ScheduleRec
<1>2. m \in Nat /\ n \in Nat /\ m # 0 /\ m <= n
  BY <1>1, EmptySeq DEF Past, Begins
<1>3. (hour + 1) * HourTime \in Int
  BY CaptureFacts
<1>4. s.times[m] > (hour + 1) * HourTime /\ s.times[m] \in Int
  <2>1. r.times[m] = s.times[m] /\ r.times[m] > (hour + 1) * HourTime
    BY <1>2 DEF Past, Begins, Last
  <2>2. m \in 1..n /\ s.times \in [1..n -> Int]
    BY <1>1, <1>2
  <2> HIDE DEF n, m
  <2>3. s.times[m] \in Int
    BY <2>2
  <2> QED BY <2>1, <2>3
<1>5. Due(r, hour) = Due(s, hour)
  <2>1. ASSUME NEW i \in 1..n, HourOf(s.times[i]) = hour PROVE i \in 1..m
    <3>1. s.times[i] \in Int
      BY <1>1, <1>2
    <3>2. s.times[i] < (hour + 1) * HourTime
      BY <2>1, <3>1, HourIs
    <3>3. m \in 1..n /\ (m < i => s.times[m] < s.times[i])
      BY <1>2, DrawnFacts
    <3>4. ~ (m < i)
      BY <1>3, <1>4, <3>1, <3>2, <3>3
    <3> QED BY <1>2, <3>4
  <2>2. \A i \in 1..m : i \in 1..n /\ r.times[i] = s.times[i]
    BY <1>2 DEF Begins
  <2> QED BY <2>1, <2>2 DEF Due
<1>6. \A i \in 1..m : BeaconOf(r, i) = BeaconOf(s, i)
  <2> TAKE i \in 1..m
  <2>1. r.times[i] = s.times[i] /\ (i \in r.firing <=> i \in s.firing)
    BY DEF Begins
  <2> QED BY <2>1 DEF BeaconOf
<1>7. \A k \in 1..Cardinality(Due(r, hour)) : Min(Due(r, hour)) + k - 1 \in 1..m
  BY BeaconRowsAre
<1> QED BY <1>5, <1>6, <1>7, BeaconRowsAre

\* Schedules that are drawn up past an hour agree on it.
LEMMA PastAlike ==
  ASSUME NEW r \in Drawn, NEW s \in Drawn, NEW hour \in Int,
         Past(r, (hour + 1) * HourTime), Past(s, (hour + 1) * HourTime)
  PROVE  BeaconRows(r, hour) = BeaconRows(s, hour)
<1>1. Len(r.times) \in Nat /\ Len(s.times) \in Nat
  <2>1. r.times \in Seq(Int) /\ s.times \in Seq(Int)
    BY DrawnFacts DEF ScheduleRec
  <2> QED BY <2>1
<1>2. CASE Len(r.times) <= Len(s.times)
  <2>1. Begins(r, s)
    BY <1>2, DrawnIsOne
  <2> QED BY <2>1, BeginsAlike
<1>3. CASE Len(s.times) <= Len(r.times)
  <2>1. Begins(s, r)
    BY <1>3, DrawnIsOne
  <2>2. BeaconRows(s, hour) = BeaconRows(r, hour)
    BY <2>1, BeginsAlike
  <2> QED BY <2>2
<1> QED BY <1>1, <1>2, <1>3

\* Before the first beacon there is none.
LEMMA NoneBefore ==
  ASSUME NEW s \in Drawn, NEW hour \in Int, (hour + 1) * HourTime <= BeaconStart
  PROVE  BeaconRows(s, hour) = <<>>
<1>1. s.times \in Seq(Int)
  BY DrawnFacts DEF ScheduleRec
<1>2. ASSUME NEW i \in 1..Len(s.times) PROVE HourOf(s.times[i]) # hour
  <2>1. s.times[i] \in Int /\ s.times[i] >= BeaconStart
    BY <1>1, DrawnFacts
  <2>2. HourOf(s.times[i]) = hour => s.times[i] < (hour + 1) * HourTime
    BY <2>1, HourIs
  <2>3. (hour + 1) * HourTime \in Int
    BY CaptureFacts
  <2> QED BY <2>1, <2>2, <2>3, CaptureFacts
<1>3. Due(s, hour) = {}
  BY <1>2 DEF Due
<1>4. Cardinality(Due(s, hour)) = 0 /\ 1..0 = {}
  BY <1>3, FS_EmptySet
<1>5. BeaconRows(s, hour) = [k \in 1..0 |-> BeaconOf(s, Min(Due(s, hour)) + k - 1)]
  BY <1>4, BeaconRowsAre
<1> HIDE DEF BeaconRows
<1> QED BY <1>4, <1>5

\* A block made with a schedule drawn up past it, or before any beacon.
LEMMA BuiltIsFresh ==
  ASSUME NEW s \in Drawn, NEW sensor, NEW hour \in Int,
         sensor = Scripted => Past(s, (hour + 1) * HourTime) \/ (hour + 1) * HourTime <= BeaconStart
  PROVE  BuiltBlock(s, sensor, hour) = FreshBlock(sensor, hour)
<1> DEFINE e == ExtendBeacons(NoBeacons, BeaconStart, (hour + 1) * HourTime)
<1>1. e \in Drawn /\ Past(e, (hour + 1) * HourTime)
  <2>1. (hour + 1) * HourTime \in Int
    BY CaptureFacts
  <2> QED BY <2>1, ExtendIs, DrawnGrows
<1> HIDE DEF e
<1>2. sensor = Scripted => BeaconRows(s, hour) = BeaconRows(e, hour)
  BY <1>1, PastAlike, NoneBefore
<1>3. (IF sensor = Scripted THEN BeaconRows(s, hour) ELSE <<>>)
        = (IF sensor = Scripted THEN BeaconRows(e, hour) ELSE <<>>)
  BY <1>2
<1>4. BuiltBlock(s, sensor, hour) = BuiltBlock(e, sensor, hour)
  BY <1>3, Zenon DEF BuiltBlock
<1> QED BY <1>4 DEF FreshBlock, e

-----------------------------------------------------------------------------
(* The places of the drafts of a block, and the ids of its rows.           *)

\* A part of a set is smaller than it.
LEMMA FewerAre ==
  ASSUME NEW B, IsFiniteSet(B), NEW A \in SUBSET B, NEW x \in B, x \notin A
  PROVE  /\ IsFiniteSet(A) /\ Cardinality(A) \in Nat /\ Cardinality(B) \in Nat
         /\ Cardinality(A) < Cardinality(B)
<1>1. /\ IsFiniteSet(A) /\ Cardinality(A) <= Cardinality(B)
      /\ Cardinality(B) = Cardinality(A) => B = A
  BY FS_Subset
<1>2. Cardinality(A) \in Nat /\ Cardinality(B) \in Nat
  BY <1>1, FS_CardinalityType
<1>3. B # A
  OBVIOUS
<1> QED BY <1>1, <1>2, <1>3

\* Places are in order.
LEMMA SoonerIs ==
  ASSUME NEW a \in Int \X Int, NEW b \in Int \X Int
  PROVE  /\ ~ Sooner(a, a)
         /\ a = b \/ Sooner(a, b) \/ Sooner(b, a)
         /\ \A c \in Int \X Int : Sooner(c, a) /\ Sooner(a, b) => Sooner(c, b)
<1>1. \A c \in Int \X Int : c[1] \in Int /\ c[2] \in Int /\ c = <<c[1], c[2]>>
  OBVIOUS
<1>2. ~ Sooner(a, a)
  BY <1>1 DEF Sooner
<1>3. a = b \/ Sooner(a, b) \/ Sooner(b, a)
  BY <1>1 DEF Sooner
<1>4. ASSUME NEW c \in Int \X Int, Sooner(c, a), Sooner(a, b) PROVE Sooner(c, b)
  BY <1>1, <1>4 DEF Sooner
<1> QED BY <1>2, <1>3, <1>4

Rank(P, a) == Cardinality({b \in P : Sooner(b, a)})

\* One that is sooner has fewer before it.
LEMMA RanksDiffer ==
  ASSUME NEW P \in SUBSET (Int \X Int), IsFiniteSet(P), NEW a \in P, NEW b \in P, Sooner(a, b)
  PROVE  Rank(P, a) < Rank(P, b) /\ Rank(P, a) # Rank(P, b)
<1> DEFINE A == {c \in P : Sooner(c, a)}
           B == {c \in P : Sooner(c, b)}
<1>1. IsFiniteSet(B)
  BY FS_Subset
<1>2. A \in SUBSET B /\ a \in B /\ a \notin A
  BY SoonerIs
<1> HIDE DEF A, B
<1>3. Cardinality(A) \in Nat /\ Cardinality(B) \in Nat /\ Cardinality(A) < Cardinality(B)
  BY <1>1, <1>2, FewerAre
<1> QED BY <1>3 DEF Rank, A, B

\* So many places come before one.
LEMMA RankIs ==
  ASSUME NEW P \in SUBSET (Int \X Int), IsFiniteSet(P), NEW a \in P
  PROVE  Cardinality(P) \in Nat /\ Rank(P, a) \in 0..Cardinality(P) - 1
<1> DEFINE A == {c \in P : Sooner(c, a)}
<1>1. A \in SUBSET P /\ a \notin A
  BY SoonerIs
<1> HIDE DEF A
<1>2. Cardinality(A) \in Nat /\ Cardinality(P) \in Nat /\ Cardinality(A) < Cardinality(P)
  BY <1>1, FewerAre
<1> QED BY <1>2 DEF Rank, A

\* Every place is taken.
LEMMA PlaceIsTaken ==
  ASSUME NEW P \in SUBSET (Int \X Int), IsFiniteSet(P), NEW k \in 1..Cardinality(P)
  PROVE  \E a \in P : Rank(P, a) = k - 1
<1> DEFINE n == Cardinality(P)
           f == [a \in P |-> Rank(P, a)]
<1>1. n \in Nat /\ IsFiniteSet(0..n - 1) /\ Cardinality(0..n - 1) = n
  <2>1. n \in Nat
    BY FS_CardinalityType
  <2>2. IsFiniteSet(0..n - 1) /\ Cardinality(0..n - 1) = IF 0 > n - 1 THEN 0 ELSE n - 1 - 0 + 1
    <3> HIDE DEF n
    <3>1. 0 \in Int /\ n - 1 \in Int
      BY <2>1
    <3> QED BY <3>1, FS_Interval
  <2> HIDE DEF n
  <2> QED BY <2>1, <2>2
<1>2. f \in [P -> 0..n - 1]
  BY RankIs
<1>3. \A a, b \in P : f[a] = f[b] => a = b
  <2> TAKE a, b \in P
  <2>1. a = b \/ Sooner(a, b) \/ Sooner(b, a)
    BY SoonerIs
  <2> QED BY <2>1, RanksDiffer
<1> HIDE DEF f
<1>4. f \in Injection(P, 0..n - 1)
  BY <1>2, <1>3 DEF Injection, IsInjective
<1>5. f \in Surjection(P, 0..n - 1)
  BY <1>1, <1>4, FS_Injection
<1>6. k - 1 \in 0..n - 1
  BY <1>1
<1> QED BY <1>5, <1>6 DEF Surjection, f

PlacesOf(drafts) == {<<drafts[i].start, i>> : i \in DOMAIN drafts}

\* Drafts that can be told apart and put in order.
HaveStarts(drafts) ==
  /\ DOMAIN drafts \in SUBSET Int /\ IsFiniteSet(DOMAIN drafts)
  /\ \A i \in DOMAIN drafts : "start" \in DOMAIN drafts[i] /\ drafts[i].start \in Int

\* Every draft has a place.
LEMMA PlacesAre ==
  ASSUME NEW drafts, IsFiniteSet(DOMAIN drafts)
  PROVE  /\ IsFiniteSet(PlacesOf(drafts)) /\ Cardinality(PlacesOf(drafts)) \in Nat
         /\ Cardinality(PlacesOf(drafts)) = Cardinality(DOMAIN drafts)
<1> DEFINE S == DOMAIN drafts
           P == PlacesOf(drafts)
           f == [i \in S |-> <<drafts[i].start, i>>]
<1>1. f \in [S -> P]
  BY DEF PlacesOf
<1>2. \A i, j \in S : f[i] = f[j] => i = j
  OBVIOUS
<1>3. \A a \in P : \E i \in S : f[i] = a
  BY DEF PlacesOf
<1> HIDE DEF f, S, P
<1>4. f \in Bijection(S, P)
  BY <1>1, <1>2, <1>3 DEF Bijection, Injection, Surjection, IsInjective
<1>5. ExistsBijection(S, P)
  BY <1>4 DEF ExistsBijection
<1>6. IsFiniteSet(P) /\ Cardinality(P) = Cardinality(S)
  BY <1>5, FS_Bijection DEF S
<1> QED BY <1>6, FS_CardinalityType DEF P, S

RowAt(drafts, sensor, index, a) ==
  Over([id |-> EncodeSessionId(index, a[1] \div MinuteTime,
                  Cardinality({b \in PlacesOf(drafts) : Sooner(b, a) /\ b[1] \div MinuteTime = a[1] \div MinuteTime})),
        sensor |-> sensor], drafts[a[2]])

PlaceAt(drafts, k) == CHOOSE a \in PlacesOf(drafts) : Rank(PlacesOf(drafts), a) = k - 1

\* A block is its drafts, place by place.
LEMMA FinalisedAre ==
  ASSUME NEW drafts, NEW sensor, NEW index
  PROVE  Finalise(drafts, sensor, index)
           = [k \in 1..Cardinality(PlacesOf(drafts)) |-> RowAt(drafts, sensor, index, PlaceAt(drafts, k))]
BY DEF Finalise, RowAt, PlaceAt, PlacesOf, Rank

\* What is written into the row of a place.
LEMMA RowAtIs ==
  ASSUME NEW drafts, NEW sensor, NEW index, NEW a
  PROVE  LET row == RowAt(drafts, sensor, index, a) IN
         /\ row.sensor = sensor
         /\ row.id = EncodeSessionId(index, a[1] \div MinuteTime,
                       Cardinality({b \in PlacesOf(drafts) : Sooner(b, a) /\ b[1] \div MinuteTime = a[1] \div MinuteTime}))
         /\ "start" \in DOMAIN drafts[a[2]] => row.start = drafts[a[2]].start
<1> DEFINE i == EncodeSessionId(index, a[1] \div MinuteTime,
                  Cardinality({b \in PlacesOf(drafts) : Sooner(b, a) /\ b[1] \div MinuteTime = a[1] \div MinuteTime}))
           u == [id |-> i, sensor |-> sensor]
           w == drafts[a[2]]
           row == RowAt(drafts, sensor, index, a)
<1>1. row = Over(u, w)
  BY DEF RowAt
<1> HIDE DEF i, w, row
<1>2. DOMAIN u = {"id", "sensor"} /\ u.id = i /\ u.sensor = sensor
  OBVIOUS
<1> HIDE DEF u
<1>3. \A x \in DOMAIN u \cup DOMAIN w : row[x] = IF x \in DOMAIN u THEN u[x] ELSE w[x]
  BY <1>1 DEF Over
<1>4. "start" \notin DOMAIN u /\ "id" \in DOMAIN u /\ "sensor" \in DOMAIN u
  BY <1>2
<1>5. row.sensor = sensor /\ row.id = i /\ ("start" \in DOMAIN w => row.start = w.start)
  BY <1>2, <1>3, <1>4
<1> QED BY <1>5 DEF i, w, row

\* Ids are one to one with minutes and ordinals.
LEMMA IdsDiffer ==
  ASSUME NEW index \in Int, NEW m \in Int, NEW n \in Int,
         NEW i \in 0..OrdinalSpan - 1, NEW j \in 0..OrdinalSpan - 1,
         EncodeSessionId(index, m, i) = EncodeSessionId(index, n, j)
  PROVE  m = n /\ i = j
<1> DEFINE x == index * MinuteSpan + m
           y == index * MinuteSpan + n
<1>1. x \in Int /\ y \in Int /\ (x = y => m = n)
  <2>1. index * MinuteSpan \in Int
    BY CaptureFacts
  <2> QED BY <2>1
<1>2. x * OrdinalSpan + i = y * OrdinalSpan + j
  BY DEF EncodeSessionId
<1> HIDE DEF x, y
<1>3. OrdinalSpan * x + i = OrdinalSpan * y + j
  <2>1. x * OrdinalSpan = OrdinalSpan * x /\ y * OrdinalSpan = OrdinalSpan * y
    BY <1>1, CaptureFacts
  <2> QED BY <1>2, <2>1
<1>4. i = j
  BY <1>1, <1>3, CaptureFacts, RestIsUnique
<1>5. x = y
  <2>1. OrdinalSpan * x = OrdinalSpan * y
    <3>1. OrdinalSpan * x \in Int /\ OrdinalSpan * y \in Int
      BY <1>1, CaptureFacts
    <3>2. \A a, b \in Int : a + i = b + i => a = b
      OBVIOUS
    <3>3. OrdinalSpan * x + i = OrdinalSpan * y + i
      BY <1>3, <1>4, Zenon
    <3> QED BY <3>1, <3>2, <3>3
  <2>2. \A d \in Nat \ {0}, p, q \in Int : d * p = d * q => p = q
    OBVIOUS
  <2> QED BY <1>1, <2>1, <2>2, CaptureFacts
<1> QED BY <1>1, <1>4, <1>5

\* No two rows of a block have the same id.
LEMMA FinalisedDiffer ==
  ASSUME NEW drafts, HaveStarts(drafts), Cardinality(DOMAIN drafts) <= OrdinalSpan, NEW sensor, NEW index \in Int
  PROVE  LET rows == Finalise(drafts, sensor, index) IN
         /\ \A k \in DOMAIN rows : rows[k].sensor = sensor /\ rows[k].start \in Int
         /\ \A k, l \in DOMAIN rows : rows[k].id = rows[l].id => rows[k] = rows[l]
<1> DEFINE P == PlacesOf(drafts)
           N == Cardinality(P)
           rows == Finalise(drafts, sensor, index)
           minute(a) == a[1] \div MinuteTime
           Same(a) == {b \in P : Sooner(b, a) /\ minute(b) = minute(a)}
<1>1. IsFiniteSet(P) /\ N \in Nat /\ N <= OrdinalSpan
  BY PlacesAre DEF HaveStarts
<1>2. P \in SUBSET (Int \X Int)
  BY DEF PlacesOf, HaveStarts
<1>3. rows = [k \in 1..N |-> RowAt(drafts, sensor, index, PlaceAt(drafts, k))]
  BY FinalisedAre
<1>4. \A k \in 1..N : PlaceAt(drafts, k) \in P
  <2> TAKE k \in 1..N
  <2>1. \E a \in P : Rank(P, a) = k - 1
    BY <1>1, <1>2, PlaceIsTaken
  <2> QED BY <2>1 DEF PlaceAt
<1> HIDE DEF rows
<1>5. ASSUME NEW a \in P
      PROVE  LET row == RowAt(drafts, sensor, index, a) IN
             /\ row.sensor = sensor /\ row.start \in Int
             /\ row.id = EncodeSessionId(index, minute(a), Cardinality(Same(a)))
  <2>1. a[2] \in DOMAIN drafts
    BY DEF PlacesOf
  <2>2. "start" \in DOMAIN drafts[a[2]] /\ drafts[a[2]].start \in Int
    BY <2>1 DEF HaveStarts
  <2> QED BY <2>2, RowAtIs
<1>6. \A a \in P : minute(a) \in Int /\ IsFiniteSet(Same(a)) /\ Cardinality(Same(a)) \in 0..OrdinalSpan - 1
  <2> TAKE a \in P
  <2>1. minute(a) \in Int
    <3>1. a[1] \in Int
      BY <1>2
    <3> QED BY <3>1, CaptureFacts
  <2>2. Same(a) \in SUBSET P /\ a \notin Same(a)
    BY <1>2, SoonerIs
  <2> HIDE DEF Same, P, N
  <2>3. IsFiniteSet(Same(a)) /\ Cardinality(Same(a)) \in Nat /\ Cardinality(Same(a)) < N
    BY <1>1, <2>2, FewerAre DEF N
  <2> QED BY <1>1, <2>1, <2>3, CaptureFacts
<1>7. ASSUME NEW a \in P, NEW b \in P, minute(a) = minute(b), Sooner(a, b)
      PROVE  Cardinality(Same(a)) < Cardinality(Same(b))
  <2>1. Same(a) \in SUBSET Same(b) /\ a \in Same(b) /\ a \notin Same(a)
    BY <1>2, <1>7, SoonerIs
  <2>2. IsFiniteSet(Same(b))
    BY <1>6
  <2> HIDE DEF Same
  <2> QED BY <2>1, <2>2, FewerAre
<1>8. ASSUME NEW a \in P, NEW b \in P,
             EncodeSessionId(index, minute(a), Cardinality(Same(a))) = EncodeSessionId(index, minute(b), Cardinality(Same(b)))
      PROVE  a = b
  <2>1. minute(a) = minute(b) /\ Cardinality(Same(a)) = Cardinality(Same(b))
    <3> HIDE DEF minute, Same
    <3> QED BY <1>6, <1>8, IdsDiffer
  <2>2. Cardinality(Same(a)) \in Int /\ Cardinality(Same(b)) \in Int
    <3> HIDE DEF minute, Same
    <3> QED BY <1>6
  <2>3. ~ Sooner(a, b) /\ ~ Sooner(b, a)
    <3> HIDE DEF minute, Same
    <3> QED BY <1>7, <2>1, <2>2
  <2> QED BY <1>2, <2>3, SoonerIs
<1> HIDE DEF P, N, minute, Same
<1>9. DOMAIN rows = 1..N /\ \A k \in 1..N : rows[k] = RowAt(drafts, sensor, index, PlaceAt(drafts, k))
  BY <1>3
<1>10. \A k \in DOMAIN rows : rows[k].sensor = sensor /\ rows[k].start \in Int
  BY <1>4, <1>5, <1>9
<1>11. ASSUME NEW k \in DOMAIN rows, NEW l \in DOMAIN rows, rows[k].id = rows[l].id PROVE rows[k] = rows[l]
  <2>1. PlaceAt(drafts, k) = PlaceAt(drafts, l)
    BY <1>4, <1>5, <1>8, <1>9, <1>11
  <2> QED BY <1>9, <2>1
<1> QED BY <1>10, <1>11 DEF rows

-----------------------------------------------------------------------------
(* The blocks of built-in sensors, as a first reader finds them.           *)

\* Hours are numbers.
LEMMA HoursAreInts == IdHours \subseteq Int /\ FirstHour \in Int
<1>1. IdHours \subseteq Int
  BY DEF IdHours
<1>2. FirstHour \in Int
  BY HourIs, CaptureFacts DEF FirstHour
<1> QED BY <1>1, <1>2

\* In one hour there is room for so many beacons only.
LEMMA DueAreFew ==
  ASSUME NEW s \in Drawn, NEW hour \in Int
  PROVE  Cardinality(Due(s, hour)) <= (HourTime - 1) \div ShortestGap + 1
<1> DEFINE a == hour * HourTime
           D == Due(s, hour)
           m == (HourTime - 1) \div ShortestGap
           f == [i \in D |-> (s.times[i] - a) \div ShortestGap]
<1>1. /\ a \in Int /\ HourTime \in Nat \ {0} /\ (hour + 1) * HourTime = a + HourTime
      /\ ShortestGap \in Nat \ {0}
  BY CaptureFacts, ShortestGapIs
<1>2. m \in Nat
  BY <1>1, QuotientsGrow
<1>3. IsFiniteSet(0..m) /\ Cardinality(0..m) = m + 1
  <2> HIDE DEF m
  <2>1. IsFiniteSet(0..m) /\ Cardinality(0..m) = IF 0 > m THEN 0 ELSE m - 0 + 1
    BY <1>2, FS_Interval
  <2> QED BY <1>2, <2>1
<1>4. ASSUME NEW i \in D PROVE s.times[i] - a \in Nat /\ s.times[i] - a <= HourTime - 1
  <2>1. i \in 1..Len(s.times) /\ HourOf(s.times[i]) = hour
    BY DEF Due
  <2>2. s.times[i] \in Int
    <3>1. s.times \in Seq(Int)
      BY DrawnFacts DEF ScheduleRec
    <3> QED BY <2>1, <3>1
  <2>3. a <= s.times[i] /\ s.times[i] < a + HourTime
    BY <1>1, <2>1, <2>2, HourIs
  <2> HIDE DEF a
  <2> QED BY <1>1, <2>2, <2>3
<1>5. \A i \in D : f[i] \in 0..m
  <2> TAKE i \in D
  <2>1. HourTime - 1 \in Nat
    BY <1>1
  <2>2. (s.times[i] - a) \div ShortestGap \in Nat /\ (s.times[i] - a) \div ShortestGap <= m
    BY <1>1, <1>4, <2>1, QuotientsGrow
  <2> QED BY <1>2, <2>2
<1>6. ASSUME NEW i \in D, NEW j \in D, i < j PROVE f[i] # f[j]
  <2>1. s.times[i] + ShortestGap <= s.times[j]
    BY <1>6, DrawnFacts DEF Due
  <2>2. s.times[i] \in Int /\ s.times[j] \in Int
    BY DrawnFacts DEF Due, ScheduleRec
  <2>3. (s.times[i] - a) + ShortestGap <= s.times[j] - a
    <3> HIDE DEF a
    <3> QED BY <1>1, <2>1, <2>2
  <2> DEFINE x == s.times[i] - a
             y == s.times[j] - a
  <2>4. x \in Nat /\ y \in Nat /\ x + ShortestGap <= y
    BY <1>4, <2>3
  <2> HIDE DEF x, y
  <2>5. x \div ShortestGap \in Nat /\ y \div ShortestGap \in Nat /\ x \div ShortestGap < y \div ShortestGap
    BY <1>1, <2>4, QuotientsGrow
  <2>6. f[i] = x \div ShortestGap /\ f[j] = y \div ShortestGap
    BY DEF x, y
  <2> HIDE DEF f
  <2> QED BY <2>5, <2>6
<1>7. \A i, j \in D : f[i] = f[j] => i = j
  <2> HIDE DEF f
  <2>1. D \subseteq Int
    <3>1. Len(s.times) \in Nat
      BY DrawnFacts DEF ScheduleRec
    <3> QED BY <3>1 DEF Due
  <2> HIDE DEF D
  <2> QED BY <1>6, <2>1
<1>8. f \in Injection(D, 0..m)
  <2> HIDE DEF D, m
  <2> QED BY <1>5, <1>7 DEF Injection, IsInjective
<1>9. Cardinality(D) <= Cardinality(0..m)
  <2> HIDE DEF f, D, m
  <2> QED BY <1>3, <1>8, FS_Injection
<1>10. Cardinality(D) <= m + 1
  <2> HIDE DEF f, D, m
  <2> QED BY <1>3, <1>9
<1> QED BY <1>10

HasStart(d) == "start" \in DOMAIN d /\ d.start \in Int

\* A beacon has a start.
LEMMA BeaconsHaveStart ==
  ASSUME NEW s \in Drawn, NEW i \in 1..Len(s.times)
  PROVE  HasStart(BeaconOf(s, i))
<1>1. s.times[i] \in Int
  BY DrawnFacts DEF ScheduleRec
<1>2. "start" \in DOMAIN BeaconDraft
  BY CaptureAssumption DEF CaptureAssumption
<1> QED BY <1>1, <1>2 DEF HasStart, BeaconOf

\* What is drafted for an hour.
DraftsOf(s, sensor, hour) ==
  Drafts[sensor][hour] \o (IF sensor = Scripted THEN BeaconRows(s, hour) ELSE <<>>)

\* The drafts of an hour fit the ordinals of a minute.
LEMMA DraftsAre ==
  ASSUME NEW s \in Drawn, NEW sensor \in BuiltIn, NEW hour \in IdHours
  PROVE  LET all == DraftsOf(s, sensor, hour) IN
         \E n \in Nat : /\ DOMAIN all = 1..n /\ n <= OrdinalSpan
                        /\ \A i \in 1..n : HasStart(all[i])
<1> DEFINE a == Drafts[sensor][hour]
           b == IF sensor = Scripted THEN BeaconRows(s, hour) ELSE <<>>
           m == (HourTime - 1) \div ShortestGap + 1
           T == {d \in ToSet(a) \cup {BeaconOf(s, i) : i \in 1..Len(s.times)} : HasStart(d)}
<1>1. /\ a \in Seq(ToSet(a)) /\ Len(a) + m <= OrdinalSpan
      /\ \A i \in DOMAIN a : "start" \in DOMAIN a[i] /\ a[i].start \in Nat
  <2>1. Len(a) + (HourTime - 1) \div ShortestGap + 1 <= OrdinalSpan
    BY CaptureAssumption DEF CaptureAssumption, BuiltIn, ShortestGap
  <2>2. a \in Seq(ToSet(a)) /\ \A i \in DOMAIN a : "start" \in DOMAIN a[i] /\ a[i].start \in Nat
    BY CaptureAssumption DEF CaptureAssumption, BuiltIn
  <2>3. Len(a) \in Nat
    BY <2>2
  <2>4. (HourTime - 1) \div ShortestGap \in Nat
    <3>1. HourTime - 1 \in Nat
      BY CaptureFacts
    <3> QED BY <3>1, ShortestGapIs, QuotientsGrow
  <2> HIDE DEF a
  <2> QED BY <2>1, <2>2, <2>3, <2>4
<1>9. m \in Nat
  <2>1. HourTime - 1 \in Nat
    BY CaptureFacts
  <2> QED BY <2>1, ShortestGapIs, QuotientsGrow
<1> HIDE DEF a, m
<1>2. a \in Seq(T) /\ Len(a) \in Nat
  <2>1. Len(a) \in Nat /\ DOMAIN a = 1..Len(a) /\ a = [i \in 1..Len(a) |-> a[i]]
    BY <1>1
  <2>2. \A i \in 1..Len(a) : a[i] \in T
    BY <1>1, <2>1 DEF HasStart, ToSet
  <2> HIDE DEF T
  <2>3. a \in [1..Len(a) -> T]
    BY <2>1, <2>2
  <2> QED BY <2>1, <2>3
<1>3. b \in Seq(T) /\ Len(b) \in Nat /\ Len(b) <= m
  <2>1. CASE sensor = Scripted
    <3> DEFINE c == Cardinality(Due(s, hour))
               least == Min(Due(s, hour))
    <3>1. /\ c \in Nat /\ b = [k \in 1..c |-> BeaconOf(s, least + k - 1)]
          /\ \A k \in 1..c : least + k - 1 \in 1..Len(s.times)
      BY <2>1, BeaconRowsAre
    <3>2. c <= m
      BY HoursAreInts, DueAreFew DEF m
    <3> HIDE DEF c, least
    <3>3. \A k \in 1..c : BeaconOf(s, least + k - 1) \in T
      BY <3>1, BeaconsHaveStart
    <3> HIDE DEF b, T
    <3>4. b \in [1..c -> T]
      BY <3>1, <3>3
    <3> QED BY <3>1, <3>2, <3>4
  <2>2. CASE sensor # Scripted
    <3>1. b = <<>>
      BY <2>2
    <3> HIDE DEF b, T
    <3> QED BY <1>9, <3>1, EmptySeq
  <2> QED BY <2>1, <2>2
<1> DEFINE all == a \o b
           n == Len(a) + Len(b)
<1>4. DraftsOf(s, sensor, hour) = all
  BY DEF DraftsOf, a
<1> HIDE DEF b
<1>5. \A x \in T : HasStart(x)
  OBVIOUS
<1> HIDE DEF T
<1>6. all \in Seq(T) /\ Len(all) = n
  BY <1>2, <1>3
<1>7. n \in Nat /\ n <= OrdinalSpan
  BY <1>1, <1>2, <1>3, <1>9, CaptureFacts
<1> HIDE DEF all, n
<1>8. DOMAIN all = 1..n /\ \A i \in 1..n : all[i] \in T
  BY <1>6, <1>7
<1> QED BY <1>4, <1>5, <1>7, <1>8

\* A draft that is moved keeps a start.
LEMMA ClampedHaveStart ==
  ASSUME NEW d, HasStart(d), NEW hour \in Int
  PROVE  HasStart([d EXCEPT !.start = IF @ >= (hour + 1) * HourTime THEN (hour + 1) * HourTime - 1
                                      ELSE IF @ < hour * HourTime THEN hour * HourTime ELSE @])
<1> DEFINE a == (hour + 1) * HourTime
           b == hour * HourTime
           c == IF d.start >= a THEN a - 1 ELSE IF d.start < b THEN b ELSE d.start
<1>1. a \in Int /\ b \in Int
  BY CaptureFacts
<1> HIDE DEF a, b
<1>2. c \in Int
  BY <1>1 DEF HasStart
<1>3. HasStart([d EXCEPT !.start = c])
  BY <1>2 DEF HasStart
<1> QED BY <1>3 DEF a, b

\* The rows of a block are of its sensor, and their ids differ.
LEMMA FreshIsSound ==
  ASSUME NEW sensor \in BuiltIn, NEW hour \in IdHours
  PROVE  LET rows == FreshBlock(sensor, hour) IN
         /\ \A k \in DOMAIN rows : rows[k].sensor = sensor /\ rows[k].start \in Int
         /\ \A k, l \in DOMAIN rows : rows[k].id = rows[l].id => rows[k] = rows[l]
<1> DEFINE e == ExtendBeacons(NoBeacons, BeaconStart, (hour + 1) * HourTime)
           all == DraftsOf(e, sensor, hour)
           open == OutsideOutages(Outages, sensor, all)
           drafts == ClampToHour(open, hour)
<1>1. hour \in Int /\ (hour + 1) * HourTime \in Int
  <2>1. hour \in Int
    BY HoursAreInts
  <2> QED BY <2>1, CaptureFacts
<1>2. e \in Drawn
  BY <1>1, ExtendIs, DrawnGrows
<1>3. FreshBlock(sensor, hour) = Finalise(drafts, sensor, SensorIndex[sensor])
  BY DEF FreshBlock, BuiltBlock, DraftsOf
<1> HIDE DEF e
<1>4. PICK n \in Nat : DOMAIN all = 1..n /\ n <= OrdinalSpan /\ \A i \in 1..n : HasStart(all[i])
  BY <1>2, DraftsAre
<1> HIDE DEF all
<1>5. DOMAIN open \in SUBSET (1..n) /\ \A i \in DOMAIN open : HasStart(open[i])
  BY <1>4 DEF OutsideOutages, Restrict
<1> HIDE DEF open
<1>6. DOMAIN drafts = DOMAIN open /\ \A i \in DOMAIN drafts : HasStart(drafts[i])
  <2>1. DOMAIN drafts = DOMAIN open
    BY DEF ClampToHour
  <2>2. ASSUME NEW i \in DOMAIN open PROVE HasStart(drafts[i])
    <3>1. drafts[i] = [open[i] EXCEPT !.start = IF @ >= (hour + 1) * HourTime THEN (hour + 1) * HourTime - 1
                                      ELSE IF @ < hour * HourTime THEN hour * HourTime ELSE @]
      BY DEF ClampToHour
    <3>2. HasStart(open[i])
      BY <1>5
    <3> HIDE DEF drafts
    <3> QED BY <1>1, <3>1, <3>2, ClampedHaveStart
  <2> QED BY <2>1, <2>2
<1> HIDE DEF drafts
<1>7. IsFiniteSet(DOMAIN drafts) /\ Cardinality(DOMAIN drafts) <= OrdinalSpan
  <2>1. IsFiniteSet(1..n) /\ Cardinality(1..n) = IF 1 > n THEN 0 ELSE n - 1 + 1
    BY FS_Interval
  <2>2. Cardinality(1..n) = n
    BY <2>1
  <2>3. IsFiniteSet(DOMAIN drafts) /\ Cardinality(DOMAIN drafts) <= n
    BY <1>5, <1>6, <2>1, <2>2, FS_Subset
  <2>4. Cardinality(DOMAIN drafts) \in Nat
    BY <2>3, FS_CardinalityType
  <2> QED BY <1>4, <2>3, <2>4, CaptureFacts
<1>8. HaveStarts(drafts)
  <2>1. DOMAIN drafts \in SUBSET Int
    BY <1>5, <1>6
  <2> QED BY <1>6, <1>7, <2>1 DEF HaveStarts, HasStart
<1>9. SensorIndex[sensor] \in Int
  <2>1. SensorIndex[sensor] \in 0..FirstImportIndex - 1
    BY CaptureAssumption DEF CaptureAssumption, BuiltIn
  <2> QED BY <2>1
<1> QED BY <1>3, <1>7, <1>8, <1>9, FinalisedDiffer

-----------------------------------------------------------------------------
(* Reading: what is kept is what a first reader finds, and an id is looked *)
(* for in the one block it names.                                          *)

HourOfId(id) == MinuteOf(id) \div (HourTime \div MinuteTime)

\* The hour an id names is one an id can name.
LEMMA HoursInIds ==
  ASSUME NEW id \in Nat
  PROVE  HourOfId(id) \in IdHours /\ HourOfId(id) \in Int
<1> DEFINE w == HourTime \div MinuteTime
           m == MinuteOf(id)
<1>1. w \in Nat \ {0}
  <2>1. HourTime % MinuteTime = 0
    BY CaptureAssumption DEF CaptureAssumption
  <2>2. HourTime = MinuteTime * w + (HourTime % MinuteTime) /\ w \in Nat
    BY CaptureFacts, RestOf
  <2> HIDE DEF w
  <2>3. w # 0
    <3>1. w = 0 => MinuteTime * w = 0
      BY CaptureFacts
    <3>2. HourTime = MinuteTime * w + 0
      BY <2>1, <2>2, Zenon
    <3> QED BY <2>2, <3>1, <3>2, CaptureFacts
  <2> QED BY <2>2, <2>3
<1> HIDE DEF w
<1>2. m \in 0..MinuteSpan - 1
  <2>1. id \div OrdinalSpan \in Nat
    BY CaptureFacts, RestOf
  <2> QED BY <2>1, CaptureFacts, RestOf DEF MinuteOf
<1> HIDE DEF m
<1>3. \A x, y \in Nat : x <= y => x \div w \in 0..y \div w
  BY <1>1, QuotientsGrow
<1>4. MinuteSpan - 1 \in Nat /\ m \in Nat /\ m <= MinuteSpan - 1
  BY <1>2, CaptureFacts
<1>5. m \div w \in 0..(MinuteSpan - 1) \div w
  BY <1>3, <1>4
<1> QED BY <1>5 DEF HourOfId, IdHours, m, w

BlocksAre(kept) == \A key \in DOMAIN kept : kept[key] = FreshBlock(key[1], key[2])

\* Whatever is read, the blocks that are made are those of a first reader.
LEMMA LoadKeeps ==
  ASSUME beacons \in Drawn, BlocksAre(blocks), NEW keys, NEW b \in Int, Load(keys),
         \A key \in keys : key[1] \in BuiltIn => key[2] \in Int /\ key[2] <= b
  PROVE  beacons' \in Drawn /\ BlocksAre(blocks')
<1> DEFINE new == {key \in keys : key[1] \in BuiltIn /\ key[2] >= FirstHour} \ DOMAIN blocks
           ends == {(key[2] + 1) * HourTime : key \in {k \in new : k[1] = Scripted}}
           past == IF ends = {} \/ Max(ends) <= BeaconStart THEN beacons
                   ELSE ExtendBeacons(beacons, BeaconStart, Max(ends))
           made == [key \in new |-> BuiltBlock(past, key[1], key[2])]
<1>1. beacons' = past /\ blocks' = Over(blocks, made)
  BY DEF Load
<1>2. \A key \in new : key[2] \in Int /\ key[2] <= b /\ (key[2] + 1) * HourTime \in Int
  <2> TAKE key \in new
  <2>1. key[2] \in Int /\ key[2] <= b
    OBVIOUS
  <2> QED BY <2>1, CaptureFacts
<1>3. \A key \in new : key[1] = Scripted => (key[2] + 1) * HourTime \in ends
  OBVIOUS
<1>4. \A x \in ends : x \in Int /\ x <= (b + 1) * HourTime
  <2>1. ASSUME NEW key \in new PROVE (key[2] + 1) * HourTime <= (b + 1) * HourTime
    <3>1. \A x, y \in Int, d \in Nat : x <= y => x * d <= y * d
      OBVIOUS
    <3>2. key[2] + 1 \in Int /\ b + 1 \in Int /\ key[2] + 1 <= b + 1
      BY <1>2
    <3> QED BY <3>1, <3>2, CaptureFacts
  <2> QED BY <1>2, <2>1
<1> HIDE DEF new, ends, past, made
<1>5. ends # {} => /\ Max(ends) \in ends /\ \A x \in ends : Max(ends) >= x
                   /\ Max(ends) \in Int
  <2>1. (b + 1) * HourTime \in Int
    BY CaptureFacts
  <2> QED BY <1>4, <2>1, GreatestIs
<1>6. past \in Drawn /\ \A key \in new : key[1] = Scripted =>
          Past(past, (key[2] + 1) * HourTime) \/ (key[2] + 1) * HourTime <= BeaconStart
  <2>1. CASE ends = {}
    BY <1>3, <2>1 DEF past
  <2>2. CASE ends # {} /\ Max(ends) <= BeaconStart
    <3>1. past = beacons
      BY <2>2 DEF past
    <3>2. ASSUME NEW key \in new, key[1] = Scripted PROVE (key[2] + 1) * HourTime <= BeaconStart
      <4>1. (key[2] + 1) * HourTime \in ends
        BY <1>3, <3>2
      <4> QED BY <1>2, <1>5, <2>2, <4>1, CaptureFacts
    <3> QED BY <3>1, <3>2
  <2>3. CASE ends # {} /\ ~ (Max(ends) <= BeaconStart)
    <3>1. past = ExtendBeacons(beacons, BeaconStart, Max(ends))
      BY <2>3 DEF past
    <3>2. past \in Drawn /\ Past(past, Max(ends))
      BY <1>5, <2>3, <3>1, ExtendIs
    <3>3. ASSUME NEW key \in new, key[1] = Scripted PROVE Past(past, (key[2] + 1) * HourTime)
      <4>1. (key[2] + 1) * HourTime \in ends
        BY <1>3, <3>3
      <4>2. (key[2] + 1) * HourTime <= Max(ends) /\ (key[2] + 1) * HourTime \in Int
        BY <1>2, <1>5, <2>3, <4>1
      <4>3. past.times # <<>> /\ Last(past.times) > Max(ends)
        BY <3>2 DEF Past
      <4>4. Last(past.times) \in Int
        <5>1. past.times \in Seq(Int)
          BY <3>2, DrawnFacts DEF ScheduleRec
        <5> QED BY <4>3, <5>1, EmptySeq DEF Last
      <4> QED BY <1>5, <2>3, <4>2, <4>3, <4>4 DEF Past
    <3> QED BY <3>2, <3>3
  <2> QED BY <2>1, <2>2, <2>3
<1>7. \A key \in new : BuiltBlock(past, key[1], key[2]) = FreshBlock(key[1], key[2])
  BY <1>2, <1>6, BuiltIsFresh
<1>8. DOMAIN made = new /\ \A key \in new : made[key] = FreshBlock(key[1], key[2])
  BY <1>7 DEF made
<1>9. \A key \in DOMAIN blocks' : /\ key \in DOMAIN blocks \cup new
                                  /\ blocks'[key] = IF key \in DOMAIN blocks THEN blocks[key] ELSE made[key]
  BY <1>1, <1>8 DEF Over
<1>10. BlocksAre(blocks')
  BY <1>8, <1>9 DEF BlocksAre
<1> QED BY <1>1, <1>6, <1>10

ImportsAre(list) ==
  /\ list \in Seq(DOMAIN Captures)
  /\ \A i, j \in DOMAIN list : list[i] = list[j] => i = j

\* There is a name for every import, and none of them is a built-in sensor's.
LEMMA ImportsApart ==
  ASSUME ImportsAre(imports)
  PROVE  /\ DOMAIN imports = 1..Len(imports) /\ Len(imports) \in Nat
         /\ \A n \in DOMAIN imports : ImportNames[n] \notin BuiltIn
<1> DEFINE n == Len(imports)
           S == DOMAIN Captures
<1>1. imports \in [1..n -> S] /\ n \in Nat /\ DOMAIN imports = 1..n
  BY DEF ImportsAre
<1>2. imports \in Injection(1..n, S)
  BY <1>1 DEF ImportsAre, Injection, IsInjective
<1>3. IsFiniteSet(S) /\ Cardinality(S) <= Len(ImportNames) /\ ImportNames \in Seq(ToSet(ImportNames))
  BY CaptureAssumption DEF CaptureAssumption
<1>4. Cardinality(1..n) <= Cardinality(S) /\ Cardinality(S) \in Nat /\ Len(ImportNames) \in Nat
  <2> HIDE DEF n, S
  <2> QED BY <1>2, <1>3, FS_Injection, FS_CardinalityType
<1>5. Cardinality(1..n) = n
  <2> HIDE DEF n
  <2>1. Cardinality(1..n) = IF 1 > n THEN 0 ELSE n - 1 + 1
    BY <1>1, FS_Interval
  <2> QED BY <1>1, <2>1
<1>6. n <= Len(ImportNames)
  BY <1>1, <1>3, <1>4, <1>5
<1>7. ASSUME NEW i \in 1..n PROVE ImportNames[i] \notin BuiltIn
  <2>1. i \in DOMAIN ImportNames
    BY <1>1, <1>3, <1>4, <1>6
  <2>2. ImportNames[i] \in ToSet(ImportNames)
    BY <2>1 DEF ToSet
  <2>3. ToSet(ImportNames) \cap ToSet(BuiltInSensors) = {}
    BY CaptureAssumption DEF CaptureAssumption
  <2> QED BY <2>2, <2>3 DEF BuiltIn
<1> QED BY <1>1, <1>7

\* A built-in sensor is no import.
LEMMA BuiltInIsNone ==
  ASSUME ImportsAre(imports), NEW sensor \in BuiltIn
  PROVE  ~ IsImport(sensor)
BY ImportsApart DEF IsImport

\* Between them, reading a block makes no difference.
LEMMA BlockIsFresh ==
  ASSUME ImportsAre(imports), beacons \in Drawn, BlocksAre(blocks),
         NEW sensor \in BuiltIn, NEW hour \in Int
  PROVE  Block(sensor, hour) = IF hour < FirstHour THEN <<>> ELSE FreshBlock(sensor, hour)
<1>1. ~ IsImport(sensor)
  BY BuiltInIsNone
<1> DEFINE e == ExtendBeacons(beacons, BeaconStart, (hour + 1) * HourTime)
<1>2. e \in Drawn /\ Past(e, (hour + 1) * HourTime)
  <2>1. (hour + 1) * HourTime \in Int
    BY CaptureFacts
  <2> QED BY <2>1, ExtendIs
<1> HIDE DEF e
<1>3. BuiltBlock(e, sensor, hour) = FreshBlock(sensor, hour)
  BY <1>2, BuiltIsFresh
<1>4. <<sensor, hour>> \in DOMAIN blocks => blocks[<<sensor, hour>>] = FreshBlock(sensor, hour)
  BY DEF BlocksAre
<1> QED BY <1>1, <1>3, <1>4 DEF Block, e

\* An id of a built-in sensor is looked for in one block.
LEMMA BlockOfIdIs ==
  ASSUME ImportsAre(imports), NEW sensor \in BuiltIn, NEW id, SensorIndex[sensor] = IndexOf(id)
  PROVE  BlockOfId(id) = {<<sensor, HourOfId(id)>>}
<1>1. /\ SensorIndex[sensor] \in 0..FirstImportIndex - 1
      /\ \A other \in BuiltIn : SensorIndex[other] = SensorIndex[sensor] => other = sensor
  BY CaptureAssumption DEF CaptureAssumption, BuiltIn
<1>2. ASSUME NEW s \in Sensors, IndexOfSensor(s) = IndexOf(id) PROVE s = sensor
  <2>1. CASE s \in BuiltIn
    <3>1. IndexOfSensor(s) = SensorIndex[s]
      BY <2>1, BuiltInIsNone DEF IndexOfSensor
    <3> QED BY <1>1, <1>2, <2>1, <3>1
  <2>2. CASE s \notin BuiltIn
    <3>1. \E n \in DOMAIN imports : ImportNames[n] = s
      BY <2>2 DEF Sensors
    <3>2. IsImport(s) /\ ImportOf(s) \in DOMAIN imports
      BY <3>1 DEF IsImport, ImportOf
    <3>3. ImportOf(s) \in Nat /\ ImportOf(s) >= 1
      BY <3>2, ImportsApart
    <3>4. IndexOfSensor(s) = FirstImportIndex + ImportOf(s) - 1
      BY <3>2 DEF IndexOfSensor
    <3>5. IndexOfSensor(s) >= FirstImportIndex /\ IndexOfSensor(s) \in Int
      BY <3>3, <3>4, CaptureFacts
    <3> QED BY <1>1, <1>2, <3>5, CaptureFacts
  <2> QED BY <2>1, <2>2
<1>3. sensor \in Sensors /\ IndexOfSensor(sensor) = IndexOf(id)
  BY BuiltInIsNone DEF Sensors, IndexOfSensor
<1>4. {s \in Sensors : IndexOfSensor(s) = IndexOf(id)} = {sensor}
  BY <1>2, <1>3
<1> QED BY <1>4 DEF BlockOfId, HourOfId

-----------------------------------------------------------------------------
(* Rows that packets are kept for.                                         *)

\* A row is its sensor's.
LEMMA OfTheSensor ==
  ASSUME NEW drafts, NEW sensor, NEW index, NEW a
  PROVE  RowAt(drafts, sensor, index, a).sensor = sensor
<1> DEFINE i == EncodeSessionId(index, a[1] \div MinuteTime,
                  Cardinality({b \in PlacesOf(drafts) : Sooner(b, a) /\ b[1] \div MinuteTime = a[1] \div MinuteTime}))
<1>1. RowAt(drafts, sensor, index, a) = Over([id |-> i, sensor |-> sensor], drafts[a[2]])
  BY DEF RowAt
<1> HIDE DEF i
<1>2. Over([id |-> i, sensor |-> sensor], drafts[a[2]]).sensor = sensor
  BY DEF Over
<1> QED BY <1>1, <1>2, Zenon

\* The rows of an import are its sensor's.
LEMMA ImportRowsAre ==
  ASSUME ImportsAre(imports), NEW n \in DOMAIN imports
  PROVE  \E N \in Nat : /\ DOMAIN ImportRows(n, imports[n]) = 1..N
                        /\ \A k \in 1..N : ImportRows(n, imports[n])[k].sensor = ImportNames[n]
<1> DEFINE x == Captures[imports[n]].sessions
           window == ImportWindow(Captures[imports[n]])
           span == Max({1, window[2] - window[1]})
           count == Max({1, x})
           drafts == [i \in 1..count |-> [ImportDraft[imports[n]] EXCEPT
                                            !.start = window[1] + ((i - 1) * span) \div count]]
<1>1. x \in Int
  BY CaptureAssumption DEF CaptureAssumption, ImportsAre
<1>2. ImportRows(n, imports[n]) = Finalise(drafts, ImportNames[n], FirstImportIndex + n - 1)
  BY DEF ImportRows
<1>3. count \in Int
  <2> HIDE DEF x
  <2>1. \E b \in Int : \A y \in {1, x} : y <= b
    BY <1>1
  <2> QED BY <1>1, <2>1, GreatestIs
<1>4. DOMAIN drafts = 1..count
  OBVIOUS
<1> HIDE DEF x, window, span, count, drafts
<1>5. IsFiniteSet(DOMAIN drafts)
  BY <1>3, <1>4, FS_Interval
<1>6. Cardinality(PlacesOf(drafts)) \in Nat
  BY <1>5, PlacesAre
<1>7. /\ DOMAIN ImportRows(n, imports[n]) = 1..Cardinality(PlacesOf(drafts))
      /\ \A k \in 1..Cardinality(PlacesOf(drafts)) :
            ImportRows(n, imports[n])[k]
              = RowAt(drafts, ImportNames[n], FirstImportIndex + n - 1, PlaceAt(drafts, k))
  BY <1>2, FinalisedAre
<1>8. \A k \in 1..Cardinality(PlacesOf(drafts)) : ImportRows(n, imports[n])[k].sensor = ImportNames[n]
  <2> TAKE k \in 1..Cardinality(PlacesOf(drafts))
  <2> DEFINE a == PlaceAt(drafts, k)
             index == FirstImportIndex + n - 1
             name == ImportNames[n]
  <2>1. ImportRows(n, imports[n])[k] = RowAt(drafts, name, index, a)
    BY <1>7
  <2> HIDE DEF a, index, name
  <2>2. RowAt(drafts, name, index, a).sensor = name
    BY OfTheSensor
  <2>3. ImportRows(n, imports[n])[k].sensor = name
    BY <2>1, <2>2, Zenon
  <2> QED BY <2>3 DEF name
<1> QED BY <1>6, <1>7, <1>8

\* What is read of an import is the import's.
LEMMA ImportBlockIs ==
  ASSUME ImportsAre(imports), NEW sensor, IsImport(sensor), NEW hour, NEW row \in ToSet(Block(sensor, hour))
  PROVE  row.sensor = sensor
<1> DEFINE n == ImportOf(sensor)
           rows == ImportRows(n, imports[n])
<1>1. n \in DOMAIN imports /\ ImportNames[n] = sensor
  BY DEF IsImport, ImportOf
<1>2. Block(sensor, hour) = OfHour(rows, hour)
  BY DEF Block
<1>3. PICK N \in Nat : DOMAIN rows = 1..N /\ \A k \in 1..N : rows[k].sensor = ImportNames[n]
  BY <1>1, ImportRowsAre
<1> HIDE DEF rows, n
<1>4. PICK k \in 1..Cardinality(RowsDue(rows, hour)) : row = rows[Min(RowsDue(rows, hour)) + k - 1]
  BY <1>2, <1>3, OfHourIs DEF ToSet
<1>5. Min(RowsDue(rows, hour)) + k - 1 \in 1..N
  BY <1>3, OfHourIs
<1> QED BY <1>1, <1>3, <1>4, <1>5

\* A row of a built-in sensor that could be read at a time under an id.
Kept(time, id, row) ==
  /\ id \in Nat /\ HourOfId(id) >= FirstHour
  /\ \E sensor \in BuiltIn :
        /\ SensorIndex[sensor] = IndexOf(id)
        /\ row \in ToSet(FreshBlock(sensor, HourOfId(id)))
        /\ row.id = id /\ row.start <= time - Lag[sensor]

\* A lag is a time.
LEMMA LagIs ==
  ASSUME NEW sensor \in BuiltIn
  PROVE  Lag[sensor] \in Nat
BY CaptureAssumption DEF CaptureAssumption, BuiltIn

\* What could be read can be read later.
LEMMA KeptStays ==
  ASSUME NEW s \in Int, NEW t \in Int, s <= t, NEW id, NEW row, Kept(s, id, row)
  PROVE  Kept(t, id, row)
<1>1. PICK sensor \in BuiltIn : /\ SensorIndex[sensor] = IndexOf(id)
                                /\ row \in ToSet(FreshBlock(sensor, HourOfId(id)))
                                /\ row.id = id /\ row.start <= s - Lag[sensor]
  BY DEF Kept
<1>2. HourOfId(id) \in IdHours
  BY HoursInIds DEF Kept
<1>3. row.start \in Int
  BY <1>1, <1>2, FreshIsSound DEF ToSet
<1>4. row.start <= t - Lag[sensor]
  BY <1>1, <1>3, LagIs
<1> QED BY <1>1, <1>4 DEF Kept

CaptureInv ==
  /\ now \in Int
  /\ ImportsAre(imports)
  /\ beacons \in Drawn
  /\ BlocksAre(blocks)
  /\ "row" \in DOMAIN walk /\ walk.row \in Nat
  /\ \A id \in DOMAIN pcaps : Kept(now, id, pcaps[id])

\* It is the one row of its id.
LEMMA KeptIsRow ==
  ASSUME CaptureInv, NEW id, NEW row, Kept(now, id, row)
  PROVE  Row(id) = {row}
<1>1. PICK sensor \in BuiltIn : /\ SensorIndex[sensor] = IndexOf(id)
                                /\ row \in ToSet(FreshBlock(sensor, HourOfId(id)))
                                /\ row.id = id /\ row.start <= now - Lag[sensor]
  BY DEF Kept
<1> DEFINE h == HourOfId(id)
           fresh == FreshBlock(sensor, h)
<1>2. h \in IdHours /\ h \in Int /\ h >= FirstHour /\ FirstHour \in Int
  BY HoursInIds, HoursAreInts DEF Kept
<1>3. BlockOfId(id) = {<<sensor, h>>}
  BY <1>1, BlockOfIdIs DEF CaptureInv
<1>4. Block(sensor, h) = fresh
  <2>1. Block(sensor, h) = IF h < FirstHour THEN <<>> ELSE FreshBlock(sensor, h)
    BY <1>2, BlockIsFresh DEF CaptureInv
  <2>2. ~ (h < FirstHour)
    BY <1>2
  <2> QED BY <2>1, <2>2
<1>5. /\ \A k \in DOMAIN fresh : fresh[k].sensor = sensor
      /\ \A k, l \in DOMAIN fresh : fresh[k].id = fresh[l].id => fresh[k] = fresh[l]
  BY <1>2, FreshIsSound
<1>6. VisibleUntil(sensor) = now - Lag[sensor]
  BY BuiltInIsNone DEF VisibleUntil, CaptureInv
<1>7. row \in ToSet(fresh)
  BY <1>1
<1> HIDE DEF h, fresh
<1>8. RawRow(id) = {r \in ToSet(fresh) : r.id = id}
  BY <1>3, <1>4 DEF RawRow
<1>9. RawRow(id) = {row}
  BY <1>1, <1>5, <1>7, <1>8 DEF ToSet
<1>10. row.sensor = sensor
  BY <1>5, <1>7 DEF ToSet
<1>11. row.start <= VisibleUntil(row.sensor)
  BY <1>1, <1>6, <1>10, Zenon
<1> QED BY <1>9, <1>11 DEF Row

\* The row of an id is an import's or is such a row.
LEMMA RowIsKept ==
  ASSUME CaptureInv, NEW id \in Nat, NEW row \in Row(id), ~ IsImport(row.sensor)
  PROVE  Kept(now, id, row)
<1> DEFINE h == HourOfId(id)
<1>1. PICK key \in BlockOfId(id) : row \in ToSet(Block(key[1], key[2])) /\ row.id = id
  BY DEF Row, RawRow
<1>2. PICK s \in Sensors : IndexOfSensor(s) = IndexOf(id) /\ key = <<s, h>>
  BY DEF BlockOfId, HourOfId
<1>3. row \in ToSet(Block(s, h))
  BY <1>1, <1>2
<1>4. ~ IsImport(s)
  BY <1>3, ImportBlockIs DEF CaptureInv
<1>5. s \in BuiltIn /\ SensorIndex[s] = IndexOf(id)
  BY <1>2, <1>4 DEF Sensors, IsImport, IndexOfSensor
<1>6. h \in IdHours /\ h \in Int /\ FirstHour \in Int
  BY HoursInIds, HoursAreInts
<1>7. Block(s, h) = IF h < FirstHour THEN <<>> ELSE FreshBlock(s, h)
  BY <1>5, <1>6, BlockIsFresh DEF CaptureInv
<1>8. h >= FirstHour /\ row \in ToSet(FreshBlock(s, h))
  <2>1. ToSet(<<>>) = {}
    BY DEF ToSet
  <2>2. ~ (h < FirstHour)
    BY <1>3, <1>7, <2>1
  <2> QED BY <1>3, <1>6, <1>7, <2>2
<1>9. row.sensor = s
  BY <1>5, <1>6, <1>8, FreshIsSound DEF ToSet
<1>10. row.start <= now - Lag[s]
  BY <1>4, <1>9 DEF Row, VisibleUntil
<1> QED BY <1>1, <1>5, <1>8, <1>10 DEF Kept

-----------------------------------------------------------------------------
(* The steps.                                                              *)

\* Keys of blocks that no reader passes.
Bounded(keys) ==
  \E b \in Int : \A key \in keys : key[1] \in BuiltIn => key[2] \in Int /\ key[2] <= b

\* Keys that are read together.
LEMMA BoundedTogether ==
  ASSUME NEW K, NEW L, Bounded(K), Bounded(L)
  PROVE  Bounded(K \cup L)
<1>1. PICK b \in Int : \A key \in K : key[1] \in BuiltIn => key[2] \in Int /\ key[2] <= b
  BY DEF Bounded
<1>2. PICK d \in Int : \A key \in L : key[1] \in BuiltIn => key[2] \in Int /\ key[2] <= d
  BY DEF Bounded
<1>3. CASE b <= d
  <2>1. \A key \in K \cup L : key[1] \in BuiltIn => key[2] \in Int /\ key[2] <= d
    BY <1>1, <1>2, <1>3
  <2> QED BY <2>1 DEF Bounded
<1>4. CASE d <= b
  <2>1. \A key \in K \cup L : key[1] \in BuiltIn => key[2] \in Int /\ key[2] <= b
    BY <1>1, <1>2, <1>4
  <2> QED BY <2>1 DEF Bounded
<1> QED BY <1>3, <1>4

\* The block of an id.
LEMMA BoundedOfId ==
  ASSUME NEW id \in Nat
  PROVE  Bounded(BlockOfId(id))
<1>1. HourOfId(id) \in Int
  BY HoursInIds
<1>2. \A key \in BlockOfId(id) : key[2] = HourOfId(id)
  BY DEF BlockOfId, HourOfId
<1>3. \A key \in BlockOfId(id) : key[2] \in Int /\ key[2] <= HourOfId(id)
  BY <1>1, <1>2
<1> QED BY <1>1, <1>3 DEF Bounded

\* The blocks of a window.
LEMMA BoundedRead ==
  ASSUME CaptureInv, NEW sensor, NEW start, NEW end
  PROVE  Bounded({sensor} \X HoursRead(sensor, start, end))
<1> DEFINE K == {sensor} \X HoursRead(sensor, start, end)
<1>1. CASE sensor \in BuiltIn
  <2> DEFINE b == HourOf(now - Lag[sensor])
  <2>1. now - Lag[sensor] \in Int
    BY <1>1, LagIs DEF CaptureInv
  <2>2. b \in Int
    BY <2>1, HourIs
  <2>3. VisibleUntil(sensor) = now - Lag[sensor]
    BY <1>1, BuiltInIsNone DEF VisibleUntil, CaptureInv
  <2>4. HoursRead(sensor, start, end) \subseteq FirstHour..b
    BY <2>3 DEF HoursRead
  <2> HIDE DEF b
  <2>5. \A key \in K : key[2] \in Int /\ key[2] <= b
    BY <2>2, <2>4, HoursAreInts
  <2> QED BY <2>2, <2>5 DEF Bounded
<1>2. CASE sensor \notin BuiltIn
  <2>1. \A key \in K : key[1] \notin BuiltIn
    BY <1>2
  <2> QED BY <2>1 DEF Bounded
<1> QED BY <1>1, <1>2

\* The blocks the ledger reads.
LEMMA BoundedLedger ==
  ASSUME CaptureInv
  PROVE  Bounded(LedgerReads)
<1> DEFINE b == HourOf(now)
<1>1. b \in Int
  BY HourIs DEF CaptureInv
<1>2. LedgerReads \subseteq BuiltIn \X ((ledger.next - 1)..b)
  BY DEF LedgerReads
<1> HIDE DEF b
<1>3. \A key \in LedgerReads : key[2] \in Int /\ key[2] <= b
  BY <1>1, <1>2
<1> QED BY <1>1, <1>3 DEF Bounded

\* No blocks.
LEMMA BoundedNone == Bounded({})
BY DEF Bounded

\* A walk stays with its row.
LEMMA WalkedIs ==
  ASSUME NEW at, "row" \in DOMAIN at, NEW page
  PROVE  "row" \in DOMAIN Walked(at, page) /\ Walked(at, page).row = at.row
BY DEF Walked

\* Steps that only read.
LEMMA ReadingKeeps ==
  ASSUME CaptureInv, NEW keys, Bounded(keys), Load(keys), UNCHANGED <<now, imports>>,
         "row" \in DOMAIN walk' /\ walk'.row \in Nat,
         \A id \in DOMAIN pcaps' : Kept(now, id, pcaps'[id])
  PROVE  CaptureInv'
<1>1. PICK b \in Int : \A key \in keys : key[1] \in BuiltIn => key[2] \in Int /\ key[2] <= b
  BY DEF Bounded
<1>2. beacons' \in Drawn /\ BlocksAre(blocks')
  BY <1>1, LoadKeeps DEF CaptureInv
<1> QED BY <1>2 DEF CaptureInv

\* The invariant holds at first.
LEMMA CaptureStarts == CaptureInit => CaptureInv
<1> SUFFICES ASSUME CaptureInit PROVE CaptureInv
  OBVIOUS
<1>1. now \in Int
  BY CaptureFacts DEF CaptureInit
<1>2. ImportsAre(imports)
  BY EmptySeq DEF CaptureInit, ImportsAre
<1>3. beacons \in Drawn
  BY DrawnGrows DEF CaptureInit
<1>4. BlocksAre(blocks)
  BY DEF CaptureInit, BlocksAre
<1>5. "row" \in DOMAIN walk /\ walk.row \in Nat
  BY DEF CaptureInit, NoWalk
<1>6. \A id \in DOMAIN pcaps : Kept(now, id, pcaps[id])
  BY DEF CaptureInit
<1> QED BY <1>1, <1>2, <1>3, <1>4, <1>5, <1>6 DEF CaptureInv

\* Ids are numbers.
LEMMA AskedIsNat == AskedIds \subseteq Nat
BY CaptureAssumption DEF CaptureAssumption

\* A page of sessions like one keeps the row the walk is about.
LEMMA PagingKeeps ==
  ASSUME CaptureInv, Paging
  PROVE  CaptureInv'
<1>1. ASSUME NEW id \in AskedIds, NEW half \in RelatedWindows, ListRelated(id, half) PROVE CaptureInv'
  <2>1. PICK row \in Row(id) :
           /\ walk' = Walked([NoWalk EXCEPT !.row = id, !.half = half,
                                            !.promised = {r.id : r \in ToSet(RelatedTo(row, half))}],
                             RelatedAnswer(row, half, NoCursor))
           /\ Load(BlockOfId(id) \cup BlocksRelated(row, half))
    BY <1>1 DEF ListRelated
  <2>2. Bounded(BlockOfId(id) \cup BlocksRelated(row, half))
    BY BoundedOfId, BoundedRead, BoundedTogether, AskedIsNat DEF BlocksRelated
  <2>3. "row" \in DOMAIN walk' /\ walk'.row \in Nat
    <3> DEFINE at == [NoWalk EXCEPT !.row = id, !.half = half,
                                    !.promised = {r.id : r \in ToSet(RelatedTo(row, half))}]
    <3>1. "row" \in DOMAIN at /\ at.row = id
      BY DEF NoWalk
    <3>2. walk' = Walked(at, RelatedAnswer(row, half, NoCursor))
      BY <2>1
    <3> HIDE DEF at
    <3>3. "row" \in DOMAIN walk' /\ walk'.row = at.row
      BY <3>1, <3>2, WalkedIs
    <3> QED BY <3>1, <3>3, AskedIsNat
  <2>4. UNCHANGED <<now, imports, pcaps>>
    BY <1>1 DEF ListRelated
  <2> QED BY <2>1, <2>2, <2>3, <2>4, ReadingKeeps DEF CaptureInv
<1>2. CASE NextRelated /\ Row(walk.row) = {}
  <2>1. walk' = NoWalk /\ Load(BlockOfId(walk.row)) /\ UNCHANGED <<now, imports, pcaps>>
    BY <1>2 DEF NextRelated
  <2>2. Bounded(BlockOfId(walk.row))
    BY BoundedOfId DEF CaptureInv
  <2>3. "row" \in DOMAIN walk' /\ walk'.row \in Nat
    BY <2>1 DEF NoWalk
  <2> QED BY <2>1, <2>2, <2>3, ReadingKeeps DEF CaptureInv
<1>3. CASE NextRelated /\ Row(walk.row) # {}
  <2>1. PICK row \in Row(walk.row) :
           /\ walk' = Walked(walk, RelatedAnswer(row, walk.half, walk.cursor))
           /\ Load(BlockOfId(walk.row) \cup BlocksRelated(row, walk.half))
    BY <1>3 DEF NextRelated
  <2>2. Bounded(BlockOfId(walk.row) \cup BlocksRelated(row, walk.half))
    <3>1. Bounded(BlockOfId(walk.row))
      BY BoundedOfId DEF CaptureInv
    <3>2. Bounded(BlocksRelated(row, walk.half))
      BY BoundedRead DEF BlocksRelated
    <3> QED BY <3>1, <3>2, BoundedTogether
  <2>3. "row" \in DOMAIN walk' /\ walk'.row \in Nat
    BY <2>1, WalkedIs DEF CaptureInv
  <2>4. UNCHANGED <<now, imports, pcaps>>
    BY <1>3 DEF NextRelated
  <2> QED BY <2>1, <2>2, <2>3, <2>4, ReadingKeeps DEF CaptureInv
<1>4. CASE Leave
  <2>1. walk' = NoWalk /\ UNCHANGED <<now, beacons, blocks, imports, pcaps>>
    BY <1>4 DEF Leave
  <2>2. "row" \in DOMAIN walk' /\ walk'.row \in Nat
    BY <2>1 DEF NoWalk
  <2> QED BY <2>1, <2>2 DEF CaptureInv
<1> QED BY <1>1, <1>2, <1>3, <1>4 DEF Paging

\* Reading keeps the invariant.
LEMMA ReadsKeep ==
  ASSUME CaptureInv, Reading
  PROVE  CaptureInv'
<1>1. ASSUME NEW sensor, NEW start, NEW end, ReadRows(sensor, start, end) PROVE CaptureInv'
  BY <1>1, BoundedRead, ReadingKeeps DEF ReadRows, CaptureInv
<1>2. CASE ReadDetections
  BY <1>2, BoundedLedger, ReadingKeeps DEF ReadDetections, CaptureInv
<1>3. ASSUME NEW id \in AskedIds, GetSession(id) PROVE CaptureInv'
  <2> DEFINE keys == BlockOfId(id) \cup (IF Row(id) = {} THEN {} ELSE LedgerReads)
  <2>1. Load(keys) /\ UNCHANGED <<now, imports, pcaps, walk>>
    BY <1>3 DEF GetSession
  <2>2. Bounded(keys)
    <3>1. Bounded(BlockOfId(id))
      BY BoundedOfId, AskedIsNat
    <3>2. Bounded(IF Row(id) = {} THEN {} ELSE LedgerReads)
      BY BoundedNone, BoundedLedger
    <3> QED BY <3>1, <3>2, BoundedTogether
  <2> HIDE DEF keys
  <2> QED BY <2>1, <2>2, ReadingKeeps DEF CaptureInv
<1> QED BY <1>1, <1>2, <1>3 DEF Reading

\* Packets that are written are those of the row as it is; the cache may be
\* emptied first.
LEMMA FetchingKeeps ==
  ASSUME CaptureInv, Fetching
  PROVE  CaptureInv'
<1>1. ASSUME NEW id \in AskedIds, GetPcap(id) PROVE CaptureInv'
  <2>1. PICK row \in Row(id) :
          /\ PcapStatus(row) = "available"
          /\ pcaps' = IF id \in DOMAIN pcaps THEN pcaps
                      ELSE Over(IF Cardinality(DOMAIN pcaps) >= PcapCacheSize THEN <<>> ELSE pcaps,
                                [asked \in {id} |-> row])
    BY <1>1 DEF GetPcap
  <2>2. Load(BlockOfId(id)) /\ UNCHANGED <<now, imports, walk>>
    BY <1>1 DEF GetPcap
  <2>3. ~ IsImport(row.sensor)
    BY <2>1 DEF PcapStatus
  <2>4. Kept(now, id, row)
    BY <2>3, RowIsKept, AskedIsNat
  <2>5. \A other \in DOMAIN pcaps' : Kept(now, other, pcaps'[other])
    <3>1. CASE id \in DOMAIN pcaps
      BY <2>1, <3>1 DEF CaptureInv
    <3>2. CASE id \notin DOMAIN pcaps
      <4> DEFINE old == IF Cardinality(DOMAIN pcaps) >= PcapCacheSize THEN <<>> ELSE pcaps
      <4>1. \A other \in DOMAIN old : Kept(now, other, old[other])
        BY DEF CaptureInv
      <4>2. pcaps' = Over(old, [asked \in {id} |-> row])
        BY <2>1, <3>2
      <4> HIDE DEF old
      <4>3. \A other \in DOMAIN pcaps' :
               \/ other \in DOMAIN old /\ pcaps'[other] = old[other]
               \/ other = id /\ pcaps'[other] = row
        BY <4>2 DEF Over
      <4> QED BY <2>4, <4>1, <4>3
    <3> QED BY <3>1, <3>2
  <2>6. Bounded(BlockOfId(id))
    BY BoundedOfId, AskedIsNat
  <2> QED BY <2>2, <2>5, <2>6, ReadingKeeps DEF CaptureInv
<1>2. ASSUME NEW import \in DOMAIN Captures, RegisterImport(import) PROVE CaptureInv'
  <2>1. /\ imports' = IF import \in ToSet(imports) THEN imports ELSE Append(imports, import)
        /\ UNCHANGED <<now, beacons, blocks, pcaps, walk>>
    BY <1>2 DEF RegisterImport
  <2>2. ImportsAre(imports')
    <3>1. CASE import \in ToSet(imports)
      BY <2>1, <3>1 DEF CaptureInv
    <3>2. CASE import \notin ToSet(imports)
      <4>1. imports' = Append(imports, import) /\ imports \in Seq(DOMAIN Captures)
        BY <2>1, <3>2 DEF CaptureInv, ImportsAre
      <4>2. imports' \in Seq(DOMAIN Captures)
        BY <4>1
      <4>3. /\ DOMAIN imports = 1..Len(imports) /\ Len(imports) \in Nat
            /\ DOMAIN imports' = 1..Len(imports) + 1
            /\ imports'[Len(imports) + 1] = import
            /\ \A i \in 1..Len(imports) : imports'[i] = imports[i]
        BY <4>1
      <4>4. \A i \in 1..Len(imports) : imports[i] # import
        BY <3>2, <4>3 DEF ToSet
      <4>5. \A i, j \in DOMAIN imports' : imports'[i] = imports'[j] => i = j
        <5> TAKE i, j \in DOMAIN imports'
        <5>1. i \in 1..Len(imports) \/ i = Len(imports) + 1
          BY <4>3
        <5>2. j \in 1..Len(imports) \/ j = Len(imports) + 1
          BY <4>3
        <5>3. \A k, l \in 1..Len(imports) : imports[k] = imports[l] => k = l
          BY <4>3 DEF CaptureInv, ImportsAre
        <5> QED BY <4>3, <4>4, <5>1, <5>2, <5>3
      <4> QED BY <4>2, <4>5 DEF ImportsAre
    <3> QED BY <3>1, <3>2
  <2> QED BY <2>1, <2>2 DEF CaptureInv
<1>3. CASE ClearImports
  <2>1. /\ imports' = <<>> /\ UNCHANGED <<now, beacons, blocks, pcaps>>
        /\ walk' = IF walk = NoWalk THEN walk ELSE [walk EXCEPT !.reset = TRUE]
    BY <1>3 DEF ClearImports
  <2>2. ImportsAre(imports')
    BY <2>1, EmptySeq DEF ImportsAre
  <2>3. "row" \in DOMAIN walk' /\ walk'.row \in Nat
    BY <2>1 DEF CaptureInv
  <2> QED BY <2>1, <2>2, <2>3 DEF CaptureInv
<1> QED BY <1>1, <1>2, <1>3 DEF Fetching

\* So does every step.
LEMMA CaptureStep == CaptureInv /\ [CaptureNext]_cvars => CaptureInv'
<1> SUFFICES ASSUME CaptureInv, [CaptureNext]_cvars PROVE CaptureInv'
  OBVIOUS
<1>1. CASE Tick
  <2>1. now' = now + 1 /\ UNCHANGED <<beacons, blocks, imports, pcaps, walk>>
    BY <1>1 DEF Tick
  <2>2. now \in Int /\ now' \in Int /\ now <= now'
    BY <2>1 DEF CaptureInv
  <2>3. \A id \in DOMAIN pcaps : Kept(now', id, pcaps[id])
    BY <2>2, KeptStays DEF CaptureInv
  <2> QED BY <2>1, <2>2, <2>3 DEF CaptureInv
<1>2. CASE UNCHANGED cvars
  BY <1>2 DEF cvars, CaptureInv
<1> QED BY <1>1, <1>2, ReadsKeep, PagingKeeps, FetchingKeeps DEF CaptureNext

\* There is one capture, whoever reads what part of it first.
THEOREM CaptureIsTheSame == CaptureSpec => []CaptureIsOne
<1>1. CaptureInv => CaptureIsOne
  <2> SUFFICES ASSUME CaptureInv PROVE CaptureIsOne
    OBVIOUS
  <2>1. BlocksDontDependOnOrder
    BY DEF CaptureInv, BlocksAre, BlocksDontDependOnOrder
  <2>2. PcapIsOfTheRow
    BY KeptIsRow DEF CaptureInv, PcapIsOfTheRow
  <2> QED BY <2>1, <2>2 DEF CaptureIsOne
<1> QED BY CaptureStarts, CaptureStep, <1>1, PTL DEF CaptureSpec
=============================================================================
