-------------------------- MODULE WorkspaceProofs --------------------------
(***************************************************************************)
(* Theorems of the shared documents and the live tap.                      *)
(***************************************************************************)
EXTENDS MCServices, ServicesProofs, SequenceTheorems

-----------------------------------------------------------------------------
(* Counting, and functions defined by recursion.                           *)

LEMMA Counting ==
  ASSUME NEW m \in Nat, NEW S, 0 \in S, \A n \in 0..m - 1 : n \in S => n + 1 \in S
  PROVE  0..m \subseteq S
<1> SUFFICES ASSUME ~ (0..m \subseteq S) PROVE FALSE
  OBVIOUS
<1> DEFINE T == (0..m) \ S
<1>1. T \subseteq Nat /\ T # {}
  OBVIOUS
<1>2. PICK x \in T : \A y \in T : x <= y
  <2> HIDE DEF T
  <2> QED BY <1>1, LeastExists
<1>3. x \in 1..m /\ x \notin S
  BY <1>2
<1>4. x - 1 \in 0..m - 1 /\ (x - 1) + 1 = x /\ ~ (x <= x - 1)
  BY <1>3
<1>5. x - 1 \in S
  BY <1>2, <1>4
<1> QED BY <1>3, <1>4, <1>5

Repeats(g, L, S, base, step) ==
  /\ g \in [0..L -> S]
  /\ g[0] = base
  /\ \A n \in 1..L : g[n] = step[n][g[n - 1]]

\* A step, taken any number of times from where it begins.
LEMMA RecursionExists ==
  ASSUME NEW L \in Nat, NEW S, NEW base \in S, NEW step \in [1..L -> [S -> S]]
  PROVE  \E g : Repeats(g, L, S, base, step)
<1> DEFINE Reached == {m \in 0..L : \E g : Repeats(g, m, S, base, step)}
<1>1. 0 \in Reached
  <2> DEFINE g == [n \in 0..0 |-> base]
  <2>1. g \in [0..0 -> S] /\ g[0] = base /\ 1..0 = {} /\ 0 \in 0..L
    OBVIOUS
  <2> HIDE DEF g
  <2> QED BY <2>1 DEF Repeats
<1>2. ASSUME NEW m \in 0..L - 1, m \in Reached PROVE m + 1 \in Reached
  <2>1. PICK g : Repeats(g, m, S, base, step)
    BY <1>2
  <2> USE <2>1 DEF Repeats
  <2>2. m + 1 \in 1..L /\ m \in 0..m /\ m + 1 \in 0..L
    OBVIOUS
  <2>3. g[m] \in S /\ step[m + 1][g[m]] \in S
    BY <2>1, <2>2
  <2> DEFINE h == [n \in 0..m + 1 |-> IF n = m + 1 THEN step[m + 1][g[m]] ELSE g[n]]
  <2>4. h \in [0..m + 1 -> S]
    <3>1. ASSUME NEW n \in 0..m + 1 PROVE (IF n = m + 1 THEN step[m + 1][g[m]] ELSE g[n]) \in S
      <4>1. n # m + 1 => n \in 0..m
        OBVIOUS
      <4> QED BY <2>3, <4>1
    <3> QED BY <3>1
  <2>5. h[0] = base
    <3>1. 0 \in 0..m + 1 /\ 0 # m + 1
      OBVIOUS
    <3>2. h[0] = g[0]
      BY <3>1
    <3> HIDE DEF h
    <3> QED BY <2>1, <3>2
  <2>6. ASSUME NEW n \in 1..m + 1 PROVE h[n] = step[n][h[n - 1]]
    <3>1. CASE n = m + 1
      <4>1. n - 1 = m /\ n - 1 \in 0..m + 1 /\ n - 1 # m + 1 /\ n \in 0..m + 1
        BY <3>1
      <4>2. h[n - 1] = g[m] /\ h[n] = step[m + 1][g[m]]
        BY <3>1, <4>1
      <4> HIDE DEF h
      <4> QED BY <3>1, <4>2
    <3>2. CASE n # m + 1
      <4>1. n \in 1..m /\ n - 1 \in 0..m + 1 /\ n - 1 # m + 1 /\ n \in 0..m + 1
        BY <3>2
      <4>2. h[n - 1] = g[n - 1] /\ h[n] = g[n]
        BY <3>2, <4>1
      <4> HIDE DEF h
      <4> QED BY <2>1, <4>1, <4>2
    <3> QED BY <3>1, <3>2
  <2> HIDE DEF h
  <2> QED BY <2>2, <2>4, <2>5, <2>6
<1>3. L \in Reached
  <2>1. 0..L \subseteq Reached
    <3> HIDE DEF Reached
    <3> QED BY <1>1, <1>2, Counting
  <2> HIDE DEF Reached
  <2> QED BY <2>1
<1> QED BY <1>3

-----------------------------------------------------------------------------
(* Cases: what is counted.                                                 *)

CaseRec == [version: 1..MaxEdits + 1, content: Content]

Kept == [case: 1..MaxCases, version: 1..MaxEdits + 1, content: Content, resets: 0..MaxEras]

LEMMA CaseFacts ==
  ASSUME cases \in Seq(CaseRec)
  PROVE  /\ Len(cases) \in Nat /\ DOMAIN cases = 1..Len(cases)
         /\ \A c \in 1..Len(cases) :
              cases[c] \in CaseRec /\ cases[c].version \in Nat \ {0} /\ cases[c].content \in Content
<1>1. \A c \in 1..Len(cases) : cases[c] \in CaseRec
  OBVIOUS
<1>2. MaxEdits \in Nat
  BY CaseConstants
<1> QED BY <1>1, <1>2 DEF CaseRec

\* The recursion of EditsUpTo is well defined.
LEMMA EditsAreDefined ==
  ASSUME cases \in Seq(CaseRec)
  PROVE  /\ EditsUpTo[0] = 0
         /\ \A c \in 1..Len(cases) : EditsUpTo[c] = EditsUpTo[c - 1] + cases[c].version - 1
<1> DEFINE L == Len(cases)
           step == [c \in 1..L |-> [n \in Int |-> n + cases[c].version - 1]]
           Step(g, c) == IF c = 0 THEN 0 ELSE g[c - 1] + cases[c].version - 1
<1>1. L \in Nat /\ \A c \in 1..L : cases[c].version \in Nat
  BY CaseFacts
<1>2. step \in [1..L -> [Int -> Int]]
  <2>1. ASSUME NEW c \in 1..L, NEW n \in Int PROVE n + cases[c].version - 1 \in Int
    BY <1>1
  <2> QED BY <2>1
<1>3. PICK g \in [0..L -> Int] : g[0] = 0 /\ \A n \in 1..L : g[n] = step[n][g[n - 1]]
  <2> DEFINE S == Int
             base == 0
  <2>1. base \in S /\ step \in [1..L -> [S -> S]] /\ L \in Nat
    BY <1>1, <1>2
  <2> HIDE DEF step, L, S, base
  <2>2. \E g : Repeats(g, L, S, base, step)
    BY <2>1, RecursionExists
  <2> QED BY <2>2 DEF S, base, Repeats
<1>4. \A n \in 0..L : g[n] = Step(g, n)
  <2> TAKE n \in 0..L
  <2>1. CASE n = 0
    BY <1>3, <2>1
  <2>2. CASE n # 0
    <3>1. n \in 1..L /\ n - 1 \in 0..L
      BY <1>1, <2>2
    <3>2. g[n - 1] \in Int
      BY <1>3, <3>1
    <3>3. step[n][g[n - 1]] = g[n - 1] + cases[n].version - 1
      BY <3>1, <3>2
    <3> QED BY <1>3, <2>2, <3>1, <3>3
  <2> QED BY <2>1, <2>2
<1>5. g = [n \in 0..L |-> Step(g, n)]
  <2>1. g = [n \in 0..L |-> g[n]]
    BY <1>3
  <2> HIDE DEF Step, L
  <2> QED BY <1>4, <2>1
<1>6. EditsUpTo = CHOOSE h : h = [n \in 0..L |-> Step(h, n)]
  BY DEF EditsUpTo
<1>7. EditsUpTo = [n \in 0..L |-> Step(EditsUpTo, n)]
  <2> HIDE DEF Step, L
  <2> QED BY <1>5, <1>6
<1>8. \A n \in 0..L : EditsUpTo[n] = Step(EditsUpTo, n)
  <2> HIDE DEF Step, L
  <2> QED BY <1>7
<1>9. 0 \in 0..L /\ \A n \in 1..L : n \in 0..L /\ n # 0
  BY <1>1
<1> QED BY <1>8, <1>9

\* No case was edited more often than all of them together.
LEMMA EditsCover ==
  ASSUME cases \in Seq(CaseRec)
  PROVE  Edits \in Nat /\ \A c \in 1..Len(cases) : cases[c].version - 1 <= Edits
<1> DEFINE L == Len(cases)
           U == EditsUpTo
           Covered == {n \in 0..L : U[n] \in Nat /\ \A c \in 1..n : cases[c].version - 1 <= U[n]}
<1>1. L \in Nat /\ \A c \in 1..L : cases[c].version \in Nat \ {0}
  BY CaseFacts
<1>2. U[0] = 0 /\ \A c \in 1..L : U[c] = U[c - 1] + cases[c].version - 1
  BY EditsAreDefined
<1> HIDE DEF U, L
<1>3. 0 \in Covered
  BY <1>1, <1>2
<1>4. ASSUME NEW n \in 0..L - 1, n \in Covered PROVE n + 1 \in Covered
  <2>1. n + 1 \in 1..L /\ n + 1 \in 0..L /\ n + 1 - 1 = n
    BY <1>1
  <2>2. U[n + 1] = U[n] + cases[n + 1].version - 1 /\ cases[n + 1].version \in Nat \ {0}
    BY <1>1, <1>2, <2>1
  <2>3. U[n] \in Nat /\ \A c \in 1..n : cases[c].version - 1 <= U[n]
    BY <1>4
  <2>4. U[n + 1] \in Nat /\ U[n] <= U[n + 1] /\ cases[n + 1].version - 1 <= U[n + 1]
    BY <2>2, <2>3
  <2>5. ASSUME NEW c \in 1..n + 1 PROVE cases[c].version - 1 <= U[n + 1]
    <3>1. CASE c = n + 1
      BY <2>4, <3>1
    <3>2. CASE c # n + 1
      <4>1. c \in 1..n /\ c \in 1..L
        BY <1>1, <3>2
      <4> QED BY <1>1, <2>3, <2>4, <4>1
    <3> QED BY <3>1, <3>2
  <2> QED BY <2>1, <2>4, <2>5
<1>5. L \in Covered
  <2>1. 0..L \subseteq Covered
    <3> HIDE DEF Covered
    <3> QED BY <1>1, <1>3, <1>4, Counting
  <2> HIDE DEF Covered
  <2> QED BY <1>1, <2>1
<1> QED BY <1>5 DEF Edits, U, L

-----------------------------------------------------------------------------
(* Cases: the bot.                                                         *)

Writes(k) == (bot.step + k) % 3 = 0

\* How many notes the bot writes, one edit after the other.
LEMMA NewNotesCount ==
  ASSUME bot.step \in Nat
  PROVE  /\ NewNotes(0) = 0
         /\ \A n \in Nat : /\ NewNotes(n) \in Nat
                           /\ NewNotes(n + 1) = NewNotes(n) + (IF Writes(n) THEN 1 ELSE 0)
<1> DEFINE Those(n) == {k \in 0..n - 1 : (bot.step + k) % 3 = 0}
<1>1. Those(0) = {}
  OBVIOUS
<1>2. Cardinality({}) = 0
  BY FS_EmptySet
<1>3. ASSUME NEW n \in Nat
      PROVE  /\ NewNotes(n) \in Nat
             /\ NewNotes(n + 1) = NewNotes(n) + (IF Writes(n) THEN 1 ELSE 0)
  <2>1. IsFiniteSet(0..n - 1)
    BY FS_Interval
  <2>2. IsFiniteSet(Those(n))
    BY <2>1, FS_Subset
  <2>3. Those(n + 1) = IF Writes(n) THEN Those(n) \cup {n} ELSE Those(n)
    <3>1. 0..(n + 1) - 1 = (0..n - 1) \cup {n}
      OBVIOUS
    <3> QED BY <3>1 DEF Writes
  <2>4. n \notin Those(n)
    OBVIOUS
  <2> HIDE DEF Those
  <2>5. Cardinality(Those(n)) \in Nat
    BY <2>2, FS_CardinalityType
  <2>6. Cardinality(Those(n) \cup {n}) = Cardinality(Those(n)) + 1
    BY <2>2, <2>4, FS_AddElement
  <2>7. NewNotes(n) = Cardinality(Those(n)) /\ NewNotes(n + 1) = Cardinality(Those(n + 1))
    BY DEF NewNotes, Those
  <2> QED BY <2>3, <2>5, <2>6, <2>7
<1> QED BY <1>1, <1>2, <1>3 DEF NewNotes

\* What an edit leaves alone, and what it adds: content goes from one to another.
NotesOnward(from, to, new) ==
  /\ IsPrefix(from.notes, to.notes)
  /\ ToSet(to.notes) \subseteq ToSet(from.notes) \cup new

Onward(from, to, new) == to.title = from.title /\ NotesOnward(from, to, new)

LEMMA SequenceFacts ==
  ASSUME NEW s \in Seq(Int)
  PROVE  /\ IsPrefix(s, s)
         /\ \A e \in Int : /\ Append(s, e) \in Seq(Int) /\ IsPrefix(s, Append(s, e))
                           /\ ToSet(Append(s, e)) = ToSet(s) \cup {e}
         /\ \A t, u \in Seq(Int) : IsPrefix(s, t) /\ IsPrefix(t, u) => IsPrefix(s, u)
<1>1. IsPrefix(s, s)
  BY DEF IsPrefix
<1>2. ASSUME NEW e \in Int
      PROVE  /\ Append(s, e) \in Seq(Int) /\ IsPrefix(s, Append(s, e))
             /\ ToSet(Append(s, e)) = ToSet(s) \cup {e}
  <2> DEFINE t == Append(s, e)
  <2>1. /\ t \in Seq(Int) /\ Len(s) \in Nat /\ Len(t) = Len(s) + 1 /\ DOMAIN s = 1..Len(s)
        /\ DOMAIN t = 1..Len(s) + 1
        /\ \A i \in 1..Len(s) : t[i] = s[i]
        /\ t[Len(s) + 1] = e
    OBVIOUS
  <2> HIDE DEF t
  <2>2. SubSeq(s, 1, Len(s)) = SubSeq(t, 1, Len(s))
    BY <2>1
  <2>3. 1..Len(s) + 1 = 1..Len(s) \cup {Len(s) + 1}
    BY <2>1
  <2>4. ToSet(t) = ToSet(s) \cup {e}
    BY <2>1, <2>3 DEF ToSet
  <2> QED BY <2>1, <2>2, <2>4 DEF IsPrefix, t
<1>3. ASSUME NEW t \in Seq(Int), NEW u \in Seq(Int), IsPrefix(s, t), IsPrefix(t, u)
      PROVE  IsPrefix(s, u)
  <2>1. Len(s) \in Nat /\ Len(t) \in Nat /\ Len(u) \in Nat /\ Len(s) <= Len(t) /\ Len(t) <= Len(u)
    BY <1>3 DEF IsPrefix
  <2>2. \A i \in 1..Len(t) : t[i] = u[i]
    <3>1. ASSUME NEW i \in 1..Len(t) PROVE SubSeq(t, 1, Len(t))[i] = t[i] /\ SubSeq(u, 1, Len(t))[i] = u[i]
      BY <2>1
    <3> QED BY <1>3, <3>1 DEF IsPrefix
  <2>3. SubSeq(t, 1, Len(s)) = SubSeq(u, 1, Len(s))
    <3>1. \A i \in 1..Len(s) : i \in 1..Len(t) /\ t[i] = u[i]
      BY <2>1, <2>2
    <3>2. Len(SubSeq(t, 1, Len(s))) = Len(s) /\ Len(SubSeq(u, 1, Len(s))) = Len(s)
      BY <2>1
    <3>3. \A i \in 1..Len(s) : SubSeq(t, 1, Len(s))[i] = SubSeq(u, 1, Len(s))[i]
      BY <2>1, <3>1
    <3>4. SubSeq(t, 1, Len(s)) \in Seq(Int) /\ SubSeq(u, 1, Len(s)) \in Seq(Int)
      BY <2>1
    <3> QED BY <3>2, <3>3, <3>4, SeqEqual
  <2> QED BY <1>3, <2>1, <2>3 DEF IsPrefix
<1> QED BY <1>1, <1>2, <1>3

LEMMA OnwardStays ==
  ASSUME NEW c \in Content, NEW new
  PROVE  Onward(c, c, new)
<1>1. c.notes \in Seq(Int)
  BY DEF Content
<1> QED BY <1>1, SequenceFacts DEF Onward, NotesOnward

LEMMA OnwardGoesOn ==
  ASSUME NEW a \in Content, NEW b \in Content, NEW c \in Content, NEW new, NEW newer,
         Onward(a, b, new), Onward(b, c, newer), new \subseteq newer
  PROVE  Onward(a, c, newer)
<1>1. a.notes \in Seq(Int) /\ b.notes \in Seq(Int) /\ c.notes \in Seq(Int)
  BY DEF Content
<1>2. IsPrefix(a.notes, c.notes)
  BY <1>1, SequenceFacts DEF Onward, NotesOnward
<1> QED BY <1>2 DEF Onward, NotesOnward

AnyCase == [version: Nat, content: Content]

\* One edit of the bot.
LEMMA BotEditIsOnward ==
  ASSUME NEW case \in AnyCase, NEW step \in Nat, NEW note \in Int
  PROVE  /\ BotEdit(case, step, note) \in AnyCase
         /\ BotEdit(case, step, note).version = case.version + 1
         /\ Onward(case.content, BotEdit(case, step, note).content, IF step % 3 = 0 THEN {note} ELSE {})
<1> DEFINE content == case.content
           to == CASE step % 3 = 0 -> [content EXCEPT !.notes = Append(@, note)]
                   [] step % 3 = 1 -> [content EXCEPT !.summary = BotSummaries[((step \div 3) % 2) + 1]]
                   [] step % 3 = 2 -> [content EXCEPT !.severity = IF @ = "medium" THEN "high"
                                                                   ELSE "medium"]
<1>1. BotEdit(case, step, note) = [version |-> case.version + 1, content |-> to]
  BY DEF BotEdit, Bumped
<1>0. content \in Content /\ case.version \in Nat
  BY DEF AnyCase
<1> HIDE DEF content
<1>2. step % 3 \in {0, 1, 2} /\ (step \div 3) % 2 \in {0, 1}
  OBVIOUS
<1>3. content.notes \in Seq(Int)
  BY <1>0 DEF Content
<1>4. to \in Content /\ Onward(content, to, IF step % 3 = 0 THEN {note} ELSE {})
  <2>1. CASE step % 3 = 0
    <3>1. to = [content EXCEPT !.notes = Append(content.notes, note)]
      BY <2>1
    <3>2. /\ Append(content.notes, note) \in Seq(Int)
          /\ IsPrefix(content.notes, Append(content.notes, note))
          /\ ToSet(Append(content.notes, note)) = ToSet(content.notes) \cup {note}
      BY <1>3, SequenceFacts
    <3> HIDE DEF to
    <3>3. to \in Content /\ to.title = content.title /\ to.notes = Append(content.notes, note)
      BY <1>0, <3>1, <3>2 DEF Content
    <3> QED BY <2>1, <3>2, <3>3 DEF Onward, NotesOnward
  <2>2. CASE step % 3 = 1
    <3>1. to = [content EXCEPT !.summary = BotSummaries[((step \div 3) % 2) + 1]]
      BY <2>2
    <3>2. BotSummaries[((step \div 3) % 2) + 1] \in {"beacon", "one story"}
      <4>1. BotSummaries[1] = "beacon" /\ BotSummaries[2] = "one story"
        BY DEF BotSummaries
      <4>2. PICK i \in {1, 2} : i = ((step \div 3) % 2) + 1
        BY <1>2
      <4>3. BotSummaries[i] \in {"beacon", "one story"}
        BY <4>1
      <4> QED BY <4>2, <4>3
    <3> HIDE DEF to
    <3>3. to \in Content /\ to.title = content.title /\ to.notes = content.notes
      BY <1>0, <3>1, <3>2 DEF Content
    <3> QED BY <1>3, <3>3, SequenceFacts DEF Onward, NotesOnward
  <2>3. CASE step % 3 = 2
    <3>1. to = [content EXCEPT !.severity = IF content.severity = "medium" THEN "high" ELSE "medium"]
      BY <2>3
    <3> HIDE DEF to
    <3>3. to \in Content /\ to.title = content.title /\ to.notes = content.notes
      BY <1>0, <3>1 DEF Content
    <3> QED BY <1>3, <3>3, SequenceFacts DEF Onward, NotesOnward
  <2> QED BY <1>2, <2>1, <2>2, <2>3
<1> HIDE DEF to
<1>5. BotEdit(case, step, note) \in AnyCase
  BY <1>0, <1>1, <1>4 DEF AnyCase
<1> QED BY <1>1, <1>4, <1>5 DEF content

\* The recursion of BotEdits is well defined.
LEMMA BotEditsAreDefined ==
  ASSUME cases \in Seq(CaseRec), Len(cases) >= 2, bot.step \in Nat, notes \in Nat, NEW n \in Nat
  PROVE  /\ BotEdits(n)[0] = cases[BotCase]
         /\ \A k \in 1..n : BotEdits(n)[k] = BotEdit(BotEdits(n)[k - 1], bot.step + k - 1, notes + NewNotes(k))
<1> DEFINE step == [k \in 1..n |-> [case \in AnyCase |-> BotEdit(case, bot.step + k - 1, notes + NewNotes(k))]]
           Step(g, k) == IF k = 0 THEN cases[BotCase]
                         ELSE BotEdit(g[k - 1], bot.step + k - 1, notes + NewNotes(k))
           base == cases[BotCase]
<1>1. base \in AnyCase
  <2>1. cases[BotCase] \in CaseRec /\ MaxEdits \in Nat
    BY CaseFacts, CaseConstants DEF BotCase
  <2> QED BY <2>1 DEF CaseRec, AnyCase
<1>2. step \in [1..n -> [AnyCase -> AnyCase]]
  <2>1. ASSUME NEW k \in 1..n, NEW case \in AnyCase
        PROVE  BotEdit(case, bot.step + k - 1, notes + NewNotes(k)) \in AnyCase
    <3>1. bot.step + k - 1 \in Nat
      OBVIOUS
    <3>4. k \in Nat
      OBVIOUS
    <3>2. NewNotes(k) \in Nat
      BY <3>4, NewNotesCount
    <3>3. notes + NewNotes(k) \in Int
      BY <3>2
    <3> QED BY <3>1, <3>3, BotEditIsOnward
  <2> QED BY <2>1
<1>3. PICK g : Repeats(g, n, AnyCase, base, step)
  <2> HIDE DEF base, step
  <2> QED BY <1>1, <1>2, RecursionExists
<1>4. \A k \in 0..n : g[k] = Step(g, k)
  <2> TAKE k \in 0..n
  <2>1. CASE k = 0
    BY <1>3, <2>1 DEF Repeats
  <2>2. CASE k # 0
    <3>1. k \in 1..n /\ k - 1 \in 0..n
      BY <2>2
    <3>2. g[k - 1] \in AnyCase /\ g[k] = step[k][g[k - 1]]
      BY <1>3, <3>1 DEF Repeats
    <3>3. step[k][g[k - 1]] = BotEdit(g[k - 1], bot.step + k - 1, notes + NewNotes(k))
      BY <3>1, <3>2
    <3> QED BY <2>2, <3>2, <3>3
  <2> QED BY <2>1, <2>2
<1>5. g = [k \in 0..n |-> Step(g, k)]
  <2>1. g = [k \in 0..n |-> g[k]]
    BY <1>3 DEF Repeats
  <2> HIDE DEF Step
  <2> QED BY <1>4, <2>1
<1>6. BotEdits(n) = CHOOSE h : h = [k \in 0..n |-> Step(h, k)]
  BY DEF BotEdits
<1>7. BotEdits(n) = [k \in 0..n |-> Step(BotEdits(n), k)]
  <2> HIDE DEF Step
  <2> QED BY <1>5, <1>6
<1>8. \A k \in 0..n : BotEdits(n)[k] = Step(BotEdits(n), k)
  <2> HIDE DEF Step
  <2> QED BY <1>7
<1>9. 0 \in 0..n /\ \A k \in 1..n : k \in 0..n /\ k # 0
  OBVIOUS
<1> QED BY <1>8, <1>9

\* What a tick makes of the bot's case.
LEMMA BotEditsFacts ==
  ASSUME cases \in Seq(CaseRec), Len(cases) >= 2, bot.step \in Nat, notes \in Nat,
         NEW n \in Nat, Edits + n <= MaxEdits
  PROVE  /\ BotEdits(n)[n] \in CaseRec
         /\ BotEdits(n)[n].version = cases[BotCase].version + n
         /\ Onward(cases[BotCase].content, BotEdits(n)[n].content, notes + 1..notes + NewNotes(n))
<1> DEFINE K == BotEdits(n)
           old == cases[BotCase]
           To(k) == notes + 1..notes + NewNotes(k)
           EditsSoFar == {k \in 0..n : /\ K[k] \in AnyCase /\ K[k].version = old.version + k
                                       /\ Onward(old.content, K[k].content, To(k))}
<1>1. /\ old \in AnyCase /\ old.version \in Nat \ {0} /\ old.content \in Content
      /\ old.version - 1 <= Edits /\ Edits \in Nat /\ MaxEdits \in Nat
  <2>1. BotCase \in 1..Len(cases) /\ MaxEdits \in Nat
    BY CaseFacts, CaseConstants DEF BotCase
  <2>2. cases[BotCase] \in CaseRec
    BY <2>1, CaseFacts
  <2> QED BY <2>1, <2>2, CaseFacts, EditsCover DEF CaseRec, AnyCase
<1>2. K[0] = old /\ \A k \in 1..n : K[k] = BotEdit(K[k - 1], bot.step + k - 1, notes + NewNotes(k))
  BY BotEditsAreDefined
<1> HIDE DEF K, old
<1>3. 0 \in EditsSoFar
  <2>1. Onward(old.content, old.content, To(0))
    BY <1>1, OnwardStays
  <2> QED BY <1>1, <1>2, <2>1
<1>4. ASSUME NEW k \in 0..n - 1, k \in EditsSoFar PROVE k + 1 \in EditsSoFar
  <2> DEFINE note == notes + NewNotes(k + 1)
  <2>1. k + 1 \in 1..n /\ k + 1 \in 0..n /\ k + 1 - 1 = k /\ bot.step + (k + 1) - 1 = bot.step + k /\ bot.step + k \in Nat
    OBVIOUS
  <2>2. K[k + 1] = BotEdit(K[k], bot.step + k, note)
    BY <1>2, <2>1
  <2>3. /\ NewNotes(k) \in Nat /\ NewNotes(k + 1) \in Nat
        /\ NewNotes(k + 1) = NewNotes(k) + (IF (bot.step + k) % 3 = 0 THEN 1 ELSE 0)
    <3>1. k \in Nat /\ k + 1 \in Nat
      OBVIOUS
    <3> QED BY <3>1, NewNotesCount DEF Writes
  <2>4. K[k] \in AnyCase /\ K[k].version = old.version + k /\ Onward(old.content, K[k].content, To(k))
    BY <1>4
  <2>5. note \in Int
    BY <2>3
  <2>6. /\ K[k + 1] \in AnyCase /\ K[k + 1].version = K[k].version + 1
        /\ Onward(K[k].content, K[k + 1].content, IF (bot.step + k) % 3 = 0 THEN {note} ELSE {})
    <3>1. bot.step + k \in Nat /\ K[k] \in AnyCase
      BY <2>1, <2>4
    <3> DEFINE edited == BotEdit(K[k], bot.step + k, note)
    <3>2. /\ edited \in AnyCase /\ edited.version = K[k].version + 1
          /\ Onward(K[k].content, edited.content, IF (bot.step + k) % 3 = 0 THEN {note} ELSE {})
      <4> HIDE DEF note
      <4> QED BY <2>5, <3>1, BotEditIsOnward
    <3>3. K[k + 1] = edited
      BY <2>2
    <3> HIDE DEF edited
    <3> QED BY <3>2, <3>3
  <2>7. To(k) \subseteq To(k + 1) /\ (IF (bot.step + k) % 3 = 0 THEN {note} ELSE {}) \subseteq To(k + 1)
    <3> DEFINE x == NewNotes(k)
               y == NewNotes(k + 1)
               writes == (bot.step + k) % 3 = 0
    <3>1. x \in Nat /\ y \in Nat /\ notes \in Nat /\ y = x + (IF writes THEN 1 ELSE 0)
      BY <2>3
    <3> HIDE DEF x, y, writes
    <3>2. notes + 1..notes + x \subseteq notes + 1..notes + y
      BY <3>1
    <3>3. writes => notes + y \in notes + 1..notes + y
      BY <3>1
    <3>4. (IF writes THEN {notes + y} ELSE {}) \subseteq notes + 1..notes + y
      BY <3>3
    <3> QED BY <3>2, <3>4 DEF x, y, writes
  <2>8. Onward(old.content, K[k + 1].content, To(k + 1))
    <3>1. Onward(K[k].content, K[k + 1].content, To(k + 1))
      BY <2>6, <2>7 DEF Onward, NotesOnward
    <3>2. K[k].content \in Content /\ K[k + 1].content \in Content
      BY <2>4, <2>6 DEF AnyCase
    <3> HIDE DEF To
    <3> QED BY <1>1, <2>4, <2>7, <3>1, <3>2, OnwardGoesOn
  <2>9. K[k + 1].version = old.version + (k + 1)
    <3>1. old.version \in Nat /\ k \in Nat
      BY <1>1
    <3>2. K[k + 1].version = K[k].version + 1 /\ K[k].version = old.version + k
      BY <2>4, <2>6
    <3> QED BY <3>1, <3>2
  <2> HIDE DEF To
  <2> QED BY <2>1, <2>6, <2>8, <2>9
<1>5. n \in EditsSoFar
  <2>1. 0..n \subseteq EditsSoFar
    <3> HIDE DEF EditsSoFar
    <3> QED BY <1>3, <1>4, Counting
  <2> HIDE DEF EditsSoFar
  <2> QED BY <2>1
<1>6. K[n].version \in 1..MaxEdits + 1
  <2>1. K[n].version = old.version + n
    BY <1>5
  <2>2. \A v \in Nat \ {0} : v - 1 <= Edits => v + n \in 1..MaxEdits + 1
    BY <1>1
  <2> QED BY <1>1, <2>1, <2>2
<1>7. K[n] \in CaseRec
  <2>1. K[n] \in AnyCase
    BY <1>5
  <2> QED BY <1>6, <2>1 DEF AnyCase, CaseRec
<1> QED BY <1>5, <1>7 DEF K, old

-----------------------------------------------------------------------------
(* Cases: what is always so.                                               *)

\* What was read of a case is no newer than the case, and of one version it is the same.
Agrees(h, cs) ==
  /\ h.case \in DOMAIN cs
  /\ h.version <= cs[h.case].version
  /\ h.version = cs[h.case].version => h.content = cs[h.case].content

HoldersKnow ==
  /\ held \in [Editors -> {Nothing} \cup Kept]
  /\ \A e \in Editors :
       held[e] # Nothing =>
         held[e].resets <= resets /\ (held[e].resets = resets => Agrees(held[e], cases))

\* No note has an id still to be given, and none is of two cases.
NotesApart ==
  /\ \A c \in DOMAIN cases : \A id \in ToSet(cases[c].content.notes) : id <= notes
  /\ \A c, d \in DOMAIN cases :
       c # d => ToSet(cases[c].content.notes) \cap ToSet(cases[d].content.notes) = {}

\* What the bot did and waits for still is time that went by.
BotInTime == bot.edits * Interval + Interval - bot.wait <= elapsed

\* The inductive invariant.
CInv ==
  /\ CaseTypeOK
  /\ HoldersKnow
  /\ NotesApart
  /\ BotInTime
  /\ bot.wait <= Interval
  /\ TitlesAreTaken

NoneLost ==
  \A e \in Editors :
    saves'[e] # saves[e] /\ held[e].resets = resets
      => cases[held[e].case].content = held[e].content

NotesGoOn ==
  resets' = resets =>
    /\ \A c \in DOMAIN cases : IsPrefix(cases[c].content.notes, cases'[c].content.notes)
    /\ \A c, d \in DOMAIN cases' : c # d =>
         ToSet(cases'[c].content.notes) \cap ToSet(cases'[d].content.notes) = {}

\* A name that clashes with none that is stored is kept apart from it.
LEMMA FreeNames ==
  ASSUME NEW words, NEW asked \in Names(words), NEW other \in Names(words), Stored(other) # Asked(asked)
  PROVE  KeptApart(asked, other) /\ KeptApart(other, asked)
<1>1. ASSUME NEW name \in Names(words)
      PROVE  /\ Stored(name).padded = name.padded /\ name.padded \in BOOLEAN
             /\ name.padded = FALSE => Stored(name) = Asked(name)
  BY DEF Names, Stored, Asked
<1>2. ASSUME Stored(asked) = Stored(other) PROVE asked.padded /\ other.padded
  <2>1. asked.padded = other.padded /\ asked.padded \in BOOLEAN
    BY <1>1, <1>2
  <2>2. asked.padded # FALSE
    BY <1>1, <1>2
  <2> QED BY <2>1, <2>2
<1> QED BY <1>2 DEF KeptApart

LEMMA TitledByNames ==
  \E words : \A c \in Content : c.title \in Names(words)
<1> DEFINE words == {title.word : title \in Titles} \cup {"noise", "harbor"}
<1> SUFFICES ASSUME NEW c \in Content PROVE c.title \in Names(words)
  OBVIOUS
<1>1. c.title \in Titles \cup {Plain("noise"), Plain("harbor")}
  BY DEF Content
<1>2. CASE c.title \in Titles
  <2>1. c.title \in Names({title.word : title \in Titles})
    BY <1>2, TitlesAreNames
  <2> QED BY <2>1 DEF Names
<1>3. ASSUME NEW word \in words, c.title = Plain(word) PROVE c.title \in Names(words)
  BY <1>3 DEF Plain, Names
<1> QED BY <1>1, <1>2, <1>3

\* A case whose title clashes with no other's is kept apart from them.
LEMMA FreeTitles ==
  ASSUME NEW c \in Content, NEW d \in Content, Stored(d.title) # Asked(c.title)
  PROVE  KeptApart(c.title, d.title) /\ KeptApart(d.title, c.title)
BY TitledByNames, FreeNames

LEMMA TypedCases ==
  ASSUME CaseTypeOK
  PROVE  cases \in Seq(CaseRec) /\ Len(cases) \in 2..MaxCases /\ Len(cases) \in Nat
         /\ DOMAIN cases = 1..Len(cases)
         /\ \A c \in DOMAIN cases : cases[c] \in CaseRec /\ cases[c].version \in Nat \ {0}
              /\ cases[c].content \in Content
<1>1. cases \in Seq(CaseRec) /\ Len(cases) \in 2..MaxCases
  BY DEF CaseTypeOK, CaseRec
<1> QED BY <1>1, CaseFacts

\* An edit of one case.
LEMMA OneEdited ==
  ASSUME CInv, NEW c \in DOMAIN cases, NEW new \in CaseRec,
         cases[c].version < new.version, cases' = [cases EXCEPT ![c] = new],
         notes' \in Nat, notes <= notes', resets' = resets,
         NotesOnward(cases[c].content, new.content, notes + 1..notes'),
         new.content.title = cases[c].content.title \/ ~ Clashes(new.content.title, TitlesBut(c))
  PROVE  /\ cases' \in Seq(CaseRec) /\ Len(cases') = Len(cases)
         /\ \A h \in Kept : Agrees(h, cases) => Agrees(h, cases')
         /\ \A h : h.case = c /\ h.version = new.version /\ h.content = new.content => Agrees(h, cases')
         /\ NotesApart' /\ TitlesAreTaken' /\ NotesGoOn
<1>1. /\ cases \in Seq(CaseRec) /\ Len(cases) \in Nat /\ DOMAIN cases = 1..Len(cases)
      /\ \A d \in DOMAIN cases : cases[d] \in CaseRec /\ cases[d].version \in Nat \ {0}
                                 /\ cases[d].content \in Content
  BY TypedCases DEF CInv
<1>2. /\ cases' \in Seq(CaseRec) /\ Len(cases') = Len(cases) /\ DOMAIN cases' = DOMAIN cases
      /\ cases'[c] = new /\ \A d \in DOMAIN cases : d # c => cases'[d] = cases[d]
  BY <1>1
<1>3. new.version \in Nat \ {0} /\ new.content \in Content /\ MaxEdits \in Nat
  BY CaseConstants DEF CaseRec
<1>4. ASSUME NEW h \in Kept, Agrees(h, cases) PROVE Agrees(h, cases')
  <2>1. h.version \in Nat
    BY <1>3 DEF Kept
  <2>2. h.case \in DOMAIN cases /\ h.version <= cases[h.case].version
        /\ (h.version = cases[h.case].version => h.content = cases[h.case].content)
    BY <1>4 DEF Agrees
  <2>3. CASE h.case = c
    BY <1>1, <1>2, <1>3, <2>1, <2>2, <2>3 DEF Agrees
  <2>4. CASE h.case # c
    BY <1>2, <2>2, <2>4 DEF Agrees
  <2> QED BY <2>3, <2>4
<1>5. ASSUME NEW h, h.case = c, h.version = new.version, h.content = new.content PROVE Agrees(h, cases')
  BY <1>2, <1>3, <1>5 DEF Agrees
<1>6. /\ IsPrefix(cases[c].content.notes, new.content.notes)
      /\ ToSet(new.content.notes) \subseteq ToSet(cases[c].content.notes) \cup notes + 1..notes'
  BY DEF NotesOnward
<1>7. notes \in Nat /\ NotesApart
  BY DEF CInv, CaseTypeOK
<1>8. \A d \in DOMAIN cases : \A id \in ToSet(cases[d].content.notes) : id \in Int
  <2> TAKE d \in DOMAIN cases
  <2>1. cases[d].content.notes \in Seq(Int)
    BY <1>1 DEF Content
  <2> QED BY <2>1 DEF ToSet
<1>9. NotesApart'
  <2>1. ASSUME NEW d \in DOMAIN cases', NEW id \in ToSet(cases'[d].content.notes) PROVE id <= notes'
    <3>1. CASE d = c
      <4>1. id \in ToSet(cases[c].content.notes) \/ id \in notes + 1..notes'
        BY <1>2, <1>6, <2>1, <3>1
      <4>2. CASE id \in ToSet(cases[c].content.notes)
        <5>1. id \in Int /\ id <= notes
          BY <1>7, <1>8, <4>2 DEF NotesApart
        <5> QED BY <1>7, <5>1
      <4>3. CASE id \in notes + 1..notes'
        BY <1>7, <4>3
      <4> QED BY <4>1, <4>2, <4>3
    <3>2. CASE d # c
      <4>1. d \in DOMAIN cases /\ id \in ToSet(cases[d].content.notes)
        BY <1>2, <2>1, <3>2
      <4>2. id \in Int /\ id <= notes
        BY <1>7, <1>8, <4>1 DEF NotesApart
      <4> QED BY <1>7, <4>2
    <3> QED BY <3>1, <3>2
  <2>2. ASSUME NEW d \in DOMAIN cases, d # c, NEW id \in ToSet(new.content.notes),
               id \in ToSet(cases[d].content.notes)
        PROVE  FALSE
    <3>1. id <= notes /\ id \in Int
      BY <1>7, <1>8, <2>2 DEF NotesApart
    <3>2. id \in ToSet(cases[c].content.notes)
      BY <1>6, <1>7, <3>1
    <3> QED BY <1>7, <2>2, <3>2 DEF NotesApart
  <2>3. ASSUME NEW d \in DOMAIN cases', NEW e \in DOMAIN cases', d # e
        PROVE  ToSet(cases'[d].content.notes) \cap ToSet(cases'[e].content.notes) = {}
    <3>1. CASE d = c
      BY <1>2, <2>2, <2>3, <3>1
    <3>2. CASE e = c
      BY <1>2, <2>2, <2>3, <3>2
    <3>3. CASE d # c /\ e # c
      BY <1>2, <1>7, <2>3, <3>3 DEF NotesApart
    <3> QED BY <3>1, <3>2, <3>3
  <2> QED BY <2>1, <2>3 DEF NotesApart
<1>10. NotesGoOn
  <2>1. ASSUME NEW d \in DOMAIN cases PROVE IsPrefix(cases[d].content.notes, cases'[d].content.notes)
    <3>1. cases[d].content.notes \in Seq(Int)
      BY <1>1 DEF Content
    <3> QED BY <1>2, <1>6, <3>1, SequenceFacts
  <2> QED BY <1>9, <2>1 DEF NotesGoOn, NotesApart
<1>11. TitlesAreTaken'
  <2>1. TitlesAreTaken
    BY DEF CInv
  <2>2. ASSUME NEW d \in DOMAIN cases, d # c
        PROVE  /\ KeptApart(new.content.title, cases[d].content.title)
               /\ KeptApart(cases[d].content.title, new.content.title)
    <3>1. CASE new.content.title = cases[c].content.title
      BY <2>1, <2>2, <3>1 DEF TitlesAreTaken
    <3>2. CASE ~ Clashes(new.content.title, TitlesBut(c))
      <4>1. cases[d].content.title \in TitlesBut(c)
        BY <2>2 DEF TitlesBut
      <4>2. Stored(cases[d].content.title) # Asked(new.content.title)
        BY <3>2, <4>1 DEF Clashes
      <4> QED BY <1>1, <1>3, <4>2, FreeTitles
    <3> QED BY <3>1, <3>2
  <2>3. ASSUME NEW d \in DOMAIN cases', NEW e \in DOMAIN cases', d # e
        PROVE  KeptApart(cases'[d].content.title, cases'[e].content.title)
    <3>1. CASE d = c
      BY <1>2, <2>2, <2>3, <3>1
    <3>2. CASE e = c
      BY <1>2, <2>2, <2>3, <3>2
    <3>3. CASE d # c /\ e # c
      BY <1>2, <2>1, <2>3, <3>3 DEF TitlesAreTaken
    <3> QED BY <3>1, <3>2, <3>3
  <2> QED BY <2>3 DEF TitlesAreTaken
<1> QED BY <1>2, <1>4, <1>5, <1>9, <1>10, <1>11

-----------------------------------------------------------------------------
(* Cases: the steps.                                                       *)

\* Who reads or saves a case holds it as it is; whoever does not is as right as before.
LEMMA HoldersKeep ==
  ASSUME CInv, resets' = resets, \A h \in Kept : Agrees(h, cases) => Agrees(h, cases'),
         \/ held' = held
         \/ \E e \in Editors, h \in Kept :
              h.resets = resets /\ Agrees(h, cases') /\ held' = [held EXCEPT ![e] = h]
  PROVE  HoldersKnow'
<1>1. held \in [Editors -> {Nothing} \cup Kept]
  BY DEF CInv, HoldersKnow
<1>2. ASSUME NEW e \in Editors, held[e] # Nothing
      PROVE  held[e].resets <= resets /\ (held[e].resets = resets => Agrees(held[e], cases'))
  <2>1. held[e] \in Kept
    BY <1>1, <1>2
  <2> QED BY <1>2, <2>1 DEF CInv, HoldersKnow
<1>3. CASE held' = held
  BY <1>1, <1>2, <1>3 DEF HoldersKnow
<1>4. ASSUME NEW f \in Editors, NEW h \in Kept,
             h.resets = resets, Agrees(h, cases'), held' = [held EXCEPT ![f] = h]
      PROVE  HoldersKnow'
  <2>1. held' \in [Editors -> {Nothing} \cup Kept]
    BY <1>1, <1>4
  <2>2. ASSUME NEW e \in Editors, held'[e] # Nothing
        PROVE  held'[e].resets <= resets /\ (held'[e].resets = resets => Agrees(held'[e], cases'))
    <3>1. CASE e = f
      <4>1. held'[e] = h /\ resets \in Nat
        BY <1>1, <1>4, <3>1, CaseConstants DEF CInv, CaseTypeOK
      <4> QED BY <1>4, <4>1
    <3>2. CASE e # f
      <4>1. held'[e] = held[e]
        BY <1>1, <1>4, <3>2
      <4> QED BY <1>2, <2>2, <4>1
    <3> QED BY <3>1, <3>2
  <2> QED BY <2>1, <2>2 DEF HoldersKnow
<1> QED BY <1>3, <1>4

LEMMA Assembled ==
  ASSUME CInv, cases' \in Seq(CaseRec), Len(cases') \in 2..MaxCases, notes' \in Nat, HoldersKnow',
         saves' \in [Editors -> Nat], UNCHANGED <<bot, elapsed, resets>>, NotesApart', TitlesAreTaken'
  PROVE  CInv'
<1>1. \A e \in Editors : held'[e] = Nothing \/ held'[e] \in Kept
  BY DEF HoldersKnow
<1>2. CaseTypeOK'
  BY <1>1 DEF CInv, CaseTypeOK, CaseRec, Kept
<1> QED BY <1>2 DEF CInv, BotInTime

\* An edit that only its case tells of.
LEMMA QuietEdit ==
  ASSUME CInv, NEW c \in DOMAIN cases, NEW new \in CaseRec,
         cases[c].version < new.version, cases' = [cases EXCEPT ![c] = new],
         notes' \in Nat, notes <= notes', UNCHANGED <<held, saves, bot, elapsed, resets>>,
         NotesOnward(cases[c].content, new.content, notes + 1..notes'),
         new.content.title = cases[c].content.title
  PROVE  CInv' /\ NoneLost /\ NotesGoOn
<1>1. /\ cases' \in Seq(CaseRec) /\ Len(cases') = Len(cases)
      /\ \A h \in Kept : Agrees(h, cases) => Agrees(h, cases')
      /\ NotesApart' /\ TitlesAreTaken' /\ NotesGoOn
  BY OneEdited
<1>2. HoldersKnow'
  BY <1>1, HoldersKeep
<1>3. Len(cases') \in 2..MaxCases /\ saves' \in [Editors -> Nat]
  BY <1>1 DEF CInv, CaseTypeOK
<1> QED BY <1>1, <1>2, <1>3, Assembled DEF NoneLost

LEMMA PutIsNew ==
  ASSUME CInv, NEW c \in DOMAIN cases, NEW content \in Content, Put(c, content)
  PROVE  /\ Bumped(cases[c], content) \in CaseRec
         /\ Bumped(cases[c], content).version = cases[c].version + 1
         /\ Bumped(cases[c], content).content = content
         /\ cases[c].version < Bumped(cases[c], content).version
         /\ cases' = [cases EXCEPT ![c] = Bumped(cases[c], content)]
         /\ cases[c].content \in Content /\ cases[c].content.notes \in Seq(Int)
<1>1. /\ cases \in Seq(CaseRec) /\ DOMAIN cases = 1..Len(cases)
      /\ cases[c].version \in Nat \ {0} /\ cases[c].content \in Content
  BY TypedCases DEF CInv
<1>2. cases[c].version - 1 <= Edits /\ Edits \in Nat /\ Edits < MaxEdits /\ MaxEdits \in Nat
  BY <1>1, EditsCover, CaseConstants DEF Put
<1>3. cases[c].version + 1 \in 1..MaxEdits + 1
  BY <1>1, <1>2
<1>4. cases[c].version < cases[c].version + 1
  BY <1>1
<1> QED BY <1>1, <1>3, <1>4 DEF Bumped, CaseRec, Put, Content

LEMMA NotesAsTheyWere ==
  ASSUME NEW from \in Content, NEW to \in Content, to.notes = from.notes, NEW new
  PROVE  NotesOnward(from, to, new)
<1>1. from.notes \in Seq(Int)
  BY DEF Content
<1> QED BY <1>1, SequenceFacts DEF NotesOnward

LEMMA PinStep ==
  ASSUME CInv, NEW c \in DOMAIN cases, NEW s \in Sessions,
         Pin(c, s) \/ Unpin(c, s)
  PROVE  CInv' /\ NoneLost /\ NotesGoOn
<1>1. PICK evidence \in SUBSET Sessions :
        /\ Put(c, [cases[c].content EXCEPT !.evidence = evidence])
        /\ UNCHANGED <<notes, held, saves, bot, elapsed, resets>>
  <2>1. cases[c].content \in Content
    BY TypedCases DEF CInv
  <2>2. cases[c].content.evidence \in SUBSET Sessions
    BY <2>1 DEF Content
  <2>3. CASE Pin(c, s)
    BY <2>2, <2>3 DEF Pin
  <2>4. CASE Unpin(c, s)
    BY <2>2, <2>4 DEF Unpin
  <2> QED BY <2>3, <2>4
<1> DEFINE content == [cases[c].content EXCEPT !.evidence = evidence]
<1>2. /\ content \in Content /\ content.notes = cases[c].content.notes
      /\ content.title = cases[c].content.title /\ cases[c].content \in Content
  <2>1. cases[c].content \in Content
    BY TypedCases DEF CInv
  <2> QED BY <2>1 DEF Content
<1>3. Put(c, content)
  BY <1>1
<1> HIDE DEF content
<1> DEFINE new == Bumped(cases[c], content)
<1>4. /\ new \in CaseRec /\ new.content = content /\ cases[c].version < new.version
      /\ cases' = [cases EXCEPT ![c] = new]
  BY <1>2, <1>3, PutIsNew
<1>5. NotesOnward(cases[c].content, new.content, notes + 1..notes')
  BY <1>2, <1>4, NotesAsTheyWere
<1>6. notes' \in Nat /\ notes <= notes' /\ UNCHANGED <<held, saves, bot, elapsed, resets>>
  BY <1>1 DEF CInv, CaseTypeOK
<1> HIDE DEF new
<1> QED BY <1>2, <1>4, <1>5, <1>6, QuietEdit

LEMMA NoteStep ==
  ASSUME CInv, NEW c \in DOMAIN cases, AddNote(c)
  PROVE  CInv' /\ NoneLost /\ NotesGoOn
<1> DEFINE content == Noted(cases[c].content)
           was == cases[c].content.notes
<1>1. notes \in Nat /\ notes' = notes + 1 /\ UNCHANGED <<held, saves, bot, elapsed, resets>>
  BY DEF AddNote, CInv, CaseTypeOK
<1>2. cases[c].content \in Content
  BY TypedCases DEF CInv
<1>3. /\ was \in Seq(Int) /\ Append(was, notes + 1) \in Seq(Int) /\ IsPrefix(was, Append(was, notes + 1))
      /\ ToSet(Append(was, notes + 1)) = ToSet(was) \cup {notes + 1}
  <2>1. was \in Seq(Int)
    BY <1>2 DEF Content
  <2>2. notes + 1 \in Int
    BY <1>1
  <2> HIDE DEF was
  <2> QED BY <2>1, <2>2, SequenceFacts
<1>4. /\ content \in Content /\ content.notes = Append(was, notes + 1)
      /\ content.title = cases[c].content.title
  BY <1>2, <1>3 DEF Noted, Content
<1>5. Put(c, content)
  BY DEF AddNote
<1>6. NotesOnward(cases[c].content, content, notes + 1..notes')
  BY <1>1, <1>3, <1>4 DEF NotesOnward
<1> HIDE DEF content
<1> DEFINE new == Bumped(cases[c], content)
<1>7. /\ new \in CaseRec /\ new.content = content /\ cases[c].version < new.version
      /\ cases' = [cases EXCEPT ![c] = new]
  BY <1>4, <1>5, PutIsNew
<1>8. notes' \in Nat /\ notes <= notes'
  BY <1>1
<1> HIDE DEF new
<1> QED BY <1>1, <1>4, <1>6, <1>7, <1>8, QuietEdit

LEMMA CreateStep ==
  ASSUME CInv, NEW title \in Titles, NEW summary \in Summaries,
         Create(title, summary)
  PROVE  CInv' /\ NoneLost /\ NotesGoOn
<1> DEFINE new == [version |-> 1,
                   content |-> [title |-> title, severity |-> "medium", summary |-> summary,
                                evidence |-> {}, notes |-> <<>>]]
           L == Len(cases)
<1>1. /\ cases \in Seq(CaseRec) /\ L \in 2..MaxCases /\ L \in Nat /\ DOMAIN cases = 1..L
      /\ \A d \in DOMAIN cases : cases[d] \in CaseRec /\ cases[d].content \in Content
  BY TypedCases DEF CInv
<1>2. /\ L < MaxCases /\ ~ Clashes(title, TitlesBut(0)) /\ cases' = Append(cases, new)
      /\ UNCHANGED <<notes, held, saves, bot, elapsed, resets>>
  BY DEF Create
<1>3. new \in CaseRec /\ new.content \in Content /\ new.content.title = title /\ new.content.notes = <<>>
  <2>1. new.version \in 1..MaxEdits + 1
    BY CaseConstants
  <2>2. new.content \in Content
    <3>1. <<>> \in Seq(Int) /\ {} \in SUBSET Sessions
      OBVIOUS
    <3> QED BY <3>1 DEF Content
  <2> QED BY <2>1, <2>2 DEF CaseRec
<1> HIDE DEF new
<1>4. /\ cases' \in Seq(CaseRec) /\ Len(cases') = L + 1 /\ DOMAIN cases' = 1..L + 1
      /\ cases'[L + 1] = new /\ \A d \in 1..L : cases'[d] = cases[d]
  BY <1>1, <1>2, <1>3
<1> HIDE DEF L
<1>5. Len(cases') \in 2..MaxCases
  BY <1>1, <1>2, <1>4, CaseConstants
<1>6. 1..L + 1 = DOMAIN cases \cup {L + 1} /\ L + 1 \notin DOMAIN cases /\ 0 \notin DOMAIN cases
  BY <1>1
<1>7. \A h \in Kept : Agrees(h, cases) => Agrees(h, cases')
  BY <1>1, <1>4, <1>6 DEF Agrees
<1>8. HoldersKnow'
  BY <1>2, <1>7, HoldersKeep
<1>9. ToSet(new.content.notes) = {}
  BY <1>3 DEF ToSet
<1>10. NotesApart'
  <2>1. NotesApart
    BY DEF CInv
  <2>2. ASSUME NEW d \in DOMAIN cases', NEW id \in ToSet(cases'[d].content.notes) PROVE id <= notes'
    <3>1. d # L + 1
      BY <1>4, <1>9, <2>2
    <3>2. d \in DOMAIN cases /\ cases'[d] = cases[d]
      BY <1>1, <1>4, <1>6, <2>2, <3>1
    <3> QED BY <1>2, <2>1, <2>2, <3>2 DEF NotesApart
  <2>3. ASSUME NEW d \in DOMAIN cases', NEW e \in DOMAIN cases', d # e
        PROVE  ToSet(cases'[d].content.notes) \cap ToSet(cases'[e].content.notes) = {}
    <3>1. CASE d = L + 1 \/ e = L + 1
      BY <1>4, <1>9, <3>1
    <3>2. CASE d # L + 1 /\ e # L + 1
      <4>1. d \in DOMAIN cases /\ e \in DOMAIN cases /\ cases'[d] = cases[d] /\ cases'[e] = cases[e]
        BY <1>1, <1>4, <1>6, <2>3, <3>2
      <4> QED BY <2>1, <2>3, <4>1 DEF NotesApart
    <3> QED BY <3>1, <3>2
  <2> QED BY <2>2, <2>3 DEF NotesApart
<1>11. NotesGoOn
  <2>1. ASSUME NEW d \in DOMAIN cases PROVE IsPrefix(cases[d].content.notes, cases'[d].content.notes)
    <3>1. cases[d].content.notes \in Seq(Int) /\ cases'[d] = cases[d]
      BY <1>1, <1>4 DEF Content
    <3> QED BY <3>1, SequenceFacts
  <2> QED BY <1>10, <2>1 DEF NotesGoOn, NotesApart
<1>12. TitlesAreTaken'
  <2>1. ASSUME NEW d \in DOMAIN cases
        PROVE  KeptApart(title, cases[d].content.title) /\ KeptApart(cases[d].content.title, title)
    <3>1. cases[d].content.title \in TitlesBut(0)
      BY <1>6 DEF TitlesBut
    <3>2. Stored(cases[d].content.title) # Asked(title)
      BY <1>2, <3>1 DEF Clashes
    <3> QED BY <1>1, <1>3, <3>2, FreeTitles
  <2>2. ASSUME NEW d \in DOMAIN cases', NEW e \in DOMAIN cases', d # e
        PROVE  KeptApart(cases'[d].content.title, cases'[e].content.title)
    <3>1. \A f \in DOMAIN cases' : f # L + 1 => f \in DOMAIN cases /\ cases'[f] = cases[f]
      BY <1>1, <1>4, <1>6
    <3>2. CASE d = L + 1
      BY <1>3, <1>4, <2>1, <2>2, <3>1, <3>2
    <3>3. CASE e = L + 1
      BY <1>3, <1>4, <2>1, <2>2, <3>1, <3>3
    <3>4. CASE d # L + 1 /\ e # L + 1
      <4>1. d \in DOMAIN cases /\ e \in DOMAIN cases /\ cases'[d] = cases[d] /\ cases'[e] = cases[e]
        BY <3>1, <3>4
      <4> QED BY <2>2, <4>1 DEF CInv, TitlesAreTaken
    <3> QED BY <3>2, <3>3, <3>4
  <2> QED BY <2>2 DEF TitlesAreTaken
<1>13. notes' \in Nat /\ saves' \in [Editors -> Nat]
  BY <1>2 DEF CInv, CaseTypeOK
<1>14. CInv'
  BY <1>2, <1>4, <1>5, <1>8, <1>10, <1>12, <1>13, Assembled
<1>15. NoneLost
  BY <1>2 DEF NoneLost
<1> QED BY <1>11, <1>14, <1>15

LEMMA ReadStep ==
  ASSUME CInv, NEW e \in Editors, NEW c \in DOMAIN cases, Read(e, c)
  PROVE  CInv' /\ NoneLost /\ NotesGoOn
<1> DEFINE h == [case |-> c, version |-> cases[c].version, content |-> cases[c].content, resets |-> resets]
<1>1. /\ cases \in Seq(CaseRec) /\ Len(cases) \in 2..MaxCases /\ DOMAIN cases = 1..Len(cases)
      /\ \A d \in DOMAIN cases : cases[d] \in CaseRec /\ cases[d].version \in Nat \ {0}
                                 /\ cases[d].content \in Content
  BY TypedCases DEF CInv
<1>2. held' = [held EXCEPT ![e] = h] /\ UNCHANGED <<cases, notes, saves, bot, elapsed, resets>>
  BY DEF Read
<1>3. c \in 1..MaxCases /\ resets \in 0..MaxEras
  BY <1>1, CaseConstants DEF CInv, CaseTypeOK
<1>4. h \in Kept
  BY <1>1, <1>3 DEF Kept, CaseRec
<1>5. Agrees(h, cases') /\ h.resets = resets
  BY <1>1, <1>2 DEF Agrees
<1> HIDE DEF h
<1>6. HoldersKnow'
  BY <1>2, <1>4, <1>5, HoldersKeep
<1>7. NotesApart' /\ TitlesAreTaken'
  BY <1>2 DEF CInv, NotesApart, TitlesAreTaken
<1>8. NotesGoOn
  <2>1. ASSUME NEW d \in DOMAIN cases PROVE IsPrefix(cases[d].content.notes, cases'[d].content.notes)
    <3>1. cases[d].content.notes \in Seq(Int) /\ cases'[d] = cases[d]
      BY <1>1, <1>2 DEF Content
    <3> QED BY <3>1, SequenceFacts
  <2> QED BY <1>7, <2>1 DEF NotesGoOn, NotesApart
<1>9. cases' \in Seq(CaseRec) /\ Len(cases') \in 2..MaxCases /\ notes' \in Nat /\ saves' \in [Editors -> Nat]
  BY <1>1, <1>2 DEF CInv, CaseTypeOK
<1> QED BY <1>2, <1>6, <1>7, <1>8, <1>9, Assembled DEF NoneLost

\* What a patch makes of the content: the title or the summary is as sent, the rest as it was.
LEMMA PatchedContent ==
  ASSUME NEW old \in Content, NEW changes,
         \/ \E t \in Titles : changes = [title |-> t]
         \/ \E s \in Summaries : changes = [summary |-> s]
  PROVE  LET content == [k \in DOMAIN old |-> IF k \in DOMAIN changes THEN changes[k] ELSE old[k]]
         IN  /\ content \in Content /\ content.notes = old.notes
             /\ content.title = old.title \/ ("title" \in DOMAIN changes /\ content.title = changes.title)
<1> DEFINE content == [k \in DOMAIN old |-> IF k \in DOMAIN changes THEN changes[k] ELSE old[k]]
<1>1. DOMAIN old = {"title", "severity", "summary", "evidence", "notes"}
  BY DEF Content
<1>2. ASSUME NEW t \in Titles, changes = [title |-> t]
      PROVE  content \in Content /\ content.notes = old.notes /\ "title" \in DOMAIN changes
             /\ content.title = changes.title
  <2>1. content = [title |-> t, severity |-> old.severity, summary |-> old.summary,
                   evidence |-> old.evidence, notes |-> old.notes]
    BY <1>1, <1>2
  <2> HIDE DEF content
  <2> QED BY <1>2, <2>1 DEF Content
<1>3. ASSUME NEW s \in Summaries, changes = [summary |-> s]
      PROVE  content \in Content /\ content.notes = old.notes /\ content.title = old.title
  <2>1. content = [title |-> old.title, severity |-> old.severity, summary |-> s,
                   evidence |-> old.evidence, notes |-> old.notes]
    BY <1>1, <1>3
  <2> HIDE DEF content
  <2> QED BY <1>3, <2>1 DEF Content
<1> QED BY <1>2, <1>3

LEMMA PatchStep ==
  ASSUME CInv, NEW e \in Editors, held[e] # Nothing,
         NEW c \in DOMAIN cases, c = held[e].case,
         NEW tags, NEW changes,
         \/ \E t \in Titles : changes = [title |-> t]
         \/ \E s \in Summaries : changes = [summary |-> s],
         Patch(e, c, tags, changes)
  PROVE  CInv' /\ NoneLost /\ NotesGoOn
<1> DEFINE old == cases[c].content
           content == [k \in DOMAIN old |-> IF k \in DOMAIN changes THEN changes[k] ELSE old[k]]
           new == Bumped(cases[c], content)
           h == [case |-> c, version |-> cases[c].version + 1, content |-> content, resets |-> resets]
<1>1. /\ cases \in Seq(CaseRec) /\ Len(cases) \in 2..MaxCases /\ DOMAIN cases = 1..Len(cases)
      /\ cases[c] \in CaseRec /\ cases[c].version \in Nat \ {0} /\ old \in Content
  BY TypedCases DEF CInv
<1>2. /\ Precondition(tags, cases[c].version, TRUE) = "ok"
      /\ "title" \in DOMAIN changes => ~Clashes(changes.title, TitlesBut(c))
      /\ Put(c, content)
      /\ saves' = IF tags = {held[e].version} THEN [saves EXCEPT ![e] = saves[e] + 1] ELSE saves
      /\ held' = [held EXCEPT ![e] = h]
      /\ UNCHANGED <<notes, bot, elapsed, resets>>
  <2>1. saves \in [Editors -> Nat]
    BY DEF CInv, CaseTypeOK
  <2> QED BY <2>1 DEF Patch
<1>3. /\ content \in Content /\ content.notes = old.notes
      /\ content.title = old.title \/ ("title" \in DOMAIN changes /\ content.title = changes.title)
  <2> HIDE DEF old
  <2> QED BY <1>1, PatchedContent
<1> HIDE DEF content
<1>4. /\ new \in CaseRec /\ new.version = cases[c].version + 1 /\ new.content = content
      /\ cases[c].version < new.version /\ cases' = [cases EXCEPT ![c] = new]
  BY <1>2, <1>3, PutIsNew
<1> HIDE DEF new
<1>5. notes' \in Nat /\ notes <= notes' /\ resets' = resets
  BY <1>2 DEF CInv, CaseTypeOK
<1>6. NotesOnward(old, new.content, notes + 1..notes')
  BY <1>1, <1>3, <1>4, NotesAsTheyWere
<1>7. new.content.title = cases[c].content.title \/ ~ Clashes(new.content.title, TitlesBut(c))
  BY <1>2, <1>3, <1>4
<1>8. /\ cases' \in Seq(CaseRec) /\ Len(cases') = Len(cases)
      /\ \A k \in Kept : Agrees(k, cases) => Agrees(k, cases')
      /\ \A k : k.case = c /\ k.version = new.version /\ k.content = new.content => Agrees(k, cases')
      /\ NotesApart' /\ TitlesAreTaken' /\ NotesGoOn
  BY <1>4, <1>5, <1>6, <1>7, OneEdited
<1>9. h \in Kept /\ h.resets = resets /\ Agrees(h, cases')
  <2>1. c \in 1..MaxCases /\ resets \in 0..MaxEras
    BY <1>1, CaseConstants DEF CInv, CaseTypeOK
  <2>2. cases[c].version + 1 \in 1..MaxEdits + 1
    BY <1>4 DEF CaseRec
  <2>3. h \in Kept
    BY <1>3, <2>1, <2>2 DEF Kept
  <2>4. h.case = c /\ h.version = new.version /\ h.content = new.content
    BY <1>4
  <2> HIDE DEF h
  <2>5. Agrees(h, cases')
    BY <1>8, <2>4
  <2>6. h.resets = resets
    BY DEF h
  <2> QED BY <2>3, <2>5, <2>6
<1> HIDE DEF h
<1>10. HoldersKnow'
  BY <1>2, <1>5, <1>8, <1>9, HoldersKeep
<1>11. saves' \in [Editors -> Nat] /\ \A f \in Editors : f # e => saves'[f] = saves[f]
  <2>1. saves \in [Editors -> Nat]
    BY DEF CInv, CaseTypeOK
  <2>2. saves' = saves \/ saves' = [saves EXCEPT ![e] = saves[e] + 1]
    BY <1>2
  <2>3. saves[e] + 1 \in Nat
    BY <2>1
  <2> QED BY <2>1, <2>2, <2>3
<1>12. CInv'
  BY <1>1, <1>2, <1>5, <1>8, <1>10, <1>11, Assembled
<1>13. ASSUME NEW f \in Editors, saves'[f] # saves[f], held[f].resets = resets
       PROVE  cases[held[f].case].content = held[f].content
  <2>1. f = e /\ tags = {held[e].version}
    BY <1>2, <1>11, <1>13
  <2>2. held[e] \in Kept /\ Agrees(held[e], cases)
    BY <1>13, <2>1 DEF CInv, HoldersKnow
  <2>3. held[e].version \in 1..MaxEdits + 1
    BY <2>2 DEF Kept
  <2>4. held[e].version # AnyTag
    BY <2>3, CaseConstants DEF AnyTag
  <2>5. MatchesEtag(tags, cases[c].version)
    BY <1>2 DEF Precondition
  <2>6. held[e].version = cases[c].version
    BY <2>1, <2>4, <2>5 DEF MatchesEtag
  <2> QED BY <2>1, <2>2, <2>6 DEF Agrees
<1> QED BY <1>8, <1>12, <1>13 DEF NoneLost

LEMMA EditStep ==
  ASSUME CInv, NEW e \in Editors, Edit(e)
  PROVE  CInv' /\ NoneLost /\ NotesGoOn
<1> DEFINE c == held[e].case
<1>1. held[e] # Nothing /\ c \in DOMAIN cases
  BY DEF Edit
<1>2. ASSUME NEW tags, NEW t \in Titles, Patch(e, c, tags, [title |-> t])
      PROVE  CInv' /\ NoneLost /\ NotesGoOn
  <2> DEFINE changes == [title |-> t]
  <2>1. \E u \in Titles : changes = [title |-> u]
    OBVIOUS
  <2>2. Patch(e, c, tags, changes)
    BY <1>2
  <2> HIDE DEF changes
  <2> QED BY <1>1, <2>1, <2>2, PatchStep
<1>3. ASSUME NEW tags, NEW s \in Summaries, Patch(e, c, tags, [summary |-> s])
      PROVE  CInv' /\ NoneLost /\ NotesGoOn
  <2> DEFINE changes == [summary |-> s]
  <2>1. \E u \in Summaries : changes = [summary |-> u]
    OBVIOUS
  <2>2. Patch(e, c, tags, changes)
    BY <1>3
  <2> HIDE DEF changes
  <2> QED BY <1>1, <2>1, <2>2, PatchStep
<1> QED BY <1>2, <1>3 DEF Edit

\* The edits due are made up for: what was waited for is paid, and no more.
LEMMA DueIsPaid ==
  ASSUME NEW edits \in Nat, NEW wait \in Int, wait <= Interval, NEW time \in Int,
         edits * Interval + Interval - wait <= time,
         NEW n \in Nat, n > 0, wait <= 0, n <= 1 + (-wait) \div Interval
  PROVE  /\ wait + n * Interval \in Int
         /\ wait + n * Interval <= Interval
         /\ (edits + n) * Interval + Interval - (wait + n * Interval) <= time
         /\ wait + n * Interval <= 0 => (edits + n) * Interval + Interval - Interval <= time
<1> DEFINE I == Interval
           q == (-wait) \div I
<1>1. I \in Nat /\ I > 0
  BY CaseConstants
<1>2. q \in Nat /\ I * q <= -wait
  <2>1. -wait \in Nat
    OBVIOUS
  <2>2. q = (-wait) \div I
    OBVIOUS
  <2> HIDE DEF I, q
  <2> QED BY <1>1, <2>1, <2>2
<1> HIDE DEF q
<1>3. n - 1 <= q
  BY <1>2 DEF q
<1>4. I * (n - 1) <= I * q
  <2>1. q - (n - 1) \in Nat
    BY <1>2, <1>3
  <2>2. I * (q - (n - 1)) \in Nat
    BY <1>1, <2>1
  <2>3. I * (q - (n - 1)) = I * q - I * (n - 1)
    BY <1>1, <1>2
  <2>4. I * q \in Int /\ I * (n - 1) \in Int
    BY <1>1, <1>2
  <2> QED BY <2>2, <2>3, <2>4
<1>5. I * (n - 1) = n * I - I /\ (edits + n) * I = edits * I + n * I
  BY <1>1
<1>6. n * I \in Int /\ edits * I \in Int /\ I * q \in Int
  BY <1>1, <1>2
<1> QED BY <1>1, <1>2, <1>4, <1>5, <1>6

LEMMA BotStep ==
  ASSUME CInv, BotTick
  PROVE  CInv' /\ NoneLost /\ NotesGoOn
<1> DEFINE n == EditsDue
           new == BotEdits(n)[n]
<1>1. /\ cases \in Seq(CaseRec) /\ Len(cases) \in 2..MaxCases /\ Len(cases) \in Nat
      /\ DOMAIN cases = 1..Len(cases)
      /\ \A d \in DOMAIN cases : cases[d].version \in Nat \ {0}
  BY TypedCases DEF CInv
<1>2. /\ notes \in Nat /\ saves \in [Editors -> Nat] /\ bot \in [step: Nat, edits: Nat, wait: Int]
      /\ bot.step \in Nat /\ bot.edits \in Nat /\ bot.wait \in Int /\ elapsed \in 0..MaxTime
  BY DEF CInv, CaseTypeOK
<1>3. /\ n > 0 /\ Edits + n <= MaxEdits
      /\ cases' = [cases EXCEPT ![BotCase] = new]
      /\ notes' = notes + NewNotes(n)
      /\ bot' = [step |-> bot.step + n, edits |-> bot.edits + n, wait |-> BotDueAfter(n)]
      /\ UNCHANGED <<held, saves, elapsed, resets>>
  BY DEF BotTick
<1>4. n \in Nat /\ bot.wait <= 0 /\ n <= 1 + (-bot.wait) \div Interval
  <2>1. Interval \in Nat \ {0} /\ MaxCatchUp \in Nat \ {0}
    BY CaseConstants
  <2>2. ~ (bot.wait > 0)
    BY <1>3, <2>1 DEF EditsDue
  <2>3. (-bot.wait) \div Interval \in Nat
    <3>1. -bot.wait \in Nat
      BY <1>2, <2>2
    <3> QED BY <2>1, <3>1
  <2>4. n = IF 1 + (-bot.wait) \div Interval < MaxCatchUp THEN 1 + (-bot.wait) \div Interval ELSE MaxCatchUp
    BY <2>2 DEF EditsDue
  <2> QED BY <1>2, <2>1, <2>2, <2>3, <2>4
<1> HIDE DEF n
<1>5. /\ new \in CaseRec /\ new.version = cases[BotCase].version + n
      /\ Onward(cases[BotCase].content, new.content, notes + 1..notes + NewNotes(n))
  <2>1. Len(cases) >= 2
    BY <1>1
  <2> QED BY <1>1, <1>2, <1>3, <1>4, <2>1, BotEditsFacts
<1> HIDE DEF new
<1>6. BotCase \in DOMAIN cases
  BY <1>1 DEF BotCase
<1>7. NewNotes(n) \in Nat
  BY <1>2, <1>4, NewNotesCount
<1>8. notes' \in Nat /\ notes <= notes' /\ resets' = resets
  BY <1>2, <1>3, <1>7
<1>9. cases[BotCase].version < new.version
  BY <1>1, <1>3, <1>4, <1>5, <1>6
<1>10. /\ cases' \in Seq(CaseRec) /\ Len(cases') = Len(cases)
       /\ \A k \in Kept : Agrees(k, cases) => Agrees(k, cases')
       /\ NotesApart' /\ TitlesAreTaken' /\ NotesGoOn
  <2>1. NotesOnward(cases[BotCase].content, new.content, notes + 1..notes')
    BY <1>3, <1>5 DEF Onward
  <2>2. new.content.title = cases[BotCase].content.title
    BY <1>5 DEF Onward
  <2> QED BY <1>3, <1>5, <1>6, <1>8, <1>9, <2>1, <2>2, OneEdited
<1>11. HoldersKnow'
  BY <1>3, <1>10, HoldersKeep
<1>12. bot' \in [step: Nat, edits: Nat, wait: Int] /\ bot'.wait <= Interval /\ BotInTime'
  <2> DEFINE I == Interval
             wait == bot.wait + n * I
  <2>1. I \in Nat \ {0}
    BY CaseConstants
  <2>2. bot.edits * I + I - bot.wait <= elapsed /\ elapsed \in Int
    BY <1>2 DEF CInv, BotInTime
  <2>3. /\ wait \in Int /\ wait <= I /\ (bot.edits + n) * I + I - wait <= elapsed
        /\ wait <= 0 => (bot.edits + n) * I + I - I <= elapsed
    <3> DEFINE edits == bot.edits
               w == bot.wait
    <3>1. edits \in Nat /\ w \in Int /\ w <= Interval /\ w <= 0 /\ n <= 1 + (-w) \div Interval
          /\ edits * Interval + Interval - w <= elapsed /\ elapsed \in Int
      BY <1>2, <1>4, <2>2 DEF CInv
    <3>2. n > 0 /\ n \in Nat
      BY <1>3, <1>4
    <3> HIDE DEF edits, w
    <3>3. /\ w + n * Interval \in Int /\ w + n * Interval <= Interval
          /\ (edits + n) * Interval + Interval - (w + n * Interval) <= elapsed
          /\ w + n * Interval <= 0 => (edits + n) * Interval + Interval - Interval <= elapsed
      BY <3>1, <3>2, DueIsPaid
    <3> QED BY <3>3 DEF edits, w
  <2>4. bot'.wait = (IF wait <= 0 THEN I ELSE wait) /\ bot'.edits = bot.edits + n /\ bot'.step = bot.step + n
    BY <1>3 DEF BotDueAfter
  <2>5. bot.edits + n \in Nat /\ bot.step + n \in Nat /\ elapsed' = elapsed
    BY <1>2, <1>3, <1>4
  <2> HIDE DEF wait, I
  <2>6. bot'.wait \in Int /\ bot'.wait <= I
    BY <2>1, <2>3, <2>4
  <2>7. bot' \in [step: Nat, edits: Nat, wait: Int]
    BY <1>3, <2>4, <2>5, <2>6
  <2>8. (bot.edits + n) * I + I - bot'.wait <= elapsed
    BY <2>3, <2>4
  <2>9. bot'.edits * I + I - bot'.wait <= elapsed'
    BY <2>4, <2>5, <2>8
  <2> QED BY <2>6, <2>7, <2>9 DEF I, BotInTime
<1>13. CaseTypeOK'
  <2>1. \A e \in Editors : held'[e] = Nothing \/ held'[e] \in Kept
    BY <1>11 DEF HoldersKnow
  <2> QED BY <1>1, <1>3, <1>8, <1>10, <1>12, <2>1 DEF CInv, CaseTypeOK, CaseRec, Kept
<1> QED BY <1>3, <1>10, <1>11, <1>12, <1>13 DEF CInv, NoneLost

LEMMA AdvanceStep ==
  ASSUME CInv, NEW d \in Jumps, Advance(d)
  PROVE  CInv' /\ NoneLost /\ NotesGoOn
<1>1. /\ d \in Nat \ {0} /\ Interval \in Nat \ {0} /\ elapsed' = elapsed + d /\ elapsed + d <= MaxTime
      /\ bot' = [bot EXCEPT !.wait = bot.wait - d]
      /\ UNCHANGED <<cases, notes, held, saves, resets>>
  BY CaseConstants DEF Advance, CInv, CaseTypeOK
<1>2. bot \in [step: Nat, edits: Nat, wait: Int] /\ elapsed \in 0..MaxTime /\ MaxTime \in Nat
  BY CaseConstants DEF CInv, CaseTypeOK
<1>3. /\ bot' \in [step: Nat, edits: Nat, wait: Int] /\ bot'.edits = bot.edits /\ bot'.wait = bot.wait - d
      /\ elapsed' \in 0..MaxTime
  BY <1>1, <1>2
<1>4. bot'.wait <= Interval /\ BotInTime'
  <2>1. bot.edits * Interval \in Int
    BY <1>1, <1>2
  <2>2. bot.edits * Interval + Interval - bot.wait <= elapsed /\ bot.wait <= Interval
    BY DEF CInv, BotInTime
  <2>3. bot.wait \in Int
    BY <1>2
  <2> QED BY <1>1, <1>2, <1>3, <2>1, <2>2, <2>3 DEF BotInTime
<1>5. CaseTypeOK'
  BY <1>1, <1>3 DEF CInv, CaseTypeOK
<1>6. HoldersKnow' /\ NotesApart' /\ TitlesAreTaken'
  BY <1>1 DEF CInv, HoldersKnow, NotesApart, TitlesAreTaken
<1>7. NotesGoOn
  <2>1. ASSUME NEW c \in DOMAIN cases PROVE IsPrefix(cases[c].content.notes, cases'[c].content.notes)
    <3>1. cases[c].content \in Content
      BY TypedCases DEF CInv
    <3>2. cases[c].content.notes \in Seq(Int) /\ cases'[c] = cases[c]
      BY <1>1, <3>1 DEF Content
    <3> QED BY <3>2, SequenceFacts
  <2> QED BY <1>6, <2>1 DEF NotesGoOn, NotesApart
<1> QED BY <1>1, <1>4, <1>5, <1>6, <1>7 DEF CInv, NoneLost

\* What the store is seeded with.
LEMMA SeededFacts ==
  /\ Seeded \in Seq(CaseRec) /\ Len(Seeded) = 2
  /\ cases = Seeded /\ notes = 2 => NotesApart /\ TitlesAreTaken
<1> DEFINE one == [title |-> Plain("noise"), severity |-> "low", summary |-> "seeded",
                   evidence |-> {}, notes |-> <<-1>>]
           two == [title |-> Plain("harbor"), severity |-> "medium", summary |-> "seeded",
                   evidence |-> {}, notes |-> <<-2>>]
<1>1. Seeded = <<[version |-> 1, content |-> one], [version |-> 1, content |-> two]>>
  BY DEF Seeded
<1>2. one \in Content /\ two \in Content
  <2>1. <<-1>> \in Seq(Int) /\ <<-2>> \in Seq(Int) /\ {} \in SUBSET Sessions
    OBVIOUS
  <2> QED BY <2>1 DEF Content
<1>3. ToSet(one.notes) = {-1} /\ ToSet(two.notes) = {-2}
  BY DEF ToSet
<1>4. KeptApart(one.title, two.title) /\ KeptApart(two.title, one.title)
  <2>1. Stored(one.title).word = "noise" /\ Stored(two.title).word = "harbor"
    BY DEF Stored, Plain
  <2> QED BY <2>1 DEF KeptApart
<1> HIDE DEF one, two
<1>5. 1 \in 1..MaxEdits + 1
  BY CaseConstants
<1>6. Seeded \in Seq(CaseRec) /\ Len(Seeded) = 2 /\ DOMAIN Seeded = {1, 2}
      /\ Seeded[1].content = one /\ Seeded[2].content = two
  BY <1>1, <1>2, <1>5 DEF CaseRec
<1>7. ASSUME cases = Seeded, notes = 2 PROVE NotesApart
  <2>1. \A c \in DOMAIN cases : \A id \in ToSet(cases[c].content.notes) : id <= notes
    BY <1>3, <1>6, <1>7
  <2>2. \A c, d \in DOMAIN cases :
          c # d => ToSet(cases[c].content.notes) \cap ToSet(cases[d].content.notes) = {}
    BY <1>3, <1>6, <1>7
  <2> QED BY <2>1, <2>2 DEF NotesApart
<1>8. ASSUME cases = Seeded PROVE TitlesAreTaken
  BY <1>4, <1>6, <1>8 DEF TitlesAreTaken
<1> QED BY <1>6, <1>7, <1>8

LEMMA ResetStep ==
  ASSUME CInv, ResetCases
  PROVE  CInv' /\ NoneLost /\ NotesGoOn
<1>1. /\ resets < MaxEras /\ resets' = resets + 1 /\ cases' = Seeded /\ notes' = 2
      /\ bot' = [step |-> 0, edits |-> 0, wait |-> Interval] /\ elapsed' = 0
      /\ UNCHANGED <<held, saves>>
  BY DEF ResetCases
<1>2. /\ resets \in Nat /\ resets' \in 0..MaxEras /\ resets' # resets /\ Interval \in Nat
      /\ MaxCases \in Nat /\ MaxCases >= 2 /\ MaxTime \in Nat
  BY <1>1, CaseConstants DEF CInv, CaseTypeOK
<1>3. NotesApart' /\ TitlesAreTaken'
  <2>1. (cases = Seeded /\ notes = 2 => NotesApart /\ TitlesAreTaken)'
    BY SeededFacts, PTL
  <2> QED BY <1>1, <2>1
<1>4. HoldersKnow'
  <2>1. held \in [Editors -> {Nothing} \cup Kept]
    BY DEF CInv, HoldersKnow
  <2>2. ASSUME NEW e \in Editors, held[e] # Nothing PROVE held[e].resets <= resets' /\ held[e].resets # resets'
    <3>1. held[e] \in Kept /\ held[e].resets <= resets
      BY <2>1, <2>2 DEF CInv, HoldersKnow
    <3>2. held[e].resets \in Nat
      BY <3>1 DEF Kept
    <3> QED BY <1>1, <1>2, <3>1, <3>2
  <2> QED BY <1>1, <2>1, <2>2 DEF HoldersKnow
<1>5. BotInTime' /\ bot'.wait <= Interval
  BY <1>1, <1>2 DEF BotInTime
<1>6. CaseTypeOK'
  BY <1>1, <1>2, SeededFacts DEF CInv, CaseTypeOK, CaseRec
<1> QED BY <1>1, <1>2, <1>3, <1>4, <1>5, <1>6 DEF CInv, NoneLost, NotesGoOn

LEMMA CasesBegin == CaseInit => CInv
<1> SUFFICES ASSUME CaseInit PROVE CInv
  OBVIOUS
<1>1. /\ cases = Seeded /\ notes = 2 /\ held = [e \in Editors |-> Nothing]
      /\ saves = [e \in Editors |-> 0] /\ bot = [step |-> 0, edits |-> 0, wait |-> Interval]
      /\ elapsed = 0 /\ resets = 0
  BY DEF CaseInit
<1>2. /\ MaxCases \in Nat /\ MaxCases >= 2 /\ MaxTime \in Nat /\ MaxEras \in Nat /\ Interval \in Nat
  BY CaseConstants
<1>3. CaseTypeOK
  BY <1>1, <1>2, SeededFacts DEF CaseTypeOK, CaseRec
<1>4. HoldersKnow
  BY <1>1 DEF HoldersKnow
<1>5. NotesApart /\ TitlesAreTaken
  BY <1>1, SeededFacts
<1>6. BotInTime /\ bot.wait <= Interval
  BY <1>1, <1>2 DEF BotInTime
<1> QED BY <1>3, <1>4, <1>5, <1>6 DEF CInv

LEMMA CasesGoOn ==
  ASSUME CInv, [CaseNext]_caseVars
  PROVE  CInv' /\ (UNCHANGED caseVars \/ (NoneLost /\ NotesGoOn))
<1>1. CASE \E t \in Titles, s \in Summaries : Create(t, s)
  BY <1>1, CreateStep
<1>2. CASE \E e \in Editors, c \in DOMAIN cases : Read(e, c)
  BY <1>2, ReadStep
<1>3. CASE \E e \in Editors : Edit(e)
  BY <1>3, EditStep
<1>4. CASE \E c \in DOMAIN cases : AddNote(c)
  BY <1>4, NoteStep
<1>5. CASE \E c \in DOMAIN cases, s \in Sessions : Pin(c, s) \/ Unpin(c, s)
  BY <1>5, PinStep
<1>6. CASE BotTick
  BY <1>6, BotStep
<1>7. CASE ResetCases
  BY <1>7, ResetStep
<1>8. CASE \E d \in Jumps : Advance(d)
  BY <1>8, AdvanceStep
<1>9. CASE UNCHANGED caseVars
  BY <1>9 DEF caseVars, CInv, CaseTypeOK, HoldersKnow, NotesApart, BotInTime, TitlesAreTaken
<1> QED BY <1>1, <1>2, <1>3, <1>4, <1>5, <1>6, <1>7, <1>8, <1>9 DEF CaseNext

LEMMA CInvTells == CInv => CaseTypeOK /\ BotKeepsPace /\ TitlesAreTaken
<1> SUFFICES ASSUME CInv PROVE BotKeepsPace
  BY DEF CInv
<1>1. bot.edits \in Nat /\ bot.wait \in Int /\ elapsed \in Int /\ Interval \in Nat
  BY CaseConstants DEF CInv, CaseTypeOK
<1>2. bot.edits * Interval \in Int
  BY <1>1
<1> QED BY <1>1, <1>2 DEF CInv, BotInTime, BotKeepsPace

\* Cases edited from stale copies by any number of editors and the bot: an edit
\* saved under a tag is of what its author had read, notes are only added, their
\* ids name one note, and whatever titles are asked for, with outer spaces or
\* without, a title stored without them is no other case's (CaseStore, TeammateBot).
THEOREM CasesHold ==
  CaseSpec => [](CaseTypeOK /\ BotKeepsPace /\ TitlesAreTaken) /\ NoLostEdit /\ NotesStay
<1>1. CaseInit => CInv
  BY CasesBegin
<1>2. CInv /\ [CaseNext]_caseVars => CInv' /\ (UNCHANGED caseVars \/ (NoneLost /\ NotesGoOn))
  BY CasesGoOn
<1>3. CInv /\ [CaseNext]_caseVars
        => CInv' /\ [\A e \in Editors :
                       saves'[e] # saves[e] /\ held[e].resets = resets
                         => cases[held[e].case].content = held[e].content]_caseVars
                 /\ [resets' = resets =>
                       /\ \A c \in DOMAIN cases : IsPrefix(cases[c].content.notes, cases'[c].content.notes)
                       /\ \A c, d \in DOMAIN cases' : c # d =>
                            ToSet(cases'[c].content.notes) \cap ToSet(cases'[d].content.notes) = {}]_caseVars
  BY <1>2 DEF NoneLost, NotesGoOn
<1>4. CInv => CaseTypeOK /\ BotKeepsPace /\ TitlesAreTaken
  BY CInvTells
<1> QED BY <1>1, <1>3, <1>4, PTL DEF CaseSpec, NoLostEdit, NotesStay

-----------------------------------------------------------------------------
(* The pages of the list.                                                  *)

\* What is past the cursor and was there at the start has been seen.
PagesInv ==
  /\ PagesTypeOK
  /\ walk.offset <= listed /\ walk.start <= listed
  /\ \A n \in 1..walk.start : n > listed - walk.offset => n \in ToSet(walk.seen)
  /\ 1 \in ToSet(walk.seen) => 1..walk.start \subseteq ToSet(walk.seen)

LEMMA OrderedIs ==
  ASSUME listed \in Nat
  PROVE  /\ Ordered \in Seq(1..listed) /\ Len(Ordered) = listed
         /\ \A i \in 1..listed : Ordered[i] = listed - i + 1
<1> DEFINE s == [n \in 1..listed |-> n]
<1>1. s \in Seq(1..listed) /\ Len(s) = listed /\ \A i \in 1..listed : s[i] = i
  OBVIOUS
<1> HIDE DEF s
<1>2. Ordered = [i \in 1..listed |-> s[(listed - i) + 1]]
  BY <1>1 DEF Ordered, Reverse, s
<1>3. \A i \in 1..listed : (listed - i) + 1 \in 1..listed
  OBVIOUS
<1>4. Ordered = [i \in 1..listed |-> (listed - i) + 1]
  BY <1>1, <1>2, <1>3
<1> QED BY <1>3, <1>4

LEMMA Joined ==
  ASSUME NEW S, NEW s \in Seq(S), NEW t \in Seq(S)
  PROVE  s \o t \in Seq(S) /\ ToSet(s \o t) = ToSet(s) \cup ToSet(t)
<1>1. /\ s \o t \in Seq(S) /\ Len(s \o t) = Len(s) + Len(t) /\ Len(s) \in Nat /\ Len(t) \in Nat
      /\ \A i \in 1..Len(s) : (s \o t)[i] = s[i]
      /\ \A i \in Len(s) + 1..Len(s) + Len(t) : (s \o t)[i] = t[i - Len(s)]
  OBVIOUS
<1>2. ASSUME NEW x \in ToSet(s \o t) PROVE x \in ToSet(s) \cup ToSet(t)
  <2>1. PICK i \in 1..Len(s) + Len(t) : x = (s \o t)[i]
    BY <1>1, <1>2 DEF ToSet
  <2>2. CASE i \in 1..Len(s)
    BY <1>1, <2>1, <2>2 DEF ToSet
  <2>3. CASE i \in Len(s) + 1..Len(s) + Len(t)
    <3>1. i - Len(s) \in 1..Len(t)
      BY <1>1, <2>3
    <3> QED BY <1>1, <2>1, <2>3, <3>1 DEF ToSet
  <2> QED BY <1>1, <2>1, <2>2, <2>3
<1>3. ASSUME NEW x \in ToSet(s) PROVE x \in ToSet(s \o t)
  <2>1. PICK i \in 1..Len(s) : x = s[i]
    BY <1>3 DEF ToSet
  <2>2. i \in 1..Len(s \o t) /\ (s \o t)[i] = x
    BY <1>1, <2>1
  <2> QED BY <1>1, <2>2 DEF ToSet
<1>4. ASSUME NEW x \in ToSet(t) PROVE x \in ToSet(s \o t)
  <2>1. PICK i \in 1..Len(t) : x = t[i]
    BY <1>4 DEF ToSet
  <2> DEFINE j == Len(s) + i
  <2>2. j \in Len(s) + 1..Len(s) + Len(t) /\ j - Len(s) = i /\ j \in 1..Len(s \o t)
    BY <1>1
  <2>3. (s \o t)[j] = x
    BY <1>1, <2>1, <2>2
  <2> QED BY <1>1, <2>2, <2>3 DEF ToSet
<1> QED BY <1>1, <1>2, <1>3, <1>4

LEMMA PageIs ==
  ASSUME listed \in Nat, NEW from \in Nat, NEW to \in 0..listed, from < to
  PROVE  LET page == SubSeq(Ordered, from + 1, to)
         IN  /\ page \in Seq(1..listed) /\ Len(page) = to - from
             /\ ToSet(page) = {n \in 1..listed : n > listed - to /\ n <= listed - from}
<1> DEFINE page == SubSeq(Ordered, from + 1, to)
<1>1. /\ Ordered \in Seq(1..listed) /\ Len(Ordered) = listed
      /\ \A i \in 1..listed : Ordered[i] = listed - i + 1
  BY OrderedIs
<1>2. /\ page \in Seq(1..listed) /\ Len(page) = to - from
      /\ \A i \in 1..to - from : page[i] = Ordered[from + i]
  BY <1>1
<1>3. \A i \in 1..to - from : page[i] = listed - (from + i) + 1
  <2> TAKE i \in 1..to - from
  <2>1. from + i \in 1..listed
    OBVIOUS
  <2> QED BY <1>1, <1>2, <2>1
<1> HIDE DEF page
<1>4. ASSUME NEW x \in ToSet(page) PROVE x \in 1..listed /\ x > listed - to /\ x <= listed - from
  <2>1. PICK i \in 1..to - from : x = page[i]
    BY <1>2, <1>4 DEF ToSet
  <2> QED BY <1>3, <2>1
<1>5. ASSUME NEW x \in 1..listed, x > listed - to, x <= listed - from PROVE x \in ToSet(page)
  <2> DEFINE i == listed - from - x + 1
  <2>1. i \in 1..to - from /\ listed - (from + i) + 1 = x
    BY <1>5
  <2> HIDE DEF i
  <2>2. page[i] = x
    BY <1>3, <2>1
  <2> QED BY <1>2, <2>1, <2>2 DEF ToSet
<1>6. ToSet(page) = {n \in 1..listed : n > listed - to /\ n <= listed - from}
  BY <1>4, <1>5
<1> QED BY <1>2, <1>6 DEF page

LEMMA PageTurned ==
  ASSUME PagesInv, NextPage
  PROVE  PagesInv'
<1> DEFINE size == PageSize(walk.limit)
           to == IF walk.offset + size < listed THEN walk.offset + size ELSE listed
           page == Window(walk.offset, size)
<1>1. /\ listed \in 2..MaxListed /\ listed \in Nat /\ MaxListed \in Nat
      /\ walk \in [offset: 0..MaxListed, seen: Seq(1..MaxListed), start: 0..MaxListed, limit: Limits \cup {0}]
  BY PageConstants DEF PagesInv, PagesTypeOK
<1>2. walk.limit > 0 /\ walk.offset < listed /\ ~ (1 \in ToSet(walk.seen))
      /\ walk' = [walk EXCEPT !.offset = walk.offset + Len(page), !.seen = walk.seen \o page]
      /\ listed' = listed
  BY <1>1 DEF NextPage, HasNext
<1>3. size \in Nat \ {0}
  <2>1. walk.limit \in Limits
    BY <1>1, <1>2
  <2> QED BY <2>1, PageConstants DEF PageSize
<1>4. walk.offset \in Nat /\ walk.start \in Nat /\ walk.seen \in Seq(1..MaxListed)
      /\ walk.start <= listed
  BY <1>1 DEF PagesInv
<1>5. to \in 0..listed /\ walk.offset < to
  BY <1>1, <1>2, <1>3, <1>4
<1>6. page = SubSeq(Ordered, walk.offset + 1, to)
  BY DEF Window
<1> HIDE DEF to, size
<1>7. /\ page \in Seq(1..listed) /\ Len(page) = to - walk.offset
      /\ ToSet(page) = {n \in 1..listed : n > listed - to /\ n <= listed - walk.offset}
  BY <1>1, <1>4, <1>5, <1>6, PageIs
<1> HIDE DEF page
<1>8. page \in Seq(1..MaxListed)
  <2>1. 1..listed \subseteq 1..MaxListed
    BY <1>1
  <2>2. Seq(1..listed) \subseteq Seq(1..MaxListed)
    BY <2>1, SeqMonotonic
  <2> QED BY <1>7, <2>2
<1>9. walk.seen \o page \in Seq(1..MaxListed) /\ ToSet(walk.seen \o page) = ToSet(walk.seen) \cup ToSet(page)
  BY <1>4, <1>8, Joined
<1>10. /\ walk'.offset = to /\ walk'.seen = walk.seen \o page /\ walk'.start = walk.start
       /\ walk'.limit = walk.limit
  BY <1>1, <1>2, <1>4, <1>5, <1>7
<1>11. PagesTypeOK'
  <2>1. to \in 0..MaxListed
    BY <1>1, <1>5
  <2>2. walk' = [offset |-> to, seen |-> walk.seen \o page, start |-> walk.start, limit |-> walk.limit]
    BY <1>1, <1>2, <1>10
  <2>3. walk.start \in 0..MaxListed /\ walk.limit \in Limits \cup {0}
    BY <1>1
  <2>4. walk' \in [offset: 0..MaxListed, seen: Seq(1..MaxListed), start: 0..MaxListed, limit: Limits \cup {0}]
    BY <1>9, <2>1, <2>2, <2>3
  <2> QED BY <1>1, <1>2, <2>4 DEF PagesTypeOK
<1>12. ASSUME NEW n \in 1..walk.start, n > listed - to PROVE n \in ToSet(walk'.seen)
  <2>1. CASE n > listed - walk.offset
    BY <1>9, <1>10, <2>1 DEF PagesInv
  <2>2. CASE n <= listed - walk.offset
    <3>1. n \in 1..listed
      BY <1>1, <1>4
    <3> QED BY <1>7, <1>9, <1>10, <1>12, <2>2, <3>1
  <2> QED BY <1>1, <1>4, <2>1, <2>2
<1>13. ASSUME 1 \in ToSet(walk'.seen) PROVE 1..walk.start \subseteq ToSet(walk'.seen)
  <2>1. 1 \in ToSet(page)
    BY <1>2, <1>9, <1>10, <1>13
  <2>2. 1 > listed - to
    BY <1>7, <2>1
  <2>3. \A n \in 1..walk.start : n > listed - to
    BY <1>1, <1>4, <1>5, <2>2
  <2> QED BY <1>12, <2>3
<1> QED BY <1>2, <1>4, <1>5, <1>10, <1>11, <1>12, <1>13 DEF PagesInv

LEMMA PagesBegin == PagesInit => PagesInv
<1> SUFFICES ASSUME PagesInit PROVE PagesInv
  OBVIOUS
<1>1. listed = 2 /\ walk = [offset |-> 0, seen |-> <<>>, start |-> 0, limit |-> 0]
  BY DEF PagesInit, NoWalk
<1>2. MaxListed \in Nat /\ MaxListed >= 2
  BY PageConstants
<1>3. <<>> \in Seq(1..MaxListed) /\ ToSet(<<>>) = {}
  BY DEF ToSet
<1>4. PagesTypeOK
  BY <1>1, <1>2, <1>3 DEF PagesTypeOK
<1> QED BY <1>1, <1>3, <1>4 DEF PagesInv

LEMMA PagesGoOn == PagesInv /\ [PagesNext]_pageVars => PagesInv'
<1> SUFFICES ASSUME PagesInv, [PagesNext]_pageVars PROVE PagesInv'
  OBVIOUS
<1>1. /\ listed \in 2..MaxListed /\ listed \in Nat /\ MaxListed \in Nat
      /\ walk \in [offset: 0..MaxListed, seen: Seq(1..MaxListed), start: 0..MaxListed, limit: Limits \cup {0}]
      /\ walk.offset \in Nat /\ walk.start \in Nat
  BY PageConstants DEF PagesInv, PagesTypeOK
<1>2. CASE CaseOpened
  <2>1. listed < MaxListed /\ listed' = listed + 1 /\ walk' = walk
    BY <1>2 DEF CaseOpened
  <2>2. listed' \in 2..MaxListed /\ walk'.offset <= listed' /\ walk'.start <= listed'
    BY <1>1, <2>1 DEF PagesInv
  <2>3. ASSUME NEW n \in 1..walk.start, n > listed' - walk.offset PROVE n \in ToSet(walk.seen)
    <3>1. n > listed - walk.offset
      BY <1>1, <2>1, <2>3
    <3> QED BY <3>1 DEF PagesInv
  <2> QED BY <1>1, <2>1, <2>2, <2>3 DEF PagesInv, PagesTypeOK
<1>3. CASE NextPage
  BY <1>3, PageTurned
<1>4. ASSUME NEW limit \in Limits, StartWalk(limit) PROVE PagesInv'
  <2>1. walk' = [offset |-> 0, seen |-> <<>>, start |-> listed, limit |-> limit] /\ listed' = listed
    BY <1>4 DEF StartWalk, NoWalk
  <2>2. <<>> \in Seq(1..MaxListed) /\ ToSet(<<>>) = {}
    BY DEF ToSet
  <2>3. PagesTypeOK'
    BY <1>1, <2>1, <2>2 DEF PagesTypeOK
  <2>4. walk'.offset <= listed' /\ walk'.start <= listed' /\ ToSet(walk'.seen) = {}
    BY <1>1, <2>1, <2>2
  <2>5. ASSUME NEW n \in 1..walk'.start, n > listed' - walk'.offset PROVE FALSE
    BY <1>1, <2>1, <2>5
  <2> QED BY <2>3, <2>4, <2>5 DEF PagesInv
<1>5. CASE UNCHANGED pageVars
  BY <1>5 DEF pageVars, PagesInv, PagesTypeOK
<1> QED BY <1>2, <1>3, <1>4, <1>5 DEF PagesNext

LEMMA PagesInvTells == PagesInv => PagesTypeOK /\ WalkMissesNothing
<1> SUFFICES ASSUME PagesInv, walk.limit > 0, ~ HasNext PROVE 1..walk.start \subseteq ToSet(walk.seen)
  BY DEF PagesInv, WalkMissesNothing
<1>1. listed \in Nat /\ walk.offset \in Nat /\ walk.start \in Nat /\ walk.offset <= listed
  BY DEF PagesInv, PagesTypeOK
<1>2. CASE 1 \in ToSet(walk.seen)
  BY <1>2 DEF PagesInv
<1>3. CASE ~ (walk.offset < listed)
  <2>1. \A n \in 1..walk.start : n > listed - walk.offset
    BY <1>1, <1>3
  <2> QED BY <2>1 DEF PagesInv
<1> QED BY <1>2, <1>3 DEF HasNext

\* A walk that has no next page has shown every case there was when it began,
\* whatever the limits and however many cases came in at the front (list_cases).
THEOREM PagesShowAll == PagesSpec => [](PagesTypeOK /\ WalkMissesNothing)
BY PagesBegin, PagesGoOn, PagesInvTells, PTL DEF PagesSpec

-----------------------------------------------------------------------------
(* Hunts: their names.                                                     *)

\* A step that changes the name of one hunt at most, to a name its owner has not.
LEMMA NamesStay ==
  ASSUME HuntTypeOK, HuntTypeOK', NamesAreTaken, NEW k,
         \A i \in DOMAIN hunts' :
           i # k => i \in DOMAIN hunts /\ hunts'[i].name = hunts[i].name /\ hunts'[i].owner = hunts[i].owner,
         k \in DOMAIN hunts' =>
           \/ k \in DOMAIN hunts /\ hunts'[k].name = hunts[k].name /\ hunts'[k].owner = hunts[k].owner
           \/ ~ Clashes(hunts'[k].name, NamesOf(hunts'[k].owner, k))
  PROVE  NamesAreTaken'
<1> DEFINE words == {name.word : name \in HuntNames}
<1>1. /\ \A i \in DOMAIN hunts : hunts[i].name \in Names(words)
      /\ \A i \in DOMAIN hunts' : hunts'[i].name \in Names(words)
  BY HuntNamesAreNames DEF HuntTypeOK, Hunt
<1> HIDE DEF words
<1>2. ASSUME NEW j \in DOMAIN hunts', j # k, k \in DOMAIN hunts', hunts'[k].owner = hunts'[j].owner
      PROVE  KeptApart(hunts'[k].name, hunts'[j].name) /\ KeptApart(hunts'[j].name, hunts'[k].name)
  <2>1. j \in DOMAIN hunts /\ hunts'[j].name = hunts[j].name /\ hunts'[j].owner = hunts[j].owner
    BY <1>2
  <2>2. CASE k \in DOMAIN hunts /\ hunts'[k].name = hunts[k].name /\ hunts'[k].owner = hunts[k].owner
    BY <1>2, <2>1, <2>2 DEF NamesAreTaken
  <2>3. CASE ~ Clashes(hunts'[k].name, NamesOf(hunts'[k].owner, k))
    <3>1. hunts[j].name \in NamesOf(hunts'[k].owner, k)
      BY <1>2, <2>1 DEF NamesOf
    <3>2. Stored(hunts[j].name) # Asked(hunts'[k].name)
      BY <2>3, <3>1 DEF Clashes
    <3> QED BY <1>1, <1>2, <2>1, <3>2, FreeNames
  <2> QED BY <1>2, <2>2, <2>3
<1>3. ASSUME NEW i \in DOMAIN hunts', NEW j \in DOMAIN hunts', i # j, hunts'[i].owner = hunts'[j].owner
      PROVE  KeptApart(hunts'[i].name, hunts'[j].name)
  <2>1. CASE i = k
    BY <1>2, <1>3, <2>1
  <2>2. CASE j = k
    BY <1>2, <1>3, <2>2
  <2>3. CASE i # k /\ j # k
    BY <1>3, <2>3 DEF NamesAreTaken
  <2> QED BY <2>1, <2>2, <2>3
<1> QED BY <1>3 DEF NamesAreTaken

LEMMA NamesGoOnAreTaken ==
  ASSUME HInv, HInv', NamesAreTaken, [HuntNext]_huntVars
  PROVE  NamesAreTaken'
<1> USE DEF HInv
<1>0. hunts \in [DOMAIN hunts -> Hunt] /\ hunts' \in [DOMAIN hunts' -> Hunt]
  BY DEF HuntTypeOK
<1>1. ASSUME NEW o \in Owners, NEW name \in HuntNames, NEW query \in Queries, CreateHunt(o, name, query)
      PROVE  NamesAreTaken'
  <2> DEFINE hunt == [owner |-> o, name |-> name, query |-> query, version |-> 1]
  <2>1. /\ ~Clashes(name, NamesOf(o, 0))
        /\ hunts' = [i \in DOMAIN hunts \cup {NewId} |-> IF i = NewId THEN hunt ELSE hunts[i]]
    BY <1>1 DEF CreateHunt
  <2>2. NewId \notin DOMAIN hunts /\ 0 \notin DOMAIN hunts
    BY DEF Bookkeeping, HuntTypeOK, NewId
  <2>3. NamesOf(o, NewId) = NamesOf(o, 0)
    BY <2>2 DEF NamesOf
  <2>4. /\ \A i \in DOMAIN hunts' : i # NewId => i \in DOMAIN hunts /\ hunts'[i] = hunts[i]
        /\ hunts'[NewId].name = name /\ hunts'[NewId].owner = o
    BY <2>1
  <2> QED BY <2>1, <2>3, <2>4, NamesStay
<1>2. ASSUME NEW o \in Owners, NEW i \in DOMAIN hunts, NEW tags, NEW changes \in Changes,
             PatchHunt(o, i, tags, changes)
      PROVE  NamesAreTaken'
  <2> DEFINE new == Renewed(hunts[i], changes)
  <2>1. /\ hunts[i].owner = o
        /\ "name" \in DOMAIN changes => ~Clashes(changes.name, NamesOf(o, i))
        /\ hunts' = [hunts EXCEPT ![i] = new]
    BY <1>0, <1>2 DEF PatchHunt, Owned
  <2>2. DOMAIN hunts[i] = {"owner", "name", "query", "version"}
    BY <1>0 DEF Hunt
  <2>3. /\ new.owner = hunts[i].owner
        /\ new.name = hunts[i].name \/ ("name" \in DOMAIN changes /\ new.name = changes.name)
    <3>1. CASE \E n \in HuntNames : changes = [name |-> n]
      BY <2>2, <3>1 DEF Renewed
    <3>2. CASE \E q \in Queries : changes = [query |-> q]
      BY <2>2, <3>2 DEF Renewed
    <3> QED BY <3>1, <3>2 DEF Changes
  <2> HIDE DEF new
  <2>4. /\ DOMAIN hunts' = DOMAIN hunts /\ hunts'[i] = new
        /\ \A j \in DOMAIN hunts : j # i => hunts'[j] = hunts[j]
    BY <1>0, <2>1
  <2>5. \/ hunts'[i].name = hunts[i].name /\ hunts'[i].owner = hunts[i].owner
        \/ ~ Clashes(hunts'[i].name, NamesOf(hunts'[i].owner, i))
    BY <1>2, <2>1, <2>3, <2>4
  <2> QED BY <2>4, <2>5, NamesStay
<1>3. ASSUME NEW o \in Owners, NEW i, NEW tags, DeleteHunt(o, i, tags)
      PROVE  NamesAreTaken'
  <2>1. hunts' = [j \in DOMAIN hunts \ {i} |-> hunts[j]]
    BY <1>3 DEF DeleteHunt, Restrict
  <2>2. i \notin DOMAIN hunts' /\ \A j \in DOMAIN hunts' : j \in DOMAIN hunts /\ hunts'[j] = hunts[j]
    BY <2>1
  <2> QED BY <2>2, NamesStay
<1>4. ASSUME NEW i \in DOMAIN hunts, Touch(i) PROVE NamesAreTaken'
  <2>1. hunts' = [hunts EXCEPT ![i] = [hunts[i] EXCEPT !.version = hunts[i].version + 1]] /\ hunts[i] \in Hunt
    BY <1>0, <1>4 DEF Touch
  <2>2. DOMAIN hunts' = DOMAIN hunts
        /\ \A j \in DOMAIN hunts : hunts'[j].name = hunts[j].name /\ hunts'[j].owner = hunts[j].owner
    BY <1>0, <2>1 DEF Hunt
  <2> QED BY <2>2, NamesStay
<1>5. CASE ResetHunts
  <2>1. DOMAIN hunts' = {}
    BY <1>5 DEF ResetHunts
  <2> QED BY <2>1 DEF NamesAreTaken
<1>6. CASE UNCHANGED huntVars \/ \E o \in Owners, i \in DOMAIN hunts : ReadHunt(o, i)
  BY <1>6 DEF huntVars, ReadHunt, NamesAreTaken
<1> QED BY <1>1, <1>2, <1>3, <1>4, <1>5, <1>6 DEF HuntNext

\* Whatever names are asked for, with outer spaces or without, no owner has two
\* hunts of one name that is stored without them, through renames, deletions and
\* resets (HuntStore).
THEOREM HuntNamesHold == HuntSpec => [](HuntTypeOK /\ NamesAreTaken)
<1>1. HuntInit => HInv /\ NamesAreTaken
  BY HuntInitInv DEF HuntInit, NamesAreTaken
<1>2. HInv /\ NamesAreTaken /\ [HuntNext]_huntVars => HInv' /\ NamesAreTaken'
  BY HuntStepInv, NamesGoOnAreTaken
<1>3. HInv => HuntTypeOK
  BY DEF HInv
<1> QED BY <1>1, <1>2, <1>3, PTL DEF HuntSpec

-----------------------------------------------------------------------------
(* The documents together.                                                 *)

\* A shared workspace keeps what was written: of cases, of the pages of their
\* list and of hunts, as one system (DocumentsHold).
THEOREM DocumentsAreHeld == ServicesSpec => DocumentsHold
<1>1. ServicesInit => CaseInit /\ PagesInit /\ HuntInit
  BY DEF ServicesInit
<1>2. [ServicesNext]_servicesVars => [CaseNext]_caseVars /\ [PagesNext]_pageVars /\ [HuntNext]_huntVars
  BY DEF ServicesNext, servicesVars, TicketsPart, TapPart, CasesPart, PagesPart, HuntsPart, ImportsPart, ExportsPart
<1>3. ServicesSpec => CaseSpec /\ PagesSpec /\ HuntSpec
  BY <1>1, <1>2, PTL DEF ServicesSpec, CaseSpec, PagesSpec, HuntSpec
<1>4. CaseSpec => [](CaseTypeOK /\ BotKeepsPace /\ TitlesAreTaken) /\ NoLostEdit /\ NotesStay
  BY CasesHold
<1>5. PagesSpec => [](PagesTypeOK /\ WalkMissesNothing)
  BY PagesShowAll
<1>6. HuntSpec => [](HuntTypeOK /\ NamesAreTaken)
  BY HuntNamesHold
<1> QED BY <1>3, <1>4, <1>5, <1>6 DEF DocumentsHold

-----------------------------------------------------------------------------
(* The live tap: rows in order.                                            *)

Pairs == Int \X Int

LEMMA BeforeIsOrder ==
  /\ \A p, q \in Pairs : Before(p, q) \/ p = q \/ Before(q, p)
  /\ \A p, q \in Pairs : Before(p, q) => p # q /\ ~ Before(q, p)
  /\ \A p, q, r \in Pairs : Before(p, q) /\ Before(q, r) => Before(p, r)
  /\ \A p, q \in Pairs : Before(p, q) => p[1] <= q[1]
<1>1. \A p \in Pairs : p[1] \in Int /\ p[2] \in Int /\ p = <<p[1], p[2]>>
  BY DEF Pairs
<1>2. ASSUME NEW p \in Pairs, NEW q \in Pairs PROVE Before(p, q) \/ p = q \/ Before(q, p)
  <2>1. CASE p[1] = q[1] /\ p[2] = q[2]
    BY <1>1, <2>1
  <2>2. CASE ~ (p[1] = q[1] /\ p[2] = q[2])
    BY <1>1, <2>2 DEF Before
  <2> QED BY <2>1, <2>2
<1>3. ASSUME NEW p \in Pairs, NEW q \in Pairs, Before(p, q)
      PROVE  p # q /\ ~ Before(q, p) /\ p[1] <= q[1]
  BY <1>1, <1>3 DEF Before
<1>4. ASSUME NEW p \in Pairs, NEW q \in Pairs, NEW r \in Pairs, Before(p, q), Before(q, r)
      PROVE  Before(p, r)
  BY <1>1, <1>4 DEF Before
<1> QED BY <1>2, <1>3, <1>4

Ascending(s) == \A i, j \in DOMAIN s : i < j => Before(s[i], s[j])

Listing(s, rows) == s \in [1..Cardinality(rows) -> rows] /\ Ascending(s)

LEMMA OneLess ==
  ASSUME NEW T, IsFiniteSet(T), NEW x \in T, NEW n \in Int, Cardinality(T) = n + 1
  PROVE  Cardinality(T \ {x}) = n
<1>1. Cardinality(T \ {x}) = Cardinality(T) - 1
  BY FS_RemoveElement
<1> QED BY <1>1

LEMMA LastRow ==
  ASSUME NEW all \in SUBSET Pairs, IsFiniteSet(all), all # {}
  PROVE  \E m \in all : \A x \in all : x = m \/ Before(x, m)
<1> DEFINE HasLast(T) == \E m \in T : \A x \in T : x = m \/ Before(x, m)
           Fine == {n \in 0..Cardinality(all) : \A T \in SUBSET all : T # {} /\ Cardinality(T) = n => HasLast(T)}
<1>1. Cardinality(all) \in Nat /\ \A T \in SUBSET all : IsFiniteSet(T) /\ Cardinality(T) \in Nat
  BY FS_Subset, FS_CardinalityType
<1>2. 0 \in Fine
  <2>1. \A T \in SUBSET all : Cardinality(T) = 0 => T = {}
    BY <1>1, FS_EmptySet
  <2> HIDE DEF HasLast
  <2> QED BY <1>1, <2>1
<1>3. ASSUME NEW n \in 0..Cardinality(all) - 1, n \in Fine PROVE n + 1 \in Fine
  <2>1. ASSUME NEW T \in SUBSET all, T # {}, Cardinality(T) = n + 1 PROVE HasLast(T)
    <3>1. PICK x \in T : TRUE
      BY <2>1
    <3> DEFINE R == T \ {x}
    <3>2. Cardinality(R) = n /\ R \in SUBSET all
      BY <1>1, <2>1, <3>1, OneLess
    <3>3. CASE R = {}
      BY <3>1, <3>3
    <3>4. CASE R # {}
      <4>1. HasLast(R)
        <5> HIDE DEF HasLast, R
        <5> QED BY <1>3, <3>2, <3>4
      <4>2. PICK m \in R : \A y \in R : y = m \/ Before(y, m)
        BY <4>1
      <4>3. x \in Pairs /\ m \in Pairs /\ \A y \in T : y \in Pairs /\ (y = x \/ y \in R)
        OBVIOUS
      <4>4. CASE Before(x, m)
        BY <4>2, <4>3, <4>4
      <4>5. CASE Before(m, x)
        <5>1. ASSUME NEW y \in T PROVE y = x \/ Before(y, x)
          BY <4>2, <4>3, <4>5, BeforeIsOrder
        <5> QED BY <5>1
      <4>6. x # m
        OBVIOUS
      <4> QED BY <4>3, <4>4, <4>5, <4>6, BeforeIsOrder
    <3> QED BY <3>3, <3>4
  <2>2. n + 1 \in 0..Cardinality(all)
    BY <1>1
  <2> HIDE DEF HasLast
  <2> QED BY <2>1, <2>2
<1>4. Cardinality(all) \in Fine
  <2>1. 0..Cardinality(all) \subseteq Fine
    <3> HIDE DEF Fine
    <3> QED BY <1>1, <1>2, <1>3, Counting
  <2> HIDE DEF Fine
  <2> QED BY <1>1, <2>1
<1> HIDE DEF HasLast
<1>5. HasLast(all)
  BY <1>4
<1> QED BY <1>5 DEF HasLast

LEMMA ListingExists ==
  ASSUME NEW all \in SUBSET Pairs, IsFiniteSet(all)
  PROVE  \E s : Listing(s, all)
<1> DEFINE Fine == {n \in 0..Cardinality(all) :
                      \A T \in SUBSET all : Cardinality(T) = n => \E s : Listing(s, T)}
<1>1. Cardinality(all) \in Nat /\ \A T \in SUBSET all : IsFiniteSet(T) /\ Cardinality(T) \in Nat
  BY FS_Subset, FS_CardinalityType
<1>2. 0 \in Fine
  <2>1. ASSUME NEW T \in SUBSET all, Cardinality(T) = 0 PROVE \E s : Listing(s, T)
    <3>1. 1..0 = {}
      OBVIOUS
    <3>2. Listing([i \in 1..0 |-> 0], T)
      BY <2>1, <3>1 DEF Listing, Ascending
    <3> QED BY <3>2
  <2> QED BY <1>1, <2>1
<1>3. ASSUME NEW n \in 0..Cardinality(all) - 1, n \in Fine PROVE n + 1 \in Fine
  <2>1. ASSUME NEW T \in SUBSET all, Cardinality(T) = n + 1 PROVE \E s : Listing(s, T)
    <3>1. T # {} /\ IsFiniteSet(T) /\ T \in SUBSET Pairs
      BY <1>1, <2>1, FS_EmptySet
    <3>2. PICK m \in T : \A x \in T : x = m \/ Before(x, m)
      BY <3>1, LastRow
    <3> DEFINE R == T \ {m}
    <3>3. Cardinality(R) = n /\ R \in SUBSET all
      BY <1>1, <2>1, <3>2, OneLess
    <3>4. PICK s : Listing(s, R)
      BY <1>3, <3>3
    <3>5. s \in [1..n -> R] /\ \A i, j \in 1..n : i < j => Before(s[i], s[j])
      BY <3>3, <3>4 DEF Listing, Ascending
    <3> DEFINE t == [i \in 1..n + 1 |-> IF i = n + 1 THEN m ELSE s[i]]
    <3>6. \A i \in 1..n + 1 : i # n + 1 => i \in 1..n
      OBVIOUS
    <3>7. t \in [1..n + 1 -> T]
      BY <3>5, <3>6
    <3>8. ASSUME NEW i \in 1..n + 1, NEW j \in 1..n + 1, i < j PROVE Before(t[i], t[j])
      <4>1. i # n + 1 /\ i \in 1..n /\ t[i] = s[i] /\ s[i] \in R
        BY <3>5, <3>8
      <4>2. CASE j = n + 1
        <5>1. t[j] = m
          BY <4>2
        <5>2. Before(s[i], m)
          BY <3>2, <4>1
        <5> HIDE DEF t
        <5> QED BY <4>1, <5>1, <5>2
      <4>3. CASE j # n + 1
        <5>1. j \in 1..n /\ t[j] = s[j]
          BY <3>6, <4>3
        <5> HIDE DEF t
        <5> QED BY <3>5, <3>8, <4>1, <5>1
      <4> QED BY <4>2, <4>3
    <3>9. DOMAIN t = 1..n + 1
      OBVIOUS
    <3> HIDE DEF t
    <3>10. Listing(t, T)
      BY <2>1, <3>7, <3>8, <3>9 DEF Listing, Ascending
    <3> QED BY <3>10
  <2>2. n + 1 \in 0..Cardinality(all)
    BY <1>1
  <2> QED BY <2>1, <2>2
<1>4. Cardinality(all) \in Fine
  <2>1. 0..Cardinality(all) \subseteq Fine
    <3> HIDE DEF Fine
    <3> QED BY <1>1, <1>2, <1>3, Counting
  <2> HIDE DEF Fine
  <2> QED BY <1>1, <2>1
<1> QED BY <1>4

\* A listing has every row.
LEMMA ListingHasAll ==
  ASSUME NEW rows \in SUBSET Pairs, IsFiniteSet(rows), NEW s, Listing(s, rows)
  PROVE  /\ Cardinality(rows) \in Nat
         /\ s \in [1..Cardinality(rows) -> rows]
         /\ \A x \in rows : \E i \in 1..Cardinality(rows) : s[i] = x
<1> DEFINE n == Cardinality(rows)
<1>1. n \in Nat
  BY FS_CardinalityType
<1>2. s \in [1..n -> rows] /\ \A i, j \in 1..n : i < j => Before(s[i], s[j])
  BY DEF Listing, Ascending
<1>3. ASSUME NEW i \in 1..n, NEW j \in 1..n, s[i] = s[j] PROVE i = j
  <2>1. s[i] \in Pairs /\ s[j] \in Pairs
    BY <1>2
  <2>2. ~ (i < j) /\ ~ (j < i)
    BY <1>2, <1>3, <2>1, BeforeIsOrder
  <2> QED BY <1>1, <2>2
<1>4. s \in Injection(1..n, rows)
  BY <1>2, <1>3 DEF Injection, IsInjective
<1>5. IsFiniteSet(1..n) /\ Cardinality(1..n) = n
  BY <1>1, FS_Interval
<1>6. s \in Surjection(1..n, rows)
  BY <1>4, <1>5, FS_Injection
<1>7. \A x \in rows : \E i \in 1..n : s[i] = x
  BY <1>6 DEF Surjection
<1> QED BY <1>1, <1>2, <1>7

LEMMA ListingIsOne ==
  ASSUME NEW rows \in SUBSET Pairs, IsFiniteSet(rows), NEW s, NEW t, Listing(s, rows), Listing(t, rows)
  PROVE  s = t
<1> DEFINE n == Cardinality(rows)
           Apart == {i \in 1..n : s[i] # t[i]}
<1>a. n \in Nat /\ s \in [1..n -> rows] /\ \A x \in rows : \E i \in 1..n : s[i] = x
  BY ListingHasAll
<1>b. t \in [1..n -> rows] /\ \A x \in rows : \E i \in 1..n : t[i] = x
  BY ListingHasAll
<1>1. /\ n \in Nat /\ s \in [1..n -> rows] /\ t \in [1..n -> rows]
      /\ \A x \in rows : (\E i \in 1..n : s[i] = x) /\ (\E i \in 1..n : t[i] = x)
  BY <1>a, <1>b
<1>2. /\ \A i, j \in 1..n : i < j => Before(s[i], s[j])
      /\ \A i, j \in 1..n : i < j => Before(t[i], t[j])
  BY DEF Listing, Ascending
<1> HIDE DEF n
<1>3. ASSUME Apart # {} PROVE FALSE
  <2>1. PICK i \in Apart : \A j \in Apart : i <= j
    <3>1. Apart \subseteq Nat
      BY <1>1
    <3> HIDE DEF Apart
    <3> QED BY <1>3, <3>1, LeastExists
  <2>2. i \in 1..n /\ s[i] # t[i] /\ \A j \in 1..n : j < i => s[j] = t[j]
    BY <1>1, <2>1
  <2>3. PICK j \in 1..n : t[j] = s[i]
    BY <1>1, <2>2
  <2>4. PICK k \in 1..n : s[k] = t[i]
    BY <1>1, <2>2
  <2>5. \A m \in 1..n : s[m] \in Pairs /\ t[m] \in Pairs
    BY <1>1
  <2>6. j # i /\ k # i
    BY <2>2, <2>3, <2>4
  <2>7. ~ (j < i)
    <3>1. ASSUME j < i PROVE FALSE
      <4>1. s[j] = s[i] /\ Before(s[j], s[i])
        BY <1>2, <2>2, <2>3, <3>1
      <4> QED BY <2>2, <2>5, <4>1, BeforeIsOrder
    <3> QED BY <3>1
  <2>8. ~ (k < i)
    <3>1. ASSUME k < i PROVE FALSE
      <4>1. t[k] = t[i] /\ Before(t[k], t[i])
        BY <1>2, <2>2, <2>4, <3>1
      <4> QED BY <2>2, <2>5, <4>1, BeforeIsOrder
    <3> QED BY <3>1
  <2>9. i < j /\ i < k
    BY <1>1, <2>2, <2>6, <2>7, <2>8
  <2>10. Before(t[i], s[i]) /\ Before(s[i], t[i])
    BY <1>2, <2>2, <2>3, <2>4, <2>9
  <2> QED BY <2>2, <2>5, <2>10, BeforeIsOrder
<1>4. \A i \in 1..n : s[i] = t[i]
  BY <1>3
<1> QED BY <1>1, <1>4

LEMMA InOrderLists ==
  ASSUME NEW rows \in SUBSET Pairs, IsFiniteSet(rows)
  PROVE  Listing(InOrder(rows), rows)
<1> DEFINE Those == {s \in [1..Cardinality(rows) -> rows] : \A i, j \in DOMAIN s : i < j => Before(s[i], s[j])}
<1>1. \E s \in [1..Cardinality(rows) -> rows] : \A i, j \in DOMAIN s : i < j => Before(s[i], s[j])
  BY ListingExists DEF Listing, Ascending
<1>2. /\ InOrder(rows) \in [1..Cardinality(rows) -> rows]
      /\ \A i, j \in DOMAIN InOrder(rows) : i < j => Before(InOrder(rows)[i], InOrder(rows)[j])
  BY <1>1 DEF InOrder
<1> QED BY <1>2 DEF Listing, Ascending

\* Rows, and rows that come after them all.
LEMMA InOrderJoins ==
  ASSUME NEW first \in SUBSET Pairs, NEW later \in SUBSET Pairs, IsFiniteSet(first), IsFiniteSet(later),
         \A p \in first, q \in later : Before(p, q)
  PROVE  InOrder(first \cup later) = InOrder(first) \o InOrder(later)
<1> DEFINE s == InOrder(first)
           t == InOrder(later)
           m == Cardinality(first)
           n == Cardinality(later)
           both == first \cup later
<1>1. /\ s \in [1..m -> first] /\ \A i, j \in 1..m : i < j => Before(s[i], s[j])
      /\ t \in [1..n -> later] /\ \A i, j \in 1..n : i < j => Before(t[i], t[j])
  BY InOrderLists DEF Listing, Ascending
<1>2. first \cap later = {}
  BY BeforeIsOrder
<1>3. /\ m \in Nat /\ n \in Nat /\ IsFiniteSet(both) /\ Cardinality(both) = m + n
  <2>1. /\ m \in Nat /\ n \in Nat /\ IsFiniteSet(both)
        /\ Cardinality(both) = Cardinality(first) + Cardinality(later) - Cardinality(first \cap later)
    BY FS_CardinalityType, FS_Union
  <2>2. Cardinality(first \cap later) = 0
    BY <1>2, FS_EmptySet
  <2> QED BY <2>1, <2>2
<1> HIDE DEF s, t, m, n
<1>4. s \in Seq(first) /\ t \in Seq(later) /\ Len(s) = m /\ Len(t) = n
  BY <1>1, <1>3
<1> DEFINE u == s \o t
<1>5. /\ DOMAIN u = 1..m + n
      /\ \A i \in 1..m : u[i] = s[i]
      /\ \A i \in m + 1..m + n : u[i] = t[i - m] /\ i - m \in 1..n
  BY <1>3, <1>4
<1> HIDE DEF u
<1>6. \A i \in 1..m + n : i \in 1..m \/ i \in m + 1..m + n
  BY <1>3
<1>7. \A i \in 1..m + n : u[i] \in both
  BY <1>1, <1>5, <1>6
<1>8. u = [i \in 1..m + n |-> u[i]]
  <2>1. u \in Seq(both)
    BY <1>4 DEF u
  <2> QED BY <1>5, <2>1
<1>9. ASSUME NEW i \in 1..m + n, NEW j \in 1..m + n, i < j PROVE Before(u[i], u[j])
  <2>1. CASE i \in 1..m /\ j \in 1..m
    BY <1>1, <1>5, <1>9, <2>1
  <2>2. CASE i \in 1..m /\ j \in m + 1..m + n
    BY <1>1, <1>5, <2>2
  <2>3. CASE i \in m + 1..m + n /\ j \in m + 1..m + n
    <3>1. i - m < j - m
      BY <1>3, <1>9
    <3> QED BY <1>1, <1>5, <2>3, <3>1
  <2>4. ~ (i \in m + 1..m + n /\ j \in 1..m)
    BY <1>3, <1>9
  <2> QED BY <1>6, <2>1, <2>2, <2>3, <2>4
<1>10. Listing(u, both)
  BY <1>3, <1>5, <1>7, <1>8, <1>9 DEF Listing, Ascending
<1>11. Listing(InOrder(both), both)
  BY <1>3, InOrderLists
<1>12. InOrder(both) = u
  BY <1>3, <1>10, <1>11, ListingIsOne
<1> QED BY <1>12 DEF u, s, t

-----------------------------------------------------------------------------
(* The live tap: what the frames account for.                              *)

Totals(g, said) ==
  /\ g \in [0..Len(said) -> Nat]
  /\ g[0] = 0
  /\ \A k \in 1..Len(said) : g[k] = g[k - 1] + Accounts(said[k])

LEMMA AccountsIsNat == \A f \in Frame : Accounts(f) \in Nat
<1>1. ASSUME NEW f \in Frame PROVE Accounts(f) \in Nat
  <2>1. f.n \in Nat
    BY DEF Frame
  <2> QED BY <2>1 DEF Accounts
<1> QED BY <1>1

LEMMA TotalsExist ==
  ASSUME NEW said \in Seq(Frame)
  PROVE  \E g : Totals(g, said)
<1> DEFINE L == Len(said)
           step == [c \in 1..L |-> [n \in Nat |-> n + Accounts(said[c])]]
<1>1. L \in Nat /\ \A c \in 1..L : said[c] \in Frame
  OBVIOUS
<1>2. step \in [1..L -> [Nat -> Nat]]
  <2>1. ASSUME NEW c \in 1..L, NEW n \in Nat PROVE n + Accounts(said[c]) \in Nat
    <3>1. Accounts(said[c]) \in Nat
      BY <1>1, AccountsIsNat
    <3> QED BY <3>1
  <2> QED BY <2>1
<1>3. \E g \in [0..L -> Nat] : g[0] = 0 /\ \A n \in 1..L : g[n] = step[n][g[n - 1]]
  <2> DEFINE S == Nat
             base == 0
  <2>1. base \in S /\ step \in [1..L -> [S -> S]] /\ L \in Nat
    BY <1>1, <1>2
  <2> HIDE DEF step, L, S, base
  <2>2. \E g : Repeats(g, L, S, base, step)
    BY <2>1, RecursionExists
  <2> QED BY <2>2 DEF S, base, Repeats
<1>4. PICK g \in [0..L -> Nat] : g[0] = 0 /\ \A n \in 1..L : g[n] = step[n][g[n - 1]]
  BY <1>3
<1>5. ASSUME NEW n \in 1..L PROVE g[n] = g[n - 1] + Accounts(said[n])
  <2>1. n - 1 \in 0..L
    BY <1>1
  <2>2. g[n - 1] \in Nat
    BY <1>4, <2>1
  <2>3. step[n][g[n - 1]] = g[n - 1] + Accounts(said[n])
    BY <2>2
  <2> QED BY <1>4, <2>3
<1> QED BY <1>4, <1>5 DEF Totals

LEMMA AccountedIs ==
  ASSUME NEW said \in Seq(Frame)
  PROVE  \E g : Totals(g, said) /\ Accounted(said) = g[Len(said)]
<1> DEFINE L == Len(said)
           Step(g, k) == IF k = 0 THEN 0 ELSE g[k - 1] + Accounts(said[k])
           U == CHOOSE h : h = [k \in 0..L |-> Step(h, k)]
<1>1. L \in Nat
  OBVIOUS
<1>2. PICK g : Totals(g, said)
  BY TotalsExist
<1>3. g \in [0..L -> Nat] /\ \A n \in 0..L : g[n] = Step(g, n)
  BY <1>1, <1>2 DEF Totals
<1>4. g = [n \in 0..L |-> Step(g, n)]
  <2>1. g = [n \in 0..L |-> g[n]]
    BY <1>3
  <2> HIDE DEF Step, L
  <2> QED BY <1>3, <2>1
<1>5. U = [n \in 0..L |-> Step(U, n)]
  <2> HIDE DEF Step, L
  <2> QED BY <1>4
<1>6. Accounted(said) = U[L]
  BY DEF Accounted
<1> HIDE DEF U
<1>7. DOMAIN U = 0..L /\ \A n \in 0..L : U[n] = Step(U, n)
  <2> HIDE DEF Step, L
  <2> QED BY <1>5
<1> DEFINE Nats == {n \in 0..L : U[n] \in Nat}
<1>8. 0 \in Nats
  <2>1. 0 \in 0..L
    BY <1>1
  <2>2. U[0] = 0
    BY <1>7, <2>1
  <2> QED BY <2>1, <2>2
<1>9. ASSUME NEW n \in 0..L - 1, n \in Nats PROVE n + 1 \in Nats
  <2>1. n + 1 \in 0..L /\ n + 1 # 0 /\ n + 1 - 1 = n /\ n + 1 \in 1..L
    BY <1>1
  <2>2. U[n + 1] = U[n] + Accounts(said[n + 1])
    BY <1>7, <2>1
  <2>3. U[n] \in Nat /\ Accounts(said[n + 1]) \in Nat
    BY <1>9, <2>1, AccountsIsNat
  <2> QED BY <2>1, <2>2, <2>3
<1>10. 0..L \subseteq Nats
  <2> HIDE DEF Nats, L
  <2> QED BY <1>1, <1>8, <1>9, Counting
<1>11. U \in [0..L -> Nat]
  BY <1>5, <1>10
<1>12. U[0] = 0 /\ \A k \in 1..L : U[k] = U[k - 1] + Accounts(said[k])
  BY <1>1, <1>7
<1> QED BY <1>6, <1>11, <1>12 DEF Totals

LEMMA TotalsGoOn ==
  ASSUME NEW said \in Seq(Frame), NEW f \in Frame, NEW g, NEW h,
         Totals(g, said), Totals(h, Append(said, f))
  PROVE  h[Len(said) + 1] = g[Len(said)] + Accounts(f)
<1> DEFINE L == Len(said)
           t == Append(said, f)
           AgreeTo == {n \in 0..L : g[n] = h[n]}
<1>1. L \in Nat /\ Len(t) = L + 1 /\ t[L + 1] = f /\ \A k \in 1..L : t[k] = said[k]
  OBVIOUS
<1>2. /\ g[0] = 0 /\ \A k \in 1..L : g[k] = g[k - 1] + Accounts(said[k])
      /\ h[0] = 0 /\ \A k \in 1..L + 1 : h[k] = h[k - 1] + Accounts(t[k])
  <2> HIDE DEF t
  <2> QED BY <1>1 DEF Totals, t
<1> HIDE DEF t, L
<1>3. 0 \in AgreeTo
  BY <1>1, <1>2
<1>4. ASSUME NEW n \in 0..L - 1, n \in AgreeTo PROVE n + 1 \in AgreeTo
  <2>1. n + 1 \in 1..L /\ n + 1 \in 0..L /\ n + 1 - 1 = n /\ n + 1 \in 1..L + 1
    BY <1>1
  <2>2. g[n + 1] = g[n] + Accounts(said[n + 1]) /\ h[n + 1] = h[n] + Accounts(t[n + 1])
    BY <1>2, <2>1
  <2> QED BY <1>1, <1>4, <2>1, <2>2
<1>5. L \in AgreeTo
  <2>1. 0..L \subseteq AgreeTo
    <3> HIDE DEF AgreeTo
    <3> QED BY <1>1, <1>3, <1>4, Counting
  <2> HIDE DEF AgreeTo
  <2> QED BY <1>1, <2>1
<1>6. L + 1 \in 1..L + 1 /\ L + 1 - 1 = L
  BY <1>1
<1>7. h[L + 1] = h[L] + Accounts(t[L + 1])
  <2>1. \A k \in 1..L + 1 : h[k] = h[k - 1] + Accounts(t[k])
    BY <1>2
  <2> DEFINE m == L + 1
  <2>2. m \in 1..L + 1 /\ m - 1 = L
    BY <1>1
  <2> HIDE DEF m
  <2>3. h[m] = h[m - 1] + Accounts(t[m])
    BY <2>1, <2>2
  <2>4. h[m] = h[L] + Accounts(t[m])
    BY <2>2, <2>3
  <2> QED BY <2>4 DEF m
<1>8. h[L + 1] = g[L] + Accounts(f)
  BY <1>1, <1>5, <1>7
<1> QED BY <1>8 DEF L

LEMMA AccountedAppend ==
  ASSUME NEW said \in Seq(Frame), NEW f \in Frame
  PROVE  /\ Accounted(said) \in Nat
         /\ Accounted(Append(said, f)) = Accounted(said) + Accounts(f)
<1> DEFINE t == Append(said, f)
<1>1. t \in Seq(Frame) /\ Len(t) = Len(said) + 1 /\ Len(said) \in Nat
  OBVIOUS
<1> HIDE DEF t
<1>2. PICK g : Totals(g, said) /\ Accounted(said) = g[Len(said)]
  BY AccountedIs
<1>3. PICK h : Totals(h, t) /\ Accounted(t) = h[Len(t)]
  BY <1>1, AccountedIs
<1>4. h[Len(said) + 1] = g[Len(said)] + Accounts(f)
  BY <1>2, <1>3, TotalsGoOn DEF t
<1>5. g[Len(said)] \in Nat
  BY <1>1, <1>2 DEF Totals
<1> QED BY <1>1, <1>2, <1>3, <1>4, <1>5 DEF t

LEMMA AccountedNothing == Accounted(<<>>) = 0
<1>1. <<>> \in Seq(Frame) /\ Len(<<>>) = 0
  OBVIOUS
<1>2. PICK g : Totals(g, <<>>) /\ Accounted(<<>>) = g[0]
  BY <1>1, AccountedIs
<1> QED BY <1>2 DEF Totals

-----------------------------------------------------------------------------
(* The live tap: acks first.                                               *)

AcksFirst(said) ==
  \A j \in DOMAIN said :
    said[j].gen # 0 =>
      /\ \A i \in 1..j - 1 : /\ said[i].gen <= said[j].gen
                             /\ said[j].type = "ack" => said[i].gen < said[j].gen
      /\ \E i \in 1..j : said[i].type = "ack" /\ said[i].gen = said[j].gen

\* What was said while the subscription was the g-th.
GoodSaid(said, g) ==
  /\ AcksFirst(said)
  /\ \A j \in DOMAIN said : said[j].gen <= g
  /\ g # 0 => \E i \in DOMAIN said : said[i].type = "ack" /\ said[i].gen = g

LEMMA FramesSaid ==
  ASSUME NEW said \in Seq(Frame), NEW f \in Frame
  PROVE  LET t == Append(said, f)
             L == Len(said)
         IN  /\ L \in Nat /\ DOMAIN said = 1..L /\ DOMAIN t = 1..L + 1
             /\ t \in Seq(Frame) /\ Len(t) = L + 1
             /\ t[L + 1] = f
             /\ \A i \in 1..L : t[i] = said[i] /\ said[i].gen \in Nat
             /\ \A j \in 1..L + 1 : j # L + 1 => j \in 1..L
             /\ \A j \in 1..L + 1 : \A i \in 1..j - 1 : i \in 1..L
<1>1. \A i \in 1..Len(said) : said[i] \in Frame
  OBVIOUS
<1>2. \A i \in 1..Len(said) : said[i].gen \in Nat
  BY <1>1 DEF Frame
<1> QED BY <1>2

LEMMA SaidGoesOn ==
  ASSUME NEW said \in Seq(Frame), NEW f \in Frame, NEW g \in Nat, GoodSaid(said, g),
         f.gen = 0 \/ (f.gen = g /\ f.type # "ack")
  PROVE  GoodSaid(Append(said, f), g)
<1> DEFINE t == Append(said, f)
           L == Len(said)
<1>1. /\ L \in Nat /\ DOMAIN said = 1..L /\ DOMAIN t = 1..L + 1 /\ t[L + 1] = f
      /\ \A i \in 1..L : t[i] = said[i] /\ said[i].gen \in Nat
      /\ \A j \in 1..L + 1 : j # L + 1 => j \in 1..L
      /\ \A j \in 1..L + 1 : \A i \in 1..j - 1 : i \in 1..L
  BY FramesSaid
<1>2. f.gen \in Nat
  BY DEF Frame
<1> HIDE DEF t, L
<1>3. /\ \A j \in 1..L : said[j].gen <= g
      /\ g # 0 => \E i \in 1..L : said[i].type = "ack" /\ said[i].gen = g
  BY <1>1 DEF GoodSaid
<1>4. ASSUME NEW j \in 1..L + 1, t[j].gen # 0
      PROVE  /\ \A i \in 1..j - 1 : /\ t[i].gen <= t[j].gen
                                    /\ t[j].type = "ack" => t[i].gen < t[j].gen
             /\ \E i \in 1..j : t[i].type = "ack" /\ t[i].gen = t[j].gen
  <2>1. CASE j = L + 1
    <3>1. t[j] = f /\ f.gen = g /\ f.type # "ack"
      BY <1>1, <1>4, <2>1
    <3>2. \A i \in 1..j - 1 : t[i].gen <= g
      BY <1>1, <1>3
    <3>3. PICK i \in 1..L : said[i].type = "ack" /\ said[i].gen = g
      BY <1>3, <1>4, <3>1
    <3>4. i \in 1..j /\ t[i] = said[i]
      BY <1>1, <2>1
    <3> QED BY <3>1, <3>2, <3>3, <3>4
  <2>2. CASE j # L + 1
    <3>1. j \in 1..L /\ t[j] = said[j] /\ j \in Nat
      BY <1>1, <2>2
    <3>2. \A i \in 1..j : t[i] = said[i]
      BY <1>1, <3>1
    <3>3. \A i \in 1..j - 1 : t[i] = said[i]
      BY <1>1
    <3>4. /\ \A i \in 1..j - 1 : /\ said[i].gen <= said[j].gen
                                 /\ said[j].type = "ack" => said[i].gen < said[j].gen
          /\ \E i \in 1..j : said[i].type = "ack" /\ said[i].gen = said[j].gen
      BY <1>1, <1>4, <3>1 DEF GoodSaid, AcksFirst
    <3> QED BY <3>1, <3>2, <3>3, <3>4
  <2> QED BY <2>1, <2>2
<1>5. AcksFirst(t)
  BY <1>1, <1>4 DEF AcksFirst
<1>6. \A j \in 1..L + 1 : t[j].gen <= g
  BY <1>1, <1>2, <1>3
<1>7. g # 0 => \E i \in 1..L + 1 : t[i].type = "ack" /\ t[i].gen = g
  <2>1. ASSUME g # 0 PROVE \E i \in 1..L + 1 : t[i].type = "ack" /\ t[i].gen = g
    <3>1. PICK i \in 1..L : said[i].type = "ack" /\ said[i].gen = g
      BY <1>3, <2>1
    <3>2. i \in 1..L + 1 /\ t[i] = said[i]
      BY <1>1
    <3> QED BY <3>1, <3>2
  <2> QED BY <2>1
<1>8. GoodSaid(t, g)
  BY <1>1, <1>5, <1>6, <1>7 DEF GoodSaid
<1> QED BY <1>8 DEF t

LEMMA AckIsSaid ==
  ASSUME NEW said \in Seq(Frame), NEW f \in Frame, NEW g \in Nat, GoodSaid(said, g),
         f.gen = g + 1, f.type = "ack"
  PROVE  GoodSaid(Append(said, f), g + 1)
<1> DEFINE t == Append(said, f)
           L == Len(said)
<1>1. /\ L \in Nat /\ DOMAIN said = 1..L /\ DOMAIN t = 1..L + 1 /\ t[L + 1] = f
      /\ \A i \in 1..L : t[i] = said[i] /\ said[i].gen \in Nat
      /\ \A j \in 1..L + 1 : j # L + 1 => j \in 1..L
      /\ \A j \in 1..L + 1 : \A i \in 1..j - 1 : i \in 1..L
  BY FramesSaid
<1> HIDE DEF t, L
<1>3. \A j \in 1..L : said[j].gen <= g
  BY <1>1 DEF GoodSaid
<1>9. \A j \in 1..L : t[j].gen < g + 1
  BY <1>1, <1>3
<1>4. ASSUME NEW j \in 1..L + 1, t[j].gen # 0
      PROVE  /\ \A i \in 1..j - 1 : /\ t[i].gen <= t[j].gen
                                    /\ t[j].type = "ack" => t[i].gen < t[j].gen
             /\ \E i \in 1..j : t[i].type = "ack" /\ t[i].gen = t[j].gen
  <2>1. CASE j = L + 1
    <3>1. t[j] = f /\ j \in 1..j
      BY <1>1, <2>1
    <3>2. \A i \in 1..j - 1 : t[i].gen < g + 1 /\ t[i].gen \in Nat
      BY <1>1, <1>9
    <3>3. \A i \in 1..j - 1 : t[i].gen <= g + 1
      BY <3>2
    <3> QED BY <3>1, <3>2, <3>3
  <2>2. CASE j # L + 1
    <3>1. j \in 1..L /\ t[j] = said[j] /\ j \in Nat
      BY <1>1, <2>2
    <3>2. \A i \in 1..j : t[i] = said[i]
      BY <1>1, <3>1
    <3>3. \A i \in 1..j - 1 : t[i] = said[i]
      BY <1>1
    <3>4. /\ \A i \in 1..j - 1 : /\ said[i].gen <= said[j].gen
                                 /\ said[j].type = "ack" => said[i].gen < said[j].gen
          /\ \E i \in 1..j : said[i].type = "ack" /\ said[i].gen = said[j].gen
      BY <1>1, <1>4, <3>1 DEF GoodSaid, AcksFirst
    <3> QED BY <3>1, <3>2, <3>3, <3>4
  <2> QED BY <2>1, <2>2
<1>5. AcksFirst(t)
  BY <1>1, <1>4 DEF AcksFirst
<1>6. \A j \in 1..L + 1 : t[j].gen <= g + 1
  BY <1>1, <1>3
<1>7. L + 1 \in 1..L + 1
  BY <1>1
<1>8. GoodSaid(t, g + 1)
  BY <1>1, <1>5, <1>6, <1>7 DEF GoodSaid
<1> QED BY <1>8 DEF t

-----------------------------------------------------------------------------
(* The live tap: the send queue.                                           *)

BufferType == [queue: Seq(Frame), sent: Nat, dropped: Nat, seq: Nat]

SessionsIn(q) == {i \in DOMAIN q : q[i].type = "session"}

GoodBuffer(b, g) ==
  /\ b \in BufferType
  /\ b.seq = Accounted(heard \o b.queue) + b.dropped
  /\ Cardinality(SessionsIn(b.queue)) <= QueueLimit
  /\ GoodSaid(heard \o b.queue, g)

LEMMA TapNumbers ==
  /\ QueueLimit \in Nat /\ Burst \in Nat /\ StatsInterval \in Nat \ {0}
  /\ Heartbeat \in Nat /\ PongDeadline \in Nat /\ MaxNow \in Nat /\ MaxFrames \in Nat
  /\ IsFiniteSet(Sensors)
  /\ \A s \in Sensors : Lag[s] \in Nat
<1>1. /\ {QueueLimit, Heartbeat, PongDeadline, StatsInterval} \subseteq Nat \ {0}
      /\ {Burst, MaxNow, MaxFrames} \subseteq Nat
      /\ Lag \in [Sensors -> Nat]
      /\ IsFiniteSet(Sensors)
  BY TapConstants
<1> QED BY <1>1

LEMMA SessionsInQueue ==
  ASSUME NEW q \in Seq(Frame)
  PROVE  /\ IsFiniteSet(SessionsIn(q)) /\ Cardinality(SessionsIn(q)) \in Nat
         /\ Cardinality(SessionsIn(q)) <= Len(q)
<1>1. Len(q) \in Nat /\ DOMAIN q = 1..Len(q)
  OBVIOUS
<1>2. IsFiniteSet(1..Len(q)) /\ Cardinality(1..Len(q)) = Len(q)
  BY <1>1, FS_Interval
<1>3. SessionsIn(q) \in SUBSET (1..Len(q))
  BY <1>1 DEF SessionsIn
<1> QED BY <1>2, <1>3, FS_Subset, FS_CardinalityType

LEMMA QueueKeeps ==
  ASSUME heard \in Seq(Frame), NEW q \in Seq(Frame), NEW f \in Frame
  PROVE  /\ Append(q, f) \in Seq(Frame)
         /\ heard \o q \in Seq(Frame)
         /\ heard \o Append(q, f) = Append(heard \o q, f)
         /\ Accounted(heard \o q) \in Nat
         /\ Accounted(heard \o Append(q, f)) = Accounted(heard \o q) + Accounts(f)
         /\ f.type # "session" => SessionsIn(Append(q, f)) = SessionsIn(q)
         /\ Cardinality(SessionsIn(Append(q, f))) <= Len(q) + 1
<1>1. Append(q, f) \in Seq(Frame) /\ heard \o q \in Seq(Frame)
  OBVIOUS
<1>2. <<f>> \in Seq(Frame) /\ Append(q, f) = q \o <<f>>
  BY AppendIsConcat
<1>3. Append(heard \o q, f) = (heard \o q) \o <<f>>
  BY <1>1, AppendIsConcat
<1>4. heard \o Append(q, f) = Append(heard \o q, f)
  BY <1>2, <1>3, ConcatAssociative
<1>5. Accounted(heard \o q) \in Nat /\ Accounted(Append(heard \o q, f)) = Accounted(heard \o q) + Accounts(f)
  BY <1>1, AccountedAppend
<1>6. /\ Len(q) \in Nat /\ DOMAIN q = 1..Len(q) /\ DOMAIN Append(q, f) = 1..Len(q) + 1
      /\ Append(q, f)[Len(q) + 1] = f
      /\ \A i \in 1..Len(q) : Append(q, f)[i] = q[i]
      /\ \A i \in 1..Len(q) + 1 : i # Len(q) + 1 => i \in 1..Len(q)
      /\ \A i \in 1..Len(q) : i \in 1..Len(q) + 1
  BY FramesSaid
<1>7. f.type # "session" => SessionsIn(Append(q, f)) = SessionsIn(q)
  BY <1>6 DEF SessionsIn
<1>8. Len(Append(q, f)) = Len(q) + 1
  OBVIOUS
<1>9. Cardinality(SessionsIn(Append(q, f))) <= Len(q) + 1
  BY <1>1, <1>8, SessionsInQueue
<1> QED BY <1>1, <1>4, <1>5, <1>7, <1>9

LEMMA KeepType ==
  ASSUME NEW b \in BufferType, NEW f \in Frame
  PROVE  /\ Keep(b, f) \in BufferType
         /\ Keep(b, f).queue = Append(b.queue, f) /\ Keep(b, f).dropped = b.dropped
         /\ Keep(b, f).seq = b.seq
         /\ b.queue \in Seq(Frame)
<1>1. b.queue \in Seq(Frame) /\ b.sent \in Nat /\ b.dropped \in Nat /\ b.seq \in Nat
  BY DEF BufferType
<1> DEFINE q == Append(b.queue, f)
           n == b.sent + 1
<1>2. q \in Seq(Frame) /\ n \in Nat
  BY <1>1
<1>3. Keep(b, f) = [[b EXCEPT !.queue = q] EXCEPT !.sent = n]
  BY DEF Keep, BufferType
<1> HIDE DEF q, n
<1>4. /\ Keep(b, f) \in BufferType
      /\ Keep(b, f).queue = q /\ Keep(b, f).dropped = b.dropped /\ Keep(b, f).seq = b.seq
  BY <1>2, <1>3 DEF BufferType
<1> QED BY <1>1, <1>4 DEF q

LEMMA KeepIsGood ==
  ASSUME heard \in Seq(Frame), NEW g \in Nat, NEW b, GoodBuffer(b, g), NEW f \in Frame,
         f.type \notin {"session", "lagging"}, f.gen = 0 \/ (f.gen = g /\ f.type # "ack")
  PROVE  GoodBuffer(Keep(b, f), g)
<1>1. b \in BufferType
  BY DEF GoodBuffer
<1> DEFINE c == Keep(b, f)
<1>2. /\ c \in BufferType /\ c.queue = Append(b.queue, f) /\ c.dropped = b.dropped /\ c.seq = b.seq
      /\ b.queue \in Seq(Frame)
  BY <1>1, KeepType
<1> HIDE DEF c
<1>3. /\ heard \o b.queue \in Seq(Frame)
      /\ heard \o c.queue = Append(heard \o b.queue, f)
      /\ Accounted(heard \o b.queue) \in Nat
      /\ Accounted(heard \o c.queue) = Accounted(heard \o b.queue) + Accounts(f)
      /\ SessionsIn(c.queue) = SessionsIn(b.queue)
  BY <1>2, QueueKeeps
<1>4. Accounts(f) = 0
  BY DEF Accounts
<1>5. GoodSaid(heard \o c.queue, g)
  BY <1>3, SaidGoesOn DEF GoodBuffer
<1>6. c.seq = Accounted(heard \o c.queue) + c.dropped
  <2>1. b.seq = Accounted(heard \o b.queue) + b.dropped
    BY DEF GoodBuffer
  <2> QED BY <1>2, <1>3, <1>4, <2>1
<1>7. Cardinality(SessionsIn(c.queue)) <= QueueLimit
  BY <1>3 DEF GoodBuffer
<1> QED BY <1>2, <1>5, <1>6, <1>7 DEF GoodBuffer, c

LEMMA AckIsGood ==
  ASSUME heard \in Seq(Frame), NEW g \in Nat, NEW b, GoodBuffer(b, g), NEW f \in Frame,
         f.type = "ack", f.gen = g + 1
  PROVE  GoodBuffer(Keep(b, f), g + 1)
<1>1. b \in BufferType
  BY DEF GoodBuffer
<1> DEFINE c == Keep(b, f)
<1>2. /\ c \in BufferType /\ c.queue = Append(b.queue, f) /\ c.dropped = b.dropped /\ c.seq = b.seq
      /\ b.queue \in Seq(Frame)
  BY <1>1, KeepType
<1> HIDE DEF c
<1>3. /\ heard \o b.queue \in Seq(Frame)
      /\ heard \o c.queue = Append(heard \o b.queue, f)
      /\ Accounted(heard \o b.queue) \in Nat
      /\ Accounted(heard \o c.queue) = Accounted(heard \o b.queue) + Accounts(f)
      /\ SessionsIn(c.queue) = SessionsIn(b.queue)
  BY <1>2, QueueKeeps
<1>4. Accounts(f) = 0
  BY DEF Accounts
<1>5. GoodSaid(heard \o c.queue, g + 1)
  BY <1>3, AckIsSaid DEF GoodBuffer
<1>6. c.seq = Accounted(heard \o c.queue) + c.dropped
  <2>1. b.seq = Accounted(heard \o b.queue) + b.dropped
    BY DEF GoodBuffer
  <2> QED BY <1>2, <1>3, <1>4, <2>1
<1>7. Cardinality(SessionsIn(c.queue)) <= QueueLimit
  BY <1>3 DEF GoodBuffer
<1> QED BY <1>2, <1>5, <1>6, <1>7 DEF GoodBuffer, c

LEMMA SessionFrameIsGood ==
  ASSUME heard \in Seq(Frame), NEW g \in Nat, NEW b, GoodBuffer(b, g)
  PROVE  GoodBuffer(SessionFrame(b, g), g)
<1> DEFINE a == [b EXCEPT !.seq = @ + 1]
           f == Says("session", g, a.seq)
           c == SessionFrame(b, g)
<1>1. b \in BufferType
  BY DEF GoodBuffer
<1>2. /\ a \in BufferType /\ a.queue = b.queue /\ a.dropped = b.dropped /\ a.sent = b.sent
      /\ a.seq = b.seq + 1
      /\ b.queue \in Seq(Frame) /\ b.dropped \in Nat /\ b.seq \in Nat /\ b.sent \in Nat
  BY <1>1 DEF BufferType
<1>3. f \in Frame /\ f.type = "session" /\ f.gen = g
  BY <1>2 DEF Says, Frame, FrameTypes
<1>4. c = IF Len(b.queue) >= QueueLimit THEN [a EXCEPT !.dropped = @ + 1] ELSE Keep(a, f)
  BY DEF SessionFrame
<1>5. b.seq = Accounted(heard \o b.queue) + b.dropped
  BY DEF GoodBuffer
<1>6. Accounted(heard \o b.queue) \in Nat /\ heard \o b.queue \in Seq(Frame)
  BY <1>2, <1>3, QueueKeeps
<1>7. CASE Len(b.queue) >= QueueLimit
  <2>1. c = [a EXCEPT !.dropped = @ + 1]
    BY <1>4, <1>7
  <2> HIDE DEF a, c
  <2>2. c \in BufferType /\ c.queue = b.queue /\ c.dropped = b.dropped + 1 /\ c.seq = b.seq + 1
    BY <1>2, <2>1 DEF BufferType
  <2>3. c.seq = Accounted(heard \o c.queue) + c.dropped
    BY <1>2, <1>5, <1>6, <2>2
  <2> QED BY <2>2, <2>3 DEF GoodBuffer, c
<1>8. CASE ~ (Len(b.queue) >= QueueLimit)
  <2>1. c = Keep(a, f)
    BY <1>4, <1>8
  <2> HIDE DEF a, c, f
  <2>2. /\ c \in BufferType /\ c.queue = Append(b.queue, f) /\ c.dropped = b.dropped
        /\ c.seq = b.seq + 1
    BY <1>2, <1>3, <2>1, KeepType
  <2>3. /\ heard \o c.queue = Append(heard \o b.queue, f)
        /\ Accounted(heard \o c.queue) = Accounted(heard \o b.queue) + Accounts(f)
        /\ Cardinality(SessionsIn(c.queue)) <= Len(b.queue) + 1
    BY <1>2, <1>3, <2>2, QueueKeeps
  <2>4. Accounts(f) = 1
    BY <1>3 DEF Accounts
  <2>5. c.seq = Accounted(heard \o c.queue) + c.dropped
    BY <1>2, <1>5, <1>6, <2>2, <2>3, <2>4
  <2>6. GoodSaid(heard \o c.queue, g)
    BY <1>3, <1>6, <2>3, SaidGoesOn DEF GoodBuffer
  <2>7. Cardinality(SessionsIn(c.queue)) <= QueueLimit
    <3>1. c.queue \in Seq(Frame) /\ Len(b.queue) \in Nat
      BY <1>2, <2>2 DEF BufferType
    <3>2. Cardinality(SessionsIn(c.queue)) \in Nat
      BY <3>1, SessionsInQueue
    <3> QED BY <1>8, <2>3, <3>1, <3>2, TapNumbers
  <2> QED BY <2>2, <2>5, <2>6, <2>7 DEF GoodBuffer, c
<1> QED BY <1>7, <1>8

LEMMA LaggingIsGood ==
  ASSUME heard \in Seq(Frame), gen \in Nat, NEW b, GoodBuffer(b, gen)
  PROVE  GoodBuffer(AfterLagging(b), gen)
<1> DEFINE f == Says("lagging", gen, b.dropped)
           a == Keep(b, f)
           c == AfterLagging(b)
<1>1. b \in BufferType /\ b.queue \in Seq(Frame) /\ b.dropped \in Nat /\ b.seq \in Nat
  BY DEF GoodBuffer, BufferType
<1>2. f \in Frame /\ f.type = "lagging" /\ f.gen = gen /\ f.n = b.dropped
  BY <1>1 DEF Says, Frame, FrameTypes
<1> HIDE DEF f
<1>3. /\ a \in BufferType /\ a.queue = Append(b.queue, f) /\ a.dropped = b.dropped /\ a.seq = b.seq
  BY <1>1, <1>2, KeepType
<1>4. c = IF StatsDue /\ b.dropped > 0 THEN [a EXCEPT !.dropped = 0, !.sent = 0] ELSE b
  BY DEF AfterLagging, f
<1> HIDE DEF a, c
<1>5. CASE StatsDue /\ b.dropped > 0
  <2>1. c \in BufferType /\ c.queue = Append(b.queue, f) /\ c.dropped = 0 /\ c.seq = b.seq
    BY <1>3, <1>4, <1>5 DEF BufferType
  <2>2. /\ heard \o b.queue \in Seq(Frame)
        /\ heard \o c.queue = Append(heard \o b.queue, f)
        /\ Accounted(heard \o b.queue) \in Nat
        /\ Accounted(heard \o c.queue) = Accounted(heard \o b.queue) + Accounts(f)
        /\ SessionsIn(c.queue) = SessionsIn(b.queue)
    BY <1>1, <1>2, <2>1, QueueKeeps
  <2>3. Accounts(f) = b.dropped
    BY <1>2 DEF Accounts
  <2>4. b.seq = Accounted(heard \o b.queue) + b.dropped
    BY DEF GoodBuffer
  <2>5. c.seq = Accounted(heard \o c.queue) + c.dropped
    BY <1>1, <2>1, <2>2, <2>3, <2>4
  <2>6. GoodSaid(heard \o c.queue, gen)
    BY <1>2, <2>2, SaidGoesOn DEF GoodBuffer
  <2>7. Cardinality(SessionsIn(c.queue)) <= QueueLimit
    BY <2>2 DEF GoodBuffer
  <2> QED BY <2>1, <2>5, <2>6, <2>7 DEF GoodBuffer, c
<1>6. CASE ~ (StatsDue /\ b.dropped > 0)
  BY <1>4, <1>6 DEF c
<1> QED BY <1>5, <1>6

-----------------------------------------------------------------------------
(* The live tap: what one round of the produce loop sends.                 *)

Paths == UNION {[D -> Pairs] : D \in SUBSET Sensors}

Subs == [filter: DOMAIN Filters, channels: SUBSET {"sessions", "stats"}, start: Paths, cursor: Paths]

Passed(s) ==
  {row \in RowsAt[s] \cap Filters[sub.filter] :
     Before(sub.start[s], row) /\ ~ Before(sub.cursor[s], row)}

SubGoesOn ==
  sub # NoSub =>
    /\ sub \in Subs
    /\ DOMAIN sub.cursor = DOMAIN sub.start
    /\ \A s \in DOMAIN sub.start :
         /\ sub.start[s] = sub.cursor[s] \/ Before(sub.start[s], sub.cursor[s])
         /\ sub.cursor[s][1] <= VisibleUntil(s)
         /\ shown[s] = InOrder(Passed(s))

TapInv ==
  /\ TapTypeOK
  /\ GoodBuffer(Buffer, gen)
  /\ IsFiniteSet(DOMAIN watched)
  /\ SubGoesOn

LEMMA TapTypes ==
  ASSUME TapTypeOK
  PROVE  /\ now \in 0..MaxNow /\ now \in Nat
         /\ gen \in Nat /\ seq \in Nat /\ sent \in Nat /\ dropped \in Nat /\ counted \in Nat
         /\ nextStats \in Nat
         /\ queue \in Seq(Frame) /\ heard \in Seq(Frame)
         /\ ping \in [nonce: Nat, deadline: Nat, next: Nat]
         /\ DOMAIN watched \subseteq Searches
         /\ progress \in [Searches -> Nat]
         /\ Buffer \in BufferType
<1>1. {gen, seq, sent, dropped, counted, nextStats} \subseteq Nat
  BY DEF TapTypeOK
<1>2. /\ gen \in Nat /\ seq \in Nat /\ sent \in Nat /\ dropped \in Nat /\ counted \in Nat
      /\ nextStats \in Nat
  BY <1>1
<1>3. queue \in Seq(Frame) /\ heard \in Seq(Frame)
  BY DEF TapTypeOK
<1>4. Buffer \in BufferType
  BY <1>2, <1>3 DEF Buffer, BufferType
<1>5. now \in 0..MaxNow /\ now \in Nat
  BY TapNumbers DEF TapTypeOK
<1> QED BY <1>2, <1>3, <1>4, <1>5 DEF TapTypeOK

LEMMA RowFacts ==
  ASSUME NEW s \in Sensors
  PROVE  RowsAt[s] \in SUBSET Pairs /\ RowsAt[s] \in SUBSET (Nat \X Nat) /\ IsFiniteSet(RowsAt[s])
<1>1. RowsAt \in [Sensors -> SUBSET (Nat \X Nat)] /\ \A x \in Sensors : IsFiniteSet(RowsAt[x])
  BY TapConstants
<1>2. Nat \X Nat \subseteq Pairs
  BY DEF Pairs
<1>3. RowsAt[s] \in SUBSET (Nat \X Nat)
  BY <1>1
<1> QED BY <1>1, <1>2, <1>3

LEMMA SubFacts ==
  ASSUME SubGoesOn, sub # NoSub
  PROVE  /\ sub \in Subs
         /\ DOMAIN sub.start \in SUBSET Sensors /\ DOMAIN sub.cursor = DOMAIN sub.start
         /\ \A s \in DOMAIN sub.start : sub.start[s] \in Pairs /\ sub.cursor[s] \in Pairs
<1>1. sub \in Subs /\ DOMAIN sub.cursor = DOMAIN sub.start
  BY DEF SubGoesOn
<1>2. sub.start \in Paths /\ sub.cursor \in Paths
  BY <1>1 DEF Subs
<1>3. PICK D \in SUBSET Sensors : sub.start \in [D -> Pairs]
  BY <1>2 DEF Paths
<1>4. PICK E \in SUBSET Sensors : sub.cursor \in [E -> Pairs]
  BY <1>2 DEF Paths
<1> QED BY <1>1, <1>3, <1>4

LEMMA MatchingIsFinite ==
  ASSUME NEW s \in Sensors
  PROVE  /\ Fresh(s) \in SUBSET RowsAt[s] /\ IsFiniteSet(Fresh(s))
         /\ Matching(s) \in SUBSET RowsAt[s] /\ IsFiniteSet(Matching(s))
<1>1. Fresh(s) \in SUBSET RowsAt[s]
  BY DEF Fresh
<1>2. Matching(s) \in SUBSET RowsAt[s]
  BY <1>1 DEF Matching
<1> QED BY <1>1, <1>2, RowFacts, FS_Subset

LEMMA ReleasedIsNat ==
  ASSUME SubGoesOn
  PROVE  ReleasedRows \in Nat
<1>1. CASE ~ Watching
  BY <1>1 DEF ReleasedRows
<1>2. CASE Watching
  <2>1. sub # NoSub
    BY <1>2 DEF Watching
  <2> DEFINE D == DOMAIN sub.cursor
             Parts == {{s} \X Matching(s) : s \in D}
             f == [s \in D |-> {s} \X Matching(s)]
  <2>2. D \in SUBSET Sensors
    BY <2>1, SubFacts
  <2>3. IsFiniteSet(D)
    BY <2>2, TapNumbers, FS_Subset
  <2>4. f \in Surjection(D, Parts)
    <3>1. f \in [D -> Parts]
      OBVIOUS
    <3>2. \A t \in Parts : \E s \in D : f[s] = t
      OBVIOUS
    <3> HIDE DEF f, Parts, D
    <3> QED BY <3>1, <3>2 DEF Surjection
  <2>5. IsFiniteSet(Parts)
    <3> HIDE DEF f, Parts, D
    <3> QED BY <2>3, <2>4, FS_Surjection
  <2>6. ASSUME NEW t \in Parts PROVE IsFiniteSet(t)
    <3>1. PICK s \in D : t = {s} \X Matching(s)
      OBVIOUS
    <3>2. IsFiniteSet({s}) /\ IsFiniteSet(Matching(s))
      BY <2>2, MatchingIsFinite, FS_Singleton
    <3> QED BY <3>1, <3>2, FS_Product
  <2>7. IsFiniteSet(UNION Parts)
    <3> HIDE DEF Parts
    <3> QED BY <2>5, <2>6, FS_UNION
  <2>8. ReleasedRows = Cardinality(UNION Parts)
    BY <1>2 DEF ReleasedRows
  <2> HIDE DEF Parts
  <2> QED BY <2>7, <2>8, FS_CardinalityType
<1> QED BY <1>1, <1>2

LEMMA FramesAreNat ==
  ASSUME SubGoesOn
  PROVE  SessionFrames \in Nat
<1> DEFINE n == ReleasedRows
<1>1. n \in Nat /\ Burst \in Nat
  BY ReleasedIsNat, TapNumbers
<1>2. \A a, b \in Nat : a * (1 + b) \in Nat
  OBVIOUS
<1>3. n * (1 + Burst) \in Nat
  <2> HIDE DEF n
  <2> QED BY <1>1, <1>2
<1> QED BY <1>3 DEF SessionFrames

LEMMA SessionFrameType ==
  ASSUME NEW b \in BufferType, NEW g \in Nat
  PROVE  SessionFrame(b, g) \in BufferType
<1> DEFINE a == [b EXCEPT !.seq = @ + 1]
           f == Says("session", g, a.seq)
<1>1. a \in BufferType /\ a.seq = b.seq + 1 /\ b.seq \in Nat /\ b.dropped \in Nat /\ a.dropped \in Nat
  BY DEF BufferType
<1>2. f \in Frame
  BY <1>1 DEF Says, Frame, FrameTypes
<1>3. [a EXCEPT !.dropped = @ + 1] \in BufferType
  <2> HIDE DEF a
  <2> QED BY <1>1 DEF BufferType
<1>4. Keep(a, f) \in BufferType
  <2> HIDE DEF a, f
  <2> QED BY <1>1, <1>2, KeepType
<1>5. SessionFrame(b, g) = IF Len(b.queue) >= QueueLimit THEN [a EXCEPT !.dropped = @ + 1] ELSE Keep(a, f)
  BY DEF SessionFrame
<1> QED BY <1>3, <1>4, <1>5

\* The recursion of AfterFrames is well defined.
LEMMA FramesAreDefined ==
  ASSUME TapTypeOK, SessionFrames \in Nat
  PROVE  /\ AfterFrames[0] = Buffer
         /\ \A k \in 1..SessionFrames : AfterFrames[k] = SessionFrame(AfterFrames[k - 1], gen)
<1> DEFINE L == SessionFrames
           step == [k \in 1..L |-> [b \in BufferType |-> SessionFrame(b, gen)]]
           Step(g, k) == IF k = 0 THEN Buffer ELSE SessionFrame(g[k - 1], gen)
<1>1. gen \in Nat /\ Buffer \in BufferType
  BY TapTypes
<1>2. step \in [1..L -> [BufferType -> BufferType]]
  <2>1. \A b \in BufferType : SessionFrame(b, gen) \in BufferType
    BY <1>1, SessionFrameType
  <2> HIDE DEF L
  <2> QED BY <2>1
<1> DEFINE S == BufferType
           base == Buffer
<1>3. \E g : Repeats(g, L, S, base, step)
  <2>1. base \in S /\ step \in [1..L -> [S -> S]] /\ L \in Nat
    BY <1>1, <1>2
  <2> HIDE DEF step, L, S, base
  <2> QED BY <2>1, RecursionExists
<1>4. PICK g \in [0..L -> S] : g[0] = base /\ \A n \in 1..L : g[n] = step[n][g[n - 1]]
  BY <1>3 DEF Repeats
<1> HIDE DEF L
<1>5. L \in Nat
  BY DEF L
<1>6. ASSUME NEW n \in 0..L PROVE g[n] = Step(g, n)
  <2>1. CASE n = 0
    BY <1>4, <2>1
  <2>2. CASE n # 0
    <3>1. n \in 1..L /\ n - 1 \in 0..L
      BY <1>5, <2>2
    <3>2. g[n - 1] \in BufferType
      BY <1>4, <3>1
    <3>3. step[n][g[n - 1]] = SessionFrame(g[n - 1], gen)
      BY <3>1, <3>2
    <3> HIDE DEF step
    <3> QED BY <1>4, <2>2, <3>1, <3>3
  <2> QED BY <2>1, <2>2
<1>7. g = [n \in 0..L |-> Step(g, n)]
  <2>1. g = [n \in 0..L |-> g[n]]
    BY <1>4
  <2> HIDE DEF Step
  <2> QED BY <1>6, <2>1
<1>8. AfterFrames = CHOOSE h : h = [n \in 0..L |-> Step(h, n)]
  BY DEF AfterFrames, L
<1>9. AfterFrames = [n \in 0..L |-> Step(AfterFrames, n)]
  <2> HIDE DEF Step
  <2> QED BY <1>7, <1>8
<1>10. \A n \in 0..L : AfterFrames[n] = Step(AfterFrames, n)
  <2> HIDE DEF Step
  <2> QED BY <1>9
<1>11. 0 \in 0..L /\ \A n \in 1..L : n \in 0..L /\ n # 0
  BY <1>5
<1> QED BY <1>10, <1>11 DEF L

LEMMA FramesAreGood ==
  ASSUME TapInv
  PROVE  GoodBuffer(AfterSessions, gen)
<1> DEFINE L == SessionFrames
           U == AfterFrames
           Fine == {n \in 0..L : GoodBuffer(U[n], gen)}
<1>1. L \in Nat /\ heard \in Seq(Frame) /\ gen \in Nat
  BY FramesAreNat, TapTypes DEF TapInv
<1>2. U[0] = Buffer /\ \A k \in 1..L : U[k] = SessionFrame(U[k - 1], gen)
  BY <1>1, FramesAreDefined DEF TapInv
<1>3. AfterSessions = U[L]
  BY DEF AfterSessions
<1> HIDE DEF U, L
<1>4. 0 \in Fine
  BY <1>1, <1>2 DEF TapInv
<1>5. ASSUME NEW n \in 0..L - 1, n \in Fine PROVE n + 1 \in Fine
  <2>1. n + 1 \in 1..L /\ n + 1 \in 0..L /\ n + 1 - 1 = n
    BY <1>1
  <2>2. U[n + 1] = SessionFrame(U[n + 1 - 1], gen)
    BY <1>2, <2>1
  <2>3. U[n + 1] = SessionFrame(U[n], gen)
    BY <2>1, <2>2
  <2>4. GoodBuffer(U[n], gen)
    BY <1>5
  <2>5. GoodBuffer(U[n + 1], gen)
    BY <1>1, <2>3, <2>4, SessionFrameIsGood
  <2> QED BY <2>1, <2>5
<1>6. 0..L \subseteq Fine
  <2> HIDE DEF Fine
  <2> QED BY <1>1, <1>4, <1>5, Counting
<1> QED BY <1>1, <1>3, <1>6

LEMMA Sequenced ==
  ASSUME NEW q \in Seq(Frame), NEW t \in Seq(Frame), NEW n \in 0..Len(t) - 1
  PROVE  Append(q \o SubSeq(t, 1, n), t[n + 1]) = q \o SubSeq(t, 1, n + 1)
<1> DEFINE s == SubSeq(t, 1, n)
           u == SubSeq(t, 1, n + 1)
<1>1. n \in Nat /\ n + 1 \in 1..Len(t) /\ Len(t) \in Nat /\ 1 \in 1..Len(t) /\ n + 1 - 1 = n /\ t[n + 1] \in Frame
  OBVIOUS
<1>2. \A i \in 1..n + 1 : t[i] \in Frame
  BY <1>1
<1>3. s \in Seq(Frame) /\ u \in Seq(Frame)
  BY <1>1, <1>2, SubSeqProperties
<1>4. u = s \o <<t[n + 1]>>
  <2> DEFINE m == n + 1
  <2>1. m \in 1..Len(t) /\ m - 1 = n /\ 1 \in 1..Len(t)
    BY <1>1
  <2> HIDE DEF m
  <2>2. SubSeq(t, 1, m) = SubSeq(t, 1, m - 1) \o <<t[m]>>
    BY <2>1, SubSeqRecursiveSecond
  <2>3. SubSeq(t, 1, m) = SubSeq(t, 1, n) \o <<t[m]>>
    BY <2>1, <2>2
  <2> QED BY <2>3 DEF m
<1> DEFINE e == t[n + 1]
<1>5. e \in Frame
  BY <1>1
<1> HIDE DEF s, u, e
<1>6. q \o s \in Seq(Frame) /\ <<e>> \in Seq(Frame)
  BY <1>3, <1>5
<1>7. Append(q \o s, e) = (q \o s) \o <<e>>
  BY <1>5, <1>6, AppendIsConcat
<1>8. (q \o s) \o <<e>> = q \o (s \o <<e>>)
  <2> DEFINE v == <<e>>
  <2>1. v \in Seq(Frame) /\ s \in Seq(Frame)
    BY <1>3, <1>6
  <2> HIDE DEF v
  <2>2. (q \o s) \o v = q \o (s \o v)
    BY <2>1, ConcatAssociative
  <2> QED BY <2>2 DEF v
<1> QED BY <1>4, <1>7, <1>8 DEF s, u, e

LEMMA TwoChanged ==
  ASSUME NEW b, NEW q, NEW n, NEW d, NEW k, NEW u, NEW v,
         b = [queue |-> q, sent |-> n, dropped |-> d, seq |-> k]
  PROVE  [b EXCEPT !.queue = u, !.sent = v] = [queue |-> u, sent |-> v, dropped |-> d, seq |-> k]
<1> DEFINE a == [b EXCEPT !.queue = u]
<1>1. a = [queue |-> u, sent |-> n, dropped |-> d, seq |-> k]
  OBVIOUS
<1>2. [b EXCEPT !.queue = u, !.sent = v] = [a EXCEPT !.sent = v]
  OBVIOUS
<1> HIDE DEF a
<1>3. [a EXCEPT !.sent = v] = [queue |-> u, sent |-> v, dropped |-> d, seq |-> k]
  BY <1>1
<1> QED BY <1>2, <1>3

LEMMA ToldIsGood ==
  ASSUME heard \in Seq(Frame), NEW g \in Nat, NEW b, GoodBuffer(b, g), NEW t \in Seq(Frame),
         \A i \in 1..Len(t) : t[i].type = "progress" /\ t[i].gen = 0
  PROVE  GoodBuffer([b EXCEPT !.queue = @ \o t, !.sent = @ + Len(t)], g)
<1> DEFINE L == Len(t)
           With(n) == [queue |-> b.queue \o SubSeq(t, 1, n), sent |-> b.sent + n,
                       dropped |-> b.dropped, seq |-> b.seq]
           Fine == {n \in 0..L : GoodBuffer(With(n), g)}
<1>1. /\ b \in BufferType /\ b.queue \in Seq(Frame) /\ b.sent \in Nat /\ b.dropped \in Nat /\ b.seq \in Nat
      /\ L \in Nat
      /\ b = [queue |-> b.queue, sent |-> b.sent, dropped |-> b.dropped, seq |-> b.seq]
  BY DEF GoodBuffer, BufferType
<1>2. 0 \in Fine
  <2>1. SubSeq(t, 1, 0) = <<>>
    BY SubSeqEmpty
  <2>2. b.queue \o <<>> = b.queue /\ b.sent + 0 = b.sent
    BY <1>1, ConcatEmptySeq
  <2>3. With(0) = b
    BY <1>1, <2>1, <2>2
  <2>4. 0 \in 0..L
    BY <1>1
  <2> HIDE DEF With
  <2> QED BY <2>3, <2>4
<1>3. ASSUME NEW n \in 0..L - 1, n \in Fine PROVE n + 1 \in Fine
  <2> DEFINE a == With(n)
             f == t[n + 1]
  <2>1. n + 1 \in 1..L /\ n + 1 \in 0..L /\ n \in Nat
    BY <1>1
  <2>2. f \in Frame /\ f.type = "progress" /\ f.gen = 0
    BY <2>1
  <2>3. GoodBuffer(a, g)
    BY <1>3
  <2>4. Keep(a, f) = With(n + 1)
    <3>1. Append(b.queue \o SubSeq(t, 1, n), f) = b.queue \o SubSeq(t, 1, n + 1)
      BY <1>1, Sequenced
    <3>2. b.sent + n + 1 = b.sent + (n + 1)
      BY <1>1, <2>1
    <3> HIDE DEF f
    <3> DEFINE u == Append(b.queue \o SubSeq(t, 1, n), f)
               v == b.sent + n + 1
               q == b.queue \o SubSeq(t, 1, n)
               m == b.sent + n
    <3>3. Keep(a, f) = [a EXCEPT !.queue = u, !.sent = v]
      BY DEF Keep
    <3>4. a = [queue |-> q, sent |-> m, dropped |-> b.dropped, seq |-> b.seq]
      OBVIOUS
    <3> HIDE DEF a, u, v, q, m
    <3>5. Keep(a, f) = [queue |-> u, sent |-> v, dropped |-> b.dropped, seq |-> b.seq]
      BY <3>3, <3>4, TwoChanged
    <3> QED BY <3>1, <3>2, <3>5 DEF u, v
  <2>5. GoodBuffer(Keep(a, f), g)
    <3> HIDE DEF a, f
    <3> QED BY <2>2, <2>3, KeepIsGood
  <2> HIDE DEF With
  <2> QED BY <2>1, <2>4, <2>5
<1>4. 0..L \subseteq Fine
  <2> HIDE DEF Fine, L
  <2> QED BY <1>1, <1>2, <1>3, Counting
<1>5. GoodBuffer(With(L), g)
  <2> HIDE DEF With, L
  <2> QED BY <1>1, <1>4
<1>6. SubSeq(t, 1, L) = t
  BY SubSeqFull
<1>7. [b EXCEPT !.queue = @ \o t, !.sent = @ + Len(t)] = With(L)
  <2>1. With(L) = [queue |-> b.queue \o t, sent |-> b.sent + L, dropped |-> b.dropped, seq |-> b.seq]
    BY <1>6
  <2> HIDE DEF With, L
  <2>2. [b EXCEPT !.queue = @ \o t, !.sent = @ + L]
          = [queue |-> b.queue \o t, sent |-> b.sent + L, dropped |-> b.dropped, seq |-> b.seq]
    <3> DEFINE u == b.queue \o t
               v == b.sent + L
               q == b.queue
               n == b.sent
               d == b.dropped
               k == b.seq
    <3>1. b = [queue |-> q, sent |-> n, dropped |-> d, seq |-> k]
      BY <1>1
    <3> HIDE DEF u, v, q, n, d, k
    <3>2. [b EXCEPT !.queue = u, !.sent = v] = [queue |-> u, sent |-> v, dropped |-> d, seq |-> k]
      <4> DEFINE c == [b EXCEPT !.queue = u]
      <4>1. c = [queue |-> u, sent |-> n, dropped |-> d, seq |-> k]
        BY <3>1
      <4>2. [b EXCEPT !.queue = u, !.sent = v] = [c EXCEPT !.sent = v]
        OBVIOUS
      <4> HIDE DEF c
      <4> QED BY <4>1, <4>2
    <3> QED BY <3>2 DEF u, v, d, k
  <2> QED BY <2>1, <2>2 DEF L
<1> QED BY <1>5, <1>7

LEMMA WatchedIsGood ==
  ASSUME TapTypeOK, IsFiniteSet(DOMAIN watched), NEW b, GoodBuffer(b, gen)
  PROVE  GoodBuffer(AfterWatched(b), gen)
<1> DEFINE order == SetToSeq(Moved)
           n == Cardinality(Moved)
           told == [k \in DOMAIN order |-> Says("progress", 0, progress[order[k]])]
<1>1. heard \in Seq(Frame) /\ gen \in Nat /\ DOMAIN watched \subseteq Searches /\ progress \in [Searches -> Nat]
  BY TapTypes
<1>2. Moved \in SUBSET DOMAIN watched
  BY DEF Moved
<1>3. IsFiniteSet(Moved) /\ n \in Nat /\ ExistsBijection(1..n, Moved)
  BY <1>2, FS_Subset, FS_CardinalityType
<1>4. \E f \in [1..n -> Moved] : IsInjective(f)
  BY <1>3 DEF ExistsBijection, Bijection, Injection
<1>5. order \in [1..n -> Moved]
  BY <1>4 DEF SetToSeq
<1> HIDE DEF order, n
<1>6. \A k \in 1..n : Says("progress", 0, progress[order[k]]) \in Frame
  <2>1. ASSUME NEW k \in 1..n PROVE Says("progress", 0, progress[order[k]]) \in Frame
    <3>1. progress[order[k]] \in Nat
      BY <1>1, <1>2, <1>5
    <3> QED BY <3>1 DEF Says, Frame, FrameTypes
  <2> QED BY <2>1
<1>7. told = [k \in 1..n |-> Says("progress", 0, progress[order[k]])]
  BY <1>5
<1>8. told \in Seq(Frame) /\ Len(told) = n /\ \A k \in 1..n : told[k].type = "progress" /\ told[k].gen = 0
  <2>1. told \in [1..n -> Frame]
    BY <1>6, <1>7
  <2>2. \A k \in 1..n : told[k] = Says("progress", 0, progress[order[k]])
    BY <1>7
  <2>3. \A x : Says("progress", 0, x).type = "progress" /\ Says("progress", 0, x).gen = 0
    BY DEF Says
  <2> HIDE DEF told
  <2>4. \A k \in 1..n : told[k].type = "progress" /\ told[k].gen = 0
    BY <2>2, <2>3
  <2> QED BY <1>3, <2>1, <2>4
<1>9. AfterWatched(b) = [b EXCEPT !.queue = @ \o told, !.sent = @ + Len(told)]
  BY DEF AfterWatched, order
<1> HIDE DEF told
<1>10. \A i \in 1..Len(told) : told[i].type = "progress" /\ told[i].gen = 0
  BY <1>8
<1>11. GoodBuffer([b EXCEPT !.queue = @ \o told, !.sent = @ + Len(told)], gen)
  BY <1>1, <1>8, <1>10, ToldIsGood
<1> QED BY <1>9, <1>11

LEMMA ProducedIsGood ==
  ASSUME TapInv
  PROVE  GoodBuffer(Produced, gen)
<1> DEFINE a == AfterSessions
           b == AfterStats(a)
           c == AfterLagging(b)
           d == AfterWatched(c)
<1>1. heard \in Seq(Frame) /\ gen \in Nat /\ now \in Nat /\ counted \in Nat /\ ReleasedRows \in Nat
  BY TapTypes, ReleasedIsNat DEF TapInv
<1>2. GoodBuffer(a, gen)
  BY FramesAreGood
<1>3. GoodBuffer(b, gen)
  <2> DEFINE f == Says("stats", gen, CountedNow)
  <2>1. f \in Frame /\ f.type = "stats" /\ f.gen = gen
    BY <1>1 DEF Says, Frame, FrameTypes, CountedNow
  <2>2. b = IF TellsStats THEN Keep(a, f) ELSE a
    BY DEF AfterStats
  <2> HIDE DEF a, f
  <2>3. GoodBuffer(Keep(a, f), gen)
    BY <1>1, <1>2, <2>1, KeepIsGood
  <2> QED BY <1>2, <2>2, <2>3
<1> HIDE DEF b
<1>4. GoodBuffer(c, gen)
  BY <1>1, <1>3, LaggingIsGood
<1> HIDE DEF c
<1>5. GoodBuffer(d, gen)
  BY <1>4, WatchedIsGood DEF TapInv
<1>6. GoodBuffer(AfterPing(d), gen)
  <2> DEFINE f == Says("ping", 0, now)
  <2>1. f \in Frame /\ f.type = "ping" /\ f.gen = 0
    BY <1>1 DEF Says, Frame, FrameTypes
  <2>2. AfterPing(d) = IF PingDue THEN Keep(d, f) ELSE d
    BY DEF AfterPing
  <2> HIDE DEF d, f
  <2>3. GoodBuffer(Keep(d, f), gen)
    BY <1>1, <1>5, <2>1, KeepIsGood
  <2> QED BY <1>5, <2>2, <2>3
<1> QED BY <1>6 DEF Produced, a, b, c, d

LEMMA BufferedIsGood ==
  ASSUME NEW b, NEW g, GoodBuffer(b, g), Buffered(b), heard' = heard, gen' = g
  PROVE  GoodBuffer(Buffer, gen)' /\ b \in BufferType /\ Buffer' = b
<1>1. b \in BufferType
  BY DEF GoodBuffer
<1>2. b = [queue |-> b.queue, sent |-> b.sent, dropped |-> b.dropped, seq |-> b.seq]
  BY <1>1 DEF BufferType
<1>3. Buffer' = b
  BY <1>2 DEF Buffered, Buffer
<1>4. GoodBuffer(Buffer, gen)'
  <2>1. /\ b.seq = Accounted(heard \o b.queue) + b.dropped
        /\ Cardinality(SessionsIn(b.queue)) <= QueueLimit
        /\ GoodSaid(heard \o b.queue, g)
    BY DEF GoodBuffer
  <2> QED BY <1>1, <1>3, <2>1 DEF GoodBuffer
<1> QED BY <1>1, <1>3, <1>4

-----------------------------------------------------------------------------
(* The live tap: the rows of a round.                                      *)

LEMMA VisibleIsInt ==
  ASSUME TapTypeOK, NEW s \in Sensors
  PROVE  VisibleUntil(s) \in Int
<1>1. now \in Nat /\ Lag[s] \in Nat
  BY TapTypes, TapNumbers
<1> QED BY <1>1 DEF VisibleUntil

LEMMA AdvancedFacts ==
  ASSUME TapTypeOK, NEW s \in Sensors, sub.cursor[s] \in Pairs, sub.cursor[s][1] <= VisibleUntil(s)
  PROVE  /\ Advanced(s) \in Pairs
         /\ Advanced(s) = sub.cursor[s] \/ Before(sub.cursor[s], Advanced(s))
         /\ Advanced(s)[1] <= VisibleUntil(s)
         /\ \A row \in RowsAt[s] :
              row \in Fresh(s) <=> Before(sub.cursor[s], row) /\ ~ Before(Advanced(s), row)
<1> DEFINE c == sub.cursor[s]
           a == Advanced(s)
           F == Fresh(s)
           V == VisibleUntil(s)
<1>1. /\ V \in Int /\ c \in Pairs /\ c[1] <= V
      /\ RowsAt[s] \in SUBSET Pairs /\ F \in SUBSET RowsAt[s] /\ IsFiniteSet(F)
  BY VisibleIsInt, RowFacts, MatchingIsFinite
<1>2. F = {row \in RowsAt[s] : row[1] >= c[1] /\ row[1] <= V /\ Before(c, row)}
  BY DEF Fresh
<1>3. a = IF F = {} THEN c ELSE Last(InOrder(F))
  BY DEF Advanced
<1>4. \A p \in Pairs : p[1] \in Int
  BY DEF Pairs
<1> HIDE DEF a, F, V, c
<1>5. CASE F = {}
  <2>1. a = c
    BY <1>3, <1>5
  <2>2. ASSUME NEW row \in RowsAt[s], Before(c, row), ~ Before(a, row) PROVE FALSE
    BY <2>1, <2>2
  <2> QED BY <1>1, <1>5, <2>1, <2>2 DEF a, F, V, c
<1>6. CASE F # {}
  <2> DEFINE l == InOrder(F)
             n == Cardinality(F)
  <2>1. Listing(l, F)
    BY <1>1, InOrderLists
  <2>2. n \in Nat /\ l \in [1..n -> F] /\ \A x \in F : \E i \in 1..n : l[i] = x
    BY <1>1, <2>1, ListingHasAll
  <2>3. \A i, j \in 1..n : i < j => Before(l[i], l[j])
    BY <2>1, <2>2 DEF Listing, Ascending
  <2>4. Len(l) = n
    <3> HIDE DEF l, n
    <3>1. l \in Seq(F)
      BY <2>2
    <3> QED BY <2>2, <3>1
  <2>5. a = l[n]
    BY <1>3, <1>6, <2>4 DEF Last
  <2> HIDE DEF l, n
  <2>6. n \in 1..n
    <3>1. PICK x \in F : TRUE
      BY <1>6
    <3>2. PICK i \in 1..n : l[i] = x
      BY <2>2
    <3> QED BY <2>2, <3>2
  <2>7. a \in F
    BY <2>2, <2>5, <2>6
  <2>8. ASSUME NEW x \in F PROVE x = a \/ Before(x, a)
    <3>1. PICK i \in 1..n : l[i] = x
      BY <2>2
    <3>2. i = n \/ i < n
      BY <2>2
    <3> QED BY <2>3, <2>5, <2>6, <3>1, <3>2
  <2>9. a \in Pairs /\ Before(c, a) /\ a[1] <= V
    BY <1>1, <1>2, <2>7
  <2>10. ASSUME NEW row \in RowsAt[s] PROVE row \in F <=> Before(c, row) /\ ~ Before(a, row)
    <3>1. row \in Pairs
      BY <1>1
    <3>2. ASSUME row \in F PROVE Before(c, row) /\ ~ Before(a, row)
      <4>1. Before(c, row) /\ (row = a \/ Before(row, a))
        BY <1>2, <2>8, <3>2
      <4> QED BY <2>9, <3>1, <4>1, BeforeIsOrder
    <3>3. ASSUME Before(c, row), ~ Before(a, row) PROVE row \in F
      <4>1. row = a \/ Before(row, a)
        BY <2>9, <3>1, <3>3, BeforeIsOrder
      <4>2. row[1] <= a[1] /\ c[1] <= row[1]
        BY <1>1, <1>4, <2>9, <3>1, <3>3, <4>1, BeforeIsOrder
      <4>3. row[1] \in Int /\ a[1] \in Int /\ c[1] \in Int
        BY <1>1, <1>4, <2>9, <3>1
      <4>4. row[1] >= c[1] /\ row[1] <= V
        BY <1>1, <2>9, <4>2, <4>3
      <4> QED BY <1>2, <3>3, <4>4
    <3> QED BY <3>2, <3>3
  <2> QED BY <2>9, <2>10 DEF a, F, V, c
<1> QED BY <1>5, <1>6

\* What a round adds to what a subscription has seen of a sensor.
LEMMA RoundOfSensor ==
  ASSUME TapTypeOK, SubGoesOn, sub # NoSub, NEW s \in DOMAIN sub.start
  PROVE  LET rows == RowsAt[s] \cap Filters[sub.filter]
         IN  /\ shown[s] \o Released(s) = InOrder({row \in rows : Before(sub.start[s], row) /\ ~ Before(Advanced(s), row)})
             /\ shown[s] \o Released(s) = DueSince(s)
             /\ Advanced(s) \in Pairs
             /\ sub.start[s] = Advanced(s) \/ Before(sub.start[s], Advanced(s))
             /\ Advanced(s)[1] <= VisibleUntil(s)
<1> DEFINE rows == RowsAt[s] \cap Filters[sub.filter]
           b == sub.start[s]
           c == sub.cursor[s]
           a == Advanced(s)
           V == VisibleUntil(s)
           P == Passed(s)
           M == Matching(s)
           F == Fresh(s)
           Q == {row \in rows : Before(b, row) /\ ~ Before(a, row)}
           D == {row \in rows : Before(b, row) /\ row[1] <= V}
<1>1. s \in Sensors /\ b \in Pairs /\ c \in Pairs
  BY SubFacts
<1>2. (b = c \/ Before(b, c)) /\ c[1] <= V /\ shown[s] = InOrder(P)
  BY DEF SubGoesOn
<1>3. V \in Int /\ RowsAt[s] \in SUBSET Pairs /\ IsFiniteSet(RowsAt[s]) /\ F \in SUBSET RowsAt[s]
  BY <1>1, VisibleIsInt, RowFacts, MatchingIsFinite
<1>4. /\ a \in Pairs /\ (a = c \/ Before(c, a)) /\ a[1] <= V
      /\ \A row \in RowsAt[s] : row \in F <=> Before(c, row) /\ ~ Before(a, row)
  BY <1>1, <1>2, AdvancedFacts
<1>5. P = {row \in rows : Before(b, row) /\ ~ Before(c, row)}
  BY DEF Passed
<1>6. M = {row \in rows : row \in F}
  BY <1>3 DEF Matching
<1>7. \A row \in F : row[1] <= V
  BY DEF Fresh
<1>8. ASSUME NEW row \in RowsAt[s], Before(c, row), row[1] <= V PROVE row \in F
  <2>1. row \in Pairs /\ row[1] \in Int /\ c[1] \in Int
    BY <1>1, <1>3 DEF Pairs
  <2>2. c[1] <= row[1]
    BY <1>1, <1>8, <2>1, BeforeIsOrder
  <2>3. row[1] >= c[1]
    BY <2>1, <2>2
  <2> QED BY <1>8, <2>3 DEF Fresh
<1>9. Released(s) = InOrder(M)
  BY DEF Released
<1>10. DueSince(s) = InOrder(D)
  BY DEF DueSince
<1> HIDE DEF a, b, c, V, P, M, F
<1>11. rows \in SUBSET Pairs /\ IsFiniteSet(rows) /\ P \in SUBSET rows /\ M \in SUBSET rows
  <2>1. rows \in SUBSET RowsAt[s]
    OBVIOUS
  <2>2. IsFiniteSet(rows)
    BY <1>3, <2>1, FS_Subset
  <2> HIDE DEF rows
  <2> QED BY <1>3, <1>5, <1>6, <2>1, <2>2
<1>12. P \in SUBSET Pairs /\ M \in SUBSET Pairs /\ IsFiniteSet(P) /\ IsFiniteSet(M)
  BY <1>11, FS_Subset
<1>13. ASSUME NEW p \in P, NEW q \in M PROVE Before(p, q)
  <2>1. p \in Pairs /\ q \in Pairs /\ ~ Before(c, p) /\ Before(c, q)
    BY <1>4, <1>5, <1>6, <1>12
  <2>2. p = c \/ Before(p, c)
    BY <1>1, <2>1, BeforeIsOrder
  <2> QED BY <1>1, <2>1, <2>2, BeforeIsOrder
<1>14. InOrder(P \cup M) = InOrder(P) \o InOrder(M)
  BY <1>12, <1>13, InOrderJoins
<1>15. ASSUME NEW row \in rows PROVE row \in P \cup M <=> Before(b, row) /\ ~ Before(a, row)
  <2>1. row \in Pairs /\ row \in RowsAt[s]
    BY <1>11
  <2>2. ASSUME row \in P PROVE Before(b, row) /\ ~ Before(a, row)
    <3>1. Before(b, row) /\ (row = c \/ Before(row, c))
      BY <1>1, <1>5, <2>1, <2>2, BeforeIsOrder
    <3> QED BY <1>1, <1>4, <2>1, <3>1, BeforeIsOrder
  <2>3. ASSUME row \in M PROVE Before(b, row) /\ ~ Before(a, row)
    <3>1. Before(c, row) /\ ~ Before(a, row)
      BY <1>4, <1>6, <2>1, <2>3
    <3> QED BY <1>1, <1>2, <2>1, <3>1, BeforeIsOrder
  <2>4. ASSUME Before(b, row), ~ Before(a, row) PROVE row \in P \cup M
    BY <1>4, <1>5, <1>6, <2>1, <2>4
  <2> QED BY <2>2, <2>3, <2>4
<1>16. ASSUME NEW row \in rows PROVE row \in P \cup M <=> Before(b, row) /\ row[1] <= V
  <2>1. row \in Pairs /\ row \in RowsAt[s] /\ row[1] \in Int /\ c[1] \in Int
    BY <1>1, <1>11 DEF Pairs
  <2>2. ASSUME row \in P PROVE Before(b, row) /\ row[1] <= V
    <3>1. Before(b, row) /\ (row = c \/ Before(row, c))
      BY <1>1, <1>5, <2>1, <2>2, BeforeIsOrder
    <3>2. row[1] <= c[1]
      BY <1>1, <2>1, <3>1, BeforeIsOrder
    <3> QED BY <1>2, <1>3, <2>1, <3>1, <3>2
  <2>3. ASSUME row \in M PROVE Before(b, row) /\ row[1] <= V
    <3>1. Before(c, row) /\ row[1] <= V
      BY <1>4, <1>6, <1>7, <2>1, <2>3
    <3> QED BY <1>1, <1>2, <2>1, <3>1, BeforeIsOrder
  <2>4. ASSUME Before(b, row), row[1] <= V PROVE row \in P \cup M
    <3>1. CASE Before(c, row)
      BY <1>6, <1>8, <2>1, <2>4, <3>1
    <3>2. CASE ~ Before(c, row)
      BY <1>5, <2>4, <3>2
    <3> QED BY <3>1, <3>2
  <2> QED BY <2>2, <2>3, <2>4
<1>17. P \cup M = Q /\ P \cup M = D
  <2> HIDE DEF rows
  <2> QED BY <1>11, <1>15, <1>16
<1>18. b = a \/ Before(b, a)
  BY <1>1, <1>2, <1>4, BeforeIsOrder
<1> HIDE DEF Q, D
<1>19. shown[s] \o Released(s) = InOrder(Q) /\ shown[s] \o Released(s) = InOrder(D)
  BY <1>2, <1>9, <1>14, <1>17
<1> QED BY <1>4, <1>10, <1>18, <1>19 DEF a, b, c, V, Q, D, rows

-----------------------------------------------------------------------------
(* The live tap: its steps.                                                *)

\* Statistics are told in a round of the loop alone.
RowsAreWhole ==
  Watching /\ nextStats' # nextStats => \A s \in DOMAIN sub.start : shown'[s] = DueSince(s)

LEMMA SubStays ==
  ASSUME TapTypeOK, TapTypeOK', SubGoesOn, UNCHANGED <<sub, shown>>, now <= now'
  PROVE  SubGoesOn'
<1>1. CASE sub = NoSub
  BY <1>1 DEF SubGoesOn, NoSub
<1>2. CASE sub # NoSub
  <2>1. ASSUME NEW s \in DOMAIN sub.start
        PROVE  /\ sub.start[s] = sub.cursor[s] \/ Before(sub.start[s], sub.cursor[s])
               /\ sub.cursor[s][1] <= now' - Lag[s]
               /\ shown[s] = InOrder(Passed(s))
    <3>1. s \in Sensors /\ sub.cursor[s] \in Pairs
      BY <1>2, SubFacts
    <3>2. /\ sub.start[s] = sub.cursor[s] \/ Before(sub.start[s], sub.cursor[s])
          /\ sub.cursor[s][1] <= now - Lag[s]
          /\ shown[s] = InOrder(Passed(s))
      BY <1>2 DEF SubGoesOn, VisibleUntil
    <3>3. now \in Nat /\ Lag[s] \in Nat /\ sub.cursor[s][1] \in Int
      BY <3>1, TapTypes, TapNumbers DEF Pairs
    <3>4. now' \in Int
      BY TapNumbers DEF TapTypeOK
    <3>5. sub.cursor[s][1] <= now' - Lag[s]
      BY <3>2, <3>3, <3>4
    <3> QED BY <3>2, <3>5
  <2>2. sub \in Subs /\ DOMAIN sub.cursor = DOMAIN sub.start
    BY <1>2 DEF SubGoesOn
  <2> QED BY <2>1, <2>2 DEF SubGoesOn, VisibleUntil, Passed
<1> QED BY <1>1, <1>2

LEMMA BufferStays ==
  ASSUME GoodBuffer(Buffer, gen), UNCHANGED <<heard, queue, sent, dropped, seq, gen>>
  PROVE  GoodBuffer(Buffer, gen)'
<1>1. Buffer' = Buffer
  BY DEF Buffer
<1> QED BY <1>1 DEF GoodBuffer

\* Steps that neither send nor are heard.
LEMMA QuietSteps ==
  ASSUME TapInv,
         \/ SubscribeForeign
         \/ \E b \in BOOLEAN : SetPaused(b)
         \/ \E nonce \in {ping.nonce, MaxNow + 1} : Listening /\ Pong(nonce)
         \/ \E s \in Searches : Unwatch(s) \/ SearchMoves(s)
         \/ End \/ Revoked \/ TapTick
  PROVE  TapInv' /\ RowsAreWhole
<1>1. /\ now \in 0..MaxNow /\ now \in Nat
      /\ ping \in [nonce: Nat, deadline: Nat, next: Nat]
      /\ DOMAIN watched \subseteq Searches /\ progress \in [Searches -> Nat]
  BY TapTypes DEF TapInv
<1>2. TapTypeOK /\ IsFiniteSet(DOMAIN watched)
  BY DEF TapInv
<1>3. UNCHANGED <<heard, queue, sent, dropped, seq, gen, sub, shown, nextStats, counted>>
  BY DEF SubscribeForeign, SetPaused, Pong, Unwatch, SearchMoves, End, Revoked, TapTick
<1>4. now' \in 0..MaxNow /\ now <= now'
  <2>1. CASE TapTick
    BY <1>1, <2>1, TapNumbers DEF TapTick
  <2>2. CASE ~ TapTick
    <3>1. now' = now
      BY <2>2 DEF SubscribeForeign, SetPaused, Pong, Unwatch, SearchMoves, End, Revoked
    <3> QED BY <1>1, <3>1
  <2> QED BY <2>1, <2>2
<1>5. paused' \in BOOLEAN /\ over' \in BOOLEAN
  BY <1>2 DEF TapTypeOK, SubscribeForeign, SetPaused, Pong, Unwatch, SearchMoves, End, Revoked, TapTick
<1>6. code' \in {"none", "forbidden", "pong", "restart", "revoked"}
  BY <1>2 DEF TapTypeOK, CloseWith, SubscribeForeign, SetPaused, Pong, Unwatch, SearchMoves, End,
              Revoked, TapTick
<1>7. frames' \in 0..MaxFrames
  <2>1. frames \in 0..MaxFrames /\ MaxFrames \in Nat
    BY <1>2, TapNumbers DEF TapTypeOK
  <2>2. Listening => frames' \in 0..MaxFrames
    BY <2>1 DEF Listening
  <2>3. Listening \/ frames' = frames
    BY DEF SubscribeForeign, SetPaused, Pong, Unwatch, SearchMoves, End, Revoked, TapTick
  <2> QED BY <2>1, <2>2, <2>3
<1>8. ping' \in [nonce: Nat, deadline: Nat, next: Nat]
  <2>1. ping' = ping \/ ping' = [ping EXCEPT !.nonce = NoPing, !.deadline = 0]
    BY DEF SubscribeForeign, SetPaused, Pong, Unwatch, SearchMoves, End, Revoked, TapTick
  <2>2. [ping EXCEPT !.nonce = NoPing, !.deadline = 0] \in [nonce: Nat, deadline: Nat, next: Nat]
    BY <1>1 DEF NoPing
  <2> QED BY <1>1, <2>1, <2>2
<1>9. progress' \in [Searches -> Nat]
  <2>1. ASSUME NEW s \in Searches, SearchMoves(s) PROVE progress' \in [Searches -> Nat]
    BY <1>1, <2>1 DEF SearchMoves, Missing
  <2>2. CASE progress' = progress
    BY <1>1, <2>2
  <2>3. progress' = progress \/ \E s \in Searches : SearchMoves(s)
    BY DEF SubscribeForeign, SetPaused, Pong, Unwatch, End, Revoked, TapTick
  <2> QED BY <2>1, <2>2, <2>3
<1>10. DOMAIN watched' \subseteq Searches /\ IsFiniteSet(DOMAIN watched')
  <2>1. ASSUME NEW s \in Searches, Unwatch(s) PROVE DOMAIN watched' \in SUBSET DOMAIN watched
    BY <2>1 DEF Unwatch, Restrict
  <2>2. watched' = watched \/ \E s \in Searches : Unwatch(s)
    BY DEF SubscribeForeign, SetPaused, Pong, SearchMoves, End, Revoked, TapTick
  <2>3. DOMAIN watched' \in SUBSET DOMAIN watched
    BY <2>1, <2>2
  <2>4. IsFiniteSet(DOMAIN watched')
    BY <1>2, <2>3, FS_Subset
  <2> QED BY <1>1, <2>3, <2>4
<1>11. TapTypeOK'
  BY <1>2, <1>3, <1>4, <1>5, <1>6, <1>7, <1>8, <1>9, <1>10 DEF TapTypeOK
<1>12. SubGoesOn'
  BY <1>2, <1>3, <1>4, <1>11, SubStays DEF TapInv
<1>13. GoodBuffer(Buffer, gen)'
  BY <1>3, BufferStays DEF TapInv
<1> QED BY <1>3, <1>10, <1>11, <1>12, <1>13 DEF TapInv, RowsAreWhole

LEMMA BufferedTypes ==
  ASSUME NEW b \in BufferType, Buffered(b)
  PROVE  queue' \in Seq(Frame) /\ sent' \in Nat /\ dropped' \in Nat /\ seq' \in Nat
BY DEF BufferType, Buffered

\* Answers to the client.
LEMMA ComplainStep ==
  ASSUME TapInv, Listening, Complain
  PROVE  TapInv' /\ RowsAreWhole
<1> DEFINE f == Says("error", 0, 0)
           b == Keep(Buffer, f)
<1>1. TapTypeOK /\ IsFiniteSet(DOMAIN watched) /\ GoodBuffer(Buffer, gen) /\ heard \in Seq(Frame) /\ gen \in Nat
  BY TapTypes DEF TapInv
<1>2. f \in Frame /\ f.type = "error" /\ f.gen = 0
  BY DEF Says, Frame, FrameTypes
<1>3. GoodBuffer(b, gen)
  <2> HIDE DEF f
  <2> QED BY <1>1, <1>2, KeepIsGood
<1>4. /\ Buffered(b)
      /\ UNCHANGED <<now, sub, paused, gen, counted, heard, ping, nextStats, watched, progress, code,
                     over, restart, shown>>
  BY DEF Complain, Send
<1> HIDE DEF b
<1>5. GoodBuffer(Buffer, gen)' /\ b \in BufferType
  BY <1>3, <1>4, BufferedIsGood
<1>6. queue' \in Seq(Frame) /\ sent' \in Nat /\ dropped' \in Nat /\ seq' \in Nat
  BY <1>4, <1>5, BufferedTypes
<1>7. frames' \in 0..MaxFrames
  BY <1>1, TapNumbers DEF Listening, TapTypeOK
<1>8. TapTypeOK'
  BY <1>1, <1>4, <1>6, <1>7 DEF TapTypeOK
<1>9. now <= now'
  BY <1>1, <1>4, TapTypes
<1>10. SubGoesOn'
  BY <1>1, <1>4, <1>8, <1>9, SubStays DEF TapInv
<1> QED BY <1>1, <1>4, <1>5, <1>8, <1>10 DEF TapInv, RowsAreWhole

LEMMA WatchStep ==
  ASSUME TapInv, NEW s \in Searches, Watch(s)
  PROVE  TapInv' /\ RowsAreWhole
<1> DEFINE f == Says("progress", 0, progress[s])
           b == Keep(Buffer, f)
<1>1. /\ TapTypeOK /\ IsFiniteSet(DOMAIN watched) /\ GoodBuffer(Buffer, gen) /\ heard \in Seq(Frame)
      /\ gen \in Nat /\ progress \in [Searches -> Nat] /\ DOMAIN watched \subseteq Searches
  BY TapTypes DEF TapInv
<1>2. f \in Frame /\ f.type = "progress" /\ f.gen = 0
  BY <1>1 DEF Says, Frame, FrameTypes
<1>3. GoodBuffer(b, gen)
  <2> HIDE DEF f
  <2> QED BY <1>1, <1>2, KeepIsGood
<1>4. /\ Buffered(b) /\ Listening
      /\ UNCHANGED <<now, sub, paused, gen, counted, heard, ping, nextStats, progress, code,
                     over, restart, shown>>
      /\ DOMAIN watched' = DOMAIN watched \cup {s}
  BY DEF Watch, Send
<1> HIDE DEF b
<1>5. GoodBuffer(Buffer, gen)' /\ b \in BufferType
  BY <1>3, <1>4, BufferedIsGood
<1>6. queue' \in Seq(Frame) /\ sent' \in Nat /\ dropped' \in Nat /\ seq' \in Nat
  BY <1>4, <1>5, BufferedTypes
<1>7. frames' \in 0..MaxFrames
  BY <1>1, <1>4, TapNumbers DEF Listening, TapTypeOK
<1>8. IsFiniteSet(DOMAIN watched') /\ DOMAIN watched' \subseteq Searches
  BY <1>1, <1>4, FS_AddElement
<1>9. TapTypeOK'
  BY <1>1, <1>4, <1>6, <1>7, <1>8 DEF TapTypeOK
<1>10. now <= now'
  BY <1>1, <1>4, TapTypes
<1>11. SubGoesOn'
  BY <1>1, <1>4, <1>9, <1>10, SubStays DEF TapInv
<1> QED BY <1>1, <1>4, <1>5, <1>8, <1>9, <1>11 DEF TapInv, RowsAreWhole

LEMMA OfferIs ==
  ASSUME NEW offer \in Offers
  PROVE  offer.sensors \in SUBSET Sensors /\ offer.channels \in SUBSET {"sessions", "stats"}
         /\ offer.filter \in DOMAIN Filters
<1>1. Offers \subseteq [sensors: (SUBSET Sensors) \ {{}}, filter: DOMAIN Filters,
                        channels: (SUBSET {"sessions", "stats"}) \ {{}}]
  BY TapConstants
<1> QED BY <1>1

LEMMA NothingShown ==
  /\ InOrder({}) = <<>>
  /\ \A p : p \in Pairs => ~ Before(p, p)
<1>1. IsFiniteSet({}) /\ Cardinality({}) = 0 /\ {} \in SUBSET Pairs
  BY FS_EmptySet
<1>2. Listing(InOrder({}), {})
  BY <1>1, InOrderLists
<1>3. InOrder({}) \in [1..0 -> {}]
  BY <1>1, <1>2 DEF Listing
<1>4. 1..0 = {}
  OBVIOUS
<1>5. <<>> \in Seq({}) /\ InOrder({}) \in Seq({}) /\ Len(InOrder({})) = 0 /\ Len(<<>>) = 0
  BY <1>3, <1>4
<1>6. InOrder({}) = <<>>
  BY <1>4, <1>5, SeqEqual
<1> QED BY <1>6, BeforeIsOrder

LEMMA SubscribeStep ==
  ASSUME TapInv, NEW offer \in Offers, Subscribe(offer)
  PROVE  TapInv' /\ RowsAreWhole
<1> DEFINE f == Says("ack", gen + 1, 0)
           b == Keep(Buffer, f)
           D == offer.sensors
           begin == [s \in D |-> StartCursor(s)]
           new == [filter |-> offer.filter, channels |-> offer.channels, start |-> begin, cursor |-> begin]
<1>1. TapTypeOK /\ IsFiniteSet(DOMAIN watched) /\ GoodBuffer(Buffer, gen) /\ heard \in Seq(Frame) /\ gen \in Nat
  BY TapTypes DEF TapInv
<1>2. f \in Frame /\ f.type = "ack" /\ f.gen = gen + 1
  BY <1>1 DEF Says, Frame, FrameTypes
<1>3. GoodBuffer(b, gen + 1)
  <2> HIDE DEF f
  <2> QED BY <1>1, <1>2, AckIsGood
<1>4. /\ Buffered(b) /\ Listening /\ sub' = new /\ gen' = gen + 1
      /\ paused' = FALSE /\ counted' = 0 /\ shown' = [s \in Sensors |-> <<>>]
      /\ UNCHANGED <<now, heard, ping, nextStats, watched, progress, code, over, restart>>
  BY DEF Subscribe, Send
<1>5. D \in SUBSET Sensors /\ offer.channels \in SUBSET {"sessions", "stats"} /\ offer.filter \in DOMAIN Filters
  BY OfferIs
<1>6. \A s \in D : /\ VisibleUntil(s) \in Int /\ StartCursor(s) \in Pairs
                   /\ StartCursor(s)[1] = VisibleUntil(s)
  <2>1. ASSUME NEW s \in D PROVE /\ VisibleUntil(s) \in Int /\ StartCursor(s) \in Pairs
                                 /\ StartCursor(s)[1] = VisibleUntil(s)
    <3>1. VisibleUntil(s) \in Int
      BY <1>1, <1>5, VisibleIsInt
    <3> QED BY <3>1 DEF StartCursor, LastOf, Pairs
  <2> QED BY <2>1
<1>7. begin \in Paths
  <2>1. begin \in [D -> Pairs]
    BY <1>6
  <2> HIDE DEF begin, D
  <2> QED BY <1>5, <2>1 DEF Paths
<1> HIDE DEF b, begin
<1>8. new \in Subs /\ new.filter \in DOMAIN Filters
  BY <1>5, <1>7 DEF Subs
<1>9. GoodBuffer(Buffer, gen)' /\ b \in BufferType
  BY <1>3, <1>4, BufferedIsGood
<1>10. queue' \in Seq(Frame) /\ sent' \in Nat /\ dropped' \in Nat /\ seq' \in Nat
  BY <1>4, <1>9, BufferedTypes
<1>11. frames' \in 0..MaxFrames
  BY <1>1, <1>4, TapNumbers DEF Listening, TapTypeOK
<1>12. gen' \in Nat /\ counted' \in Nat /\ paused' \in BOOLEAN
  <2>1. gen' = gen + 1 /\ counted' = 0
    BY <1>4
  <2>2. gen' \in Nat /\ counted' \in Nat
    BY <1>1, <2>1
  <2>3. paused' \in BOOLEAN
    BY <1>4
  <2> QED BY <2>2, <2>3
<1>13. sub'.filter \in DOMAIN Filters
  BY <1>4, <1>8
<1>14. TapTypeOK'
  <2> HIDE DEF new
  <2> QED BY <1>1, <1>4, <1>10, <1>11, <1>12, <1>13 DEF TapTypeOK
<1>15. SubGoesOn'
  <2>1. ASSUME NEW s \in D
        PROVE  /\ begin[s][1] <= VisibleUntil(s)
               /\ <<>> = InOrder({row \in RowsAt[s] \cap Filters[offer.filter] :
                                    Before(begin[s], row) /\ ~ Before(begin[s], row)})
    <3>1. begin[s] = StartCursor(s)
      BY DEF begin
    <3>2. begin[s][1] <= VisibleUntil(s)
      BY <1>6, <3>1
    <3>3. {row \in RowsAt[s] \cap Filters[offer.filter] :
             Before(begin[s], row) /\ ~ Before(begin[s], row)} = {}
      OBVIOUS
    <3> QED BY <3>2, <3>3, NothingShown
  <2>2. DOMAIN begin = D
    BY DEF begin
  <2>3. /\ new.start = begin /\ new.cursor = begin /\ new.filter = offer.filter
    OBVIOUS
  <2>4. \A s \in D : shown'[s] = <<>>
    BY <1>4, <1>5
  <2>5. \A s \in D : VisibleUntil(s)' = VisibleUntil(s)
    BY <1>4 DEF VisibleUntil
  <2> HIDE DEF new, D
  <2>6. \A s \in D : Passed(s)' = {row \in RowsAt[s] \cap Filters[offer.filter] :
                                     Before(begin[s], row) /\ ~ Before(begin[s], row)}
    BY <1>4, <2>3 DEF Passed
  <2>7. \A s \in D : /\ sub'.start[s] = sub'.cursor[s]
                     /\ sub'.cursor[s][1] <= VisibleUntil(s)'
                     /\ shown'[s] = InOrder(Passed(s))'
    BY <1>4, <2>1, <2>3, <2>4, <2>5, <2>6
  <2> QED BY <1>4, <1>8, <2>2, <2>3, <2>7 DEF SubGoesOn
<1> QED BY <1>1, <1>4, <1>9, <1>14, <1>15 DEF TapInv, RowsAreWhole

LEMMA ProducedRows ==
  ASSUME TapInv, Produce
  PROVE  SubGoesOn' /\ RowsAreWhole
<1>1. TapTypeOK /\ SubGoesOn
  BY DEF TapInv
<1>2. /\ sub' = IF Watching THEN [sub EXCEPT !.cursor = [s \in DOMAIN @ |-> Advanced(s)]] ELSE sub
      /\ shown' = [s \in Sensors |->
                     IF Watching /\ s \in DOMAIN sub.cursor THEN shown[s] \o Released(s) ELSE shown[s]]
      /\ now' = now
  BY DEF Produce, Shown
<1>3. \A s : VisibleUntil(s)' = VisibleUntil(s)
  BY <1>2 DEF VisibleUntil
<1>4. CASE ~ Watching
  <2>1. sub' = sub /\ shown' = [s \in Sensors |-> shown[s]]
    BY <1>2, <1>4
  <2>2. ASSUME sub = NoSub PROVE SubGoesOn'
    BY <2>1, <2>2 DEF SubGoesOn, NoSub
  <2>3. ASSUME sub # NoSub PROVE SubGoesOn'
    <3>1. DOMAIN sub.start \in SUBSET Sensors
      BY <1>1, <2>3, SubFacts
    <3>2. \A s \in DOMAIN sub.start : shown'[s] = shown[s]
      BY <2>1, <3>1
    <3>3. \A s \in DOMAIN sub.start : Passed(s)' = Passed(s)
      BY <2>1 DEF Passed
    <3>4. /\ sub \in Subs /\ DOMAIN sub.cursor = DOMAIN sub.start
          /\ \A s \in DOMAIN sub.start :
               /\ sub.start[s] = sub.cursor[s] \/ Before(sub.start[s], sub.cursor[s])
               /\ sub.cursor[s][1] <= VisibleUntil(s)
               /\ shown[s] = InOrder(Passed(s))
      BY <1>1, <2>3 DEF SubGoesOn
    <3> QED BY <1>3, <2>1, <3>2, <3>3, <3>4 DEF SubGoesOn
  <2>4. SubGoesOn'
    BY <2>2, <2>3
  <2> QED BY <1>4, <2>4 DEF RowsAreWhole
<1>5. CASE Watching
  <2> DEFINE D == DOMAIN sub.cursor
             b == sub.start
             next == [s \in D |-> Advanced(s)]
             new == [filter |-> sub.filter, channels |-> sub.channels, start |-> b, cursor |-> next]
  <2>1. sub # NoSub
    BY <1>5 DEF Watching
  <2>2. sub \in Subs /\ D \in SUBSET Sensors /\ DOMAIN b = D
    BY <1>1, <2>1, SubFacts
  <2>3. ASSUME NEW s \in D
        PROVE  /\ shown[s] \o Released(s) = InOrder({row \in RowsAt[s] \cap Filters[sub.filter] :
                                                       Before(b[s], row) /\ ~ Before(Advanced(s), row)})
               /\ shown[s] \o Released(s) = DueSince(s)
               /\ Advanced(s) \in Pairs
               /\ b[s] = Advanced(s) \/ Before(b[s], Advanced(s))
               /\ Advanced(s)[1] <= VisibleUntil(s)
    BY <1>1, <2>1, <2>2, RoundOfSensor
  <2>4. sub' = new
    <3>1. sub' = [sub EXCEPT !.cursor = next]
      BY <1>2, <1>5
    <3> HIDE DEF next
    <3> QED BY <2>2, <3>1 DEF Subs
  <2>5. next \in Paths
    <3>1. next \in [D -> Pairs]
      BY <2>3
    <3> HIDE DEF next, D
    <3> QED BY <2>2, <3>1 DEF Paths
  <2>6. \A s \in D : next[s] = Advanced(s)
    OBVIOUS
  <2>7. DOMAIN next = D
    OBVIOUS
  <2> HIDE DEF next
  <2>8. new \in Subs
    BY <2>2, <2>5 DEF Subs
  <2>9. \A s \in D : shown'[s] = shown[s] \o Released(s)
    BY <1>2, <1>5, <2>2
  <2>10. new.start = b /\ new.cursor = next /\ new.filter = sub.filter
    OBVIOUS
  <2> HIDE DEF new, b, D
  <2>11. \A s \in D : Passed(s)' = {row \in RowsAt[s] \cap Filters[sub.filter] :
                                      Before(b[s], row) /\ ~ Before(Advanced(s), row)}
    BY <2>4, <2>6, <2>10 DEF Passed
  <2>12. ASSUME NEW s \in D
         PROVE  /\ sub'.start[s] = sub'.cursor[s] \/ Before(sub'.start[s], sub'.cursor[s])
                /\ sub'.cursor[s][1] <= VisibleUntil(s)'
                /\ shown'[s] = InOrder(Passed(s))'
    <3>1. sub'.start[s] = b[s] /\ sub'.cursor[s] = Advanced(s)
      BY <2>4, <2>6, <2>10
    <3>2. VisibleUntil(s)' = VisibleUntil(s)
      BY <1>3
    <3>3. shown'[s] = InOrder(Passed(s))'
      BY <2>3, <2>9, <2>11
    <3> QED BY <2>3, <3>1, <3>2, <3>3
  <2>13. SubGoesOn'
    <3>1. DOMAIN sub'.start = D /\ DOMAIN sub'.cursor = D /\ sub' \in Subs
      BY <2>2, <2>4, <2>7, <2>8, <2>10
    <3> QED BY <2>12, <3>1 DEF SubGoesOn
  <2>14. \A s \in DOMAIN sub.start : shown'[s] = DueSince(s)
    BY <2>2, <2>3, <2>9 DEF b
  <2> QED BY <2>13, <2>14 DEF RowsAreWhole
<1> QED BY <1>4, <1>5

LEMMA ProduceStep ==
  ASSUME TapInv, Produce
  PROVE  TapInv' /\ RowsAreWhole
<1>1. /\ TapTypeOK /\ IsFiniteSet(DOMAIN watched) /\ GoodBuffer(Produced, gen)
      /\ now \in Nat /\ counted \in Nat /\ nextStats \in Nat /\ ReleasedRows \in Nat
      /\ ping \in [nonce: Nat, deadline: Nat, next: Nat]
  BY TapTypes, ProducedIsGood, ReleasedIsNat DEF TapInv
<1>2. /\ Buffered(Produced)
      /\ UNCHANGED <<now, paused, gen, heard, progress, over, restart, frames>>
      /\ DOMAIN watched' = DOMAIN watched
  BY DEF Produce
<1>3. GoodBuffer(Buffer, gen)' /\ Produced \in BufferType
  BY <1>1, <1>2, BufferedIsGood
<1>4. queue' \in Seq(Frame) /\ sent' \in Nat /\ dropped' \in Nat /\ seq' \in Nat
  BY <1>2, <1>3, BufferedTypes
<1>5. counted' \in Nat
  <2>1. counted' = 0 \/ counted' = counted + ReleasedRows
    BY DEF Produce, CountedNow
  <2> QED BY <1>1, <2>1
<1>6. nextStats' \in Nat
  <2>1. nextStats' = nextStats \/ nextStats' = now + StatsInterval
    BY DEF Produce
  <2> QED BY <1>1, <2>1, TapNumbers
<1>7. ping' \in [nonce: Nat, deadline: Nat, next: Nat]
  <2>1. ping' = ping \/ ping' = [nonce |-> now, deadline |-> now + PongDeadline, next |-> now + Heartbeat]
    BY DEF Produce
  <2>2. now + PongDeadline \in Nat /\ now + Heartbeat \in Nat
    BY <1>1, TapNumbers
  <2> QED BY <1>1, <2>1, <2>2
<1>8. code' \in {"none", "forbidden", "pong", "restart", "revoked"}
  <2>1. code' = "pong" \/ code' = "restart" \/ code' = code
    BY DEF Produce
  <2> QED BY <1>1, <2>1 DEF TapTypeOK
<1>9. sub' = NoSub \/ sub'.filter \in DOMAIN Filters
  <2>1. SubGoesOn'
    BY ProducedRows
  <2>2. sub' # NoSub => sub' \in Subs
    BY <2>1 DEF SubGoesOn, NoSub
  <2>3. \A x \in Subs : x.filter \in DOMAIN Filters
    BY DEF Subs
  <2> QED BY <2>2, <2>3
<1>10. TapTypeOK'
  BY <1>1, <1>2, <1>4, <1>5, <1>6, <1>7, <1>8, <1>9 DEF TapTypeOK
<1> QED BY <1>1, <1>2, <1>3, <1>10, ProducedRows DEF TapInv

LEMMA DeliverStep ==
  ASSUME TapInv, Deliver
  PROVE  TapInv' /\ RowsAreWhole
<1>1. /\ TapTypeOK /\ IsFiniteSet(DOMAIN watched) /\ GoodBuffer(Buffer, gen)
      /\ queue \in Seq(Frame) /\ heard \in Seq(Frame) /\ queue # <<>>
      /\ Buffer \in BufferType
  BY TapTypes DEF TapInv, Deliver
<1>2. /\ heard' = Append(heard, Head(queue)) /\ queue' = Tail(queue)
      /\ UNCHANGED <<now, sub, paused, gen, seq, sent, dropped, counted, ping, nextStats, watched,
                     progress, code, over, restart, frames, shown>>
  BY DEF Deliver
<1> DEFINE m == Len(heard)
           n == Len(queue)
<1>3. /\ Head(queue) \in Frame /\ Head(queue) = queue[1] /\ Tail(queue) \in Seq(Frame)
      /\ Len(Tail(queue)) = n - 1 /\ n \in Nat \ {0} /\ m \in Nat
      /\ \A i \in 1..n - 1 : Tail(queue)[i] = queue[i + 1]
  <2>1. n \in Nat \ {0} /\ m \in Nat
    BY <1>1, EmptySeq
  <2>2. Head(queue) \in Frame /\ Tail(queue) \in Seq(Frame) /\ Len(Tail(queue)) = n - 1
        /\ \A i \in 1..n - 1 : Tail(queue)[i] = queue[i + 1]
    BY <1>1, HeadTailProperties
  <2>3. Head(queue) = queue[1]
    BY <1>1
  <2> QED BY <2>1, <2>2, <2>3
<1>4. heard' \in Seq(Frame) /\ queue' \in Seq(Frame)
  BY <1>1, <1>2, <1>3
<1>5. heard' \o queue' = heard \o queue
  <2> DEFINE h == Append(heard, Head(queue))
             t == Tail(queue)
  <2>1. /\ h \in Seq(Frame) /\ t \in Seq(Frame) /\ Len(h) = m + 1 /\ Len(t) = n - 1
        /\ \A i \in 1..m : h[i] = heard[i]
        /\ h[m + 1] = queue[1]
        /\ \A i \in 1..n - 1 : t[i] = queue[i + 1]
    BY <1>1, <1>3, AppendProperties
  <2> HIDE DEF h, t, m, n
  <2>2. /\ h \o t \in Seq(Frame) /\ Len(h \o t) = Len(h) + Len(t)
        /\ \A i \in 1..Len(h) + Len(t) : (h \o t)[i] = IF i <= Len(h) THEN h[i] ELSE t[i - Len(h)]
    BY <2>1, ConcatProperties
  <2>3. /\ heard \o queue \in Seq(Frame) /\ Len(heard \o queue) = m + n
        /\ \A i \in 1..m + n : (heard \o queue)[i] = IF i <= m THEN heard[i] ELSE queue[i - m]
    BY <1>1, ConcatProperties DEF m, n
  <2>4. Len(h) + Len(t) = m + n
    BY <1>3, <2>1
  <2>5. ASSUME NEW i \in 1..m + n PROVE (h \o t)[i] = (heard \o queue)[i]
    <3>1. (h \o t)[i] = IF i <= m + 1 THEN h[i] ELSE t[i - (m + 1)]
      BY <2>1, <2>2, <2>4
    <3>2. (heard \o queue)[i] = IF i <= m THEN heard[i] ELSE queue[i - m]
      BY <2>3
    <3>3. CASE i <= m
      <4>1. i \in 1..m /\ i <= m + 1
        BY <1>3, <3>3
      <4> QED BY <2>1, <3>1, <3>2, <3>3, <4>1
    <3>4. CASE i = m + 1
      <4>1. ~ (i <= m) /\ i - m = 1 /\ i <= m + 1
        BY <1>3, <3>4
      <4> QED BY <2>1, <3>1, <3>2, <3>4, <4>1
    <3>5. CASE i > m + 1
      <4>1. ~ (i <= m + 1) /\ ~ (i <= m) /\ i - (m + 1) \in 1..n - 1 /\ i - (m + 1) + 1 = i - m
        BY <1>3, <3>5
      <4>2. t[i - (m + 1)] = queue[i - (m + 1) + 1]
        BY <2>1, <4>1
      <4> QED BY <3>1, <3>2, <4>1, <4>2
    <3>6. i <= m \/ i = m + 1 \/ i > m + 1
      BY <1>3
    <3> QED BY <3>3, <3>4, <3>5, <3>6
  <2>6. h \o t = heard \o queue
    <3> DEFINE x == h \o t
               y == heard \o queue
    <3>1. x \in Seq(Frame) /\ y \in Seq(Frame) /\ Len(x) = Len(y) /\ Len(x) = m + n
          /\ \A i \in 1..m + n : x[i] = y[i]
      BY <2>2, <2>3, <2>4, <2>5
    <3> HIDE DEF x, y
    <3>2. x = y
      BY <3>1, SeqEqual
    <3> QED BY <3>2 DEF x, y
  <2> QED BY <1>2, <2>6 DEF h, t
<1>6. Cardinality(SessionsIn(queue')) <= QueueLimit
  <2> DEFINE A == SessionsIn(Tail(queue))
             B == SessionsIn(queue)
             f == [i \in A |-> i + 1]
  <2>1. /\ A = {i \in 1..n - 1 : queue[i + 1].type = "session"}
        /\ B = {i \in 1..n : queue[i].type = "session"}
    BY <1>1, <1>3 DEF SessionsIn
  <2>2. \A i \in A : i + 1 \in B /\ i \in Int
    BY <1>3, <2>1
  <2>3. IsFiniteSet(B) /\ Cardinality(B) \in Nat
    BY <1>1, SessionsInQueue
  <2>4. f \in Injection(A, B)
    <3>1. f \in [A -> B]
      BY <2>2
    <3>2. \A i, j \in A : f[i] = f[j] => i = j
      BY <2>2
    <3> HIDE DEF f, A, B
    <3> QED BY <3>1, <3>2 DEF Injection, IsInjective
  <2> HIDE DEF f, A, B
  <2>5. Cardinality(A) <= Cardinality(B) /\ Cardinality(A) \in Nat
    BY <2>3, <2>4, FS_Injection, FS_CardinalityType
  <2>6. Cardinality(B) <= QueueLimit
    BY <1>1 DEF GoodBuffer, Buffer, B
  <2> QED BY <1>2, <2>3, <2>5, <2>6, TapNumbers DEF A
<1>7. GoodBuffer(Buffer, gen)'
  <2>1. /\ seq = Accounted(heard \o queue) + dropped
        /\ GoodSaid(heard \o queue, gen)
    BY <1>1 DEF GoodBuffer, Buffer
  <2>2. Buffer' = [queue |-> queue', sent |-> sent, dropped |-> dropped, seq |-> seq]
    BY <1>2 DEF Buffer
  <2>3. Buffer' \in BufferType
    <3>1. sent \in Nat /\ dropped \in Nat /\ seq \in Nat
      BY <1>1, TapTypes
    <3> QED BY <1>4, <2>2, <3>1 DEF BufferType
  <2> QED BY <1>2, <1>5, <1>6, <2>1, <2>2, <2>3 DEF GoodBuffer
<1>8. TapTypeOK'
  BY <1>1, <1>2, <1>4 DEF TapTypeOK
<1>9. now <= now'
  BY <1>1, <1>2, TapTypes
<1>10. SubGoesOn'
  BY <1>1, <1>2, <1>8, <1>9, SubStays DEF TapInv
<1> QED BY <1>1, <1>2, <1>7, <1>8, <1>10 DEF TapInv, RowsAreWhole

LEMMA TapBegins == TapInit => TapInv
<1> SUFFICES ASSUME TapInit PROVE TapInv
  OBVIOUS
<1> DEFINE f == Says("hello", 0, 0)
           b == [queue |-> <<>>, sent |-> 0, dropped |-> 0, seq |-> 0]
<1>1. f \in Frame /\ f.type = "hello" /\ f.gen = 0
  BY DEF Says, Frame, FrameTypes
<1>2. /\ now = 0 /\ sub = NoSub /\ paused = FALSE /\ gen = 0 /\ seq = 0 /\ dropped = 0 /\ counted = 0
      /\ queue = <<f>> /\ sent = 1 /\ heard = <<>>
      /\ ping = [nonce |-> NoPing, deadline |-> 0, next |-> Heartbeat]
      /\ nextStats = StatsInterval /\ watched = [s \in {} |-> 0]
      /\ progress = [s \in Searches |-> 1] /\ code = "none" /\ over = FALSE /\ frames = 0
  BY DEF TapInit
<1> HIDE DEF f
<1>3. GoodBuffer(b, 0)
  <2>1. b \in BufferType /\ b.queue = <<>> /\ b.seq = 0 /\ b.dropped = 0
    BY DEF BufferType
  <2>2. heard \o <<>> = <<>>
    BY <1>2
  <2>3. Accounted(heard \o <<>>) = 0
    BY <2>2, AccountedNothing
  <2>4. Cardinality(SessionsIn(<<>>)) <= QueueLimit
    <3>1. SessionsIn(<<>>) = {}
      BY DEF SessionsIn
    <3> QED BY <3>1, FS_EmptySet, TapNumbers
  <2>5. GoodSaid(<<>>, 0)
    BY DEF GoodSaid, AcksFirst
  <2> HIDE DEF b
  <2> QED BY <2>1, <2>2, <2>3, <2>4, <2>5 DEF GoodBuffer
<1>4. Buffer = Keep(b, f)
  <2>1. Append(<<>>, f) = <<f>>
    OBVIOUS
  <2> DEFINE u == Append(<<>>, f)
  <2>2. Keep(b, f) = [b EXCEPT !.queue = u, !.sent = 1]
    BY DEF Keep
  <2> HIDE DEF u
  <2>3. Keep(b, f) = [queue |-> u, sent |-> 1, dropped |-> 0, seq |-> 0]
    BY <2>2, TwoChanged
  <2> QED BY <1>2, <2>1, <2>3 DEF Buffer, u
<1> HIDE DEF b
<1>5. heard \in Seq(Frame)
  BY <1>2
<1>6. GoodBuffer(Buffer, gen)
  BY <1>1, <1>2, <1>3, <1>4, <1>5, KeepIsGood
<1>7. queue \in Seq(Frame)
  BY <1>1, <1>2
<1>8. /\ now \in 0..MaxNow /\ {gen, seq, sent, dropped, counted, nextStats} \subseteq Nat
      /\ ping \in [nonce: Nat, deadline: Nat, next: Nat] /\ frames \in 0..MaxFrames
      /\ progress \in [Searches -> Nat]
  BY <1>2, TapNumbers DEF NoPing
<1>9. DOMAIN watched = {}
  BY <1>2
<1>10. TapTypeOK
  BY <1>2, <1>5, <1>7, <1>8, <1>9 DEF TapTypeOK
<1>11. IsFiniteSet(DOMAIN watched)
  BY <1>9, FS_EmptySet
<1>12. SubGoesOn
  BY <1>2 DEF SubGoesOn
<1> QED BY <1>6, <1>10, <1>11, <1>12 DEF TapInv

LEMMA TapGoesOn == TapInv /\ [TapNext]_tapVars => TapInv' /\ (RowsAreWhole \/ UNCHANGED tapVars)
<1> SUFFICES ASSUME TapInv, [TapNext]_tapVars PROVE TapInv' /\ (RowsAreWhole \/ UNCHANGED tapVars)
  OBVIOUS
<1>1. CASE \E offer \in Offers : Subscribe(offer)
  BY <1>1, SubscribeStep
<1>2. CASE Malformed
  BY <1>2, ComplainStep DEF Malformed
<1>3. ASSUME NEW nonce \in {ping.nonce, MaxNow + 1}, Answer(nonce) PROVE TapInv' /\ RowsAreWhole
  <2>1. Listening /\ (Pong(nonce) \/ Complain)
    BY <1>3 DEF Answer
  <2> QED BY <2>1, QuietSteps, ComplainStep
<1>4. ASSUME NEW s \in Searches, Watch(s) \/ WatchMissing(s) \/ Unwatch(s) \/ SearchMoves(s)
      PROVE  TapInv' /\ RowsAreWhole
  <2>1. WatchMissing(s) => Listening /\ Complain
    BY DEF WatchMissing
  <2> QED BY <1>4, <2>1, WatchStep, ComplainStep, QuietSteps
<1>5. CASE SubscribeForeign \/ (\E b \in BOOLEAN : SetPaused(b)) \/ End \/ Revoked \/ TapTick
  BY <1>5, QuietSteps
<1>6. CASE Produce
  BY <1>6, ProduceStep
<1>7. CASE Deliver
  BY <1>7, DeliverStep
<1>8. CASE UNCHANGED tapVars
  <2>1. TapInv'
    <3>1. TapTypeOK'
      BY <1>8 DEF tapVars, TapInv, TapTypeOK
    <3>2. UNCHANGED <<sub, shown, now>> /\ now <= now'
      BY <1>8, TapTypes DEF tapVars, TapInv
    <3>3. SubGoesOn'
      BY <3>1, <3>2, SubStays DEF TapInv
    <3>4. GoodBuffer(Buffer, gen)'
      BY <1>8, BufferStays DEF tapVars, TapInv
    <3>5. IsFiniteSet(DOMAIN watched')
      BY <1>8 DEF tapVars, TapInv
    <3> QED BY <3>1, <3>3, <3>4, <3>5 DEF TapInv
  <2> QED BY <1>8, <2>1
<1> QED BY <1>1, <1>2, <1>3, <1>4, <1>5, <1>6, <1>7, <1>8 DEF TapNext

LEMMA TapInvTells == TapInv => TapTypeOK /\ DropsAreTold /\ SessionsAreBounded /\ AckComesFirst
<1> SUFFICES ASSUME TapInv PROVE TapTypeOK /\ DropsAreTold /\ SessionsAreBounded /\ AckComesFirst
  OBVIOUS
<1>1. /\ seq = Accounted(heard \o queue) + dropped
      /\ Cardinality(SessionsIn(queue)) <= QueueLimit
      /\ GoodSaid(heard \o queue, gen)
  BY DEF TapInv, GoodBuffer, Buffer
<1>2. DropsAreTold
  BY <1>1 DEF DropsAreTold, Spoken
<1>3. SessionsAreBounded
  BY <1>1 DEF SessionsAreBounded, SessionsIn
<1>4. AckComesFirst
  BY <1>1 DEF AckComesFirst, Spoken, GoodSaid, AcksFirst
<1> QED BY <1>2, <1>3, <1>4 DEF TapInv

\* A client of the live tap hears every matching row once and in order, or
\* is told how many it will never get, and an ack comes before anything of
\* its subscription: LiveSocket of ws.py, however its tasks interleave.
THEOREM TapIsWhole == TapSpec => TapTellsAll
<1>1. TapSpec => []TapInv
  <2>1. TapInv /\ [TapNext]_tapVars => TapInv'
    BY TapGoesOn
  <2> QED BY <2>1, TapBegins, PTL DEF TapSpec
<1>2. TapInv /\ [TapNext]_tapVars
        => [Watching /\ nextStats' # nextStats => \A s \in DOMAIN sub.start : shown'[s] = DueSince(s)]_tapVars
  BY TapGoesOn DEF RowsAreWhole
<1>3. TapSpec => RowsOnce
  BY <1>1, <1>2, PTL DEF TapSpec, RowsOnce
<1>4. TapInv => TapTypeOK /\ DropsAreTold /\ SessionsAreBounded /\ AckComesFirst
  BY TapInvTells
<1>5. TapSpec => [](TapTypeOK /\ DropsAreTold /\ SessionsAreBounded /\ AckComesFirst)
  BY <1>1, <1>4, PTL
<1> QED BY <1>3, <1>5 DEF TapTellsAll

\* The same of the tap among the services (LiveSocket of ws.py).
THEOREM TapOfServices == ServicesSpec => TapTellsAll
<1>1. ServicesInit => TapInit
  BY DEF ServicesInit
<1>2. [ServicesNext]_servicesVars => [TapNext]_tapVars
  BY DEF ServicesNext, servicesVars, TicketsPart, TapPart, CasesPart, PagesPart, HuntsPart, ImportsPart, ExportsPart
<1>3. ServicesSpec => TapSpec
  BY <1>1, <1>2, PTL DEF ServicesSpec, TapSpec
<1> QED BY <1>3, TapIsWhole

=============================================================================
