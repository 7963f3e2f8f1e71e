------------------------ MODULE DetectionFeedProofs ------------------------
(***************************************************************************)
(* Theorems of DetectionStream and of DetectionFeed above it, for any      *)
(* number of families, streams, tabs and detections and every size of the  *)
(* ring, the queues and the wires.                                         *)
(*                                                                         *)
(* Of the server's streams: the ring has no hole, the hook for revocations *)
(* is there while a stream needs it, and a stream is whole at every await. *)
(*                                                                         *)
(* Of the feed of the web app: what it announces is in order and without a *)
(* hole it was not told of, and every step of it is one that FeedPromise   *)
(* allows.  The argument follows one connection.  A feed that knows of     *)
(* everything up to k reads a stream whose wire leads it from k to what    *)
(* the stream counts as sent (Leads), and behind that the queue goes on    *)
(* without a hole (Tidy).  A connection is on line when both hold          *)
(* (OnLine); whatever the server does keeps it there (the Carries lemmas), *)
(* and each frame the feed reads takes it to the next k (the IsHeard       *)
(* lemmas).                                                                *)
(***************************************************************************)
EXTENDS DetectionFeed, SequenceTheorems, WellFoundedInduction, TLAPS

-----------------------------------------------------------------------------
(* The ring.                                                               *)

\* The inductive invariant of the bus: a ring that was emptied starts again
\* from nothing, and the bus is never ahead of the capture.
RingInv ==
  /\ released \in Nat /\ cursor \in Nat /\ cursor <= released
  /\ primed \in BOOLEAN
  /\ ring \in Seq(Nat)
  /\ ~ primed => ring = << >> /\ cursor = 0
  /\ RingIsContiguous

\* The last n of a sequence are as many as there are, and end where it ends.
LEMMA LastOfFacts ==
  ASSUME NEW seq \in Seq(Nat), NEW n \in Nat \ {0}
  PROVE  /\ LastOf(seq, n) \in Seq(Nat)
         /\ Len(LastOf(seq, n)) = IF Len(seq) <= n THEN Len(seq) ELSE n
         /\ \A i \in 1..Len(LastOf(seq, n)) :
              LastOf(seq, n)[i] = seq[Len(seq) - Len(LastOf(seq, n)) + i]
<1>1. CASE Len(seq) <= n
      BY <1>1 DEF LastOf
<1>2. CASE ~ (Len(seq) <= n)
  <2>1. LastOf(seq, n) = SubSeq(seq, Len(seq) - n + 1, Len(seq))
        BY <1>2 DEF LastOf
  <2>2. Len(seq) \in Nat /\ Len(seq) - n + 1 \in 1..Len(seq)
        BY <1>2
  <2>3. /\ SubSeq(seq, Len(seq) - n + 1, Len(seq)) \in Seq(Nat)
        /\ Len(SubSeq(seq, Len(seq) - n + 1, Len(seq))) = n
        /\ \A i \in 1..n : SubSeq(seq, Len(seq) - n + 1, Len(seq))[i] = seq[Len(seq) - n + i]
        BY <2>2
  <2> QED BY <1>2, <2>1, <2>3
<1> QED BY <1>1, <1>2

\* A sequence that counts up from a number, and one that counts up to it.
GoesOnFrom(s, n) == \A i \in 1..Len(s) : s[i] = n + i

CountsTo(s, n) == GoesOnFrom(s, n - Len(s))

\* A sequence that counts up to c, and one that goes on from there.
LEMMA ConcatGoesOn ==
  ASSUME NEW r \in Seq(Nat), NEW m \in Seq(Nat), NEW c \in Nat, NEW d \in Nat,
         Len(m) = d, \A i \in 1..d : m[i] = c + i, CountsTo(r, c)
  PROVE  /\ r \o m \in Seq(Nat) /\ Len(r \o m) = Len(r) + d
         /\ GoesOnFrom(r \o m, c - Len(r))
<1>1. /\ r \o m \in Seq(Nat) /\ Len(r \o m) = Len(r) + d /\ Len(r) \in Nat
      /\ \A i \in 1..(Len(r) + d) : (r \o m)[i] = IF i <= Len(r) THEN r[i] ELSE m[i - Len(r)]
  <2>1. /\ r \o m \in Seq(Nat) /\ Len(r \o m) = Len(r) + Len(m)
        /\ \A i \in 1..(Len(r) + Len(m)) :
             (r \o m)[i] = IF i <= Len(r) THEN r[i] ELSE m[i - Len(r)]
        BY ConcatProperties
  <2>2. Len(r) \in Nat
        OBVIOUS
  <2> QED BY <2>1, <2>2
<1>2. ASSUME NEW i \in 1..(Len(r) + d) PROVE (r \o m)[i] = c - Len(r) + i
  <2>1. CASE i <= Len(r)
    <3>1. i \in 1..Len(r) /\ (r \o m)[i] = r[i]
          BY <1>1, <2>1
    <3> QED BY <3>1 DEF CountsTo, GoesOnFrom
  <2>2. CASE ~ (i <= Len(r))
    <3>1. (r \o m)[i] = m[i - Len(r)] /\ i - Len(r) \in 1..d
          BY <1>1, <2>2
    <3>2. m[i - Len(r)] = c + (i - Len(r))
          BY <3>1
    <3> QED BY <1>1, <3>1, <3>2
  <2> QED BY <2>1, <2>2
<1> QED BY <1>1, <1>2 DEF GoesOnFrom

\* A refresh up to any time that is not before the last one keeps the ring
\* whole, whether it is the first since a reset or not.
LEMMA RefreshKeepsRing ==
  ASSUME RingInv, NEW now \in Nat, cursor <= now, Refreshed(now), released' \in Nat, now <= released'
  PROVE  RingInv'
<1> DEFINE more == From(cursor, now)
           all  == ring \o more
<1>1. RingSize \in Nat \ {0}
      BY StreamConstants
<1>2. ring' = LastOf(all, RingSize) /\ cursor' = now /\ primed' = TRUE
      BY DEF Refreshed, RingInv
<1>3. Len(ring) \in Nat /\ Len(ring) = IF cursor < RingSize THEN cursor ELSE RingSize
      BY <1>1 DEF RingInv, RingIsContiguous
<1>4. /\ cursor \in Nat /\ now - cursor \in Nat /\ ring \in Seq(Nat)
      /\ more \in Seq(Nat) /\ Len(more) = now - cursor
      /\ \A i \in 1..(now - cursor) : more[i] = cursor + i
      BY DEF From, RingInv
<1> HIDE DEF more
<1>5. CountsTo(ring, cursor)
      BY <1>4 DEF RingInv, RingIsContiguous, CountsTo, GoesOnFrom
<1>6. /\ all \in Seq(Nat) /\ Len(all) = Len(ring) + (now - cursor)
      /\ \A i \in 1..Len(all) : all[i] = cursor - Len(ring) + i
  <2> DEFINE d == now - cursor
  <2>1. d \in Nat /\ Len(more) = d /\ \A i \in 1..d : more[i] = cursor + i
        BY <1>4
  <2> HIDE DEF d
  <2>2. ring \in Seq(Nat) /\ more \in Seq(Nat) /\ cursor \in Nat
        BY <1>4
  <2>3. /\ ring \o more \in Seq(Nat) /\ Len(ring \o more) = Len(ring) + d
        /\ GoesOnFrom(ring \o more, cursor - Len(ring))
        BY <1>5, <2>1, <2>2, ConcatGoesOn
  <2> QED BY <2>3 DEF d, GoesOnFrom
<1> HIDE DEF all
<1>7. ASSUME NEW i \in 1..Len(all) PROVE all[i] = now - Len(all) + i
  <2>1. Len(all) = Len(ring) + (now - cursor) /\ i \in Nat /\ Len(ring) \in Nat
        BY <1>3, <1>6
  <2>2. all[i] = cursor - Len(ring) + i
        BY <1>6
  <2> QED BY <1>4, <2>1, <2>2
<1>8. /\ ring' \in Seq(Nat)
      /\ Len(ring') = IF Len(all) <= RingSize THEN Len(all) ELSE RingSize
      /\ \A i \in 1..Len(ring') : ring'[i] = all[Len(all) - Len(ring') + i]
      BY <1>1, <1>2, <1>6, LastOfFacts
<1>9. Len(ring') = IF now < RingSize THEN now ELSE RingSize
      BY <1>1, <1>3, <1>4, <1>6, <1>8
<1>10. \A i \in DOMAIN ring' : ring'[i] = cursor' - Len(ring') + i
  <2>1. DOMAIN ring' = 1..Len(ring') /\ Len(ring') \in Nat /\ Len(ring') <= Len(all)
        BY <1>1, <1>6, <1>8
  <2>2. ASSUME NEW i \in 1..Len(ring') PROVE ring'[i] = now - Len(ring') + i
    <3> DEFINE j == Len(all) - Len(ring') + i
    <3>1. j \in 1..Len(all) /\ i \in Nat
          BY <1>6, <2>1
    <3>2. ring'[i] = all[j]
          BY <1>8
    <3>3. all[j] = now - Len(all) + j
          BY <1>7, <3>1
    <3> QED BY <1>6, <2>1, <3>1, <3>2, <3>3
  <2> QED BY <1>2, <2>1, <2>2
<1>11. RingIsContiguous'
       BY <1>2, <1>9, <1>10 DEF RingIsContiguous
<1> QED BY <1>2, <1>8, <1>11 DEF RingInv

\* An empty ring of a bus that has seen nothing has no hole.
LEMMA EmptyRing ==
  /\ << >> \in Seq(Nat)
  /\ (ring = << >> /\ cursor = 0) => RingIsContiguous
  /\ (ring' = << >> /\ cursor' = 0) => RingIsContiguous'
<1>1. 0 < RingSize
      BY StreamConstants
<1>2. << >> \in Seq(Nat) /\ Len(<< >>) = 0 /\ DOMAIN << >> = {}
      OBVIOUS
<1> QED BY <1>1, <1>2 DEF RingIsContiguous

LEMMA RingStep == RingInv /\ [StreamNext]_vars => RingInv'
<1> SUFFICES ASSUME RingInv, [StreamNext]_vars PROVE RingInv'
    OBVIOUS
<1>1. CASE Detect
      BY <1>1 DEF Detect, bus, RingInv, RingIsContiguous
<1>2. CASE Pump \/ Backfill
      BY <1>2, RefreshKeepsRing DEF Pump, Backfill, RingInv
<1>3. CASE \E s \in Streams : Begin(s)
  <2>1. PICK s \in Streams : Begin(s)
        BY <1>3
  <2>2. PICK now \in released..MaxSeq : released' = now /\ Refreshed(now)
        BY <2>1 DEF Begin
  <2>3. now \in Nat /\ cursor <= now
        BY <2>2, StreamConstants DEF RingInv
  <2> QED BY <2>2, <2>3, RefreshKeepsRing
<1>4. CASE \E s \in Streams : ResumeAt(s)
      BY <1>4, RefreshKeepsRing DEF ResumeAt, RingInv
<1>5. CASE UNCHANGED <<released, bus>>
      BY <1>5 DEF bus, RingInv, RingIsContiguous
<1>6. CASE ResetState
  <2>1. ring' = << >> /\ cursor' = 0 /\ primed' = FALSE /\ released' = released
        BY <1>6 DEF ResetState
  <2>2. RingIsContiguous' /\ ring' \in Seq(Nat)
        BY <2>1, EmptyRing
  <2>3. released' \in Nat /\ cursor' \in Nat /\ cursor' <= released'
        BY <2>1 DEF RingInv
  <2> QED BY <2>1, <2>2, <2>3 DEF RingInv
<1>7. ASSUME NEW s \in Streams,
             StartAtHead(s) \/ EndRevoked(s) \/ EndReauth(s) \/ EndRotate(s) \/ Deliver(s) \/ Wait(s)
               \/ DeliverLast(s) \/ Expire(s) \/ Client(s)
      PROVE  UNCHANGED <<released, bus>>
  <2>1. CASE EndRevoked(s) \/ EndReauth(s) \/ EndRotate(s)
        BY <2>1 DEF EndRevoked, EndReauth, EndRotate, Ends
  <2>2. CASE Deliver(s) \/ DeliverLast(s)
        BY <2>2 DEF Deliver, DeliverLast, Sends
  <2>3. CASE StartAtHead(s) \/ Wait(s) \/ Expire(s)
        BY <2>3 DEF StartAtHead, Wait, Expire
  <2>4. CASE Client(s)
        BY <2>4 DEF Client, Connect, TakeFrame, ClientGone
  <2> QED BY <1>7, <2>1, <2>2, <2>3, <2>4
<1>8. ASSUME NEW f \in Families, Revoke(f)
      PROVE  UNCHANGED <<released, bus>>
      BY <1>8 DEF Revoke
<1> QED BY <1>1, <1>2, <1>3, <1>4, <1>5, <1>6, <1>7, <1>8 DEF StreamNext, World, Serve, vars

\* The ring holds the newest detections without a hole, however often the bus
\* is refreshed, emptied and filled again (DetectionBus.refresh, reset).
THEOREM RingHasNoHole == StreamSpec => []RingIsContiguous
<1>1. ASSUME StreamInit PROVE RingInv
  <2>1. ring = << >> /\ cursor = 0 /\ primed = FALSE /\ released = 0
        BY <1>1 DEF StreamInit
  <2>2. RingIsContiguous /\ ring \in Seq(Nat)
        BY <2>1, EmptyRing
  <2>3. released \in Nat /\ cursor \in Nat /\ cursor <= released
        BY <2>1
  <2> QED BY <2>1, <2>2, <2>3 DEF RingInv
<1>2. RingInv => RingIsContiguous
      BY DEF RingInv
<1> QED BY <1>1, <1>2, RingStep, PTL DEF StreamSpec

-----------------------------------------------------------------------------
(* The hooks.                                                              *)

Fields == {"phase", "family", "resume", "listens", "expired", "head", "last", "queue", "lost",
           "wire"}

\* What the hooks depend on: a stream that is authorised or over listens no
\* more.
Shaped(r) ==
  \/ r = Unused
  \/ /\ DOMAIN r = Fields
     /\ r.phase \in Phases \ {"unused"} /\ r.family \in Families /\ r.listens \in BOOLEAN
     /\ r.phase \in {"authorized", "over"} => ~ r.listens

\* A request as the hooks see it.
Alike(a, b) ==
  \/ a = Unused /\ b = Unused
  \/ /\ DOMAIN a = Fields /\ DOMAIN b = Fields
     /\ a.phase # "unused" /\ b.phase # "unused"
     /\ a.family = b.family /\ (a.listens <=> b.listens)

HooksInv ==
  /\ signedIn \subseteq Families
  /\ hooks \in [Families -> {"absent", "armed", "spent"}]
  /\ DOMAIN stream = Streams
  /\ \A s \in Streams : Shaped(stream[s])
  /\ \A f \in signedIn : hooks[f] # "spent"
  /\ HooksCover

LEMMA PushedIsAlike ==
  ASSUME NEW r, Shaped(r), r # Unused, NEW a, NEW b
  PROVE  Shaped(Pushed(r, a, b)) /\ Pushed(r, a, b) # Unused /\ Alike(Pushed(r, a, b), r)
<1>1. CASE r.listens
  <2>1. PICK q, l : Pushed(r, a, b) = [r EXCEPT !.queue = q, !.lost = l]
        BY <1>1 DEF Pushed
  <2> QED BY <2>1 DEF Shaped, Alike, Fields, Unused
<1>2. CASE ~ r.listens
      BY <1>2 DEF Pushed, Shaped, Alike, Unused
<1> QED BY <1>1, <1>2

LEMMA FedIsAlike ==
  ASSUME HooksInv, NEW now
  PROVE  /\ DOMAIN Fed(now) = Streams
         /\ \A s \in Streams : Shaped(Fed(now)[s]) /\ Alike(Fed(now)[s], stream[s])
<1>1. DOMAIN Fed(now) = Streams
      BY DEF Fed
<1>2. ASSUME NEW s \in Streams PROVE Shaped(Fed(now)[s]) /\ Alike(Fed(now)[s], stream[s])
  <2>1. Shaped(stream[s])
        BY DEF HooksInv
  <2>2. CASE Used(s) /\ primed
    <3>1. Fed(now)[s] = Pushed(stream[s], cursor, now)
          BY <2>2 DEF Fed
    <3> QED BY <2>1, <2>2, <3>1, PushedIsAlike DEF Used
  <2>3. CASE ~ (Used(s) /\ primed)
    <3>1. Fed(now)[s] = stream[s]
          BY <2>3 DEF Fed
    <3> QED BY <2>1, <3>1 DEF Shaped, Alike, Unused
  <2> QED BY <2>2, <2>3
<1> QED BY <1>1, <1>2

\* Who listens decides: as long as that stays, so does the invariant.
LEMMA ListeningKept ==
  ASSUME HooksInv, DOMAIN stream' = Streams, \A s \in Streams : Shaped(stream'[s]),
         \A f \in Families : Listening(f)' = Listening(f), UNCHANGED <<hooks, signedIn>>
  PROVE  HooksInv'
  BY DEF HooksInv, HooksCover

LEMMA AlikeKept ==
  ASSUME HooksInv, DOMAIN stream' = Streams,
         \A s \in Streams : Shaped(stream'[s]) /\ Alike(stream'[s], stream[s]),
         UNCHANGED <<hooks, signedIn>>
  PROVE  HooksInv'
<1>1. ASSUME NEW f \in Families PROVE Listening(f)' = Listening(f)
  <2>1. ASSUME NEW s \in Streams PROVE s \in Listening(f)' <=> s \in Listening(f)
        BY DEF Listening, Used, Alike, Unused
  <2> QED BY <2>1 DEF Listening
<1> QED BY <1>1, ListeningKept

\* One request changes into r and the others stay.
LEMMA OneChanges ==
  ASSUME HooksInv, NEW s \in Streams, NEW r, Shaped(r), stream' = [stream EXCEPT ![s] = r]
  PROVE  /\ DOMAIN stream' = Streams
         /\ stream'[s] = r /\ \A t \in Streams \ {s} : stream'[t] = stream[t]
         /\ \A t \in Streams : Shaped(stream'[t])
  BY DEF HooksInv

LEMMA OneAlike ==
  ASSUME HooksInv, NEW s \in Streams, NEW r, Shaped(r), Alike(r, stream[s]),
         stream' = [stream EXCEPT ![s] = r], UNCHANGED <<hooks, signedIn>>
  PROVE  HooksInv'
<1>1. ASSUME NEW t \in Streams PROVE Shaped(stream'[t]) /\ Alike(stream'[t], stream[t])
      BY <1>1, OneChanges DEF HooksInv, Shaped, Alike, Unused
<1> QED BY <1>1, OneChanges, AlikeKept

\* A request that is out stops listening and forgets its hook.
LEMMA OneStops ==
  ASSUME HooksInv, NEW s \in Streams, Used(s), NEW r, Shaped(r), r = Unused \/ ~ r.listens,
         stream' = [stream EXCEPT ![s] = r], Forgets(s), signedIn' = signedIn
  PROVE  HooksInv'
<1>1. PICK g \in Families : g = stream[s].family
      BY DEF HooksInv, Shaped, Used
<1>2. ASSUME NEW f \in Families PROVE Listening(f)' = Listening(f) \ {s}
  <2>1. ASSUME NEW t \in Streams PROVE t \in Listening(f)' <=> t \in Listening(f) /\ t # s
        BY OneChanges DEF Listening, Used
  <2> QED BY <2>1 DEF Listening
<1>3. ASSUME NEW f \in Families, f # g PROVE Listening(f)' = Listening(f) /\ hooks'[f] = hooks[f]
  <2>1. s \notin Listening(f)
        BY <1>1, <1>3 DEF Listening
  <2> QED BY <1>1, <1>2, <1>3, <2>1 DEF Forgets, HooksInv
<1>4. hooks' \in [Families -> {"absent", "armed", "spent"}]
      BY DEF Forgets, HooksInv
<1>5. hooks'[g] = IF Listening(g) \subseteq {s} THEN "absent" ELSE hooks[g]
      BY <1>1 DEF Forgets, HooksInv
<1>6. ASSUME g \in signedIn
      PROVE  hooks'[g] # "spent" /\ (Listening(g)' # {} <=> hooks'[g] = "armed")
  <2>1. Listening(g) # {} <=> hooks[g] = "armed"
        BY <1>6 DEF HooksInv, HooksCover
  <2>2. CASE Listening(g) \subseteq {s}
        BY <1>1, <1>2, <1>5, <2>2
  <2>3. CASE ~ (Listening(g) \subseteq {s})
        BY <1>1, <1>2, <1>5, <1>6, <2>1, <2>3 DEF HooksInv
  <2> QED BY <2>2, <2>3
<1>7. ASSUME NEW f \in signedIn'
      PROVE  hooks'[f] # "spent" /\ (Listening(f)' # {} <=> hooks'[f] = "armed")
  <2>1. f \in signedIn /\ f \in Families
        BY DEF HooksInv
  <2>2. CASE f = g
        BY <1>6, <2>1, <2>2
  <2>3. CASE f # g
        BY <1>3, <2>1, <2>3 DEF HooksInv, HooksCover
  <2> QED BY <2>2, <2>3
<1>8. signedIn' \subseteq Families
      BY DEF HooksInv
<1> QED BY <1>4, <1>7, <1>8, OneChanges DEF HooksInv, HooksCover

LEMMA BeginKeeps == ASSUME HooksInv, NEW s \in Streams, Begin(s) PROVE HooksInv'
<1>1. PICK f \in Families : f = stream[s].family
      BY DEF HooksInv, Shaped, Begin, Used
<1>2. PICK now \in released..MaxSeq :
        LET opened == [Fed(now) EXCEPT ![s] = Opened(s, now)]
        IN  \/ hooks[f] = "absent" /\ f \in signedIn
               /\ hooks' = [hooks EXCEPT ![f] = "armed"] /\ stream' = opened
            \/ hooks[f] = "absent" /\ f \notin signedIn
               /\ hooks' = [hooks EXCEPT ![f] = "spent"] /\ stream' = Silenced(opened, f)
            \/ hooks[f] # "absent" /\ UNCHANGED hooks /\ stream' = opened
      BY <1>1 DEF Begin
<1> DEFINE opened == [Fed(now) EXCEPT ![s] = Opened(s, now)]
<1>3. /\ Shaped(Opened(s, now)) /\ Opened(s, now) # Unused
      /\ Opened(s, now).family = f /\ Opened(s, now).listens
  <2>1. DOMAIN stream[s] = Fields /\ stream[s].family = f /\ f \in Families
        BY <1>1 DEF HooksInv, Shaped, Begin, Used
  <2>2. /\ Shaped(Opening(s)) /\ Opening(s) # Unused
        /\ Opening(s).family = f /\ Opening(s).listens /\ DOMAIN Opening(s) = Fields
        BY <2>1 DEF Opening, Shaped, Fields, Unused, Phases
  <2>3. Shaped(Opened(s, now)) /\ Opened(s, now) # Unused /\ Alike(Opened(s, now), Opening(s))
        BY <2>2, PushedIsAlike DEF Opened
  <2> QED BY <2>2, <2>3 DEF Alike
<1>4. /\ DOMAIN opened = Streams /\ opened[s] = Opened(s, now)
      /\ \A t \in Streams \ {s} : opened[t] = Fed(now)[t]
      BY FedIsAlike
<1>5. /\ \A t \in Streams : Shaped(opened[t])
      /\ \A t \in Streams \ {s} : Alike(opened[t], stream[t])
      BY <1>3, <1>4, FedIsAlike
<1> HIDE DEF opened
<1>6. signedIn' = signedIn
      BY DEF Begin
<1>7. CASE stream' = opened
  <2>1. ASSUME NEW g \in Families
        PROVE  Listening(g)' = IF g = f THEN Listening(f) \cup {s} ELSE Listening(g)
    <3>1. s \notin Listening(g)
          BY DEF Begin, HooksInv, Shaped, Listening, Used
    <3>2. s \in Listening(g)' <=> g = f
          BY <1>3, <1>4, <1>7 DEF Listening, Used
    <3>3. ASSUME NEW t \in Streams \ {s} PROVE t \in Listening(g)' <=> t \in Listening(g)
          BY <1>5, <1>7 DEF Listening, Used, Alike, Unused
    <3> QED BY <3>1, <3>2, <3>3 DEF Listening
  <2>2. CASE hooks[f] = "absent" /\ f \in signedIn /\ hooks' = [hooks EXCEPT ![f] = "armed"]
    <3>1. ASSUME NEW g \in signedIn
          PROVE  hooks'[g] # "spent" /\ (Listening(g)' # {} <=> hooks'[g] = "armed")
          BY <2>1, <2>2 DEF HooksInv, HooksCover
    <3> QED BY <1>1, <1>4, <1>5, <1>6, <1>7, <2>2, <3>1 DEF HooksInv, HooksCover
  <2>3. CASE hooks[f] # "absent" /\ UNCHANGED hooks
    <3>1. ASSUME NEW g \in signedIn
          PROVE  hooks'[g] # "spent" /\ (Listening(g)' # {} <=> hooks'[g] = "armed")
          BY <2>1, <2>3 DEF HooksInv, HooksCover
    <3> QED BY <1>4, <1>5, <1>6, <1>7, <2>3, <3>1 DEF HooksInv, HooksCover
  <2>4. CASE f \notin signedIn /\ hooks' = [hooks EXCEPT ![f] = "spent"]
             /\ stream' = Silenced(opened, f)
    <3>1. Listening(f)' = {}
          BY <1>4, <1>5, <2>4 DEF Listening, Used, Silenced, Shaped, Unused, Fields
    <3> QED BY <1>3, <1>4, <1>7, <3>1 DEF Listening, Used
  <2> QED BY <1>2, <2>2, <2>3, <2>4 DEF opened
<1>8. CASE f \notin signedIn /\ hooks' = [hooks EXCEPT ![f] = "spent"]
           /\ stream' = Silenced(opened, f)
  <2>1. ASSUME NEW t \in Streams
        PROVE  /\ Shaped(stream'[t])
               /\ stream'[t] = opened[t] \/ (opened[t] # Unused /\ opened[t].family = f)
               /\ stream'[t] = opened[t] \/ (stream'[t].family = f)
        BY <1>5, <1>8 DEF Silenced, Shaped, Unused, Fields
  <2>2. DOMAIN stream' = Streams
        BY <1>8 DEF Silenced
  <2>3. ASSUME NEW g \in Families, g # f PROVE Listening(g)' = Listening(g)
    <3>1. s \notin Listening(g) /\ s \notin Listening(g)'
          BY <1>1, <1>3, <1>4, <2>1, <2>3 DEF Listening, Used
    <3>2. ASSUME NEW t \in Streams \ {s} PROVE t \in Listening(g)' <=> t \in Listening(g)
          BY <1>5, <2>1, <2>3 DEF Listening, Used, Alike, Unused
    <3> QED BY <3>1, <3>2 DEF Listening
  <2>4. ASSUME NEW g \in signedIn
        PROVE  hooks'[g] # "spent" /\ (Listening(g)' # {} <=> hooks'[g] = "armed")
        BY <1>8, <2>3 DEF HooksInv, HooksCover
  <2> QED BY <1>1, <1>6, <1>8, <2>1, <2>2, <2>4 DEF HooksInv, HooksCover
<1> QED BY <1>2, <1>7, <1>8 DEF opened

LEMMA RevokeKeeps == ASSUME HooksInv, NEW f \in Families, Revoke(f) PROVE HooksInv'
<1>1. f \in signedIn /\ signedIn' = signedIn \ {f}
      BY DEF Revoke
<1>2. CASE hooks[f] = "armed"
  <2>1. stream' = Silenced(stream, f) /\ hooks' = [hooks EXCEPT ![f] = "absent"]
        BY <1>2 DEF Revoke
  <2>2. \A t \in Streams : Shaped(stream'[t])
        BY <2>1 DEF HooksInv, Silenced, Shaped, Unused, Fields
  <2>3. ASSUME NEW g \in Families, g # f PROVE Listening(g)' = Listening(g)
    <3>1. ASSUME NEW t \in Streams PROVE t \in Listening(g)' <=> t \in Listening(g)
          BY <2>1, <2>3 DEF Listening, Used, Silenced, HooksInv, Shaped, Unused, Fields
    <3> QED BY <3>1 DEF Listening
  <2>4. DOMAIN stream' = Streams
        BY <2>1 DEF Silenced
  <2> QED BY <1>1, <2>1, <2>2, <2>3, <2>4 DEF HooksInv, HooksCover
<1>3. CASE hooks[f] # "armed"
  <2>1. UNCHANGED <<stream, hooks>>
        BY <1>3 DEF Revoke
  <2>2. ASSUME NEW g \in Families PROVE Listening(g)' = Listening(g)
        BY <2>1 DEF Listening, Used
  <2> QED BY <1>1, <2>1, <2>2 DEF HooksInv, HooksCover
<1> QED BY <1>2, <1>3

LEMMA ConnectKeeps ==
  ASSUME HooksInv, NEW s \in Streams, NEW f \in Families, NEW resume, Connect(s, f, resume)
  PROVE  HooksInv'
<1> DEFINE r == [phase |-> "authorized", family |-> f, resume |-> resume, listens |-> FALSE,
                 expired |-> FALSE, head |-> 0, last |-> 0, queue |-> << >>, lost |-> {},
                 wire |-> << >>]
<1>1. /\ stream' = [stream EXCEPT ![s] = r]
      /\ DOMAIN r = Fields /\ r.phase = "authorized" /\ r.family = f /\ r.listens = FALSE
      BY DEF Connect, Fields
<1> HIDE DEF r
<1>2. Shaped(r)
      BY <1>1 DEF Shaped, Phases
<1>3. ASSUME NEW g \in Families PROVE Listening(g)' = Listening(g)
  <2>1. s \notin Listening(g) /\ s \notin Listening(g)'
        BY <1>1, <1>2, OneChanges DEF Connect, Listening, Used
  <2>2. ASSUME NEW t \in Streams \ {s} PROVE t \in Listening(g)' <=> t \in Listening(g)
        BY <1>1, <1>2, OneChanges DEF Listening, Used
  <2> QED BY <2>1, <2>2 DEF Listening
<1> QED BY <1>1, <1>2, <1>3, OneChanges, ListeningKept DEF Connect

LEMMA EndsKeeps ==
  ASSUME HooksInv, NEW s \in Streams, InLoop(s), NEW frames, Ends(s, frames)
  PROVE  HooksInv'
<1> DEFINE r == [stream[s] EXCEPT !.phase = "over", !.listens = FALSE, !.expired = FALSE,
                                  !.queue = << >>, !.wire = @ \o frames]
<1>1. stream' = [stream EXCEPT ![s] = r]
      BY DEF Ends, HooksInv
<1>2. Shaped(r) /\ ~ r.listens
      BY DEF HooksInv, InLoop, Used, Shaped, Fields, Phases
<1> HIDE DEF r
<1> QED BY <1>1, <1>2, OneStops DEF Ends, InLoop

LEMMA GoneKeeps == ASSUME HooksInv, NEW s \in Streams, ClientGone(s) PROVE HooksInv'
<1>1. Shaped(Unused) /\ stream' = [stream EXCEPT ![s] = Unused] /\ signedIn' = signedIn /\ Used(s)
      BY DEF ClientGone, Shaped
<1>2. CASE stream[s].phase \in {"authorized", "over"}
  <2>1. ASSUME NEW g \in Families PROVE Listening(g)' = Listening(g)
    <3>1. s \notin Listening(g) /\ s \notin Listening(g)'
          BY <1>1, <1>2, OneChanges DEF Listening, Used, HooksInv, Shaped
    <3>2. ASSUME NEW t \in Streams \ {s} PROVE t \in Listening(g)' <=> t \in Listening(g)
          BY <1>1, OneChanges DEF Listening, Used
    <3> QED BY <3>1, <3>2 DEF Listening
  <2>2. hooks' = hooks
        BY <1>2 DEF ClientGone
  <2> QED BY <1>1, <2>1, <2>2, OneChanges, ListeningKept
<1>3. CASE stream[s].phase \notin {"authorized", "over"}
      BY <1>1, <1>3, OneStops DEF ClientGone
<1> QED BY <1>2, <1>3

\* A request that only reads, sends, waits or grows old listens as before.
LEMMA QuietKeeps ==
  ASSUME HooksInv, NEW s \in Streams,
         \/ StartAtHead(s) \/ Deliver(s) \/ DeliverLast(s) \/ Wait(s) \/ Expire(s) \/ TakeFrame(s)
  PROVE  HooksInv'
<1>1. Used(s) /\ UNCHANGED <<hooks, signedIn>>
      BY DEF StartAtHead, Deliver, DeliverLast, Wait, Expire, TakeFrame, GoesOn, InLoop, Sends
<1>2. DOMAIN stream[s] = Fields /\ Shaped(stream[s]) /\ stream[s] # Unused /\ s \in DOMAIN stream
      BY <1>1 DEF HooksInv, Shaped, Used
<1>3. CASE StartAtHead(s)
  <2> DEFINE r == [stream[s] EXCEPT !.phase = "sending", !.last = stream[s].head, !.head = 0,
                                    !.resume = 0]
  <2>1. stream' = [stream EXCEPT ![s] = r]
        BY <1>2, <1>3 DEF StartAtHead, Fields
  <2>2. Shaped(r) /\ Alike(r, stream[s])
        BY <1>2, <1>3 DEF StartAtHead, Shaped, Alike, Fields, Phases
  <2> HIDE DEF r
  <2> QED BY <1>1, <2>1, <2>2, OneAlike
<1>4. CASE Deliver(s) \/ DeliverLast(s)
  <2>1. PICK fresh : Sends(s, fresh)
        BY <1>4 DEF Deliver, DeliverLast
  <2> DEFINE r == [stream[s] EXCEPT !.phase = "sending", !.last = Head(fresh), !.queue = Tail(fresh),
                     !.wire = Append(@, [kind |-> "detection", seq |-> Head(fresh)])]
  <2>2. stream' = [stream EXCEPT ![s] = r]
        BY <1>2, <2>1 DEF Sends, Fields
  <2>3. Shaped(r) /\ Alike(r, stream[s])
        BY <1>2, <1>4 DEF Deliver, DeliverLast, GoesOn, InLoop, Shaped, Alike, Fields, Phases
  <2> HIDE DEF r
  <2> QED BY <1>1, <2>2, <2>3, OneAlike
<1>5. CASE Wait(s)
  <2> DEFINE r == [stream[s] EXCEPT !.phase = "waiting", !.queue = << >>]
  <2>1. stream' = [stream EXCEPT ![s] = r]
        BY <1>2, <1>5 DEF Wait, Fields
  <2>2. Shaped(r) /\ Alike(r, stream[s])
        BY <1>2, <1>5 DEF Wait, GoesOn, InLoop, Shaped, Alike, Fields, Phases
  <2> HIDE DEF r
  <2> QED BY <1>1, <2>1, <2>2, OneAlike
<1>6. CASE Expire(s)
  <2> DEFINE r == [stream[s] EXCEPT !.expired = TRUE]
  <2>1. stream' = [stream EXCEPT ![s] = r]
        BY <1>2, <1>6 DEF Expire, Fields
  <2>2. Shaped(r) /\ Alike(r, stream[s])
        BY <1>2 DEF Shaped, Alike, Fields
  <2> HIDE DEF r
  <2> QED BY <1>1, <2>1, <2>2, OneAlike
<1>7. CASE TakeFrame(s)
  <2> DEFINE r == [stream[s] EXCEPT !.wire = Tail(@)]
  <2>1. stream' = [stream EXCEPT ![s] = r]
        BY <1>2, <1>7 DEF TakeFrame, Fields
  <2>2. Shaped(r) /\ Alike(r, stream[s])
        BY <1>2 DEF Shaped, Alike, Fields
  <2> HIDE DEF r
  <2> QED BY <1>1, <2>1, <2>2, OneAlike
<1> QED BY <1>3, <1>4, <1>5, <1>6, <1>7

LEMMA ResumeKeeps == ASSUME HooksInv, NEW s \in Streams, ResumeAt(s) PROVE HooksInv'
<1>1. PICK l, w : stream' = [Fed(released) EXCEPT ![s].phase = "sending", ![s].head = 0,
                               ![s].resume = 0, ![s].last = l, ![s].wire = @ \o w]
      BY DEF ResumeAt
<1> DEFINE old == Fed(released)[s]
           r   == [old EXCEPT !.phase = "sending", !.head = 0, !.resume = 0, !.last = l,
                              !.wire = @ \o w]
<1>2. DOMAIN Fed(released) = Streams /\ Shaped(old) /\ Alike(old, stream[s])
      BY FedIsAlike
<1>3. DOMAIN old = Fields
      BY <1>2 DEF Alike, ResumeAt, Used
<1>4. stream' = [Fed(released) EXCEPT ![s] = r]
      BY <1>1, <1>2, <1>3 DEF Fields
<1>5. Shaped(r) /\ Alike(r, stream[s])
      BY <1>2, <1>3 DEF Shaped, Alike, Fields, Phases, Unused
<1> HIDE DEF r, old
<1>6. ASSUME NEW t \in Streams PROVE Shaped(stream'[t]) /\ Alike(stream'[t], stream[t])
      BY <1>2, <1>4, <1>5, FedIsAlike
<1> QED BY <1>2, <1>4, <1>6, AlikeKept DEF ResumeAt

LEMMA HooksStep == HooksInv /\ [StreamNext]_vars => HooksInv'
<1> SUFFICES ASSUME HooksInv, [StreamNext]_vars PROVE HooksInv'
    OBVIOUS
<1>1. CASE Pump \/ Backfill
  <2>1. stream' = Fed(released) /\ UNCHANGED <<hooks, signedIn>>
        BY <1>1 DEF Pump, Backfill
  <2> QED BY <2>1, FedIsAlike, AlikeKept
<1>2. CASE Detect \/ UNCHANGED vars
  <2>1. UNCHANGED <<hooks, signedIn, stream>>
        BY <1>2 DEF Detect, vars
  <2>2. ASSUME NEW f \in Families PROVE Listening(f)' = Listening(f)
        BY <2>1 DEF Listening, Used
  <2> QED BY <2>1, <2>2, ListeningKept DEF HooksInv
<1>3. CASE ResetState
  <2>1. signedIn' = {} /\ hooks' = [f \in Families |-> "absent"]
        BY <1>3 DEF ResetState
  <2>2. DOMAIN stream' = Streams /\ \A s \in Streams : Shaped(stream'[s])
        BY <1>3 DEF ResetState, HooksInv, Shaped, Used, Unused, Fields
  <2> QED BY <2>1, <2>2 DEF HooksInv, HooksCover
<1>4. CASE \E f \in Families : Revoke(f)
      BY <1>4, RevokeKeeps
<1>5. ASSUME NEW s \in Streams, Serve(s) \/ EndRotate(s) \/ Expire(s) \/ Client(s)
      PROVE  HooksInv'
  <2>1. CASE Begin(s)
        BY <2>1, BeginKeeps
  <2>2. CASE ResumeAt(s)
        BY <2>2, ResumeKeeps
  <2>3. CASE EndRevoked(s) \/ EndReauth(s) \/ EndRotate(s)
        BY <2>3, EndsKeeps DEF EndRevoked, EndReauth, EndRotate, GoesOn
  <2>4. CASE StartAtHead(s) \/ Deliver(s) \/ DeliverLast(s) \/ Wait(s) \/ Expire(s) \/ TakeFrame(s)
        BY <2>4, QuietKeeps
  <2>5. CASE ClientGone(s)
        BY <2>5, GoneKeeps
  <2>6. CASE \E f \in Families, resume \in (0..cursor) \cup {None} : Connect(s, f, resume)
        BY <2>6, ConnectKeeps
  <2> QED BY <1>5, <2>1, <2>2, <2>3, <2>4, <2>5, <2>6 DEF Serve, Client
<1> QED BY <1>1, <1>2, <1>3, <1>4, <1>5 DEF StreamNext, World

\* While a family is signed in, its hook is registered exactly as long as one
\* of its streams listens (DetectionBus.subscribe, _forget_family), so that a
\* revocation reaches them all.
THEOREM HooksAreThere == StreamSpec => []HooksCover
<1>1. StreamInit => HooksInv
      BY DEF StreamInit, HooksInv, HooksCover, Listening, Used, Shaped, Unused
<1>2. HooksInv => HooksCover
      BY DEF HooksInv
<1> QED BY <1>1, <1>2, HooksStep, PTL DEF StreamSpec

-----------------------------------------------------------------------------
(* What a sequence holds of a set.                                         *)

\* What holds at 0 and goes over from each number to the next, up to a last
\* one, holds up to there.
LEMMA Counting ==
  ASSUME NEW m \in Nat, NEW S, 0 \in S, \A n \in 0..m - 1 : n \in S => n + 1 \in S
  PROVE  0..m \subseteq S
<1> SUFFICES ASSUME ~ (0..m \subseteq S) PROVE FALSE
  OBVIOUS
<1> DEFINE T == (0..m) \ S
           R == {ss \in Nat \X Nat : ss[1] < ss[2]}
<1>1. IsWellFoundedOn(R, Nat)
  BY NatLessThanWellFounded DEF OpToRel
<1>2. T \subseteq Nat /\ T # {}
  OBVIOUS
<1>3. PICK x \in T : \A y \in T : ~ (<<y, x>> \in R)
  <2> HIDE DEF R, T
  <2> QED BY <1>1, <1>2, WFMin
<1>4. x \in 1..m /\ x \notin S
  BY <1>3
<1>5. x - 1 \in 0..m - 1 /\ x - 1 < x /\ (x - 1) + 1 = x /\ x - 1 \in Nat /\ x \in Nat
  BY <1>4
<1>6. x - 1 \in T
  BY <1>4, <1>5
<1>7. <<x - 1, x>> \in R
  BY <1>5
<1> QED BY <1>3, <1>6, <1>7

\* The recursion of Kept is well defined.
LEMMA KeptIsDefined ==
  ASSUME NEW seq, Len(seq) \in Nat, NEW S
  PROVE  \A n \in 0..Len(seq) :
           Kept(seq, S)[n] = IF n = 0 THEN << >>
                             ELSE IF seq[n] \in S THEN Append(Kept(seq, S)[n - 1], seq[n])
                             ELSE Kept(seq, S)[n - 1]
<1> DEFINE Step(g, n) == IF n = 0 THEN << >>
                         ELSE IF seq[n] \in S THEN Append(g[n - 1], seq[n]) ELSE g[n - 1]
           L == Len(seq)
           Good == {m \in 0..L : \E g : g = [n \in 0..m |-> Step(g, n)]}
<1>1. L \in Nat
  OBVIOUS
<1>2. 0 \in Good
  <2> DEFINE g == [n \in 0..0 |-> << >>]
  <2>1. g = [n \in 0..0 |-> Step(g, n)]
    OBVIOUS
  <2>2. 0 \in 0..L
    BY <1>1
  <2> HIDE DEF g, Step, L
  <2> QED BY <2>1, <2>2
<1>3. ASSUME NEW m \in 0..L - 1, m \in Good PROVE m + 1 \in Good
  <2>1. PICK g : g = [n \in 0..m |-> Step(g, n)]
    BY <1>3
  <2> DEFINE h == [n \in 0..m + 1 |-> IF n = m + 1 THEN Step(g, m + 1) ELSE g[n]]
  <2>2. \A n \in 0..m + 1 : h[n] = Step(h, n)
    <3> TAKE n \in 0..m + 1
    <3>1. CASE n = m + 1
      <4>1. h[n] = Step(g, m + 1)
        BY <3>1
      <4>2. n # 0 /\ n - 1 \in 0..m + 1 /\ n - 1 # m + 1 /\ m + 1 # 0 /\ m + 1 - 1 = n - 1
        BY <3>1, <1>1
      <4>3. h[n - 1] = g[n - 1]
        BY <4>2
      <4> HIDE DEF h
      <4> QED BY <4>1, <4>2, <4>3, <3>1
    <3>2. CASE n # m + 1
      <4>1. n \in 0..m
        BY <3>2, <1>1
      <4>2. h[n] = g[n]
        BY <3>2
      <4>3. g[n] = Step(g, n)
        <5> HIDE DEF Step
        <5> QED BY <2>1, <4>1
      <4>4. CASE n = 0
        <5> HIDE DEF h
        <5> QED BY <4>2, <4>3, <4>4
      <4>5. CASE n # 0
        <5>1. n - 1 \in 0..m + 1 /\ n - 1 # m + 1
          BY <4>1, <4>5, <1>1
        <5>2. h[n - 1] = g[n - 1]
          BY <5>1
        <5> HIDE DEF h
        <5> QED BY <4>2, <4>3, <4>5, <5>2
      <4> QED BY <4>4, <4>5
    <3> QED BY <3>1, <3>2
  <2>3. h = [n \in 0..m + 1 |-> h[n]]
    OBVIOUS
  <2>4. h = [n \in 0..m + 1 |-> Step(h, n)]
    <3> HIDE DEF h, Step
    <3> QED BY <2>2, <2>3
  <2>5. m + 1 \in 0..L
    BY <1>1
  <2> HIDE DEF h, Step
  <2> QED BY <2>4, <2>5
<1>4. L \in Good
  <2>1. 0..L \subseteq Good
    <3> HIDE DEF Good, L
    <3> QED BY <1>1, <1>2, <1>3, Counting
  <2> HIDE DEF Good, L
  <2> QED BY <1>1, <2>1
<1>5. \E g : g = [n \in 0..L |-> Step(g, n)]
  BY <1>4
<1>6. Kept(seq, S) = CHOOSE g : g = [n \in 0..L |-> Step(g, n)]
  BY DEF Kept
<1>7. Kept(seq, S) = [n \in 0..L |-> Step(Kept(seq, S), n)]
  <2> HIDE DEF Step, L
  <2> QED BY <1>5, <1>6
<1>8. \A n \in 0..L : Kept(seq, S)[n] = Step(Kept(seq, S), n)
  <2> HIDE DEF Step, L
  <2> QED BY <1>7
<1> QED BY <1>8

\* What a sequence holds of a set: the members of the set it has, in order.
LEMMA ThoseFacts ==
  ASSUME NEW T, NEW seq \in Seq(T), NEW S
  PROVE  /\ Those(seq, S) \in Seq(T)
         /\ Range(Those(seq, S)) = Range(seq) \cap S
         /\ Len(Those(seq, S)) <= Len(seq)
<1> DEFINE L == Len(seq)
           K == Kept(seq, S)
           Of(n) == {seq[i] : i \in 1..n} \cap S
           Good == {n \in 0..L : K[n] \in Seq(T) /\ Range(K[n]) = Of(n) /\ Len(K[n]) <= n}
<1>1. L \in Nat /\ DOMAIN seq = 1..L
  OBVIOUS
<1>2. ASSUME NEW n \in 0..L
      PROVE  K[n] = IF n = 0 THEN << >> ELSE IF seq[n] \in S THEN Append(K[n - 1], seq[n]) ELSE K[n - 1]
  BY <1>1, KeptIsDefined
<1> HIDE DEF K
<1>3. 0 \in Good
  <2>1. K[0] = << >> /\ 0 \in 0..L
    BY <1>1, <1>2
  <2>2. Range(<< >>) = {} /\ Of(0) = {} /\ << >> \in Seq(T) /\ Len(<< >>) <= 0
    BY DEF Range
  <2> HIDE DEF Of, L
  <2> QED BY <2>1, <2>2
<1>4. ASSUME NEW n \in 0..L - 1, n \in Good PROVE n + 1 \in Good
  <2>1. K[n] \in Seq(T) /\ Range(K[n]) = Of(n) /\ Len(K[n]) <= n
    BY <1>4
  <2>2. n + 1 \in 0..L /\ n + 1 # 0 /\ (n + 1) - 1 = n /\ n + 1 \in 1..L /\ n \in Nat
    BY <1>1
  <2>3. K[n + 1] = IF seq[n + 1] \in S THEN Append(K[n], seq[n + 1]) ELSE K[n]
    BY <1>2, <2>2
  <2>4. seq[n + 1] \in T
    BY <1>1, <2>2
  <2>5. Of(n + 1) = Of(n) \cup ({seq[n + 1]} \cap S)
    <3>1. 1..n + 1 = 1..n \cup {n + 1}
      BY <2>2
    <3> QED BY <3>1
  <2> HIDE DEF Of
  <2>6. CASE seq[n + 1] \in S
    <3>1. /\ K[n + 1] = Append(K[n], seq[n + 1]) /\ K[n + 1] \in Seq(T)
          /\ Len(K[n + 1]) = Len(K[n]) + 1 /\ Len(K[n]) \in Nat
      BY <2>1, <2>3, <2>4, <2>6
    <3>3. Len(K[n + 1]) <= n + 1
      BY <2>1, <2>2, <3>1
    <3>2. Range(K[n + 1]) = Range(K[n]) \cup {seq[n + 1]}
      <4> DEFINE q == K[n]
                 e == seq[n + 1]
      <4>1. q \in Seq(T) /\ e \in T
        BY <2>1, <2>4
      <4> HIDE DEF q, e
      <4>2. /\ Len(q) \in Nat /\ DOMAIN q = 1..Len(q) /\ DOMAIN Append(q, e) = 1..Len(q) + 1
            /\ \A i \in 1..Len(q) : Append(q, e)[i] = q[i]
            /\ Append(q, e)[Len(q) + 1] = e
        BY <4>1
      <4>3. 1..Len(q) + 1 = 1..Len(q) \cup {Len(q) + 1}
        BY <4>2
      <4>4. Range(Append(q, e)) = Range(q) \cup {e}
        BY <4>2, <4>3 DEF Range
      <4> QED BY <3>1, <4>4 DEF q, e
    <3> QED BY <2>1, <2>2, <2>5, <2>6, <3>1, <3>2, <3>3
  <2>7. CASE seq[n + 1] \notin S
    <3>1. K[n + 1] = K[n] /\ Len(K[n]) \in Nat
      BY <2>1, <2>3, <2>7
    <3>2. Len(K[n + 1]) <= n + 1
      BY <2>1, <2>2, <3>1
    <3> QED BY <2>1, <2>2, <2>5, <2>7, <3>1, <3>2
  <2> QED BY <2>6, <2>7
<1>5. L \in Good
  <2>1. 0..L \subseteq Good
    <3> HIDE DEF Good, L
    <3> QED BY <1>1, <1>3, <1>4, Counting
  <2> HIDE DEF Good, L
  <2> QED BY <1>1, <2>1
<1>6. Of(L) = Range(seq) \cap S
  BY <1>1 DEF Range
<1>7. Those(seq, S) = K[L]
  BY DEF Those, K
<1> QED BY <1>5, <1>6, <1>7

\* A sequence of numbers that only go up.
GoesUp(seq) == \A i, j \in 1..Len(seq) : i < j => seq[i] < seq[j]

\* Leaving some out keeps the order of the rest.
LEMMA ThoseGoUp ==
  ASSUME NEW seq \in Seq(Nat), NEW S, GoesUp(seq)
  PROVE  GoesUp(Those(seq, S))
<1> DEFINE L == Len(seq)
           K == Kept(seq, S)
           Good == {n \in 0..L : /\ K[n] \in Seq(Nat) /\ GoesUp(K[n])
                                 /\ \A i \in 1..Len(K[n]), j \in n + 1..L : K[n][i] < seq[j]}
<1>1. L \in Nat /\ \A i \in 1..L : seq[i] \in Nat
  OBVIOUS
<1>2. ASSUME NEW n \in 0..L
      PROVE  K[n] = IF n = 0 THEN << >> ELSE IF seq[n] \in S THEN Append(K[n - 1], seq[n]) ELSE K[n - 1]
  BY <1>1, KeptIsDefined
<1>3. \A i, j \in 1..L : i < j => seq[i] < seq[j]
  BY DEF GoesUp
<1> HIDE DEF K, L
<1>4. 0 \in Good
  <2>1. K[0] = << >> /\ 0 \in 0..L
    BY <1>1, <1>2
  <2>2. << >> \in Seq(Nat) /\ Len(<< >>) = 0 /\ 1..0 = {}
    OBVIOUS
  <2> QED BY <2>1, <2>2 DEF GoesUp
<1>5. ASSUME NEW n \in 0..L - 1, n \in Good PROVE n + 1 \in Good
  <2> DEFINE q == K[n]
             e == seq[n + 1]
  <2>1. q \in Seq(Nat) /\ GoesUp(q) /\ \A i \in 1..Len(q), j \in n + 1..L : q[i] < seq[j]
    BY <1>5
  <2>2. n + 1 \in 0..L /\ n + 1 # 0 /\ (n + 1) - 1 = n /\ n + 1 \in 1..L /\ n \in Nat
    BY <1>1
  <2>3. K[n + 1] = IF e \in S THEN Append(q, e) ELSE q
    BY <1>2, <2>2
  <2>4. e \in Nat /\ \A j \in n + 2..L : e < seq[j]
    <3>1. ASSUME NEW j \in n + 2..L PROVE j \in 1..L /\ n + 1 < j
      BY <2>2, <1>1
    <3> QED BY <1>1, <1>3, <2>2, <3>1
  <2>5. \A i \in 1..Len(q) : q[i] < e
    <3>1. n + 1 \in n + 1..L
      BY <2>2, <1>1
    <3> QED BY <2>1, <3>1
  <2>6. \A j \in n + 2..L : j \in n + 1..L
    BY <2>2, <1>1
  <2>7. n + 1 + 1 = n + 2
    BY <2>2
  <2> HIDE DEF q, e
  <2>8. CASE e \in S
    <3>1. /\ Append(q, e) \in Seq(Nat) /\ Len(q) \in Nat /\ Len(Append(q, e)) = Len(q) + 1
          /\ \A i \in 1..Len(q) + 1 : Append(q, e)[i] = IF i = Len(q) + 1 THEN e ELSE q[i]
      BY <2>1, <2>4
    <3>2. GoesUp(Append(q, e))
      <4>1. ASSUME NEW i \in 1..Len(q) + 1, NEW j \in 1..Len(q) + 1, i < j
            PROVE  Append(q, e)[i] < Append(q, e)[j]
        <5>1. i \in 1..Len(q) /\ Append(q, e)[i] = q[i]
          BY <3>1, <4>1
        <5>2. CASE j = Len(q) + 1
          BY <2>5, <3>1, <5>1, <5>2
        <5>3. CASE j # Len(q) + 1
          <6>1. j \in 1..Len(q) /\ Append(q, e)[j] = q[j]
            BY <3>1, <5>3
          <6> QED BY <2>1, <4>1, <5>1, <6>1 DEF GoesUp
        <5> QED BY <5>2, <5>3
      <4> QED BY <3>1, <4>1 DEF GoesUp
    <3>3. \A i \in 1..Len(Append(q, e)), j \in n + 2..L : Append(q, e)[i] < seq[j]
      <4> TAKE i \in 1..Len(Append(q, e)), j \in n + 2..L
      <4>1. CASE i = Len(q) + 1
        BY <2>4, <3>1, <4>1
      <4>2. CASE i # Len(q) + 1
        <5>1. i \in 1..Len(q) /\ Append(q, e)[i] = q[i]
          BY <3>1, <4>2
        <5> QED BY <2>1, <2>6, <5>1
      <4> QED BY <4>1, <4>2
    <3> QED BY <2>2, <2>3, <2>7, <2>8, <3>1, <3>2, <3>3
  <2>9. CASE e \notin S
    BY <2>1, <2>2, <2>3, <2>6, <2>7, <2>9
  <2> QED BY <2>8, <2>9
<1>6. L \in Good
  <2>1. 0..L \subseteq Good
    <3> HIDE DEF Good
    <3> QED BY <1>1, <1>4, <1>5, Counting
  <2> HIDE DEF Good
  <2> QED BY <1>1, <2>1
<1>7. Those(seq, S) = K[L]
  BY DEF Those, K, L
<1> QED BY <1>6, <1>7

-----------------------------------------------------------------------------
(* Frames in order.                                                        *)

IsDetection(f) == f.kind = "detection"

\* What is on its way is in order and no newer than what was counted as sent.
Ordered(wire, last) ==
  \A i, j \in DOMAIN wire : IsDetection(wire[i]) /\ IsDetection(wire[j]) =>
       /\ i < j => wire[i].seq < wire[j].seq
       /\ wire[i].seq <= last

\* A detection is the only frame of its kind.
LEMMA FramesAreTold ==
  /\ \A f \in Frame : IsDetection(f) => f.seq \in Seqs
  /\ \A d \in Seqs : LET f == [kind |-> "detection", seq |-> d]
                     IN  f \in Frame /\ IsDetection(f) /\ f.seq = d
  /\ \A h \in 0..MaxSeq : LET f == [kind |-> "open", head |-> h] IN f \in Frame /\ ~ IsDetection(f)
  /\ \A h \in 0..MaxSeq : LET f == [kind |-> "reset", last |-> h] IN f \in Frame /\ ~ IsDetection(f)
  /\ LET f == [kind |-> "reauth"] IN f \in Frame /\ ~ IsDetection(f)
<1>1. ASSUME NEW f \in Frame, IsDetection(f) PROVE f.seq \in Seqs
  <2>1. f.kind = "detection"
    BY <1>1 DEF IsDetection
  <2>2. CASE f \in [kind: {"detection"}, seq: Seqs]
    BY <2>2
  <2>3. CASE f \in [kind: {"open"}, head: 0..MaxSeq]
    BY <2>1, <2>3
  <2>4. CASE f \in [kind: {"reset"}, last: 0..MaxSeq]
    BY <2>1, <2>4
  <2>5. CASE f \in [kind: {"reauth"}]
    BY <2>1, <2>5
  <2> QED BY <2>2, <2>3, <2>4, <2>5 DEF Frame
<1>2. ASSUME NEW d \in Seqs
      PROVE  LET f == [kind |-> "detection", seq |-> d] IN f \in Frame /\ IsDetection(f) /\ f.seq = d
  BY DEF Frame, IsDetection
<1>3. ASSUME NEW h \in 0..MaxSeq
      PROVE  LET f == [kind |-> "open", head |-> h] IN f \in Frame /\ ~ IsDetection(f)
  BY DEF Frame, IsDetection
<1>4. ASSUME NEW h \in 0..MaxSeq
      PROVE  LET f == [kind |-> "reset", last |-> h] IN f \in Frame /\ ~ IsDetection(f)
  BY DEF Frame, IsDetection
<1>5. LET f == [kind |-> "reauth"] IN f \in Frame /\ ~ IsDetection(f)
  BY DEF Frame, IsDetection
<1> QED BY <1>1, <1>2, <1>3, <1>4, <1>5

LEMMA OrderedConcat ==
  ASSUME NEW v \in Seq(Frame), NEW w \in Seq(Frame), NEW l \in Nat, NEW m \in Nat, l <= m,
         Ordered(v, l), Ordered(w, m), \A i \in DOMAIN w : IsDetection(w[i]) => w[i].seq > l
  PROVE  v \o w \in Seq(Frame) /\ Ordered(v \o w, m)
<1> DEFINE vw == v \o w
<1>1. /\ vw \in Seq(Frame) /\ DOMAIN vw = 1..Len(v) + Len(w)
      /\ Len(v) \in Nat /\ Len(w) \in Nat /\ DOMAIN v = 1..Len(v) /\ DOMAIN w = 1..Len(w)
      /\ \A i \in 1..Len(v) + Len(w) : vw[i] = IF i <= Len(v) THEN v[i] ELSE w[i - Len(v)]
  BY ConcatProperties
<1> HIDE DEF vw
<1>2. \A i \in DOMAIN v : IsDetection(v[i]) => v[i].seq \in Nat
  BY FramesAreTold DEF Seqs
<1>3. \A i \in DOMAIN w : IsDetection(w[i]) => w[i].seq \in Nat
  BY FramesAreTold DEF Seqs
<1>4. ASSUME NEW i \in DOMAIN vw, NEW j \in DOMAIN vw, IsDetection(vw[i]), IsDetection(vw[j])
      PROVE  (i < j => vw[i].seq < vw[j].seq) /\ vw[i].seq <= m
  <2>1. CASE i <= Len(v) /\ j <= Len(v)
    <3>1. i \in DOMAIN v /\ j \in DOMAIN v /\ vw[i] = v[i] /\ vw[j] = v[j]
      BY <1>1, <2>1
    <3> QED BY <1>2, <1>4, <3>1 DEF Ordered
  <2>2. CASE i <= Len(v) /\ ~ (j <= Len(v))
    <3>1. i \in DOMAIN v /\ j - Len(v) \in DOMAIN w /\ vw[i] = v[i] /\ vw[j] = w[j - Len(v)]
      BY <1>1, <2>2
    <3>2. v[i].seq <= l /\ v[i].seq \in Nat
      BY <1>2, <1>4, <3>1 DEF Ordered
    <3>3. l < w[j - Len(v)].seq /\ w[j - Len(v)].seq \in Nat
      BY <1>3, <1>4, <3>1
    <3> QED BY <3>1, <3>2, <3>3
  <2>3. CASE ~ (i <= Len(v)) /\ j <= Len(v)
    <3>1. i - Len(v) \in DOMAIN w /\ vw[i] = w[i - Len(v)] /\ ~ (i < j)
      BY <1>1, <2>3
    <3> QED BY <1>4, <3>1 DEF Ordered
  <2>4. CASE ~ (i <= Len(v)) /\ ~ (j <= Len(v))
    <3>1. /\ i - Len(v) \in DOMAIN w /\ j - Len(v) \in DOMAIN w
          /\ vw[i] = w[i - Len(v)] /\ vw[j] = w[j - Len(v)]
          /\ i < j => i - Len(v) < j - Len(v)
      BY <1>1, <2>4
    <3> QED BY <1>4, <3>1 DEF Ordered
  <2> QED BY <1>1, <2>1, <2>2, <2>3, <2>4
<1> QED BY <1>1, <1>4 DEF Ordered, vw

\* Frames that are no detections disturb nothing, nor does reading one.
LEMMA OrderedPlain ==
  ASSUME NEW v \in Seq(Frame), NEW w \in Seq(Frame), NEW l \in Nat, Ordered(v, l),
         \A i \in DOMAIN w : ~ IsDetection(w[i])
  PROVE  v \o w \in Seq(Frame) /\ Ordered(v \o w, l)
<1>1. Ordered(w, l) /\ l <= l
  BY DEF Ordered
<1> QED BY <1>1, OrderedConcat

LEMMA OrderedTail ==
  ASSUME NEW v \in Seq(Frame), NEW l, Ordered(v, l), v # << >>
  PROVE  /\ Tail(v) \in Seq(Frame) /\ Ordered(Tail(v), l)
         /\ (\A i \in DOMAIN v : ~ IsDetection(v[i])) => \A i \in DOMAIN Tail(v) : ~ IsDetection(Tail(v)[i])
<1>1. /\ Tail(v) \in Seq(Frame) /\ Len(v) \in Nat /\ DOMAIN v = 1..Len(v)
      /\ DOMAIN Tail(v) = 1..Len(v) - 1 /\ \A i \in 1..Len(v) - 1 : Tail(v)[i] = v[i + 1]
  OBVIOUS
<1>2. \A i \in DOMAIN Tail(v) : i + 1 \in DOMAIN v /\ Tail(v)[i] = v[i + 1]
  BY <1>1
<1>3. \A i, j \in DOMAIN Tail(v) : i < j => i + 1 < j + 1
  BY <1>1
<1> QED BY <1>1, <1>2, <1>3 DEF Ordered

-----------------------------------------------------------------------------
(* One request.                                                            *)

\* What a listening request has yet to send is on its queue or was lost.
InStep(r, upTo) ==
  r.listens =>
    Wants[r.family] \cap Between(IF r.phase = "opening" THEN r.head ELSE r.last, upTo)
      \subseteq Range(r.queue) \cup r.lost

\* The inductive invariant of one request, of a bus that is primed or not and
\* has come up to a number.
Sound(r, isPrimed, upTo) ==
  \/ r = Unused
  \/ /\ r \in Stream /\ Len(r.queue) <= QueueSize
     /\ r.listens => isPrimed
     /\ InStep(r, upTo)
     /\ Ordered(r.wire, r.last)
     /\ r.phase = "authorized" => ~ r.listens /\ r.wire = << >>
     /\ r.phase = "opening" => \A i \in DOMAIN r.wire : ~ IsDetection(r.wire[i])

LEMMA Constants ==
  /\ MaxSeq \in Nat /\ QueueSize \in Nat \ {0} /\ 0 \in 0..MaxSeq
  /\ Seqs = 1..MaxSeq /\ Seqs \subseteq Nat
  /\ \A f \in Families : Wants[f] \subseteq Seqs
  BY StreamConstants DEF Seqs

\* The last n of a sequence over any set.
LEMMA LastOfAny ==
  ASSUME NEW T, NEW seq \in Seq(T), NEW n \in Nat \ {0}
  PROVE  LastOf(seq, n) \in Seq(T) /\ Len(LastOf(seq, n)) <= n
<1>1. CASE Len(seq) <= n
      BY <1>1 DEF LastOf
<1>2. CASE ~ (Len(seq) <= n)
  <2>1. LastOf(seq, n) = SubSeq(seq, Len(seq) - n + 1, Len(seq))
        BY <1>2 DEF LastOf
  <2>2. Len(seq) \in Nat /\ Len(seq) - n + 1 \in 1..Len(seq)
        BY <1>2
  <2> QED BY <1>2, <2>1, <2>2
<1> QED BY <1>1, <1>2

\* The numbers after a up to b.
LEMMA FromFacts ==
  ASSUME NEW a \in Nat, NEW b \in 0..MaxSeq, a <= b
  PROVE  From(a, b) \in Seq(Seqs) /\ Range(From(a, b)) = Between(a, b)
<1>1. /\ b - a \in Nat /\ DOMAIN From(a, b) = 1..b - a
      /\ \A i \in 1..b - a : From(a, b)[i] = a + i /\ a + i \in Seqs /\ a < a + i /\ a + i <= b
  BY Constants DEF From
<1>2. From(a, b) \in Seq(Seqs)
  BY <1>1 DEF From
<1>3. ASSUME NEW d \in Between(a, b) PROVE d \in Range(From(a, b))
  <2>1. d - a \in 1..b - a /\ a + (d - a) = d
    BY Constants DEF Between
  <2> QED BY <1>1, <2>1 DEF Range
<1>4. ASSUME NEW d \in Range(From(a, b)) PROVE d \in Between(a, b)
  BY <1>1 DEF Range, Between
<1> QED BY <1>2, <1>3, <1>4

\* A push loses nothing: what it has no room for is told apart.
LEMMA PushTellsAll ==
  ASSUME NEW r \in Stream, Len(r.queue) <= QueueSize,
         NEW a \in Nat, NEW b \in 0..MaxSeq, a <= b
  PROVE  LET p == Pushed(r, a, b)
         IN  /\ p \in Stream /\ Len(p.queue) <= QueueSize
             /\ p = [r EXCEPT !.queue = p.queue, !.lost = p.lost]
             /\ Range(r.queue) \cup r.lost \subseteq Range(p.queue) \cup p.lost
             /\ r.listens => Wants[r.family] \cap Between(a, b) \subseteq Range(p.queue) \cup p.lost
<1> DEFINE more == Those(From(a, b), Wants[r.family])
           all  == r.queue \o more
           kept == LastOf(all, QueueSize)
           p    == Pushed(r, a, b)
<1>1. r.queue \in Seq(Seqs) /\ r.lost \in SUBSET Seqs /\ r.family \in Families
  BY DEF Stream
<1>2. more \in Seq(Seqs) /\ Range(more) = Between(a, b) \cap Wants[r.family]
  BY FromFacts, ThoseFacts
<1>3. all \in Seq(Seqs) /\ Range(all) = Range(r.queue) \cup Range(more)
  <2> HIDE DEF more
  <2>1. all \in Seq(Seqs)
    BY <1>1, <1>2
  <2>2. Range(all) = Range(r.queue) \cup Range(more)
    BY <1>1, <1>2, RangeConcatenation
  <2> QED BY <2>1, <2>2
<1>4. kept \in Seq(Seqs) /\ Len(kept) <= QueueSize
  <2> HIDE DEF all
  <2> QED BY <1>3, LastOfAny, Constants
<1>5. Range(all) \subseteq Seqs
  <2> HIDE DEF all
  <2> QED BY <1>3 DEF Range
<1> HIDE DEF more, kept
<1>6. CASE r.listens
  <2>1. p = [r EXCEPT !.queue = kept, !.lost = r.lost \cup (Range(all) \ Range(kept))]
    BY <1>1, <1>6 DEF Pushed, Queued, all, kept, more, Stream
  <2> HIDE DEF all, p
  <2>2. p.queue = kept /\ p.lost = r.lost \cup (Range(all) \ Range(kept)) /\ p.lost \in SUBSET Seqs
    BY <1>1, <1>5, <2>1 DEF Stream
  <2>3. p \in Stream
    BY <1>4, <2>1, <2>2 DEF Stream
  <2>4. p = [r EXCEPT !.queue = p.queue, !.lost = p.lost]
    BY <2>1, <2>2
  <2> QED BY <1>2, <1>3, <1>4, <2>2, <2>3, <2>4 DEF p
<1>7. CASE ~ r.listens
  <2>1. p = r
    BY <1>7 DEF Pushed
  <2>2. r = [r EXCEPT !.queue = r.queue, !.lost = r.lost]
    BY DEF Stream
  <2> QED BY <1>7, <2>1, <2>2
<1> QED BY <1>6, <1>7

-----------------------------------------------------------------------------
(* Every request.                                                          *)

\* What every request of a sound state is.
WholeInv ==
  /\ released \in 0..MaxSeq /\ active \in BOOLEAN
  /\ \A s \in Streams : Sound(stream[s], primed, cursor)

LEMMA UnusedIsNone == \A r \in Stream : r # Unused
  BY DEF Stream, Unused

LEMMA PushedIsSound ==
  ASSUME NEW r, r # Unused, NEW a \in Nat, NEW b \in 0..MaxSeq, a <= b, Sound(r, TRUE, a)
  PROVE  Sound(Pushed(r, a, b), TRUE, b)
<1> DEFINE p == Pushed(r, a, b)
<1>1. /\ r \in Stream /\ Len(r.queue) <= QueueSize /\ InStep(r, a) /\ Ordered(r.wire, r.last)
      /\ r.phase = "authorized" => ~ r.listens /\ r.wire = << >>
      /\ r.phase = "opening" => \A i \in DOMAIN r.wire : ~ IsDetection(r.wire[i])
  BY DEF Sound
<1>2. /\ p \in Stream /\ Len(p.queue) <= QueueSize
      /\ p = [r EXCEPT !.queue = p.queue, !.lost = p.lost]
      /\ Range(r.queue) \cup r.lost \subseteq Range(p.queue) \cup p.lost
      /\ r.listens => Wants[r.family] \cap Between(a, b) \subseteq Range(p.queue) \cup p.lost
  BY <1>1, PushTellsAll
<1> HIDE DEF p
<1>3. /\ p.phase = r.phase /\ p.family = r.family /\ p.listens = r.listens /\ p.head = r.head
      /\ p.last = r.last /\ p.wire = r.wire
  BY <1>1, <1>2 DEF Stream
<1>4. InStep(p, b)
  <2> DEFINE sent == IF r.phase = "opening" THEN r.head ELSE r.last
  <2>1. sent \in Nat
    BY <1>1, Constants DEF Stream
  <2> HIDE DEF sent
  <2>2. Between(sent, b) \subseteq Between(sent, a) \cup Between(a, b)
    BY <2>1, Constants DEF Between
  <2>3. r.listens => Wants[r.family] \cap Between(sent, a) \subseteq Range(r.queue) \cup r.lost
    BY <1>1 DEF InStep, sent
  <2>4. p.listens => Wants[p.family] \cap Between(sent, b) \subseteq Range(p.queue) \cup p.lost
    BY <1>2, <1>3, <2>2, <2>3
  <2> QED BY <1>3, <2>4 DEF InStep, sent
<1> QED BY <1>1, <1>2, <1>3, <1>4 DEF Sound, p

\* A request that does not listen is sound whatever the bus does.
LEMMA SilentIsSound ==
  ASSUME NEW r, NEW p, NEW a, Sound(r, p, a), r # Unused, ~ r.listens, NEW q, NEW b
  PROVE  Sound(r, q, b)
  BY DEF Sound, InStep

\* A request that changes nothing but to listen no more, or to expire.
LEMMA SilencedIsSound ==
  ASSUME NEW r, NEW p, NEW a, Sound(r, p, a), r # Unused, NEW q, NEW b, NEW e \in BOOLEAN
  PROVE  Sound([r EXCEPT !.listens = FALSE, !.expired = e], q, b)
<1> DEFINE x == [r EXCEPT !.listens = FALSE, !.expired = e]
<1>1. r \in Stream
  BY DEF Sound
<1>2. /\ x \in Stream /\ ~ x.listens /\ x.phase = r.phase /\ x.queue = r.queue /\ x.wire = r.wire
      /\ x.last = r.last
  BY <1>1 DEF Stream
<1> HIDE DEF x
<1> QED BY <1>2 DEF Sound, InStep, x

\* A refresh leaves every request sound, of the same kind and with what it had.
LEMMA FedIsSound ==
  ASSUME RingInv, WholeInv, NEW now \in 0..MaxSeq, cursor <= now, NEW s \in Streams
  PROVE  LET r == Fed(now)[s]
         IN  /\ Sound(r, TRUE, now)
             /\ Used(s) <=> r # Unused
             /\ Used(s) => /\ r.phase = stream[s].phase /\ r.family = stream[s].family
                           /\ r.listens = stream[s].listens /\ r.resume = stream[s].resume
                           /\ r.head = stream[s].head /\ r.wire = stream[s].wire
<1> DEFINE r == stream[s]
           x == Fed(now)[s]
<1>1. Sound(r, primed, cursor) /\ cursor \in Nat /\ primed \in BOOLEAN
  BY DEF WholeInv, RingInv
<1>2. CASE ~ Used(s)
  <2>1. x = Unused
    BY <1>2 DEF Fed, Used
  <2> QED BY <1>2, <2>1 DEF Sound
<1>3. CASE Used(s) /\ primed
  <2>1. r # Unused /\ r \in Stream /\ Len(r.queue) <= QueueSize
    BY <1>1, <1>3 DEF Used, Sound
  <2>2. x = Pushed(r, cursor, now)
    BY <1>3 DEF Fed
  <2> HIDE DEF x, r
  <2>3. Sound(x, TRUE, now)
    BY <1>1, <1>3, <2>1, <2>2, PushedIsSound
  <2>4. x \in Stream /\ x = [r EXCEPT !.queue = x.queue, !.lost = x.lost]
    BY <1>1, <2>1, <2>2, PushTellsAll
  <2>5. /\ x.phase = r.phase /\ x.family = r.family /\ x.listens = r.listens
        /\ x.resume = r.resume /\ x.head = r.head /\ x.wire = r.wire
    BY <2>1, <2>4 DEF Stream
  <2> QED BY <1>3, <2>3, <2>4, <2>5, UnusedIsNone DEF x, r
<1>4. CASE Used(s) /\ ~ primed
  <2>1. x = r
    BY <1>4 DEF Fed
  <2>2. r # Unused /\ ~ r.listens
    BY <1>1, <1>4 DEF Used, Sound
  <2>3. Sound(r, TRUE, now)
    BY <1>1, <2>2, SilentIsSound
  <2> QED BY <1>4, <2>1, <2>2, <2>3
<1> QED BY <1>2, <1>3, <1>4

-----------------------------------------------------------------------------
(* Requests that send and end.                                             *)

\* One request becomes another sound one and the bus stays as it is.
LEMMA OneStaysSound ==
  ASSUME HooksInv, WholeInv, NEW s \in Streams, NEW r, Sound(r, primed, cursor),
         stream' = [stream EXCEPT ![s] = r], UNCHANGED <<released, bus>>
  PROVE  WholeInv'
<1>1. ASSUME NEW t \in Streams PROVE Sound(stream'[t], primed, cursor)
  BY DEF HooksInv, WholeInv
<1> QED BY <1>1 DEF WholeInv, bus

LEMMA EndedIsSound ==
  ASSUME NEW p, NEW upTo, NEW x, x # Unused, Sound(x, p, upTo),
         NEW w \in Seq(Frame), Ordered(w, x.last), NEW q \in Seq(Seqs), Len(q) = 0
  PROVE  Sound([x EXCEPT !.phase = "over", !.listens = FALSE, !.expired = FALSE, !.queue = q,
                         !.wire = w], p, upTo)
<1> DEFINE r == [x EXCEPT !.phase = "over", !.listens = FALSE, !.expired = FALSE, !.queue = q,
                          !.wire = w]
<1>1. x \in Stream
  BY DEF Sound
<1>2. /\ r \in Stream /\ r.phase = "over" /\ r.listens = FALSE /\ r.queue = q
      /\ r.wire = w /\ r.last = x.last
  BY <1>1 DEF Stream, Phases
<1> HIDE DEF r
<1>3. Len(r.queue) <= QueueSize
  BY <1>2, Constants
<1> QED BY <1>2, <1>3 DEF Sound, InStep, r

LEMMA EndsSound ==
  ASSUME HooksInv, WholeInv, NEW s \in Streams, InLoop(s), NEW frames \in Seq(Frame),
         \A i \in DOMAIN frames : ~ IsDetection(frames[i]), Ends(s, frames)
  PROVE  WholeInv'
<1>1. PICK x : x = stream[s]
  OBVIOUS
<1>2. PICK w : w = x.wire \o frames
  OBVIOUS
<1>3. /\ stream' = [stream EXCEPT ![s] = [x EXCEPT !.phase = "over", !.listens = FALSE,
                                            !.expired = FALSE, !.queue = << >>, !.wire = w]]
      /\ UNCHANGED <<released, bus>>
  BY <1>1, <1>2 DEF Ends, HooksInv
<1>4. x # Unused /\ Sound(x, primed, cursor) /\ x \in Stream /\ Ordered(x.wire, x.last)
  BY <1>1 DEF WholeInv, Sound, InLoop, Used
<1>5. x.wire \in Seq(Frame) /\ x.last \in Nat
  BY <1>4, Constants DEF Stream
<1>6. w \in Seq(Frame) /\ Ordered(w, x.last)
  BY <1>2, <1>4, <1>5, OrderedPlain
<1>7. << >> \in Seq(Seqs) /\ Len(<< >>) = 0
  OBVIOUS
<1> QED BY <1>3, <1>4, <1>6, <1>7, EndedIsSound, OneStaysSound

\* A request sends h, after which it has q left, and w is on its way.
LEMMA SentIsSound ==
  ASSUME NEW p, NEW upTo \in Nat, NEW x, x # Unused, Sound(x, p, upTo), x.phase \in {"sending", "waiting"},
         NEW h \in Seqs, x.last < h, NEW q \in Seq(Seqs), Len(q) <= QueueSize,
         NEW w \in Seq(Frame), Ordered(w, h),
         \A d \in Range(x.queue) : d > x.last => d = h \/ d \in Range(q)
  PROVE  Sound([x EXCEPT !.phase = "sending", !.last = h, !.queue = q, !.wire = w], p, upTo)
<1> DEFINE r == [x EXCEPT !.phase = "sending", !.last = h, !.queue = q, !.wire = w]
<1>1. x \in Stream /\ (x.listens => p) /\ InStep(x, upTo) /\ x.phase # "opening"
  BY DEF Sound
<1>2. h \in 0..MaxSeq /\ h \in Nat /\ x.last \in Nat
  BY <1>1, Constants DEF Stream
<1>3. /\ r \in Stream /\ r.phase = "sending" /\ r.last = h /\ r.queue = q /\ r.wire = w
      /\ r.listens = x.listens /\ r.lost = x.lost /\ r.family = x.family
  BY <1>1, <1>2 DEF Stream, Phases
<1> HIDE DEF r
<1>4. InStep(r, upTo)
  <2>1. x.listens => Wants[x.family] \cap Between(x.last, upTo) \subseteq Range(x.queue) \cup x.lost
    BY <1>1 DEF InStep
  <2>2. Between(h, upTo) \subseteq Between(x.last, upTo) /\ h \notin Between(h, upTo)
    BY <1>2, Constants DEF Between
  <2>3. \A d \in Between(x.last, upTo) : d > x.last
    BY DEF Between
  <2>4. ASSUME r.listens, NEW d \in Wants[r.family] \cap Between(h, upTo)
        PROVE  d \in Range(r.queue) \cup r.lost
    BY <1>3, <2>1, <2>2, <2>3, <2>4
  <2> QED BY <1>3, <2>4 DEF InStep
<1> QED BY <1>1, <1>3, <1>4 DEF Sound, r

\* A request that sends the head of what is fresh.
LEMMA SendsSound ==
  ASSUME HooksInv, WholeInv, cursor \in Nat, NEW s \in Streams, Used(s),
         stream[s].phase \in {"sending", "waiting"},
         NEW fresh \in Seq(Seqs), fresh # << >>, Sends(s, fresh), Len(fresh) <= Len(stream[s].queue),
         Head(fresh) > stream[s].last,
         \A d \in Range(stream[s].queue) : d > stream[s].last => d \in Range(fresh)
  PROVE  WholeInv'
<1>1. PICK x : x = stream[s]
  OBVIOUS
<1>2. PICK h, q : h = Head(fresh) /\ q = Tail(fresh)
  OBVIOUS
<1>3. PICK f : f = [kind |-> "detection", seq |-> h]
  OBVIOUS
<1>4. PICK w : w = Append(x.wire, f)
  OBVIOUS
<1>5. /\ stream' = [stream EXCEPT ![s] = [x EXCEPT !.phase = "sending", !.last = h, !.queue = q, !.wire = w]]
      /\ UNCHANGED <<released, bus>>
  BY <1>1, <1>2, <1>3, <1>4 DEF Sends, HooksInv
<1>6. /\ x # Unused /\ Sound(x, primed, cursor) /\ x.phase \in {"sending", "waiting"}
      /\ x \in Stream /\ Len(x.queue) <= QueueSize /\ Ordered(x.wire, x.last)
  BY <1>1 DEF WholeInv, Sound, Used
<1>7. x.last \in Nat /\ x.wire \in Seq(Frame) /\ x.queue \in Seq(Seqs) /\ Len(x.queue) \in Nat
      /\ Len(fresh) <= Len(x.queue)
  BY <1>1, <1>6, Constants DEF Stream
<1>8. /\ Len(fresh) \in Nat /\ Len(fresh) # 0 /\ DOMAIN fresh = 1..Len(fresh)
      /\ q \in Seq(Seqs) /\ Len(q) = Len(fresh) - 1 /\ DOMAIN q = 1..Len(fresh) - 1
      /\ h = fresh[1] /\ h \in Seqs /\ \A i \in 1..Len(fresh) - 1 : q[i] = fresh[i + 1]
  BY <1>2
<1>9. \A d \in Range(fresh) : d = h \/ d \in Range(q)
  <2>1. ASSUME NEW i \in 1..Len(fresh) PROVE fresh[i] = h \/ fresh[i] \in Range(q)
    <3>1. CASE i = 1
      BY <1>8, <3>1
    <3>2. CASE i # 1
      <4>1. i - 1 \in DOMAIN q /\ q[i - 1] = fresh[i]
        BY <1>8, <3>2
      <4> QED BY <4>1 DEF Range
    <3> QED BY <3>1, <3>2
  <2> QED BY <1>8, <2>1 DEF Range
<1>10. Len(q) <= QueueSize
  <2>1. Len(fresh) \in Nat /\ Len(q) = Len(fresh) - 1
    BY <1>8
  <2>2. Len(fresh) <= QueueSize
    BY <1>6, <1>7, <2>1, Constants
  <2> QED BY <2>1, <2>2, Constants
<1>11. x.last < h
  BY <1>1, <1>2, <1>7, <1>8, Constants
<1>12. \A d \in Range(x.queue) : d > x.last => d = h \/ d \in Range(q)
  BY <1>1, <1>9
<1>13. w \in Seq(Frame) /\ Ordered(w, h)
  <2>1. f \in Frame /\ IsDetection(f) /\ f.seq = h
    BY <1>3, <1>8, FramesAreTold
  <2>2. /\ <<f>> \in Seq(Frame) /\ DOMAIN <<f>> = {1} /\ <<f>>[1] = f
        /\ w = x.wire \o <<f>> /\ w \in Seq(Frame)
    BY <1>4, <1>7, <2>1
  <2>3. Ordered(<<f>>, h) /\ h \in Nat
    BY <1>8, <2>1, <2>2, Constants DEF Ordered
  <2>4. \A i \in DOMAIN <<f>> : IsDetection(<<f>>[i]) => <<f>>[i].seq > x.last
    BY <1>7, <1>11, <2>1, <2>2, <2>3
  <2>5. x.last <= h
    BY <1>7, <1>11, <2>3
  <2>6. Ordered(x.wire \o <<f>>, h)
    BY <1>6, <1>7, <2>2, <2>3, <2>4, <2>5, OrderedConcat
  <2> QED BY <2>2, <2>6
<1>14. Sound([x EXCEPT !.phase = "sending", !.last = h, !.queue = q, !.wire = w], primed, cursor)
  BY <1>6, <1>8, <1>10, <1>11, <1>12, <1>13, SentIsSound
<1> QED BY <1>5, <1>14, OneStaysSound

-----------------------------------------------------------------------------
(* Requests that begin, and sessions that end.                             *)

\* A request that begins to listen stands at the head it announces.
LEMMA BegunIsSound ==
  ASSUME NEW p, NEW c, NEW x, x # Unused, Sound(x, p, c), NEW n \in 0..MaxSeq,
         NEW w \in Seq(Frame), \A i \in DOMAIN w : ~ IsDetection(w[i])
  PROVE  LET r == [x EXCEPT !.phase = "opening", !.listens = TRUE, !.head = n, !.wire = w]
         IN  Sound(r, TRUE, n) /\ r # Unused /\ r.family = x.family
<1> DEFINE r == [x EXCEPT !.phase = "opening", !.listens = TRUE, !.head = n, !.wire = w]
<1>1. x \in Stream /\ Len(x.queue) <= QueueSize
  BY DEF Sound
<1>2. /\ r \in Stream /\ r.phase = "opening" /\ r.queue = x.queue /\ r.head = n /\ r.wire = w
      /\ r.family = x.family
  BY <1>1 DEF Stream, Phases
<1> HIDE DEF r
<1>3. Between(n, n) = {}
  BY Constants DEF Between
<1>4. InStep(r, n) /\ Ordered(r.wire, r.last)
  BY <1>2, <1>3 DEF InStep, Ordered
<1> QED BY <1>1, <1>2, <1>4, UnusedIsNone DEF Sound, r

LEMMA BeginSound ==
  ASSUME RingInv, HooksInv, WholeInv, NEW s \in Streams, Begin(s)
  PROVE  WholeInv'
<1>1. PICK f : f = stream[s].family
  OBVIOUS
<1>2. PICK now \in released..MaxSeq :
        /\ released' = now /\ Refreshed(now)
        /\ LET opened == [Fed(now) EXCEPT ![s] = Opened(s, now)]
           IN  \/ stream' = opened
               \/ stream' = Silenced(opened, f)
  BY <1>1 DEF Begin
<1>3. PICK opened : opened = [Fed(now) EXCEPT ![s] = Opened(s, now)]
  OBVIOUS
<1>4. /\ now \in 0..MaxSeq /\ released \in 0..MaxSeq /\ released \in Nat /\ released <= now
      /\ cursor <= now /\ cursor \in Nat
  BY <1>2, Constants DEF RingInv
<1>5. DOMAIN Fed(now) = Streams
  BY DEF Fed
<1>6. Sound(Opened(s, now), TRUE, now)
  <2>1. PICK x : x = stream[s]
    OBVIOUS
  <2>2. PICK w : w = <<[kind |-> "open", head |-> released]>>
    OBVIOUS
  <2>3. w \in Seq(Frame) /\ \A i \in DOMAIN w : ~ IsDetection(w[i])
    <3>1. PICK e : e = [kind |-> "open", head |-> released] /\ e \in Frame /\ ~ IsDetection(e)
      BY <1>4, FramesAreTold
    <3> QED BY <2>2, <3>1
  <2>4. x # Unused /\ Sound(x, primed, cursor)
    BY <2>1 DEF Begin, Used, WholeInv
  <2>5. PICK r : r = [x EXCEPT !.phase = "opening", !.listens = TRUE, !.head = released, !.wire = w]
    OBVIOUS
  <2>6. Sound(r, TRUE, released) /\ r # Unused
    BY <1>4, <2>3, <2>4, <2>5, BegunIsSound
  <2>7. Opened(s, now) = Pushed(r, released, now)
    BY <2>1, <2>2, <2>5 DEF Opened, Opening
  <2> QED BY <1>4, <2>6, <2>7, PushedIsSound
<1>7. ASSUME NEW t \in Streams PROVE Sound(opened[t], TRUE, now)
  <2>1. CASE t = s
    BY <1>3, <1>5, <1>6, <2>1
  <2>2. CASE t # s
    <3>1. opened[t] = Fed(now)[t]
      BY <1>3, <1>5, <2>2
    <3> QED BY <1>4, <3>1, FedIsSound
  <2> QED BY <2>1, <2>2
<1>8. DOMAIN opened = Streams
  BY <1>3, <1>5
<1>9. ASSUME NEW t \in Streams PROVE Sound(stream'[t], TRUE, now)
  <2>1. CASE stream' = opened
    BY <1>7, <2>1
  <2>2. CASE stream' = Silenced(opened, f)
    <3>1. stream'[t] = opened[t] \/ (opened[t] # Unused /\ stream'[t] = [opened[t] EXCEPT !.listens = FALSE])
      BY <2>2 DEF Silenced
    <3>2. ASSUME opened[t] # Unused PROVE Sound([opened[t] EXCEPT !.listens = FALSE], TRUE, now)
      <4>1. PICK x : x = opened[t]
        OBVIOUS
      <4>2. x \in Stream /\ x # Unused /\ Sound(x, TRUE, now)
        BY <1>7, <3>2, <4>1 DEF Sound
      <4>3. x.expired \in BOOLEAN
        BY <4>2 DEF Stream
      <4>4. [x EXCEPT !.listens = FALSE] = [x EXCEPT !.listens = FALSE, !.expired = x.expired]
        BY <4>2 DEF Stream
      <4> QED BY <4>1, <4>2, <4>3, <4>4, SilencedIsSound
    <3> QED BY <1>7, <3>1, <3>2
  <2> QED BY <1>2, <1>3, <2>1, <2>2
<1>10. cursor' = now /\ primed' = TRUE /\ active' = TRUE /\ released' = now
  BY <1>2 DEF Refreshed
<1> QED BY <1>4, <1>9, <1>10 DEF WholeInv

LEMMA RevokeSound ==
  ASSUME RingInv, HooksInv, WholeInv, NEW f \in Families, Revoke(f)
  PROVE  WholeInv'
<1>1. UNCHANGED <<released, bus>> /\ (stream' = stream \/ stream' = Silenced(stream, f))
  BY DEF Revoke
<1>2. ASSUME NEW t \in Streams PROVE Sound(stream'[t], primed, cursor)
  <2>1. Sound(stream[t], primed, cursor)
    BY DEF WholeInv
  <2>2. CASE stream' = Silenced(stream, f)
    <3>1. stream'[t] = stream[t] \/ (stream[t] # Unused /\ stream'[t] = [stream[t] EXCEPT !.listens = FALSE])
      BY <2>2 DEF Silenced
    <3>2. ASSUME stream[t] # Unused PROVE Sound([stream[t] EXCEPT !.listens = FALSE], primed, cursor)
      <4>1. PICK x : x = stream[t]
        OBVIOUS
      <4>2. x \in Stream /\ x # Unused /\ Sound(x, primed, cursor)
        BY <2>1, <3>2, <4>1 DEF Sound
      <4>3. x.expired \in BOOLEAN
        BY <4>2 DEF Stream
      <4>4. [x EXCEPT !.listens = FALSE] = [x EXCEPT !.listens = FALSE, !.expired = x.expired]
        BY <4>2 DEF Stream
      <4> QED BY <4>1, <4>2, <4>3, <4>4, SilencedIsSound
    <3> QED BY <2>1, <3>1, <3>2
  <2> QED BY <1>1, <2>1, <2>2
<1> QED BY <1>1, <1>2 DEF WholeInv, bus

LEMMA ResetSound ==
  ASSUME RingInv, HooksInv, WholeInv, ResetState
  PROVE  WholeInv'
<1>1. ASSUME NEW t \in Streams PROVE Sound(stream'[t], primed', cursor')
  <2>1. stream'[t] = IF stream[t] # Unused THEN [stream[t] EXCEPT !.listens = FALSE, !.expired = TRUE]
                     ELSE Unused
    BY DEF ResetState, Used
  <2>2. CASE stream[t] = Unused
    BY <2>1, <2>2 DEF Sound
  <2>3. CASE stream[t] # Unused
    <3>1. Sound(stream[t], primed, cursor) /\ TRUE \in BOOLEAN
      BY DEF WholeInv
    <3>2. Sound([stream[t] EXCEPT !.listens = FALSE, !.expired = TRUE], primed', cursor')
      BY <2>3, <3>1, SilencedIsSound
    <3> QED BY <2>1, <2>3, <3>2
  <2> QED BY <2>2, <2>3
<1> QED BY <1>1 DEF WholeInv, ResetState

LEMMA ConnectSound ==
  ASSUME RingInv, HooksInv, WholeInv, NEW s \in Streams, NEW f \in Families,
         NEW resume \in 0..None, Connect(s, f, resume)
  PROVE  WholeInv'
<1>1. PICK r : r = [phase |-> "authorized", family |-> f, resume |-> resume, listens |-> FALSE,
                    expired |-> FALSE, head |-> 0, last |-> 0, queue |-> << >>, lost |-> {},
                    wire |-> << >>]
  OBVIOUS
<1>2. stream' = [stream EXCEPT ![s] = r] /\ UNCHANGED <<released, bus>>
  BY <1>1 DEF Connect
<1>3. << >> \in Seq(Seqs) /\ << >> \in Seq(Frame) /\ Len(<< >>) = 0 /\ DOMAIN << >> = {}
  OBVIOUS
<1>4. r \in Stream
  BY <1>1, <1>3, Constants DEF Stream, Phases
<1>5. /\ r.phase = "authorized" /\ r.listens = FALSE /\ r.wire = << >> /\ r.queue = << >> /\ r.last = 0
  BY <1>1
<1>6. Sound(r, primed, cursor)
  BY <1>3, <1>4, <1>5, Constants DEF Sound, InStep, Ordered
<1> QED BY <1>2, <1>6, OneStaysSound

LEMMA GoneSound ==
  ASSUME RingInv, HooksInv, WholeInv, NEW s \in Streams, ClientGone(s)
  PROVE  WholeInv'
<1>1. stream' = [stream EXCEPT ![s] = Unused] /\ UNCHANGED <<released, bus>>
  BY DEF ClientGone
<1>2. Sound(Unused, primed, cursor)
  BY DEF Sound
<1> QED BY <1>1, <1>2, OneStaysSound

-----------------------------------------------------------------------------
(* The steps of the loop.                                                  *)

\* A request that sends on from where it stands.
LEMMA StartSound ==
  ASSUME HooksInv, WholeInv, NEW s \in Streams, StartAtHead(s)
  PROVE  WholeInv'
<1>1. PICK x : x = stream[s]
  OBVIOUS
<1>2. PICK r : r = [x EXCEPT !.phase = "sending", !.last = x.head, !.head = 0, !.resume = 0]
  OBVIOUS
<1>3. /\ x # Unused /\ Sound(x, primed, cursor) /\ x.phase = "opening" /\ x \in Stream
      /\ Len(x.queue) <= QueueSize /\ InStep(x, cursor) /\ (x.listens => primed)
      /\ \A i \in DOMAIN x.wire : ~ IsDetection(x.wire[i])
  BY <1>1 DEF StartAtHead, Used, WholeInv, Sound
<1>4. stream' = [stream EXCEPT ![s] = r] /\ UNCHANGED <<released, bus>>
  BY <1>1, <1>2, <1>3 DEF StartAtHead, HooksInv, Stream
<1>5. x.head \in 0..MaxSeq /\ 0 \in 0..MaxSeq /\ 0 \in 0..None
  BY <1>3, Constants DEF Stream, None
<1>6. /\ r \in Stream /\ r.phase = "sending" /\ r.last = x.head /\ r.queue = x.queue
      /\ r.lost = x.lost /\ r.wire = x.wire /\ r.listens = x.listens /\ r.family = x.family
  BY <1>2, <1>3, <1>5 DEF Stream, Phases
<1>7. Ordered(r.wire, r.last)
  BY <1>3, <1>6 DEF Ordered
<1>9. InStep(r, cursor)
  <2>1. x.listens => Wants[x.family] \cap Between(x.head, cursor) \subseteq Range(x.queue) \cup x.lost
    BY <1>3 DEF InStep
  <2> QED BY <1>6, <2>1 DEF InStep
<1>8. Sound(r, primed, cursor)
  BY <1>3, <1>6, <1>7, <1>9 DEF Sound
<1> QED BY <1>4, <1>8, OneStaysSound

\* What is fresh of a queue.
LEMMA FreshFacts ==
  ASSUME WholeInv, NEW s \in Streams, Used(s)
  PROVE  /\ stream[s].queue \in Seq(Seqs) /\ stream[s].last \in Nat
         /\ Fresh(s) \in Seq(Seqs) /\ Len(Fresh(s)) <= Len(stream[s].queue)
         /\ Range(Fresh(s)) = {d \in Range(stream[s].queue) : d > stream[s].last}
<1>1. PICK x : x = stream[s]
  OBVIOUS
<1>2. x \in Stream
  BY <1>1 DEF WholeInv, Sound, Used
<1>3. x.queue \in Seq(Seqs) /\ x.last \in Nat
  BY <1>2, Constants DEF Stream
<1>4. PICK S : S = {d \in Seqs : d > x.last}
  OBVIOUS
<1>5. Fresh(s) = Those(x.queue, S)
  BY <1>1, <1>4 DEF Fresh
<1>6. /\ Those(x.queue, S) \in Seq(Seqs) /\ Len(Those(x.queue, S)) <= Len(x.queue)
      /\ Range(Those(x.queue, S)) = Range(x.queue) \cap S
  BY <1>3, ThoseFacts
<1>7. Range(x.queue) \subseteq Seqs
  BY <1>3 DEF Range
<1>8. Range(x.queue) \cap S = {d \in Range(x.queue) : d > x.last}
  BY <1>4, <1>7
<1> QED BY <1>1, <1>3, <1>5, <1>6, <1>8

LEMMA HeadIsThere ==
  ASSUME NEW q \in Seq(Seqs), q # << >>
  PROVE  Head(q) \in Range(q)
<1>1. Len(q) \in Nat /\ Len(q) # 0 /\ DOMAIN q = 1..Len(q) /\ Head(q) = q[1]
  OBVIOUS
<1>2. 1 \in DOMAIN q
  BY <1>1
<1> QED BY <1>1, <1>2 DEF Range

LEMMA DeliverSound ==
  ASSUME HooksInv, WholeInv, cursor \in Nat, NEW s \in Streams, Deliver(s)
  PROVE  WholeInv'
<1>1. Used(s) /\ stream[s].phase \in {"sending", "waiting"} /\ Fresh(s) # << >> /\ Sends(s, Fresh(s))
  BY DEF Deliver, GoesOn, InLoop
<1>2. /\ Fresh(s) \in Seq(Seqs) /\ Len(Fresh(s)) <= Len(stream[s].queue)
      /\ Range(Fresh(s)) = {d \in Range(stream[s].queue) : d > stream[s].last}
  BY <1>1, FreshFacts
<1>3. PICK fresh : fresh = Fresh(s)
  OBVIOUS
<1>4. Head(fresh) > stream[s].last
  BY <1>1, <1>2, <1>3, HeadIsThere
<1>5. \A d \in Range(stream[s].queue) : d > stream[s].last => d \in Range(fresh)
  BY <1>2, <1>3
<1> QED BY <1>1, <1>2, <1>3, <1>4, <1>5, SendsSound

LEMMA DeliverLastSound ==
  ASSUME HooksInv, WholeInv, cursor \in Nat, NEW s \in Streams, DeliverLast(s)
  PROVE  WholeInv'
<1>1. PICK q : q = stream[s].queue
  OBVIOUS
<1>2. /\ Used(s) /\ stream[s].phase \in {"sending", "waiting"} /\ q # << >> /\ Sends(s, q)
      /\ Head(q) > stream[s].last
  BY <1>1 DEF DeliverLast, InLoop
<1>3. q \in Seq(Seqs)
  BY <1>1, <1>2, FreshFacts
<1>4. Len(q) <= Len(stream[s].queue)
  BY <1>1, <1>3
<1>5. \A d \in Range(stream[s].queue) : d > stream[s].last => d \in Range(q)
  BY <1>1
<1> QED BY <1>2, <1>3, <1>4, <1>5, SendsSound

LEMMA WaitSound ==
  ASSUME HooksInv, WholeInv, NEW s \in Streams, Wait(s)
  PROVE  WholeInv'
<1>1. PICK x : x = stream[s]
  OBVIOUS
<1>2. PICK r, e : e = << >> /\ r = [x EXCEPT !.phase = "waiting", !.queue = e]
  OBVIOUS
<1>3. /\ x # Unused /\ Sound(x, primed, cursor) /\ x.phase = "sending" /\ x \in Stream
      /\ InStep(x, cursor) /\ (x.listens => primed) /\ Ordered(x.wire, x.last)
  BY <1>1 DEF Wait, GoesOn, InLoop, Used, WholeInv, Sound
<1>4. stream' = [stream EXCEPT ![s] = r] /\ UNCHANGED <<released, bus>>
  BY <1>1, <1>2, <1>3 DEF Wait, HooksInv, Stream
<1>5. e \in Seq(Seqs) /\ Len(e) = 0 /\ Range(e) = {}
  BY <1>2 DEF Range
<1>6. /\ r \in Stream /\ r.phase = "waiting" /\ r.last = x.last /\ r.queue = e
      /\ r.lost = x.lost /\ r.wire = x.wire /\ r.listens = x.listens /\ r.family = x.family
  BY <1>2, <1>3, <1>5 DEF Stream, Phases
<1>7. Len(r.queue) <= QueueSize
  BY <1>5, <1>6, Constants
<1>8. \A d \in Range(x.queue) : ~ (d > x.last)
  <2>1. Used(s) /\ Fresh(s) = << >>
    BY DEF Wait, GoesOn, InLoop
  <2>2. Range(Fresh(s)) = {}
    BY <2>1 DEF Range
  <2>3. Range(Fresh(s)) = {d \in Range(x.queue) : d > x.last}
    BY <1>1, <2>1, FreshFacts
  <2> QED BY <2>2, <2>3
<1>9. \A d \in Between(x.last, cursor) : d > x.last
  BY DEF Between
<1>10. InStep(r, cursor)
  <2>1. r.listens => Wants[r.family] \cap Between(x.last, cursor) \subseteq Range(x.queue) \cup x.lost
    BY <1>3, <1>6 DEF InStep
  <2>2. r.listens => Wants[r.family] \cap Between(x.last, cursor) \subseteq r.lost
    BY <1>6, <1>8, <1>9, <2>1
  <2> QED BY <1>6, <2>2 DEF InStep
<1>11. Ordered(r.wire, r.last)
  BY <1>3, <1>6
<1>12. Sound(r, primed, cursor)
  BY <1>3, <1>6, <1>7, <1>10, <1>11 DEF Sound
<1> QED BY <1>4, <1>12, OneStaysSound

\* A request whose expiry or whose reader's progress is all that changes.
LEMMA ExpireSound ==
  ASSUME HooksInv, WholeInv, NEW s \in Streams, Expire(s)
  PROVE  WholeInv'
<1>1. PICK x, r : x = stream[s] /\ r = [x EXCEPT !.expired = TRUE]
  OBVIOUS
<1>2. x # Unused /\ Sound(x, primed, cursor) /\ x \in Stream
  BY <1>1 DEF Expire, Used, WholeInv, Sound
<1>3. stream' = [stream EXCEPT ![s] = r] /\ UNCHANGED <<released, bus>>
  BY <1>1, <1>2 DEF Expire, HooksInv, Stream
<1>4. /\ r \in Stream /\ r.phase = x.phase /\ r.last = x.last /\ r.head = x.head /\ r.queue = x.queue
      /\ r.lost = x.lost /\ r.wire = x.wire /\ r.listens = x.listens /\ r.family = x.family
  BY <1>1, <1>2 DEF Stream
<1>5. InStep(r, cursor) <=> InStep(x, cursor)
  BY <1>4 DEF InStep
<1>6. Sound(r, primed, cursor)
  BY <1>2, <1>4, <1>5 DEF Sound
<1> QED BY <1>3, <1>6, OneStaysSound

LEMMA TakeSound ==
  ASSUME HooksInv, WholeInv, NEW s \in Streams, TakeFrame(s)
  PROVE  WholeInv'
<1>1. PICK x, w, r : x = stream[s] /\ w = Tail(x.wire) /\ r = [x EXCEPT !.wire = w]
  OBVIOUS
<1>2. /\ x # Unused /\ Sound(x, primed, cursor) /\ x \in Stream /\ x.wire # << >>
      /\ Ordered(x.wire, x.last) /\ InStep(x, cursor) /\ (x.listens => primed)
      /\ Len(x.queue) <= QueueSize /\ x.phase # "authorized"
      /\ x.phase = "opening" => \A i \in DOMAIN x.wire : ~ IsDetection(x.wire[i])
  BY <1>1 DEF TakeFrame, Used, WholeInv, Sound
<1>3. stream' = [stream EXCEPT ![s] = r] /\ UNCHANGED <<released, bus>>
  BY <1>1, <1>2 DEF TakeFrame, HooksInv, Stream
<1>4. x.wire \in Seq(Frame)
  BY <1>2 DEF Stream
<1>5. /\ w \in Seq(Frame) /\ Ordered(w, x.last)
      /\ x.phase = "opening" => \A i \in DOMAIN w : ~ IsDetection(w[i])
  BY <1>1, <1>2, <1>4, OrderedTail
<1>6. /\ r \in Stream /\ r.phase = x.phase /\ r.last = x.last /\ r.head = x.head /\ r.queue = x.queue
      /\ r.lost = x.lost /\ r.wire = w /\ r.listens = x.listens /\ r.family = x.family
  BY <1>1, <1>2, <1>5 DEF Stream
<1>7. InStep(r, cursor)
  BY <1>2, <1>6 DEF InStep
<1>8. Sound(r, primed, cursor)
  BY <1>2, <1>5, <1>6, <1>7 DEF Sound
<1> QED BY <1>3, <1>8, OneStaysSound

LEMMA StopSound ==
  ASSUME HooksInv, WholeInv, NEW s \in Streams, EndRevoked(s) \/ EndReauth(s) \/ EndRotate(s)
  PROVE  WholeInv'
<1>1. InLoop(s)
  BY DEF EndRevoked, EndReauth, EndRotate, GoesOn
<1>2. PICK e : e = [kind |-> "reauth"] /\ e \in Frame /\ ~ IsDetection(e)
  BY FramesAreTold
<1>3. << >> \in Seq(Frame) /\ DOMAIN << >> = {}
  OBVIOUS
<1>4. <<e>> \in Seq(Frame) /\ \A i \in DOMAIN <<e>> : ~ IsDetection(<<e>>[i])
  BY <1>2
<1>5. Ends(s, << >>) \/ Ends(s, <<e>>)
  BY <1>2 DEF EndRevoked, EndReauth, EndRotate
<1>6. CASE Ends(s, << >>)
  BY <1>1, <1>3, <1>6, EndsSound
<1>7. CASE Ends(s, <<e>>)
  BY <1>1, <1>4, <1>7, EndsSound
<1> QED BY <1>5, <1>6, <1>7

\* The bus is refreshed and nothing else happens.
LEMMA PumpSound ==
  ASSUME RingInv, HooksInv, WholeInv, Pump \/ Backfill
  PROVE  WholeInv'
<1>1. Refreshed(released) /\ stream' = Fed(released) /\ released' = released
  BY DEF Pump, Backfill
<1>2. released \in 0..MaxSeq /\ cursor <= released
  BY DEF WholeInv, RingInv
<1>3. ASSUME NEW t \in Streams PROVE Sound(stream'[t], TRUE, released)
  BY <1>1, <1>2, FedIsSound
<1>4. cursor' = released /\ primed' = TRUE /\ active' = TRUE
  BY <1>1 DEF Refreshed
<1> QED BY <1>1, <1>2, <1>3, <1>4 DEF WholeInv

LEMMA DetectSound ==
  ASSUME WholeInv, Detect
  PROVE  WholeInv'
<1>1. released' = released + 1 /\ released < MaxSeq /\ UNCHANGED <<bus, stream>>
  BY DEF Detect
<1>2. released' \in 0..MaxSeq
  BY <1>1, Constants DEF WholeInv
<1> QED BY <1>1, <1>2 DEF WholeInv, bus

-----------------------------------------------------------------------------
(* The replay.                                                             *)

\* A ring without a hole up to c that covers a point, and what comes after it.
Covers(g, c, from) ==
  /\ g \in Seq(Nat) /\ c \in 0..MaxSeq /\ Len(g) <= c
  /\ \A i \in 1..Len(g) : g[i] = c - Len(g) + i
  /\ from \in Nat /\ c - Len(g) <= from

After(W, from) == {d \in W : d > from}

\* Such a ring replays all there is after that point, in order.
LEMMA ReplayIsWhole ==
  ASSUME NEW g, NEW c, NEW from, Covers(g, c, from), NEW W \in SUBSET Seqs
  PROVE  LET R == Those(g, After(W, from))
         IN  R \in Seq(Seqs) /\ GoesUp(R) /\ Range(R) = W \cap Between(from, c)
<1> PICK S : S = After(W, from)
  OBVIOUS
<1>5. \A d : d \in S <=> d \in W /\ d > from
  BY DEF After
<1>11. /\ g \in Seq(Nat) /\ c \in 0..MaxSeq /\ Len(g) <= c
       /\ \A i \in 1..Len(g) : g[i] = c - Len(g) + i
       /\ from \in Nat /\ c - Len(g) <= from
  BY DEF Covers
<1>1. Len(g) \in Nat /\ DOMAIN g = 1..Len(g) /\ c \in Nat /\ c <= MaxSeq /\ MaxSeq \in Nat
  BY <1>11, Constants
<1>2. PICK L : L = Len(g)
  OBVIOUS
<1>3. \A i \in 1..L : g[i] = c - L + i /\ g[i] \in Seqs /\ g[i] <= c
  BY <1>1, <1>2, <1>11, Constants
<1>4. g \in Seq(Seqs)
  BY <1>1, <1>2, <1>3, <1>11
<1>6. Those(g, S) \in Seq(Seqs) /\ Range(Those(g, S)) = Range(g) \cap S
  BY <1>4, ThoseFacts
<1>7. GoesUp(g)
  <2>1. \A i, j \in 1..L : i < j => c - L + i < c - L + j
    BY <1>1, <1>2
  <2>2. \A i, j \in 1..L : i < j => g[i] < g[j]
    BY <1>3, <2>1
  <2> QED BY <1>2, <2>2 DEF GoesUp
<1>8. GoesUp(Those(g, S))
  BY <1>7, <1>11, ThoseGoUp
<1>9. ASSUME NEW d \in Range(g) \cap S PROVE d \in W \cap Between(from, c)
  <2>1. PICK i \in 1..L : d = g[i]
    BY <1>1, <1>2 DEF Range
  <2> QED BY <1>3, <1>5, <2>1 DEF Between
<1>10. ASSUME NEW d \in W \cap Between(from, c) PROVE d \in Range(g) \cap S
  <2>1. d \in Seqs /\ d \in Nat /\ from < d /\ d <= c
    BY Constants DEF Between
  <2>2. PICK i : i = d - (c - L)
    OBVIOUS
  <2>3. i \in 1..L /\ c - L + i = d
    BY <1>1, <1>2, <1>11, <2>1, <2>2
  <2>4. g[i] = d /\ i \in DOMAIN g
    BY <1>1, <1>2, <1>3, <2>3
  <2>5. d \in Range(g)
    BY <2>4 DEF Range
  <2> QED BY <1>5, <2>1, <2>5
<1> QED BY <1>6, <1>8, <1>9, <1>10

\* The frames of a replay are in order, and none is newer than its last one.
LEMMA ReplayIsOrdered ==
  ASSUME NEW R \in Seq(Seqs), GoesUp(R), R # << >>,
         NEW w, w = [i \in DOMAIN R |-> [kind |-> "detection", seq |-> R[i]]]
  PROVE  /\ w \in Seq(Frame) /\ Last(R) \in Range(R) /\ Ordered(w, Last(R))
         /\ \A d \in Range(R) : d <= Last(R)
         /\ \A i \in DOMAIN w : IsDetection(w[i]) => w[i].seq > 0
<1>1. /\ Len(R) \in Nat /\ Len(R) # 0 /\ DOMAIN R = 1..Len(R) /\ \A i \in 1..Len(R) : R[i] \in Seqs
      /\ Len(R) \in 1..Len(R)
  OBVIOUS
<1>2. Last(R) = R[Len(R)]
  BY DEF Last
<1>3. ASSUME NEW i \in 1..Len(R) PROVE w[i] \in Frame /\ IsDetection(w[i]) /\ w[i].seq = R[i]
  <2>1. w[i] = [kind |-> "detection", seq |-> R[i]]
    BY <1>1
  <2> QED BY <1>1, <2>1, FramesAreTold
<1>4. w \in [1..Len(R) -> Frame]
  BY <1>1, <1>3
<1>5. w \in Seq(Frame) /\ DOMAIN w = 1..Len(R)
  BY <1>1, <1>4
<1>6. ASSUME NEW i \in 1..Len(R) PROVE R[i] <= R[Len(R)] /\ R[i] \in Nat /\ R[i] > 0
  <2>1. R[i] \in Nat /\ R[i] > 0 /\ R[Len(R)] \in Nat
    BY <1>1, Constants
  <2>2. CASE i = Len(R)
    BY <2>1, <2>2
  <2>3. CASE i # Len(R)
    <3>1. i < Len(R)
      <4>1. PICK n \in Nat : n = Len(R)
        BY <1>1
      <4>2. i \in 1..n
        BY <4>1
      <4> QED BY <2>3, <4>1, <4>2
    <3>2. R[i] < R[Len(R)]
      BY <1>1, <3>1 DEF GoesUp
    <3> QED BY <2>1, <3>2
  <2> QED BY <2>2, <2>3
<1>7. Ordered(w, Last(R))
  BY <1>2, <1>3, <1>5, <1>6 DEF Ordered, GoesUp
<1>8. Last(R) \in Range(R)
  BY <1>1, <1>2 DEF Range
<1>9. \A d \in Range(R) : d <= Last(R)
  BY <1>1, <1>2, <1>6 DEF Range
<1>10. \A i \in DOMAIN w : IsDetection(w[i]) => w[i].seq > 0
  BY <1>3, <1>5, <1>6
<1> QED BY <1>5, <1>7, <1>8, <1>9, <1>10

\* What becomes of a request that is opening, when it goes on from l with w on
\* its way.
LEMMA ResumedIsSound ==
  ASSUME NEW x, x # Unused, NEW c, Sound(x, TRUE, c), NEW l \in 0..MaxSeq,
         NEW w \in Seq(Frame), Ordered(w, l),
         x.listens => Wants[x.family] \cap Between(l, c) \subseteq Range(x.queue) \cup x.lost
  PROVE  Sound([x EXCEPT !.phase = "sending", !.head = 0, !.resume = 0, !.last = l, !.wire = w], TRUE, c)
<1> DEFINE r == [x EXCEPT !.phase = "sending", !.head = 0, !.resume = 0, !.last = l, !.wire = w]
<1>1. x \in Stream /\ Len(x.queue) <= QueueSize
  BY DEF Sound
<1>2. 0 \in 0..None /\ 0 \in 0..MaxSeq
  BY Constants DEF None
<1>3. /\ r \in Stream /\ r.phase = "sending" /\ r.last = l /\ r.queue = x.queue
      /\ r.lost = x.lost /\ r.wire = w /\ r.listens = x.listens /\ r.family = x.family
  BY <1>1, <1>2 DEF Stream, Phases
<1> HIDE DEF r
<1>4. InStep(r, c)
  BY <1>3 DEF InStep
<1> QED BY <1>1, <1>3, <1>4 DEF Sound, r

-----------------------------------------------------------------------------
(* Streams are whole.                                                      *)

LEMMA ResumeSound ==
  ASSUME RingInv, HooksInv, WholeInv, RingInv', NEW s \in Streams, ResumeAt(s)
  PROVE  WholeInv'
<1>1. PICK c : c = released
  OBVIOUS
<1>2. c \in 0..MaxSeq /\ cursor <= c /\ cursor' = c /\ primed' = TRUE /\ active' = TRUE /\ released' = c
  BY <1>1 DEF WholeInv, RingInv, ResumeAt, Refreshed
<1>3. PICK old, x, g : old = Fed(c) /\ x = old[s] /\ g = ring'
  OBVIOUS
<1>4. /\ DOMAIN old = Streams /\ x # Unused /\ Sound(x, TRUE, c) /\ x \in Stream
      /\ x.phase = "opening" /\ x.resume # None
      /\ x.family = stream[s].family /\ x.resume = stream[s].resume /\ x.head = stream[s].head
  <2>1. Used(s) /\ stream[s].phase = "opening" /\ stream[s].resume # None
    BY DEF ResumeAt
  <2>2. DOMAIN old = Streams
    BY <1>3 DEF Fed
  <2>3. /\ Sound(x, TRUE, c) /\ x # Unused
        /\ x.phase = stream[s].phase /\ x.family = stream[s].family
        /\ x.resume = stream[s].resume /\ x.head = stream[s].head
    BY <1>2, <1>3, <2>1, FedIsSound
  <2>4. x \in Stream
    BY <2>3 DEF Sound
  <2> QED BY <2>1, <2>2, <2>3, <2>4
<1>5. /\ x.resume \in 0..MaxSeq /\ x.head \in 0..MaxSeq /\ x.family \in Families
      /\ x.wire \in Seq(Frame) /\ Wants[x.family] \in SUBSET Seqs
      /\ \A i \in DOMAIN x.wire : ~ IsDetection(x.wire[i])
      /\ x.listens => Wants[x.family] \cap Between(x.head, c) \subseteq Range(x.queue) \cup x.lost
  <2>1. x.resume \in 0..MaxSeq /\ x.head \in 0..MaxSeq /\ x.family \in Families /\ x.wire \in Seq(Frame)
    BY <1>4, Constants DEF Stream, None
  <2>2. InStep(x, c) /\ \A i \in DOMAIN x.wire : ~ IsDetection(x.wire[i])
    BY <1>4 DEF Sound
  <2>3. x.listens => Wants[x.family] \cap Between(x.head, c) \subseteq Range(x.queue) \cup x.lost
    BY <1>4, <2>2 DEF InStep
  <2> QED BY <2>1, <2>2, <2>3, Constants
<1>6. /\ g \in Seq(Nat) /\ Len(g) \in Nat /\ Len(g) = IF c < RingSize THEN c ELSE RingSize
      /\ \A i \in 1..Len(g) : g[i] = c - Len(g) + i
  <2>1. ring' \in Seq(Nat) /\ RingIsContiguous'
    BY DEF RingInv
  <2>2. Len(ring') = IF cursor' < RingSize THEN cursor' ELSE RingSize
    BY <1>2, <2>1 DEF RingIsContiguous
  <2>3. \A i \in DOMAIN ring' : ring'[i] = cursor' - Len(ring') + i
    BY <2>1 DEF RingIsContiguous
  <2>4. DOMAIN ring' = 1..Len(ring') /\ Len(ring') \in Nat
    BY <2>1
  <2> QED BY <1>2, <1>3, <2>1, <2>2, <2>3, <2>4
<1>7. Len(g) <= c /\ c \in Nat
  BY <1>2, <1>6, Constants, StreamConstants
<1>8. PICK R : R = Those(g, {d \in Wants[x.family] : d > x.resume})
  OBVIOUS
<1>9. Replayed(s) = R
  BY <1>3, <1>4, <1>8 DEF Replayed
<1>10. PICK more : more = IF TooOld(s) THEN <<[kind |-> "reset", last |-> x.head]>>
                          ELSE [i \in DOMAIN R |-> [kind |-> "detection", seq |-> R[i]]]
  OBVIOUS
<1>11. PICK l : l = IF TooOld(s) THEN x.head ELSE IF R = << >> THEN x.resume ELSE Last(R)
  OBVIOUS
<1>12. PICK w : w = x.wire \o more
  OBVIOUS
<1>13. stream' = [old EXCEPT ![s] = [x EXCEPT !.phase = "sending", !.head = 0, !.resume = 0,
                                              !.last = l, !.wire = w]]
  <2>1. stream' = [old EXCEPT ![s].phase = "sending", ![s].head = 0, ![s].resume = 0,
                              ![s].last = l, ![s].wire = @ \o more]
    BY <1>1, <1>3, <1>4, <1>9, <1>10, <1>11 DEF ResumeAt
  <2> QED BY <1>3, <1>4, <1>12, <2>1 DEF Stream
<1>14. Ordered(x.wire, 0) /\ Ordered(x.wire, x.head) /\ Ordered(x.wire, x.resume)
  BY <1>5 DEF Ordered
<1>15. /\ l \in 0..MaxSeq /\ w \in Seq(Frame) /\ Ordered(w, l)
       /\ x.listens => Wants[x.family] \cap Between(l, c) \subseteq Range(x.queue) \cup x.lost
  <2>1. CASE TooOld(s)
    <3>1. PICK e : e = [kind |-> "reset", last |-> x.head] /\ e \in Frame /\ ~ IsDetection(e)
      BY <1>5, FramesAreTold
    <3>2. more = <<e>> /\ l = x.head
      BY <1>10, <1>11, <2>1, <3>1
    <3>3. more \in Seq(Frame) /\ \A i \in DOMAIN more : ~ IsDetection(more[i])
      BY <3>1, <3>2
    <3>4. x.head \in Nat
      BY <1>5, Constants
    <3>5. w \in Seq(Frame) /\ Ordered(w, l)
      BY <1>5, <1>12, <1>14, <3>2, <3>3, <3>4, OrderedPlain
    <3> QED BY <1>5, <3>2, <3>5
  <2>2. CASE ~ TooOld(s)
    <3>1. x.resume \in Nat
      BY <1>5, Constants
    <3>2. c - Len(g) <= x.resume
      <4>1. CASE g = << >>
        <5>1. Len(g) = 0
          BY <4>1
        <5>2. c = 0
          BY <1>6, <1>7, <5>1, StreamConstants
        <5> QED BY <3>1, <5>1, <5>2
      <4>2. CASE g # << >>
        <5>1. Oldest = Head(g) /\ Head(g) = g[1] /\ 1 \in 1..Len(g)
          BY <1>3, <1>6, <4>2 DEF Oldest
        <5>2. Oldest = c - Len(g) + 1
          BY <1>6, <5>1
        <5>3. ~ (Oldest > 0 /\ x.resume < Oldest - 1)
          BY <1>4, <2>2 DEF TooOld
        <5> QED BY <1>6, <1>7, <3>1, <5>2, <5>3
      <4> QED BY <4>1, <4>2
    <3>3. R \in Seq(Seqs) /\ GoesUp(R) /\ Range(R) = Wants[x.family] \cap Between(x.resume, c)
      <4>1. PICK W, from : W = Wants[x.family] /\ from = x.resume
        OBVIOUS
      <4>2. W \in SUBSET Seqs /\ from \in Nat /\ c - Len(g) <= from
        BY <1>5, <3>1, <3>2, <4>1
      <4>3. R = Those(g, After(W, from))
        BY <1>8, <4>1 DEF After
      <4>4. Covers(g, c, from)
        BY <1>2, <1>6, <1>7, <4>2 DEF Covers
      <4>5. /\ Those(g, After(W, from)) \in Seq(Seqs) /\ GoesUp(Those(g, After(W, from)))
            /\ Range(Those(g, After(W, from))) = W \cap Between(from, c)
        BY <4>2, <4>4, ReplayIsWhole
      <4> QED BY <4>1, <4>3, <4>5
    <3>4. more = [i \in DOMAIN R |-> [kind |-> "detection", seq |-> R[i]]]
      BY <1>10, <2>2
    <3>5. CASE R = << >>
      <4>1. l = x.resume /\ DOMAIN R = {} /\ Range(R) = {}
        BY <1>11, <2>2, <3>5 DEF Range
      <4>2. more = << >>
        BY <3>4, <4>1
      <4>3. more \in Seq(Frame) /\ DOMAIN more = {}
        BY <4>2
      <4>4. w \in Seq(Frame) /\ Ordered(w, l)
        BY <1>5, <1>12, <1>14, <3>1, <4>1, <4>3, OrderedPlain
      <4> QED BY <1>5, <3>3, <4>1, <4>4
    <3>6. CASE R # << >>
      <4>1. /\ more \in Seq(Frame) /\ Last(R) \in Range(R) /\ Ordered(more, Last(R))
            /\ \A d \in Range(R) : d <= Last(R)
            /\ \A i \in DOMAIN more : IsDetection(more[i]) => more[i].seq > 0
        BY <3>3, <3>4, <3>6, ReplayIsOrdered
      <4>2. l = Last(R)
        BY <1>11, <2>2, <3>6
      <4>3. l \in Nat /\ l \in 0..MaxSeq /\ 0 <= l /\ l > x.resume
        BY <3>3, <4>1, <4>2, Constants DEF Between
      <4>4. w \in Seq(Frame) /\ Ordered(w, l)
        BY <1>5, <1>12, <1>14, <4>1, <4>2, <4>3, OrderedConcat
      <4>5. Wants[x.family] \cap Between(l, c) = {}
        <5>1. ASSUME NEW d \in Wants[x.family] \cap Between(l, c) PROVE FALSE
          <6>1. d \in Nat /\ l < d /\ d \in Between(x.resume, c)
            BY <3>1, <4>3, Constants DEF Between
          <6>2. d \in Range(R)
            BY <3>3, <6>1
          <6> QED BY <4>1, <4>2, <4>3, <6>1, <6>2
        <5> QED BY <5>1
      <4> QED BY <4>3, <4>4, <4>5
    <3> QED BY <3>5, <3>6
  <2> QED BY <2>1, <2>2
<1>16. ASSUME NEW t \in Streams PROVE Sound(stream'[t], TRUE, c)
  <2>1. CASE t = s
    <3>1. PICK r : r = [x EXCEPT !.phase = "sending", !.head = 0, !.resume = 0, !.last = l, !.wire = w]
      OBVIOUS
    <3>2. Sound(r, TRUE, c)
      BY <1>4, <1>15, <3>1, ResumedIsSound
    <3> QED BY <1>4, <1>13, <2>1, <3>1, <3>2
  <2>2. CASE t # s
    <3>1. stream'[t] = old[t]
      BY <1>4, <1>13, <2>2
    <3> QED BY <1>2, <1>3, <3>1, FedIsSound
  <2> QED BY <2>1, <2>2
<1> QED BY <1>2, <1>16 DEF WholeInv

LEMMA WholeStep ==
  ASSUME RingInv, HooksInv, WholeInv, RingInv', [StreamNext]_vars
  PROVE  WholeInv'
<1>1. CASE UNCHANGED vars
  BY <1>1 DEF vars, bus, WholeInv
<1>2. CASE Detect
  BY <1>2, DetectSound
<1>3. CASE Pump \/ Backfill
  BY <1>3, PumpSound
<1>4. CASE ResetState
  BY <1>4, ResetSound
<1>5. CASE \E f \in Families : Revoke(f)
  BY <1>5, RevokeSound
<1>6. ASSUME NEW s \in Streams, Serve(s) \/ EndRotate(s) \/ Expire(s) \/ Client(s)
      PROVE  WholeInv'
  <2>1. cursor \in Nat
    BY DEF RingInv
  <2>2. CASE Begin(s)
    BY <2>2, BeginSound
  <2>3. CASE ResumeAt(s)
    BY <2>3, ResumeSound
  <2>4. CASE StartAtHead(s)
    BY <2>4, StartSound
  <2>5. CASE Deliver(s) \/ DeliverLast(s)
    BY <2>1, <2>5, DeliverSound, DeliverLastSound
  <2>6. CASE Wait(s)
    BY <2>6, WaitSound
  <2>7. CASE EndRevoked(s) \/ EndReauth(s) \/ EndRotate(s)
    BY <2>7, StopSound
  <2>8. CASE Expire(s)
    BY <2>8, ExpireSound
  <2>9. CASE TakeFrame(s)
    BY <2>9, TakeSound
  <2>10. CASE ClientGone(s)
    BY <2>10, GoneSound
  <2>11. CASE \E f \in Families, resume \in (0..cursor) \cup {None} : Connect(s, f, resume)
    <3>1. (0..cursor) \cup {None} \subseteq 0..None
      BY Constants DEF None, RingInv, WholeInv
    <3> QED BY <2>11, <3>1, ConnectSound
  <2> QED BY <1>6, <2>2, <2>3, <2>4, <2>5, <2>6, <2>7, <2>8, <2>9, <2>10, <2>11 DEF Serve, Client
<1> QED BY <1>1, <1>2, <1>3, <1>4, <1>5, <1>6 DEF StreamNext, World

\* The three invariants say all of what a whole stream is.
LEMMA WholeFacts ==
  ASSUME RingInv, HooksInv, WholeInv
  PROVE  StreamsAreWhole
<1>1. ring \in Seq(Seqs) /\ Len(ring) <= RingSize
  <2>1. /\ ring \in Seq(Nat) /\ Len(ring) \in Nat /\ DOMAIN ring = 1..Len(ring)
        /\ \A i \in 1..Len(ring) : ring[i] = cursor - Len(ring) + i
    <3>1. ring \in Seq(Nat) /\ \A i \in DOMAIN ring : ring[i] = cursor - Len(ring) + i
      BY DEF RingInv, RingIsContiguous
    <3>2. Len(ring) \in Nat /\ DOMAIN ring = 1..Len(ring)
      BY <3>1
    <3> QED BY <3>1, <3>2
  <2>2. Len(ring) = IF cursor < RingSize THEN cursor ELSE RingSize
    <3>1. CASE primed
      BY <3>1 DEF RingInv, RingIsContiguous
    <3>2. CASE ~ primed
      <4>1. ring = << >> /\ cursor = 0
        BY <3>2 DEF RingInv
      <4> QED BY <4>1, StreamConstants
    <3> QED BY <3>1, <3>2 DEF RingInv
  <2>3. PICK L : L = Len(ring)
    OBVIOUS
  <2>4. cursor \in Nat /\ cursor <= MaxSeq /\ L \in Nat /\ L <= cursor /\ L <= RingSize
    BY <2>1, <2>2, <2>3, StreamConstants DEF RingInv, WholeInv
  <2>5. \A i \in 1..L : ring[i] \in Seqs
    BY <2>1, <2>3, <2>4, Constants
  <2> QED BY <2>1, <2>3, <2>4, <2>5
<1>2. ASSUME NEW s \in Streams, stream[s] # Unused
      PROVE  /\ stream[s] \in Stream /\ Len(stream[s].queue) <= QueueSize
             /\ InStep(stream[s], cursor) /\ Ordered(stream[s].wire, stream[s].last)
  BY <1>2 DEF WholeInv, Sound
<1>3. StreamTypeOK
  <2>1. cursor \in 0..released /\ released \in 0..MaxSeq /\ primed \in BOOLEAN /\ active \in BOOLEAN
    BY DEF RingInv, WholeInv
  <2> QED BY <1>1, <1>2, <2>1 DEF StreamTypeOK, HooksInv
<1>4. NothingBetween
  BY <1>2 DEF NothingBetween, Used, InStep
<1>5. WireInOrder
  BY <1>2 DEF WireInOrder, Used, Ordered, IsDetection
<1> QED BY <1>3, <1>4, <1>5 DEF StreamsAreWhole

LEMMA StreamBegins == StreamInit => RingInv /\ HooksInv /\ WholeInv
<1> SUFFICES ASSUME StreamInit PROVE RingInv /\ HooksInv /\ WholeInv
  OBVIOUS
<1>1. HooksInv
  BY DEF StreamInit, HooksInv, HooksCover, Listening, Used, Shaped, Unused
<1>2. ring = << >> /\ cursor = 0 /\ primed = FALSE /\ released = 0 /\ active = FALSE
  BY DEF StreamInit
<1>3. RingIsContiguous /\ ring \in Seq(Nat)
  BY <1>2, EmptyRing
<1>4. RingInv
  <2>1. released \in Nat /\ cursor \in Nat /\ cursor <= released
    BY <1>2
  <2>2. primed \in BOOLEAN
    BY <1>2
  <2> QED BY <1>2, <1>3, <2>1, <2>2 DEF RingInv
<1>5. WholeInv
  BY <1>2, Constants DEF WholeInv, Sound, StreamInit
<1> QED BY <1>1, <1>4, <1>5

\* At every await a stream is whole: whatever it has yet to send lies on its
\* queue or was counted as lost, and what is under way is in order and once
\* (event_stream, Subscription.push, DetectionBus.replay).
THEOREM NothingIsLost == StreamSpec => []StreamsAreWhole
<1> DEFINE Inv == RingInv /\ HooksInv /\ WholeInv
<1>1. StreamInit => Inv
  BY StreamBegins
<1>2. Inv /\ [StreamNext]_vars => Inv'
  BY RingStep, HooksStep, WholeStep
<1>3. Inv => StreamsAreWhole
  BY WholeFacts
<1> QED BY <1>1, <1>2, <1>3, PTL DEF StreamSpec

-----------------------------------------------------------------------------
(* The queue of a request, as the feed of the web app needs it.            *)

\* Numbers that go up, and greater ones that go up.
LEMMA ConcatGoesUp ==
  ASSUME NEW a \in Seq(Nat), NEW b \in Seq(Nat), GoesUp(a), GoesUp(b),
         \A i \in 1..Len(a), j \in 1..Len(b) : a[i] < b[j]
  PROVE  a \o b \in Seq(Nat) /\ GoesUp(a \o b)
<1> DEFINE ab == a \o b
<1>1. /\ ab \in Seq(Nat) /\ Len(ab) = Len(a) + Len(b) /\ Len(a) \in Nat /\ Len(b) \in Nat
      /\ \A i \in 1..Len(a) + Len(b) : ab[i] = IF i <= Len(a) THEN a[i] ELSE b[i - Len(a)]
  BY ConcatProperties
<1> HIDE DEF ab
<1>2. ASSUME NEW i \in 1..Len(a) + Len(b), NEW j \in 1..Len(a) + Len(b), i < j PROVE ab[i] < ab[j]
  <2>1. CASE j <= Len(a)
    <3>1. i \in 1..Len(a) /\ j \in 1..Len(a) /\ ab[i] = a[i] /\ ab[j] = a[j]
      BY <1>1, <1>2, <2>1
    <3> QED BY <1>2, <3>1 DEF GoesUp
  <2>2. CASE i <= Len(a) /\ ~ (j <= Len(a))
    <3>1. i \in 1..Len(a) /\ j - Len(a) \in 1..Len(b) /\ ab[i] = a[i] /\ ab[j] = b[j - Len(a)]
      BY <1>1, <2>2
    <3> QED BY <3>1
  <2>3. CASE ~ (i <= Len(a))
    <3>1. PICK m, n : m = i - Len(a) /\ n = j - Len(a)
      OBVIOUS
    <3>2. Len(a) \in Nat /\ Len(b) \in Nat
      BY <1>1
    <3>3. m \in 1..Len(b) /\ n \in 1..Len(b) /\ m < n
      BY <1>2, <2>3, <3>1, <3>2
    <3>4. ~ (j <= Len(a))
      BY <1>2, <2>3, <3>2
    <3>5. ab[i] = b[m] /\ ab[j] = b[n]
      BY <1>1, <2>3, <3>1, <3>4
    <3> QED BY <3>3, <3>5 DEF GoesUp
  <2> QED BY <1>1, <2>1, <2>2, <2>3
<1> QED BY <1>1, <1>2 DEF GoesUp, ab

\* The newest of numbers that go up go up.
LEMMA LastOfGoesUp ==
  ASSUME NEW seq \in Seq(Nat), NEW n \in Nat \ {0}, GoesUp(seq)
  PROVE  GoesUp(LastOf(seq, n)) /\ Range(LastOf(seq, n)) \subseteq Range(seq)
<1> DEFINE l == LastOf(seq, n)
           k == Len(seq) - Len(l)
<1>1. /\ l \in Seq(Nat) /\ (Len(l) = IF Len(seq) <= n THEN Len(seq) ELSE n)
      /\ \A i \in 1..Len(l) : l[i] = seq[Len(seq) - Len(l) + i]
  BY LastOfFacts
<1> HIDE DEF l
<1>2. Len(seq) \in Nat /\ Len(l) \in Nat /\ Len(l) <= Len(seq) /\ DOMAIN l = 1..Len(l) /\ DOMAIN seq = 1..Len(seq)
  BY <1>1
<1>3. k \in Nat /\ Len(seq) = k + Len(l) /\ \A i \in 1..Len(l) : l[i] = seq[k + i]
  <2>1. k \in Nat /\ Len(seq) = k + Len(l)
    BY <1>2
  <2> QED BY <1>1, <2>1
<1> HIDE DEF k
<1>4. \A i \in 1..Len(l) : k + i \in 1..Len(seq)
  BY <1>2, <1>3
<1>5. \A i, j \in 1..Len(l) : i < j => k + i < k + j
  BY <1>2, <1>3
<1>6. GoesUp(l)
  BY <1>3, <1>4, <1>5 DEF GoesUp
<1>7. Range(l) \subseteq Range(seq)
  BY <1>2, <1>3, <1>4 DEF Range
<1> QED BY <1>6, <1>7 DEF l

LEMMA NumbersAreNumbers ==
  ASSUME NEW q \in Seq(Seqs)
  PROVE  q \in Seq(Nat)
<1>1. \A i \in 1..Len(q) : q[i] \in Nat
  BY Constants
<1>2. Len(q) \in Nat /\ q \in [1..Len(q) -> Nat]
  BY <1>1
<1> QED BY <1>2

SentUpTo(r) == IF r.phase = "opening" THEN r.head ELSE r.last

\* Between what was sent and the newest in the queue nothing is missing but what
\* was lost; a request keeps that when it is told to listen no more.
NoHole(r) ==
  \A e \in Range(r.queue) : \A d \in Wants[r.family] :
    SentUpTo(r) < d /\ d < e => d \in Range(r.queue) \cup r.lost

\* The queue of a request, of a bus that has come up to c in a capture that has
\* come up to n.
Tidy(r, c, n) ==
  \/ r = Unused
  \/ /\ GoesUp(r.queue)
     /\ Range(r.queue) \cup r.lost \subseteq Wants[r.family]
     /\ \A d \in Range(r.queue) \cup r.lost : d <= n
     /\ r.listens => \A d \in Range(r.queue) : d <= c
     /\ NoHole(r)
     /\ r.head <= n /\ r.last <= n
     /\ r.phase = "authorized" => r.queue = << >> /\ r.lost = {}

LEMMA InStepHasNoHole ==
  ASSUME NEW r \in Stream, NEW c \in Nat, r.listens, InStep(r, c), \A d \in Range(r.queue) : d <= c
  PROVE  NoHole(r)
<1>1. ASSUME NEW e \in Range(r.queue), NEW d \in Wants[r.family], SentUpTo(r) < d, d < e
      PROVE  d \in Range(r.queue) \cup r.lost
  <2>1. r.queue \in Seq(Seqs) /\ r.family \in Families
    BY DEF Stream
  <2>2. e \in Seqs /\ d \in Seqs /\ e <= c
    BY <2>1, Constants DEF Range
  <2>3. d \in Between(SentUpTo(r), c)
    BY <1>1, <2>2, Constants DEF Between
  <2> QED BY <2>3 DEF InStep, SentUpTo
<1> QED BY <1>1 DEF NoHole

LEMMA FromGoesUp ==
  ASSUME NEW a \in Nat, NEW b \in Nat, a <= b
  PROVE  From(a, b) \in Seq(Nat) /\ GoesUp(From(a, b))
<1>1. b - a \in Nat /\ Len(From(a, b)) = b - a /\ \A i \in 1..b - a : From(a, b)[i] = a + i
  BY DEF From
<1>2. From(a, b) \in Seq(Nat)
  BY <1>1 DEF From
<1>3. \A i, j \in 1..b - a : i < j => a + i < a + j
  BY <1>1
<1> QED BY <1>1, <1>2, <1>3 DEF GoesUp

\* What a push makes of a queue.
LEMMA PushedQueue ==
  ASSUME NEW q \in Seq(Seqs), GoesUp(q), NEW a \in Nat, NEW b \in 0..MaxSeq, a <= b,
         \A d \in Range(q) : d <= a, NEW W
  PROVE  LET all == q \o Those(From(a, b), W)
         IN  /\ GoesUp(LastOf(all, QueueSize))
             /\ Range(LastOf(all, QueueSize)) \subseteq Range(all)
             /\ Range(all) \subseteq Range(q) \cup (W \cap Between(a, b))
<1>1. PICK f, m, all : f = From(a, b) /\ m = Those(f, W) /\ all = q \o m
  OBVIOUS
<1>2. f \in Seq(Nat) /\ GoesUp(f) /\ f \in Seq(Seqs) /\ Range(f) = Between(a, b)
  BY <1>1, FromGoesUp, FromFacts, Constants
<1>3. m \in Seq(Seqs) /\ Range(m) = Between(a, b) \cap W /\ GoesUp(m)
  BY <1>1, <1>2, ThoseFacts, ThoseGoUp
<1>4. q \in Seq(Nat) /\ m \in Seq(Nat)
  BY <1>3, NumbersAreNumbers
<1>5. \A i \in 1..Len(q), j \in 1..Len(m) : q[i] < m[j]
  <2>1. ASSUME NEW i \in 1..Len(q), NEW j \in 1..Len(m) PROVE q[i] < m[j]
    <3>1. q[i] \in Range(q) /\ m[j] \in Range(m) /\ q[i] \in Nat /\ m[j] \in Nat
      BY <1>4 DEF Range
    <3>2. q[i] <= a /\ a < m[j]
      BY <1>3, <3>1 DEF Between
    <3> QED BY <3>1, <3>2
  <2> QED BY <2>1
<1>6. all \in Seq(Nat) /\ GoesUp(all)
  BY <1>1, <1>3, <1>4, <1>5, ConcatGoesUp
<1>7. Range(all) = Range(q) \cup Range(m)
  BY <1>1, <1>3, RangeConcatenation
<1>8. GoesUp(LastOf(all, QueueSize)) /\ Range(LastOf(all, QueueSize)) \subseteq Range(all)
  BY <1>6, LastOfGoesUp, Constants
<1> QED BY <1>1, <1>3, <1>7, <1>8

LEMMA PushedIsTidy ==
  ASSUME NEW r, r # Unused, NEW a \in Nat, NEW b \in 0..MaxSeq, a <= b, Sound(r, TRUE, a),
         NEW n \in Nat, Tidy(r, a, n), NEW m \in Nat, n <= m, b <= m
  PROVE  Tidy(Pushed(r, a, b), b, m)
<1>1. PICK p : p = Pushed(r, a, b)
  OBVIOUS
<1>2. r \in Stream /\ Len(r.queue) <= QueueSize /\ (r.phase = "authorized" => ~ r.listens)
  BY DEF Sound
<1>3. r.queue \in Seq(Seqs) /\ r.head \in Nat /\ r.last \in Nat /\ r.lost \subseteq Seqs /\ r.family \in Families
  BY <1>2, Constants DEF Stream
<1>4. \A d \in Range(r.queue) \cup r.lost : d \in Nat /\ d <= m
  <2>1. \A d \in Range(r.queue) \cup r.lost : d \in Nat
    BY <1>3, Constants DEF Range
  <2> QED BY <2>1 DEF Tidy
<1>5. CASE ~ r.listens
  <2>1. p = r
    BY <1>1, <1>5 DEF Pushed
  <2> QED BY <1>1, <1>3, <1>4, <1>5, <2>1 DEF Tidy
<1>6. CASE r.listens
  <2>1. PICK W, all, kept : /\ W = Wants[r.family] /\ all = r.queue \o Those(From(a, b), W)
                            /\ kept = LastOf(all, QueueSize)
    OBVIOUS
  <2>2. p = [r EXCEPT !.queue = kept, !.lost = r.lost \cup (Range(all) \ Range(kept))]
    BY <1>1, <1>2, <1>6, <2>1 DEF Pushed, Queued, Stream
  <2>3. GoesUp(kept) /\ Range(kept) \subseteq Range(all) /\ Range(all) \subseteq Range(r.queue) \cup (W \cap Between(a, b))
    BY <1>3, <1>6, <2>1, PushedQueue DEF Tidy
  <2>4. Sound(p, TRUE, b) /\ p # Unused
    <3>1. p \in Stream
      BY <1>1, <1>2, PushTellsAll
    <3> QED BY <1>1, <3>1, PushedIsSound, UnusedIsNone
  <2>5. /\ p.queue = kept /\ p.lost = r.lost \cup (Range(all) \ Range(kept)) /\ p.family = r.family
        /\ p.listens /\ p.head = r.head /\ p.last = r.last /\ p.phase = r.phase
    BY <1>2, <1>6, <2>2 DEF Stream
  <2>6. \A d \in Range(kept) : d <= b
    <3>1. \A d \in Range(r.queue) : d <= b
      <4>1. \A d \in Range(r.queue) : d <= a
        BY <1>6 DEF Tidy
      <4> QED BY <1>4, <4>1, Constants
    <3> QED BY <2>3, <3>1 DEF Between
  <2>7. NoHole(p)
    BY <2>4, <2>5, <2>6, InStepHasNoHole, Constants DEF Sound
  <2>8. \A d \in Range(p.queue) \cup p.lost : d \in W /\ d <= m
    <3>1. \A d \in W \cap Between(a, b) : d <= m
      BY Constants DEF Between
    <3>2. \A d \in Range(r.queue) \cup r.lost : d \in W
      BY <2>1 DEF Tidy
    <3> QED BY <1>4, <2>3, <2>5, <3>1, <3>2
  <2>9. r.head <= m /\ r.last <= m
    BY <1>3 DEF Tidy
  <2> QED BY <1>1, <1>2, <1>6, <2>1, <2>3, <2>5, <2>6, <2>7, <2>8, <2>9 DEF Tidy
<1> QED BY <1>5, <1>6

\* A request that does not listen, or no longer does.
LEMMA SilentIsTidy ==
  ASSUME NEW r, NEW c, NEW n \in Nat, Tidy(r, c, n), r # Unused, r \in Stream, NEW m \in Nat, n <= m, NEW b,
         NEW x \in Stream, ~ x.listens,
         x.phase = r.phase /\ x.family = r.family /\ x.head = r.head /\ x.last = r.last
           /\ x.queue = r.queue /\ x.lost = r.lost
  PROVE  Tidy(x, b, m)
<1>1. r.queue \in Seq(Seqs) /\ r.head \in Nat /\ r.last \in Nat /\ r.lost \subseteq Seqs
  BY Constants DEF Stream
<1>2. \A d \in Range(r.queue) \cup r.lost : d \in Nat
  BY <1>1, Constants DEF Range
<1>3. NoHole(x)
  BY DEF Tidy, NoHole, SentUpTo
<1>4. \A d \in Range(r.queue) \cup r.lost : d <= m
  BY <1>2 DEF Tidy
<1>5. r.head <= m /\ r.last <= m
  BY <1>1 DEF Tidy
<1> QED BY <1>3, <1>4, <1>5 DEF Tidy

-----------------------------------------------------------------------------
(* What the connection of the feed has on its way.                         *)

IsOpen(f) == f.kind = "open"
IsReset(f) == f.kind = "reset"

\* Frames that were sent after b: the comment comes first, then a reset, then what
\* is newer than it; l is the last of what was sent.
FramesFit(w, W, b, l) ==
  \A i \in DOMAIN w :
    /\ IsOpen(w[i]) => i = 1
    /\ IsDetection(w[i]) => w[i].seq \in W /\ b < w[i].seq
    /\ IsReset(w[i]) =>
         /\ b <= w[i].last /\ w[i].last <= l
         /\ \A j \in DOMAIN w : /\ IsDetection(w[j]) => i < j /\ w[i].last < w[j].seq
                                /\ IsReset(w[j]) => i = j

\* A detection is on its way, or a frame that says it is not.
Brings(w, d) ==
  \E i \in DOMAIN w : \/ IsDetection(w[i]) /\ w[i].seq = d
                      \/ IsReset(w[i]) /\ d <= w[i].last

AllComes(w, W, b, l, lost) == \A d \in W : b < d /\ d <= l => d \in lost \/ Brings(w, d)

\* A feed that knows of nothing yet starts at the head the comment names.
Base(w, k) == IF k = None THEN w[1].head ELSE k

\* What is on its way leads a feed that knows of everything up to k to l.
Leads(w, W, l, lost, k) ==
  /\ k = None => w # << >> /\ IsOpen(w[1]) /\ \A i \in DOMAIN w : ~ IsReset(w[i])
  /\ Base(w, k) <= l
  /\ FramesFit(w, W, Base(w, k), l)
  /\ AllComes(w, W, Base(w, k), l, lost)

\* Every frame is of one kind.
LEMMA FrameFacts ==
  /\ \A f \in Frame : /\ IsOpen(f) => ~ IsReset(f) /\ ~ IsDetection(f) /\ f.head \in 0..MaxSeq
                      /\ IsReset(f) => ~ IsOpen(f) /\ ~ IsDetection(f) /\ f.last \in 0..MaxSeq
                      /\ IsDetection(f) => ~ IsOpen(f) /\ ~ IsReset(f) /\ f.seq \in Seqs
  /\ \A h \in 0..MaxSeq : LET f == [kind |-> "open", head |-> h] IN f \in Frame /\ IsOpen(f) /\ f.head = h
  /\ \A h \in 0..MaxSeq : LET f == [kind |-> "reset", last |-> h] IN f \in Frame /\ IsReset(f) /\ f.last = h
  /\ LET f == [kind |-> "reauth"] IN f \in Frame /\ ~ IsOpen(f) /\ ~ IsReset(f) /\ ~ IsDetection(f)
<1>1. ASSUME NEW f \in Frame
      PROVE  /\ IsOpen(f) => ~ IsReset(f) /\ ~ IsDetection(f) /\ f.head \in 0..MaxSeq
             /\ IsReset(f) => ~ IsOpen(f) /\ ~ IsDetection(f) /\ f.last \in 0..MaxSeq
             /\ IsDetection(f) => ~ IsOpen(f) /\ ~ IsReset(f) /\ f.seq \in Seqs
  BY DEF Frame, IsOpen, IsReset, IsDetection
<1>2. ASSUME NEW h \in 0..MaxSeq
      PROVE  /\ LET f == [kind |-> "open", head |-> h] IN f \in Frame /\ IsOpen(f) /\ f.head = h
             /\ LET f == [kind |-> "reset", last |-> h] IN f \in Frame /\ IsReset(f) /\ f.last = h
  BY DEF Frame, IsOpen, IsReset
<1>3. LET f == [kind |-> "reauth"] IN f \in Frame /\ ~ IsOpen(f) /\ ~ IsReset(f) /\ ~ IsDetection(f)
  BY DEF Frame, IsOpen, IsReset, IsDetection
<1> QED BY <1>1, <1>2, <1>3

LEMMA TailFacts ==
  ASSUME NEW w \in Seq(Frame), w # << >>
  PROVE  /\ Tail(w) \in Seq(Frame) /\ 1 \in DOMAIN w /\ Head(w) = w[1] /\ w[1] \in Frame
         /\ \A i \in DOMAIN w : i \in Nat /\ i >= 1 /\ w[i] \in Frame
         /\ \A i \in DOMAIN Tail(w) : i \in Nat /\ i >= 1 /\ i + 1 \in DOMAIN w /\ Tail(w)[i] = w[i + 1]
         /\ \A i \in DOMAIN w : i # 1 => \E j \in DOMAIN Tail(w) : j + 1 = i /\ Tail(w)[j] = w[i]
<1>1. PICK t : t = Tail(w)
  OBVIOUS
<1>2. Len(w) \in Nat /\ Len(w) >= 1 /\ DOMAIN w = 1..Len(w) /\ Head(w) = w[1]
  OBVIOUS
<1>3. t \in Seq(Frame) /\ Len(t) = Len(w) - 1 /\ \A i \in 1..Len(t) : t[i] = w[i + 1]
  BY <1>1
<1>4. DOMAIN t = 1..Len(w) - 1
  BY <1>3
<1>5. \A i \in DOMAIN t : i \in Nat /\ i >= 1 /\ i + 1 \in DOMAIN w /\ t[i] = w[i + 1]
  BY <1>2, <1>3, <1>4
<1>6. ASSUME NEW i \in DOMAIN w, i # 1 PROVE \E j \in DOMAIN t : j + 1 = i /\ t[j] = w[i]
  <2>1. i - 1 \in DOMAIN t /\ i - 1 + 1 = i
    BY <1>2, <1>4, <1>6
  <2> QED BY <1>5, <2>1
<1>7. \A i \in DOMAIN w : i \in Nat /\ i >= 1 /\ w[i] \in Frame
  BY <1>2
<1> QED BY <1>1, <1>2, <1>3, <1>5, <1>6, <1>7

\* What the first frame did not bring, the rest brings.
LEMMA RestBrings ==
  ASSUME NEW w \in Seq(Frame), w # << >>, NEW d, Brings(w, d),
         ~ (IsDetection(w[1]) /\ w[1].seq = d), ~ (IsReset(w[1]) /\ d <= w[1].last)
  PROVE  Brings(Tail(w), d)
<1>1. PICK i \in DOMAIN w : \/ IsDetection(w[i]) /\ w[i].seq = d
                            \/ IsReset(w[i]) /\ d <= w[i].last
  BY DEF Brings
<1>2. i # 1
  BY <1>1
<1>3. PICK j \in DOMAIN Tail(w) : Tail(w)[j] = w[i]
  BY <1>2, TailFacts
<1> QED BY <1>1, <1>3 DEF Brings

\* The comment is read.
LEMMA OpenIsHeard ==
  ASSUME NEW w \in Seq(Frame), w # << >>, NEW W, NEW l, NEW lost, NEW k, NEW h,
         Leads(w, W, l, lost, k), IsOpen(w[1]), h = Base(w, k), h # None
  PROVE  Leads(Tail(w), W, l, lost, h)
<1>1. PICK t : t = Tail(w)
  OBVIOUS
<1>2. Base(t, h) = h
  BY DEF Base
<1>3. h <= l /\ FramesFit(w, W, h, l) /\ AllComes(w, W, h, l, lost)
  BY DEF Leads
<1>4. /\ \A i \in DOMAIN t : i \in Nat /\ i >= 1 /\ i + 1 \in DOMAIN w /\ t[i] = w[i + 1]
      /\ w[1] \in Frame
  BY <1>1, TailFacts
<1>5. \A i, j \in DOMAIN t : (i + 1 < j + 1 => i < j) /\ (i + 1 = j + 1 => i = j) /\ i + 1 # 1
  BY <1>4
<1>6. FramesFit(t, W, h, l)
  BY <1>3, <1>4, <1>5 DEF FramesFit
<1>7. ~ IsDetection(w[1]) /\ ~ IsReset(w[1])
  BY <1>4, FrameFacts
<1>8. AllComes(t, W, h, l, lost)
  BY <1>1, <1>3, <1>7, RestBrings DEF AllComes
<1> QED BY <1>1, <1>2, <1>3, <1>6, <1>8 DEF Leads

\* A reset is read.
LEMMA ResetIsHeard ==
  ASSUME NEW w \in Seq(Frame), w # << >>, NEW W \in SUBSET Seqs, NEW l, NEW lost, NEW k \in Nat,
         Leads(w, W, l, lost, k), IsReset(w[1])
  PROVE  /\ k # None /\ k <= w[1].last /\ w[1].last <= l /\ w[1].last \in 0..MaxSeq
         /\ Leads(Tail(w), W, l, lost, w[1].last)
<1>1. PICK t, h : t = Tail(w) /\ h = w[1].last
  OBVIOUS
<1>2. /\ \A i \in DOMAIN t : i \in Nat /\ i >= 1 /\ i + 1 \in DOMAIN w /\ t[i] = w[i + 1]
      /\ w[1] \in Frame /\ 1 \in DOMAIN w
  BY <1>1, TailFacts
<1>3. k # None
  BY <1>2 DEF Leads
<1>4. Base(w, k) = k /\ FramesFit(w, W, k, l) /\ AllComes(w, W, k, l, lost)
  BY <1>3 DEF Leads, Base
<1>5. /\ k <= h /\ h <= l
      /\ \A j \in DOMAIN w : (IsDetection(w[j]) => h < w[j].seq) /\ (IsReset(w[j]) => j = 1)
  BY <1>1, <1>2, <1>4 DEF FramesFit
<1>6. h \in 0..MaxSeq /\ h # None /\ h \in Nat /\ ~ IsDetection(w[1])
  BY <1>1, <1>2, FrameFacts, Constants DEF None
<1>7. \A i \in DOMAIN t : i + 1 # 1
  BY <1>2
<1>8. FramesFit(t, W, h, l)
  BY <1>2, <1>4, <1>5, <1>7 DEF FramesFit
<1>9. ASSUME NEW d \in W, h < d, d <= l PROVE d \in lost \/ Brings(t, d)
  <2>1. d \in Nat /\ k < d /\ ~ (d <= h)
    BY <1>5, <1>6, <1>9, Constants
  <2>2. d \in lost \/ Brings(w, d)
    BY <1>4, <1>9, <2>1 DEF AllComes
  <2> QED BY <1>1, <1>6, <2>1, <2>2, RestBrings
<1>10. Base(t, h) = h
  BY <1>6 DEF Base
<1> QED BY <1>1, <1>3, <1>5, <1>6, <1>8, <1>9, <1>10 DEF Leads, AllComes

\* A detection is read: what lies between it and what was known was lost.
LEMMA DetectionIsHeard ==
  ASSUME NEW w \in Seq(Frame), w # << >>, NEW W \in SUBSET Seqs, NEW l \in Nat, NEW lost, NEW k \in Nat,
         Leads(w, W, l, lost, k), IsDetection(w[1]), Ordered(w, l)
  PROVE  /\ k # None /\ k < w[1].seq /\ w[1].seq <= l /\ w[1].seq \in W
         /\ \A d \in W : k < d /\ d < w[1].seq => d \in lost
         /\ Leads(Tail(w), W, l, lost, w[1].seq)
<1>1. PICK t, h : t = Tail(w) /\ h = w[1].seq
  OBVIOUS
<1>2. /\ \A i \in DOMAIN t : i \in Nat /\ i >= 1 /\ i + 1 \in DOMAIN w /\ t[i] = w[i + 1]
      /\ w[1] \in Frame /\ 1 \in DOMAIN w /\ \A i \in DOMAIN w : i \in Nat /\ i >= 1 /\ w[i] \in Frame
  BY <1>1, TailFacts
<1>3. k # None /\ ~ IsReset(w[1])
  BY <1>2, FrameFacts DEF Leads
<1>4. Base(w, k) = k /\ FramesFit(w, W, k, l) /\ AllComes(w, W, k, l, lost)
  BY <1>3 DEF Leads, Base
<1>5. h \in W /\ k < h /\ h \in Seqs /\ h \in Nat /\ h # None
  BY <1>1, <1>2, <1>4, FrameFacts, Constants DEF FramesFit, None
<1>6. ASSUME NEW i \in DOMAIN w PROVE ~ IsReset(w[i])
  <2>1. ~ (i < 1)
    BY <1>2
  <2> QED BY <1>2, <1>4, <2>1 DEF FramesFit
<1>7. ASSUME NEW i \in DOMAIN w, IsDetection(w[i]), i # 1 PROVE h < w[i].seq /\ w[i].seq \in Nat
  <2>1. 1 < i
    BY <1>2, <1>7
  <2>2. w[i].seq \in Nat
    BY <1>2, <1>7, FrameFacts, Constants
  <2> QED BY <1>1, <1>2, <1>7, <2>1, <2>2 DEF Ordered
<1>8. h <= l
  BY <1>1, <1>2 DEF Ordered
<1>9. \A i \in DOMAIN t : i + 1 # 1
  BY <1>2
<1>10. FramesFit(t, W, h, l)
  BY <1>2, <1>4, <1>6, <1>7, <1>9 DEF FramesFit
<1>11. ASSUME NEW d \in W, h < d, d <= l PROVE d \in lost \/ Brings(t, d)
  <2>1. d \in Nat /\ k < d /\ h # d
    BY <1>5, <1>11, Constants
  <2>2. d \in lost \/ Brings(w, d)
    BY <1>4, <1>11, <2>1 DEF AllComes
  <2> QED BY <1>1, <1>3, <2>1, <2>2, RestBrings
<1>12. ASSUME NEW d \in W, k < d, d < h PROVE d \in lost
  <2>1. d \in Nat /\ d <= l
    BY <1>5, <1>8, <1>12, Constants
  <2>2. d \in lost \/ Brings(w, d)
    BY <1>4, <1>12, <2>1 DEF AllComes
  <2>3. ASSUME Brings(w, d) PROVE FALSE
    <3>1. PICK i \in DOMAIN w : IsDetection(w[i]) /\ w[i].seq = d
      BY <1>6, <2>3 DEF Brings
    <3>2. CASE i = 1
      BY <1>1, <1>5, <1>12, <2>1, <3>1, <3>2
    <3>3. CASE i # 1
      BY <1>5, <1>7, <1>12, <2>1, <3>1, <3>3
    <3> QED BY <3>2, <3>3
  <2> QED BY <2>2, <2>3
<1>13. Base(t, h) = h
  BY <1>5 DEF Base
<1> QED BY <1>1, <1>3, <1>5, <1>8, <1>10, <1>11, <1>12, <1>13 DEF Leads, AllComes

LEMMA AppendFacts ==
  ASSUME NEW w \in Seq(Frame), NEW f \in Frame
  PROVE  LET a == Append(w, f)
             n == Len(w) + 1
         IN  /\ a \in Seq(Frame) /\ n \in Nat /\ n \in DOMAIN a /\ a[n] = f
             /\ \A i \in DOMAIN w : i \in Nat /\ i >= 1 /\ i < n /\ w[i] \in Frame /\ i \in DOMAIN a /\ a[i] = w[i]
             /\ \A i \in DOMAIN a : i = n \/ i \in DOMAIN w
             /\ w # << >> => 1 \in DOMAIN w
<1>1. PICK a, n : a = Append(w, f) /\ n = Len(w) + 1
  OBVIOUS
<1>2. Len(w) \in Nat /\ DOMAIN w = 1..Len(w) /\ (w # << >> => Len(w) >= 1)
  OBVIOUS
<1>3. a \in Seq(Frame) /\ Len(a) = Len(w) + 1
  BY <1>1
<1>4. DOMAIN a = 1..Len(w) + 1
  BY <1>3
<1>5. a[n] = f /\ \A i \in 1..Len(w) : a[i] = w[i]
  BY <1>1, <1>2
<1>6. n \in Nat /\ n \in DOMAIN a
  BY <1>1, <1>2, <1>4
<1>7. \A i \in DOMAIN w : i \in Nat /\ i >= 1 /\ i < n /\ w[i] \in Frame /\ i \in DOMAIN a
  BY <1>1, <1>2, <1>4
<1>8. \A i \in DOMAIN a : i = n \/ i \in DOMAIN w
  BY <1>1, <1>2, <1>4
<1> QED BY <1>1, <1>2, <1>3, <1>5, <1>6, <1>7, <1>8

LEMMA BaseIsNumber ==
  ASSUME NEW w \in Seq(Frame), NEW W, NEW l, NEW lost, NEW k \in 0..None, Leads(w, W, l, lost, k)
  PROVE  Base(w, k) \in 0..MaxSeq
<1>1. CASE k = None
  <2>1. w # << >> /\ IsOpen(w[1])
    BY <1>1 DEF Leads
  <2>2. w[1] \in Frame
    BY <2>1, TailFacts
  <2> QED BY <1>1, <2>1, <2>2, FrameFacts DEF Base
<1>2. CASE k # None
  BY <1>2, Constants DEF Base, None
<1> QED BY <1>1, <1>2

\* A request sends the next detection, having nothing else between.
LEMMA SentLeads ==
  ASSUME NEW w \in Seq(Frame), NEW W \in SUBSET Seqs, NEW l \in 0..MaxSeq, NEW lost, NEW k \in 0..None,
         Leads(w, W, l, lost, k), NEW h \in W, l < h, \A d \in W : l < d /\ d < h => d \in lost,
         NEW f \in Frame, IsDetection(f), f.seq = h
  PROVE  Leads(Append(w, f), W, h, lost, k)
<1>1. PICK a, n, b : a = Append(w, f) /\ n = Len(w) + 1 /\ b = Base(w, k)
  OBVIOUS
<1>2. /\ a \in Seq(Frame) /\ n \in Nat /\ n \in DOMAIN a /\ a[n] = f
      /\ \A i \in DOMAIN w : i \in Nat /\ i >= 1 /\ i < n /\ w[i] \in Frame /\ i \in DOMAIN a /\ a[i] = w[i]
      /\ \A i \in DOMAIN a : i = n \/ i \in DOMAIN w
      /\ w # << >> => 1 \in DOMAIN w
  BY <1>1, AppendFacts
<1>3. l \in Nat /\ h \in Nat /\ b \in Nat
  BY <1>1, BaseIsNumber, Constants
<1>4. b <= l /\ FramesFit(w, W, b, l) /\ AllComes(w, W, b, l, lost)
  BY <1>1 DEF Leads
<1>5. ~ IsOpen(f) /\ ~ IsReset(f)
  BY FrameFacts
<1>6. k = None => w # << >> /\ IsOpen(w[1]) /\ (\A i \in DOMAIN w : ~ IsReset(w[i]))
  BY DEF Leads
<1>7. k = None => a # << >> /\ IsOpen(a[1]) /\ a[1] = w[1] /\ (\A i \in DOMAIN a : ~ IsReset(a[i]))
  BY <1>2, <1>5, <1>6
<1>8. Base(a, k) = b
  BY <1>1, <1>7 DEF Base
<1>9. b <= h /\ b < h
  BY <1>3, <1>4
<1>10. ASSUME NEW i \in DOMAIN a
       PROVE  /\ IsOpen(a[i]) => i = 1
              /\ IsDetection(a[i]) => a[i].seq \in W /\ b < a[i].seq
              /\ IsReset(a[i]) =>
                   /\ b <= a[i].last /\ a[i].last <= h
                   /\ \A j \in DOMAIN a : /\ IsDetection(a[j]) => i < j /\ a[i].last < a[j].seq
                                          /\ IsReset(a[j]) => i = j
  <2>1. CASE i = n
    BY <1>2, <1>5, <1>9, <2>1
  <2>2. CASE i # n
    <3>1. i \in DOMAIN w /\ a[i] = w[i] /\ i < n
      BY <1>2, <1>10, <2>2
    <3>2. ASSUME IsReset(a[i])
          PROVE  /\ b <= a[i].last /\ a[i].last <= h
                 /\ \A j \in DOMAIN a : /\ IsDetection(a[j]) => i < j /\ a[i].last < a[j].seq
                                        /\ IsReset(a[j]) => i = j
      <4>1. w[i].last \in Nat
        BY <1>2, <3>1, <3>2, FrameFacts, Constants
      <4>2. b <= w[i].last /\ w[i].last <= l
        BY <1>4, <3>1, <3>2 DEF FramesFit
      <4>3. w[i].last < h
        BY <1>3, <4>1, <4>2
      <4>4. ASSUME NEW j \in DOMAIN a
            PROVE  (IsDetection(a[j]) => i < j /\ a[i].last < a[j].seq) /\ (IsReset(a[j]) => i = j)
        <5>1. CASE j = n
          BY <1>2, <1>5, <3>1, <4>3, <5>1
        <5>2. CASE j # n
          <6>1. j \in DOMAIN w /\ a[j] = w[j]
            BY <1>2, <4>4, <5>2
          <6> QED BY <1>4, <3>1, <3>2, <6>1 DEF FramesFit
        <5> QED BY <5>1, <5>2
      <4> QED BY <1>3, <3>1, <4>1, <4>2, <4>3, <4>4
    <3>3. (IsOpen(a[i]) => i = 1) /\ (IsDetection(a[i]) => a[i].seq \in W /\ b < a[i].seq)
      BY <1>4, <3>1 DEF FramesFit
    <3> QED BY <3>2, <3>3
  <2> QED BY <2>1, <2>2
<1>11. FramesFit(a, W, b, h)
  BY <1>10 DEF FramesFit
<1>12. \A d : Brings(w, d) => Brings(a, d)
  BY <1>2 DEF Brings
<1>13. Brings(a, h)
  BY <1>2 DEF Brings
<1>14. ASSUME NEW d \in W, b < d, d <= h PROVE d \in lost \/ Brings(a, d)
  <2>1. d \in Nat
    BY Constants
  <2>2. CASE d <= l
    BY <1>4, <1>12, <1>14, <2>2 DEF AllComes
  <2>3. CASE l < d /\ d < h
    BY <2>3
  <2>4. CASE d = h
    BY <1>13, <2>4
  <2> QED BY <1>3, <1>14, <2>1, <2>2, <2>3, <2>4
<1> QED BY <1>1, <1>7, <1>8, <1>9, <1>11, <1>14 DEF Leads, AllComes

\* A request says that its token has expired.
LEMMA EndedLeads ==
  ASSUME NEW w \in Seq(Frame), NEW W, NEW l, NEW lost, NEW k, Leads(w, W, l, lost, k),
         NEW e \in Frame, ~ IsOpen(e), ~ IsReset(e), ~ IsDetection(e)
  PROVE  Leads(Append(w, e), W, l, lost, k)
<1>1. PICK a, n, b : a = Append(w, e) /\ n = Len(w) + 1 /\ b = Base(w, k)
  OBVIOUS
<1>2. /\ n \in DOMAIN a /\ a[n] = e
      /\ \A i \in DOMAIN w : i \in DOMAIN a /\ a[i] = w[i]
      /\ \A i \in DOMAIN a : i = n \/ i \in DOMAIN w
      /\ w # << >> => 1 \in DOMAIN w
      /\ a # << >>
  BY <1>1, AppendFacts
<1>3. b <= l /\ FramesFit(w, W, b, l) /\ AllComes(w, W, b, l, lost)
  BY <1>1 DEF Leads
<1>4. k = None => w # << >> /\ IsOpen(w[1]) /\ (\A i \in DOMAIN w : ~ IsReset(w[i]))
  BY DEF Leads
<1>5. k = None => a # << >> /\ IsOpen(a[1]) /\ a[1] = w[1] /\ (\A i \in DOMAIN a : ~ IsReset(a[i]))
  BY <1>2, <1>4
<1>6. Base(a, k) = b
  BY <1>1, <1>5 DEF Base
<1>7. FramesFit(a, W, b, l)
  BY <1>2, <1>3 DEF FramesFit
<1>8. \A d : Brings(w, d) => Brings(a, d)
  BY <1>2 DEF Brings
<1>9. AllComes(a, W, b, l, lost)
  BY <1>3, <1>8 DEF AllComes
<1> QED BY <1>1, <1>3, <1>5, <1>6, <1>7, <1>9 DEF Leads

LEMMA LostLeads ==
  ASSUME NEW w, NEW W, NEW l, NEW lost, NEW more, lost \subseteq more, NEW k, Leads(w, W, l, lost, k)
  PROVE  Leads(w, W, l, more, k)
BY DEF Leads, AllComes

\* A request without a resume point starts at the head it named.
LEMMA StartLeads ==
  ASSUME NEW W \in SUBSET Seqs, NEW h \in 0..MaxSeq, NEW lost, NEW o \in Frame, IsOpen(o), o.head = h
  PROVE  Leads(<<o>>, W, h, lost, None) /\ Leads(<< >>, W, h, lost, h)
<1>1. DOMAIN <<o>> = {1} /\ <<o>>[1] = o /\ <<o>> # << >> /\ DOMAIN << >> = {}
  OBVIOUS
<1>2. h \in Nat /\ h # None /\ h <= h
  BY Constants DEF None
<1>3. Base(<<o>>, None) = h /\ Base(<< >>, h) = h
  BY <1>1, <1>2 DEF Base
<1>4. ~ IsReset(o) /\ ~ IsDetection(o)
  BY FrameFacts
<1>5. FramesFit(<<o>>, W, h, h) /\ FramesFit(<< >>, W, h, h)
  BY <1>1, <1>4 DEF FramesFit
<1>6. AllComes(<<o>>, W, h, h, lost) /\ AllComes(<< >>, W, h, h, lost)
  <2>1. ASSUME NEW d \in W, h < d, d <= h PROVE FALSE
    <3>1. d \in Nat
      BY Constants
    <3> QED BY <1>2, <2>1, <3>1
  <2> QED BY <2>1 DEF AllComes
<1> QED BY <1>1, <1>2, <1>3, <1>4, <1>5, <1>6 DEF Leads

\* The comment is on its way before what a feed with a resume point is sent.
LEMMA ConsLeads ==
  ASSUME NEW w \in Seq(Frame), NEW W, NEW l, NEW lost, NEW k, k # None, Leads(w, W, l, lost, k),
         \A i \in DOMAIN w : ~ IsOpen(w[i]), NEW o \in Frame, IsOpen(o)
  PROVE  Leads(<<o>> \o w, W, l, lost, k)
<1>1. PICK a : a = <<o>> \o w
  OBVIOUS
<1>2. Len(w) \in Nat /\ DOMAIN w = 1..Len(w)
  OBVIOUS
<1>3. Len(<<o>>) = 1 /\ <<o>>[1] = o /\ <<o>> \in Seq(Frame)
  OBVIOUS
<1>4. /\ a \in Seq(Frame) /\ Len(a) = 1 + Len(w)
      /\ \A i \in 1..1 + Len(w) : a[i] = IF i <= 1 THEN <<o>>[i] ELSE w[i - 1]
  BY <1>1, <1>3, ConcatProperties
<1>5. DOMAIN a = 1..1 + Len(w)
  BY <1>4
<1>6. a[1] = o /\ 1 \in DOMAIN a
  BY <1>2, <1>3, <1>4, <1>5
<1>7. ASSUME NEW i \in DOMAIN w PROVE i \in Nat /\ i >= 1 /\ i + 1 \in DOMAIN a /\ a[i + 1] = w[i]
  <2>1. i \in Nat /\ i >= 1 /\ i + 1 \in 1..1 + Len(w) /\ ~ (i + 1 <= 1) /\ i + 1 - 1 = i
    BY <1>2
  <2> QED BY <1>4, <1>5, <2>1
<1>8. ASSUME NEW i \in DOMAIN a, i # 1 PROVE \E j \in DOMAIN w : j + 1 = i /\ a[i] = w[j]
  <2>1. i - 1 \in DOMAIN w /\ i - 1 + 1 = i
    BY <1>2, <1>5, <1>8
  <2> QED BY <1>7, <2>1
<1>9. ~ IsReset(o) /\ ~ IsDetection(o)
  BY FrameFacts
<1>10. Base(a, k) = k /\ k <= l /\ FramesFit(w, W, k, l) /\ AllComes(w, W, k, l, lost)
  BY DEF Leads, Base
<1>11. \A i, j \in DOMAIN w : (i < j => i + 1 < j + 1) /\ (i = j => i + 1 = j + 1)
  BY <1>7
<1>12. ASSUME NEW i \in DOMAIN a
       PROVE  /\ IsOpen(a[i]) => i = 1
              /\ IsDetection(a[i]) => a[i].seq \in W /\ k < a[i].seq
              /\ IsReset(a[i]) =>
                   /\ k <= a[i].last /\ a[i].last <= l
                   /\ \A j \in DOMAIN a : /\ IsDetection(a[j]) => i < j /\ a[i].last < a[j].seq
                                          /\ IsReset(a[j]) => i = j
  <2>1. CASE i = 1
    BY <1>6, <1>9, <2>1
  <2>2. CASE i # 1
    <3>1. PICK m \in DOMAIN w : m + 1 = i /\ a[i] = w[m]
      BY <1>8, <2>2
    <3>2. ~ IsOpen(a[i]) /\ (IsDetection(a[i]) => a[i].seq \in W /\ k < a[i].seq)
      BY <1>10, <3>1 DEF FramesFit
    <3>3. ASSUME IsReset(a[i])
          PROVE  /\ k <= a[i].last /\ a[i].last <= l
                 /\ \A j \in DOMAIN a : /\ IsDetection(a[j]) => i < j /\ a[i].last < a[j].seq
                                        /\ IsReset(a[j]) => i = j
      <4>1. k <= w[m].last /\ w[m].last <= l
        BY <1>10, <3>1, <3>3 DEF FramesFit
      <4>2. ASSUME NEW j \in DOMAIN a
            PROVE  (IsDetection(a[j]) => i < j /\ a[i].last < a[j].seq) /\ (IsReset(a[j]) => i = j)
        <5>1. CASE j = 1
          BY <1>6, <1>9, <5>1
        <5>2. CASE j # 1
          <6>1. PICK n \in DOMAIN w : n + 1 = j /\ a[j] = w[n]
            BY <1>8, <4>2, <5>2
          <6>2. (IsDetection(w[n]) => m < n /\ w[m].last < w[n].seq) /\ (IsReset(w[n]) => m = n)
            BY <1>10, <3>1, <3>3 DEF FramesFit
          <6> QED BY <1>11, <3>1, <6>1, <6>2
        <5> QED BY <5>1, <5>2
      <4> QED BY <3>1, <4>1, <4>2
    <3> QED BY <3>2, <3>3
  <2> QED BY <2>1, <2>2
<1>13. FramesFit(a, W, k, l)
  BY <1>12 DEF FramesFit
<1>14. \A d : Brings(w, d) => Brings(a, d)
  BY <1>7 DEF Brings
<1>15. AllComes(a, W, k, l, lost)
  BY <1>10, <1>14 DEF AllComes
<1> QED BY <1>1, <1>10, <1>13, <1>15 DEF Leads

\* A request whose resume point is too old says so.
LEMMA ResetLeads ==
  ASSUME NEW W \in SUBSET Seqs, NEW k \in 0..MaxSeq, NEW h \in 0..MaxSeq, k <= h, NEW lost,
         NEW e \in Frame, IsReset(e), e.last = h
  PROVE  Leads(<<e>>, W, h, lost, k) /\ \A i \in DOMAIN <<e>> : ~ IsOpen(<<e>>[i])
<1>1. DOMAIN <<e>> = {1} /\ <<e>>[1] = e
  OBVIOUS
<1>2. k # None /\ h \in Nat /\ h <= h
  BY Constants DEF None
<1>3. ~ IsOpen(e) /\ ~ IsDetection(e)
  BY FrameFacts
<1>4. FramesFit(<<e>>, W, k, h)
  BY <1>1, <1>2, <1>3 DEF FramesFit
<1>5. AllComes(<<e>>, W, k, h, lost)
  BY <1>1 DEF AllComes, Brings
<1>6. Base(<<e>>, k) = k
  BY <1>2 DEF Base
<1> QED BY <1>1, <1>2, <1>3, <1>4, <1>5, <1>6 DEF Leads

\* The frames of a replay.
Shows(w, R) == w = [i \in DOMAIN R |-> [kind |-> "detection", seq |-> R[i]]]

\* Where a replay ends.
EndsAt(R, k, l) == l = IF R = << >> THEN k ELSE Last(R)

\* A replay brings all there is after the resume point.
LEMMA ReplayLeads ==
  ASSUME NEW W \in SUBSET Seqs, NEW k \in 0..MaxSeq, NEW c \in 0..MaxSeq, NEW R \in Seq(Seqs), GoesUp(R),
         Range(R) = W \cap Between(k, c), NEW lost,
         NEW w, Shows(w, R), NEW l, EndsAt(R, k, l)
  PROVE  /\ w \in Seq(Frame) /\ Leads(w, W, l, lost, k) /\ \A i \in DOMAIN w : ~ IsOpen(w[i])
         /\ \A d \in W : ~ (l < d /\ d <= c)
<1>1. /\ Len(R) \in Nat /\ DOMAIN R = 1..Len(R) /\ \A i \in DOMAIN R : R[i] \in Range(R) /\ R[i] \in Seqs
  BY DEF Range
<1>2. k \in Nat /\ k # None /\ k <= k
  BY Constants DEF None
<1>3. ASSUME NEW i \in DOMAIN R
      PROVE  /\ w[i] \in Frame /\ IsDetection(w[i]) /\ w[i].seq = R[i]
             /\ ~ IsOpen(w[i]) /\ ~ IsReset(w[i]) /\ w[i].seq \in W /\ k < w[i].seq
  <2>1. w[i] = [kind |-> "detection", seq |-> R[i]]
    BY <1>3 DEF Shows
  <2>2. w[i] \in Frame /\ IsDetection(w[i]) /\ w[i].seq = R[i]
    BY <1>1, <2>1, FramesAreTold
  <2>3. R[i] \in W /\ k < R[i]
    BY <1>1 DEF Between
  <2> QED BY <2>2, <2>3, FrameFacts
<1>4. w \in [1..Len(R) -> Frame] /\ DOMAIN w = DOMAIN R
  BY <1>1, <1>3 DEF Shows
<1>5. w \in Seq(Frame)
  BY <1>1, <1>4
<1>6. \A b : FramesFit(w, W, k, b)
  BY <1>3, <1>4 DEF FramesFit
<1>7. \A d \in Range(R) : Brings(w, d)
  <2>1. ASSUME NEW d \in Range(R) PROVE Brings(w, d)
    <3>1. PICK i \in DOMAIN R : R[i] = d
      BY DEF Range
    <3> QED BY <1>3, <1>4, <3>1 DEF Brings
  <2> QED BY <2>1
<1>8. Base(w, k) = k
  BY <1>2 DEF Base
<1>9. k <= l /\ (\A d \in W : l < d => ~ (d <= c)) /\ (\A d \in W : k < d /\ d <= l => d \in Range(R))
  <2>1. \A d \in W : d \in Seqs /\ d \in Nat
    BY Constants
  <2>2. CASE R = << >>
    <3>1. Range(R) = {} /\ l = k
      BY <1>1, <2>2 DEF Range, EndsAt
    <3>2. \A d \in W : ~ (k < d /\ d <= c)
      BY <2>1, <3>1 DEF Between
    <3>3. \A d \in W : ~ (k < d /\ d <= k)
      BY <1>2, <2>1
    <3> QED BY <1>2, <3>1, <3>2, <3>3
  <2>3. CASE R # << >>
    <3>1. Last(R) \in Range(R) /\ \A d \in Range(R) : d <= Last(R)
      BY <2>3, ReplayIsOrdered
    <3>2. l = Last(R) /\ l \in Seqs /\ l \in Nat /\ k < l /\ l <= c /\ c \in Nat
      BY <2>1, <2>3, <3>1, Constants DEF Between, EndsAt
    <3>3. ASSUME NEW d \in W, k < d, d <= c PROVE d \in Range(R)
      BY <2>1, <3>3 DEF Between
    <3>4. ASSUME NEW d \in W, l < d, d <= c PROVE FALSE
      <4>1. d \in Nat /\ k < d
        BY <1>2, <2>1, <3>2, <3>4
      <4>2. d <= l
        BY <3>1, <3>2, <3>3, <3>4, <4>1
      <4> QED BY <3>2, <3>4, <4>1, <4>2
    <3>5. ASSUME NEW d \in W, k < d, d <= l PROVE d \in Range(R)
      <4>1. d <= c
        BY <2>1, <3>2, <3>5
      <4> QED BY <3>3, <3>5, <4>1
    <3>6. k <= l
      BY <1>2, <3>2
    <3> QED BY <3>4, <3>5, <3>6
  <2> QED BY <2>2, <2>3
<1>10. AllComes(w, W, k, l, lost)
  BY <1>7, <1>9 DEF AllComes
<1> QED BY <1>2, <1>3, <1>4, <1>5, <1>6, <1>8, <1>9, <1>10 DEF Leads

-----------------------------------------------------------------------------
(* The connection of the feed.                                             *)

\* A connection that opens for a feed that knows of everything up to k.
OpensFor(r, k) ==
  LET o == [kind |-> "open", head |-> r.head]
  IN  /\ r.wire \in {<< >>, <<o>>}
      /\ r.resume = None => k = IF r.wire = << >> THEN r.head ELSE None
      /\ r.resume # None => k = r.resume /\ k <= r.head

Feeds(r, k) ==
  /\ r.family = Me
  /\ r.phase = "authorized" => r.resume = k
  /\ r.phase = "opening" => OpensFor(r, k)
  /\ r.phase \in {"sending", "waiting", "over"} => Leads(r.wire, Wants[Me], r.last, r.lost, k)

OnLine(r, c, n, k) == r \in Stream /\ Tidy(r, c, n) /\ Feeds(r, k)

\* What happens to a request from outside: it is pushed to, closed or expires.
Along(x, y) ==
  /\ y \in Stream
  /\ y.phase = x.phase /\ y.family = x.family /\ y.resume = x.resume /\ y.head = x.head
  /\ y.last = x.last /\ y.wire = x.wire
  /\ x.lost \subseteq y.lost

LEMMA AlongFeeds ==
  ASSUME NEW x \in Stream, NEW y, Along(x, y), NEW k, Feeds(x, k)
  PROVE  Feeds(y, k)
<1>1. /\ y.phase = x.phase /\ y.family = x.family /\ y.resume = x.resume /\ y.head = x.head
      /\ y.last = x.last /\ y.wire = x.wire /\ x.lost \subseteq y.lost
  BY DEF Along
<1>2. y.phase = "opening" => OpensFor(y, k)
  BY <1>1 DEF Feeds, OpensFor
<1>3. y.phase \in {"sending", "waiting", "over"} => Leads(y.wire, Wants[Me], y.last, y.lost, k)
  BY <1>1, LostLeads DEF Feeds
<1> QED BY <1>1, <1>2, <1>3 DEF Feeds

LEMMA SilentLine ==
  ASSUME NEW x, NEW c, NEW n \in Nat, NEW k, OnLine(x, c, n, k), NEW m \in Nat, n <= m, NEW b,
         NEW y \in Stream, ~ y.listens,
         y.phase = x.phase /\ y.family = x.family /\ y.resume = x.resume /\ y.head = x.head
           /\ y.last = x.last /\ y.wire = x.wire /\ y.queue = x.queue /\ y.lost = x.lost
  PROVE  OnLine(y, b, m, k)
<1>1. x \in Stream /\ x # Unused /\ Tidy(x, c, n) /\ Feeds(x, k)
  BY UnusedIsNone DEF OnLine
<1>2. Tidy(y, b, m)
  BY <1>1, SilentIsTidy
<1>3. Along(x, y)
  BY DEF Along
<1> QED BY <1>1, <1>2, <1>3, AlongFeeds DEF OnLine

LEMMA PushedLine ==
  ASSUME NEW r, NEW a \in Nat, NEW b \in 0..MaxSeq, a <= b, Sound(r, TRUE, a),
         NEW n \in Nat, NEW k, OnLine(r, a, n, k), NEW m \in Nat, n <= m, b <= m
  PROVE  OnLine(Pushed(r, a, b), b, m, k) /\ r.lost \subseteq Pushed(r, a, b).lost
<1>1. PICK p : p = Pushed(r, a, b)
  OBVIOUS
<1>2. r \in Stream /\ r # Unused /\ Len(r.queue) <= QueueSize /\ Tidy(r, a, n) /\ Feeds(r, k)
  BY UnusedIsNone DEF OnLine, Sound
<1>3. Tidy(p, b, m)
  BY <1>1, <1>2, PushedIsTidy
<1>4. p \in Stream /\ p = [r EXCEPT !.queue = p.queue, !.lost = p.lost]
  BY <1>1, <1>2, PushTellsAll
<1>5. r.lost \subseteq p.lost
  <2>1. CASE ~ r.listens
    BY <1>1, <2>1 DEF Pushed
  <2>2. CASE r.listens
    <3>1. PICK q, gone : p = [r EXCEPT !.queue = q, !.lost = r.lost \cup gone]
      <4>1. p = [r EXCEPT !.queue = LastOf(Queued(r, a, b), QueueSize),
                          !.lost = r.lost \cup (Range(Queued(r, a, b)) \ Range(LastOf(Queued(r, a, b), QueueSize)))]
        BY <1>1, <1>2, <2>2 DEF Pushed, Stream
      <4> QED BY <4>1
    <3>2. p.lost = r.lost \cup gone
      BY <1>2, <3>1 DEF Stream
    <3> QED BY <3>2
  <2> QED BY <2>1, <2>2
<1>6. Along(r, p)
  BY <1>2, <1>4, <1>5 DEF Along, Stream
<1> QED BY <1>1, <1>2, <1>3, <1>4, <1>5, <1>6, AlongFeeds DEF OnLine

\* A refresh.
LEMMA FedLine ==
  ASSUME RingInv, WholeInv, NEW now \in 0..MaxSeq, cursor <= now, NEW s \in Streams,
         NEW k, OnLine(stream[s], cursor, released, k), NEW m \in Nat, released <= m, now <= m
  PROVE  OnLine(Fed(now)[s], now, m, k) /\ stream[s].lost \subseteq Fed(now)[s].lost
<1>1. PICK x : x = stream[s]
  OBVIOUS
<1>2. x \in Stream /\ x # Unused /\ Sound(x, primed, cursor) /\ OnLine(x, cursor, released, k)
  BY <1>1, UnusedIsNone DEF OnLine, WholeInv
<1>3. cursor \in Nat /\ released \in Nat /\ primed \in BOOLEAN
  BY DEF RingInv
<1>4. CASE primed
  <2>1. Fed(now)[s] = Pushed(x, cursor, now)
    BY <1>1, <1>2, <1>4 DEF Fed, Used
  <2>2. Sound(x, TRUE, cursor)
    BY <1>2, <1>3, <1>4
  <2> QED BY <1>1, <1>2, <1>3, <2>1, <2>2, PushedLine
<1>5. CASE ~ primed
  <2>1. Fed(now)[s] = x
    BY <1>1, <1>5 DEF Fed
  <2>2. ~ x.listens
    BY <1>2, <1>5 DEF Sound
  <2>3. OnLine(x, now, m, k)
    BY <1>2, <1>3, <2>2, SilentLine
  <2> QED BY <1>1, <2>1, <2>3
<1> QED BY <1>4, <1>5

\* A capture that goes on while nothing is refreshed.
LEMMA LaterLine ==
  ASSUME NEW x, NEW c, NEW n \in Nat, NEW k, OnLine(x, c, n, k), NEW m \in Nat, n <= m
  PROVE  OnLine(x, c, m, k)
<1>1. x \in Stream /\ x # Unused /\ Tidy(x, c, n) /\ Feeds(x, k)
  BY UnusedIsNone DEF OnLine
<1>2. x.queue \in Seq(Seqs) /\ x.head \in Nat /\ x.last \in Nat /\ x.lost \subseteq Seqs
  BY <1>1, Constants DEF Stream
<1>3. \A d \in Range(x.queue) \cup x.lost : d \in Nat
  BY <1>2, Constants DEF Range
<1>4. \A d \in Range(x.queue) \cup x.lost : d <= m
  BY <1>1, <1>3 DEF Tidy
<1>5. x.head <= m /\ x.last <= m
  BY <1>1, <1>2 DEF Tidy
<1> QED BY <1>1, <1>4, <1>5 DEF Tidy, OnLine

LEMMA TailGoesUp ==
  ASSUME NEW q \in Seq(Seqs), q # << >>, GoesUp(q)
  PROVE  /\ Tail(q) \in Seq(Seqs) /\ GoesUp(Tail(q)) /\ Range(Tail(q)) \subseteq Range(q)
         /\ Head(q) \in Range(q) /\ \A d \in Range(q) : Head(q) <= d
         /\ \A d \in Range(q) : d = Head(q) \/ d \in Range(Tail(q))
         /\ \A d \in Range(Tail(q)) : Head(q) < d
<1>1. PICK t, h : t = Tail(q) /\ h = Head(q)
  OBVIOUS
<1>2. /\ Len(q) \in Nat /\ Len(q) >= 1 /\ DOMAIN q = 1..Len(q) /\ h = q[1] /\ 1 \in DOMAIN q
      /\ t \in Seq(Seqs) /\ Len(t) = Len(q) - 1 /\ DOMAIN t = 1..Len(q) - 1
      /\ \A i \in 1..Len(q) - 1 : t[i] = q[i + 1]
  BY <1>1
<1>3. \A i \in DOMAIN q : q[i] \in Nat /\ q[i] \in Range(q)
  BY Constants DEF Range
<1>4. \A i \in DOMAIN t : i + 1 \in DOMAIN q /\ t[i] = q[i + 1] /\ 1 < i + 1
  BY <1>2
<1>5. \A i, j \in DOMAIN t : i < j => i + 1 < j + 1
  BY <1>2
<1>6. GoesUp(t)
  BY <1>2, <1>4, <1>5 DEF GoesUp
<1>7. \A i \in DOMAIN q : i # 1 => h < q[i]
  <2>1. \A i \in DOMAIN q : i # 1 => 1 < i
    BY <1>2
  <2> QED BY <1>2, <2>1 DEF GoesUp
<1>8. \A i \in DOMAIN q : h <= q[i]
  BY <1>2, <1>3, <1>7
<1>9. \A d \in Range(q) : h <= d
  BY <1>8 DEF Range
<1>10. \A i \in DOMAIN t : t[i] \in Range(q) /\ h < t[i]
  <2>1. \A i \in DOMAIN t : i + 1 # 1
    BY <1>2
  <2> QED BY <1>3, <1>4, <1>7, <2>1
<1>11. Range(t) \subseteq Range(q) /\ \A d \in Range(t) : h < d
  BY <1>10 DEF Range
<1>12. ASSUME NEW i \in DOMAIN q PROVE q[i] = h \/ q[i] \in Range(t)
  <2>1. CASE i = 1
    BY <1>2, <2>1
  <2>2. CASE i # 1
    <3>1. i - 1 \in DOMAIN t /\ t[i - 1] = q[i]
      BY <1>2, <2>2
    <3> QED BY <3>1 DEF Range
  <2> QED BY <2>1, <2>2
<1>13. \A d \in Range(q) : d = h \/ d \in Range(t)
  BY <1>12 DEF Range
<1> QED BY <1>1, <1>2, <1>3, <1>6, <1>9, <1>11, <1>13

\* A detection is sent.
LEMMA SentLine ==
  ASSUME NEW x, NEW c, NEW n \in Nat, NEW k \in 0..None, OnLine(x, c, n, k), x.phase \in {"sending", "waiting"},
         NEW fresh \in Seq(Seqs), fresh # << >>, GoesUp(fresh), Range(fresh) \subseteq Range(x.queue),
         \A d \in Range(x.queue) : d > x.last => d \in Range(fresh), Head(fresh) > x.last,
         NEW f, f = [kind |-> "detection", seq |-> Head(fresh)],
         NEW y, y = [x EXCEPT !.phase = "sending", !.last = Head(fresh), !.queue = Tail(fresh),
                              !.wire = Append(x.wire, f)]
  PROVE  OnLine(y, c, n, k)
<1>1. PICK h, q, W : h = Head(fresh) /\ q = Tail(fresh) /\ W = Wants[x.family]
  OBVIOUS
<1>2. x \in Stream /\ x # Unused /\ Tidy(x, c, n) /\ Feeds(x, k)
  BY UnusedIsNone DEF OnLine
<1>3. /\ x.family \in Families /\ x.last \in 0..MaxSeq /\ x.last \in Nat /\ x.queue \in Seq(Seqs)
      /\ x.wire \in Seq(Frame) /\ W \in SUBSET Seqs
  BY <1>1, <1>2, Constants DEF Stream
<1>4. /\ q \in Seq(Seqs) /\ GoesUp(q) /\ Range(q) \subseteq Range(fresh) /\ h \in Range(fresh)
      /\ \A d \in Range(fresh) : h <= d
      /\ \A d \in Range(fresh) : d = h \/ d \in Range(q)
  BY <1>1, TailGoesUp
<1>5. h \in Range(x.queue) /\ h \in Seqs /\ h \in Nat /\ h \in 0..MaxSeq /\ x.last < h
  <2>1. h \in Range(x.queue) /\ h > x.last
    BY <1>1, <1>4
  <2>2. h \in Seqs
    BY <1>3, <2>1 DEF Range
  <2> QED BY <1>3, <2>1, <2>2, Constants
<1>6. f \in Frame /\ IsDetection(f) /\ f.seq = h
  BY <1>1, <1>5, FramesAreTold
<1>7. Append(x.wire, f) \in Seq(Frame)
  BY <1>3, <1>6
<1>8. /\ y \in Stream /\ y.phase = "sending" /\ y.last = h /\ y.queue = q /\ y.wire = Append(x.wire, f)
      /\ y.lost = x.lost /\ y.family = x.family /\ (y.listens <=> x.listens) /\ y.head = x.head
  BY <1>1, <1>2, <1>4, <1>5, <1>7 DEF Stream, Phases
<1>9. \A d \in Range(x.queue) : x.last < d => d = h \/ d \in Range(q)
  <2>1. \A d \in Range(x.queue) : d \in Nat
    BY <1>3, Constants DEF Range
  <2> QED BY <1>3, <1>4, <2>1
<1>10. \A e \in Range(x.queue) : \A d \in W : x.last < d /\ d < e => d \in Range(x.queue) \cup x.lost
  BY <1>1, <1>2 DEF Tidy, NoHole, SentUpTo
<1>11. h \in W /\ \A d \in W : x.last < d /\ d < h => d \in x.lost
  <2>1. h \in W
    BY <1>1, <1>2, <1>5 DEF Tidy
  <2>2. ASSUME NEW d \in W, x.last < d, d < h PROVE d \in x.lost
    <3>1. d \in Range(x.queue) \cup x.lost /\ d \in Nat
      BY <1>3, <1>5, <1>10, <2>2, Constants
    <3>2. d \notin Range(fresh)
      BY <1>4, <1>5, <2>2, <3>1
    <3>3. ~ (d \in Range(x.queue))
      BY <1>3, <2>2, <3>1, <3>2
    <3> QED BY <3>1, <3>3
  <2> QED BY <2>1, <2>2
<1>12. NoHole(y)
  <2>1. ASSUME NEW e \in Range(q), NEW d \in W, h < d, d < e PROVE d \in Range(q) \cup x.lost
    <3>1. e \in Range(x.queue) /\ d \in Nat /\ x.last < d /\ d # h
      BY <1>3, <1>4, <1>5, <2>1, Constants
    <3>2. d \in Range(x.queue) \cup x.lost
      BY <1>10, <2>1, <3>1
    <3> QED BY <1>9, <3>1, <3>2
  <2> QED BY <1>1, <1>8, <2>1 DEF NoHole, SentUpTo
<1>13. Tidy(y, c, n)
  <2>1. h <= n
    BY <1>2, <1>5 DEF Tidy
  <2>2. \A d \in Range(q) : d \in Range(x.queue)
    BY <1>4
  <2> QED BY <1>2, <1>4, <1>8, <1>12, <2>1, <2>2 DEF Tidy
<1>14. Leads(Append(x.wire, f), W, h, x.lost, k)
  <2>1. Leads(x.wire, W, x.last, x.lost, k)
    BY <1>1, <1>2 DEF Feeds
  <2> QED BY <1>3, <1>5, <1>6, <1>11, <2>1, SentLeads
<1>15. Feeds(y, k)
  BY <1>1, <1>2, <1>8, <1>14 DEF Feeds
<1> QED BY <1>8, <1>13, <1>15 DEF OnLine

LEMMA EmptyQueue ==
  << >> \in Seq(Seqs) /\ GoesUp(<< >>) /\ Range(<< >>) = {}
BY DEF GoesUp, Range

\* A request ends, and says so or not; or finds nothing to send and waits.
LEMMA DoneLine ==
  ASSUME NEW x, NEW c, NEW n \in Nat, NEW k, OnLine(x, c, n, k), x.phase \in {"sending", "waiting"},
         NEW y \in Stream, y.phase \in {"waiting", "over"}, y.family = x.family, y.last = x.last, y.head = x.head,
         y.queue = << >>, y.lost = x.lost,
         y.wire = x.wire \/ y.wire = Append(x.wire, [kind |-> "reauth"])
  PROVE  OnLine(y, c, n, k)
<1>1. x \in Stream /\ x # Unused /\ Tidy(x, c, n) /\ Feeds(x, k)
  BY UnusedIsNone DEF OnLine
<1>2. NoHole(y) /\ GoesUp(y.queue) /\ Range(y.queue) = {}
  BY EmptyQueue DEF NoHole
<1>3. Tidy(y, c, n)
  BY <1>1, <1>2 DEF Tidy
<1>4. PICK e : e = [kind |-> "reauth"] /\ e \in Frame /\ ~ IsOpen(e) /\ ~ IsReset(e) /\ ~ IsDetection(e)
  BY FrameFacts
<1>5. x.wire \in Seq(Frame)
  BY <1>1 DEF Stream
<1>6. Leads(x.wire, Wants[Me], x.last, x.lost, k)
  BY <1>1 DEF Feeds
<1>7. Leads(Append(x.wire, e), Wants[Me], x.last, x.lost, k)
  BY <1>4, <1>5, <1>6, EndedLeads
<1>8. Leads(y.wire, Wants[Me], y.last, y.lost, k)
  BY <1>4, <1>6, <1>7
<1>9. Feeds(y, k)
  BY <1>1, <1>8 DEF Feeds
<1> QED BY <1>3, <1>9 DEF OnLine

\* A request goes on from l, with w on its way, where nothing it wants lies
\* between its head and what it skips.
LEMMA GoneOnIsTidy ==
  ASSUME NEW x \in Stream, NEW c, NEW n \in 0..MaxSeq, Tidy(x, c, n), x.phase = "opening",
         NEW l \in 0..MaxSeq, l <= n,
         l = x.head \/ \A d \in Wants[x.family] : ~ (l < d /\ d <= n),
         NEW y \in Stream, y.phase = "sending", y.family = x.family, y.last = l, y.head = 0,
         y.queue = x.queue, y.lost = x.lost, y.listens = x.listens
  PROVE  Tidy(y, c, n)
<1>1. x # Unused /\ x.queue \in Seq(Seqs) /\ x.family \in Families
  BY UnusedIsNone DEF Stream
<1>2. \A d \in Range(x.queue) : d \in Nat /\ d <= n
  <2>1. \A d \in Range(x.queue) : d \in Nat
    BY <1>1, Constants DEF Range
  <2> QED BY <1>1, <2>1 DEF Tidy
<1>3. ASSUME NEW e \in Range(x.queue), NEW d \in Wants[x.family], l < d, d < e
      PROVE  d \in Range(x.queue) \cup x.lost
  <2>1. CASE l = x.head
    BY <1>1, <1>3, <2>1 DEF Tidy, NoHole, SentUpTo
  <2>2. CASE l # x.head
    <3>1. d \in Nat /\ e \in Nat /\ e <= n /\ n \in Nat
      BY <1>1, <1>2, Constants
    <3>2. d <= n
      BY <1>3, <3>1
    <3> QED BY <1>3, <2>2, <3>2
  <2> QED BY <2>1, <2>2
<1>4. NoHole(y)
  BY <1>3 DEF NoHole, SentUpTo
<1>5. 0 <= n
  BY Constants
<1> QED BY <1>1, <1>4, <1>5 DEF Tidy

\* A request without a resume point goes on from its head.
LEMMA StartedLine ==
  ASSUME NEW x, NEW c, NEW n \in 0..MaxSeq, NEW k, OnLine(x, c, n, k), x.phase = "opening", x.resume = None,
         NEW y, y = [x EXCEPT !.phase = "sending", !.last = x.head, !.head = 0, !.resume = 0]
  PROVE  OnLine(y, c, n, k)
<1>1. x \in Stream /\ x # Unused /\ Tidy(x, c, n) /\ Feeds(x, k)
  BY UnusedIsNone DEF OnLine
<1>2. x.head \in 0..MaxSeq /\ 0 \in 0..MaxSeq /\ 0 \in 0..None /\ x.head <= n /\ x.family \in Families
  BY <1>1, Constants DEF Stream, None, Tidy
<1>3. /\ y \in Stream /\ y.phase = "sending" /\ y.last = x.head /\ y.head = 0 /\ y.queue = x.queue
      /\ y.lost = x.lost /\ y.wire = x.wire /\ y.listens = x.listens /\ y.family = x.family
  BY <1>1, <1>2 DEF Stream, Phases
<1>4. Tidy(y, c, n)
  BY <1>1, <1>2, <1>3, GoneOnIsTidy
<1>5. PICK o : o = [kind |-> "open", head |-> x.head] /\ o \in Frame /\ IsOpen(o) /\ o.head = x.head
  BY <1>2, FrameFacts
<1>6. x.wire \in {<< >>, <<o>>} /\ k = IF x.wire = << >> THEN x.head ELSE None
  BY <1>1, <1>5 DEF Feeds, OpensFor
<1>7. Wants[Me] \in SUBSET Seqs
  BY Constants, FeedConstants
<1>8. Leads(<<o>>, Wants[Me], x.head, x.lost, None) /\ Leads(<< >>, Wants[Me], x.head, x.lost, x.head)
  BY <1>2, <1>5, <1>7, StartLeads
<1>9. Leads(x.wire, Wants[Me], x.head, x.lost, k)
  <2>1. CASE x.wire = << >>
    BY <1>6, <1>8, <2>1
  <2>2. CASE x.wire # << >>
    BY <1>6, <1>8, <2>2
  <2> QED BY <2>1, <2>2
<1>10. Feeds(y, k)
  BY <1>1, <1>3, <1>9 DEF Feeds
<1> QED BY <1>3, <1>4, <1>10 DEF OnLine

\* A request with a resume point is told of a reset, or replays.
LEMMA ResumedLine ==
  ASSUME NEW x, NEW c, NEW n \in 0..MaxSeq, NEW k, OnLine(x, c, n, k), x.phase = "opening", x.resume # None,
         NEW l \in 0..MaxSeq, l <= n, l = x.head \/ \A d \in Wants[x.family] : ~ (l < d /\ d <= n),
         NEW more \in Seq(Frame), \A i \in DOMAIN more : ~ IsOpen(more[i]),
         Leads(more, Wants[x.family], l, x.lost, x.resume),
         NEW y, y = [x EXCEPT !.phase = "sending", !.head = 0, !.resume = 0, !.last = l,
                              !.wire = x.wire \o more]
  PROVE  OnLine(y, c, n, k)
<1>1. x \in Stream /\ x # Unused /\ Tidy(x, c, n) /\ Feeds(x, k)
  BY UnusedIsNone DEF OnLine
<1>2. x.head \in 0..MaxSeq /\ 0 \in 0..MaxSeq /\ 0 \in 0..None /\ x.wire \in Seq(Frame)
  BY <1>1, Constants DEF Stream, None
<1>3. PICK w : w = x.wire \o more
  OBVIOUS
<1>13. w \in Seq(Frame)
  BY <1>2, <1>3
<1>4. /\ y \in Stream /\ y.phase = "sending" /\ y.last = l /\ y.head = 0 /\ y.queue = x.queue
      /\ y.lost = x.lost /\ y.wire = w /\ y.listens = x.listens /\ y.family = x.family
  BY <1>1, <1>2, <1>3, <1>13 DEF Stream, Phases
<1>5. Tidy(y, c, n)
  BY <1>1, <1>4, GoneOnIsTidy
<1>6. PICK o : o = [kind |-> "open", head |-> x.head] /\ o \in Frame /\ IsOpen(o) /\ o.head = x.head
  BY <1>2, FrameFacts
<1>7. x.wire \in {<< >>, <<o>>} /\ k = x.resume /\ x.family = Me
  BY <1>1, <1>6 DEF Feeds, OpensFor
<1>8. Leads(more, Wants[Me], l, x.lost, k) /\ k # None
  BY <1>7
<1>9. Leads(<<o>> \o more, Wants[Me], l, x.lost, k)
  BY <1>6, <1>8, ConsLeads
<1>10. << >> \o more = more
  OBVIOUS
<1>11. Leads(w, Wants[Me], l, x.lost, k)
  BY <1>3, <1>7, <1>8, <1>9, <1>10
<1>12. Feeds(y, k)
  BY <1>4, <1>7, <1>11 DEF Feeds
<1> QED BY <1>4, <1>5, <1>12 DEF OnLine

\* A request begins to listen.
LEMMA BegunLine ==
  ASSUME NEW x, NEW c, NEW n \in 0..MaxSeq, NEW k, OnLine(x, c, n, k), x.phase = "authorized", (k # None => k <= n),
         NEW w, w = <<[kind |-> "open", head |-> n]>>
  PROVE  LET y == [x EXCEPT !.phase = "opening", !.listens = TRUE, !.head = n, !.wire = w]
         IN  OnLine(y, n, n, k) /\ y.lost = x.lost
<1> PICK y : y = [x EXCEPT !.phase = "opening", !.listens = TRUE, !.head = n, !.wire = w]
  OBVIOUS
<1>1. x \in Stream /\ x # Unused /\ Tidy(x, c, n) /\ Feeds(x, k)
  BY UnusedIsNone DEF OnLine
<1>2. PICK o : o = [kind |-> "open", head |-> n] /\ o \in Frame
  BY FrameFacts
<1>3. <<o>> \in Seq(Frame) /\ <<o>> # << >>
  BY <1>2
<1>4. /\ y \in Stream /\ y.phase = "opening" /\ y.head = n /\ y.queue = x.queue /\ y.last = x.last
      /\ y.lost = x.lost /\ y.wire = <<o>> /\ y.family = x.family /\ y.resume = x.resume
  BY <1>1, <1>2, <1>3 DEF Stream, Phases
<1>5. x.queue = << >> /\ x.lost = {} /\ x.last <= n
  BY <1>1 DEF Tidy
<1>6. n <= n
  BY Constants
<1>7. Tidy(y, n, n)
  BY <1>4, <1>5, <1>6, EmptyQueue DEF Tidy, NoHole
<1>8. OpensFor(y, k)
  BY <1>1, <1>2, <1>3, <1>4 DEF OpensFor, Feeds
<1>9. Feeds(y, k)
  BY <1>1, <1>4, <1>8 DEF Feeds
<1> QED BY <1>4, <1>7, <1>9 DEF OnLine

\* The request is on line for a feed that knows of everything up to k, and remains so.
Ready(s, k) ==
  /\ RingInv /\ HooksInv /\ WholeInv
  /\ s \in Streams /\ k \in 0..None /\ (k # None => k <= released)
  /\ OnLine(stream[s], cursor, released, k)

Carried(s, k) ==
  /\ OnLine(stream'[s], cursor', released', k)
  /\ stream[s].lost \subseteq stream'[s].lost

LEMMA ReadyFacts ==
  ASSUME NEW s, NEW k, Ready(s, k)
  PROVE  /\ released \in 0..MaxSeq /\ released \in Nat /\ cursor \in Nat /\ cursor <= released
         /\ stream[s] \in Stream /\ stream[s] # Unused /\ Sound(stream[s], primed, cursor)
         /\ OnLine(stream[s], cursor, released, k) /\ DOMAIN stream = Streams
<1>1. released \in 0..MaxSeq /\ cursor \in Nat /\ cursor <= released /\ DOMAIN stream = Streams
  BY DEF Ready, RingInv, WholeInv, HooksInv
<1>2. released \in Nat
  BY <1>1, Constants
<1>3. stream[s] \in Stream /\ stream[s] # Unused
  BY UnusedIsNone DEF Ready, OnLine
<1>4. Sound(stream[s], primed, cursor)
  BY DEF Ready, WholeInv
<1> QED BY <1>1, <1>2, <1>3, <1>4 DEF Ready

\* Only the request changes, or does not, and the bus is as it was.
LEMMA OneCarried ==
  ASSUME NEW s, NEW k, Ready(s, k), UNCHANGED <<released, bus>>, NEW r,
         stream'[s] = r, OnLine(r, cursor, released, k), stream[s].lost \subseteq r.lost
  PROVE  Carried(s, k)
BY DEF Carried, bus

LEMMA QuietCarried ==
  ASSUME NEW s, NEW k, Ready(s, k), UNCHANGED <<released, bus>>, stream'[s] = stream[s]
  PROVE  Carried(s, k)
BY ReadyFacts DEF Carried, bus

LEMMA SilencedLine ==
  ASSUME NEW all, NEW f, NEW s, s \in DOMAIN all, DOMAIN all = Streams, NEW c, NEW n \in Nat, NEW k,
         OnLine(all[s], c, n, k)
  PROVE  OnLine(Silenced(all, f)[s], c, n, k) /\ Silenced(all, f)[s].lost = all[s].lost
<1>1. PICK x, y : x = all[s] /\ y = Silenced(all, f)[s]
  OBVIOUS
<1>2. x \in Stream /\ OnLine(x, c, n, k)
  BY <1>1 DEF OnLine
<1>3. y = x \/ y = [x EXCEPT !.listens = FALSE]
  BY <1>1 DEF Silenced
<1>4. CASE y = x
  BY <1>1, <1>2, <1>4
<1>5. CASE y = [x EXCEPT !.listens = FALSE]
  <2>1. /\ y \in Stream /\ ~ y.listens
        /\ y.phase = x.phase /\ y.family = x.family /\ y.resume = x.resume /\ y.head = x.head
        /\ y.last = x.last /\ y.wire = x.wire /\ y.queue = x.queue /\ y.lost = x.lost
    BY <1>2, <1>5 DEF Stream
  <2>2. n <= n
    OBVIOUS
  <2>3. OnLine(y, c, n, k)
    BY <1>2, <2>1, <2>2, SilentLine
  <2> QED BY <1>1, <2>1, <2>3
<1> QED BY <1>3, <1>4, <1>5

LEMMA BeginCarries ==
  ASSUME NEW s, NEW k, Ready(s, k), NEW t \in Streams, Begin(t)
  PROVE  Carried(s, k)
<1>0. /\ released \in 0..MaxSeq /\ released \in Nat /\ cursor \in Nat /\ cursor <= released
      /\ stream[s] \in Stream /\ stream[s] # Unused /\ Sound(stream[s], primed, cursor)
      /\ OnLine(stream[s], cursor, released, k) /\ DOMAIN stream = Streams
  BY ReadyFacts
<1>1. PICK f : f = stream[t].family
  OBVIOUS
<1>2. PICK now \in released..MaxSeq :
        /\ released' = now /\ Refreshed(now)
        /\ LET opened == [Fed(now) EXCEPT ![t] = Opened(t, now)]
           IN  \/ stream' = opened
               \/ stream' = Silenced(opened, f)
  BY <1>1 DEF Begin
<1>3. PICK opened : opened = [Fed(now) EXCEPT ![t] = Opened(t, now)]
  OBVIOUS
<1>4. /\ now \in 0..MaxSeq /\ now \in Nat /\ released <= now /\ cursor <= now /\ now <= now
      /\ RingInv /\ WholeInv /\ s \in Streams /\ (k # None => k <= released)
  <2>1. RingInv /\ WholeInv /\ s \in Streams /\ (k # None => k <= released)
    BY DEF Ready
  <2>2. MaxSeq \in Nat
    BY Constants
  <2> QED BY <1>0, <1>2, <2>1, <2>2
<1>5. DOMAIN Fed(now) = Streams /\ DOMAIN opened = Streams
  BY <1>3 DEF Fed
<1>6. OnLine(opened[s], now, now, k) /\ stream[s].lost \subseteq opened[s].lost
  <2>1. CASE t # s
    <3>1. opened[s] = Fed(now)[s]
      BY <1>3, <1>4, <1>5, <2>1
    <3> QED BY <1>0, <1>4, <3>1, FedLine
  <2>2. CASE t = s
    <3>1. PICK x, e : x = stream[s] /\ e = [kind |-> "open", head |-> released]
      OBVIOUS
    <3>2. PICK r : r = [x EXCEPT !.phase = "opening", !.listens = TRUE, !.head = released, !.wire = <<e>>]
      OBVIOUS
    <3>3. opened[s] = Pushed(r, released, now)
      BY <1>3, <1>4, <1>5, <2>2, <3>1, <3>2 DEF Opened, Opening
    <3>4. x.phase = "authorized"
      BY <2>2, <3>1 DEF Begin
    <3>5. OnLine(r, released, released, k) /\ r.lost = x.lost
      <4>1. OnLine(x, cursor, released, k)
        BY <1>0, <3>1
      <4>2. k # None => k <= released
        BY <1>4
      <4>3. PICK w : w = <<e>>
        OBVIOUS
      <4>4. w = <<[kind |-> "open", head |-> released]>>
        BY <3>1, <4>3
      <4>5. r = [x EXCEPT !.phase = "opening", !.listens = TRUE, !.head = released, !.wire = w]
        BY <3>2, <4>3
      <4>6. released \in 0..MaxSeq
        BY <1>0
      <4> HIDE DEF Begin, Ready
      <4>7. OnLine(r, released, released, k)
        BY <3>4, <4>1, <4>2, <4>4, <4>5, <4>6, BegunLine
      <4>8. r.lost = x.lost
        BY <1>0, <3>1, <3>2 DEF Stream
      <4> QED BY <4>7, <4>8
    <3>6. <<e>> \in Seq(Frame) /\ \A i \in DOMAIN <<e>> : ~ IsDetection(<<e>>[i])
      <4>1. e \in Frame /\ ~ IsDetection(e)
        BY <1>0, <3>1, FramesAreTold
      <4> QED BY <4>1
    <3>7. Sound(r, TRUE, released)
      BY <1>0, <3>1, <3>2, <3>6, BegunIsSound
    <3>8. OnLine(Pushed(r, released, now), now, now, k) /\ r.lost \subseteq Pushed(r, released, now).lost
      BY <1>0, <1>4, <3>5, <3>7, PushedLine
    <3> QED BY <3>1, <3>3, <3>5, <3>8
  <2> QED BY <2>1, <2>2
<1>7. cursor' = now /\ released' = now
  BY <1>2 DEF Refreshed
<1>8. CASE stream' = opened
  BY <1>6, <1>7, <1>8 DEF Carried
<1>9. CASE stream' = Silenced(opened, f)
  <2>1. OnLine(Silenced(opened, f)[s], now, now, k) /\ Silenced(opened, f)[s].lost = opened[s].lost
    BY <1>4, <1>5, <1>6, SilencedLine
  <2> QED BY <1>6, <1>7, <1>9, <2>1 DEF Carried
<1> QED BY <1>2, <1>3, <1>8, <1>9

LEMMA PumpCarries ==
  ASSUME NEW s, NEW k, Ready(s, k), Pump \/ Backfill
  PROVE  Carried(s, k)
<1> USE ReadyFacts
<1>1. Refreshed(released) /\ stream' = Fed(released) /\ released' = released /\ cursor' = released
  BY DEF Pump, Backfill, Refreshed
<1>2. released <= released /\ RingInv /\ WholeInv /\ s \in Streams
  BY DEF Ready
<1>3. OnLine(Fed(released)[s], released, released, k) /\ stream[s].lost \subseteq Fed(released)[s].lost
  BY <1>2, FedLine
<1> QED BY <1>1, <1>3 DEF Carried

LEMMA DetectCarries ==
  ASSUME NEW s, NEW k, Ready(s, k), Detect
  PROVE  Carried(s, k)
<1> USE ReadyFacts
<1>1. released' = released + 1 /\ cursor' = cursor /\ stream' = stream
  BY DEF Detect, bus
<1>2. released + 1 \in Nat /\ released <= released + 1
  OBVIOUS
<1>3. OnLine(stream[s], cursor, released + 1, k)
  BY <1>2, LaterLine
<1> QED BY <1>1, <1>3 DEF Carried

LEMMA ResetCarries ==
  ASSUME NEW s, NEW k, Ready(s, k), ResetState
  PROVE  Carried(s, k)
<1> USE ReadyFacts
<1>1. PICK x, y : x = stream[s] /\ y = [x EXCEPT !.listens = FALSE, !.expired = TRUE]
  OBVIOUS
<1>2. stream'[s] = y /\ released' = released
  BY <1>1 DEF ResetState, Used, Ready
<1>3. x \in Stream /\ OnLine(x, cursor, released, k)
  BY <1>1
<1>4. /\ y \in Stream /\ ~ y.listens
      /\ y.phase = x.phase /\ y.family = x.family /\ y.resume = x.resume /\ y.head = x.head
      /\ y.last = x.last /\ y.wire = x.wire /\ y.queue = x.queue /\ y.lost = x.lost
  BY <1>1, <1>3 DEF Stream
<1>5. released <= released
  OBVIOUS
<1>6. OnLine(y, cursor', released, k)
  BY <1>3, <1>4, <1>5, SilentLine
<1> QED BY <1>1, <1>2, <1>4, <1>6 DEF Carried

LEMMA RevokeCarries ==
  ASSUME NEW s, NEW k, Ready(s, k), NEW f, Revoke(f)
  PROVE  Carried(s, k)
<1> USE ReadyFacts
<1>1. UNCHANGED <<released, bus>> /\ (stream' = stream \/ stream' = Silenced(stream, f))
  BY DEF Revoke
<1>2. CASE stream' = stream
  BY <1>1, <1>2, QuietCarried
<1>3. CASE stream' = Silenced(stream, f)
  <2>1. s \in DOMAIN stream
    BY DEF Ready
  <2>2. OnLine(Silenced(stream, f)[s], cursor, released, k) /\ Silenced(stream, f)[s].lost = stream[s].lost
    BY <2>1, SilencedLine
  <2> QED BY <1>1, <1>3, <2>2, OneCarried
<1> QED BY <1>1, <1>2, <1>3

LEMMA StartCarries ==
  ASSUME NEW s, NEW k, Ready(s, k), StartAtHead(s)
  PROVE  Carried(s, k)
<1>1. PICK x, y : x = stream[s] /\ y = [x EXCEPT !.phase = "sending", !.last = x.head, !.head = 0, !.resume = 0]
  OBVIOUS
<1>2. x \in Stream /\ OnLine(x, cursor, released, k) /\ released \in 0..MaxSeq /\ DOMAIN stream = Streams
  BY <1>1, ReadyFacts
<1>3. x.phase = "opening" /\ x.resume = None /\ UNCHANGED <<released, bus>>
  BY <1>1 DEF StartAtHead
<1>4. stream' = [stream EXCEPT ![s] = y] /\ s \in Streams
  BY <1>1, <1>2 DEF StartAtHead, Stream, Ready
<1>5. OnLine(y, cursor, released, k)
  BY <1>1, <1>2, <1>3, StartedLine
<1>6. y.lost = x.lost
  BY <1>1, <1>2 DEF Stream
<1> QED BY <1>1, <1>2, <1>3, <1>4, <1>5, <1>6, OneCarried

LEMMA EndsCarries ==
  ASSUME NEW s, NEW k, Ready(s, k), EndRevoked(s) \/ EndReauth(s) \/ EndRotate(s)
  PROVE  Carried(s, k)
<1>1. PICK x, e : x = stream[s] /\ e = [kind |-> "reauth"]
  OBVIOUS
<1>2. x \in Stream /\ OnLine(x, cursor, released, k) /\ released \in Nat /\ DOMAIN stream = Streams
  BY <1>1, ReadyFacts
<1>3. x.phase \in {"sending", "waiting"} /\ (Ends(s, << >>) \/ Ends(s, <<e>>))
  BY <1>1 DEF EndRevoked, EndReauth, EndRotate, GoesOn, InLoop
<1>4. PICK frames \in {<< >>, <<e>>} : Ends(s, frames)
  BY <1>3
<1>5. PICK q, w : q = << >> /\ w = x.wire \o frames
  OBVIOUS
<1>6. x.wire \in Seq(Frame) /\ e \in Frame
  BY <1>1, <1>2, FrameFacts DEF Stream
<1>7. w = x.wire \/ w = Append(x.wire, e)
  <2>1. x.wire \o << >> = x.wire /\ x.wire \o <<e>> = Append(x.wire, e)
    BY <1>6
  <2> QED BY <1>4, <1>5, <2>1
<1>8. w \in Seq(Frame)
  BY <1>6, <1>7
<1>9. PICK y : y = [x EXCEPT !.phase = "over", !.listens = FALSE, !.expired = FALSE, !.queue = q, !.wire = w]
  OBVIOUS
<1>10. stream' = [stream EXCEPT ![s] = y] /\ s \in Streams /\ UNCHANGED <<released, bus>>
  BY <1>1, <1>2, <1>4, <1>5, <1>9 DEF Ends, Ready
<1>11. q \in Seq(Seqs)
  BY <1>5
<1>12. /\ y \in Stream /\ y.phase = "over" /\ y.family = x.family /\ y.last = x.last /\ y.head = x.head
       /\ y.queue = q /\ y.lost = x.lost /\ y.wire = w
  BY <1>2, <1>8, <1>9, <1>11 DEF Stream, Phases
<1>13. OnLine(y, cursor, released, k)
  BY <1>1, <1>2, <1>3, <1>5, <1>7, <1>12, DoneLine
<1> QED BY <1>1, <1>2, <1>10, <1>12, <1>13, OneCarried

LEMMA WaitCarries ==
  ASSUME NEW s, NEW k, Ready(s, k), Wait(s)
  PROVE  Carried(s, k)
<1>1. PICK x, q : x = stream[s] /\ q = << >>
  OBVIOUS
<1>2. x \in Stream /\ OnLine(x, cursor, released, k) /\ released \in Nat /\ DOMAIN stream = Streams
  BY <1>1, ReadyFacts
<1>3. x.phase \in {"sending", "waiting"} /\ UNCHANGED <<released, bus>>
  BY <1>1 DEF Wait
<1>4. PICK y : y = [x EXCEPT !.phase = "waiting", !.queue = q]
  OBVIOUS
<1>5. stream' = [stream EXCEPT ![s] = y] /\ s \in Streams
  BY <1>1, <1>2, <1>4 DEF Wait, Stream, Ready
<1>6. q \in Seq(Seqs)
  BY <1>1
<1>7. /\ y \in Stream /\ y.phase = "waiting" /\ y.family = x.family /\ y.last = x.last /\ y.head = x.head
      /\ y.queue = q /\ y.lost = x.lost /\ y.wire = x.wire
  BY <1>2, <1>4, <1>6 DEF Stream, Phases
<1>8. OnLine(y, cursor, released, k)
  BY <1>1, <1>2, <1>3, <1>7, DoneLine
<1> QED BY <1>1, <1>2, <1>3, <1>5, <1>7, <1>8, OneCarried

LEMMA SendsCarries ==
  ASSUME NEW s, NEW k, Ready(s, k), stream[s].phase \in {"sending", "waiting"},
         NEW fresh \in Seq(Seqs), fresh # << >>, GoesUp(fresh), Range(fresh) \subseteq Range(stream[s].queue),
         \A d \in Range(stream[s].queue) : d > stream[s].last => d \in Range(fresh),
         Head(fresh) > stream[s].last, Sends(s, fresh)
  PROVE  Carried(s, k)
<1>1. PICK x, f : x = stream[s] /\ f = [kind |-> "detection", seq |-> Head(fresh)]
  OBVIOUS
<1>2. x \in Stream /\ OnLine(x, cursor, released, k) /\ released \in Nat /\ DOMAIN stream = Streams
  BY <1>1, ReadyFacts
<1>3. PICK y : y = [x EXCEPT !.phase = "sending", !.last = Head(fresh), !.queue = Tail(fresh),
                             !.wire = Append(x.wire, f)]
  OBVIOUS
<1>4. stream' = [stream EXCEPT ![s] = y] /\ s \in Streams /\ UNCHANGED <<released, bus>> /\ k \in 0..None
  BY <1>1, <1>2, <1>3 DEF Sends, Ready
<1>5. OnLine(y, cursor, released, k)
  BY <1>1, <1>2, <1>3, <1>4, SentLine
<1>6. y.lost = x.lost
  BY <1>2, <1>3 DEF Stream
<1> QED BY <1>1, <1>2, <1>4, <1>5, <1>6, OneCarried

LEMMA DeliverCarries ==
  ASSUME NEW s, NEW k, Ready(s, k), Deliver(s) \/ DeliverLast(s)
  PROVE  Carried(s, k)
<1>1. PICK x, q : x = stream[s] /\ q = x.queue
  OBVIOUS
<1>2. x \in Stream /\ x # Unused /\ OnLine(x, cursor, released, k) /\ Used(s) /\ WholeInv /\ s \in Streams
  BY <1>1, ReadyFacts DEF Used, Ready
<1>3. q \in Seq(Seqs) /\ GoesUp(q)
  BY <1>1, <1>2 DEF Stream, OnLine, Tidy
<1>4. CASE Deliver(s)
  <2>1. PICK fresh : fresh = Fresh(s)
    OBVIOUS
  <2>2. x.phase \in {"sending", "waiting"} /\ fresh # << >> /\ Sends(s, fresh)
    BY <1>1, <1>4, <2>1 DEF Deliver, GoesOn, InLoop
  <2>3. fresh \in Seq(Seqs) /\ Range(fresh) = {d \in Range(q) : d > x.last}
    BY <1>1, <1>2, <2>1, FreshFacts
  <2>4. GoesUp(fresh)
    <3>1. q \in Seq(Nat)
      BY <1>3, NumbersAreNumbers
    <3>2. fresh = Those(q, {d \in Seqs : d > x.last})
      BY <1>1, <2>1 DEF Fresh
    <3> QED BY <1>3, <3>1, <3>2, ThoseGoUp
  <2>5. Head(fresh) > x.last
    BY <2>2, <2>3, HeadIsThere
  <2> QED BY <1>1, <2>2, <2>3, <2>4, <2>5, SendsCarries
<1>5. CASE DeliverLast(s)
  <2>1. x.phase \in {"sending", "waiting"} /\ q # << >> /\ Sends(s, q) /\ Head(q) > x.last
    BY <1>1, <1>5 DEF DeliverLast, InLoop
  <2> QED BY <1>1, <1>3, <2>1, SendsCarries
<1> QED BY <1>4, <1>5

LEMMA ExpireCarries ==
  ASSUME NEW s, NEW k, Ready(s, k), UNCHANGED <<released, bus>>,
         stream'[s] = [stream[s] EXCEPT !.expired = TRUE]
  PROVE  Carried(s, k)
<1>1. PICK x, y : x = stream[s] /\ y = [x EXCEPT !.expired = TRUE]
  OBVIOUS
<1>2. x \in Stream /\ x # Unused /\ OnLine(x, cursor, released, k) /\ Tidy(x, cursor, released) /\ Feeds(x, k)
  BY <1>1, ReadyFacts DEF OnLine
<1>3. /\ y \in Stream /\ y.listens = x.listens
      /\ y.phase = x.phase /\ y.family = x.family /\ y.resume = x.resume /\ y.head = x.head
      /\ y.last = x.last /\ y.wire = x.wire /\ y.queue = x.queue /\ y.lost = x.lost
  BY <1>1, <1>2 DEF Stream
<1>4. Tidy(y, cursor, released)
  BY <1>2, <1>3 DEF Tidy, NoHole, SentUpTo
<1>5. Feeds(y, k)
  BY <1>2, <1>3, AlongFeeds DEF Along
<1> QED BY <1>1, <1>3, <1>4, <1>5, OneCarried DEF OnLine

\* What a resume point that the ring covers is replayed, or it is too old.
LEMMA ReplayIsDue ==
  ASSUME RingInv', NEW s, NEW c \in 0..MaxSeq, cursor' = c, primed',
         NEW k \in 0..MaxSeq, k = stream[s].resume, ~ TooOld(s), NEW W \in SUBSET Seqs,
         W = Wants[stream[s].family]
  PROVE  Replayed(s) \in Seq(Seqs) /\ GoesUp(Replayed(s)) /\ Range(Replayed(s)) = W \cap Between(k, c)
<1>1. PICK g : g = ring'
  OBVIOUS
<1>2. /\ g \in Seq(Nat) /\ Len(g) \in Nat /\ Len(g) = IF c < RingSize THEN c ELSE RingSize
      /\ \A i \in 1..Len(g) : g[i] = c - Len(g) + i
  <2>1. ring' \in Seq(Nat) /\ RingIsContiguous'
    BY DEF RingInv
  <2>2. Len(ring') = IF cursor' < RingSize THEN cursor' ELSE RingSize
    BY <2>1 DEF RingIsContiguous
  <2>3. \A i \in DOMAIN ring' : ring'[i] = cursor' - Len(ring') + i
    BY <2>1 DEF RingIsContiguous
  <2>4. DOMAIN ring' = 1..Len(ring') /\ Len(ring') \in Nat
    BY <2>1
  <2> QED BY <1>1, <2>1, <2>2, <2>3, <2>4
<1>3. Len(g) <= c /\ c \in Nat /\ k \in Nat
  BY <1>2, Constants, StreamConstants
<1>4. c - Len(g) <= k
  <2>1. CASE g = << >>
    <3>1. Len(g) = 0
      BY <2>1
    <3>2. c = 0
      BY <1>2, <1>3, <3>1, StreamConstants
    <3> QED BY <1>3, <3>1, <3>2
  <2>2. CASE g # << >>
    <3>1. Oldest = Head(g) /\ Head(g) = g[1] /\ 1 \in 1..Len(g)
      BY <1>1, <1>2, <2>2 DEF Oldest
    <3>2. Oldest = c - Len(g) + 1
      BY <1>2, <3>1
    <3>3. ~ (Oldest > 0 /\ k < Oldest - 1)
      BY DEF TooOld
    <3> QED BY <1>2, <1>3, <3>2, <3>3
  <2> QED BY <2>1, <2>2
<1>5. Covers(g, c, k)
  BY <1>2, <1>3, <1>4 DEF Covers
<1>6. Replayed(s) = Those(g, After(W, k))
  BY <1>1 DEF Replayed, After
<1> QED BY <1>5, <1>6, ReplayIsWhole

LEMMA ResumeCarries ==
  ASSUME NEW s, NEW k, Ready(s, k), RingInv', NEW t \in Streams, ResumeAt(t)
  PROVE  Carried(s, k)
<1>1. PICK c, old : c = released /\ old = Fed(c)
  OBVIOUS
<1>2. /\ c \in 0..MaxSeq /\ c \in Nat /\ cursor \in Nat /\ cursor <= c /\ c <= c /\ cursor' = c /\ primed'
      /\ released' = c /\ DOMAIN old = Streams /\ RingInv /\ WholeInv /\ s \in Streams
      /\ OnLine(stream[s], cursor, c, k)
  BY <1>1, ReadyFacts DEF ResumeAt, Refreshed, Fed, Ready
<1>3. PICK x : x = old[s]
  OBVIOUS
<1>4. OnLine(x, c, c, k) /\ stream[s].lost \subseteq x.lost
  BY <1>1, <1>2, <1>3, FedLine
<1>5. CASE t # s
  <2>1. stream'[s] = x
    BY <1>1, <1>2, <1>3, <1>5 DEF ResumeAt
  <2> QED BY <1>2, <1>4, <2>1 DEF Carried
<1>6. CASE t = s
  <2>1. /\ x \in Stream /\ x # Unused /\ x.phase = "opening" /\ x.resume # None
        /\ x.family = stream[s].family /\ x.resume = stream[s].resume /\ x.head = stream[s].head
    <3>1. Used(s) /\ stream[s].phase = "opening" /\ stream[s].resume # None
      BY <1>6 DEF ResumeAt
    <3>2. x # Unused /\ x \in Stream
      BY <1>4, UnusedIsNone DEF OnLine
    <3> QED BY <1>1, <1>2, <1>3, <3>1, <3>2, FedIsSound
  <2>2. PICK h, from, W, R : h = x.head /\ from = x.resume /\ W = Wants[x.family] /\ R = Replayed(s)
    OBVIOUS
  <2>3. PICK more : more = IF TooOld(s) THEN <<[kind |-> "reset", last |-> h]>>
                           ELSE [i \in DOMAIN R |-> [kind |-> "detection", seq |-> R[i]]]
    OBVIOUS
  <2>4. PICK l : l = IF TooOld(s) THEN h ELSE IF R = << >> THEN from ELSE Last(R)
    OBVIOUS
  <2>5. PICK y : y = [x EXCEPT !.phase = "sending", !.head = 0, !.resume = 0, !.last = l,
                               !.wire = x.wire \o more]
    OBVIOUS
  <2>6. stream'[s] = y
    <3>1. stream' = [old EXCEPT ![s].phase = "sending", ![s].head = 0, ![s].resume = 0,
                                ![s].last = l, ![s].wire = @ \o more]
      BY <1>1, <1>6, <2>1, <2>2, <2>3, <2>4 DEF ResumeAt
    <3> QED BY <1>2, <1>3, <2>1, <2>5, <3>1 DEF Stream
  <2>7. /\ h \in 0..MaxSeq /\ from \in 0..MaxSeq /\ W \in SUBSET Seqs /\ k = from /\ from <= h /\ h <= c
    <3>1. x.family \in Families /\ h \in 0..MaxSeq /\ from \in 0..MaxSeq
      BY <2>1, <2>2, Constants DEF Stream, None
    <3>2. OpensFor(x, k) /\ x.head <= c
      BY <1>4, <2>1 DEF OnLine, Feeds, Tidy
    <3> QED BY <2>1, <2>2, <3>1, <3>2, Constants DEF OpensFor
  <2>8. /\ l \in 0..MaxSeq /\ l <= c /\ more \in Seq(Frame) /\ \A i \in DOMAIN more : ~ IsOpen(more[i])
        /\ Leads(more, W, l, x.lost, from)
        /\ l = h \/ \A d \in W : ~ (l < d /\ d <= c)
    <3>1. CASE TooOld(s)
      <4>1. PICK e : e = [kind |-> "reset", last |-> h] /\ e \in Frame /\ IsReset(e) /\ e.last = h
        BY <2>7, FrameFacts
      <4>2. more = <<e>> /\ l = h
        BY <2>3, <2>4, <3>1, <4>1
      <4>3. more \in Seq(Frame)
        BY <4>1, <4>2
      <4> QED BY <2>7, <4>1, <4>2, <4>3, ResetLeads
    <3>2. CASE ~ TooOld(s)
      <4>1. R \in Seq(Seqs) /\ GoesUp(R) /\ Range(R) = W \cap Between(from, c)
        BY <1>2, <2>1, <2>2, <2>7, <3>2, ReplayIsDue
      <4>2. more = [i \in DOMAIN R |-> [kind |-> "detection", seq |-> R[i]]] /\ l = IF R = << >> THEN from ELSE Last(R)
        BY <2>3, <2>4, <3>2
      <4>3. /\ more \in Seq(Frame) /\ Leads(more, W, l, x.lost, from) /\ \A i \in DOMAIN more : ~ IsOpen(more[i])
            /\ \A d \in W : ~ (l < d /\ d <= c)
        <5>1. W \in SUBSET Seqs /\ from \in 0..MaxSeq /\ c \in 0..MaxSeq
          BY <1>2, <2>7
        <5>2. PICK gone : gone = x.lost
          OBVIOUS
        <5>3. Shows(more, R) /\ EndsAt(R, from, l)
          BY <4>2 DEF Shows, EndsAt
        <5>4. /\ more \in Seq(Frame) /\ Leads(more, W, l, gone, from) /\ \A i \in DOMAIN more : ~ IsOpen(more[i])
              /\ \A d \in W : ~ (l < d /\ d <= c)
          BY <4>1, <5>1, <5>3, ReplayLeads
        <5> QED BY <5>2, <5>4
      <4>4. l \in 0..MaxSeq /\ l <= c
        <5>1. CASE R = << >>
          BY <1>2, <2>7, <4>2, <5>1, Constants
        <5>2. CASE R # << >>
          <6>1. l \in Range(R)
            BY <4>1, <4>2, <5>2, ReplayIsOrdered
          <6> QED BY <4>1, <6>1, Constants DEF Between
        <5> QED BY <5>1, <5>2
      <4> QED BY <4>3, <4>4
    <3> QED BY <3>1, <3>2
  <2>9. OnLine(y, c, c, k)
    BY <1>2, <1>4, <2>1, <2>2, <2>5, <2>8, ResumedLine
  <2>10. y.lost = x.lost
    BY <2>1, <2>5 DEF Stream
  <2> QED BY <1>2, <1>4, <2>6, <2>9, <2>10 DEF Carried
<1> QED BY <1>5, <1>6

\* Nothing but its own reader takes a request off the line.
LEMMA WorldCarries ==
  ASSUME NEW s, NEW k, Ready(s, k), RingInv',
         World \/ \E t \in Streams \ {s} : ClientGone(t)
  PROVE  Carried(s, k)
<1>1. CASE Detect \/ Pump \/ Backfill \/ ResetState
  BY <1>1, DetectCarries, PumpCarries, ResetCarries
<1>2. CASE \E f \in Families : Revoke(f)
  BY <1>2, RevokeCarries
<1>3. ASSUME NEW t \in Streams, Begin(t) \/ ResumeAt(t) PROVE Carried(s, k)
  BY <1>3, BeginCarries, ResumeCarries
<1>4. ASSUME StartAtHead(s) \/ EndRevoked(s) \/ EndReauth(s) \/ EndRotate(s) \/ Deliver(s) \/ DeliverLast(s) \/ Wait(s)
      PROVE  Carried(s, k)
  BY <1>4, StartCarries, EndsCarries, DeliverCarries, WaitCarries
<1>5. ASSUME Expire(s) PROVE Carried(s, k)
  <2>1. stream[s] \in Stream /\ DOMAIN stream = Streams /\ s \in Streams
    BY ReadyFacts DEF Ready
  <2>2. stream'[s] = [stream[s] EXCEPT !.expired = TRUE] /\ UNCHANGED <<released, bus>>
    BY <1>5, <2>1 DEF Expire, Stream
  <2> QED BY <2>2, ExpireCarries
<1>6. ASSUME NEW t \in Streams \ {s},
             \/ StartAtHead(t) \/ EndRevoked(t) \/ EndReauth(t) \/ EndRotate(t) \/ Deliver(t) \/ DeliverLast(t)
             \/ Wait(t) \/ Expire(t) \/ ClientGone(t)
      PROVE  Carried(s, k)
  <2>1. DOMAIN stream = Streams /\ s \in Streams
    BY ReadyFacts DEF Ready
  <2>2. UNCHANGED <<released, bus>>
    BY <1>6 DEF StartAtHead, EndRevoked, EndReauth, EndRotate, Ends, Deliver, DeliverLast, Sends, Wait, Expire, ClientGone
  <2>3. \A u : u # t /\ u \in Streams => stream'[u] = stream[u]
    BY <1>6, <2>1 DEF StartAtHead, EndRevoked, EndReauth, EndRotate, Ends, Deliver, DeliverLast, Sends, Wait, Expire,
                      ClientGone
  <2> QED BY <2>1, <2>2, <2>3, QuietCarried
<1> QED BY <1>1, <1>2, <1>3, <1>4, <1>5, <1>6 DEF World, Serve

-----------------------------------------------------------------------------
(* The streams while the feed reads one of them.                           *)

\* A step of the feed is a step of the streams, or opens one at the resume point of
\* the feed, or is the expiry of every token.
LEMMA FeedStepsAre ==
  ASSUME FeedTypeOK, [FeedNext]_feedVars
  PROVE  \/ [StreamNext]_vars
         \/ \E s \in Streams : Connect(s, Me, resumeFrom)
         \/ ExpireTokens
<1>1. CASE UNCHANGED feedVars
  BY <1>1 DEF feedVars
<1>2. CASE Backend
  BY <1>2 DEF Backend, StreamNext, Client
<1>3. CASE \E t \in Tabs : Attach(t) \/ Detach(t)
  BY <1>3 DEF Attach, Detach
<1>4. CASE GraceEnds
  BY <1>4 DEF GraceEnds
<1>5. CASE OpenStream
  BY <1>5 DEF OpenStream
<1>6. CASE OpenRefused \/ DelayOver \/ OpenFails \/ Cut
  BY <1>6 DEF OpenRefused, DelayOver, OpenFails, Cut
<1>7. CASE Hear
  <2>1. loop = "reading" /\ (TakeFrame(conn) \/ ClientGone(conn))
    BY <1>7 DEF Hear, HearOpen, HearReset, HearDetection, HearReauth, HearEnd, Hears
  <2>2. conn \in Streams
    BY <2>1 DEF FeedTypeOK
  <2> QED BY <2>1, <2>2 DEF StreamNext, Client
<1>8. CASE LogoutStopsFeed \/ LogoutDrops \/ TokenRefreshed
  BY <1>8 DEF LogoutStopsFeed, LogoutDrops, TokenRefreshed
<1>9. CASE LogoutRevokes
  BY <1>9, FeedConstants DEF LogoutRevokes, StreamNext, World
<1>10. CASE ExpireTokens
  BY <1>10
<1> QED BY <1>1, <1>2, <1>3, <1>4, <1>5, <1>6, <1>7, <1>8, <1>9, <1>10 DEF FeedNext, Runs

LEMMA ExpireAllKeeps ==
  ASSUME RingInv, HooksInv, WholeInv, ExpireTokens
  PROVE  RingInv' /\ HooksInv' /\ WholeInv'
<1>1. UNCHANGED <<released, bus, signedIn, hooks>>
  BY DEF ExpireTokens
<1>2. RingInv'
  BY <1>1 DEF bus, RingInv, RingIsContiguous
<1>3. DOMAIN stream' = Streams
  BY DEF ExpireTokens
<1>4. ASSUME NEW s \in Streams
      PROVE  Shaped(stream'[s]) /\ Alike(stream'[s], stream[s]) /\ Sound(stream'[s], primed, cursor)
  <2>1. PICK x, r : x = stream[s] /\ r = [x EXCEPT !.expired = TRUE]
    OBVIOUS
  <2>2. Shaped(x) /\ Sound(x, primed, cursor)
    BY <2>1 DEF HooksInv, WholeInv
  <2>3. CASE x = Unused
    <3>1. stream'[s] = Unused
      BY <2>1, <2>3 DEF ExpireTokens, Used
    <3> QED BY <2>1, <2>3, <3>1 DEF Shaped, Alike, Sound
  <2>4. CASE x # Unused
    <3>1. stream'[s] = r
      BY <2>1, <2>4 DEF ExpireTokens, Used
    <3>2. x \in Stream
      BY <2>2, <2>4 DEF Sound
    <3>3. /\ r \in Stream /\ r.phase = x.phase /\ r.last = x.last /\ r.head = x.head /\ r.queue = x.queue
          /\ r.lost = x.lost /\ r.wire = x.wire /\ r.listens = x.listens /\ r.family = x.family
      BY <2>1, <3>2 DEF Stream
    <3>4. InStep(r, cursor) <=> InStep(x, cursor)
      BY <3>3 DEF InStep
    <3>5. Sound(r, primed, cursor)
      BY <2>2, <2>4, <3>3, <3>4 DEF Sound
    <3>6. DOMAIN r = Fields /\ DOMAIN x = Fields
      BY <3>2, <3>3 DEF Stream, Fields
    <3>7. Shaped(r) /\ Alike(r, x)
      BY <2>2, <2>4, <3>3, <3>6 DEF Shaped, Alike, Unused
    <3> QED BY <2>1, <3>1, <3>5, <3>7
  <2> QED BY <2>3, <2>4
<1>5. HooksInv'
  BY <1>1, <1>3, <1>4, AlikeKept
<1>6. WholeInv'
  BY <1>1, <1>4 DEF WholeInv, bus
<1> QED BY <1>2, <1>5, <1>6

LEMMA FeedBaseStep ==
  ASSUME FeedTypeOK, RingInv, HooksInv, WholeInv, [FeedNext]_feedVars
  PROVE  RingInv' /\ HooksInv' /\ WholeInv'
<1>1. CASE [StreamNext]_vars
  BY <1>1, RingStep, HooksStep, WholeStep
<1>2. CASE \E s \in Streams : Connect(s, Me, resumeFrom)
  <2>1. PICK s \in Streams : Connect(s, Me, resumeFrom)
    BY <1>2
  <2>2. UNCHANGED <<released, bus>>
    BY <2>1 DEF Connect
  <2>3. RingInv'
    BY <2>2 DEF bus, RingInv, RingIsContiguous
  <2>4. Me \in Families /\ resumeFrom \in 0..None
    BY FeedConstants DEF FeedTypeOK
  <2> QED BY <2>1, <2>3, <2>4, ConnectKeeps, ConnectSound
<1>3. CASE ExpireTokens
  BY <1>3, ExpireAllKeeps
<1> QED BY <1>1, <1>2, <1>3, FeedStepsAre

\* The capture only goes on.
LEMMA CaptureGoesOn ==
  ASSUME RingInv, FeedTypeOK, [FeedNext]_feedVars
  PROVE  released \in Nat /\ released' \in Nat /\ released <= released'
<1>0. released \in Nat /\ released <= released
  BY DEF RingInv
<1>1. CASE UNCHANGED released
  BY <1>0, <1>1
<1>2. CASE Detect
  BY <1>0, <1>2 DEF Detect
<1>3. CASE \E s \in Streams : Begin(s)
  <2>1. PICK s \in Streams, now \in released..MaxSeq : released' = now
    BY <1>3 DEF Begin
  <2> QED BY <1>0, <2>1, Constants
<1>4. CASE [StreamNext]_vars
  <2>1. ASSUME NEW s \in Streams,
             ResumeAt(s) \/ StartAtHead(s) \/ EndRevoked(s) \/ EndReauth(s) \/ EndRotate(s) \/ Deliver(s) \/ Wait(s)
               \/ DeliverLast(s) \/ Expire(s) \/ Client(s)
      PROVE  UNCHANGED released
    <3>1. CASE EndRevoked(s) \/ EndReauth(s) \/ EndRotate(s)
      BY <3>1 DEF EndRevoked, EndReauth, EndRotate, Ends
    <3>2. CASE Deliver(s) \/ DeliverLast(s)
      BY <3>2 DEF Deliver, DeliverLast, Sends
    <3>3. CASE StartAtHead(s) \/ Wait(s) \/ Expire(s) \/ ResumeAt(s)
      BY <3>3 DEF StartAtHead, Wait, Expire, ResumeAt
    <3>4. CASE Client(s)
      BY <3>4 DEF Client, Connect, TakeFrame, ClientGone
    <3> QED BY <2>1, <3>1, <3>2, <3>3, <3>4
  <2>2. CASE Pump \/ Backfill \/ ResetState \/ UNCHANGED vars
    BY <1>1, <2>2 DEF Pump, Backfill, ResetState, vars
  <2>3. ASSUME NEW f \in Families, Revoke(f) PROVE UNCHANGED released
    BY <2>3 DEF Revoke
  <2> QED BY <1>1, <1>2, <1>3, <1>4, <2>1, <2>2, <2>3 DEF StreamNext, World, Serve
<1>5. CASE (\E s \in Streams : Connect(s, Me, resumeFrom)) \/ ExpireTokens
  BY <1>1, <1>5 DEF Connect, ExpireTokens
<1> QED BY <1>4, <1>5, FeedStepsAre

-----------------------------------------------------------------------------
(* What the feed knows.                                                    *)

\* A feed that began at from and knows of everything up to k has announced ann in
\* order, and what it has not announced is gone.
History(from, k, ann, gone) ==
  /\ from \in 0..None /\ k \in 0..None /\ ann \in Seq(Seqs) /\ GoesUp(ann)
  /\ (from = None <=> k = None) /\ from <= k
  /\ k = None => ann = << >>
  /\ \A d \in Range(ann) : d <= k
  /\ from # None => Wants[Me] \cap Between(from, k) \subseteq Range(ann) \cup gone

LEMMA Points ==
  /\ None \in Nat /\ 0..MaxSeq \subseteq 0..None /\ (\A d \in 0..MaxSeq : d # None /\ d \in Nat)
  /\ (\A d \in 0..None : d \in Nat) /\ (\A d \in 0..None : d # None => d \in 0..MaxSeq)
  /\ \A d \in Seqs : d \in 0..MaxSeq
  BY Constants DEF None

LEMMA HistoryGrows ==
  ASSUME NEW from, NEW k, NEW ann, NEW gone, NEW more, History(from, k, ann, gone), gone \subseteq more
  PROVE  History(from, k, ann, more)
  BY DEF History

LEMMA HistoryStarts ==
  ASSUME NEW from, NEW ann, NEW gone, NEW h \in 0..MaxSeq, History(from, None, ann, gone)
  PROVE  History(h, h, ann, gone)
<1>1. h \in 0..None /\ h # None /\ h \in Nat /\ h <= h
  BY Points
<1>2. ann = << >> /\ ann \in Seq(Seqs) /\ GoesUp(ann)
  BY DEF History
<1>3. Range(ann) = {}
  BY <1>2, EmptyQueue
<1>4. Between(h, h) = {}
  BY <1>1, Constants DEF Between
<1> QED BY <1>1, <1>2, <1>3, <1>4 DEF History

LEMMA HistoryJumps ==
  ASSUME NEW from, NEW k, NEW ann, NEW gone, NEW h \in 0..MaxSeq, History(from, k, ann, gone), k # None, k <= h
  PROVE  History(from, h, ann, gone \cup Between(k, h))
<1>1. h \in 0..None /\ h # None /\ h \in Nat /\ k \in Nat /\ from \in Nat /\ from <= h /\ from # None
  <2>1. from \in Nat /\ k \in Nat /\ from <= k /\ from # None
    BY Points DEF History
  <2> QED BY <2>1, Points
<1>2. \A d \in Range(ann) : d <= h
  <2>1. \A d \in Range(ann) : d \in Nat
    BY Constants DEF History, Range
  <2> QED BY <1>1, <2>1 DEF History
<1>3. ASSUME NEW d \in Wants[Me] \cap Between(from, h) PROVE d \in Range(ann) \cup gone \cup Between(k, h)
  <2>1. d \in Seqs /\ d \in Nat /\ from < d /\ d <= h
    BY <1>3, Constants DEF Between
  <2>2. CASE d <= k
    BY <1>1, <1>3, <2>1, <2>2 DEF Between, History
  <2>3. CASE ~ (d <= k)
    BY <1>1, <2>1, <2>3 DEF Between
  <2> QED BY <2>2, <2>3
<1> QED BY <1>1, <1>2, <1>3 DEF History

LEMMA AnnouncedGoUp ==
  ASSUME NEW ann \in Seq(Seqs), GoesUp(ann), NEW d \in Seqs, \A e \in Range(ann) : e < d
  PROVE  Append(ann, d) \in Seq(Seqs) /\ GoesUp(Append(ann, d)) /\ Range(Append(ann, d)) = Range(ann) \cup {d}
<1>1. PICK a, n : a = Append(ann, d) /\ n = Len(ann)
  OBVIOUS
<1>2. n \in Nat /\ DOMAIN ann = 1..n
  BY <1>1
<1>3. a \in Seq(Seqs) /\ Len(a) = n + 1 /\ a[n + 1] = d /\ \A i \in 1..n : a[i] = ann[i]
  BY <1>1
<1>4. DOMAIN a = 1..n + 1
  BY <1>3
<1>5. \A i \in 1..n + 1 : i \in 1..n \/ i = n + 1
  BY <1>2
<1>6. \A i \in 1..n : i \in 1..n + 1
  BY <1>2
<1>10. n + 1 \in 1..n + 1
  BY <1>2
<1>7. Range(a) = Range(ann) \cup {d}
  BY <1>2, <1>3, <1>4, <1>5, <1>6, <1>10 DEF Range
<1>8. ASSUME NEW i \in 1..Len(a), NEW j \in 1..Len(a), i < j PROVE a[i] < a[j]
  <2>1. i \in 1..n
    BY <1>2, <1>3, <1>8
  <2>2. CASE j = n + 1
    <3>1. ann[i] \in Range(ann)
      BY <1>2, <2>1 DEF Range
    <3> QED BY <1>3, <2>1, <2>2, <3>1
  <2>3. CASE j # n + 1
    <3>1. j \in 1..n
      BY <1>3, <1>5, <2>3
    <3> QED BY <1>1, <1>3, <1>8, <2>1, <3>1 DEF GoesUp
  <2> QED BY <2>2, <2>3
<1> QED BY <1>1, <1>3, <1>7, <1>8 DEF GoesUp

LEMMA HistoryTells ==
  ASSUME NEW from, NEW k, NEW ann, NEW gone, NEW d \in Seqs, History(from, k, ann, gone), k # None, k < d,
         \A e \in Wants[Me] : k < e /\ e < d => e \in gone
  PROVE  History(from, d, Append(ann, d), gone)
<1>1. d \in 0..None /\ d # None /\ d \in Nat /\ k \in Nat /\ from \in Nat /\ from <= d /\ from # None /\ from \in 0..None
  <2>1. from \in Nat /\ k \in Nat /\ from <= k /\ from # None /\ from \in 0..None
    BY Points DEF History
  <2>2. d \in 0..None /\ d # None /\ d \in Nat
    BY Points
  <2> QED BY <2>1, <2>2
<1>2. \A e \in Range(ann) : e \in Nat /\ e < d
  <2>1. \A e \in Range(ann) : e \in Nat
    BY Constants DEF History, Range
  <2> QED BY <1>1, <2>1 DEF History
<1>3. Append(ann, d) \in Seq(Seqs) /\ GoesUp(Append(ann, d)) /\ Range(Append(ann, d)) = Range(ann) \cup {d}
  BY <1>2, AnnouncedGoUp DEF History
<1>4. \A e \in Range(ann) \cup {d} : e <= d
  BY <1>1, <1>2
<1>5. ASSUME NEW e \in Wants[Me] \cap Between(from, d) PROVE e \in Range(ann) \cup {d} \cup gone
  <2>1. e \in Seqs /\ e \in Nat /\ from < e /\ e <= d
    BY <1>5, Constants DEF Between
  <2>2. CASE e <= k
    BY <1>1, <1>5, <2>1, <2>2 DEF Between, History
  <2>3. CASE ~ (e <= k)
    BY <1>1, <1>5, <2>1, <2>3
  <2> QED BY <2>2, <2>3
<1> QED BY <1>1, <1>3, <1>4, <1>5 DEF History

LEMMA HistoryBegins == ASSUME NEW gone PROVE History(None, None, << >>, gone)
<1>1. None \in 0..None /\ None <= None
  BY Points
<1> QED BY <1>1, EmptyQueue DEF History

\* What the properties ask of the feed follows from its history.
LEMMA HistoryFacts ==
  ASSUME History(start, resumeFrom, announced, excused \cup Lost)
  PROVE  AnnouncedInOrder /\ NothingMissed
<1>1. announced \in Seq(Seqs) /\ GoesUp(announced)
  BY DEF History
<1>2. DOMAIN announced = 1..Len(announced)
  BY <1>1
<1>3. AnnouncedInOrder
  BY <1>1, <1>2 DEF AnnouncedInOrder, GoesUp
<1>4. NothingMissed
  BY DEF NothingMissed, History
<1> QED BY <1>3, <1>4

\* What the feed is besides what it knows.
FeedShape ==
  /\ session \in {"in", "leaving", "out"} /\ tokenStale \in BOOLEAN
  /\ loop \in {"off", "opening", "reading", "pausing"}
  /\ conn \in Streams \cup {NoStream} /\ (conn # NoStream <=> loop = "reading")
  /\ stopped \in BOOLEAN /\ grace \in BOOLEAN /\ (stopped => loop = "off")
  /\ readers \subseteq Tabs
  /\ cuts \in 0..MaxCuts
  /\ excused \subseteq Seqs

\* The inductive invariant of the feed: the connection it reads leads it on from where
\* it is.
FeedInv ==
  /\ FeedShape
  /\ RingInv /\ HooksInv /\ WholeInv
  /\ resumeFrom # None => resumeFrom <= released
  /\ conn # NoStream => OnLine(stream[conn], cursor, released, resumeFrom)
  /\ History(start, resumeFrom, announced, excused \cup Lost)

LEMMA FeedFacts ==
  ASSUME FeedInv
  PROVE  /\ FeedTypeOK /\ FeedIsWhole /\ resumeFrom \in 0..None
         /\ conn # NoStream => Ready(conn, resumeFrom)
         /\ Lost \subseteq Wants[Me] \cap 1..released /\ Lost \subseteq Seqs
<1>1. AnnouncedInOrder /\ NothingMissed
  BY HistoryFacts DEF FeedInv
<1>2. resumeFrom \in 0..None /\ start \in 0..None /\ announced \in Seq(Seqs)
  BY DEF FeedInv, History
<1>3. StreamTypeOK
  BY WholeFacts DEF FeedInv, StreamsAreWhole
<1>4. FeedTypeOK
  BY <1>2, <1>3 DEF FeedInv, FeedShape, FeedTypeOK
<1>5. ASSUME conn # NoStream PROVE Ready(conn, resumeFrom)
  BY <1>2, <1>5 DEF FeedInv, FeedShape, Ready
<1>6. Lost \subseteq Wants[Me] \cap 1..released /\ Lost \subseteq Seqs
  <2>1. CASE conn = NoStream
    BY <2>1 DEF Lost
  <2>2. CASE conn # NoStream
    <3>1. PICK x : x = stream[conn]
      OBVIOUS
    <3>2. Tidy(x, cursor, released) /\ x # Unused /\ x.family = Me
      BY <2>2, <3>1, UnusedIsNone DEF FeedInv, OnLine, Feeds
    <3>3. \A d \in x.lost : d \in Wants[Me] /\ d <= released
      BY <3>2 DEF Tidy
    <3>4. Wants[Me] \subseteq Seqs
      BY Constants, FeedConstants
    <3>5. \A d \in x.lost : d \in Seqs /\ d \in Wants[Me] /\ d \in 1..released
      <4>1. \A d \in Seqs : d \in Nat /\ d >= 1
        BY Constants
      <4>2. released \in Nat
        BY DEF FeedInv, RingInv
      <4> QED BY <3>3, <3>4, <4>1, <4>2
    <3>6. Lost = x.lost
      BY <2>2, <3>1 DEF Lost
    <3> QED BY <3>5, <3>6
  <2> QED BY <2>1, <2>2
<1> QED BY <1>1, <1>2, <1>4, <1>5, <1>6 DEF FeedIsWhole

LEMMA LostIsWanted == FeedInv' => (Lost \subseteq Wants[Me] \cap 1..released)'
<1>1. FeedInv => Lost \subseteq Wants[Me] \cap 1..released
  BY FeedFacts
<1> QED BY <1>1, PTL

-----------------------------------------------------------------------------
(* What a step does to the feed.                                           *)

\* The feed reads on, or does not; what it knows stays.
Rests ==
  /\ UNCHANGED <<conn, resumeFrom, start, announced, excused, stopped>>
  /\ conn # NoStream => Carried(conn, resumeFrom)

\* It drops its connection.
Leaves ==
  /\ conn' = NoStream /\ excused' = excused \cup Lost
  /\ UNCHANGED <<released, resumeFrom, start, announced>>
  /\ stopped' = stopped \/ stopped' = TRUE

LEMMA StillRests ==
  ASSUME FeedInv, UNCHANGED vars, UNCHANGED <<conn, resumeFrom, start, announced, excused, stopped>>
  PROVE  Rests
<1>1. ASSUME conn # NoStream PROVE Carried(conn, resumeFrom)
  <2>1. Ready(conn, resumeFrom)
    BY <1>1, FeedFacts
  <2>2. UNCHANGED <<released, bus>> /\ stream'[conn] = stream[conn]
    BY DEF vars
  <2> QED BY <2>1, <2>2, QuietCarried
<1> QED BY <1>1 DEF Rests

LEMMA FeedMoves ==
  ASSUME FeedInv, [FeedNext]_feedVars
  PROVE  Rests \/ Leaves \/ OpenStream \/ HearOpen \/ HearReset \/ HearDetection \/ LogoutStopsFeed
<1>0. RingInv'
  BY FeedFacts, FeedBaseStep DEF FeedInv
<1>1. CASE UNCHANGED feedVars
  BY <1>1, StillRests DEF feedVars, feed
<1>2. CASE Backend
  <2>1. UNCHANGED <<conn, resumeFrom, start, announced, excused, stopped>>
    BY <1>2 DEF Backend, feed
  <2>2. ASSUME conn # NoStream PROVE Carried(conn, resumeFrom)
    <3>1. Ready(conn, resumeFrom)
      BY <2>2, FeedFacts
    <3>2. World \/ \E t \in Streams \ {conn} : ClientGone(t)
      BY <1>2 DEF Backend
    <3> QED BY <1>0, <3>1, <3>2, WorldCarries
  <2> QED BY <2>1, <2>2 DEF Rests
<1>3. CASE \E t \in Tabs : Attach(t) \/ Detach(t)
  BY <1>3, StillRests DEF Attach, Detach
<1>4. CASE GraceEnds
  <2>1. CASE readers = {}
    BY <1>4, <2>1 DEF GraceEnds, Halts, Leaves, vars
  <2>2. CASE readers # {}
    BY <1>4, <2>2, StillRests DEF GraceEnds
  <2> QED BY <2>1, <2>2
<1>5. CASE OpenRefused
  BY <1>5 DEF OpenRefused, Halts, Leaves, vars
<1>6. CASE DelayOver \/ OpenFails
  BY <1>6, StillRests DEF DelayOver, OpenFails
<1>7. CASE Cut
  BY <1>7 DEF Cut, Drops, Leaves, vars
<1>8. CASE HearReauth
  BY <1>8 DEF HearReauth, Hears, TakeFrame, Drops, Leaves
<1>9. CASE HearEnd
  BY <1>9 DEF HearEnd, ClientGone, Drops, Leaves
<1>10. CASE LogoutDrops \/ TokenRefreshed
  BY <1>10, StillRests DEF LogoutDrops, TokenRefreshed
<1>11. CASE LogoutRevokes
  <2>1. UNCHANGED <<conn, resumeFrom, start, announced, excused, stopped>>
    BY <1>11 DEF LogoutRevokes, feed
  <2>2. ASSUME conn # NoStream PROVE Carried(conn, resumeFrom)
    <3>1. Ready(conn, resumeFrom)
      BY <2>2, FeedFacts
    <3> QED BY <1>11, <3>1, RevokeCarries DEF LogoutRevokes
  <2> QED BY <2>1, <2>2 DEF Rests
<1>12. CASE ExpireTokens
  <2>1. UNCHANGED <<conn, resumeFrom, start, announced, excused, stopped>> /\ UNCHANGED <<released, bus>>
    BY <1>12 DEF ExpireTokens
  <2>2. ASSUME conn # NoStream PROVE Carried(conn, resumeFrom)
    <3>1. Ready(conn, resumeFrom) /\ conn \in Streams
      BY <2>2, FeedFacts DEF FeedInv, FeedShape
    <3>2. stream[conn] # Unused
      BY <3>1, ReadyFacts
    <3>3. stream'[conn] = [stream[conn] EXCEPT !.expired = TRUE]
      BY <1>12, <3>1, <3>2 DEF ExpireTokens, Used
    <3> QED BY <2>1, <3>1, <3>3, ExpireCarries
  <2> QED BY <2>1, <2>2 DEF Rests
<1> QED BY <1>1, <1>2, <1>3, <1>4, <1>5, <1>6, <1>7, <1>8, <1>9, <1>10, <1>11, <1>12 DEF FeedNext, Runs, Hear

-----------------------------------------------------------------------------
(* What the feed knows after a step.                                       *)

Knows ==
  /\ resumeFrom # None => resumeFrom <= released
  /\ conn # NoStream => OnLine(stream[conn], cursor, released, resumeFrom)
  /\ History(start, resumeFrom, announced, excused \cup Lost)

LEMMA RestsKnows ==
  ASSUME FeedInv, Rests, released \in Nat, released' \in Nat, released <= released'
  PROVE  Knows' /\ Lost \subseteq Lost'
<1>1. Lost \subseteq Lost'
  <2>1. CASE conn = NoStream
    BY <2>1 DEF Lost
  <2>2. CASE conn # NoStream
    BY <2>2 DEF Lost, Rests, Carried
  <2> QED BY <2>1, <2>2
<1>2. History(start', resumeFrom', announced', excused' \cup Lost')
  <2>1. excused \cup Lost \subseteq excused' \cup Lost'
    BY <1>1 DEF Rests
  <2>2. History(start, resumeFrom, announced, excused \cup Lost)
    BY DEF FeedInv
  <2> QED BY <2>1, <2>2, HistoryGrows DEF Rests
<1>3. resumeFrom' # None => resumeFrom' <= released'
  <2>1. resumeFrom \in Nat
    BY FeedFacts, Points
  <2> QED BY <2>1 DEF FeedInv, Rests
<1>4. conn' # NoStream => OnLine(stream'[conn'], cursor', released', resumeFrom')
  BY DEF Rests, Carried
<1> QED BY <1>1, <1>2, <1>3, <1>4 DEF Knows

LEMMA LeavesKnows ==
  ASSUME FeedInv, Leaves
  PROVE  Knows' /\ excused' \cup Lost' = excused \cup Lost
<1>1. Lost' = {} /\ excused' \cup Lost' = excused \cup Lost
  BY DEF Lost, Leaves
<1> QED BY <1>1 DEF FeedInv, Leaves, Knows

LEMMA OpenStreamKnows ==
  ASSUME FeedInv, OpenStream
  PROVE  Knows' /\ Lost' = {} /\ Lost = {} /\ UNCHANGED <<released, resumeFrom, start, announced, excused, stopped>>
<1>1. PICK s \in Streams : Connect(s, Me, resumeFrom) /\ conn' = s
  BY DEF OpenStream
<1>2. /\ UNCHANGED <<released, bus>> /\ UNCHANGED <<resumeFrom, start, announced, excused, stopped>>
      /\ conn = NoStream /\ DOMAIN stream = Streams
  BY <1>1 DEF OpenStream, Connect, FeedInv, FeedShape, HooksInv
<1>3. PICK q : q = << >>
  OBVIOUS
<1>4. PICK r : r = [phase |-> "authorized", family |-> Me, resume |-> resumeFrom, listens |-> FALSE,
                    expired |-> FALSE, head |-> 0, last |-> 0, queue |-> q, lost |-> {},
                    wire |-> q]
  OBVIOUS
<1>5. stream'[s] = r
  BY <1>1, <1>2, <1>3, <1>4 DEF Connect
<1>6. q \in Seq(Seqs) /\ q \in Seq(Frame) /\ Range(q) = {} /\ GoesUp(q) /\ Me \in Families /\ resumeFrom \in 0..None
  BY <1>3, EmptyQueue, FeedConstants, FeedFacts
<1>7. r \in Stream
  BY <1>4, <1>6, Constants DEF Stream, Phases
<1>8. /\ r.phase = "authorized" /\ r.listens = FALSE /\ r.queue = q /\ r.last = 0 /\ r.head = 0
      /\ r.lost = {} /\ r.family = Me /\ r.resume = resumeFrom
  BY <1>4
<1>9. 0 <= released
  BY DEF FeedInv, RingInv
<1>10. NoHole(r)
  BY <1>6, <1>8 DEF NoHole
<1>11. Tidy(r, cursor, released)
  BY <1>3, <1>6, <1>8, <1>9, <1>10 DEF Tidy
<1>12. Feeds(r, resumeFrom)
  BY <1>8 DEF Feeds
<1>13. OnLine(r, cursor, released, resumeFrom)
  BY <1>7, <1>11, <1>12 DEF OnLine
<1>14. Lost' = {} /\ Lost = {}
  <2>1. conn' # NoStream
    BY <1>1, FeedConstants
  <2> QED BY <1>1, <1>2, <1>5, <1>8, <2>1 DEF Lost
<1>15. History(start', resumeFrom', announced', excused' \cup Lost')
  BY <1>2, <1>14 DEF FeedInv
<1> QED BY <1>1, <1>2, <1>5, <1>13, <1>14, <1>15 DEF Knows, FeedInv, bus

\* A frame is read off the line.
LEMMA HearsFacts ==
  ASSUME FeedInv, NEW kind, Hears(kind)
  PROVE  LET x == stream[conn]
             y == [x EXCEPT !.wire = Tail(x.wire)]
         IN  /\ loop = "reading" /\ conn # NoStream /\ conn \in Streams /\ Ready(conn, resumeFrom)
             /\ UNCHANGED <<released, bus, stopped>> /\ released \in 0..MaxSeq
             /\ stream'[conn] = y /\ x.wire \in Seq(Frame) /\ x.wire # << >>
             /\ x.wire[1] \in Frame /\ Head(x.wire) = x.wire[1] /\ x.wire[1].kind = kind
             /\ x.phase \in {"opening", "sending", "waiting", "over"}
             /\ Ordered(x.wire, x.last)
<1>1. PICK x, w : x = stream[conn] /\ w = Tail(x.wire)
  OBVIOUS
<1>2. PICK y : y = [x EXCEPT !.wire = w]
  OBVIOUS
<1>3. loop = "reading" /\ conn # NoStream /\ conn \in Streams
  BY DEF Hears, FeedInv, FeedShape
<1>4. Ready(conn, resumeFrom)
  BY <1>3, FeedFacts
<1>5. x \in Stream /\ x # Unused /\ Sound(x, primed, cursor) /\ DOMAIN stream = Streams /\ released \in 0..MaxSeq
  BY <1>1, <1>4, ReadyFacts
<1>6. x.wire # << >> /\ Head(x.wire).kind = kind /\ UNCHANGED <<released, bus, stopped>>
  BY <1>1 DEF Hears, TakeFrame
<1>7. stream' = [stream EXCEPT ![conn] = y]
  BY <1>1, <1>2, <1>3, <1>5 DEF Hears, TakeFrame, Stream
<1>8. x.wire \in Seq(Frame)
  BY <1>5 DEF Stream
<1>9. Head(x.wire) = x.wire[1] /\ x.wire[1] \in Frame
  BY <1>6, <1>8, TailFacts
<1>10. x.phase \in {"opening", "sending", "waiting", "over"}
  <2>1. x.phase # "unused"
    <3>1. Shaped(x)
      BY <1>1, <1>3 DEF FeedInv, HooksInv
    <3> QED BY <1>5, <3>1 DEF Shaped
  <2>2. x.phase # "authorized"
    BY <1>5, <1>6 DEF Sound
  <2> QED BY <1>5, <2>1, <2>2 DEF Stream, Phases
<1>11. Ordered(x.wire, x.last)
  BY <1>5 DEF Sound
<1> QED BY <1>1, <1>2, <1>3, <1>4, <1>5, <1>6, <1>7, <1>8, <1>9, <1>10, <1>11

LEMMA TakenLine ==
  ASSUME NEW x, NEW c, NEW n, NEW k, OnLine(x, c, n, k), NEW w \in Seq(Frame), NEW y, y = [x EXCEPT !.wire = w],
         NEW m, Feeds(y, m)
  PROVE  OnLine(y, c, n, m)
<1>1. x \in Stream /\ x # Unused /\ Tidy(x, c, n)
  BY UnusedIsNone DEF OnLine
<1>2. /\ y \in Stream /\ y.listens = x.listens
      /\ y.phase = x.phase /\ y.family = x.family /\ y.resume = x.resume /\ y.head = x.head
      /\ y.last = x.last /\ y.wire = w /\ y.queue = x.queue /\ y.lost = x.lost
  BY <1>1 DEF Stream
<1>3. Tidy(y, c, n)
  BY <1>1, <1>2 DEF Tidy, NoHole, SentUpTo
<1> QED BY <1>2, <1>3 DEF OnLine

\* The line of a connection whose request has gone on from its head.
LEMMA GoingLine ==
  ASSUME NEW x, NEW c, NEW n, NEW k, OnLine(x, c, n, k), x.phase \in {"sending", "waiting", "over"},
         NEW w \in Seq(Frame), NEW y, y = [x EXCEPT !.wire = w], NEW m,
         Leads(w, Wants[Me], x.last, x.lost, m)
  PROVE  OnLine(y, c, n, m)
<1>1. x \in Stream /\ x.family = Me
  BY DEF OnLine, Feeds
<1>2. y.phase = x.phase /\ y.last = x.last /\ y.lost = x.lost /\ y.wire = w /\ y.family = Me
  BY <1>1 DEF Stream
<1>3. Feeds(y, m)
  BY <1>2 DEF Feeds
<1> QED BY <1>3, TakenLine

LEMMA LineFacts ==
  ASSUME NEW x, NEW c, NEW n, NEW k, OnLine(x, c, n, k)
  PROVE  /\ x \in Stream /\ x.family = Me /\ x.last \in 0..MaxSeq /\ x.last \in Nat /\ x.head \in 0..MaxSeq
         /\ x.last <= n /\ x.head <= n
         /\ x.phase = "opening" => OpensFor(x, k)
         /\ x.phase \in {"sending", "waiting", "over"} => Leads(x.wire, Wants[Me], x.last, x.lost, k)
<1>1. x \in Stream /\ x # Unused /\ Tidy(x, c, n) /\ Feeds(x, k)
  BY UnusedIsNone DEF OnLine
<1>2. x.last <= n /\ x.head <= n
  BY <1>1 DEF Tidy
<1>3. x.last \in 0..MaxSeq /\ x.last \in Nat /\ x.head \in 0..MaxSeq
  BY <1>1, Points DEF Stream
<1> QED BY <1>1, <1>2, <1>3 DEF Feeds

\* What the comment is for a feed that knows of everything up to k.
LEMMA OpenOnLine ==
  ASSUME NEW x, NEW c, NEW n \in 0..MaxSeq, NEW k \in 0..None, OnLine(x, c, n, k), x.wire \in Seq(Frame), x.wire # << >>,
         x.phase \in {"opening", "sending", "waiting", "over"}, IsOpen(x.wire[1]),
         NEW w, w = Tail(x.wire), NEW y, y = [x EXCEPT !.wire = w],
         NEW m, m = Base(x.wire, k)
  PROVE  OnLine(y, c, n, m) /\ m \in 0..MaxSeq /\ m <= n
<1>0. x.wire[1] \in Frame /\ w \in Seq(Frame) /\ x.wire[1].head \in 0..MaxSeq
  BY TailFacts, FrameFacts
<1>1. CASE x.phase = "opening"
  <2>1. PICK o : o = [kind |-> "open", head |-> x.head]
    OBVIOUS
  <2>2. /\ x.wire \in {<< >>, <<o>>}
        /\ x.resume = None => k = IF x.wire = << >> THEN x.head ELSE None
        /\ x.resume # None => k = x.resume /\ k <= x.head
        /\ x \in Stream /\ x.family = Me /\ x.head \in 0..MaxSeq /\ x.head <= n
    BY <1>1, <2>1, LineFacts DEF OpensFor
  <2>3. x.wire = <<o>> /\ w = << >> /\ x.wire[1].head = x.head
    BY <2>1, <2>2
  <2>4. /\ y.phase = "opening" /\ y.wire = << >> /\ y.resume = x.resume /\ y.head = x.head /\ y.family = Me
    BY <1>1, <2>2, <2>3 DEF Stream
  <2>5. m = IF k = None THEN x.head ELSE k
    BY <2>3 DEF Base
  <2>6. CASE x.resume = None
    <3>1. m = x.head
      BY <2>2, <2>3, <2>5, <2>6
    <3>2. OpensFor(y, m)
      BY <2>4, <2>6, <3>1 DEF OpensFor
    <3>3. Feeds(y, m)
      BY <2>4, <3>2 DEF Feeds
    <3>4. OnLine(y, c, n, m)
      BY <1>0, <3>3, TakenLine
    <3> QED BY <2>2, <3>1, <3>4
  <2>7. CASE x.resume # None
    <3>1. k # None /\ k \in 0..MaxSeq /\ k <= n
      <4>1. k = x.resume /\ k # None /\ k <= x.head
        BY <2>2, <2>7
      <4>2. k \in 0..MaxSeq /\ k \in Nat /\ x.head \in Nat /\ n \in Nat
        BY <2>2, <4>1, Points
      <4> QED BY <2>2, <4>1, <4>2
    <3>2. m = k
      BY <2>5, <3>1
    <3>3. OpensFor(y, m)
      BY <2>2, <2>4, <2>7, <3>2 DEF OpensFor
    <3>4. Feeds(y, m)
      BY <2>4, <3>3 DEF Feeds
    <3>5. OnLine(y, c, n, m)
      BY <1>0, <3>4, TakenLine
    <3> QED BY <3>1, <3>2, <3>5
  <2> QED BY <2>6, <2>7
<1>2. CASE x.phase \in {"sending", "waiting", "over"}
  <2>1. Leads(x.wire, Wants[Me], x.last, x.lost, k) /\ x.last \in Nat /\ x.last <= n
    BY <1>2, LineFacts
  <2>2. m \in 0..MaxSeq /\ m <= x.last /\ m \in Nat /\ m # None
    <3>1. m \in 0..MaxSeq
      BY <2>1, BaseIsNumber
    <3>2. m <= x.last
      BY <2>1 DEF Leads
    <3> QED BY <3>1, <3>2, Points
  <2>3. Leads(w, Wants[Me], x.last, x.lost, m)
    BY <2>1, <2>2, OpenIsHeard
  <2>4. OnLine(y, c, n, m)
    BY <1>0, <1>2, <2>3, GoingLine
  <2>5. m <= n
    BY <2>1, <2>2, Points
  <2> QED BY <2>2, <2>4, <2>5
<1> QED BY <1>1, <1>2

\* The frame that is read takes the feed from k to m, or leaves it where it was.
LEMMA HeardKnows ==
  ASSUME FeedInv, conn # NoStream, conn' = conn, UNCHANGED <<released, bus>>,
         resumeFrom' \in 0..MaxSeq, resumeFrom' <= released, stream'[conn].lost = stream[conn].lost,
         OnLine(stream'[conn], cursor, released, resumeFrom'),
         History(start', resumeFrom', announced', excused' \cup Lost)
  PROVE  Knows' /\ Lost' = Lost
<1>1. Lost' = Lost
  BY DEF Lost
<1> QED BY <1>1 DEF Knows, bus

LEMMA HearOpenKnows ==
  ASSUME FeedInv, HearOpen
  PROVE  /\ Knows' /\ Lost' = Lost /\ UNCHANGED <<released, conn, announced, excused, stopped>> /\ ~ stopped
         /\ \/ UNCHANGED <<resumeFrom, start>>
            \/ start = None /\ \E h \in 0..MaxSeq : h <= released /\ start' = h /\ resumeFrom' = h
<1>1. PICK x, w : x = stream[conn] /\ w = Tail(x.wire)
  OBVIOUS
<1>2. PICK y : y = [x EXCEPT !.wire = w]
  OBVIOUS
<1>3. Hears("open") /\ UNCHANGED <<loop, conn, announced, excused>>
  BY DEF HearOpen
<1>4. /\ loop = "reading" /\ conn # NoStream /\ conn \in Streams
      /\ UNCHANGED <<released, bus, stopped>> /\ released \in 0..MaxSeq
      /\ stream'[conn] = y /\ x.wire \in Seq(Frame) /\ x.wire # << >>
      /\ x.wire[1] \in Frame /\ Head(x.wire) = x.wire[1] /\ x.wire[1].kind = "open"
      /\ x.phase \in {"opening", "sending", "waiting", "over"}
  BY <1>1, <1>2, <1>3, HearsFacts
<1>5. ~ stopped /\ resumeFrom \in 0..None /\ History(start, resumeFrom, announced, excused \cup Lost)
  BY <1>4, FeedFacts DEF FeedInv, FeedShape
<1>6. IsOpen(x.wire[1]) /\ OnLine(x, cursor, released, resumeFrom)
  BY <1>1, <1>4 DEF IsOpen, FeedInv
<1>7. PICK m : m = Base(x.wire, resumeFrom)
  OBVIOUS
<1>8. OnLine(y, cursor, released, m) /\ m \in 0..MaxSeq /\ m <= released
  BY <1>1, <1>2, <1>4, <1>5, <1>6, <1>7, OpenOnLine
<1>9. y.lost = x.lost
  BY <1>2, <1>6 DEF OnLine, Stream
<1>10. CASE resumeFrom = None
  <2>1. resumeFrom' = m /\ start' = m /\ start = None
    BY <1>1, <1>4, <1>5, <1>7, <1>10 DEF HearOpen, Base, History
  <2>2. History(start', resumeFrom', announced', excused' \cup Lost)
    BY <1>3, <1>5, <1>8, <1>10, <2>1, HistoryStarts
  <2>3. Knows' /\ Lost' = Lost
    BY <1>1, <1>3, <1>4, <1>8, <1>9, <2>1, <2>2, HeardKnows
  <2> QED BY <1>3, <1>4, <1>5, <1>8, <2>1, <2>3
<1>11. CASE resumeFrom # None
  <2>1. resumeFrom' = m /\ UNCHANGED <<resumeFrom, start>>
    BY <1>7, <1>11 DEF HearOpen, Base
  <2>2. History(start', resumeFrom', announced', excused' \cup Lost)
    BY <1>3, <1>5, <2>1
  <2>3. Knows' /\ Lost' = Lost
    BY <1>1, <1>3, <1>4, <1>8, <1>9, <2>1, <2>2, HeardKnows
  <2> QED BY <1>3, <1>4, <1>5, <2>1, <2>3
<1> QED BY <1>10, <1>11

LEMMA HearResetKnows ==
  ASSUME FeedInv, HearReset
  PROVE  /\ Knows' /\ Lost' = Lost /\ UNCHANGED <<released, conn, start, announced, stopped>> /\ ~ stopped
         /\ start # None /\ resumeFrom' \in 0..MaxSeq /\ resumeFrom <= resumeFrom' /\ resumeFrom' <= released
         /\ excused' = excused \cup Between(resumeFrom, resumeFrom')
<1>1. PICK x, w : x = stream[conn] /\ w = Tail(x.wire)
  OBVIOUS
<1>2. PICK y : y = [x EXCEPT !.wire = w]
  OBVIOUS
<1>3. Hears("reset") /\ UNCHANGED <<loop, conn, start, announced>>
  BY DEF HearReset
<1>4. /\ loop = "reading" /\ conn # NoStream /\ conn \in Streams
      /\ UNCHANGED <<released, bus, stopped>> /\ released \in 0..MaxSeq
      /\ stream'[conn] = y /\ x.wire \in Seq(Frame) /\ x.wire # << >>
      /\ x.wire[1] \in Frame /\ Head(x.wire) = x.wire[1] /\ x.wire[1].kind = "reset"
      /\ x.phase \in {"opening", "sending", "waiting", "over"}
  BY <1>1, <1>2, <1>3, HearsFacts
<1>5. /\ ~ stopped /\ resumeFrom \in 0..None /\ resumeFrom \in Nat
      /\ History(start, resumeFrom, announced, excused \cup Lost)
  BY <1>4, FeedFacts, Points DEF FeedInv, FeedShape
<1>6. IsReset(x.wire[1]) /\ ~ IsOpen(x.wire[1]) /\ OnLine(x, cursor, released, resumeFrom) /\ w \in Seq(Frame)
  BY <1>1, <1>4, FrameFacts, TailFacts DEF IsReset, FeedInv
<1>7. x.phase \in {"sending", "waiting", "over"}
  <2>1. ASSUME x.phase = "opening" PROVE FALSE
    <3>1. OpensFor(x, resumeFrom) /\ x.head \in 0..MaxSeq
      BY <1>6, <2>1, LineFacts
    <3>2. PICK o : o = [kind |-> "open", head |-> x.head] /\ IsOpen(o)
      BY <3>1, FrameFacts
    <3>3. x.wire = <<o>>
      BY <1>4, <3>1, <3>2 DEF OpensFor
    <3> QED BY <1>6, <3>2, <3>3
  <2> QED BY <1>4, <2>1
<1>8. PICK h : h = x.wire[1].last
  OBVIOUS
<1>9. Leads(x.wire, Wants[Me], x.last, x.lost, resumeFrom) /\ x.last \in Nat /\ x.last <= released
  BY <1>6, <1>7, LineFacts
<1>10. Wants[Me] \in SUBSET Seqs
  BY Constants, FeedConstants
<1>11. /\ resumeFrom # None /\ resumeFrom <= h /\ h <= x.last /\ h \in 0..MaxSeq
       /\ Leads(w, Wants[Me], x.last, x.lost, h)
  BY <1>1, <1>4, <1>5, <1>6, <1>8, <1>9, <1>10, ResetIsHeard
<1>12. OnLine(y, cursor, released, h)
  BY <1>2, <1>6, <1>7, <1>11, GoingLine
<1>13. y.lost = x.lost
  BY <1>2, <1>6 DEF OnLine, Stream
<1>14. h <= released
  BY <1>4, <1>9, <1>11, Points
<1>15. resumeFrom' = h /\ excused' = excused \cup Between(resumeFrom, h)
  BY <1>1, <1>4, <1>8 DEF HearReset
<1>16. History(start, h, announced, excused \cup Lost \cup Between(resumeFrom, h))
  BY <1>5, <1>11, HistoryJumps
<1>17. excused \cup Lost \cup Between(resumeFrom, h) = excused' \cup Lost
  BY <1>15
<1>18. Knows' /\ Lost' = Lost
  BY <1>1, <1>3, <1>4, <1>11, <1>12, <1>13, <1>14, <1>15, <1>16, <1>17, HeardKnows
<1>19. start # None
  BY <1>5, <1>11 DEF History
<1> QED BY <1>3, <1>4, <1>5, <1>11, <1>14, <1>15, <1>18, <1>19

LEMMA HearDetectionKnows ==
  ASSUME FeedInv, HearDetection
  PROVE  /\ Knows' /\ Lost' = Lost /\ UNCHANGED <<released, conn, start, excused, stopped>> /\ ~ stopped
         /\ start # None
         /\ \E d \in Wants[Me] \cap Between(resumeFrom, released) :
              /\ \A e \in Wants[Me] : resumeFrom < e /\ e < d => e \in excused \cup Lost
              /\ resumeFrom' = d /\ announced' = Append(announced, d)
<1>1. PICK x, w : x = stream[conn] /\ w = Tail(x.wire)
  OBVIOUS
<1>2. PICK y : y = [x EXCEPT !.wire = w]
  OBVIOUS
<1>3. Hears("detection") /\ UNCHANGED <<loop, conn, start, excused>>
  BY DEF HearDetection
<1>4. /\ loop = "reading" /\ conn # NoStream /\ conn \in Streams
      /\ UNCHANGED <<released, bus, stopped>> /\ released \in 0..MaxSeq
      /\ stream'[conn] = y /\ x.wire \in Seq(Frame) /\ x.wire # << >>
      /\ x.wire[1] \in Frame /\ Head(x.wire) = x.wire[1] /\ x.wire[1].kind = "detection"
      /\ x.phase \in {"opening", "sending", "waiting", "over"}
      /\ Ordered(x.wire, x.last)
  BY <1>1, <1>2, <1>3, HearsFacts
<1>5. /\ ~ stopped /\ resumeFrom \in 0..None /\ resumeFrom \in Nat
      /\ History(start, resumeFrom, announced, excused \cup Lost)
  BY <1>4, FeedFacts, Points DEF FeedInv, FeedShape
<1>6. IsDetection(x.wire[1]) /\ ~ IsOpen(x.wire[1]) /\ OnLine(x, cursor, released, resumeFrom) /\ w \in Seq(Frame)
  BY <1>1, <1>4, FrameFacts, TailFacts DEF IsDetection, FeedInv
<1>7. x.phase \in {"sending", "waiting", "over"}
  <2>1. ASSUME x.phase = "opening" PROVE FALSE
    <3>1. OpensFor(x, resumeFrom) /\ x.head \in 0..MaxSeq
      BY <1>6, <2>1, LineFacts
    <3>2. PICK o : o = [kind |-> "open", head |-> x.head] /\ IsOpen(o)
      BY <3>1, FrameFacts
    <3>3. x.wire = <<o>>
      BY <1>4, <3>1, <3>2 DEF OpensFor
    <3> QED BY <1>6, <3>2, <3>3
  <2> QED BY <1>4, <2>1
<1>8. PICK d : d = x.wire[1].seq
  OBVIOUS
<1>9. Leads(x.wire, Wants[Me], x.last, x.lost, resumeFrom) /\ x.last \in Nat /\ x.last <= released
  BY <1>6, <1>7, LineFacts
<1>10. Wants[Me] \in SUBSET Seqs
  BY Constants, FeedConstants
<1>11. /\ resumeFrom # None /\ resumeFrom < d /\ d <= x.last /\ d \in Wants[Me]
       /\ \A e \in Wants[Me] : resumeFrom < e /\ e < d => e \in x.lost
       /\ Leads(w, Wants[Me], x.last, x.lost, d)
  <2>1. PICK f, l, gone, v, W, k : f = x.wire[1] /\ l = x.last /\ gone = x.lost /\ v = x.wire /\ W = Wants[Me] /\ k = resumeFrom
    OBVIOUS
  <2>2. /\ v \in Seq(Frame) /\ v # << >> /\ v[1] = f /\ IsDetection(v[1]) /\ Ordered(v, l) /\ Leads(v, W, l, gone, k)
        /\ W \in SUBSET Seqs /\ l \in Nat /\ k \in Nat /\ w = Tail(v) /\ d = f.seq
    BY <1>1, <1>4, <1>5, <1>6, <1>8, <1>9, <1>10, <2>1
  <2>3. /\ k # None /\ k < v[1].seq /\ v[1].seq <= l /\ v[1].seq \in W
        /\ \A e \in W : k < e /\ e < v[1].seq => e \in gone
        /\ Leads(Tail(v), W, l, gone, v[1].seq)
    BY <2>2, DetectionIsHeard
  <2> QED BY <2>1, <2>2, <2>3
<1>12. OnLine(y, cursor, released, d)
  BY <1>2, <1>6, <1>7, <1>11, GoingLine
<1>13. y.lost = x.lost
  BY <1>2, <1>6 DEF OnLine, Stream
<1>14. d \in Seqs /\ d \in 0..MaxSeq /\ d <= released
  <2>1. d \in Seqs
    BY <1>10, <1>11
  <2>2. d \in Nat /\ d \in 0..MaxSeq /\ released \in Nat
    BY <1>4, <2>1, Points
  <2> QED BY <1>9, <1>11, <2>1, <2>2
<1>15. resumeFrom' = d /\ announced' = Append(announced, d)
  <2>1. d > resumeFrom
    BY <1>11
  <2> QED BY <1>1, <1>4, <1>8, <2>1 DEF HearDetection
<1>16. Lost = x.lost
  BY <1>1, <1>4 DEF Lost
<1>17. \A e \in Wants[Me] : resumeFrom < e /\ e < d => e \in excused \cup Lost
  BY <1>11, <1>16
<1>18. History(start, d, Append(announced, d), excused \cup Lost)
  BY <1>5, <1>11, <1>14, <1>17, HistoryTells
<1>19. Knows' /\ Lost' = Lost
  BY <1>1, <1>3, <1>4, <1>12, <1>13, <1>14, <1>15, <1>18, HeardKnows
<1>20. start # None
  BY <1>5, <1>11 DEF History
<1>21. d \in Between(resumeFrom, released)
  BY <1>11, <1>14 DEF Between
<1> QED BY <1>3, <1>4, <1>5, <1>11, <1>15, <1>17, <1>19, <1>20, <1>21

LEMMA ShapeStep ==
  ASSUME FeedInv, [FeedNext]_feedVars
  PROVE  FeedShape'
<1>0. FeedShape /\ Lost \subseteq Seqs /\ MaxCuts \in Nat
  BY FeedFacts, FeedConstants DEF FeedInv
<1>1. CASE UNCHANGED feedVars
  BY <1>0, <1>1 DEF feedVars, feed, FeedShape
<1>2. CASE Backend \/ LogoutRevokes
  BY <1>0, <1>2 DEF Backend, LogoutRevokes, feed, FeedShape
<1>3. CASE \E t \in Tabs : Attach(t) \/ Detach(t)
  <2>1. PICK t \in Tabs : Attach(t) \/ Detach(t)
    BY <1>3
  <2>2. CASE Attach(t)
    BY <1>0, <2>2 DEF Attach, FeedShape
  <2>3. CASE Detach(t)
    BY <1>0, <2>3 DEF Detach, FeedShape
  <2> QED BY <2>1, <2>2, <2>3
<1>4. CASE GraceEnds \/ OpenRefused
  BY <1>0, <1>4 DEF GraceEnds, OpenRefused, Halts, FeedShape
<1>5. CASE OpenStream
  <2>1. PICK s \in Streams : conn' = s
    BY <1>5 DEF OpenStream
  <2>2. s # NoStream
    BY FeedConstants
  <2> QED BY <1>0, <1>5, <2>1, <2>2 DEF OpenStream, FeedShape
<1>6. CASE OpenFails \/ DelayOver \/ Cut
  <2>1. cuts' \in 0..MaxCuts
    BY <1>0, <1>6 DEF OpenFails, DelayOver, Cut, FeedShape
  <2> QED BY <1>0, <1>6, <2>1 DEF OpenFails, DelayOver, Cut, Drops, FeedShape
<1>7. CASE HearOpen \/ HearDetection
  BY <1>0, <1>7 DEF HearOpen, HearDetection, Hears, TakeFrame, FeedShape
<1>8. CASE HearReset
  <2>1. excused' \subseteq Seqs
    BY <1>0, <1>8 DEF HearReset, FeedShape, Between
  <2> QED BY <1>0, <1>8, <2>1 DEF HearReset, Hears, TakeFrame, FeedShape
<1>9. CASE HearReauth \/ HearEnd
  BY <1>0, <1>9 DEF HearReauth, HearEnd, Hears, Drops, FeedShape
<1>10. CASE LogoutStopsFeed \/ LogoutDrops \/ TokenRefreshed
  <2>1. CASE LogoutStopsFeed
    <3>1. /\ session' = "leaving" /\ loop' = "off" /\ conn' = NoStream /\ stopped' = FALSE /\ grace' = FALSE
          /\ readers' = {} /\ excused' = {} /\ tokenStale' = tokenStale /\ cuts' = cuts
      BY <2>1 DEF LogoutStopsFeed
    <3> QED BY <1>0, <3>1 DEF FeedShape
  <2>2. CASE LogoutDrops
    BY <1>0, <2>2 DEF LogoutDrops, FeedShape
  <2>3. CASE TokenRefreshed
    BY <1>0, <2>3 DEF TokenRefreshed, FeedShape
  <2> QED BY <1>10, <2>1, <2>2, <2>3
<1>11. CASE ExpireTokens
  <2>1. cuts' \in 0..MaxCuts
    BY <1>0, <1>11 DEF ExpireTokens, FeedShape
  <2> QED BY <1>0, <1>11, <2>1 DEF ExpireTokens, FeedShape
<1> QED BY <1>1, <1>2, <1>3, <1>4, <1>5, <1>6, <1>7, <1>8, <1>9, <1>10, <1>11 DEF FeedNext, Runs, Hear

LEMMA FeedStep ==
  ASSUME FeedInv, [FeedNext]_feedVars
  PROVE  FeedInv'
<1>1. RingInv' /\ HooksInv' /\ WholeInv'
  BY FeedFacts, FeedBaseStep DEF FeedInv
<1>2. released \in Nat /\ released' \in Nat /\ released <= released'
  BY FeedFacts, CaptureGoesOn DEF FeedInv
<1>3. Knows'
  <2>1. CASE Rests
    BY <1>2, <2>1, RestsKnows
  <2>2. CASE Leaves
    BY <2>2, LeavesKnows
  <2>3. CASE OpenStream
    BY <2>3, OpenStreamKnows
  <2>4. CASE HearOpen \/ HearReset \/ HearDetection
    BY <2>4, HearOpenKnows, HearResetKnows, HearDetectionKnows
  <2>5. CASE LogoutStopsFeed
    <3>1. conn' = NoStream /\ resumeFrom' = None /\ start' = None /\ announced' = << >>
      BY <2>5 DEF LogoutStopsFeed
    <3>2. History(start', resumeFrom', announced', excused' \cup Lost')
      BY <3>1, HistoryBegins
    <3> QED BY <3>1, <3>2 DEF Knows
  <2> QED BY <2>1, <2>2, <2>3, <2>4, <2>5, FeedMoves
<1> QED BY <1>1, <1>3, ShapeStep DEF FeedInv, Knows

LEMMA FeedBegins == FeedInit => FeedInv
<1> SUFFICES ASSUME FeedInit PROVE FeedInv
  OBVIOUS
<1>1. StreamInit
  BY DEF FeedInit
<1>2. RingInv /\ HooksInv /\ WholeInv
  BY <1>1, StreamBegins
<1>3. FeedShape
  <2>1. /\ session = "in" /\ loop = "off" /\ conn = NoStream /\ stopped = FALSE /\ grace = FALSE
        /\ readers = {} /\ excused = {} /\ tokenStale = FALSE /\ cuts = 0
    BY DEF FeedInit
  <2>2. 0 \in 0..MaxCuts
    BY FeedConstants
  <2> QED BY <2>1, <2>2 DEF FeedShape
<1>4. conn = NoStream /\ resumeFrom = None /\ start = None /\ announced = << >>
  BY DEF FeedInit
<1>5. History(start, resumeFrom, announced, excused \cup Lost)
  BY <1>4, HistoryBegins
<1> QED BY <1>2, <1>3, <1>4, <1>5 DEF FeedInv

\* What the feed announced is in order, once, and without a hole it was not told of,
\* across every stream it was put together from (runFeed, readStream).
THEOREM NoHoleUntold == FeedSpec => []FeedIsWhole
<1>1. FeedInv /\ [FeedNext]_feedVars => FeedInv'
  BY FeedStep
<1>2. FeedInv => FeedIsWhole
  BY FeedFacts
<1> QED BY <1>1, <1>2, FeedBegins, PTL DEF FeedSpec

-----------------------------------------------------------------------------
(* The promise.                                                            *)

\* The sets and numbers of the promise are those of the feed.
LEMMA PromiseWords ==
  /\ Promise!Unknown = None
  /\ \A a, b : Promise!Since(a, b) = Wants[Me] \cap Between(a, b)
<1>1. Promise!Unknown = None
  BY DEF Promise!Unknown, None
<1>2. ASSUME NEW a, NEW b PROVE Promise!Since(a, b) = Wants[Me] \cap Between(a, b)
  BY Constants, FeedConstants DEF Promise!Since, Between
<1> QED BY <1>1, <1>2

\* Every step of the feed is one the promise allows, or none.
LEMMA PromiseStep ==
  ASSUME FeedInv, FeedInv', [FeedNext]_feedVars
  PROVE  [Promise!PromiseNext]_(Promise!promiseVars)
<1>1. released \in Nat /\ released' \in Nat /\ released <= released'
  BY FeedFacts, CaptureGoesOn DEF FeedInv
<1>2. released' \in released..MaxSeq /\ released' \in 0..MaxSeq
  <2>1. released' \in 0..MaxSeq
    BY DEF FeedInv, WholeInv
  <2> QED BY <1>1, <2>1, Constants
<1>3. CASE Rests
  <2>1. Lost \subseteq Lost' /\ UNCHANGED <<resumeFrom, start, announced, excused, stopped>>
    BY <1>1, <1>3, RestsKnows DEF Rests
  <2>2. Lost' \subseteq Wants[Me] \cap 1..released'
    BY LostIsWanted
  <2>3. (excused \cup Lost)' = (excused \cup Lost) \cup Lost'
    BY <2>1
  <2>4. Promise!Release(released', Lost')
    BY <1>2, <2>1, <2>2, <2>3 DEF Promise!Release
  <2> QED BY <1>2, <2>2, <2>4 DEF Promise!PromiseNext
<1>4. CASE Leaves
  <2>1. (excused \cup Lost)' = excused \cup Lost /\ UNCHANGED <<released, resumeFrom, start, announced>>
    BY <1>4, LeavesKnows DEF Leaves
  <2>2. CASE stopped' = stopped
    BY <2>1, <2>2 DEF Promise!promiseVars
  <2>3. CASE stopped' = TRUE
    BY <2>1, <2>3 DEF Promise!StopForGood, Promise!PromiseNext
  <2> QED BY <1>4, <2>2, <2>3 DEF Leaves
<1>5. CASE OpenStream
  BY <1>5, OpenStreamKnows DEF Promise!promiseVars
<1>6. CASE HearOpen
  <2>1. (excused \cup Lost)' = excused \cup Lost /\ UNCHANGED <<released, announced, stopped>> /\ ~ stopped
    BY <1>6, HearOpenKnows
  <2>2. CASE UNCHANGED <<resumeFrom, start>>
    BY <2>1, <2>2 DEF Promise!promiseVars
  <2>3. CASE start = None /\ \E h \in 0..MaxSeq : h <= released /\ start' = h /\ resumeFrom' = h
    <3>1. PICK h \in 0..MaxSeq : h <= released /\ start' = h /\ resumeFrom' = h
      BY <2>3
    <3>2. h \in 0..released
      BY <1>1, <3>1
    <3>3. Promise!Starts(h)
      BY <2>1, <2>3, <3>1, <3>2, PromiseWords DEF Promise!Starts
    <3> QED BY <3>3 DEF Promise!PromiseNext
  <2> QED BY <1>6, <2>2, <2>3, HearOpenKnows
<1>7. CASE HearReset
  <2>1. /\ UNCHANGED <<released, start, announced, stopped>> /\ ~ stopped /\ Lost' = Lost
        /\ start # None /\ resumeFrom' \in 0..MaxSeq /\ resumeFrom <= resumeFrom' /\ resumeFrom' <= released
        /\ excused' = excused \cup Between(resumeFrom, resumeFrom')
    BY <1>7, HearResetKnows
  <2>2. resumeFrom' \in resumeFrom..released
    <3>1. resumeFrom \in Nat /\ resumeFrom' \in Nat
      BY <2>1, FeedFacts, Points
    <3> QED BY <1>1, <2>1, <3>1
  <2>3. (excused \cup Lost)' = (excused \cup Lost) \cup {d \in 1..MaxSeq : resumeFrom < d /\ d <= resumeFrom'}
    BY <2>1 DEF Between, Seqs
  <2>4. Promise!Declare(resumeFrom')
    BY <2>1, <2>2, <2>3, PromiseWords DEF Promise!Declare
  <2> QED BY <2>1, <2>4 DEF Promise!PromiseNext
<1>8. CASE HearDetection
  <2>1. UNCHANGED <<released, start, excused, stopped>> /\ ~ stopped /\ Lost' = Lost /\ start # None
    BY <1>8, HearDetectionKnows
  <2>2. PICK d \in Wants[Me] \cap Between(resumeFrom, released) :
          /\ \A e \in Wants[Me] : resumeFrom < e /\ e < d => e \in excused \cup Lost
          /\ resumeFrom' = d /\ announced' = Append(announced, d)
    BY <1>8, HearDetectionKnows
  <2>3. d \in 0..MaxSeq
    BY <2>2, Points DEF Between
  <2>4. Promise!Since(resumeFrom, d) \ {d} \subseteq excused \cup Lost
    <3>1. ASSUME NEW e \in (Wants[Me] \cap Between(resumeFrom, d)) \ {d} PROVE e \in excused \cup Lost
      <4>1. resumeFrom < e /\ e < d
        BY <2>3, <3>1, Constants DEF Between
      <4> QED BY <2>2, <3>1, <4>1
    <3> QED BY <3>1, PromiseWords
  <2>5. Promise!Announce(d)
    BY <2>1, <2>2, <2>4, PromiseWords DEF Promise!Announce
  <2> QED BY <2>3, <2>5 DEF Promise!PromiseNext
<1>9. CASE LogoutStopsFeed
  <2>1. (excused \cup Lost)' = {}
    BY <1>9 DEF LogoutStopsFeed, Lost
  <2> QED BY <1>9, <2>1, PromiseWords DEF LogoutStopsFeed, vars, Promise!Forget, Promise!PromiseNext
<1> QED BY <1>3, <1>4, <1>5, <1>6, <1>7, <1>8, <1>9, FeedMoves

\* The feed keeps the part of its promise that says what it may do: it starts once,
\* announces the next detection that was not excused, and jumps only over what was
\* declared or lost (upstream.ts, the whole loop).
THEOREM FeedDoesAsPromised == FeedSpec => Promise!PromiseSafety
<1>1. FeedInit => Promise!PromiseInit
  BY PromiseWords DEF FeedInit, StreamInit, Lost, Promise!PromiseInit
<1>2. FeedInv /\ FeedInv' /\ [FeedNext]_feedVars => [Promise!PromiseNext]_(Promise!promiseVars)
  BY PromiseStep
<1>3. FeedInv /\ [FeedNext]_feedVars => FeedInv'
  BY FeedStep
<1> QED BY <1>1, <1>2, <1>3, FeedBegins, PTL DEF FeedSpec, Promise!PromiseSafety
=============================================================================
