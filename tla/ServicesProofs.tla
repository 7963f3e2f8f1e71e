--------------------------- MODULE ServicesProofs ---------------------------
(***************************************************************************)
(* Theorems of LiveTickets, Hunts, Exports and Imports, four services that *)
(* share no state: for any number of families, tickets and handshakes; for *)
(* any owners, names and queries; for any number of jobs, keys, downloads  *)
(* and edits and every lifetime that the constants allow; for any number   *)
(* of uploads and captures; and however often the stores are reset.        *)
(***************************************************************************)
EXTENDS LiveTickets, Hunts, Exports, Imports, FiniteSetTheorems,
        WellFoundedInduction, TLAPS

-----------------------------------------------------------------------------
(* LiveTickets: the tickets and their sockets.                             *)

\* Who was let in holds a ticket that was minted and can be spent no more.
SpentForGood ==
  \A h \in Admitted : /\ shakes[h].ticket \in DOMAIN minted
                      /\ shakes[h].ticket \in DOMAIN tickets => tickets[shakes[h].ticket].used

\* The inductive invariant.
LInv ==
  /\ LiveTypeOK
  /\ SpentForGood
  /\ OneHandshake
  /\ NoneIsLeftOpen

LEMMA LiveInitInv == LiveInit => LInv
<1> SUFFICES ASSUME LiveInit PROVE LInv
    OBVIOUS
<1> USE TicketConstants DEF LiveInit
<1>1. LiveTypeOK
      BY DEF LiveTypeOK, Shake, Phases, Codes
<1>2. SpentForGood /\ OneHandshake /\ NoneIsLeftOpen
      BY DEF SpentForGood, OneHandshake, NoneIsLeftOpen, Admitted
<1> QED BY <1>1, <1>2 DEF LInv

-----------------------------------------------------------------------------
(* What steps share.  A step that keeps every handshake's phase and ticket *)
(* keeps who was let in and with what.                                     *)

SamePlaces ==
  \A h \in Handshakes : shakes'[h].phase = shakes[h].phase /\ shakes'[h].ticket = shakes[h].ticket

\* A close that was asked for changes nothing but the code.
LEMMA ClosingKeeps ==
  ASSUME LiveTypeOK, NEW H, NEW code \in Codes \ {"none"}, RequestClose(H, code)
  PROVE  /\ shakes' \in [Handshakes -> Shake]
         /\ SamePlaces
         /\ \A h \in Handshakes : /\ shakes[h].code # "none" => shakes'[h].code = shakes[h].code
                                  /\ h \in H => shakes'[h].code # "none"
                                  /\ h \notin H => shakes'[h] = shakes[h]
<1>1. \A h \in Handshakes : shakes[h] \in Shake
      BY DEF LiveTypeOK
<1>2. ASSUME NEW h \in Handshakes
      PROVE  /\ Closing(shakes[h], code) \in Shake
             /\ Closing(shakes[h], code).phase = shakes[h].phase
             /\ Closing(shakes[h], code).ticket = shakes[h].ticket
             /\ Closing(shakes[h], code).code # "none"
             /\ shakes[h].code # "none" => Closing(shakes[h], code).code = shakes[h].code
      BY <1>1 DEF Closing, Shake, Codes
<1>3. \A h \in Handshakes : shakes'[h] = IF h \in H THEN Closing(shakes[h], code) ELSE shakes[h]
      BY DEF RequestClose
<1>4. shakes' \in [Handshakes -> Shake]
      BY <1>1, <1>2 DEF RequestClose
<1> QED BY <1>2, <1>3, <1>4 DEF SamePlaces

\* Tickets that were let in stay spent while no ticket is handed in.
LEMMA PlacesKeep ==
  ASSUME SpentForGood, OneHandshake, SamePlaces, UNCHANGED <<tickets, minted>>
  PROVE  SpentForGood' /\ OneHandshake'
<1>1. Admitted' = Admitted
      BY DEF Admitted, SamePlaces
<1>2. \A h \in Admitted : shakes'[h].ticket = shakes[h].ticket
      BY DEF Admitted, SamePlaces
<1> QED BY <1>1, <1>2 DEF SpentForGood, OneHandshake

\* Ending families, which revoking, sweeping and resetting do: every socket of
\* theirs that was hooked is asked to close and let go.
LEMMA EndingInv ==
  ASSUME NEW F \in SUBSET Families, LInv, EndFamilies(F),
         family' \in [Families -> {"none", "alive", "revoked", "gone"}],
         \A f \in Families \ F : family'[f] = family[f],
         era' \in 0..MaxResets, UNCHANGED <<tickets, minted, registered>>
  PROVE  LInv'
<1> USE TicketConstants DEF LInv
<1> DEFINE H == HooksOn({f \in F : family[f] = "alive"})
<1>1. RequestClose(H, "normal") /\ hooked' = hooked \ HooksOn(F)
      BY DEF EndFamilies
<1>2. /\ shakes' \in [Handshakes -> Shake]
      /\ SamePlaces
      /\ \A h \in Handshakes : /\ shakes[h].code # "none" => shakes'[h].code = shakes[h].code
                               /\ h \in H => shakes'[h].code # "none"
                               /\ h \notin H => shakes'[h] = shakes[h]
      BY <1>1, ClosingKeeps DEF Codes
<1>3. LiveTypeOK'
      BY <1>1, <1>2 DEF LiveTypeOK
<1>4. SpentForGood' /\ OneHandshake'
      BY <1>2, PlacesKeep
<1>5. H = HooksOn(F)
      BY DEF HooksOn, NoneIsLeftOpen
<1>6. \A h \in Handshakes : FamilyOf(h)' = FamilyOf(h)
      BY <1>2 DEF FamilyOf, SamePlaces
<1>7. \A h \in Handshakes : shakes[h].phase = "open" => FamilyOf(h) \in Families
      BY DEF FamilyOf, SpentForGood, Admitted, LiveTypeOK
<1>8. NoneIsLeftOpen'
  <2>1. ASSUME NEW h \in Handshakes, shakes'[h].phase = "open", shakes'[h].code = "none"
        PROVE  h \in hooked' /\ family'[FamilyOf(h)] = "alive"
    <3>1. h \notin H /\ shakes[h].phase = "open" /\ shakes[h].code = "none"
          BY <1>2, <2>1 DEF SamePlaces
    <3>2. h \in hooked /\ family[FamilyOf(h)] = "alive"
          BY <3>1 DEF NoneIsLeftOpen
    <3>3. FamilyOf(h) \in Families \ F
          BY <1>5, <1>7, <3>1, <3>2 DEF HooksOn
    <3> QED BY <1>1, <1>5, <3>1, <3>2, <3>3
  <2>2. ASSUME NEW h \in hooked'
        PROVE  shakes'[h].phase \in {"open", "stopping"} /\ family'[FamilyOf(h)] = "alive"
    <3>1. h \in hooked /\ FamilyOf(h) \notin F /\ h \in Handshakes
          BY <1>1 DEF HooksOn, LiveTypeOK
    <3>2. shakes[h].phase \in {"open", "stopping"} /\ family[FamilyOf(h)] = "alive"
          BY <3>1 DEF NoneIsLeftOpen
    <3>3. FamilyOf(h) \in Families
          BY <3>1, <3>2 DEF FamilyOf, SpentForGood, Admitted, LiveTypeOK
    <3> QED BY <1>2, <3>1, <3>2, <3>3 DEF SamePlaces
  <2>3. registered' = {h \in Handshakes : shakes'[h].phase \in {"open", "stopping"}}
        BY <1>2 DEF NoneIsLeftOpen, SamePlaces
  <2>4. \A h \in hooked' : h \in Handshakes
        BY <1>1 DEF LiveTypeOK
  <2> QED BY <1>6, <2>1, <2>2, <2>3, <2>4 DEF NoneIsLeftOpen
<1> QED BY <1>3, <1>4, <1>8

\* Signing in, and tickets growing older or being minted, touch no socket.
LEMMA QuietInv ==
  ASSUME LInv, LiveTypeOK', UNCHANGED <<shakes, hooked, registered>>,
         \A f \in Families : family[f] = "alive" => family'[f] = "alive",
         \A t \in DOMAIN minted : t \in DOMAIN minted' /\ minted'[t] = minted[t],
         \A t \in DOMAIN minted : t \in DOMAIN tickets' =>
             t \in DOMAIN tickets /\ (tickets[t].used => tickets'[t].used)
  PROVE  LInv'
<1> USE DEF LInv
<1>1. Admitted' = Admitted
      BY DEF Admitted
<1>2. SpentForGood' /\ OneHandshake'
      BY <1>1 DEF SpentForGood, OneHandshake
<1>3. \A h \in Admitted : FamilyOf(h)' = FamilyOf(h) /\ FamilyOf(h) \in Families
      BY DEF FamilyOf, SpentForGood, LiveTypeOK
<1>4. \A h \in Handshakes : shakes[h].phase \in {"open", "stopping"} => h \in Admitted
      BY DEF Admitted
<1>5. \A h \in hooked : h \in Admitted
      BY <1>4 DEF NoneIsLeftOpen, LiveTypeOK
<1>6. NoneIsLeftOpen'
      BY <1>3, <1>4, <1>5 DEF NoneIsLeftOpen
<1> QED BY <1>2, <1>6

LEMMA SignInInv ==
  ASSUME NEW f \in Families, LInv, SignIn(f)
  PROVE  LInv'
<1> USE DEF LInv
<1>1. LiveTypeOK'
      BY DEF SignIn, LiveTypeOK
<1> QED BY <1>1, QuietInv DEF SignIn, LiveTypeOK

LEMMA AgeInv ==
  ASSUME LInv, AgeTickets
  PROVE  LInv'
<1> USE TicketConstants DEF LInv
<1>1. \A t \in DOMAIN tickets : tickets[t] \in Ticket
      BY DEF LiveTypeOK
<1>2. tickets' = [t \in DOMAIN tickets |->
                    [tickets[t] EXCEPT !.age = IF tickets[t].age < TicketTTL
                                                 THEN tickets[t].age + 1 ELSE tickets[t].age]]
      BY DEF AgeTickets
<1>3. ASSUME NEW t \in DOMAIN tickets
      PROVE  /\ tickets'[t] \in Ticket
             /\ tickets[t].used => tickets'[t].used
  <2> DEFINE a == IF tickets[t].age < TicketTTL THEN tickets[t].age + 1 ELSE tickets[t].age
  <2>1. tickets[t].age \in 0..TicketTTL
        BY <1>1 DEF Ticket
  <2>2. a \in 0..TicketTTL
        BY <2>1
  <2>3. tickets'[t] = [tickets[t] EXCEPT !.age = a]
        BY <1>2
  <2> HIDE DEF a
  <2>4. tickets'[t] \in Ticket /\ tickets'[t].used = tickets[t].used
        BY <1>1, <2>2, <2>3 DEF Ticket
  <2> QED BY <2>4
<1>4. DOMAIN tickets' = DOMAIN tickets /\ tickets' \in [DOMAIN tickets' -> Ticket]
      BY <1>2, <1>3
<1>5. UNCHANGED <<family, era, minted, shakes, hooked, registered>>
      BY DEF AgeTickets
<1>6. LiveTypeOK'
      BY <1>4, <1>5 DEF LiveTypeOK
<1> QED BY <1>3, <1>4, <1>5, <1>6, QuietInv

\* A ticket nobody was ever given cannot be the one a handshake spent.
LEMMA IssueInv ==
  ASSUME NEW f \in Families, NEW t \in Tickets, LInv, Issue(f, t)
  PROVE  LInv'
<1> USE TicketConstants DEF LInv
<1>1. UNCHANGED <<family, era, shakes, hooked, registered>> /\ t \notin DOMAIN minted
      BY DEF Issue
<1>2. /\ DOMAIN minted' = DOMAIN minted \cup {t}
      /\ \A u \in DOMAIN minted : minted'[u] = minted[u]
      /\ minted' \in [DOMAIN minted' -> [family: Families, era: 0..MaxResets]]
  <2>1. [family |-> f, era |-> era] \in [family: Families, era: 0..MaxResets]
        BY DEF LiveTypeOK
  <2> QED BY <1>1, <2>1 DEF Issue, LiveTypeOK
<1>3. /\ DOMAIN tickets' \subseteq DOMAIN tickets \cup {t}
      /\ \A u \in DOMAIN tickets' : u # t => u \in DOMAIN tickets /\ tickets'[u] = tickets[u]
      /\ tickets' \in [DOMAIN tickets' -> Ticket]
  <2>1. NewTicket(f) \in Ticket
        BY DEF NewTicket, Ticket
  <2>2. \A u \in DOMAIN tickets : tickets[u] \in Ticket
        BY DEF LiveTypeOK
  <2> QED BY <2>1, <2>2 DEF Issue, Swept, Restrict
<1>4. LiveTypeOK'
      BY <1>1, <1>2, <1>3 DEF LiveTypeOK
<1>5. \A u \in DOMAIN minted : u # t
      BY <1>1
<1> QED BY <1>1, <1>2, <1>3, <1>4, <1>5, QuietInv

-----------------------------------------------------------------------------
(* Handshakes.                                                             *)

\* What is honoured is there and was not used.
LEMMA RedeemOk ==
  ASSUME NEW t, Redeem(t) = "ok"
  PROVE  t \in DOMAIN tickets /\ ~ tickets[t].used
BY DEF Redeem

\* A new handshake becomes one that was refused or let in; nobody else moves.
LEMMA AttemptInv ==
  ASSUME NEW h \in Handshakes, NEW phase \in {"refused", "accepting"},
         NEW t \in Tickets \cup {NoTicket}, NEW code \in Codes, LInv, shakes[h].phase = "new",
         Attempt(h, phase, t, code),
         phase = "accepting" => t \in DOMAIN tickets /\ ~ tickets[t].used /\ tickets'[t].used,
         DOMAIN tickets' = DOMAIN tickets, tickets' \in [DOMAIN tickets -> Ticket],
         \A u \in DOMAIN tickets : tickets[u].used => tickets'[u].used,
         UNCHANGED <<family, era, minted, hooked, registered>>
  PROVE  LInv'
<1> USE DEF LInv
<1>1. /\ shakes' \in [Handshakes -> Shake]
      /\ shakes'[h].phase = phase /\ shakes'[h].ticket = t
      /\ \A k \in Handshakes : k # h => shakes'[k] = shakes[k]
  <2> DEFINE tried == [shakes[h] EXCEPT !.phase = phase, !.ticket = t, !.code = code]
  <2>1. shakes[h] \in Shake /\ phase \in Phases
        BY DEF LiveTypeOK, Phases
  <2>2. tried \in Shake /\ tried.phase = phase /\ tried.ticket = t
        BY <2>1 DEF Shake
  <2>3. shakes' = [shakes EXCEPT ![h] = tried]
        BY DEF Attempt, LiveTypeOK
  <2> HIDE DEF tried
  <2> QED BY <2>2, <2>3 DEF LiveTypeOK
<1>2. LiveTypeOK'
      BY <1>1 DEF LiveTypeOK
<1>3. h \notin Admitted /\ Admitted' = IF phase = "accepting" THEN Admitted \cup {h} ELSE Admitted
      BY <1>1 DEF Admitted
<1>4. \A k \in Admitted : k \in Handshakes /\ k # h /\ shakes'[k] = shakes[k]
      BY <1>1, <1>3 DEF Admitted
<1>5. SpentForGood'
      BY <1>1, <1>3, <1>4 DEF SpentForGood, LiveTypeOK
<1>6. OneHandshake'
  <2>1. phase = "accepting" => \A k \in Admitted : shakes[k].ticket # t
        BY DEF SpentForGood
  <2> QED BY <1>1, <1>3, <1>4, <2>1 DEF OneHandshake
<1>7. NoneIsLeftOpen'
  <2>1. \A k \in Handshakes : shakes'[k].phase \in {"open", "stopping"} => k # h
        BY <1>1
  <2>2. \A k \in hooked : k \in Handshakes /\ k # h
        BY DEF NoneIsLeftOpen, LiveTypeOK
  <2>3. \A k \in Handshakes : k # h => FamilyOf(k)' = FamilyOf(k)
        BY <1>1 DEF FamilyOf
  <2>4. registered' = {k \in Handshakes : shakes'[k].phase \in {"open", "stopping"}}
        BY <1>1 DEF NoneIsLeftOpen
  <2> QED BY <1>1, <2>1, <2>2, <2>3, <2>4 DEF NoneIsLeftOpen
<1> QED BY <1>2, <1>5, <1>6, <1>7

LEMMA RefusedInv ==
  ASSUME NEW h \in Handshakes, NEW t, LInv, ForeignOrigin(h) \/ Refuse(h, t)
  PROVE  LInv'
<1>1. PICK code \in {"forbidden", "ticket"} : Attempt(h, "refused", NoTicket, code)
      BY DEF ForeignOrigin, Refuse
<1>2. code \in Codes
      BY DEF Codes
<1>3. tickets \in [DOMAIN tickets -> Ticket]
      BY DEF LInv, LiveTypeOK
<1> QED BY <1>1, <1>2, <1>3, AttemptInv DEF ForeignOrigin, Refuse

LEMMA AcceptInv ==
  ASSUME NEW h \in Handshakes, NEW t, LInv, Accept(h, t)
  PROVE  LInv'
<1>1. t \in DOMAIN tickets /\ ~ tickets[t].used
      BY RedeemOk DEF Accept
<1>2. t \in Tickets
      BY <1>1 DEF LInv, LiveTypeOK
<1>3. /\ DOMAIN tickets' = DOMAIN tickets /\ tickets' \in [DOMAIN tickets -> Ticket]
      /\ tickets'[t].used
      /\ \A u \in DOMAIN tickets : tickets[u].used => tickets'[u].used
      BY <1>1 DEF Accept, LInv, LiveTypeOK, Ticket
<1>4. "none" \in Codes
      BY DEF Codes
<1> QED BY <1>1, <1>2, <1>3, <1>4, AttemptInv DEF Accept

-----------------------------------------------------------------------------
(* Sockets.                                                                *)

\* A socket that was let in moves on, with its ticket, while nothing else does.
\* What has to be shown of it is what NoneIsLeftOpen says of it.
LEMMA MovesInv ==
  ASSUME NEW h \in Handshakes, LInv, shakes[h].phase \in {"accepting", "open", "stopping"},
         shakes' \in [Handshakes -> Shake],
         shakes'[h].phase \in {"open", "stopping", "closed"}, shakes'[h].ticket = shakes[h].ticket,
         \A k \in Handshakes : k # h => shakes'[k] = shakes[k],
         hooked' \subseteq Handshakes, registered' \subseteq Handshakes,
         \A k \in Handshakes : k # h => (k \in hooked' <=> k \in hooked),
         \A k \in Handshakes : k # h => (k \in registered' <=> k \in registered),
         h \in registered' <=> shakes'[h].phase \in {"open", "stopping"},
         h \in hooked' => family[FamilyOf(h)] = "alive" /\ shakes'[h].phase \in {"open", "stopping"},
         shakes'[h].phase = "open" /\ shakes'[h].code = "none" => h \in hooked',
         UNCHANGED <<family, era, tickets, minted>>
  PROVE  LInv'
<1> USE DEF LInv
<1>1. LiveTypeOK'
      BY DEF LiveTypeOK
<1>2. Admitted' = Admitted
      BY DEF Admitted
<1>3. \A k \in Handshakes : shakes'[k].ticket = shakes[k].ticket
      OBVIOUS
<1>4. Admitted \subseteq Handshakes
      BY DEF Admitted
<1>5. SpentForGood' /\ OneHandshake'
      BY <1>2, <1>3, <1>4 DEF SpentForGood, OneHandshake
<1>6. \A k \in Handshakes : FamilyOf(k)' = FamilyOf(k)
      BY <1>3 DEF FamilyOf
<1>7. ASSUME NEW k \in Handshakes, shakes'[k].phase = "open", shakes'[k].code = "none"
      PROVE  k \in hooked' /\ family'[FamilyOf(k)] = "alive"
      BY <1>7 DEF NoneIsLeftOpen
<1>8. ASSUME NEW k \in hooked'
      PROVE  shakes'[k].phase \in {"open", "stopping"} /\ family'[FamilyOf(k)] = "alive"
      BY <1>8 DEF NoneIsLeftOpen
<1>9. registered' = {k \in Handshakes : shakes'[k].phase \in {"open", "stopping"}}
      BY DEF NoneIsLeftOpen
<1>10. NoneIsLeftOpen'
       BY <1>6, <1>7, <1>8, <1>9 DEF NoneIsLeftOpen
<1> QED BY <1>1, <1>5, <1>10

LEMMA OpenInv ==
  ASSUME NEW h \in Handshakes, LInv, Open(h)
  PROVE  LInv'
<1>1. h \notin hooked /\ h \notin registered
      BY DEF Open, LInv, NoneIsLeftOpen
<1>2. /\ shakes' \in [Handshakes -> Shake]
      /\ shakes'[h].phase = "open" /\ shakes'[h].ticket = shakes[h].ticket
      /\ family[FamilyOf(h)] # "alive" => shakes'[h].code = "normal"
      /\ \A k \in Handshakes : k # h => shakes'[k] = shakes[k]
      BY DEF Open, LInv, LiveTypeOK, Shake, Phases, Codes
<1>3. /\ registered' = registered \cup {h}
      /\ hooked' = IF family[FamilyOf(h)] = "alive" THEN hooked \cup {h} ELSE hooked
      /\ UNCHANGED <<family, era, tickets, minted>> /\ shakes[h].phase = "accepting"
      BY DEF Open
<1>4. hooked \subseteq Handshakes /\ registered \subseteq Handshakes
      BY DEF LInv, LiveTypeOK
<1> QED BY <1>1, <1>2, <1>3, <1>4, MovesInv

\* The client's leaving, a close of the socket's own and the end of its loop.
LEMMA EndsInv ==
  ASSUME NEW h \in Handshakes, LInv,
         ClientLeaves(h) \/ (\E code \in {"restart", "pong", "forbidden"} : OwnClose(h, code)) \/ Stop(h)
  PROVE  LInv'
<1>1. /\ shakes' \in [Handshakes -> Shake]
      /\ shakes[h].phase = "open" /\ shakes'[h].phase \in {"open", "stopping"}
      /\ shakes'[h].ticket = shakes[h].ticket
      /\ shakes'[h].phase = "open" /\ shakes'[h].code = "none" => shakes[h].code = "none"
      /\ \A k \in Handshakes : k # h => shakes'[k] = shakes[k]
  <2>1. CASE ClientLeaves(h)
        BY <2>1 DEF ClientLeaves, LInv, LiveTypeOK, Shake
  <2>2. CASE \E code \in {"restart", "pong", "forbidden"} : OwnClose(h, code)
    <3>1. PICK code \in Codes \ {"none"} : OwnClose(h, code)
          BY <2>2 DEF Codes
    <3> QED BY <3>1, ClosingKeeps DEF OwnClose, LInv, SamePlaces
  <2>3. CASE Stop(h)
        BY <2>3 DEF Stop, LInv, LiveTypeOK, Shake, Phases
  <2> QED BY <2>1, <2>2, <2>3
<1>2. UNCHANGED <<family, era, tickets, minted, hooked, registered>>
      BY DEF ClientLeaves, OwnClose, Stop
<1>3. hooked \subseteq Handshakes /\ registered \subseteq Handshakes /\ h \in registered
      BY <1>1 DEF LInv, LiveTypeOK, NoneIsLeftOpen
<1>4. /\ h \in hooked => family[FamilyOf(h)] = "alive"
      /\ shakes[h].code = "none" => h \in hooked
      BY <1>1 DEF LInv, NoneIsLeftOpen
<1> QED BY <1>1, <1>2, <1>3, <1>4, MovesInv

LEMMA ShutdownInv ==
  ASSUME NEW h \in Handshakes, LInv, Shutdown(h)
  PROVE  LInv'
<1>1. shakes[h].phase = "stopping" /\ shakes[h] \in Shake
      BY DEF Shutdown, LInv, LiveTypeOK
<1>2. Closing(shakes[h], "normal") \in Shake /\ Closing(shakes[h], "normal").ticket = shakes[h].ticket
      BY <1>1 DEF Closing, Shake, Codes
<1>3. /\ shakes' \in [Handshakes -> Shake]
      /\ shakes'[h].phase = "closed" /\ shakes'[h].ticket = shakes[h].ticket
      /\ \A k \in Handshakes : k # h => shakes'[k] = shakes[k]
      BY <1>2 DEF Shutdown, LInv, LiveTypeOK, Shake, Phases
<1>4. /\ hooked' = hooked \ {h} /\ registered' = registered \ {h}
      /\ UNCHANGED <<family, era, tickets, minted>>
      BY DEF Shutdown
<1>5. hooked \subseteq Handshakes /\ registered \subseteq Handshakes
      BY DEF LInv, LiveTypeOK
<1> QED BY <1>1, <1>3, <1>4, <1>5, MovesInv

LEMMA LiveStepInv == LInv /\ [LiveNext]_ticketVars => LInv'
<1> SUFFICES ASSUME LInv, [LiveNext]_ticketVars PROVE LInv'
    OBVIOUS
<1>1. CASE \E f \in Families : SignIn(f) \/ \E t \in Tickets : Issue(f, t)
      BY <1>1, SignInInv, IssueInv
<1>2. CASE \E f \in Families : Revoke(f) \/ Sweep(f)
  <2>1. PICK f \in Families : Revoke(f) \/ Sweep(f)
        BY <1>2
  <2>2. /\ family' \in [Families -> {"none", "alive", "revoked", "gone"}]
        /\ \A g \in Families \ {f} : family'[g] = family[g]
        BY <2>1 DEF Revoke, Sweep, LInv, LiveTypeOK
  <2>3. era' \in 0..MaxResets
        BY <2>1 DEF Revoke, Sweep, LInv, LiveTypeOK
  <2> QED BY <2>1, <2>2, <2>3, EndingInv DEF Revoke, Sweep
<1>3. CASE ResetTokens
  <2>1. /\ family' \in [Families -> {"none", "alive", "revoked", "gone"}]
        /\ era' \in 0..MaxResets
        BY <1>3, TicketConstants DEF ResetTokens, LInv, LiveTypeOK
  <2> QED BY <1>3, <2>1, EndingInv DEF ResetTokens
<1>4. CASE \E h \in Handshakes :
             ForeignOrigin(h) \/ \E t \in DOMAIN minted \cup {NoTicket} : Refuse(h, t) \/ Accept(h, t)
      BY <1>4, RefusedInv, AcceptInv
<1>5. CASE \E h \in Handshakes :
             \/ Open(h) \/ ClientLeaves(h) \/ Stop(h) \/ Shutdown(h)
             \/ \E code \in {"restart", "pong", "forbidden"} : OwnClose(h, code)
      BY <1>5, OpenInv, EndsInv, ShutdownInv
<1>6. CASE AgeTickets
      BY <1>6, AgeInv
<1>7. CASE UNCHANGED ticketVars
      BY <1>7, QuietInv DEF ticketVars, LInv, LiveTypeOK
<1> QED BY <1>1, <1>2, <1>3, <1>4, <1>5, <1>6, <1>7 DEF LiveNext

LEMMA LiveInvariance == LiveSpec => []LInv
BY LiveInitInv, LiveStepInv, PTL DEF LiveSpec

\* Tickets, handshakes and hooks keep their types (LiveService).
THEOREM SocketsAreTyped == LiveSpec => []LiveTypeOK
<1>1. LInv => LiveTypeOK
      BY DEF LInv
<1> QED BY <1>1, LiveInvariance, PTL

\* No two handshakes are let in with one ticket (LiveService.redeem).
THEOREM TicketsAreSpent == LiveSpec => []OneHandshake
<1>1. LInv => OneHandshake
      BY DEF LInv
<1> QED BY <1>1, LiveInvariance, PTL

\* When a family ends, each of its sockets is asked to close or will be the
\* moment it is accepted (on_family_revoked, LiveSocket.run).
THEOREM RevocationReachesSockets == LiveSpec => []NoneIsLeftOpen
<1>1. LInv => NoneIsLeftOpen
      BY DEF LInv
<1> QED BY <1>1, LiveInvariance, PTL

\* All that holds at every moment between tickets and sockets, together
\* (LiveService, LiveSocket).
THEOREM TicketsAreSafe == LiveSpec => []TicketSafety
<1>1. LInv => TicketSafety
      BY DEF LInv, TicketSafety
<1> QED BY <1>1, LiveInvariance, PTL

-----------------------------------------------------------------------------
(* Hunts: an ETag names what its holder read.                              *)

Held == [id: Ids, hunt: Hunt, era: 0..MaxHuntEras]

\* Ids are handed out in order, and nobody read in an era still to come.
Bookkeeping ==
  /\ DOMAIN hunts \subseteq 1..created
  /\ read \in [Owners -> {Unread} \cup Held]
  /\ \A o \in Owners : read[o] # Unread => read[o].era <= huntEra

\* The inductive invariant.
HInv == HuntTypeOK /\ Bookkeeping /\ TagsNameHunts

LEMMA HuntInitInv == HuntInit => HInv
BY HuntConstants DEF HuntInit, HInv, HuntTypeOK, Bookkeeping, TagsNameHunts, Hunt, Unread

-----------------------------------------------------------------------------
(* What an edit makes of a hunt.                                           *)

\* An edit keeps a hunt's type and raises its version by one.
LEMMA RenewedType ==
  ASSUME NEW hunt \in Hunt, hunt.version < MaxHuntVersion, NEW changes \in Changes
  PROVE  /\ Renewed(hunt, changes) \in Hunt
         /\ Renewed(hunt, changes).version = hunt.version + 1
<1> USE HuntConstants
<1>1. CASE \E n \in HuntNames : changes = [name |-> n]
  <2>1. PICK n \in HuntNames : changes = [name |-> n]
        BY <1>1
  <2>2. Renewed(hunt, changes)
          = [owner |-> hunt.owner, name |-> n, query |-> hunt.query, version |-> hunt.version + 1]
        BY <2>1 DEF Renewed, Hunt
  <2> QED BY <2>1, <2>2 DEF Hunt
<1>2. CASE \E q \in Queries : changes = [query |-> q]
  <2>1. PICK q \in Queries : changes = [query |-> q]
        BY <1>2
  <2>2. Renewed(hunt, changes)
          = [owner |-> hunt.owner, name |-> hunt.name, query |-> q, version |-> hunt.version + 1]
        BY <2>1 DEF Renewed, Hunt
  <2> QED BY <2>1, <2>2 DEF Hunt
<1> QED BY <1>1, <1>2 DEF Changes

-----------------------------------------------------------------------------
(* Steps that keep the era.  A hunt that stays is the same or newer, and   *)
(* one that comes has an id nobody read.                                   *)

Forward ==
  /\ created' \in created..MaxHunts /\ huntEra' = huntEra
  /\ DOMAIN hunts' \subseteq 1..created' /\ hunts' \in [DOMAIN hunts' -> Hunt]
  /\ \A i \in DOMAIN hunts' :
       \/ i > created
       \/ i \in DOMAIN hunts /\ hunts'[i] = hunts[i]
       \/ i \in DOMAIN hunts /\ hunts'[i].version > hunts[i].version

\* Whoever heard nothing, or the hunt as it is now, holds a good tag.
LEMMA ForwardInv ==
  ASSUME HInv, Forward, NEW o \in Owners, NEW i,
         \/ read' = read
         \/ i \in DOMAIN hunts' /\ read' = [read EXCEPT ![o] = Holds(i, hunts'[i])]
  PROVE  HInv'
<1> USE HuntConstants DEF HInv
<1>1. /\ created \in Nat /\ created' \in Nat /\ created <= created' /\ created' <= MaxHunts
      /\ huntEra \in 0..MaxHuntEras /\ huntEra' = huntEra
      BY DEF Forward, HuntTypeOK
<1>2. DOMAIN hunts' \subseteq Ids /\ hunts' \in [DOMAIN hunts' -> Hunt]
      BY <1>1 DEF Forward, Ids
<1>3. \A j \in DOMAIN hunts' : hunts'[j] \in Hunt /\ hunts'[j].version \in Nat
      BY <1>2 DEF Hunt
<1>4. \A j \in DOMAIN hunts : hunts[j].version \in Nat
      BY DEF HuntTypeOK, Hunt
<1>5. ASSUME NEW p \in Owners, read'[p] = read[p], read[p] # Unread
      PROVE  /\ read[p] \in Held /\ read[p].era <= huntEra
             /\ read[p].era = huntEra =>
                  /\ read[p].id <= created'
                  /\ read[p].id \in DOMAIN hunts' =>
                       /\ hunts'[read[p].id].version >= read[p].hunt.version
                       /\ hunts'[read[p].id].version = read[p].hunt.version
                            => hunts'[read[p].id] = read[p].hunt
  <2>1. read[p] \in Held /\ read[p].era <= huntEra
        BY <1>5 DEF Bookkeeping
  <2>2. read[p].id \in Nat /\ read[p].hunt.version \in Nat
        BY <2>1 DEF Held, Ids, Hunt
  <2>3. ASSUME read[p].era = huntEra
        PROVE  /\ read[p].id <= created
               /\ read[p].id \in DOMAIN hunts =>
                    /\ hunts[read[p].id].version >= read[p].hunt.version
                    /\ hunts[read[p].id].version = read[p].hunt.version
                         => hunts[read[p].id] = read[p].hunt
        BY <1>5, <2>3 DEF TagsNameHunts
  <2>4. ASSUME read[p].era = huntEra, read[p].id \in DOMAIN hunts'
        PROVE  /\ hunts'[read[p].id].version >= read[p].hunt.version
               /\ hunts'[read[p].id].version = read[p].hunt.version
                    => hunts'[read[p].id] = read[p].hunt
    <3> DEFINE j == read[p].id
    <3>1. ~ (j > created)
          BY <1>1, <2>2, <2>3, <2>4
    <3>2. j \in DOMAIN hunts /\ (hunts'[j] = hunts[j] \/ hunts'[j].version > hunts[j].version)
          BY <2>4, <3>1 DEF Forward
    <3>3. hunts[j].version \in Nat /\ hunts'[j].version \in Nat
          BY <1>3, <1>4, <2>4, <3>2
    <3>4. CASE hunts'[j] = hunts[j]
          BY <2>3, <2>4, <3>2, <3>4
    <3>5. CASE hunts'[j].version > hunts[j].version
          BY <2>2, <2>3, <2>4, <3>2, <3>3, <3>5
    <3> QED BY <3>2, <3>4, <3>5
  <2> QED BY <1>1, <2>1, <2>2, <2>3, <2>4
<1>6. ASSUME NEW p \in Owners, i \in DOMAIN hunts', read'[p] = Holds(i, hunts'[i])
      PROVE  /\ read'[p] \in Held /\ read'[p].era = huntEra
             /\ read'[p].id = i /\ read'[p].hunt = hunts'[i] /\ i <= created'
      BY <1>1, <1>2, <1>3, <1>6 DEF Holds, Held, Forward
<1>7. \A p \in Owners : read'[p] = read[p] \/ (i \in DOMAIN hunts' /\ read'[p] = Holds(i, hunts'[i]))
      BY DEF Bookkeeping
<1>8. DOMAIN read' = Owners /\ read' \in [Owners -> {Unread} \cup Held]
  <2>1. \A p \in Owners : read'[p] \in {Unread} \cup Held
        BY <1>5, <1>6, <1>7
  <2>2. read' = [p \in Owners |-> read'[p]]
        BY DEF Bookkeeping
  <2> QED BY <2>1, <2>2
<1>9. HuntTypeOK'
      BY <1>1, <1>2, <1>8 DEF HuntTypeOK, Held
<1>10. Bookkeeping'
  <2>1. \A p \in Owners : read'[p] # Unread => read'[p].era <= huntEra'
        BY <1>1, <1>5, <1>6, <1>7
  <2>2. DOMAIN hunts' \subseteq 1..created'
        BY DEF Forward
  <2> QED BY <1>8, <2>1, <2>2 DEF Bookkeeping
<1>11. TagsNameHunts'
  <2> SUFFICES ASSUME NEW p \in Owners, read'[p] # Unread, read'[p].era = huntEra'
               PROVE  /\ read'[p].id <= created'
                      /\ read'[p].id \in DOMAIN hunts' =>
                           /\ hunts'[read'[p].id].version >= read'[p].hunt.version
                           /\ hunts'[read'[p].id].version = read'[p].hunt.version
                                => hunts'[read'[p].id] = read'[p].hunt
      BY DEF TagsNameHunts
  <2>1. CASE read'[p] = read[p]
        BY <1>1, <1>5, <2>1
  <2>2. CASE i \in DOMAIN hunts' /\ read'[p] = Holds(i, hunts'[i])
    <3>1. hunts'[i].version \in Nat
          BY <1>3, <2>2
    <3> QED BY <1>6, <2>2, <3>1
  <2> QED BY <1>7, <2>1, <2>2
<1> QED BY <1>9, <1>10, <1>11

-----------------------------------------------------------------------------
(* The handlers.                                                           *)

LEMMA CreateInv ==
  ASSUME NEW o \in Owners, NEW name \in HuntNames, NEW query \in Queries,
         HInv, CreateHunt(o, name, query)
  PROVE  HInv'
<1> DEFINE hunt == [owner |-> o, name |-> name, query |-> query, version |-> 1]
<1>1. created \in Nat /\ created < MaxHunts /\ created' = created + 1 /\ NewId = created + 1
      BY DEF CreateHunt, NewId, HInv, HuntTypeOK
<1>2. hunt \in Hunt
      BY HuntConstants DEF Hunt
<1>3. hunts' = [i \in DOMAIN hunts \cup {NewId} |-> IF i = NewId THEN hunt ELSE hunts[i]]
      BY DEF CreateHunt
<1>4. DOMAIN hunts \subseteq 1..created /\ \A i \in DOMAIN hunts : hunts[i] \in Hunt
      BY DEF HInv, Bookkeeping, HuntTypeOK
<1>5. Forward
      BY <1>1, <1>2, <1>3, <1>4, HuntConstants DEF Forward, CreateHunt
<1>6. NewId \in DOMAIN hunts' /\ hunts'[NewId] = hunt
      BY <1>3
<1>7. read' = read \/ read' = [read EXCEPT ![o] = Holds(NewId, hunts'[NewId])]
      BY <1>6 DEF CreateHunt, Heard
<1> QED BY <1>5, <1>6, <1>7, ForwardInv

LEMMA ReadInv ==
  ASSUME NEW o \in Owners, NEW i \in DOMAIN hunts, HInv, ReadHunt(o, i)
  PROVE  HInv'
<1>1. hunts' = hunts /\ created' = created /\ huntEra' = huntEra
      BY DEF ReadHunt
<1>2. Forward
      BY <1>1, HuntConstants DEF Forward, HInv, HuntTypeOK, Bookkeeping
<1>3. i \in DOMAIN hunts' /\ read' = [read EXCEPT ![o] = Holds(i, hunts'[i])]
      BY <1>1 DEF ReadHunt
<1> QED BY <1>2, <1>3, ForwardInv

\* A hunt replaced by one of a higher version.
LEMMA RaisedForward ==
  ASSUME NEW i \in DOMAIN hunts, NEW hunt \in Hunt, HInv, hunt.version = hunts[i].version + 1,
         hunts' = [hunts EXCEPT ![i] = hunt], UNCHANGED <<created, huntEra>>
  PROVE  Forward /\ i \in DOMAIN hunts' /\ hunts'[i] = hunt
<1>1. /\ DOMAIN hunts' = DOMAIN hunts /\ hunts'[i] = hunt
      /\ \A j \in DOMAIN hunts : j # i => hunts'[j] = hunts[j]
      BY DEF HInv, HuntTypeOK
<1>2. hunts' \in [DOMAIN hunts' -> Hunt] /\ hunts[i].version \in Nat
      BY DEF HInv, HuntTypeOK, Hunt
<1>3. hunts'[i].version > hunts[i].version
      BY <1>1, <1>2
<1> QED BY <1>1, <1>2, <1>3, HuntConstants DEF Forward, HInv, HuntTypeOK, Bookkeeping

LEMMA PatchInv ==
  ASSUME NEW o \in Owners, NEW i \in DOMAIN hunts, NEW tags, NEW changes \in Changes,
         HInv, PatchHunt(o, i, tags, changes)
  PROVE  HInv'
<1>1. hunts[i] \in Hunt /\ hunts[i].version < MaxHuntVersion
      BY DEF HInv, HuntTypeOK, PatchHunt
<1>2. /\ Renewed(hunts[i], changes) \in Hunt
      /\ Renewed(hunts[i], changes).version = hunts[i].version + 1
      BY <1>1, RenewedType
<1>3. hunts' = [hunts EXCEPT ![i] = Renewed(hunts[i], changes)] /\ UNCHANGED <<created, huntEra>>
      BY DEF PatchHunt, HInv, HuntTypeOK
<1>4. Forward /\ i \in DOMAIN hunts' /\ hunts'[i] = Renewed(hunts[i], changes)
      BY <1>2, <1>3, RaisedForward
<1>5. read' = read \/ read' = [read EXCEPT ![o] = Holds(i, hunts'[i])]
      BY <1>4 DEF PatchHunt, Heard
<1> QED BY <1>4, <1>5, ForwardInv

LEMMA TouchInv ==
  ASSUME NEW i \in DOMAIN hunts, NEW o \in Owners, HInv, Touch(i)
  PROVE  HInv'
<1> DEFINE hunt == [hunts[i] EXCEPT !.version = hunts[i].version + 1]
<1>1. hunts[i] \in Hunt /\ hunts[i].version < MaxHuntVersion
      BY DEF HInv, HuntTypeOK, Touch
<1>2. hunt \in Hunt /\ hunt.version = hunts[i].version + 1
      BY <1>1, HuntConstants DEF Hunt
<1>3. hunts' = [hunts EXCEPT ![i] = hunt] /\ UNCHANGED <<created, read, huntEra>>
      BY DEF Touch, HInv, HuntTypeOK
<1>4. Forward
      BY <1>2, <1>3, RaisedForward
<1> QED BY <1>3, <1>4, ForwardInv

LEMMA DeleteInv ==
  ASSUME NEW o \in Owners, NEW i \in DOMAIN hunts, NEW tags, HInv, DeleteHunt(o, i, tags)
  PROVE  HInv'
<1>1. hunts' = [j \in DOMAIN hunts \ {i} |-> hunts[j]] /\ UNCHANGED <<created, read, huntEra>>
      BY DEF DeleteHunt, Restrict
<1>2. Forward
      BY <1>1, HuntConstants DEF Forward, HInv, HuntTypeOK, Bookkeeping
<1> QED BY <1>1, <1>2, ForwardInv

\* After a reset ids begin again, and what was read is of an era that is over.
LEMMA ResetHuntsInv ==
  ASSUME HInv, ResetHunts
  PROVE  HInv'
<1>1. /\ huntEra \in Nat /\ huntEra' = huntEra + 1 /\ huntEra' \in 0..MaxHuntEras
      /\ created' = 0 /\ DOMAIN hunts' = {} /\ hunts' \in [{} -> Hunt] /\ read' = read
      BY HuntConstants DEF ResetHunts, HInv, HuntTypeOK
<1>2. \A o \in Owners : read[o] # Unread => read[o] \in Held /\ read[o].era <= huntEra
      BY DEF HInv, Bookkeeping
<1>3. \A o \in Owners : read[o] # Unread => read[o].era \in Nat
      BY <1>2 DEF Held
<1>4. HuntTypeOK'
      BY <1>1, HuntConstants DEF HInv, HuntTypeOK
<1>5. Bookkeeping' /\ TagsNameHunts'
      BY <1>1, <1>2, <1>3 DEF HInv, Bookkeeping, TagsNameHunts
<1> QED BY <1>4, <1>5 DEF HInv

LEMMA HuntStepInv == HInv /\ [HuntNext]_huntVars => HInv'
<1> SUFFICES ASSUME HInv, [HuntNext]_huntVars PROVE HInv'
    OBVIOUS
<1>1. CASE \E o \in Owners, n \in HuntNames, q \in Queries : CreateHunt(o, n, q)
      BY <1>1, CreateInv
<1>2. CASE \E o \in Owners, i \in DOMAIN hunts : ReadHunt(o, i)
      BY <1>2, ReadInv
<1>3. CASE \E o \in Owners, i \in DOMAIN hunts : \E tags \in Sends(o) : DeleteHunt(o, i, tags)
      BY <1>3, DeleteInv
<1>4. CASE \E o \in Owners, i \in DOMAIN hunts : \E tags \in Sends(o), changes \in Changes :
             PatchHunt(o, i, tags, changes)
      BY <1>4, PatchInv
<1>5. CASE \E i \in DOMAIN hunts : Touch(i)
  <2>1. PICK i \in DOMAIN hunts : Touch(i)
        BY <1>5
  <2>2. hunts[i].owner \in Owners
        BY DEF HInv, HuntTypeOK, Hunt
  <2> QED BY <2>1, <2>2, TouchInv
<1>6. CASE ResetHunts
      BY <1>6, ResetHuntsInv
<1>7. CASE UNCHANGED huntVars
      BY <1>7 DEF huntVars, HInv, HuntTypeOK, Bookkeeping, TagsNameHunts
<1> QED BY <1>1, <1>2, <1>3, <1>4, <1>5, <1>6, <1>7 DEF HuntNext

LEMMA HuntInvariance == HuntSpec => []HInv
BY HuntInitInv, HuntStepInv, PTL DEF HuntSpec

\* Hunts and what was read of them keep their types (HuntStore).
THEOREM HuntsAreTyped == HuntSpec => []HuntTypeOK
<1>1. HInv => HuntTypeOK
      BY DEF HInv
<1> QED BY <1>1, HuntInvariance, PTL

\* An ETag that still matches is of what its holder read, so that an edit under
\* it overwrites nothing (check_if_match, HuntStore.patch).
THEOREM TagsAreNames == HuntSpec => []TagsNameHunts
<1>1. HInv => TagsNameHunts
      BY DEF HInv
<1> QED BY <1>1, HuntInvariance, PTL

-----------------------------------------------------------------------------
(* Exports: a bundle is the case at one moment.                            *)

\* A job that is ready was made when it was old enough, and what it holds is
\* an edition of the case from after it was asked for.
JobIsTrue(x) ==
  /\ x.state # "ready" => x.archive = NoArchive
  /\ x.state = "ready" => x.since + Duration <= x.age
  /\ x.archive # NoArchive => x.archive >= x.asked

JobsAreTrue ==
  /\ \A i \in DOMAIN exports : JobIsTrue(exports[i])
  /\ \A i \in DOMAIN exports : i > cleared => exports[i].asked <= edition

\* A key is as old as the job it names, for as long as it is remembered, and
\* a reset leaves no key of what it cleared.
KeysKeepUp ==
  \A k \in DOMAIN keyed :
    /\ keyed[k].job > cleared
    /\ keyed[k].age < KeyLifetime => exports[keyed[k].job].age = keyed[k].age

\* What was downloaded is what the job held and holds until it drops it.
BundlesAreTheJobs ==
  \A d \in Downloads :
    LET i == downloads[d].job IN
    /\ i # NoArchive => i \in DOMAIN exports /\ exports[i].state = "ready"
    /\ downloads[d].got # NotYet => i # NoArchive
    /\ downloads[d].got > Empty =>
         /\ exports[i].archive \in {NoArchive, downloads[d].got}
         /\ downloads[d].got >= exports[i].asked

IInv ==
  /\ ExportTypeOK
  /\ JobsAreTrue
  /\ KeysKeepUp
  /\ BundlesAreTheJobs
  /\ OneBundle
  /\ ReplaysFindTheirJob

LEMMA InitInv == ExportInit => IInv
<1> SUFFICES ASSUME ExportInit PROVE IInv
    OBVIOUS
<1> USE ExportConstants DEF ExportInit, NoArchive, NotYet, Empty
<1>1. exports = << >> /\ Len(exports) = 0 /\ DOMAIN exports = {} /\ exports \in Seq(Export)
      OBVIOUS
<1>2. DOMAIN keyed = {}
      OBVIOUS
<1>3. \A d \in Downloads : downloads[d].job = 0 /\ downloads[d].got = -1
      OBVIOUS
<1>4. downloads \in [Downloads -> [job: 0..MaxExports, got: NotYet..MaxEdition]]
  <2>1. 0 \in 0..MaxExports /\ -1 \in -1..MaxEdition
        OBVIOUS
  <2> QED BY <2>1
<1>5. ExportTypeOK
  <2>1. edition \in 1..MaxEdition /\ Len(exports) <= MaxExports /\ cleared \in 0..Len(exports)
        BY <1>1
  <2>2. degraded \in BOOLEAN /\ refused \in BOOLEAN
        OBVIOUS
  <2>3. /\ DOMAIN keyed \subseteq ExportKeys
        /\ \A k \in DOMAIN keyed : keyed[k] \in [job: DOMAIN exports, age: 0..KeyLifetime]
        BY <1>2
  <2> HIDE DEF ExportInit
  <2> QED BY <1>1, <1>4, <2>1, <2>2, <2>3, Zenon DEF ExportTypeOK
<1>6. JobsAreTrue /\ KeysKeepUp
      BY <1>1, <1>2 DEF JobsAreTrue, KeysKeepUp
<1>7. BundlesAreTheJobs /\ OneBundle
      BY <1>3 DEF BundlesAreTheJobs, OneBundle
<1> QED BY <1>5, <1>6, <1>7 DEF IInv, ReplaysFindTheirJob

-----------------------------------------------------------------------------
(* What tick() makes of a job and of all of them.                          *)

\* tick() changes neither how old a job is nor what it was asked for, and what
\* is ready stays ready with what it holds, or drops it.
MovesOn(x, y) ==
  /\ y.age = x.age /\ y.asked = x.asked
  /\ x.state = "ready" => y.state = "ready" /\ y.archive \in {NoArchive, x.archive}

LEMMA TickedJob ==
  ASSUME NEW x \in Export, JobIsTrue(x), x.asked <= edition, edition \in 1..MaxEdition
  PROVE  /\ TickedOne(x) \in Export /\ JobIsTrue(TickedOne(x)) /\ MovesOn(x, TickedOne(x))
<1> USE ExportConstants DEF NoArchive
<1> DEFINE dropped == [x EXCEPT !.archive = NoArchive]
           made == [x EXCEPT !.state = "ready", !.archive = edition, !.since = 0]
           running == [x EXCEPT !.state = "running"]
<1>1. /\ x.age \in Nat /\ x.since \in Nat /\ x.archive \in Nat /\ x.asked \in Nat
      /\ x.state \in {"queued", "running", "ready"} /\ Duration \in Nat /\ edition \in Nat
      BY DEF Export, OldAge
<1>2. CASE x.state = "ready" /\ Expired(x)
  <2>1. TickedOne(x) = dropped
        BY <1>2 DEF TickedOne
  <2>2. dropped \in Export
        BY DEF Export
  <2> QED BY <1>1, <1>2, <2>1, <2>2 DEF Export, JobIsTrue, MovesOn
<1>3. CASE x.state = "ready" /\ ~ Expired(x)
  <2>1. TickedOne(x) = x
        BY <1>3 DEF TickedOne
  <2> QED BY <1>3, <2>1 DEF MovesOn
<1>4. CASE x.state # "ready" /\ x.age >= Duration
  <2>1. TickedOne(x) = made
        BY <1>1, <1>4 DEF TickedOne, Made
  <2>2. edition \in 0..MaxEdition /\ 0 \in 0..Lifetime + 1 /\ "ready" \in {"queued", "running", "ready"}
        BY <1>1
  <2>3. made \in Export
        BY <2>2 DEF Export
  <2> QED BY <1>1, <1>4, <2>1, <2>3 DEF Export, JobIsTrue, MovesOn
<1>5. CASE x.state # "ready" /\ ~ (x.age >= Duration) /\ x.age > Queued
  <2>1. TickedOne(x) = running
        BY <1>1, <1>5 DEF TickedOne
  <2>2. running \in Export
        BY DEF Export
  <2> QED BY <1>1, <1>5, <2>1, <2>2 DEF Export, JobIsTrue, MovesOn
<1>6. CASE x.state # "ready" /\ ~ (x.age >= Duration) /\ ~ (x.age > Queued)
  <2>1. TickedOne(x) = x
        BY <1>1, <1>6 DEF TickedOne
  <2> QED BY <1>6, <2>1 DEF MovesOn
<1> QED BY <1>1, <1>2, <1>3, <1>4, <1>5, <1>6

LEMMA AllAreTicked ==
  ASSUME IInv
  PROVE  /\ AllTicked \in Seq(Export) /\ Len(AllTicked) = Len(exports)
         /\ DOMAIN AllTicked = DOMAIN exports
         /\ \A i \in DOMAIN exports : JobIsTrue(AllTicked[i]) /\ MovesOn(exports[i], AllTicked[i])
<1>1. /\ exports \in Seq(Export) /\ DOMAIN exports = 1..Len(exports) /\ Len(exports) \in Nat
      /\ edition \in 1..MaxEdition
      BY DEF IInv, ExportTypeOK
<1>2. ASSUME NEW i \in DOMAIN exports
      PROVE  /\ AllTicked[i] \in Export
             /\ JobIsTrue(AllTicked[i]) /\ MovesOn(exports[i], AllTicked[i])
  <2>1. exports[i] \in Export /\ JobIsTrue(exports[i]) /\ (i > cleared => exports[i].asked <= edition)
        BY <1>1 DEF IInv, JobsAreTrue
  <2>2. AllTicked[i] = IF i > cleared THEN TickedOne(exports[i]) ELSE exports[i]
        BY DEF AllTicked
  <2>3. CASE i > cleared
    <3>1. AllTicked[i] = TickedOne(exports[i]) /\ exports[i].asked <= edition
          BY <2>1, <2>2, <2>3
    <3> QED BY <1>1, <2>1, <3>1, TickedJob
  <2>4. CASE ~ (i > cleared)
        BY <2>1, <2>2, <2>4 DEF MovesOn
  <2> QED BY <2>3, <2>4
<1>3. DOMAIN AllTicked = 1..Len(exports)
      BY <1>1 DEF AllTicked
<1>4. AllTicked \in [1..Len(exports) -> Export]
      BY <1>1, <1>2 DEF AllTicked
<1>5. AllTicked \in Seq(Export) /\ Len(AllTicked) = Len(exports)
      BY <1>1, <1>4
<1> QED BY <1>1, <1>2, <1>3, <1>5

\* The job of a key that is remembered is found.
LEMMA KeysFindJobs ==
  ASSUME IInv, NEW k, Alive(k)
  PROVE  Found(keyed[k].job)
<1> USE ExportConstants
<1> DEFINE i == keyed[k].job
<1>1. /\ i \in DOMAIN exports /\ i > cleared /\ keyed[k].age \in Nat
      /\ keyed[k].age < KeyLifetime /\ exports[i].age = keyed[k].age
      BY DEF IInv, ExportTypeOK, KeysKeepUp, Alive
<1>2. /\ AllTicked[i].age = exports[i].age /\ JobIsTrue(AllTicked[i]) /\ AllTicked[i] \in Export
      BY <1>1, AllAreTicked DEF MovesOn
<1>3. ~ Expired(AllTicked[i])
      BY <1>1, <1>2 DEF JobIsTrue, Expired, Export
<1> QED BY <1>1, <1>3 DEF Found

-----------------------------------------------------------------------------
(* Jobs that are moved on.                                               *)

\* Jobs that are moved on keep what was read from them.
SameJobs ==
  /\ DOMAIN exports \subseteq DOMAIN exports'
  /\ \A i \in DOMAIN exports :
       /\ exports'[i].asked = exports[i].asked
       /\ exports[i].state = "ready" =>
            exports'[i].state = "ready" /\ exports'[i].archive \in {NoArchive, exports[i].archive}

\* A download stays what it is, or is of a job that is ready and has no bundle.
ReadersGoOn ==
  \A d \in Downloads :
    \/ downloads'[d] = downloads[d]
    \/ /\ downloads'[d].got = NotYet
       /\ downloads'[d].job \in DOMAIN exports' /\ exports'[downloads'[d].job].state = "ready"

\* What downloads got stays what their jobs hold, whatever the jobs do.
LEMMA ReadersKeep ==
  ASSUME IInv, SameJobs, ReadersGoOn
  PROVE  BundlesAreTheJobs' /\ OneBundle'
<1> USE DEF NoArchive, NotYet, Empty
<1>1. ASSUME NEW d \in Downloads, downloads[d].job # 0
      PROVE  downloads[d].job \in DOMAIN exports /\ exports[downloads[d].job].state = "ready"
      BY <1>1 DEF IInv, BundlesAreTheJobs
<1>2. ASSUME NEW d \in Downloads, downloads'[d].got > 0
      PROVE  downloads'[d] = downloads[d] /\ downloads[d].job # 0
  <2>1. downloads'[d] = downloads[d]
        BY <1>2 DEF ReadersGoOn
  <2>2. downloads[d].got > 0 /\ downloads[d].got # -1
        BY <1>2, <2>1
  <2> QED BY <2>1, <2>2 DEF IInv, BundlesAreTheJobs
<1>3. ASSUME NEW d \in Downloads
      PROVE  LET i == downloads'[d].job IN
             /\ i # 0 => i \in DOMAIN exports' /\ exports'[i].state = "ready"
             /\ downloads'[d].got # -1 => i # 0
             /\ downloads'[d].got > 0 =>
                  /\ exports'[i].archive \in {0, downloads'[d].got}
                  /\ downloads'[d].got >= exports'[i].asked
  <2> DEFINE i == downloads[d].job
  <2>1. CASE downloads'[d] = downloads[d]
    <3>1. /\ i # 0 => i \in DOMAIN exports /\ exports[i].state = "ready"
          /\ downloads[d].got # -1 => i # 0
          /\ downloads[d].got > 0 =>
               exports[i].archive \in {0, downloads[d].got} /\ downloads[d].got >= exports[i].asked
          BY DEF IInv, BundlesAreTheJobs
    <3>2. i # 0 => /\ i \in DOMAIN exports' /\ exports'[i].state = "ready"
                   /\ exports'[i].asked = exports[i].asked
                   /\ exports'[i].archive \in {0, exports[i].archive}
          BY <3>1 DEF SameJobs
    <3>3. downloads[d].got > 0 => i # 0
          BY <3>1
    <3> QED BY <2>1, <3>1, <3>2, <3>3
  <2>2. CASE downloads'[d] # downloads[d]
        BY <2>2 DEF ReadersGoOn
  <2> QED BY <2>1, <2>2
<1>4. BundlesAreTheJobs'
      BY <1>3 DEF BundlesAreTheJobs
<1>5. OneBundle'
  <2> SUFFICES ASSUME NEW d \in Downloads, NEW e \in Downloads,
                      downloads'[d].got > 0, downloads'[e].got > 0,
                      downloads'[d].job = downloads'[e].job
               PROVE  /\ downloads'[d].got = downloads'[e].got
                      /\ downloads'[d].got >= exports'[downloads'[d].job].asked
      BY DEF OneBundle
  <2>1. /\ downloads'[d] = downloads[d] /\ downloads'[e] = downloads[e]
        /\ downloads[d].job # 0
        BY <1>2
  <2>2. /\ downloads[d].got = downloads[e].got
        /\ downloads[d].got >= exports[downloads[d].job].asked
        BY <2>1 DEF IInv, OneBundle
  <2>3. exports'[downloads[d].job].asked = exports[downloads[d].job].asked
        BY <1>1, <2>1 DEF SameJobs
  <2> QED BY <2>1, <2>2, <2>3
<1> QED BY <1>4, <1>5

\* tick() keeps jobs and keys what they have to be.
LEMMA TickKeeps ==
  ASSUME IInv, exports' = AllTicked, UNCHANGED <<edition, cleared, keyed>>
  PROVE  /\ SameJobs /\ JobsAreTrue' /\ KeysKeepUp'
         /\ exports' \in Seq(Export) /\ Len(exports') = Len(exports) /\ DOMAIN exports' = DOMAIN exports
<1>1. /\ exports' \in Seq(Export) /\ Len(exports') = Len(exports) /\ DOMAIN exports' = DOMAIN exports
      /\ \A i \in DOMAIN exports : JobIsTrue(exports'[i]) /\ MovesOn(exports[i], exports'[i])
      BY AllAreTicked
<1>2. SameJobs
      BY <1>1 DEF SameJobs, MovesOn
<1>3. JobsAreTrue'
  <2>1. \A i \in DOMAIN exports : i > cleared => exports'[i].asked <= edition
        BY <1>1 DEF IInv, JobsAreTrue, MovesOn
  <2> QED BY <1>1, <2>1 DEF JobsAreTrue
<1>4. KeysKeepUp'
  <2>1. \A k \in DOMAIN keyed : keyed[k].job \in DOMAIN exports
        BY DEF IInv, ExportTypeOK
  <2> QED BY <1>1, <2>1 DEF IInv, KeysKeepUp, MovesOn
<1> QED BY <1>1, <1>2, <1>3, <1>4

-----------------------------------------------------------------------------
(* The steps.                                                              *)

LEMMA PollKeeps == IInv /\ PollExports => IInv'
<1> SUFFICES ASSUME IInv, PollExports PROVE IInv'
    OBVIOUS
<1>1. /\ exports' = AllTicked
      /\ UNCHANGED <<edition, cleared, keyed, downloads, degraded, refused>>
      BY DEF PollExports
<1>2. /\ SameJobs /\ JobsAreTrue' /\ KeysKeepUp'
      /\ exports' \in Seq(Export) /\ Len(exports') = Len(exports) /\ DOMAIN exports' = DOMAIN exports
      BY <1>1, TickKeeps
<1>3. BundlesAreTheJobs' /\ OneBundle'
      BY <1>1, <1>2, ReadersKeep DEF ReadersGoOn
<1>4. ExportTypeOK'
      BY <1>1, <1>2 DEF IInv, ExportTypeOK
<1>5. ReplaysFindTheirJob'
      BY <1>1 DEF IInv, ReplaysFindTheirJob
<1> QED BY <1>2, <1>3, <1>4, <1>5 DEF IInv

\* The job of a key that is remembered is never found gone.
LEMMA ReplayKeeps == ASSUME NEW k PROVE IInv /\ ReplayExport(k) => IInv'
<1> SUFFICES ASSUME IInv, ReplayExport(k) PROVE IInv'
    OBVIOUS
<1>1. /\ Alive(k) /\ exports' = AllTicked
      /\ refused' = (refused \/ ~Found(keyed[k].job))
      /\ UNCHANGED <<edition, cleared, keyed, downloads, degraded>>
      BY DEF ReplayExport
<1>2. /\ SameJobs /\ JobsAreTrue' /\ KeysKeepUp'
      /\ exports' \in Seq(Export) /\ Len(exports') = Len(exports) /\ DOMAIN exports' = DOMAIN exports
      BY <1>1, TickKeeps
<1>3. BundlesAreTheJobs' /\ OneBundle'
      BY <1>1, <1>2, ReadersKeep DEF ReadersGoOn
<1>4. refused' \in BOOLEAN /\ ~refused'
  <2>1. Found(keyed[k].job)
        BY <1>1, KeysFindJobs
  <2>2. ~refused
        BY DEF IInv, ReplaysFindTheirJob
  <2> QED BY <1>1, <2>1, <2>2
<1>5. ExportTypeOK'
      BY <1>1, <1>2, <1>4 DEF IInv, ExportTypeOK
<1> QED BY <1>2, <1>3, <1>4, <1>5 DEF IInv, ReplaysFindTheirJob

LEMMA DownloadKeeps ==
  ASSUME NEW d \in Downloads, NEW i \in DOMAIN exports
  PROVE  IInv /\ Download(d, i) => IInv'
<1> SUFFICES ASSUME IInv, Download(d, i) PROVE IInv'
    OBVIOUS
<1>1. /\ downloads[d].job = NoArchive /\ exports' = AllTicked /\ AllTicked[i].state = "ready"
      /\ downloads' = [downloads EXCEPT ![d].job = i]
      /\ UNCHANGED <<edition, cleared, keyed, degraded, refused>>
      BY DEF Download
<1>2. /\ SameJobs /\ JobsAreTrue' /\ KeysKeepUp'
      /\ exports' \in Seq(Export) /\ Len(exports') = Len(exports) /\ DOMAIN exports' = DOMAIN exports
      BY <1>1, TickKeeps
<1>3. /\ downloads \in [Downloads -> [job: 0..MaxExports, got: NotYet..MaxEdition]]
      /\ i \in 0..MaxExports
      BY ExportConstants DEF IInv, ExportTypeOK
<1>4. downloads[d].got = NotYet
      BY <1>1 DEF IInv, BundlesAreTheJobs
<1>5. ReadersGoOn
  <2>1. ASSUME NEW e \in Downloads, e # d PROVE downloads'[e] = downloads[e]
        BY <1>1, <1>3, <2>1
  <2>2. downloads'[d].job = i /\ downloads'[d].got = downloads[d].got
        BY <1>1, <1>3
  <2> QED BY <1>1, <1>2, <1>4, <2>1, <2>2 DEF ReadersGoOn
<1>6. BundlesAreTheJobs' /\ OneBundle'
      BY <1>2, <1>5, ReadersKeep
<1>7. downloads' \in [Downloads -> [job: 0..MaxExports, got: NotYet..MaxEdition]]
      BY <1>1, <1>3
<1>8. ExportTypeOK'
      BY <1>1, <1>2, <1>7 DEF IInv, ExportTypeOK
<1> QED BY <1>1, <1>2, <1>6, <1>8 DEF IInv, ReplaysFindTheirJob

\* A body is what its job holds, which is what the others got from it.
LEMMA StreamKeeps == ASSUME NEW d \in Downloads PROVE IInv /\ Stream(d) => IInv'
<1> SUFFICES ASSUME IInv, Stream(d) PROVE IInv'
    OBVIOUS
<1> USE DEF NoArchive, NotYet, Empty
<1> DEFINE i == downloads[d].job
<1>1. /\ i # 0 /\ downloads[d].got = -1
      /\ downloads' = [downloads EXCEPT ![d].got = exports[i].archive]
      /\ UNCHANGED <<edition, exports, cleared, keyed, degraded, refused>>
      BY DEF Stream, Body
<1>2. downloads \in [Downloads -> [job: 0..MaxExports, got: -1..MaxEdition]]
      BY DEF IInv, ExportTypeOK
<1>3. /\ i \in DOMAIN exports /\ exports[i].state = "ready"
      /\ exports[i] \in Export /\ JobIsTrue(exports[i])
      BY <1>1 DEF IInv, ExportTypeOK, JobsAreTrue, BundlesAreTheJobs
<1>4. /\ exports[i].archive \in -1..MaxEdition
      /\ exports[i].archive > 0 => exports[i].archive >= exports[i].asked
      BY <1>3 DEF Export, JobIsTrue
<1>5. /\ downloads'[d].job = i /\ downloads'[d].got = exports[i].archive
      /\ \A e \in Downloads : e # d => downloads'[e] = downloads[e]
      BY <1>1, <1>2
<1>6. downloads' \in [Downloads -> [job: 0..MaxExports, got: -1..MaxEdition]]
      BY <1>1, <1>2, <1>4
<1>7. ExportTypeOK'
      BY <1>1, <1>6 DEF IInv, ExportTypeOK
<1>8. BundlesAreTheJobs'
  <2> SUFFICES ASSUME NEW e \in Downloads
               PROVE  LET j == downloads'[e].job IN
                      /\ j # 0 => j \in DOMAIN exports /\ exports[j].state = "ready"
                      /\ downloads'[e].got # -1 => j # 0
                      /\ downloads'[e].got > 0 =>
                           /\ exports[j].archive \in {0, downloads'[e].got}
                           /\ downloads'[e].got >= exports[j].asked
      BY <1>1 DEF BundlesAreTheJobs
  <2>1. CASE e = d
        BY <1>1, <1>3, <1>4, <1>5, <2>1
  <2>2. CASE e # d
        BY <1>5, <2>2 DEF IInv, BundlesAreTheJobs
  <2> QED BY <2>1, <2>2
<1>9. OneBundle'
  <2>1. ASSUME NEW e \in Downloads, e # d, downloads[e].got > 0, downloads[e].job = i,
               exports[i].archive > 0
        PROVE  downloads[e].got = exports[i].archive
        BY <2>1 DEF IInv, BundlesAreTheJobs
  <2> SUFFICES ASSUME NEW e \in Downloads, NEW f \in Downloads,
                      downloads'[e].got > 0, downloads'[f].got > 0,
                      downloads'[e].job = downloads'[f].job
               PROVE  /\ downloads'[e].got = downloads'[f].got
                      /\ downloads'[e].got >= exports[downloads'[e].job].asked
      BY <1>1 DEF OneBundle
  <2>2. CASE e # d /\ f # d
        BY <1>5, <2>2 DEF IInv, OneBundle
  <2>3. CASE e = d /\ f = d
        BY <1>4, <1>5, <2>3
  <2>4. CASE e = d /\ f # d
        BY <1>4, <1>5, <2>1, <2>4
  <2>5. CASE e # d /\ f = d
    <3>1. downloads[e].got = exports[i].archive
          BY <1>5, <2>1, <2>5
    <3> QED BY <1>4, <1>5, <2>5, <3>1
  <2> QED BY <2>2, <2>3, <2>4, <2>5
<1>10. JobsAreTrue' /\ KeysKeepUp' /\ ReplaysFindTheirJob'
      BY <1>1 DEF IInv, JobsAreTrue, KeysKeepUp, ReplaysFindTheirJob
<1> QED BY <1>7, <1>8, <1>9, <1>10 DEF IInv

LEMMA EditKeeps == IInv /\ EditCase => IInv'
<1> SUFFICES ASSUME IInv, EditCase PROVE IInv'
    OBVIOUS
<1>1. /\ edition < MaxEdition /\ edition' = edition + 1 /\ edition \in 1..MaxEdition
      /\ UNCHANGED <<exports, cleared, keyed, downloads, degraded, refused>>
      BY DEF EditCase, IInv, ExportTypeOK
<1>2. edition' \in 1..MaxEdition
      BY <1>1, ExportConstants
<1>3. ExportTypeOK'
      BY <1>1, <1>2 DEF IInv, ExportTypeOK
<1>4. \A i \in DOMAIN exports : exports[i] \in Export
      BY DEF IInv, ExportTypeOK
<1>5. JobsAreTrue'
  <2>1. ASSUME NEW i \in DOMAIN exports, i > cleared PROVE exports[i].asked <= edition + 1
    <3>1. exports[i].asked <= edition /\ exports[i].asked \in Int
          BY <1>4, <2>1 DEF IInv, JobsAreTrue, Export
    <3> QED BY <1>1, <3>1
  <2> QED BY <1>1, <2>1 DEF IInv, JobsAreTrue
<1>6. KeysKeepUp' /\ BundlesAreTheJobs' /\ OneBundle' /\ ReplaysFindTheirJob'
      BY <1>1 DEF IInv, KeysKeepUp, BundlesAreTheJobs, OneBundle, ReplaysFindTheirJob
<1> QED BY <1>3, <1>5, <1>6 DEF IInv

LEMMA DegradeKeeps == ASSUME NEW b \in BOOLEAN PROVE IInv /\ SetDegraded(b) => IInv'
<1> SUFFICES ASSUME IInv, SetDegraded(b) PROVE IInv'
    OBVIOUS
<1>1. /\ degraded' \in BOOLEAN
      /\ UNCHANGED <<edition, exports, cleared, keyed, downloads, refused>>
      BY DEF SetDegraded
<1>2. ExportTypeOK'
      BY <1>1 DEF IInv, ExportTypeOK
<1>3. JobsAreTrue' /\ KeysKeepUp' /\ BundlesAreTheJobs' /\ OneBundle' /\ ReplaysFindTheirJob'
      BY <1>1 DEF IInv, JobsAreTrue, KeysKeepUp, BundlesAreTheJobs, OneBundle, ReplaysFindTheirJob
<1> QED BY <1>2, <1>3 DEF IInv

\* A reset forgets the keys with the jobs.
LEMMA ResetKeeps == IInv /\ ResetExports => IInv'
<1> SUFFICES ASSUME IInv, ResetExports PROVE IInv'
    OBVIOUS
<1>1. /\ cleared' = Len(exports) /\ edition' = 1 /\ DOMAIN keyed' = {}
      /\ UNCHANGED <<exports, downloads, degraded, refused>>
      BY DEF ResetExports
<1>2. DOMAIN exports = 1..Len(exports) /\ Len(exports) \in Nat
      BY DEF IInv, ExportTypeOK
<1>3. edition' \in 1..MaxEdition /\ cleared' \in 0..Len(exports)
      BY <1>1, <1>2, ExportConstants
<1>4. ExportTypeOK'
      BY <1>1, <1>3 DEF IInv, ExportTypeOK
<1>5. JobsAreTrue'
      BY <1>1, <1>2 DEF IInv, JobsAreTrue
<1>6. KeysKeepUp'
      BY <1>1 DEF KeysKeepUp
<1>7. BundlesAreTheJobs' /\ OneBundle' /\ ReplaysFindTheirJob'
      BY <1>1 DEF IInv, BundlesAreTheJobs, OneBundle, ReplaysFindTheirJob
<1> QED BY <1>4, <1>5, <1>6, <1>7 DEF IInv

\* A job is asked for of the case as it is, and its key names it.
LEMMA CreateKeeps == ASSUME NEW k PROVE IInv /\ CreateExport(k) => IInv'
<1> SUFFICES ASSUME IInv, CreateExport(k) PROVE IInv'
    OBVIOUS
<1> USE ExportConstants DEF NoArchive
<1> DEFINE n == Len(exports) + 1
<1>1. /\ Len(exports) < MaxExports /\ exports' = Append(exports, New)
      /\ keyed' = IF k \notin ExportKeys THEN keyed
                  ELSE [l \in DOMAIN keyed \cup {k} |->
                          IF l = k THEN [job |-> n, age |-> 0] ELSE keyed[l]]
      /\ UNCHANGED <<edition, cleared, downloads, degraded, refused>>
      BY DEF CreateExport
<1>2. /\ exports \in Seq(Export) /\ DOMAIN exports = 1..Len(exports) /\ Len(exports) \in Nat
      /\ edition \in 1..MaxEdition /\ cleared \in 0..Len(exports)
      BY DEF IInv, ExportTypeOK
<1>3. New \in Export /\ JobIsTrue(New) /\ New.asked = edition /\ New.age = 0
  <2>1. New \in Export
    <3>1. 0 \in 0..OldAge /\ 0 \in 0..Lifetime + 1 /\ 0 \in 0..MaxEdition
          BY DEF OldAge
    <3>2. "queued" \in {"queued", "running", "ready"}
          OBVIOUS
    <3> QED BY <1>2, <3>1, <3>2 DEF New, Export
  <2> QED BY <2>1 DEF New, JobIsTrue
<1>4. /\ exports' \in Seq(Export) /\ Len(exports') = n /\ DOMAIN exports' = 1..n
      /\ \A i \in DOMAIN exports : exports'[i] = exports[i]
      /\ exports'[n] = New
      BY <1>1, <1>2, <1>3
<1>5. \A i \in DOMAIN exports' : i = n \/ i \in DOMAIN exports
      BY <1>2, <1>4
<1>6. DOMAIN exports \subseteq DOMAIN exports' /\ n \in DOMAIN exports' /\ n > cleared
      BY <1>2, <1>4
<1>7. JobsAreTrue'
  <2>1. \A i \in DOMAIN exports' : JobIsTrue(exports'[i])
        BY <1>3, <1>4, <1>5 DEF IInv, JobsAreTrue
  <2>2. ASSUME NEW i \in DOMAIN exports', i > cleared PROVE exports'[i].asked <= edition
        BY <1>2, <1>3, <1>4, <1>5, <2>2 DEF IInv, JobsAreTrue
  <2> QED BY <1>1, <2>1, <2>2 DEF JobsAreTrue
<1>8. \A l \in DOMAIN keyed' :
        \/ l \in DOMAIN keyed /\ keyed'[l] = keyed[l]
        \/ l \in ExportKeys /\ keyed'[l] = [job |-> n, age |-> 0]
      BY <1>1
<1>9. ASSUME NEW l \in DOMAIN keyed'
      PROVE  /\ l \in ExportKeys /\ keyed'[l] \in [job: DOMAIN exports', age: 0..KeyLifetime]
             /\ keyed'[l].job > cleared
             /\ keyed'[l].age < KeyLifetime => exports'[keyed'[l].job].age = keyed'[l].age
  <2>1. CASE l \in DOMAIN keyed /\ keyed'[l] = keyed[l]
    <3>1. l \in ExportKeys /\ keyed[l] \in [job: DOMAIN exports, age: 0..KeyLifetime]
          BY <2>1 DEF IInv, ExportTypeOK
    <3>2. keyed[l].job > cleared /\ (keyed[l].age < KeyLifetime => exports[keyed[l].job].age = keyed[l].age)
          BY <2>1 DEF IInv, KeysKeepUp
    <3> QED BY <1>4, <1>6, <2>1, <3>1, <3>2
  <2>2. CASE l \in ExportKeys /\ keyed'[l] = [job |-> n, age |-> 0]
    <3>1. 0 \in 0..KeyLifetime
          OBVIOUS
    <3> QED BY <1>3, <1>4, <1>6, <2>2, <3>1
  <2> QED BY <1>8, <2>1, <2>2
<1>10. KeysKeepUp'
      BY <1>1, <1>9 DEF KeysKeepUp
<1>11. ExportTypeOK'
  <2>1. Len(exports') <= MaxExports /\ cleared' \in 0..Len(exports')
        BY <1>1, <1>2, <1>4
  <2>2. DOMAIN keyed' \subseteq ExportKeys
        BY <1>9
  <2> QED BY <1>1, <1>4, <1>9, <2>1, <2>2 DEF IInv, ExportTypeOK
<1>12. SameJobs
      BY <1>4, <1>6 DEF SameJobs
<1>13. BundlesAreTheJobs' /\ OneBundle'
      BY <1>1, <1>12, ReadersKeep DEF ReadersGoOn
<1> QED BY <1>1, <1>7, <1>10, <1>11, <1>13 DEF IInv, ReplaysFindTheirJob

\* A key and its job grow old together, until the key is forgotten.
LEMMA AgesKeep == IInv /\ TickExports => IInv'
<1> SUFFICES ASSUME IInv, TickExports PROVE IInv'
    OBVIOUS
<1> USE ExportConstants
<1> DEFINE Aged(x) == [x EXCEPT !.age = Older(x.age, OldAge),
                                !.since = IF x.state = "ready" THEN Older(x.since, Lifetime + 1) ELSE x.since]
<1>1. /\ exports' = [i \in DOMAIN exports |-> Aged(exports[i])]
      /\ keyed' = [k \in DOMAIN keyed |-> [keyed[k] EXCEPT !.age = Older(keyed[k].age, KeyLifetime)]]
      /\ UNCHANGED <<edition, cleared, downloads, degraded, refused>>
      BY DEF TickExports
<1>2. /\ exports \in Seq(Export) /\ DOMAIN exports = 1..Len(exports) /\ Len(exports) \in Nat
      BY DEF IInv, ExportTypeOK
<1>3. Duration \in Nat /\ Lifetime \in Nat /\ KeyLifetime \in Nat /\ OldAge = Duration + Lifetime + 1
      BY DEF OldAge
<1>4. ASSUME NEW x \in Export, JobIsTrue(x)
      PROVE  /\ Aged(x) \in Export /\ JobIsTrue(Aged(x)) /\ Aged(x).age = Older(x.age, OldAge)
             /\ Aged(x).asked = x.asked /\ Aged(x).state = x.state /\ Aged(x).archive = x.archive
  <2>1. x.age \in 0..OldAge /\ x.since \in 0..Lifetime + 1
        BY DEF Export
  <2>2. Older(x.age, OldAge) \in 0..OldAge /\ Older(x.since, Lifetime + 1) \in 0..Lifetime + 1
        BY <1>3, <2>1 DEF Older
  <2>3. Aged(x) \in Export
        BY <2>1, <2>2 DEF Export
  <2>4. /\ Aged(x).age = Older(x.age, OldAge)
        /\ Aged(x).since = IF x.state = "ready" THEN Older(x.since, Lifetime + 1) ELSE x.since
        /\ Aged(x).asked = x.asked /\ Aged(x).state = x.state /\ Aged(x).archive = x.archive
        BY DEF Export
  <2>5. x.state = "ready" => Older(x.since, Lifetime + 1) + Duration <= Older(x.age, OldAge)
        BY <1>3, <1>4, <2>1 DEF JobIsTrue, Older
  <2> HIDE DEF Aged
  <2>6. JobIsTrue(Aged(x))
        BY <1>4, <2>4, <2>5 DEF JobIsTrue
  <2> QED BY <2>3, <2>4, <2>6
<1>5. ASSUME NEW i \in DOMAIN exports
      PROVE  exports[i] \in Export /\ JobIsTrue(exports[i]) /\ exports'[i] = Aged(exports[i])
  <2> HIDE DEF Aged
  <2>1. exports'[i] = Aged(exports[i])
        BY <1>1, Zenon
  <2> QED BY <1>2, <2>1 DEF IInv, JobsAreTrue
<1> HIDE DEF Aged
<1>6. /\ exports' \in Seq(Export) /\ Len(exports') = Len(exports) /\ DOMAIN exports' = DOMAIN exports
  <2>1. exports' \in [1..Len(exports) -> Export]
        BY <1>1, <1>2, <1>4, <1>5
  <2> QED BY <1>2, <2>1
<1>7. JobsAreTrue'
  <2>1. \A i \in DOMAIN exports' : JobIsTrue(exports'[i])
        BY <1>4, <1>5, <1>6
  <2>2. \A i \in DOMAIN exports' : i > cleared => exports'[i].asked <= edition
        BY <1>4, <1>5, <1>6 DEF IInv, JobsAreTrue
  <2> QED BY <1>1, <2>1, <2>2 DEF JobsAreTrue
<1>8. ASSUME NEW k \in DOMAIN keyed'
      PROVE  /\ k \in ExportKeys /\ keyed'[k] \in [job: DOMAIN exports', age: 0..KeyLifetime]
             /\ keyed'[k].job > cleared
             /\ keyed'[k].age < KeyLifetime => exports'[keyed'[k].job].age = keyed'[k].age
  <2>1. k \in DOMAIN keyed /\ k \in ExportKeys /\ keyed[k] \in [job: DOMAIN exports, age: 0..KeyLifetime]
        BY <1>1 DEF IInv, ExportTypeOK
  <2>2. keyed[k].job > cleared /\ (keyed[k].age < KeyLifetime => exports[keyed[k].job].age = keyed[k].age)
        BY <2>1 DEF IInv, KeysKeepUp
  <2>3. keyed[k].age \in 0..KeyLifetime /\ Older(keyed[k].age, KeyLifetime) \in 0..KeyLifetime
        BY <1>3, <2>1 DEF Older
  <2>4. /\ keyed'[k] \in [job: DOMAIN exports, age: 0..KeyLifetime]
        /\ keyed'[k].job = keyed[k].job /\ keyed'[k].age = Older(keyed[k].age, KeyLifetime)
        BY <1>1, <2>1, <2>3
  <2>5. exports'[keyed[k].job].age = Older(exports[keyed[k].job].age, OldAge)
        BY <1>4, <1>5, <2>1
  <2>6. Older(keyed[k].age, KeyLifetime) < KeyLifetime =>
          /\ keyed[k].age < KeyLifetime
          /\ Older(keyed[k].age, OldAge) = Older(keyed[k].age, KeyLifetime)
        BY <1>3, <2>3 DEF Older
  <2> QED BY <1>6, <2>1, <2>2, <2>4, <2>5, <2>6
<1>9. KeysKeepUp'
      BY <1>1, <1>8 DEF KeysKeepUp
<1>10. ExportTypeOK'
  <2>1. DOMAIN keyed' \subseteq ExportKeys
        BY <1>8
  <2> QED BY <1>1, <1>6, <1>8, <2>1 DEF IInv, ExportTypeOK
<1>11. SameJobs
      BY <1>4, <1>5, <1>6 DEF SameJobs
<1>12. BundlesAreTheJobs' /\ OneBundle'
      BY <1>1, <1>11, ReadersKeep DEF ReadersGoOn
<1> QED BY <1>1, <1>7, <1>9, <1>10, <1>12 DEF IInv, ReplaysFindTheirJob

LEMMA StepKeeps == IInv /\ [ExportNext]_exportVars => IInv'
<1> SUFFICES ASSUME IInv, [ExportNext]_exportVars PROVE IInv'
    OBVIOUS
<1>1. CASE UNCHANGED exportVars
      BY <1>1 DEF exportVars, IInv, ExportTypeOK, JobsAreTrue, KeysKeepUp, BundlesAreTheJobs,
                  OneBundle, ReplaysFindTheirJob
<1>2. CASE ExportNext
      BY <1>2, PollKeeps, EditKeeps, AgesKeep, ResetKeeps, CreateKeeps, ReplayKeeps, StreamKeeps,
         DownloadKeeps, DegradeKeeps DEF ExportNext
<1> QED BY <1>1, <1>2

-----------------------------------------------------------------------------
\* A bundle is the case as it was at one moment after it was asked for, the
\* same for everyone who downloads it, whatever expires, is edited or is reset
\* between; and a job that was ready is gone only when its key is forgotten.
THEOREM ExportsAreSafe == ExportSpec => []ExportSafety
<1>1. IInv => ExportSafety
      BY DEF IInv, ExportSafety
<1> QED BY <1>1, InitInv, StepKeeps, PTL DEF ExportSpec

-----------------------------------------------------------------------------
(* Imports: the jobs and the sensors they become.                          *)

\* The captures that became sensors are those of the first jobs, in order.
SensorsAreFirstJobs ==
  /\ Len(sensors) <= Len(jobs)
  /\ \A j \in DOMAIN jobs : jobs[j].state = "ready" <=> j <= Len(sensors)
  /\ \A j \in DOMAIN sensors : j \in DOMAIN jobs /\ sensors[j] = jobs[j].capture

NumberedAsMade == \A j \in DOMAIN jobs : jobs[j].sensor = j

AnswersName ==
  \A u \in DOMAIN uploads : uploads[u].reply \in {"accepted", "replayed", "duplicate"} =>
    uploads[u].job \in DOMAIN jobs /\ uploads[u].sensor = uploads[u].job

\* The inductive invariant.
PInv ==
  /\ ImportTypeOK
  /\ OneImportPerCapture
  /\ SensorsAreFirstJobs
  /\ NumberedAsMade
  /\ AnswersName

LEMMA LeastExists ==
  ASSUME NEW T \in SUBSET Nat, T # {}
  PROVE  \E m \in T : \A k \in T : m <= k
<1>1. PICK m \in T : \A k \in T : ~ (<<k, m>> \in OpToRel(<, Nat))
  BY WFMin, NatLessThanWellFounded, Zenon
<1>2. \A k \in T : ~ (k < m)
  BY <1>1, Zenon DEF OpToRel
<1>3. \A k \in T : m <= k
  BY <1>2
<1> QED BY <1>3

\* A finite stretch of jobs, counted up to one of them.
LEMMA Stretch ==
  ASSUME NEW a \in Nat, NEW b \in Nat, NEW j \in Nat, a <= j, j <= b
  PROVE  Cardinality({i \in a + 1..b : i <= j}) = j - a
<1>1. {i \in a + 1..b : i <= j} = a + 1..j
  OBVIOUS
<1>2. Cardinality(a + 1..j) = IF a + 1 > j THEN 0 ELSE j - (a + 1) + 1
  BY FS_Interval
<1>3. (IF a + 1 > j THEN 0 ELSE j - (a + 1) + 1) = j - a
  OBVIOUS
<1> QED BY <1>1, <1>2, <1>3

\* The job that waits is the first that is not done.
LEMMA WaitsFirst ==
  ASSUME jobs \in Seq(Job)
  PROVE  /\ FirstWaiting \in 1..Len(jobs) + 1
         /\ \A i \in 1..FirstWaiting - 1 : Done(i)
         /\ FirstWaiting <= Len(jobs) => ~ Done(FirstWaiting)
<1>1. Len(jobs) \in Nat /\ DOMAIN jobs = 1..Len(jobs)
  OBVIOUS
<1>2. CASE \A j \in DOMAIN jobs : Done(j)
  <2>1. FirstWaiting = Len(jobs) + 1
    BY <1>2 DEF FirstWaiting
  <2> QED BY <1>1, <1>2, <2>1
<1>3. CASE ~ (\A j \in DOMAIN jobs : Done(j))
  <2> DEFINE T == {j \in DOMAIN jobs : ~ Done(j)}
  <2>1. T \in SUBSET Nat /\ T # {}
    BY <1>1, <1>3
  <2>2. PICK m \in T : \A k \in T : m <= k
    BY <2>1, LeastExists
  <2>3. m \in DOMAIN jobs /\ ~ Done(m) /\ \A i \in 1..m - 1 : Done(i)
    BY <1>1, <2>2
  <2>4. FirstWaiting = CHOOSE j \in DOMAIN jobs : ~Done(j) /\ \A i \in 1..j - 1 : Done(i)
    BY <1>3 DEF FirstWaiting
  <2>5. FirstWaiting \in DOMAIN jobs /\ ~ Done(FirstWaiting) /\ \A i \in 1..FirstWaiting - 1 : Done(i)
    BY <2>3, <2>4
  <2> QED BY <1>1, <2>5
<1> QED BY <1>2, <1>3

\* The jobs that finish follow those that are ready, and become sensors in
\* the order in which they were made, under the numbers they were given.
LEMMA FinishInOrder ==
  ASSUME PInv
  PROVE  \E m \in Nat : /\ Len(sensors) <= m /\ m <= Len(jobs)
                        /\ Finished = Len(sensors) + 1..m
                        /\ FirstWaiting = m + 1
                        /\ \A j \in Finished : SensorOf(j) = j
                        /\ Cardinality(Finished) = m - Len(sensors)
                        /\ \A k \in 1..m - Len(sensors) : FinishedAs(k) = Len(sensors) + k
<1>1. jobs \in Seq(Job) /\ sensors \in Seq(Captures) /\ SensorsAreFirstJobs
  BY DEF PInv, ImportTypeOK
<1>2. PICK n, r : n = Len(jobs) /\ r = Len(sensors)
  OBVIOUS
<1>3. n \in Nat /\ r \in Nat /\ r <= n /\ DOMAIN jobs = 1..n
      /\ \A j \in 1..n : jobs[j].state = "ready" <=> j <= r
  BY <1>1, <1>2 DEF SensorsAreFirstJobs
<1>4. PICK w : w = FirstWaiting
  OBVIOUS
<1>5. w \in 1..n + 1 /\ (w <= n => ~ Done(w))
  BY <1>1, <1>2, <1>4, WaitsFirst
<1>6. PICK m : m = w - 1
  OBVIOUS
<1>7. m \in Nat /\ m <= n /\ w = m + 1 /\ r <= m
  <2>1. m \in Nat /\ m <= n /\ w = m + 1
    BY <1>3, <1>5, <1>6
  <2>2. w <= n => ~ (w <= r)
    BY <1>3, <1>5 DEF Done
  <2> QED BY <1>3, <1>5, <2>1, <2>2
<1>8. Finished = r + 1..m
  BY <1>3, <1>4, <1>6, <1>7 DEF Finished
<1>9. \A j \in r..m : Cardinality({i \in Finished : i <= j}) = j - r
  BY <1>3, <1>7, <1>8, Stretch
<1>10. \A j \in Finished : SensorOf(j) = j
  <2> SUFFICES ASSUME NEW j \in Finished PROVE SensorOf(j) = j
    OBVIOUS
  <2>1. j \in r..m /\ r + (j - r) = j
    BY <1>3, <1>7, <1>8
  <2> QED BY <1>2, <1>9, <2>1 DEF SensorOf
<1>11. Cardinality(Finished) = m - r
  <2>1. Cardinality(r + 1..m) = IF r + 1 > m THEN 0 ELSE m - (r + 1) + 1
    BY <1>3, <1>7, FS_Interval
  <2> QED BY <1>3, <1>7, <1>8, <2>1
<1>12. \A k \in 1..m - r : FinishedAs(k) = r + k
  <2> SUFFICES ASSUME NEW k \in 1..m - r PROVE FinishedAs(k) = r + k
    OBVIOUS
  <2>1. r + k \in Finished /\ r + k \in r..m /\ (r + k) - r = k
    BY <1>3, <1>7, <1>8
  <2>2. Cardinality({i \in Finished : i <= r + k}) = k
    BY <1>9, <2>1
  <2>3. \A j \in Finished : Cardinality({i \in Finished : i <= j}) = k => j = r + k
    BY <1>3, <1>7, <1>8, <1>9
  <2> QED BY <2>1, <2>2, <2>3 DEF FinishedAs
<1> QED BY <1>2, <1>4, <1>7, <1>8, <1>10, <1>11, <1>12

\* What a poll does to the jobs and the sensors.
LEMMA TickedKeeps ==
  ASSUME PInv, jobs' = Ticked, sensors' = Registered
  PROVE  /\ jobs' \in Seq(Job) /\ Len(jobs') = Len(jobs) /\ sensors' \in Seq(Captures)
         /\ OneImportPerCapture' /\ SensorsAreFirstJobs' /\ NumberedAsMade'
<1>1. /\ jobs \in Seq(Job) /\ sensors \in Seq(Captures)
      /\ SensorsAreFirstJobs /\ NumberedAsMade /\ OneImportPerCapture
  BY DEF PInv, ImportTypeOK
<1>2. PICK n, r : n = Len(jobs) /\ r = Len(sensors)
  OBVIOUS
<1>3. n \in Nat /\ r \in Nat /\ DOMAIN jobs = 1..n /\ DOMAIN sensors = 1..r /\ \A j \in 1..n : jobs[j] \in Job
  BY <1>1, <1>2
<1>4. PICK m \in Nat : /\ r <= m /\ m <= n
                       /\ Finished = r + 1..m
                       /\ FirstWaiting = m + 1
                       /\ \A j \in Finished : SensorOf(j) = j
                       /\ Cardinality(Finished) = m - r
                       /\ \A k \in 1..m - r : FinishedAs(k) = r + k
  BY <1>2, FinishInOrder
<1>5. /\ jobs' = [j \in 1..n |-> IF j \in Finished THEN [jobs[j] EXCEPT !.state = "ready", !.sensor = SensorOf(j)]
                                ELSE IF j = m + 1 THEN [jobs[j] EXCEPT !.state = "indexing"] ELSE jobs[j]]
  BY <1>3, <1>4 DEF Ticked, Progressed
<1>6. ASSUME NEW j \in 1..n
      PROVE  /\ jobs'[j] \in Job /\ jobs'[j].capture = jobs[j].capture /\ jobs'[j].sensor = j
             /\ jobs'[j].state = "ready" <=> j <= m
  <2>1. jobs[j] \in Job /\ jobs[j].sensor = j /\ (jobs[j].state = "ready" <=> j <= r)
    BY <1>1, <1>2, <1>3 DEF NumberedAsMade, SensorsAreFirstJobs
  <2>2. CASE j \in Finished
    <3>1. jobs'[j] = [jobs[j] EXCEPT !.state = "ready", !.sensor = j]
      BY <1>4, <1>5, <2>2
    <3>2. j <= m
      BY <1>3, <1>4, <2>2
    <3> QED BY <2>1, <3>1, <3>2 DEF Job
  <2>3. CASE j \notin Finished /\ j = m + 1
    <3>1. jobs'[j] = [jobs[j] EXCEPT !.state = "indexing"]
      BY <1>5, <2>3
    <3>2. ~ (j <= m)
      BY <1>4, <2>3
    <3> QED BY <2>1, <3>1, <3>2 DEF Job
  <2>4. CASE j \notin Finished /\ j # m + 1
    <3>1. jobs'[j] = jobs[j]
      BY <1>5, <2>4
    <3>2. j <= r <=> j <= m
      BY <1>3, <1>4, <2>4
    <3> QED BY <2>1, <3>1, <3>2
  <2> QED BY <2>2, <2>3, <2>4
<1>7. jobs' \in Seq(Job) /\ Len(jobs') = n /\ DOMAIN jobs' = 1..n
  <2>1. DOMAIN jobs' = 1..n /\ \E f : jobs' = [j \in 1..n |-> f[j]]
    BY <1>5
  <2>2. jobs' \in [1..n -> Job]
    BY <1>6, <2>1
  <2> QED BY <1>3, <2>2
<1>8. PICK new : new = [k \in 1..m - r |-> jobs[FinishedAs(k)].capture]
  OBVIOUS
<1>9. new \in Seq(Captures) /\ Len(new) = m - r /\ \A k \in 1..m - r : new[k] = jobs[r + k].capture
  <2>1. \A k \in 1..m - r : jobs[r + k] \in Job /\ FinishedAs(k) = r + k
    BY <1>3, <1>4
  <2>2. \A k \in 1..m - r : new[k] = jobs[r + k].capture /\ new[k] \in Captures
    BY <1>8, <2>1 DEF Job
  <2>3. m - r \in Nat /\ DOMAIN new = 1..m - r
    BY <1>3, <1>4, <1>8
  <2>4. new \in [1..m - r -> Captures]
    BY <1>8, <2>2
  <2> QED BY <2>2, <2>3, <2>4
<1>10. sensors' = sensors \o new
  BY <1>4, <1>8 DEF Registered
<1>11. sensors' \in Seq(Captures) /\ Len(sensors') = m /\ DOMAIN sensors' = 1..m
       /\ \A j \in 1..m : sensors'[j] = IF j <= r THEN sensors[j] ELSE new[j - r]
  BY <1>1, <1>2, <1>3, <1>4, <1>9, <1>10
<1>12. \A j \in 1..m : sensors'[j] = jobs[j].capture
  <2> SUFFICES ASSUME NEW j \in 1..m PROVE sensors'[j] = jobs[j].capture
    OBVIOUS
  <2>1. CASE j <= r
    <3>1. j \in 1..r /\ sensors'[j] = sensors[j]
      BY <1>11, <2>1
    <3> QED BY <1>1, <1>3, <3>1 DEF SensorsAreFirstJobs
  <2>2. CASE ~ (j <= r)
    <3>1. j - r \in 1..m - r /\ r + (j - r) = j
      BY <1>3, <1>4, <2>2
    <3>2. sensors'[j] = new[j - r]
      BY <1>11, <2>2
    <3> QED BY <1>9, <3>1, <3>2
  <2> QED BY <2>1, <2>2
<1>13. SensorsAreFirstJobs'
  <2>1. \A j \in 1..m : j \in 1..n
    BY <1>3, <1>4
  <2> QED BY <1>4, <1>6, <1>7, <1>11, <1>12, <2>1 DEF SensorsAreFirstJobs
<1>14. OneImportPerCapture'
  BY <1>1, <1>3, <1>6, <1>7 DEF OneImportPerCapture
<1>15. NumberedAsMade'
  BY <1>6, <1>7 DEF NumberedAsMade
<1> QED BY <1>2, <1>7, <1>11, <1>13, <1>14, <1>15

LEMMA PollImportsKeeps ==
  ASSUME PInv, PollImports
  PROVE  PInv'
<1>1. jobs' = Ticked /\ sensors' = Registered /\ UNCHANGED <<uploads, keys>>
  BY DEF PollImports
<1>2. /\ jobs' \in Seq(Job) /\ Len(jobs') = Len(jobs) /\ sensors' \in Seq(Captures)
      /\ OneImportPerCapture' /\ SensorsAreFirstJobs' /\ NumberedAsMade'
  BY <1>1, TickedKeeps
<1>3. DOMAIN jobs' = DOMAIN jobs
  BY <1>2 DEF PInv, ImportTypeOK
<1>4. ImportTypeOK' /\ AnswersName'
  BY <1>1, <1>2, <1>3 DEF PInv, ImportTypeOK, AnswersName
<1> QED BY <1>2, <1>4 DEF PInv

\* An upload is begun, read or answered, and nothing else happens.
LEMMA UploadWritten ==
  ASSUME PInv, NEW u \in Uploads, NEW upload \in Upload,
         upload.reply \in {"accepted", "replayed", "duplicate"} =>
           upload.job \in DOMAIN jobs /\ upload.sensor = upload.job,
         DOMAIN uploads' = DOMAIN uploads \cup {u},
         \A v \in DOMAIN uploads' : uploads'[v] = IF v = u THEN upload ELSE uploads[v],
         UNCHANGED <<jobs, sensors, keys>>
  PROVE  PInv'
<1>1. ImportTypeOK'
  BY DEF PInv, ImportTypeOK
<1>2. AnswersName'
  BY DEF PInv, AnswersName
<1> QED BY <1>1, <1>2 DEF PInv, OneImportPerCapture, SensorsAreFirstJobs, NumberedAsMade

LEMMA BeginKeeps ==
  ASSUME PInv, NEW u \in Uploads, NEW offer \in UploadOffers, Begin(u, offer)
  PROVE  PInv'
<1>1. PICK upload : upload = Begun(offer)
  OBVIOUS
<1>2. upload \in Upload /\ upload.reply \in {"too_large", "none"}
  BY <1>1, ImportConstants DEF Begun, Upload, Metas, Replies, NoImportKey
<1>3. /\ DOMAIN uploads' = DOMAIN uploads \cup {u}
      /\ \A v \in DOMAIN uploads' : uploads'[v] = IF v = u THEN upload ELSE uploads[v]
      /\ UNCHANGED <<jobs, sensors, keys>>
  BY <1>1 DEF Begin
<1> QED BY <1>2, <1>3, UploadWritten

LEMMA PartKeeps ==
  ASSUME PInv, NEW u \in DOMAIN uploads, Part(u)
  PROVE  PInv'
<1>1. u \in Uploads /\ uploads[u] \in Upload
  BY DEF PInv, ImportTypeOK
<1>2. PICK reply : reply = IF uploads[u].read + 1 > MaxUpload THEN "too_large"
                           ELSE IF uploads[u].capture \in NotCaptures THEN "not_a_capture" ELSE "none"
  OBVIOUS
<1>3. PICK upload : upload = [uploads[u] EXCEPT !.read = @ + 1, !.reply = reply]
  OBVIOUS
<1>4. reply \in Replies /\ reply \notin {"accepted", "replayed", "duplicate"}
  BY <1>2 DEF Replies
<1>5. upload \in Upload /\ upload.reply = reply
  <2>1. PICK bytes : bytes = uploads[u].read + 1
    OBVIOUS
  <2>2. bytes \in Nat
    BY <1>1, <2>1 DEF Upload
  <2>3. upload = [uploads[u] EXCEPT !.read = bytes, !.reply = reply]
    BY <1>3, <2>1
  <2> QED BY <1>1, <1>4, <2>2, <2>3 DEF Upload
<1>6. uploads' = [uploads EXCEPT ![u] = upload] /\ UNCHANGED <<jobs, sensors, keys>>
  BY <1>2, <1>3 DEF Part
<1>7. DOMAIN uploads' = DOMAIN uploads \cup {u}
      /\ \A v \in DOMAIN uploads' : uploads'[v] = IF v = u THEN upload ELSE uploads[v]
  BY <1>6
<1> QED BY <1>1, <1>4, <1>5, <1>6, <1>7, UploadWritten

\* What an answer leaves of the upload.
LEMMA AnswerWritten ==
  ASSUME ImportTypeOK, NEW u \in DOMAIN uploads, NEW reply \in Replies, NEW job \in Nat, NEW sensor \in Nat,
         Answered(u, reply, job, sensor)
  PROVE  /\ u \in Uploads /\ DOMAIN uploads' = DOMAIN uploads
         /\ \A v \in DOMAIN uploads' : v # u => uploads'[v] = uploads[v]
         /\ uploads'[u] \in Upload /\ uploads'[u].reply = reply
         /\ uploads'[u].job = job /\ uploads'[u].sensor = sensor
<1>1. u \in Uploads /\ uploads[u] \in Upload
  BY DEF ImportTypeOK
<1>2. PICK upload : upload = [uploads[u] EXCEPT !.reply = reply, !.job = job, !.sensor = sensor]
  OBVIOUS
<1>3. upload \in Upload /\ upload.reply = reply /\ upload.job = job /\ upload.sensor = sensor
  BY <1>1, <1>2 DEF Upload
<1>4. uploads' = [uploads EXCEPT ![u] = upload]
  BY <1>2 DEF Answered
<1> QED BY <1>1, <1>3, <1>4

\* Whoever looks for a capture finds the job that imports it, if there is one.
LEMMA SameFinds ==
  ASSUME PInv, NEW c
  PROVE  /\ Same(c) # 0 => Same(c) \in DOMAIN jobs /\ jobs[Same(c)].capture = c
         /\ Same(c) = 0 => \A j \in DOMAIN jobs : jobs[j].capture # c
<1> DEFINE T == {j \in 1..Len(jobs) : jobs[j].capture = c}
<1>1. Len(jobs) \in Nat /\ DOMAIN jobs = 1..Len(jobs)
  BY DEF PInv, ImportTypeOK
<1>2. Same(c) = IF T # {} THEN CHOOSE x \in T : \A y \in T : x <= y ELSE 0
  BY DEF Same, SelectInSeq, Min
<1>3. CASE T = {}
  BY <1>1, <1>2, <1>3
<1>4. CASE T # {}
  <2>1. T \in SUBSET Nat
    BY <1>1
  <2>2. \E x \in T : \A y \in T : x <= y
    BY <1>4, <2>1, LeastExists
  <2>3. Same(c) \in T
    BY <1>2, <1>4, <2>2
  <2> QED BY <1>1, <2>3
<1> QED BY <1>3, <1>4

LEMMA FinishKeeps ==
  ASSUME PInv, NEW u \in DOMAIN uploads, Finish(u)
  PROVE  PInv'
<1>1. ImportTypeOK /\ jobs \in Seq(Job) /\ sensors \in Seq(Captures) /\ uploads[u] \in Upload
  BY DEF PInv, ImportTypeOK
<1>2. PICK c, k : c = uploads[u].capture /\ k = uploads[u].key
  OBVIOUS
<1>3. c \in Captures /\ k \in ImportKeys \cup {NoImportKey}
  BY <1>1, <1>2 DEF Upload
<1>4. ASSUME NEW reply \in Replies, reply \notin {"accepted", "replayed", "duplicate"},
             Answered(u, reply, 0, 0), UNCHANGED <<jobs, sensors, keys>>
      PROVE  PInv'
  <2>1. /\ u \in Uploads /\ DOMAIN uploads' = DOMAIN uploads
        /\ \A v \in DOMAIN uploads' : v # u => uploads'[v] = uploads[v]
        /\ uploads'[u] \in Upload /\ uploads'[u].reply = reply
    BY <1>1, <1>4, AnswerWritten
  <2> QED BY <1>4, <2>1, UploadWritten
<1>5. CASE uploads[u].meta # "ok"
  <2>1. PICK reply : reply = IF uploads[u].meta = "wrong digest" THEN "checksum_mismatch" ELSE uploads[u].meta
    OBVIOUS
  <2>2. reply \in Replies /\ reply \notin {"accepted", "replayed", "duplicate"}
    BY <1>1, <1>5, <2>1 DEF Upload, Metas, Replies
  <2>3. Answered(u, reply, 0, 0) /\ UNCHANGED <<jobs, sensors, keys>>
    BY <1>5, <2>1 DEF Finish
  <2> QED BY <1>4, <2>2, <2>3
<1>6. CASE uploads[u].meta = "ok" /\ k \in DOMAIN keys /\ keys[k].capture # c
  <2>1. Answered(u, "idempotency_key_mismatch", 0, 0) /\ UNCHANGED <<jobs, sensors, keys>>
    BY <1>2, <1>6 DEF Finish
  <2>2. "idempotency_key_mismatch" \in Replies \ {"accepted", "replayed", "duplicate"}
    BY DEF Replies
  <2> QED BY <1>4, <2>1, <2>2
<1>7. CASE uploads[u].meta = "ok" /\ k \in DOMAIN keys /\ keys[k].capture = c
  <2>1. PICK j : j = keys[k].job
    OBVIOUS
  <2>2. /\ jobs' = Ticked /\ sensors' = Registered /\ UNCHANGED keys
        /\ Answered(u, "replayed", j, Ticked[j].sensor)
    BY <1>2, <1>7, <2>1 DEF Finish
  <2>3. j \in DOMAIN jobs
    BY <1>1, <1>7, <2>1 DEF ImportTypeOK
  <2>4. /\ jobs' \in Seq(Job) /\ Len(jobs') = Len(jobs) /\ sensors' \in Seq(Captures)
        /\ OneImportPerCapture' /\ SensorsAreFirstJobs' /\ NumberedAsMade'
    BY <2>2, TickedKeeps
  <2>5. DOMAIN jobs' = DOMAIN jobs
    BY <1>1, <2>4
  <2>6. Answered(u, "replayed", j, j)
    BY <2>2, <2>3, <2>4, <2>5 DEF NumberedAsMade
  <2>7. j \in Nat /\ "replayed" \in Replies
    BY <1>1, <2>3 DEF Replies
  <2>8. /\ u \in Uploads /\ DOMAIN uploads' = DOMAIN uploads
        /\ \A v \in DOMAIN uploads' : v # u => uploads'[v] = uploads[v]
        /\ uploads'[u] \in Upload /\ uploads'[u].job = j /\ uploads'[u].sensor = j
    BY <1>1, <2>6, <2>7, AnswerWritten
  <2>9. ImportTypeOK'
    BY <1>1, <2>2, <2>4, <2>5, <2>8 DEF ImportTypeOK
  <2>10. AnswersName'
    BY <2>3, <2>5, <2>8 DEF PInv, AnswersName
  <2> QED BY <2>4, <2>9, <2>10 DEF PInv
<1>8. CASE uploads[u].meta = "ok" /\ k \notin DOMAIN keys /\ Same(c) # 0
  <2>1. PICK j : j = Same(c)
    OBVIOUS
  <2>2. Answered(u, "duplicate", j, jobs[j].sensor) /\ UNCHANGED <<jobs, sensors, keys>>
    BY <1>2, <1>8, <2>1 DEF Finish
  <2>3. j \in DOMAIN jobs /\ jobs[j].sensor = j
    BY <1>8, <2>1, SameFinds DEF PInv, NumberedAsMade
  <2>4. j \in Nat /\ "duplicate" \in Replies
    BY <1>1, <2>3 DEF Replies
  <2>5. Answered(u, "duplicate", j, j)
    BY <2>2, <2>3
  <2>6. /\ u \in Uploads /\ DOMAIN uploads' = DOMAIN uploads
        /\ \A v \in DOMAIN uploads' : v # u => uploads'[v] = uploads[v]
        /\ uploads'[u] \in Upload /\ uploads'[u].job = j /\ uploads'[u].sensor = j
    BY <1>1, <2>4, <2>5, AnswerWritten
  <2> QED BY <2>2, <2>3, <2>6, UploadWritten
<1>9. CASE uploads[u].meta = "ok" /\ k \notin DOMAIN keys /\ Same(c) = 0
  <2>1. Accepted(u)
    BY <1>2, <1>9 DEF Finish
  <2>2. PICK n : n = Len(jobs) + 1
    OBVIOUS
  <2>3. PICK new : new = [capture |-> c, sensor |-> n, state |-> "received", age |-> 0]
    OBVIOUS
  <2>4. /\ jobs' = Append(jobs, new) /\ UNCHANGED sensors
        /\ Answered(u, "accepted", n, n)
        /\ keys' = IF k = NoImportKey THEN keys
                   ELSE [x \in DOMAIN keys \cup {k} |-> IF x = k THEN [capture |-> c, job |-> n] ELSE keys[x]]
    BY <1>2, <2>1, <2>2, <2>3 DEF Accepted
  <2>5. n \in Nat \ {0} /\ new \in Job
    <3>1. 0 \in 0..MaxAge
      <4>1. MaxAge \in Nat
        BY ImportConstants
      <4> QED BY <4>1
    <3>2. n \in Nat \ {0}
      BY <1>1, <2>2
    <3> QED BY <1>3, <2>3, <3>1, <3>2 DEF Job
  <2>6. /\ jobs' \in Seq(Job) /\ DOMAIN jobs' = DOMAIN jobs \cup {n} /\ n \notin DOMAIN jobs
        /\ jobs'[n] = new /\ \A j \in DOMAIN jobs : jobs'[j] = jobs[j]
        /\ Len(jobs') = Len(jobs) + 1
    BY <1>1, <2>2, <2>4, <2>5
  <2>7. OneImportPerCapture'
    BY <1>9, <2>3, <2>6, SameFinds DEF PInv, OneImportPerCapture
  <2>8. NumberedAsMade'
    BY <2>3, <2>6 DEF PInv, NumberedAsMade
  <2>9. SensorsAreFirstJobs'
    <3>1. Len(sensors) \in Nat /\ Len(sensors) <= Len(jobs) /\ ~ (n <= Len(sensors)) /\ Len(sensors) <= Len(jobs')
      BY <1>1, <2>2, <2>6 DEF PInv, SensorsAreFirstJobs
    <3> QED BY <2>3, <2>4, <2>6, <3>1 DEF PInv, SensorsAreFirstJobs
  <2>10. /\ u \in Uploads /\ DOMAIN uploads' = DOMAIN uploads
         /\ \A v \in DOMAIN uploads' : v # u => uploads'[v] = uploads[v]
         /\ uploads'[u] \in Upload /\ uploads'[u].job = n /\ uploads'[u].sensor = n
    <3>1. "accepted" \in Replies
      BY DEF Replies
    <3> QED BY <1>1, <2>4, <2>5, <3>1, AnswerWritten
  <2>11. AnswersName'
    BY <2>6, <2>10 DEF PInv, AnswersName
  <2>12. DOMAIN keys' \subseteq ImportKeys /\ \A x \in DOMAIN keys' : keys'[x] \in [capture: Captures, job: DOMAIN jobs']
    <3>1. \A x \in DOMAIN keys : keys[x] \in [capture: Captures, job: DOMAIN jobs']
      BY <1>1, <2>6 DEF ImportTypeOK
    <3>2. [capture |-> c, job |-> n] \in [capture: Captures, job: DOMAIN jobs']
      BY <1>3, <2>6
    <3>3. CASE k = NoImportKey
      BY <1>1, <2>4, <3>1, <3>3 DEF ImportTypeOK
    <3>4. CASE k # NoImportKey
      BY <1>1, <1>3, <2>4, <3>1, <3>2, <3>4 DEF ImportTypeOK
    <3> QED BY <3>3, <3>4
  <2>13. ImportTypeOK'
    BY <1>1, <2>4, <2>6, <2>10, <2>12 DEF ImportTypeOK
  <2> QED BY <2>7, <2>8, <2>9, <2>11, <2>13 DEF PInv
<1> QED BY <1>5, <1>6, <1>7, <1>8, <1>9

LEMMA AgeKeeps ==
  ASSUME PInv, AgeJobs
  PROVE  PInv'
<1>1. jobs \in Seq(Job) /\ UNCHANGED <<uploads, sensors, keys>>
  BY DEF PInv, ImportTypeOK, AgeJobs
<1>2. jobs' = [j \in DOMAIN jobs |-> [jobs[j] EXCEPT !.age = IF @ < MaxAge THEN @ + 1 ELSE @]]
  BY DEF AgeJobs
<1>3. \A j \in DOMAIN jobs : /\ jobs'[j] \in Job /\ jobs'[j].capture = jobs[j].capture
                             /\ jobs'[j].sensor = jobs[j].sensor /\ jobs'[j].state = jobs[j].state
  <2> SUFFICES ASSUME NEW j \in DOMAIN jobs
               PROVE  /\ jobs'[j] \in Job /\ jobs'[j].capture = jobs[j].capture
                      /\ jobs'[j].sensor = jobs[j].sensor /\ jobs'[j].state = jobs[j].state
    OBVIOUS
  <2>1. jobs[j] \in Job /\ jobs[j].age \in 0..MaxAge /\ MaxAge \in Nat
    <3>1. MaxAge \in Nat
      BY ImportConstants
    <3>2. jobs[j] \in Job
      BY <1>1
    <3> QED BY <3>1, <3>2 DEF Job
  <2>2. PICK age : age = IF jobs[j].age < MaxAge THEN jobs[j].age + 1 ELSE jobs[j].age
    OBVIOUS
  <2>3. age \in 0..MaxAge /\ jobs'[j] = [jobs[j] EXCEPT !.age = age]
    BY <1>2, <2>1, <2>2
  <2> QED BY <2>1, <2>3 DEF Job
<1>4. jobs' \in Seq(Job) /\ DOMAIN jobs' = DOMAIN jobs /\ Len(jobs') = Len(jobs)
  <2>1. DOMAIN jobs = 1..Len(jobs) /\ Len(jobs) \in Nat /\ DOMAIN jobs' = DOMAIN jobs
    BY <1>1, <1>2
  <2>2. jobs' \in [1..Len(jobs) -> Job]
    BY <1>2, <1>3, <2>1
  <2> QED BY <2>1, <2>2
<1>5. ImportTypeOK' /\ AnswersName'
  BY <1>1, <1>4 DEF PInv, ImportTypeOK, AnswersName
<1> QED BY <1>1, <1>3, <1>4, <1>5 DEF PInv, OneImportPerCapture, SensorsAreFirstJobs, NumberedAsMade

LEMMA ResetImportsKeeps ==
  ASSUME PInv, ResetImports
  PROVE  PInv'
<1>1. jobs' = <<>> /\ sensors' = <<>> /\ DOMAIN keys' = {}
  BY DEF ResetImports
<1>2. /\ DOMAIN uploads' \subseteq DOMAIN uploads
      /\ \A u \in DOMAIN uploads' : uploads'[u] = uploads[u] /\ uploads'[u].reply = "none"
  BY DEF ResetImports
<1>3. jobs' \in Seq(Job) /\ sensors' \in Seq(Captures) /\ DOMAIN jobs' = {} /\ DOMAIN sensors' = {}
      /\ Len(sensors') <= Len(jobs')
  BY <1>1
<1> QED BY <1>1, <1>2, <1>3 DEF PInv, ImportTypeOK, OneImportPerCapture, SensorsAreFirstJobs, NumberedAsMade, AnswersName

LEMMA ImportsBegin == ImportInit => PInv
<1> SUFFICES ASSUME ImportInit PROVE PInv
  OBVIOUS
<1>1. jobs = <<>> /\ sensors = <<>> /\ DOMAIN keys = {} /\ DOMAIN uploads = {}
  BY DEF ImportInit
<1>2. jobs \in Seq(Job) /\ sensors \in Seq(Captures) /\ DOMAIN jobs = {} /\ DOMAIN sensors = {}
      /\ Len(sensors) <= Len(jobs)
  BY <1>1
<1> QED BY <1>1, <1>2 DEF PInv, ImportTypeOK, OneImportPerCapture, SensorsAreFirstJobs, NumberedAsMade, AnswersName

LEMMA ImportsGoOn == PInv /\ [ImportNext]_importVars => PInv'
<1> SUFFICES ASSUME PInv, [ImportNext]_importVars PROVE PInv'
  OBVIOUS
<1>1. CASE UNCHANGED importVars
  BY <1>1 DEF importVars, PInv, ImportTypeOK, OneImportPerCapture, SensorsAreFirstJobs, NumberedAsMade, AnswersName
<1> QED BY <1>1, BeginKeeps, PartKeeps, FinishKeeps, PollImportsKeeps, AgeKeeps, ResetImportsKeeps DEF ImportNext

(* ImportSafety, for any number of uploads, captures and keys and every     *)
(* time an import takes: however uploads of the same bytes overlap, they   *)
(* make one import (api/imports.py:67-128), and the sensor that the first  *)
(* answer names (imports.py:314-343) is the one that register_import       *)
(* numbers when the job is done (world.py:268-302).                        *)
THEOREM ImportsAreSafe == ImportSpec => []ImportSafety
<1>1. PInv => ImportSafety
  <2> SUFFICES ASSUME PInv PROVE ImportSafety
    OBVIOUS
  <2>1. SensorAsAnnounced
    <3>1. \A u \in DOMAIN uploads : uploads[u].reply \in {"accepted", "replayed", "duplicate"} =>
            uploads[u].sensor = jobs[uploads[u].job].sensor
      BY DEF PInv, AnswersName, NumberedAsMade
    <3>2. DOMAIN sensors = 1..Len(sensors) /\ DOMAIN jobs = 1..Len(jobs)
      BY DEF PInv, ImportTypeOK
    <3>3. \A j \in DOMAIN jobs : jobs[j].state = "ready" => sensors[jobs[j].sensor] = jobs[j].capture
      BY <3>2 DEF PInv, SensorsAreFirstJobs, NumberedAsMade
    <3> QED BY <3>1, <3>3 DEF SensorAsAnnounced
  <2> QED BY <2>1 DEF PInv, ImportSafety
<1> QED BY <1>1, ImportsBegin, ImportsGoOn, PTL DEF ImportSpec
=============================================================================
