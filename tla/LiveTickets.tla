----------------------------- MODULE LiveTickets -----------------------------
(***************************************************************************)
(* Tickets and sockets of the live tap (realtime/ws.py, api/live.py).  A   *)
(* ticket is minted over HTTP for a token family and spent by one          *)
(* handshake; the socket it opens lives until its client goes, the server  *)
(* restarts it or its family ends.  serve() lets go of the loop at         *)
(* websocket.accept(), after the ticket was spent and before the socket    *)
(* asks to be told of the family's end, so anything may happen in between. *)
(* Of the token store this module keeps which families are alive, and      *)
(* that POST /v1/__admin/reset takes their numbering back to the start.    *)
(***************************************************************************)
EXTENDS Integers, FiniteSets, Functions

CONSTANTS
  Families,
  Tickets,     \* random strings: one is never minted twice
  Handshakes,  \* attempts to open /v1/live
  TicketTTL,   \* TICKET_TTL_S, in ticks
  MaxResets    \* bound: resets of the token store

NoTicket == "no ticket"

ASSUME TicketConstants ==
  /\ TicketTTL \in Nat \ {0} /\ MaxResets \in Nat
  /\ NoTicket \notin Tickets

VARIABLES
  family,     \* TokenStore._families: "none" before sign-in, "gone" after a sweep
  era,        \* resets of the token store so far
  tickets,    \* LiveService._tickets
  minted,     \* every ticket there ever was, with its family
  shakes,     \* what became of each handshake, and the socket it opened
  hooked,     \* sockets whose _on_revoked the token store holds
  registered  \* LiveService._sockets

ticketVars == <<family, era, tickets, minted, shakes, hooked, registered>>

Phases == {"new", "refused", "accepting", "open", "stopping", "closed"}
Codes == {"none", "normal", "restart", "pong", "forbidden", "ticket"}

Ticket == [family: Families, age: 0..TicketTTL, used: BOOLEAN]
Shake == [phase: Phases, ticket: Tickets \cup {NoTicket}, code: Codes, left: BOOLEAN]

LiveTypeOK ==
  /\ family \in [Families -> {"none", "alive", "revoked", "gone"}]
  /\ era \in 0..MaxResets
  /\ DOMAIN minted \subseteq Tickets
  /\ minted \in [DOMAIN minted -> [family: Families, era: 0..MaxResets]]
  /\ DOMAIN tickets \subseteq DOMAIN minted
  /\ tickets \in [DOMAIN tickets -> Ticket]
  /\ shakes \in [Handshakes -> Shake]
  /\ hooked \subseteq Handshakes
  /\ registered \subseteq Handshakes

LiveInit ==
  /\ family = [f \in Families |-> "none"]
  /\ era = 0
  /\ tickets = [t \in {} |-> TRUE]
  /\ minted = [t \in {} |-> TRUE]
  /\ shakes = [h \in Handshakes |->
                 [phase |-> "new", ticket |-> NoTicket, code |-> "none", left |-> FALSE]]
  /\ hooked = {}
  /\ registered = {}

FamilyOf(h) == minted[shakes[h].ticket].family

(* request_close: the first code stays.                                    *)
Closing(s, code) == IF s.code = "none" THEN [s EXCEPT !.code = code] ELSE s

RequestClose(H, code) ==
  shakes' = [h \in Handshakes |-> IF h \in H THEN Closing(shakes[h], code) ELSE shakes[h]]

-----------------------------------------------------------------------------
(* The token store, as far as sockets can tell.                            *)

SignIn(f) ==
  /\ family[f] = "none"
  /\ family' = [family EXCEPT ![f] = "alive"]
  /\ UNCHANGED <<era, tickets, minted, shakes, hooked, registered>>


HooksOnOpen(F) == {h \in hooked : FamilyOf(h) \in F /\ shakes[h].phase = "accepting"}

(* revoke_family pops the callbacks and calls them.                        *)
HooksOn(F) == {h \in hooked : FamilyOf(h) \in F}

EndFamilies(F) ==
  /\ RequestClose(HooksOn({f \in F : family[f] = "alive"}), "normal")
  /\ hooked' = hooked \ HooksOn(F)

Revoke(f) ==
  /\ family[f] = "alive"
  /\ family' = [family EXCEPT ![f] = "revoked"]
  /\ EndFamilies({f})
  /\ UNCHANGED <<era, tickets, minted, registered>>

Sweep(f) ==
  /\ family[f] \in {"alive", "revoked"}
  /\ family' = [family EXCEPT ![f] = "gone"]
  /\ EndFamilies({f})
  /\ UNCHANGED <<era, tickets, minted, registered>>

(* The live service is not in RESETTABLE: its tickets and sockets stay.    *)
ResetTokens ==
  /\ era < MaxResets
  /\ era' = era + 1
  /\ family' = [f \in Families |-> "none"]
  /\ EndFamilies(Families)
  /\ UNCHANGED <<tickets, minted, registered>>

-----------------------------------------------------------------------------
(* Tickets.                                                                *)

Spent(t) == tickets[t].used \/ tickets[t].age = TicketTTL

Swept == Restrict(tickets, {t \in DOMAIN tickets : ~Spent(t)})

NewTicketLong(f) == [family |-> f, age |-> -1, used |-> FALSE]

NewTicket(f) == [family |-> f, age |-> 0, used |-> FALSE]

Issue(f, t) ==
  /\ family[f] = "alive"
  /\ t \notin DOMAIN minted
  /\ tickets' = [u \in DOMAIN Swept \cup {t} |->
                   IF u = t THEN NewTicket(f) ELSE Swept[u]]
  /\ minted' = [u \in DOMAIN minted \cup {t} |->
                  IF u = t THEN [family |-> f, era |-> era] ELSE minted[u]]
  /\ UNCHANGED <<family, era, shakes, hooked, registered>>

Redeem(t) ==
  CASE t = NoTicket -> "ticket_missing"
    [] t # NoTicket /\ t \notin DOMAIN tickets -> "ticket_invalid"
    [] t \in DOMAIN tickets ->
         IF tickets[t].used THEN "ticket_reuse"
         ELSE IF tickets[t].age = TicketTTL THEN "ticket_expired"
         ELSE IF family[tickets[t].family] # "alive" THEN "session_revoked"
         ELSE "ok"

Attempt(h, phase, t, code) ==
  shakes' = [shakes EXCEPT ![h].phase = phase, ![h].ticket = t, ![h].code = code]

(* The origin is looked at first, and a refusal leaves the ticket as it was.*)
ForeignOrigin(h) ==
  /\ shakes[h].phase = "new"
  /\ Attempt(h, "refused", NoTicket, "forbidden")
  /\ UNCHANGED <<family, era, tickets, minted, hooked, registered>>

Refuse(h, t) ==
  /\ shakes[h].phase = "new"
  /\ Redeem(t) # "ok"
  /\ Attempt(h, "refused", NoTicket, "ticket")
  /\ UNCHANGED <<family, era, tickets, minted, hooked, registered>>

AcceptUnspent(h, t) ==
  /\ shakes[h].phase = "new"
  /\ Redeem(t) = "ok"
  /\ Attempt(h, "accepting", t, "none")
  /\ UNCHANGED <<family, era, tickets, minted, hooked, registered>>

Accept(h, t) ==
  /\ shakes[h].phase = "new"
  /\ Redeem(t) = "ok"
  /\ tickets' = [tickets EXCEPT ![t].used = TRUE]
  /\ Attempt(h, "accepting", t, "none")
  /\ UNCHANGED <<family, era, minted, hooked, registered>>

-----------------------------------------------------------------------------
(* A socket.                                                               *)

OpenUntold(h) ==
  /\ shakes[h].phase = "accepting"
  /\ shakes' = [shakes EXCEPT ![h].phase = "open"]
  /\ hooked' = hooked \cup {h}
  /\ registered' = registered \cup {h}
  /\ UNCHANGED <<family, era, tickets, minted>>

(* run(): on_family_revoked calls back at once when the family is no more. *)
Open(h) ==
  /\ shakes[h].phase = "accepting"
  /\ shakes' = [shakes EXCEPT ![h].phase = "open",
                              ![h].code = IF family[FamilyOf(h)] = "alive" THEN @ ELSE "normal"]
  /\ hooked' = IF family[FamilyOf(h)] = "alive" THEN hooked \cup {h} ELSE hooked
  /\ registered' = registered \cup {h}
  /\ UNCHANGED <<family, era, tickets, minted>>

(* The receive loop or the send loop finds the client gone.                *)
ClientLeaves(h) ==
  /\ shakes[h].phase = "open" /\ ~shakes[h].left
  /\ shakes' = [shakes EXCEPT ![h].left = TRUE]
  /\ UNCHANGED <<family, era, tickets, minted, hooked, registered>>

(* A missed pong, a sensor outside the ticket, or a scheduled restart.     *)
OwnClose(h, code) ==
  /\ shakes[h].phase = "open" /\ shakes[h].code = "none"
  /\ RequestClose({h}, code)
  /\ UNCHANGED <<family, era, tickets, minted, hooked, registered>>

(* The produce loop ends; _shutdown cancels the two tasks and awaits them. *)
Stop(h) ==
  /\ shakes[h].phase = "open"
  /\ shakes[h].code # "none" \/ shakes[h].left
  /\ shakes' = [shakes EXCEPT ![h].phase = "stopping"]
  /\ UNCHANGED <<family, era, tickets, minted, hooked, registered>>

(* The rest of _shutdown, with the code it finds then.                     *)
Shutdown(h) ==
  /\ shakes[h].phase = "stopping"
  /\ hooked' = hooked \ {h}
  /\ registered' = registered \ {h}
  /\ shakes' = [shakes EXCEPT ![h] = [Closing(@, "normal") EXCEPT !.phase = "closed"]]
  /\ UNCHANGED <<family, era, tickets, minted>>

AgeTickets ==
  /\ \E t \in DOMAIN tickets : tickets[t].age < TicketTTL
  /\ tickets' = [t \in DOMAIN tickets |->
                   [tickets[t] EXCEPT !.age = IF @ < TicketTTL THEN @ + 1 ELSE @]]
  /\ UNCHANGED <<family, era, minted, shakes, hooked, registered>>

LiveNext ==
  \/ \E f \in Families :
       SignIn(f) \/ Revoke(f) \/ Sweep(f) \/ \E t \in Tickets : Issue(f, t)
  \/ ResetTokens
  \/ \E h \in Handshakes :
       \/ ForeignOrigin(h)
       \/ \E t \in DOMAIN minted \cup {NoTicket} : Refuse(h, t) \/ Accept(h, t)
       \/ Open(h) \/ ClientLeaves(h) \/ Stop(h) \/ Shutdown(h)
       \/ \E code \in {"restart", "pong", "forbidden"} : OwnClose(h, code)
  \/ AgeTickets

(* A socket's own tasks run; nobody has to sign in, leave or be revoked.   *)
LiveFairness == \A h \in Handshakes : WF_ticketVars(Open(h) \/ Stop(h) \/ Shutdown(h))

LiveSpec == LiveInit /\ [][LiveNext]_ticketVars /\ LiveFairness

-----------------------------------------------------------------------------
Admitted == {h \in Handshakes : shakes[h].phase \in {"accepting", "open", "stopping", "closed"}}

(* A ticket survives exactly one handshake: no two handshakes were let in  *)
(* with the same one, whatever was swept, revoked or reset in between.     *)
OneHandshake ==
  \A h, k \in Admitted : shakes[h].ticket = shakes[k].ticket => h = k

(* Revoking a family closes every socket it opened, the one that was still *)
(* being accepted included: a socket nobody closed is hooked to a living   *)
(* family, and every hook is a running socket's.                           *)
NoneIsLeftOpen ==
  /\ \A h \in Handshakes :
       shakes[h].phase = "open" /\ shakes[h].code = "none"
         => h \in hooked /\ family[FamilyOf(h)] = "alive"
  /\ \A h \in hooked : shakes[h].phase \in {"open", "stopping"} /\ family[FamilyOf(h)] = "alive"
  /\ registered = {h \in Handshakes : shakes[h].phase \in {"open", "stopping"}}

(* A ticket admits one socket, and a revocation reaches every socket,      *)
(* whichever await it comes at.                                            *)
TicketSafety ==
  /\ LiveTypeOK
  /\ OneHandshake
  /\ NoneIsLeftOpen

Orphaned(h) ==
  /\ shakes[h].phase \in {"accepting", "open", "stopping"}
  /\ family[FamilyOf(h)] # "alive"

(* The sockets of a family that ended are closed before long, unless a     *)
(* reset gave its id to a new sign-in while the socket was being accepted. *)
EndedIsClosed == \A h \in Handshakes : Orphaned(h) ~> ~Orphaned(h)

(* The ticket is bound to the sign-in that minted it (api/live.py:32): no  *)
(* other session, though of the same family id, opens a socket with it.    *)
BoundToItsSignIn ==
  \A h \in Admitted : shakes[h].phase = "open" /\ shakes[h].code = "none"
    => minted[shakes[h].ticket].era = era
=============================================================================
