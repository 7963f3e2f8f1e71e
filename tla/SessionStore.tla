---------------------------- MODULE SessionStore ----------------------------
(***************************************************************************)
(* The session store of the web app (lib/api/session-store.ts) over the    *)
(* token store of the API: the server of the web app keeps the token pair  *)
(* of every browser session, and all calls of a session share one refresh. *)
(* Other clients of the API keep their own tokens and may present any of   *)
(* them, at any time, as often as they like.                               *)
(***************************************************************************)
EXTENDS TokenStore

CONSTANTS
  Sids,  \* browser sessions; newSessionId never repeats one
  Skew   \* REFRESH_SKEW_MS, in ticks

ASSUME SkewAssumption == Skew \in Nat

VARIABLES
  sessions,  \* the Map: session id -> pair held, and how long it looks fresh
  inflight,  \* refreshes under way: session id -> pair presented, and the answer
  logout,    \* what became of a session's POST /v1/auth/logout
  ours       \* history: token -> the session it was issued to

storeVars == <<sessions, inflight, logout, ours>>
sessionVars == <<tokenVars, storeVars>>

NoAnswer == 0

Entry == [pair: Tokens, fresh: Nat]
Call == [presented: Tokens, state: {"sent", "answered", "failed"}, pair: Tokens \cup {NoAnswer},
         lifetime: Nat]    \* the answer's access_expires_in

SessionTypeOK ==
  /\ DOMAIN sessions \subseteq Sids
  /\ sessions \in [DOMAIN sessions -> Entry]
  /\ DOMAIN inflight \subseteq Sids
  /\ inflight \in [DOMAIN inflight -> Call]
  /\ logout \in [Sids -> {"unused", "none", "revoked", "failed", "out", "gone"}]
  /\ DOMAIN ours \subseteq 1..minted
  /\ ours \in [DOMAIN ours -> Sids]

SessionInit ==
  /\ TokenInit
  /\ sessions = Empty /\ inflight = Empty /\ ours = Empty
  /\ logout = [s \in Sids |-> "unused"]

Without(f, k) == Restrict(f, DOMAIN f \ {k})

Holding(pair, lifetime) == [pair |-> pair, fresh |-> IF lifetime > Skew THEN lifetime - Skew ELSE 0]

(* The login route: putSession before anyone knows the session id.         *)
PutSession(s, u) ==
  /\ logout[s] = "unused"
  /\ Login(u)
  /\ sessions' = With(sessions, s, Holding(minted', ttl))
  /\ ours' = With(ours, minted', s)
  /\ logout' = [logout EXCEPT ![s] = "none"]
  /\ UNCHANGED inflight

(* accessTokenFor when the pair looks stale, refreshAfterUnauthorized when *)
(* a call was answered 401, perhaps one made with an older token; whoever  *)
(* comes later shares the refresh that is under way.                       *)
RefreshOnce(s) ==
  /\ s \in DOMAIN sessions /\ s \notin DOMAIN inflight
  /\ \/ sessions[s].fresh = 0
     \/ \E t \in DOMAIN ours : ours[t] = s /\ AccessStatus(t) # "ok"
  /\ inflight' = With(inflight, s, [presented |-> sessions[s].pair, state |-> "sent",
                                    pair |-> NoAnswer, lifetime |-> 0])
  /\ UNCHANGED <<tokenVars, sessions, logout, ours>>

Answered(s, answer, pair) ==
  inflight' = [inflight EXCEPT ![s] = [@ EXCEPT !.state = answer, !.pair = pair,
                                           !.lifetime = IF pair = NoAnswer THEN 0 ELSE ttl]]

ServeRefresh(s) ==
  /\ s \in DOMAIN inflight /\ inflight[s].state = "sent"
  /\ \/ /\ Rotate(inflight[s].presented)
        /\ ours' = With(ours, minted', s)
        /\ Answered(s, "answered", minted')
     \/ /\ RefuseSpent(inflight[s].presented) \/ RefuseReused(inflight[s].presented)
        /\ Answered(s, "failed", NoAnswer)
        /\ UNCHANGED ours
     \/ /\ RefreshAnswer(inflight[s].presented) \in {"refresh_invalid", "session_revoked"}
        /\ Answered(s, "failed", NoAnswer)
        /\ UNCHANGED <<tokenVars, ours>>
  /\ UNCHANGED <<sessions, logout>>

(* The call fails on the way there or back.                                *)
LoseRefresh(s) ==
  /\ s \in DOMAIN inflight /\ inflight[s].state # "failed"
  /\ Answered(s, "failed", NoAnswer)
  /\ UNCHANGED <<tokenVars, sessions, logout, ours>>

HearAnything(s) ==
  /\ s \in DOMAIN inflight /\ inflight[s].state # "sent"
  /\ sessions' = With(sessions, s, Holding(inflight[s].pair, inflight[s].lifetime))
  /\ inflight' = Without(inflight, s)
  /\ UNCHANGED <<tokenVars, logout, ours>>

KeepOnFailure(s) ==
  /\ s \in DOMAIN inflight /\ inflight[s].state # "sent"
  /\ sessions' = IF inflight[s].state = "answered"
                   THEN With(sessions, s, Holding(inflight[s].pair, inflight[s].lifetime)) ELSE sessions
  /\ inflight' = Without(inflight, s)
  /\ UNCHANGED <<tokenVars, logout, ours>>

(* sessions.set(id, next) asks nothing about what happened meanwhile.      *)
HearRefresh(s) ==
  /\ s \in DOMAIN inflight /\ inflight[s].state # "sent"
  /\ sessions' = IF inflight[s].state = "answered"
                   THEN With(sessions, s, Holding(inflight[s].pair, inflight[s].lifetime))
                   ELSE Without(sessions, s)
  /\ inflight' = Without(inflight, s)
  /\ UNCHANGED <<tokenVars, logout, ours>>

(* The logout route revokes the family, or fails to, and then drops the    *)
(* session all the same: it is out, or just gone from the web app.         *)
ServeLogout(s) ==
  /\ s \in DOMAIN sessions /\ logout[s] = "none"
  /\ \/ /\ Logout(sessions[s].pair)
        /\ logout' = [logout EXCEPT ![s] = "revoked"]
     \/ /\ logout' = [logout EXCEPT ![s] = "failed"]
        /\ UNCHANGED tokenVars
  /\ UNCHANGED <<sessions, inflight, ours>>

DropSession(s) ==
  /\ logout[s] \in {"revoked", "failed"}
  /\ sessions' = Without(sessions, s)
  /\ logout' = [logout EXCEPT ![s] = IF @ = "revoked" THEN "out" ELSE "gone"]
  /\ UNCHANGED <<tokenVars, inflight, ours>>

TickSessions ==
  /\ TickTokens
  /\ sessions' = [s \in DOMAIN sessions |->
                    [sessions[s] EXCEPT !.fresh = IF @ = 0 THEN 0 ELSE @ - 1]]
  /\ UNCHANGED <<inflight, logout, ours>>

WebApp ==
  \E s \in Sids : \/ \E u \in Users : PutSession(s, u)
                  \/ RefreshOnce(s) \/ ServeRefresh(s) \/ LoseRefresh(s) \/ HearRefresh(s)
                  \/ ServeLogout(s) \/ DropSession(s)

Others ==
  \/ \E u \in Users : Login(u)
  \/ \E t \in Tokens \ DOMAIN ours : Refresh(t) \/ Logout(t)
  \/ Administer \/ Subscriptions

SessionNext == WebApp \/ TickSessions \/ (Others /\ UNCHANGED storeVars)

SessionSpec == SessionInit /\ [][SessionNext]_sessionVars

-----------------------------------------------------------------------------
(* While no refresh is under way, the pair the store holds is the newest   *)
(* of its family (session-store.ts:84): nothing a failed, late or repeated *)
(* refresh leaves behind is a pair that was already used.                  *)
StoreHoldsTheNewest ==
  \A s \in DOMAIN sessions \ DOMAIN inflight :
    sessions[s].pair \in DOMAIN refresh => ~refresh[sessions[s].pair].consumed

(* The web app never presents a burnt token, so the API never revokes one  *)
(* of its sessions for reuse, whatever is lost or late (session-store.ts:  *)
(* 85).                                                                    *)
NeverPresentsBurnt ==
  \A s \in DOMAIN inflight :
    inflight[s].state = "sent" => RefreshAnswer(inflight[s].presented) # "refresh_reused"

(* After a logout the API confirmed, nothing issued to the session is      *)
(* accepted, even by a refresh heard after the session was dropped.        *)
LoggedOutIsOut ==
  \A t \in DOMAIN ours :
    logout[ours[t]] \in {"revoked", "out"} => AccessStatus(t) # "ok" /\ RefreshAnswer(t) # "ok"

(* A session of the web app never works with a pair the API has burnt, and *)
(* once it is logged out nothing issued to it works at all.                *)
SessionSafety ==
  /\ SessionTypeOK
  /\ StoreHoldsTheNewest
  /\ NeverPresentsBurnt
  /\ LoggedOutIsOut
=============================================================================
