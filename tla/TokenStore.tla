----------------------------- MODULE TokenStore -----------------------------
(***************************************************************************)
(* Sign-in sessions of the capture API (platform/tokens.py) and the routes *)
(* over them (api/auth.py, api/admin.py).  A session is a token family.    *)
(* Signing in and every rotation mint a pair of an access and a refresh    *)
(* token; token t is the t-th pair, as random strings never repeat.        *)
(* Family ids are made from a counter that a reset takes back to zero, so  *)
(* they do repeat.  No handler awaits: each is one action.  Time is the    *)
(* age of a family, how long ago it rotated, and the time an access token  *)
(* has left; each stops where the code makes no distinction any more.      *)
(***************************************************************************)
EXTENDS Integers, FiniteSets, Functions

CONSTANTS
  Users,
  Watchers,     \* subscriptions made with on_family_revoked
  AccessTTLs,   \* the access lifetimes the chaos controller may set
  RefreshIdle,  \* refresh_idle_s, in ticks
  RefreshMax,   \* refresh_max_s, in ticks
  MaxAge,       \* an age at which a family is swept whatever the lifetime
  MaxFamilies,  \* bound: families between two resets
  MaxTokens     \* bound: pairs ever minted

ASSUME TokenConstants ==
  /\ Users # {} /\ AccessTTLs # {}
  /\ AccessTTLs \subseteq Nat \ {0}
  /\ {RefreshIdle, RefreshMax, MaxAge, MaxFamilies, MaxTokens} \subseteq Nat
  /\ RefreshIdle < MaxAge
  /\ \A s \in AccessTTLs : RefreshMax + s < MaxAge

VARIABLES
  families,  \* _families: id -> user, age, time since the last rotation, revoked
  access,    \* _access: token -> family, time left
  refresh,   \* _refresh: token -> family, consumed
  watching,  \* _family_callbacks, by subscription
  counter,   \* _counter
  minted,    \* pairs minted so far
  ttl        \* what access_ttl() answers

tokenVars == <<families, access, refresh, watching, counter, minted, ttl>>

FamilyIds == 1..MaxFamilies
Tokens == 1..MaxTokens

Family == [user: Users, age: 0..MaxAge, idle: 0..MaxAge, revoked: BOOLEAN]

PartialFn(D, R) == UNION {[S -> R] : S \in SUBSET D}

TokenTypeOK ==
  /\ DOMAIN families \subseteq FamilyIds
  /\ families \in [DOMAIN families -> Family]
  /\ DOMAIN access \subseteq 1..minted
  /\ access \in [DOMAIN access -> [family: FamilyIds, left: Nat]]
  /\ DOMAIN refresh = DOMAIN access
  /\ refresh \in [DOMAIN refresh -> [family: FamilyIds, consumed: BOOLEAN]]
  /\ DOMAIN watching \subseteq Watchers
  /\ watching \in [DOMAIN watching -> FamilyIds]
  /\ counter \in 0..MaxFamilies
  /\ minted \in 0..MaxTokens
  /\ ttl \in AccessTTLs

Empty == [x \in {} |-> x]

TokenInit ==
  /\ families = Empty /\ access = Empty /\ refresh = Empty /\ watching = Empty
  /\ counter = 0 /\ minted = 0
  /\ ttl \in AccessTTLs

With(f, k, v) == [x \in DOMAIN f \cup {k} |-> IF x = k THEN v ELSE f[x]]

-----------------------------------------------------------------------------
(* Asking about a token.                                                   *)

AccessStatus(t) ==
  CASE t \notin DOMAIN access -> "invalid_token"
    [] t \in DOMAIN access /\ families[access[t].family].revoked -> "session_revoked"
    [] t \in DOMAIN access /\ ~families[access[t].family].revoked ->
         IF access[t].left = 0 THEN "token_expired" ELSE "ok"

SpentAtIdleOnly(family) == family.idle > RefreshIdle

SpentAt(family) == family.idle > RefreshIdle \/ family.age > RefreshMax

RefreshAnswer(t) ==
  IF t \notin DOMAIN refresh THEN "refresh_invalid"
  ELSE LET family == families[refresh[t].family]
       IN CASE family.revoked -> "session_revoked"
            [] ~family.revoked /\ refresh[t].consumed -> "refresh_reused"
            [] ~family.revoked /\ ~refresh[t].consumed ->
                 IF SpentAt(family) THEN "refresh_expired" ELSE "ok"

-----------------------------------------------------------------------------
(* Revoking, which is part of several handlers: the families are marked    *)
(* and every callback of theirs is taken out and called.                   *)

Live(f) == f \in DOMAIN families /\ ~families[f].revoked

Revoked(S) == [f \in DOMAIN families |->
                 IF f \in S THEN [families[f] EXCEPT !.revoked = TRUE] ELSE families[f]]

Untold(S) == Restrict(watching, {w \in DOMAIN watching : watching[w] \notin S})

RevokeFamilies(S) ==
  /\ families' = Revoked(S)
  /\ watching' = Untold(S)

(* A family lists the tokens minted for it; sweeping takes those out.      *)
TokensKept(f, S) == Restrict(f, {t \in DOMAIN f : f[t].family \notin S})

StaleByTTL == {f \in DOMAIN families : families[f].age > ttl}

Stale == {f \in DOMAIN families : families[f].age > RefreshMax + ttl}

MintSliding(f, keptAccess, keptRefresh) ==
  /\ minted < MaxTokens
  /\ minted' = minted + 1
  /\ access' = With([t \in DOMAIN keptAccess |->
                      IF keptAccess[t].family = f THEN [keptAccess[t] EXCEPT !.left = ttl]
                      ELSE keptAccess[t]],
                    minted + 1, [family |-> f, left |-> ttl])
  /\ refresh' = With(keptRefresh, minted + 1, [family |-> f, consumed |-> FALSE])

Mint(f, keptAccess, keptRefresh) ==
  /\ minted < MaxTokens
  /\ minted' = minted + 1
  /\ access' = With(keptAccess, minted + 1, [family |-> f, left |-> ttl])
  /\ refresh' = With(keptRefresh, minted + 1, [family |-> f, consumed |-> FALSE])

-----------------------------------------------------------------------------
(* The handlers.                                                           *)

SweepsSilently(u) ==
  /\ counter < MaxFamilies
  /\ counter' = counter + 1
  /\ families' = With(Restrict(families, DOMAIN families \ Stale), counter + 1,
                      [user |-> u, age |-> 0, idle |-> 0, revoked |-> FALSE])
  /\ Mint(counter + 1, TokensKept(access, Stale), TokensKept(refresh, Stale))
  /\ UNCHANGED <<watching, ttl>>

(* A wrong password changes nothing here (Windows has the login limiter).  *)
Login(u) ==
  /\ counter < MaxFamilies
  /\ counter' = counter + 1
  /\ families' = With(Restrict(families, DOMAIN families \ Stale), counter + 1,
                      [user |-> u, age |-> 0, idle |-> 0, revoked |-> FALSE])
  /\ watching' = Untold(Stale)
  /\ Mint(counter + 1, TokensKept(access, Stale), TokensKept(refresh, Stale))
  /\ UNCHANGED ttl

RotateKeepsOld(t) ==
  /\ RefreshAnswer(t) = "ok"
  /\ families' = [families EXCEPT ![refresh[t].family].idle = 0]
  /\ Mint(refresh[t].family, access, refresh)
  /\ UNCHANGED <<watching, counter, ttl>>

Rotate(t) ==
  /\ RefreshAnswer(t) = "ok"
  /\ families' = [families EXCEPT ![refresh[t].family].idle = 0]
  /\ Mint(refresh[t].family, access, [refresh EXCEPT ![t].consumed = TRUE])
  /\ UNCHANGED <<watching, counter, ttl>>

(* A refusal for age burns the token all the same.                         *)
RefuseSpent(t) ==
  /\ RefreshAnswer(t) = "refresh_expired"
  /\ refresh' = [refresh EXCEPT ![t].consumed = TRUE]
  /\ UNCHANGED <<families, access, watching, counter, minted, ttl>>

RefuseReused(t) ==
  /\ RefreshAnswer(t) = "refresh_reused"
  /\ RevokeFamilies({refresh[t].family})
  /\ UNCHANGED <<access, refresh, counter, minted, ttl>>

Refresh(t) == Rotate(t) \/ RefuseSpent(t) \/ RefuseReused(t)

LogoutOnePair(t) ==
  /\ t \in DOMAIN access
  /\ access' = Restrict(access, DOMAIN access \ {t})
  /\ refresh' = Restrict(refresh, DOMAIN refresh \ {t})
  /\ UNCHANGED <<families, watching, counter, minted, ttl>>

Logout(t) ==
  /\ t \in DOMAIN access
  /\ RevokeFamilies({access[t].family})
  /\ UNCHANGED <<access, refresh, counter, minted, ttl>>

RevokeUser(u) ==
  /\ RevokeFamilies({f \in DOMAIN families : families[f].user = u})
  /\ UNCHANGED <<access, refresh, counter, minted, ttl>>

(* POST /v1/__admin/expire-tokens, for one user or for all.                *)
ExpireAccess(us) ==
  /\ access' = [t \in DOMAIN access |->
                  IF AccessStatus(t) = "ok" /\ families[access[t].family].user \in us
                    THEN [access[t] EXCEPT !.left = 0] ELSE access[t]]
  /\ UNCHANGED <<families, refresh, watching, counter, minted, ttl>>

ResetKeepsRefresh ==
  /\ families' = Empty /\ access' = Empty
  /\ watching' = Untold(DOMAIN families)
  /\ counter' = 0
  /\ UNCHANGED <<refresh, minted, ttl>>

ResetTokens ==
  /\ families' = Empty /\ access' = Empty /\ refresh' = Empty
  /\ watching' = Untold(DOMAIN families)
  /\ counter' = 0
  /\ UNCHANGED <<minted, ttl>>

(* A subscriber to a family that is gone or revoked is told at once.       *)
OnFamilyRevoked(w, f) ==
  /\ w \notin DOMAIN watching
  /\ Live(f)
  /\ watching' = With(watching, w, f)
  /\ UNCHANGED <<families, access, refresh, counter, minted, ttl>>

Unsubscribe(w) ==
  /\ w \in DOMAIN watching
  /\ watching' = Restrict(watching, DOMAIN watching \ {w})
  /\ UNCHANGED <<families, access, refresh, counter, minted, ttl>>

(* ChaosController.configure hands the store another lifetime.             *)
ConfigureTTL(s) ==
  /\ ttl' = s
  /\ UNCHANGED <<families, access, refresh, watching, counter, minted>>

Later(n) == IF n < MaxAge THEN n + 1 ELSE n

TickTokens ==
  /\ families' = [f \in DOMAIN families |->
                    [families[f] EXCEPT !.age = Later(@), !.idle = Later(@)]]
  /\ access' = [t \in DOMAIN access |->
                  [access[t] EXCEPT !.left = IF @ = 0 THEN 0 ELSE @ - 1]]
  /\ UNCHANGED <<refresh, watching, counter, minted, ttl>>

Administer ==
  \/ \E u \in Users : RevokeUser(u) \/ ExpireAccess({u})
  \/ ExpireAccess(Users)
  \/ ResetTokens
  \/ \E s \in AccessTTLs : ConfigureTTL(s)

Subscriptions ==
  \E w \in Watchers : Unsubscribe(w) \/ \E f \in FamilyIds : OnFamilyRevoked(w, f)

TokenNext ==
  \/ \E u \in Users : Login(u)
  \/ \E t \in Tokens : Refresh(t) \/ Logout(t)
  \/ Administer \/ Subscriptions \/ TickTokens

TokenSpec == TokenInit /\ [][TokenNext]_tokenVars

-----------------------------------------------------------------------------
(* Every token is of a family that exists, with at most one refresh token  *)
(* to be honoured: the newest.  Rotation, the burning of a token that was  *)
(* refused for its age, sweeping and resetting all have to keep this.      *)
OneLiveRefresh ==
  /\ \A t \in DOMAIN access : /\ access[t].family \in DOMAIN families
                              /\ refresh[t].family = access[t].family
  /\ \A t, s \in DOMAIN refresh :
       t < s /\ refresh[t].family = refresh[s].family => refresh[t].consumed

(* However often a session is refreshed, and whatever lifetimes are set    *)
(* meanwhile, nothing authenticates beyond the longest life of a session.  *)
LifeIsBounded ==
  \A t \in DOMAIN access :
    access[t].left > 0 =>
      \E s \in AccessTTLs : families[access[t].family].age + access[t].left <= RefreshMax + s

(* Whoever still waits to hear of a revocation waits for a family that can *)
(* still be revoked (tokens.py:228): sweeping and resetting tell everyone  *)
(* they concern, and an id used again brings nobody's subscription back.   *)
NobodyWaitsForTheDead == \A w \in DOMAIN watching : Live(watching[w])

(* At every moment of the store a family has one token to be honoured at   *)
(* most, nothing lives longer than a session may, and nobody waits for a   *)
(* family that cannot be revoked any more.                                 *)
TokenSafety ==
  /\ TokenTypeOK
  /\ OneLiveRefresh
  /\ LifeIsBounded
  /\ NobodyWaitsForTheDead

(* A token that has been refused, or will never be issued again, is not    *)
(* accepted later: not when its family's id is used again after a reset,   *)
(* not when lifetimes change.                                              *)
RefusedStaysRefused ==
  [][\A t \in 1..minted : AccessStatus(t) # "ok" => AccessStatus(t)' # "ok"]_tokenVars

(* Somebody signing in sweeps away old sessions, and only such as have no  *)
(* refresh token that would be honoured (tokens.py:297).                   *)
SweptIsSpent ==
  [][\A t \in 1..minted :
       RefreshAnswer(t) = "ok" /\ counter' > counter => t \in DOMAIN refresh']_tokenVars

(* No step of the store brings a refused token back, and none forgets a    *)
(* token that would be honoured.                                           *)
TokensStaySpent ==
  /\ RefusedStaysRefused
  /\ SweptIsSpent
=============================================================================
