-------------------------- MODULE TokenStoreProofs --------------------------
(***************************************************************************)
(* Theorems of TokenStore and of SessionStore, which extends it, for any   *)
(* number of users, families, tokens, subscriptions and browser sessions   *)
(* and for every lifetime the controller may set.                          *)
(***************************************************************************)
EXTENDS SessionStore, TLAPS

\* Every family that exists has an id the counter has given out.
CounterCovers == DOMAIN families \subseteq 1..counter

\* The inductive invariant.
IInv ==
  /\ TokenTypeOK
  /\ CounterCovers
  /\ OneLiveRefresh
  /\ LifeIsBounded
  /\ NobodyWaitsForTheDead

\* A freshly started store has no tokens and no families (TokenStore.__init__).
LEMMA InitInv == TokenInit => IInv
<1> SUFFICES ASSUME TokenInit PROVE IInv
    OBVIOUS
<1> USE TokenConstants DEF TokenInit, Empty
<1>1. TokenTypeOK
      BY DEF TokenTypeOK
<1>2. CounterCovers /\ OneLiveRefresh /\ LifeIsBounded /\ NobodyWaitsForTheDead
      BY DEF CounterCovers, OneLiveRefresh, LifeIsBounded, NobodyWaitsForTheDead
<1> QED BY <1>1, <1>2 DEF IInv

\* What a handler that revokes some families and does nothing else leaves.
LEMMA RevokingInv ==
  ASSUME NEW S, IInv, RevokeFamilies(S), UNCHANGED <<access, refresh, counter, minted, ttl>>
  PROVE  IInv'
<1> USE TokenConstants DEF IInv
<1>1. /\ DOMAIN families' = DOMAIN families
      /\ \A f \in DOMAIN families :
           /\ families'[f] \in Family
           /\ families'[f].age = families[f].age
           /\ f \notin S => families'[f] = families[f]
      BY DEF RevokeFamilies, Revoked, TokenTypeOK, Family
<1>2. /\ DOMAIN watching' \subseteq DOMAIN watching
      /\ \A w \in DOMAIN watching' : watching'[w] = watching[w] /\ watching[w] \notin S
      BY DEF RevokeFamilies, Untold, Restrict
<1>3. TokenTypeOK'
  <2>1. families' \in [DOMAIN families' -> Family]
        BY <1>1 DEF RevokeFamilies, Revoked
  <2>2. watching' \in [DOMAIN watching' -> FamilyIds]
        BY <1>2 DEF RevokeFamilies, Untold, Restrict, TokenTypeOK
  <2> QED BY <1>1, <1>2, <2>1, <2>2 DEF TokenTypeOK
<1>4. CounterCovers' /\ OneLiveRefresh'
      BY <1>1 DEF CounterCovers, OneLiveRefresh
<1>5. LifeIsBounded'
      BY <1>1 DEF LifeIsBounded, OneLiveRefresh
<1>6. NobodyWaitsForTheDead'
      BY <1>1, <1>2 DEF NobodyWaitsForTheDead, Live
<1> QED BY <1>3, <1>4, <1>5, <1>6

-----------------------------------------------------------------------------
(* Signing in.                                                             *)

\* A sign-in sweeps the stale families and their tokens, tells who waited for
\* them, and gives the new family an id and a pair nobody has.
LEMMA LoginInv ==
  ASSUME NEW u \in Users, IInv, Login(u)
  PROVE  IInv'
<1> DEFINE n == counter + 1
           k == minted + 1
           fams == DOMAIN families \ Stale
           olds == {t \in DOMAIN access : access[t].family \notin Stale}
<1> USE TokenConstants DEF IInv
<1>1. /\ counter \in Nat /\ counter' = n /\ n \in FamilyIds
      /\ minted \in Nat /\ minted' = k /\ k \in Tokens
      /\ ttl' = ttl /\ ttl \in AccessTTLs /\ ttl \in Nat \ {0}
      BY DEF Login, Mint, TokenTypeOK, FamilyIds, Tokens
<1>2. n \notin DOMAIN families
      BY <1>1 DEF CounterCovers
<1>3. k \notin DOMAIN access /\ k \notin DOMAIN refresh
      BY <1>1 DEF TokenTypeOK
<1>4. \A t \in DOMAIN access : refresh[t].family = access[t].family /\ access[t].family \in DOMAIN families
      BY DEF OneLiveRefresh
<1>5. /\ DOMAIN families' = fams \cup {n}
      /\ \A f \in fams : families'[f] = families[f]
      /\ families'[n] = [user |-> u, age |-> 0, idle |-> 0, revoked |-> FALSE]
      /\ families' \in [DOMAIN families' -> Family]
  <2>1. families' = With(Restrict(families, fams), n,
                         [user |-> u, age |-> 0, idle |-> 0, revoked |-> FALSE])
        BY DEF Login
  <2>2. [user |-> u, age |-> 0, idle |-> 0, revoked |-> FALSE] \in Family
        BY DEF Family
  <2>3. \A f \in fams : families[f] \in Family
        BY DEF TokenTypeOK
  <2> QED BY <1>2, <2>1, <2>2, <2>3 DEF With, Restrict
<1>6. /\ DOMAIN access' = olds \cup {k}
      /\ \A t \in olds : access'[t] = access[t]
      /\ access'[k] = [family |-> n, left |-> ttl]
      /\ access' \in [DOMAIN access' -> [family: FamilyIds, left: Nat]]
  <2>1. access' = With(TokensKept(access, Stale), k, [family |-> n, left |-> ttl])
        BY DEF Login, Mint
  <2>2. [family |-> n, left |-> ttl] \in [family: FamilyIds, left: Nat]
        BY <1>1
  <2>3. \A t \in olds : access[t] \in [family: FamilyIds, left: Nat]
        BY DEF TokenTypeOK
  <2> QED BY <1>3, <2>1, <2>2, <2>3 DEF With, TokensKept, Restrict
<1>7. /\ DOMAIN refresh' = olds \cup {k}
      /\ \A t \in olds : refresh'[t] = refresh[t]
      /\ refresh'[k] = [family |-> n, consumed |-> FALSE]
      /\ refresh' \in [DOMAIN refresh' -> [family: FamilyIds, consumed: BOOLEAN]]
  <2>1. refresh' = With(TokensKept(refresh, Stale), k, [family |-> n, consumed |-> FALSE])
        BY DEF Login, Mint
  <2>2. [family |-> n, consumed |-> FALSE] \in [family: FamilyIds, consumed: BOOLEAN]
        BY <1>1
  <2>3. \A t \in olds : refresh[t] \in [family: FamilyIds, consumed: BOOLEAN]
        BY DEF TokenTypeOK
  <2>4. olds = {t \in DOMAIN refresh : refresh[t].family \notin Stale}
        BY <1>4 DEF TokenTypeOK
  <2> QED BY <1>3, <2>1, <2>2, <2>3, <2>4 DEF With, TokensKept, Restrict
<1>8. /\ DOMAIN watching' \subseteq DOMAIN watching
      /\ \A w \in DOMAIN watching' : watching'[w] = watching[w] /\ watching[w] \notin Stale
      /\ watching' \in [DOMAIN watching' -> FamilyIds]
      BY DEF Login, Untold, Restrict, TokenTypeOK
<1>9. TokenTypeOK'
  <2>1. DOMAIN families' \subseteq FamilyIds /\ DOMAIN watching' \subseteq Watchers
        BY <1>1, <1>5, <1>8 DEF TokenTypeOK
  <2>2. DOMAIN access' \subseteq 1..minted'
        BY <1>1, <1>6 DEF TokenTypeOK
  <2>3. counter' \in 0..MaxFamilies /\ minted' \in 0..MaxTokens
        BY <1>1 DEF FamilyIds, Tokens
  <2> QED BY <1>1, <1>5, <1>6, <1>7, <1>8, <2>1, <2>2, <2>3 DEF TokenTypeOK
<1>10. CounterCovers'
       BY <1>1, <1>5 DEF CounterCovers
<1>11. OneLiveRefresh'
  <2>1. \A t \in olds : access[t].family # n /\ access[t].family \in fams /\ t < k
        BY <1>1, <1>2, <1>4 DEF TokenTypeOK
  <2>2. \A t \in DOMAIN access' : /\ access'[t].family \in DOMAIN families'
                                  /\ refresh'[t].family = access'[t].family
        BY <1>4, <1>5, <1>6, <1>7, <2>1
  <2>3. ASSUME NEW t \in DOMAIN refresh', NEW s \in DOMAIN refresh',
               t < s, refresh'[t].family = refresh'[s].family
        PROVE  refresh'[t].consumed
    <3>1. t \in olds
          BY <1>1, <1>7, <2>1, <2>3 DEF TokenTypeOK
    <3>2. s \in olds
          BY <1>1, <1>4, <1>7, <2>1, <2>3, <3>1
    <3> QED BY <1>7, <2>3, <3>1, <3>2 DEF OneLiveRefresh, TokenTypeOK
  <2> QED BY <2>2, <2>3 DEF OneLiveRefresh
<1>12. LifeIsBounded'
  <2> SUFFICES ASSUME NEW t \in DOMAIN access', access'[t].left > 0
               PROVE  \E s \in AccessTTLs :
                        families'[access'[t].family].age + access'[t].left <= RefreshMax + s
      BY DEF LifeIsBounded
  <2>1. CASE t = k
        BY <1>1, <1>5, <1>6, <2>1
  <2>2. CASE t # k
    <3>1. t \in olds /\ access[t].family \in fams
          BY <1>4, <1>6, <2>2
    <3> QED BY <1>5, <1>6, <3>1 DEF LifeIsBounded
  <2> QED BY <2>1, <2>2
<1>13. NobodyWaitsForTheDead'
       BY <1>5, <1>8 DEF NobodyWaitsForTheDead, Live
<1> QED BY <1>9, <1>10, <1>11, <1>12, <1>13

-----------------------------------------------------------------------------
(* Refreshing.                                                             *)

\* A token that is honoured is the newest of its family, so that burning it
\* leaves none but the new one; the family it extends is not too old.
LEMMA RotateInv ==
  ASSUME NEW t \in Tokens, IInv, Rotate(t)
  PROVE  IInv'
<1> DEFINE f == refresh[t].family
           k == minted + 1
<1> USE TokenConstants DEF IInv
<1>1. /\ t \in DOMAIN refresh /\ t \in DOMAIN access
      /\ ~ families[f].revoked /\ ~ refresh[t].consumed /\ families[f].age <= RefreshMax
  <2>1. t \in DOMAIN refresh
        BY DEF Rotate, RefreshAnswer
  <2>2. f \in DOMAIN families
        BY <2>1 DEF OneLiveRefresh, TokenTypeOK
  <2>3. families[f].age \in Nat /\ families[f].revoked \in BOOLEAN /\ refresh[t].consumed \in BOOLEAN
        BY <2>1, <2>2 DEF TokenTypeOK, Family
  <2>4. ~ SpentAt(families[f]) /\ ~ families[f].revoked /\ ~ refresh[t].consumed
        BY <2>1, <2>3 DEF Rotate, RefreshAnswer
  <2> QED BY <2>1, <2>3, <2>4 DEF SpentAt, TokenTypeOK
<1>2. /\ minted \in Nat /\ minted' = k /\ k \in Tokens
      /\ ttl' = ttl /\ ttl \in AccessTTLs /\ ttl \in Nat \ {0}
      /\ counter' = counter /\ watching' = watching
      BY DEF Rotate, Mint, TokenTypeOK, Tokens
<1>3. /\ k \notin DOMAIN access /\ k \notin DOMAIN refresh
      /\ f \in DOMAIN families /\ f \in FamilyIds
      BY <1>1, <1>2 DEF TokenTypeOK, OneLiveRefresh
<1>4. /\ DOMAIN families' = DOMAIN families
      /\ families' \in [DOMAIN families' -> Family]
      /\ \A g \in DOMAIN families : /\ families'[g].age = families[g].age
                                   /\ families'[g].revoked = families[g].revoked
      BY <1>3 DEF Rotate, TokenTypeOK, Family
<1>5. /\ DOMAIN access' = DOMAIN access \cup {k}
      /\ \A s \in DOMAIN access : access'[s] = access[s]
      /\ access'[k] = [family |-> f, left |-> ttl]
      /\ access' \in [DOMAIN access' -> [family: FamilyIds, left: Nat]]
  <2>1. access' = With(access, k, [family |-> f, left |-> ttl])
        BY DEF Rotate, Mint
  <2>2. [family |-> f, left |-> ttl] \in [family: FamilyIds, left: Nat]
        BY <1>2, <1>3
  <2> QED BY <1>3, <2>1, <2>2 DEF With, TokenTypeOK
<1>6. /\ DOMAIN refresh' = DOMAIN refresh \cup {k}
      /\ \A s \in DOMAIN refresh : refresh'[s] = [family |-> refresh[s].family,
                                                 consumed |-> refresh[s].consumed \/ s = t]
      /\ refresh'[k] = [family |-> f, consumed |-> FALSE]
      /\ refresh' \in [DOMAIN refresh' -> [family: FamilyIds, consumed: BOOLEAN]]
  <2> DEFINE burnt == [refresh EXCEPT ![t].consumed = TRUE]
  <2>1. refresh' = With(burnt, k, [family |-> f, consumed |-> FALSE])
        BY DEF Rotate, Mint
  <2>2. /\ DOMAIN burnt = DOMAIN refresh
        /\ \A s \in DOMAIN refresh : /\ burnt[s] \in [family: FamilyIds, consumed: BOOLEAN]
                                    /\ burnt[s] = [family |-> refresh[s].family,
                                                   consumed |-> refresh[s].consumed \/ s = t]
        BY <1>1 DEF TokenTypeOK
  <2>3. [family |-> f, consumed |-> FALSE] \in [family: FamilyIds, consumed: BOOLEAN]
        BY <1>3
  <2> HIDE DEF burnt
  <2> QED BY <1>3, <2>1, <2>2, <2>3 DEF With
<1>7. TokenTypeOK'
  <2>1. DOMAIN access' \subseteq 1..minted'
        BY <1>2, <1>5 DEF TokenTypeOK
  <2>2. minted' \in 0..MaxTokens
        BY <1>2 DEF Tokens
  <2> QED BY <1>2, <1>4, <1>5, <1>6, <2>1, <2>2 DEF TokenTypeOK
<1>8. CounterCovers'
      BY <1>2, <1>4 DEF CounterCovers
<1>9. OneLiveRefresh'
  <2>1. \A s \in DOMAIN access' : /\ access'[s].family \in DOMAIN families'
                                  /\ refresh'[s].family = access'[s].family
        BY <1>3, <1>4, <1>5, <1>6 DEF OneLiveRefresh, TokenTypeOK
  <2>2. ASSUME NEW r \in DOMAIN refresh', NEW s \in DOMAIN refresh',
               r < s, refresh'[r].family = refresh'[s].family
        PROVE  refresh'[r].consumed
    <3>1. r \in DOMAIN refresh
          BY <1>2, <1>6, <2>2 DEF TokenTypeOK
    <3>2. CASE s = k
      <4>1. refresh[r].family = f
            BY <1>6, <2>2, <3>1, <3>2
      <4>2. r # t => ~ (t < r) /\ r \in Nat /\ t \in Nat
            BY <1>1, <3>1, <4>1 DEF OneLiveRefresh, TokenTypeOK
      <4>3. r # t => refresh[r].consumed
            BY <1>1, <3>1, <4>1, <4>2 DEF OneLiveRefresh
      <4> QED BY <1>6, <3>1, <4>3
    <3>3. CASE s # k
      <4>1. s \in DOMAIN refresh /\ refresh[r].family = refresh[s].family
            BY <1>6, <2>2, <3>1, <3>3
      <4>2. refresh[r].consumed
            BY <2>2, <3>1, <4>1 DEF OneLiveRefresh
      <4> QED BY <1>6, <3>1, <4>2
    <3> QED BY <3>2, <3>3
  <2> QED BY <2>1, <2>2 DEF OneLiveRefresh
<1>10. LifeIsBounded'
  <2> SUFFICES ASSUME NEW s \in DOMAIN access', access'[s].left > 0
               PROVE  \E l \in AccessTTLs :
                        families'[access'[s].family].age + access'[s].left <= RefreshMax + l
      BY DEF LifeIsBounded
  <2>1. CASE s = k
    <3>1. families'[f].age <= RefreshMax /\ families'[f].age \in Nat
          BY <1>1, <1>3, <1>4 DEF TokenTypeOK, Family
    <3> QED BY <1>2, <1>5, <2>1, <3>1
  <2>2. CASE s # k
        BY <1>4, <1>5, <2>2 DEF LifeIsBounded, OneLiveRefresh
  <2> QED BY <2>1, <2>2
<1>11. NobodyWaitsForTheDead'
       BY <1>2, <1>4 DEF NobodyWaitsForTheDead, Live
<1> QED BY <1>7, <1>8, <1>9, <1>10, <1>11

\* A refusal for age burns the token and changes nothing else.
LEMMA RefuseSpentInv ==
  ASSUME NEW t \in Tokens, IInv, RefuseSpent(t)
  PROVE  IInv'
<1> USE TokenConstants DEF IInv
<1>1. t \in DOMAIN refresh
      BY DEF RefuseSpent, RefreshAnswer
<1>2. /\ DOMAIN refresh' = DOMAIN refresh
      /\ \A s \in DOMAIN refresh :
           /\ refresh'[s].family = refresh[s].family
           /\ refresh[s].consumed => refresh'[s].consumed
      /\ refresh' \in [DOMAIN refresh -> [family: FamilyIds, consumed: BOOLEAN]]
      BY <1>1 DEF RefuseSpent, TokenTypeOK
<1>3. UNCHANGED <<families, access, watching, counter, minted, ttl>>
      BY DEF RefuseSpent
<1>4. TokenTypeOK' /\ CounterCovers'
      BY <1>2, <1>3 DEF TokenTypeOK, CounterCovers
<1>5. OneLiveRefresh'
      BY <1>2, <1>3 DEF OneLiveRefresh, TokenTypeOK
<1>6. LifeIsBounded' /\ NobodyWaitsForTheDead'
      BY <1>3 DEF LifeIsBounded, NobodyWaitsForTheDead, Live
<1> QED BY <1>4, <1>5, <1>6

-----------------------------------------------------------------------------
(* The rest.                                                               *)

LEMMA ExpireInv ==
  ASSUME NEW us, IInv, ExpireAccess(us)
  PROVE  IInv'
<1> USE TokenConstants DEF IInv
<1>1. UNCHANGED <<families, refresh, watching, counter, minted, ttl>>
      BY DEF ExpireAccess
<1>2. /\ DOMAIN access' = DOMAIN access
      /\ access' \in [DOMAIN access -> [family: FamilyIds, left: Nat]]
      /\ \A t \in DOMAIN access :
           /\ access'[t].family = access[t].family
           /\ access'[t].left \in {0, access[t].left}
  <2>1. \A t \in DOMAIN access : access[t] \in [family: FamilyIds, left: Nat]
        BY DEF TokenTypeOK
  <2> QED BY <2>1 DEF ExpireAccess
<1>3. TokenTypeOK' /\ CounterCovers' /\ OneLiveRefresh'
      BY <1>1, <1>2 DEF TokenTypeOK, CounterCovers, OneLiveRefresh
<1>4. LifeIsBounded' /\ NobodyWaitsForTheDead'
      BY <1>1, <1>2 DEF LifeIsBounded, NobodyWaitsForTheDead, Live
<1> QED BY <1>3, <1>4

\* A reset leaves nothing; nobody waits, for all who did waited for a family.
LEMMA ResetInv ==
  ASSUME IInv, ResetTokens
  PROVE  IInv'
<1> USE TokenConstants DEF IInv
<1>1. DOMAIN watching' = {} /\ watching' \in [{} -> FamilyIds]
      BY DEF ResetTokens, Untold, Restrict, NobodyWaitsForTheDead, Live
<1>2. /\ DOMAIN families' = {} /\ families' \in [{} -> Family]
      /\ DOMAIN access' = {} /\ access' \in [{} -> [family: FamilyIds, left: Nat]]
      /\ DOMAIN refresh' = {} /\ refresh' \in [{} -> [family: FamilyIds, consumed: BOOLEAN]]
      BY DEF ResetTokens, Empty
<1>3. counter' = 0 /\ minted' = minted /\ ttl' = ttl
      BY DEF ResetTokens
<1>4. TokenTypeOK'
      BY <1>1, <1>2, <1>3 DEF TokenTypeOK
<1>5. CounterCovers' /\ OneLiveRefresh' /\ LifeIsBounded' /\ NobodyWaitsForTheDead'
      BY <1>1, <1>2, <1>3 DEF CounterCovers, OneLiveRefresh, LifeIsBounded, NobodyWaitsForTheDead
<1> QED BY <1>4, <1>5

LEMMA SubscriptionsInv ==
  ASSUME IInv, Subscriptions
  PROVE  IInv'
<1> USE TokenConstants DEF IInv
<1>1. UNCHANGED <<families, access, refresh, counter, minted, ttl>>
      BY DEF Subscriptions, OnFamilyRevoked, Unsubscribe
<1>2. DOMAIN watching' \subseteq Watchers /\ watching' \in [DOMAIN watching' -> FamilyIds]
      BY DEF Subscriptions, OnFamilyRevoked, Unsubscribe, With, Restrict, TokenTypeOK
<1>3. \A w \in DOMAIN watching' : Live(watching'[w])
      BY DEF Subscriptions, OnFamilyRevoked, Unsubscribe, With, Restrict, NobodyWaitsForTheDead
<1>4. TokenTypeOK' /\ CounterCovers' /\ OneLiveRefresh' /\ LifeIsBounded'
      BY <1>1, <1>2 DEF TokenTypeOK, CounterCovers, OneLiveRefresh, LifeIsBounded
<1>5. NobodyWaitsForTheDead'
      BY <1>1, <1>3 DEF NobodyWaitsForTheDead, Live
<1> QED BY <1>4, <1>5

LEMMA ConfigureInv ==
  ASSUME NEW s \in AccessTTLs, IInv, ConfigureTTL(s)
  PROVE  IInv'
<1>1. TokenTypeOK'
      BY DEF IInv, ConfigureTTL, TokenTypeOK
<1> QED BY <1>1 DEF IInv, ConfigureTTL, CounterCovers, OneLiveRefresh, LifeIsBounded,
                    NobodyWaitsForTheDead, Live

\* As a family grows older its tokens have less time left.
LEMMA TickInv ==
  ASSUME IInv, TickTokens
  PROVE  IInv'
<1> USE TokenConstants DEF IInv
<1>1. UNCHANGED <<refresh, watching, counter, minted, ttl>>
      BY DEF TickTokens
<1>2. /\ DOMAIN families' = DOMAIN families
      /\ families' \in [DOMAIN families -> Family]
      /\ \A f \in DOMAIN families :
           /\ families[f].age \in Nat
           /\ families'[f].age \in {families[f].age, families[f].age + 1}
           /\ families'[f].revoked = families[f].revoked
  <2>1. \A f \in DOMAIN families : families[f] \in Family
        BY DEF TokenTypeOK
  <2>2. \A n \in 0..MaxAge : Later(n) \in 0..MaxAge /\ Later(n) \in {n, n + 1}
        BY DEF Later
  <2>3. families' = [f \in DOMAIN families |->
                      [families[f] EXCEPT !.age = Later(@), !.idle = Later(@)]]
        BY DEF TickTokens
  <2>4. ASSUME NEW f \in DOMAIN families
        PROVE  /\ families[f].age \in Nat /\ families'[f] \in Family
               /\ families'[f].age \in {families[f].age, families[f].age + 1}
               /\ families'[f].revoked = families[f].revoked
    <3>1. /\ families[f] \in Family
          /\ families[f].age \in 0..MaxAge /\ families[f].idle \in 0..MaxAge
          BY <2>1 DEF Family
    <3>2. families'[f] = [families[f] EXCEPT !.age = Later(families[f].age),
                                             !.idle = Later(families[f].idle)]
          BY <2>3
    <3>3. /\ Later(families[f].age) \in 0..MaxAge /\ Later(families[f].idle) \in 0..MaxAge
          /\ Later(families[f].age) \in {families[f].age, families[f].age + 1}
          BY <2>2, <3>1
    <3>4. /\ families'[f] \in Family
          /\ families'[f].age = Later(families[f].age)
          /\ families'[f].revoked = families[f].revoked
          BY <3>1, <3>2, <3>3 DEF Family
    <3> QED BY <3>1, <3>3, <3>4
  <2> QED BY <2>3, <2>4
<1>3. /\ DOMAIN access' = DOMAIN access
      /\ access' \in [DOMAIN access -> [family: FamilyIds, left: Nat]]
      /\ \A t \in DOMAIN access :
           /\ access[t].left \in Nat
           /\ access'[t].family = access[t].family
           /\ access'[t].left = IF access[t].left = 0 THEN 0 ELSE access[t].left - 1
  <2>1. \A t \in DOMAIN access : access[t] \in [family: FamilyIds, left: Nat]
        BY DEF TokenTypeOK
  <2>2. access' = [t \in DOMAIN access |->
                    [access[t] EXCEPT !.left = IF access[t].left = 0 THEN 0 ELSE access[t].left - 1]]
        BY DEF TickTokens
  <2>3. ASSUME NEW t \in DOMAIN access
        PROVE  /\ access[t].left \in Nat
               /\ access'[t] \in [family: FamilyIds, left: Nat]
               /\ access'[t].family = access[t].family
               /\ access'[t].left = IF access[t].left = 0 THEN 0 ELSE access[t].left - 1
    <3> DEFINE l == IF access[t].left = 0 THEN 0 ELSE access[t].left - 1
    <3>1. access[t].left \in Nat /\ l \in Nat
          BY <2>1
    <3>2. access'[t] = [access[t] EXCEPT !.left = l]
          BY <2>2
    <3> HIDE DEF l
    <3>3. access'[t] \in [family: FamilyIds, left: Nat] /\ access'[t].family = access[t].family
          /\ access'[t].left = l
          BY <2>1, <3>1, <3>2
    <3> QED BY <3>1, <3>3 DEF l
  <2> QED BY <2>2, <2>3
<1>4. TokenTypeOK'
      BY <1>1, <1>2, <1>3 DEF TokenTypeOK
<1>5. CounterCovers' /\ OneLiveRefresh'
      BY <1>1, <1>2, <1>3 DEF CounterCovers, OneLiveRefresh
<1>6. LifeIsBounded'
  <2> SUFFICES ASSUME NEW t \in DOMAIN access', access'[t].left > 0
               PROVE  \E s \in AccessTTLs :
                        families'[access'[t].family].age + access'[t].left <= RefreshMax + s
      BY DEF LifeIsBounded
  <2>1. PICK s \in AccessTTLs :
               families[access[t].family].age + access[t].left <= RefreshMax + s
    <3>1. t \in DOMAIN access /\ access[t].left > 0
          BY <1>3
    <3> QED BY <3>1 DEF LifeIsBounded
  <2>2. access[t].family \in DOMAIN families
        BY <1>3 DEF OneLiveRefresh
  <2>3. /\ t \in DOMAIN access /\ access'[t].family = access[t].family
        /\ access[t].left \in Nat /\ access'[t].left = access[t].left - 1
    <3>1. t \in DOMAIN access
          BY <1>3
    <3> QED BY <1>3, <3>1
  <2>4. /\ families[access[t].family].age \in Nat
        /\ families'[access[t].family].age <= families[access[t].family].age + 1
        /\ families'[access[t].family].age \in Nat
        BY <1>2, <2>2
  <2>5. s \in Nat /\ RefreshMax \in Nat
        BY TokenConstants
  <2>6. families'[access[t].family].age + (access[t].left - 1) <= RefreshMax + s
        BY <2>1, <2>3, <2>4, <2>5
  <2> QED BY <2>3, <2>6
<1>7. NobodyWaitsForTheDead'
      BY <1>1, <1>2 DEF NobodyWaitsForTheDead, Live
<1> QED BY <1>4, <1>5, <1>6, <1>7

LEMMA StepInv == IInv /\ [TokenNext]_tokenVars => IInv'
<1> SUFFICES ASSUME IInv, [TokenNext]_tokenVars PROVE IInv'
    OBVIOUS
<1>1. CASE \E u \in Users : Login(u)
      BY <1>1, LoginInv
<1>2. CASE \E t \in Tokens : Refresh(t) \/ Logout(t)
  <2> PICK t \in Tokens : Refresh(t) \/ Logout(t)
      BY <1>2
  <2>1. CASE Rotate(t)
        BY <2>1, RotateInv
  <2>2. CASE RefuseSpent(t)
        BY <2>2, RefuseSpentInv
  <2>3. CASE RefuseReused(t)
        BY <2>3, RevokingInv DEF RefuseReused
  <2>4. CASE Logout(t)
        BY <2>4, RevokingInv DEF Logout
  <2> QED BY <2>1, <2>2, <2>3, <2>4 DEF Refresh
<1>3. CASE Administer
  <2>1. CASE \E u \in Users : RevokeUser(u)
        BY <2>1, RevokingInv DEF RevokeUser
  <2>2. CASE \E us : ExpireAccess(us)
        BY <2>2, ExpireInv
  <2>3. CASE ResetTokens
        BY <2>3, ResetInv
  <2>4. CASE \E s \in AccessTTLs : ConfigureTTL(s)
        BY <2>4, ConfigureInv
  <2> QED BY <1>3, <2>1, <2>2, <2>3, <2>4 DEF Administer
<1>4. CASE Subscriptions
      BY <1>4, SubscriptionsInv
<1>5. CASE TickTokens
      BY <1>5, TickInv
<1>6. CASE UNCHANGED tokenVars
      BY <1>6 DEF tokenVars, IInv, TokenTypeOK, CounterCovers, OneLiveRefresh, LifeIsBounded,
                  NobodyWaitsForTheDead, Live
<1> QED BY <1>1, <1>2, <1>3, <1>4, <1>5, <1>6 DEF TokenNext

LEMMA Invariance == TokenSpec => []IInv
BY InitInv, StepInv, PTL DEF TokenSpec

-----------------------------------------------------------------------------
(* Two facts about steps.                                                  *)

\* Every action but signing in leaves the counter or takes it back to zero.
LEMMA OnlyLoginCounts ==
  ASSUME IInv, [TokenNext]_tokenVars, counter' > counter
  PROVE  \E u \in Users : Login(u)
<1>1. counter \in Nat
      BY DEF IInv, TokenTypeOK
<1>2. ASSUME NEW t \in Tokens, Refresh(t) \/ Logout(t) PROVE counter' = counter
      BY <1>2 DEF Refresh, Rotate, RefuseSpent, RefuseReused, Logout
<1>3. ASSUME Administer PROVE counter' \in {0, counter}
      BY <1>3 DEF Administer, RevokeUser, ExpireAccess, ResetTokens, ConfigureTTL
<1>4. ASSUME Subscriptions \/ TickTokens \/ UNCHANGED tokenVars PROVE counter' = counter
      BY <1>4 DEF Subscriptions, OnFamilyRevoked, Unsubscribe, TickTokens, tokenVars
<1> QED BY <1>1, <1>2, <1>3, <1>4 DEF TokenNext

\* Who signs in sweeps no family whose refresh token would be honoured.
LEMMA SweepSpares ==
  ASSUME NEW u \in Users, IInv, Login(u), NEW t, RefreshAnswer(t) = "ok"
  PROVE  t \in DOMAIN refresh'
<1> DEFINE f == refresh[t].family
<1> USE TokenConstants DEF IInv
<1>1. t \in DOMAIN refresh /\ t \in DOMAIN access
      BY DEF RefreshAnswer, TokenTypeOK
<1>2. f \in DOMAIN families /\ families[f] \in Family /\ refresh[t].consumed \in BOOLEAN
      BY <1>1 DEF OneLiveRefresh, TokenTypeOK
<1>3. ~ SpentAt(families[f])
      BY <1>1, <1>2 DEF RefreshAnswer, Family
<1>4. families[f].age <= RefreshMax /\ families[f].age \in Nat /\ ttl \in Nat
      BY <1>2, <1>3 DEF SpentAt, Family, TokenTypeOK
<1>5. f \notin Stale
      BY <1>4 DEF Stale
<1> QED BY <1>1, <1>5 DEF Login, Mint, With, TokensKept, Restrict

\* Whatever the lifetime is now, a session that may still be refreshed is there
\* after the sweep (TokenStore._sweep).
THEOREM TheSweptAreSpent == TokenSpec => SweptIsSpent
<1>1. ASSUME IInv, [TokenNext]_tokenVars
      PROVE  \A t \in 1..minted :
               RefreshAnswer(t) = "ok" /\ counter' > counter => t \in DOMAIN refresh'
      BY <1>1, OnlyLoginCounts, SweepSpares
<1> QED BY <1>1, Invariance, PTL DEF TokenSpec, SweptIsSpent

-----------------------------------------------------------------------------
(* What a step can do to an access token: it stays or goes, keeps its      *)
(* family, and neither its time nor its family comes back to life.         *)

NothingRevives ==
  \A t \in DOMAIN access' : t <= minted =>
    /\ t \in DOMAIN access
    /\ access'[t].family = access[t].family
    /\ access[t].left = 0 => access'[t].left = 0
    /\ families[access[t].family].revoked => families'[access[t].family].revoked

LEMMA LoginRevives ==
  ASSUME NEW u \in Users, IInv, Login(u)
  PROVE  NothingRevives
<1> DEFINE n == counter + 1
<1>1. minted \in Nat /\ counter \in Nat
      BY DEF IInv, TokenTypeOK
<1>2. access' = With(TokensKept(access, Stale), minted + 1, [family |-> n, left |-> ttl])
      BY DEF Login, Mint
<1>3. families' = With(Restrict(families, DOMAIN families \ Stale), n,
                       [user |-> u, age |-> 0, idle |-> 0, revoked |-> FALSE])
      BY DEF Login
<1>4. ASSUME NEW t \in DOMAIN access', t <= minted
      PROVE  /\ t \in DOMAIN access /\ access'[t] = access[t]
             /\ access[t].family \notin Stale
      BY <1>1, <1>2, <1>4 DEF With, TokensKept, Restrict
<1>5. ASSUME NEW f \in DOMAIN families, f \notin Stale
      PROVE  families'[f] = families[f]
  <2>1. f # n
        BY <1>1 DEF IInv, CounterCovers
  <2> QED BY <1>3, <1>5, <2>1 DEF With, Restrict
<1> QED BY <1>4, <1>5 DEF NothingRevives, IInv, OneLiveRefresh

LEMMA RotateRevives ==
  ASSUME NEW t \in Tokens, IInv, Rotate(t)
  PROVE  NothingRevives
<1> DEFINE f == refresh[t].family
<1>1. minted \in Nat
      BY DEF IInv, TokenTypeOK
<1>2. access' = With(access, minted + 1, [family |-> f, left |-> ttl])
      BY DEF Rotate, Mint
<1>3. \A s \in DOMAIN access' : s <= minted => s \in DOMAIN access /\ access'[s] = access[s]
      BY <1>1, <1>2 DEF With
<1>4. \A g \in DOMAIN families : families'[g].revoked = families[g].revoked
      BY DEF Rotate, IInv, TokenTypeOK, Family
<1> QED BY <1>3, <1>4 DEF NothingRevives, IInv, OneLiveRefresh

LEMMA RevokingRevives ==
  ASSUME NEW S, IInv, RevokeFamilies(S), UNCHANGED access
  PROVE  NothingRevives
<1>1. \A f \in DOMAIN families : families[f].revoked => families'[f].revoked
      BY DEF RevokeFamilies, Revoked, IInv, TokenTypeOK, Family
<1> QED BY <1>1 DEF NothingRevives, IInv, OneLiveRefresh

LEMMA ExpiringRevives ==
  ASSUME NEW us, IInv, ExpireAccess(us)
  PROVE  NothingRevives
<1>1. \A t \in DOMAIN access : access[t] \in [family: FamilyIds, left: Nat]
      BY DEF IInv, TokenTypeOK
<1>2. \A t \in DOMAIN access' : /\ t \in DOMAIN access
                                /\ access'[t].family = access[t].family
                                /\ access[t].left = 0 => access'[t].left = 0
      BY <1>1 DEF ExpireAccess
<1>3. families' = families
      BY DEF ExpireAccess
<1> SUFFICES ASSUME NEW t \in DOMAIN access'
             PROVE  /\ t \in DOMAIN access
                    /\ access'[t].family = access[t].family
                    /\ access[t].left = 0 => access'[t].left = 0
                    /\ families[access[t].family].revoked => families'[access[t].family].revoked
    BY DEF NothingRevives
<1>4. families[access[t].family].revoked => families'[access[t].family].revoked
      BY <1>3
<1> QED BY <1>2, <1>4

LEMMA AgeingRevives ==
  ASSUME IInv, TickTokens
  PROVE  NothingRevives
<1>1. \A t \in DOMAIN access : access[t] \in [family: FamilyIds, left: Nat]
      BY DEF IInv, TokenTypeOK
<1>2. \A t \in DOMAIN access' : /\ t \in DOMAIN access
                                /\ access'[t].family = access[t].family
                                /\ access[t].left = 0 => access'[t].left = 0
      BY <1>1 DEF TickTokens
<1>3. ASSUME NEW f \in DOMAIN families, families[f].revoked
      PROVE  families'[f].revoked
  <2>1. families[f] \in Family
        BY DEF IInv, TokenTypeOK
  <2>2. families'[f] = [families[f] EXCEPT !.age = Later(families[f].age),
                                           !.idle = Later(families[f].idle)]
        BY DEF TickTokens
  <2>3. families'[f].revoked = families[f].revoked
        BY <2>1, <2>2 DEF Family
  <2> QED BY <1>3, <2>3
<1>4. \A t \in DOMAIN access : access[t].family \in DOMAIN families
      BY DEF IInv, OneLiveRefresh
<1> SUFFICES ASSUME NEW t \in DOMAIN access'
             PROVE  /\ t \in DOMAIN access
                    /\ access'[t].family = access[t].family
                    /\ access[t].left = 0 => access'[t].left = 0
                    /\ families[access[t].family].revoked => families'[access[t].family].revoked
    BY DEF NothingRevives
<1>5. t \in DOMAIN access /\ access[t].family \in DOMAIN families
      BY <1>2, <1>4
<1>6. families[access[t].family].revoked => families'[access[t].family].revoked
      BY <1>3, <1>5, Zenon
<1> QED BY <1>2, <1>6

LEMMA NoStepRevives ==
  ASSUME IInv, [TokenNext]_tokenVars
  PROVE  NothingRevives
<1>1. CASE \E u \in Users : Login(u)
      BY <1>1, LoginRevives
<1>2. CASE \E t \in Tokens : Refresh(t) \/ Logout(t)
  <2> PICK t \in Tokens : Refresh(t) \/ Logout(t)
      BY <1>2
  <2>1. CASE Rotate(t)
        BY <2>1, RotateRevives
  <2>2. CASE RefuseSpent(t)
        BY <2>2 DEF RefuseSpent, NothingRevives, IInv, OneLiveRefresh
  <2>3. CASE RefuseReused(t) \/ Logout(t)
        BY <2>3, RevokingRevives DEF RefuseReused, Logout
  <2> QED BY <2>1, <2>2, <2>3 DEF Refresh
<1>3. CASE Administer
  <2>1. CASE \E u \in Users : RevokeUser(u)
        BY <2>1, RevokingRevives DEF RevokeUser
  <2>2. CASE \E us : ExpireAccess(us)
        BY <2>2, ExpiringRevives
  <2>3. CASE ResetTokens
        BY <2>3 DEF ResetTokens, Empty, NothingRevives
  <2>4. CASE \E s \in AccessTTLs : ConfigureTTL(s)
        BY <2>4 DEF ConfigureTTL, NothingRevives
  <2> QED BY <1>3, <2>1, <2>2, <2>3, <2>4 DEF Administer
<1>4. CASE Subscriptions
      BY <1>4 DEF Subscriptions, OnFamilyRevoked, Unsubscribe, NothingRevives
<1>5. CASE TickTokens
      BY <1>5, AgeingRevives
<1>6. CASE UNCHANGED tokenVars
      BY <1>6 DEF tokenVars, NothingRevives
<1> QED BY <1>1, <1>2, <1>3, <1>4, <1>5, <1>6 DEF TokenNext

\* A token that was refused once is refused for ever: ids of families come
\* again after a reset, tokens do not (TokenStore.access_status, reset).
THEOREM RefusedForEver == TokenSpec => RefusedStaysRefused
<1>1. ASSUME IInv, [TokenNext]_tokenVars, NEW t \in 1..minted, AccessStatus(t) # "ok"
      PROVE  AccessStatus(t)' # "ok"
  <2>1. NothingRevives /\ IInv'
        BY <1>1, NoStepRevives, StepInv
  <2>2. t \in DOMAIN access =>
          access[t].left = 0 \/ families[access[t].family].revoked
    <3>1. t \in DOMAIN access => families[access[t].family].revoked \in BOOLEAN
          BY <1>1 DEF IInv, OneLiveRefresh, TokenTypeOK, Family
    <3> QED BY <1>1, <3>1 DEF AccessStatus
  <2>3. t \in DOMAIN access' =>
          access'[t].left = 0 \/ families'[access'[t].family].revoked
        BY <2>1, <2>2 DEF NothingRevives, IInv, TokenTypeOK
  <2>4. t \in DOMAIN access' => families'[access'[t].family].revoked \in BOOLEAN
        BY <2>1 DEF IInv, OneLiveRefresh, TokenTypeOK, Family
  <2> QED BY <2>3, <2>4 DEF AccessStatus
<1>2. ASSUME IInv, [TokenNext]_tokenVars
      PROVE  \A t \in 1..minted : AccessStatus(t) # "ok" => AccessStatus(t)' # "ok"
      BY <1>1, <1>2
<1> QED BY <1>2, Invariance, PTL DEF TokenSpec, RefusedStaysRefused

-----------------------------------------------------------------------------
(* What the invariant says.                                                *)

\* The store's maps keep their types, whatever is minted, swept and reset.
THEOREM TokensAreTyped == TokenSpec => []TokenTypeOK
<1>1. IInv => TokenTypeOK
      BY DEF IInv
<1> QED BY <1>1, Invariance, PTL

\* A family never has two refresh tokens to be honoured (TokenStore.refresh).
THEOREM OneIsLive == TokenSpec => []OneLiveRefresh
<1>1. IInv => OneLiveRefresh
      BY DEF IInv
<1> QED BY <1>1, Invariance, PTL

\* No access token outlives the longest life of a session (access_ttl, refresh).
THEOREM LivesAreBounded == TokenSpec => []LifeIsBounded
<1>1. IInv => LifeIsBounded
      BY DEF IInv
<1> QED BY <1>1, Invariance, PTL

\* Subscriptions are for families that can still be revoked (on_family_revoked).
THEOREM NobodyIsForgotten == TokenSpec => []NobodyWaitsForTheDead
<1>1. IInv => NobodyWaitsForTheDead
      BY DEF IInv
<1> QED BY <1>1, Invariance, PTL

\* All that holds at every moment of the store, together (TokenStore).
THEOREM TokensAreSafe == TokenSpec => []TokenSafety
<1>1. IInv => TokenSafety
      BY DEF IInv, TokenSafety
<1> QED BY <1>1, Invariance, PTL

\* All that no step of the store does, together: a refused token is refused for
\* ever, and one that would be honoured is not swept (TokenStore).
THEOREM TheSpentStaySpent == TokenSpec => TokensStaySpent
BY RefusedForEver, TheSweptAreSpent DEF TokensStaySpent

-----------------------------------------------------------------------------
(* The session store of the web app.                                       *)

IssuedTo(t, s) == t \in DOMAIN ours /\ ours[t] = s

Unburnt(t) == t \in DOMAIN refresh => ~ refresh[t].consumed

\* What the web app holds for a session was issued to it; what it presents, and
\* what it was answered, is not burnt.
PairsAreOurs ==
  /\ \A s \in DOMAIN sessions : IssuedTo(sessions[s].pair, s)
  /\ \A s \in DOMAIN inflight :
       /\ IssuedTo(inflight[s].presented, s)
       /\ inflight[s].state = "sent" => Unburnt(inflight[s].presented)
       /\ inflight[s].state = "answered" => IssuedTo(inflight[s].pair, s) /\ Unburnt(inflight[s].pair)

\* All that was issued to a session is of one family, and a session that was
\* never signed in has nothing.
OneFamily ==
  \A t, u \in DOMAIN ours \cap DOMAIN access : ours[t] = ours[u] => access[t].family = access[u].family

SignedInOnly == \A t \in DOMAIN ours : logout[ours[t]] # "unused"

OutIsRevoked ==
  \A t \in DOMAIN ours \cap DOMAIN access :
    logout[ours[t]] \in {"revoked", "out"} => families[access[t].family].revoked

\* The inductive invariant of the web app's store over the API's.
SInv ==
  /\ SessionTypeOK
  /\ StoreHoldsTheNewest
  /\ PairsAreOurs
  /\ OneFamily
  /\ SignedInOnly
  /\ OutIsRevoked

\* The tokens a step burns are among S.
BurnsOnly(S) ==
  \A t \in DOMAIN refresh' : t <= minted =>
    /\ t \in DOMAIN refresh
    /\ refresh'[t].consumed => refresh[t].consumed \/ t \in S

LEMMA LoginBurns ==
  ASSUME NEW u, IInv, Login(u)
  PROVE  BurnsOnly({}) /\ minted' = minted + 1 /\ minted + 1 \in Tokens
         /\ refresh'[minted + 1].consumed = FALSE
<1>1. minted \in Nat /\ minted + 1 \in Tokens /\ minted' = minted + 1
  BY TokenConstants DEF IInv, TokenTypeOK, Login, Mint, Tokens
<1>2. refresh' = With(TokensKept(refresh, Stale), minted + 1, [family |-> counter + 1, consumed |-> FALSE])
  BY DEF Login, Mint
<1> QED BY <1>1, <1>2 DEF With, TokensKept, Restrict, BurnsOnly

LEMMA RotateBurns ==
  ASSUME NEW t, IInv, Rotate(t)
  PROVE  BurnsOnly({t}) /\ minted' = minted + 1 /\ minted + 1 \in Tokens
         /\ refresh'[minted + 1].consumed = FALSE
         /\ access'[minted + 1].family = refresh[t].family
<1>1. minted \in Nat /\ minted + 1 \in Tokens /\ minted' = minted + 1
  BY TokenConstants DEF IInv, TokenTypeOK, Rotate, Mint, Tokens
<1>2. PICK burnt, f : burnt = [refresh EXCEPT ![t].consumed = TRUE] /\ f = refresh[t].family
  OBVIOUS
<1>3. /\ refresh' = With(burnt, minted + 1, [family |-> f, consumed |-> FALSE])
      /\ access' = With(access, minted + 1, [family |-> f, left |-> ttl])
  BY <1>2 DEF Rotate, Mint
<1>4. refresh'[minted + 1].consumed = FALSE /\ access'[minted + 1].family = f
  BY <1>3 DEF With
<1>5. DOMAIN burnt = DOMAIN refresh /\ \A x \in DOMAIN refresh : x # t => burnt[x] = refresh[x]
  BY <1>2
<1>6. BurnsOnly({t})
  <2>1. ASSUME NEW x \in DOMAIN refresh', x <= minted PROVE x \in DOMAIN refresh /\ refresh'[x] = burnt[x]
    BY <1>1, <1>3, <1>5, <2>1 DEF With
  <2> QED BY <1>5, <2>1 DEF BurnsOnly
<1> QED BY <1>1, <1>2, <1>4, <1>6

LEMMA RefuseSpentBurns ==
  ASSUME NEW t, IInv, RefuseSpent(t)
  PROVE  BurnsOnly({t}) /\ UNCHANGED minted
<1>1. refresh' = [refresh EXCEPT ![t].consumed = TRUE]
  BY DEF RefuseSpent
<1> QED BY <1>1 DEF BurnsOnly, RefuseSpent

LEMMA OtherStepsBurnNothing ==
  ASSUME IInv
  PROVE  /\ \A t : RefuseReused(t) \/ Logout(t) => BurnsOnly({}) /\ UNCHANGED minted
         /\ Administer \/ Subscriptions \/ TickTokens => BurnsOnly({}) /\ UNCHANGED minted
         /\ UNCHANGED tokenVars => BurnsOnly({}) /\ UNCHANGED minted
<1>1. UNCHANGED <<refresh, minted>> => BurnsOnly({}) /\ UNCHANGED minted
  BY DEF BurnsOnly
<1>2. ASSUME NEW t, RefuseReused(t) \/ Logout(t) PROVE UNCHANGED <<refresh, minted>>
  BY <1>2 DEF RefuseReused, Logout
<1>3. ASSUME Administer PROVE BurnsOnly({}) /\ UNCHANGED minted
  <2>1. CASE ResetTokens
    BY <2>1 DEF ResetTokens, Empty, BurnsOnly
  <2>2. CASE UNCHANGED <<refresh, minted>>
    BY <1>1, <2>2
  <2> QED BY <1>3, <2>1, <2>2 DEF Administer, RevokeUser, ExpireAccess, ConfigureTTL
<1>4. ASSUME Subscriptions \/ TickTokens \/ UNCHANGED tokenVars PROVE UNCHANGED <<refresh, minted>>
  BY <1>4 DEF Subscriptions, OnFamilyRevoked, Unsubscribe, TickTokens, tokenVars
<1> QED BY <1>1, <1>2, <1>3, <1>4

LEMMA OursAreMinted ==
  ASSUME IInv, SInv
  PROVE  /\ \A t \in DOMAIN ours : t \in 1..minted /\ t \in Tokens /\ t <= minted /\ ours[t] \in Sids
         /\ minted \in Nat /\ minted + 1 \notin DOMAIN ours
  BY TokenConstants DEF IInv, TokenTypeOK, SInv, SessionTypeOK, Tokens

\* What was issued stays unburnt unless the step burns it.
LEMMA StaysUnburnt ==
  ASSUME IInv, SInv, NEW S, BurnsOnly(S), NEW t \in DOMAIN ours, t \notin S, Unburnt(t)
  PROVE  Unburnt(t)'
<1>1. t <= minted
  BY OursAreMinted
<1> QED BY <1>1 DEF BurnsOnly, Unburnt

\* Families are what they were, and stay revoked, when nothing is issued and
\* nobody is logged out.
LEMMA FamiliesStay ==
  ASSUME IInv, SInv, NothingRevives, ours' = ours,
         \A s \in Sids : logout'[s] \in {"revoked", "out"} => logout[s] \in {"revoked", "out"}
  PROVE  OneFamily' /\ OutIsRevoked'
<1>1. ASSUME NEW t \in DOMAIN ours, t \in DOMAIN access'
      PROVE  /\ t \in DOMAIN access /\ access'[t].family = access[t].family
             /\ families[access[t].family].revoked => families'[access[t].family].revoked
             /\ ours[t] \in Sids
  BY <1>1, OursAreMinted DEF NothingRevives
<1>2. OneFamily'
  BY <1>1 DEF OneFamily, SInv
<1>3. ASSUME NEW t \in DOMAIN ours', t \in DOMAIN access', logout'[ours'[t]] \in {"revoked", "out"}
      PROVE  families'[access'[t].family].revoked
  <2>1. t \in DOMAIN ours /\ ours'[t] = ours[t] /\ ours[t] \in Sids
    BY <1>1, <1>3
  <2>2. logout[ours[t]] \in {"revoked", "out"}
    BY <1>3, <2>1
  <2>3. t \in DOMAIN access /\ access'[t].family = access[t].family
    BY <1>1, <1>3, <2>1
  <2>4. families[access[t].family].revoked
    BY <2>1, <2>2, <2>3 DEF OutIsRevoked, SInv
  <2>5. families'[access[t].family].revoked
    BY <1>1, <1>3, <2>1, <2>4
  <2> QED BY <2>3, <2>5
<1>4. OutIsRevoked'
  BY <1>3 DEF OutIsRevoked
<1> QED BY <1>2, <1>4

\* A step of the tokens that burns none of the web app's.
LEMMA OthersKeep ==
  ASSUME IInv, SInv, NothingRevives, NEW S, BurnsOnly(S), S \cap DOMAIN ours = {},
         minted' \in Nat, minted <= minted', UNCHANGED storeVars
  PROVE  SInv'
<1>1. /\ sessions' = sessions /\ inflight' = inflight /\ logout' = logout /\ ours' = ours
  BY DEF storeVars
<1>2. OneFamily' /\ OutIsRevoked'
  BY <1>1, FamiliesStay
<1>3. SessionTypeOK'
  <2>1. DOMAIN ours \subseteq 1..minted'
    BY OursAreMinted
  <2> QED BY <1>1, <2>1 DEF SInv, SessionTypeOK
<1>4. \A t \in DOMAIN ours : Unburnt(t) => Unburnt(t)'
  BY StaysUnburnt
<1>5. PairsAreOurs'
  BY <1>1, <1>4 DEF PairsAreOurs, IssuedTo, SInv
<1>6. StoreHoldsTheNewest'
  <2>1. \A s \in DOMAIN sessions \ DOMAIN inflight : Unburnt(sessions[s].pair) /\ sessions[s].pair \in DOMAIN ours
    BY DEF SInv, StoreHoldsTheNewest, Unburnt, PairsAreOurs, IssuedTo
  <2>2. \A s \in DOMAIN sessions \ DOMAIN inflight : Unburnt(sessions[s].pair)'
    BY <1>1, <1>4, <2>1
  <2> QED BY <1>1, <2>2 DEF StoreHoldsTheNewest, Unburnt
<1> QED BY <1>1, <1>2, <1>3, <1>5, <1>6 DEF SInv, SignedInOnly

LEMMA OthersSafe ==
  ASSUME IInv, SInv, NothingRevives, Others, UNCHANGED storeVars
  PROVE  SInv'
<1>1. minted \in Nat
  BY OursAreMinted
<1>2. CASE \E u \in Users : Login(u)
  <2>1. BurnsOnly({}) /\ minted' = minted + 1
    BY <1>2, LoginBurns
  <2> QED BY <1>1, <2>1, OthersKeep
<1>3. CASE \E t \in Tokens \ DOMAIN ours : Refresh(t) \/ Logout(t)
  <2>1. PICK t \in Tokens \ DOMAIN ours : Refresh(t) \/ Logout(t)
    BY <1>3
  <2>2. (BurnsOnly({}) \/ BurnsOnly({t})) /\ minted' \in {minted, minted + 1}
    BY <2>1, RotateBurns, RefuseSpentBurns, OtherStepsBurnNothing DEF Refresh
  <2>3. minted' \in Nat /\ minted <= minted'
    BY <1>1, <2>2
  <2>4. {} \cap DOMAIN ours = {} /\ {t} \cap DOMAIN ours = {}
    BY <2>1
  <2>5. CASE BurnsOnly({})
    BY <2>3, <2>4, <2>5, OthersKeep
  <2>6. CASE BurnsOnly({t})
    BY <2>3, <2>4, <2>6, OthersKeep
  <2> QED BY <2>2, <2>5, <2>6
<1>4. CASE Administer \/ Subscriptions
  <2>1. BurnsOnly({}) /\ minted' = minted
    BY <1>4, OtherStepsBurnNothing
  <2> QED BY <1>1, <2>1, OthersKeep
<1> QED BY <1>2, <1>3, <1>4 DEF Others

\* Time passes.
LEMMA TickSafe ==
  ASSUME IInv, SInv, NothingRevives, TickSessions
  PROVE  SInv'
<1>1. BurnsOnly({}) /\ minted' = minted /\ UNCHANGED <<inflight, logout, ours>>
  BY OtherStepsBurnNothing DEF TickSessions
<1>2. OneFamily' /\ OutIsRevoked'
  BY <1>1, FamiliesStay
<1>3. /\ DOMAIN sessions' = DOMAIN sessions
      /\ \A s \in DOMAIN sessions : sessions'[s] \in Entry /\ sessions'[s].pair = sessions[s].pair
      /\ sessions' \in [DOMAIN sessions -> Entry]
  <2>1. \A s \in DOMAIN sessions : sessions[s] \in Entry
    BY DEF SInv, SessionTypeOK
  <2>2. sessions' = [s \in DOMAIN sessions |->
                      [sessions[s] EXCEPT !.fresh = IF @ = 0 THEN 0 ELSE @ - 1]]
    BY DEF TickSessions
  <2>3. ASSUME NEW s \in DOMAIN sessions
        PROVE  sessions'[s] \in Entry /\ sessions'[s].pair = sessions[s].pair
    <3>1. PICK n \in Nat : n = IF sessions[s].fresh = 0 THEN 0 ELSE sessions[s].fresh - 1
      <4>1. sessions[s].fresh \in Nat
        BY <2>1 DEF Entry
      <4> QED BY <4>1
    <3>2. sessions'[s] = [sessions[s] EXCEPT !.fresh = n]
      BY <2>2, <3>1
    <3> QED BY <2>1, <3>2 DEF Entry
  <2> QED BY <2>2, <2>3
<1>4. SessionTypeOK'
  BY <1>1, <1>3 DEF SInv, SessionTypeOK
<1>5. \A t \in DOMAIN ours : Unburnt(t) => Unburnt(t)'
  BY <1>1, StaysUnburnt
<1>6. PairsAreOurs'
  BY <1>1, <1>3, <1>5 DEF PairsAreOurs, IssuedTo, SInv
<1>7. StoreHoldsTheNewest'
  <2>1. \A s \in DOMAIN sessions \ DOMAIN inflight : Unburnt(sessions[s].pair) /\ sessions[s].pair \in DOMAIN ours
    BY DEF SInv, StoreHoldsTheNewest, Unburnt, PairsAreOurs, IssuedTo
  <2>2. \A s \in DOMAIN sessions \ DOMAIN inflight : sessions'[s].pair \in DOMAIN refresh' => ~ refresh'[sessions'[s].pair].consumed
    BY <1>3, <1>5, <2>1 DEF Unburnt
  <2> QED BY <1>1, <1>3, <2>2 DEF StoreHoldsTheNewest
<1> QED BY <1>1, <1>2, <1>4, <1>6, <1>7 DEF SInv, SignedInOnly

\* What the store holds while no refresh is under way is unburnt and issued.
LEMMA HeldIsUnburnt ==
  ASSUME SInv, NEW s \in DOMAIN sessions, s \notin DOMAIN inflight
  PROVE  Unburnt(sessions[s].pair) /\ IssuedTo(sessions[s].pair, s)
  BY DEF SInv, StoreHoldsTheNewest, Unburnt, PairsAreOurs

LEMMA HoldingIsEntry ==
  ASSUME NEW p \in Tokens, NEW n \in Nat
  PROVE  Holding(p, n) \in Entry /\ Holding(p, n).pair = p
<1>1. PICK m : m = IF n > Skew THEN n - Skew ELSE 0
  OBVIOUS
<1>3. m \in Nat
  BY <1>1, SkewAssumption
<1>2. Holding(p, n) = [pair |-> p, fresh |-> m]
  BY <1>1 DEF Holding
<1> QED BY <1>2, <1>3 DEF Entry

\* Steps of the store alone.
LEMMA RefreshOnceSafe ==
  ASSUME IInv, SInv, NEW s \in Sids, RefreshOnce(s)
  PROVE  SInv'
<1>1. PICK c : c = [presented |-> sessions[s].pair, state |-> "sent", pair |-> NoAnswer, lifetime |-> 0]
  OBVIOUS
<1>2. /\ s \in DOMAIN sessions /\ s \notin DOMAIN inflight /\ inflight' = With(inflight, s, c)
      /\ UNCHANGED <<tokenVars, sessions, logout, ours>>
  BY <1>1 DEF RefreshOnce
<1>3. Unburnt(sessions[s].pair) /\ IssuedTo(sessions[s].pair, s) /\ sessions[s].pair \in Tokens
  BY <1>2, HeldIsUnburnt, OursAreMinted DEF IssuedTo
<1>4. c \in Call
  BY <1>1, <1>3 DEF Call
<1>5. /\ DOMAIN inflight \subseteq Sids /\ inflight \in [DOMAIN inflight -> Call]
  BY DEF SInv, SessionTypeOK
<1>6. /\ DOMAIN inflight' = DOMAIN inflight \cup {s} /\ DOMAIN inflight' \subseteq Sids
      /\ inflight' \in [DOMAIN inflight' -> Call]
      /\ inflight'[s] = c /\ \A x \in DOMAIN inflight \ {s} : inflight'[x] = inflight[x]
  BY <1>2, <1>4, <1>5 DEF With
<1>7. SessionTypeOK'
  BY <1>2, <1>6 DEF SInv, SessionTypeOK, tokenVars
<1>8. OneFamily' /\ OutIsRevoked' /\ SignedInOnly'
  BY <1>2 DEF SInv, OneFamily, OutIsRevoked, SignedInOnly, tokenVars
<1>9. StoreHoldsTheNewest'
  BY <1>2, <1>6 DEF SInv, StoreHoldsTheNewest, tokenVars
<1>10. PairsAreOurs'
  <2>1. refresh' = refresh /\ ours' = ours /\ sessions' = sessions
    BY <1>2 DEF tokenVars
  <2>2. \A x \in DOMAIN inflight' : x = s \/ (x \in DOMAIN inflight /\ inflight'[x] = inflight[x])
    BY <1>6
  <2> QED BY <1>1, <1>3, <1>6, <2>1, <2>2 DEF SInv, PairsAreOurs, IssuedTo, Unburnt
<1> QED BY <1>7, <1>8, <1>9, <1>10 DEF SInv

LEMMA LoseSafe ==
  ASSUME IInv, SInv, NEW s \in Sids, LoseRefresh(s)
  PROVE  SInv'
<1>1. PICK c : c = [inflight[s] EXCEPT !.state = "failed", !.pair = NoAnswer, !.lifetime = 0]
  OBVIOUS
<1>2. /\ s \in DOMAIN inflight /\ inflight' = [inflight EXCEPT ![s] = c]
      /\ UNCHANGED <<tokenVars, sessions, logout, ours>>
  BY <1>1 DEF LoseRefresh, Answered
<1>3. /\ DOMAIN inflight \subseteq Sids /\ inflight \in [DOMAIN inflight -> Call]
  BY DEF SInv, SessionTypeOK
<1>4. c \in Call /\ c.presented = inflight[s].presented /\ c.state = "failed"
  BY <1>1, <1>2, <1>3 DEF Call
<1>5. /\ DOMAIN inflight' = DOMAIN inflight /\ inflight' \in [DOMAIN inflight -> Call]
      /\ inflight'[s] = c /\ \A x \in DOMAIN inflight \ {s} : inflight'[x] = inflight[x]
  BY <1>2, <1>3, <1>4
<1>6. SessionTypeOK'
  BY <1>2, <1>5 DEF SInv, SessionTypeOK, tokenVars
<1>7. OneFamily' /\ OutIsRevoked' /\ SignedInOnly' /\ StoreHoldsTheNewest'
  BY <1>2, <1>5 DEF SInv, OneFamily, OutIsRevoked, SignedInOnly, StoreHoldsTheNewest, tokenVars
<1>8. PairsAreOurs'
  <2>1. refresh' = refresh /\ ours' = ours /\ sessions' = sessions
    BY <1>2 DEF tokenVars
  <2> QED BY <1>2, <1>4, <1>5, <2>1 DEF SInv, PairsAreOurs, IssuedTo, Unburnt
<1> QED BY <1>6, <1>7, <1>8 DEF SInv

LEMMA HearSafe ==
  ASSUME IInv, SInv, NEW s \in Sids, HearRefresh(s)
  PROVE  SInv'
<1>1. PICK c : c = inflight[s]
  OBVIOUS
<1>2. PICK h : h = Holding(c.pair, c.lifetime)
  OBVIOUS
<1>3. /\ s \in DOMAIN inflight /\ c.state # "sent" /\ inflight' = Without(inflight, s)
      /\ sessions' = IF c.state = "answered" THEN With(sessions, s, h) ELSE Without(sessions, s)
      /\ UNCHANGED <<tokenVars, logout, ours>>
  BY <1>1, <1>2 DEF HearRefresh
<1>4. /\ DOMAIN inflight \subseteq Sids /\ inflight \in [DOMAIN inflight -> Call]
      /\ DOMAIN sessions \subseteq Sids /\ sessions \in [DOMAIN sessions -> Entry]
  BY DEF SInv, SessionTypeOK
<1>5. /\ DOMAIN inflight' = DOMAIN inflight \ {s} /\ DOMAIN inflight' \subseteq Sids
      /\ inflight' \in [DOMAIN inflight' -> Call]
      /\ \A x \in DOMAIN inflight' : inflight'[x] = inflight[x]
  BY <1>3, <1>4 DEF Without, Restrict
<1>6. /\ DOMAIN sessions' \subseteq Sids /\ sessions' \in [DOMAIN sessions' -> Entry]
      /\ s \in DOMAIN sessions' => IssuedTo(sessions'[s].pair, s) /\ Unburnt(sessions'[s].pair)
      /\ \A x \in DOMAIN sessions' \ {s} : x \in DOMAIN sessions /\ sessions'[x] = sessions[x]
  <2>1. CASE c.state = "answered"
    <3>1. IssuedTo(c.pair, s) /\ Unburnt(c.pair)
      BY <1>1, <1>3, <2>1 DEF SInv, PairsAreOurs
    <3>2. c.pair \in Tokens /\ c.lifetime \in Nat
      BY <1>1, <1>3, <1>4, <3>1, OursAreMinted DEF IssuedTo, Call
    <3>3. h \in Entry /\ h.pair = c.pair
      BY <1>2, <3>2, HoldingIsEntry
    <3>4. sessions' = With(sessions, s, h)
      BY <1>3, <2>1
    <3>5. /\ DOMAIN sessions' = DOMAIN sessions \cup {s} /\ DOMAIN sessions' \subseteq Sids
          /\ sessions' \in [DOMAIN sessions' -> Entry]
          /\ sessions'[s] = h /\ \A x \in DOMAIN sessions \ {s} : sessions'[x] = sessions[x]
      BY <1>4, <3>3, <3>4 DEF With
    <3> QED BY <3>1, <3>3, <3>5
  <2>2. CASE c.state # "answered"
    <3>1. sessions' = Without(sessions, s)
      BY <1>3, <2>2
    <3> QED BY <1>4, <3>1 DEF Without, Restrict
  <2> QED BY <2>1, <2>2
<1>7. refresh' = refresh /\ ours' = ours /\ logout' = logout /\ minted' = minted
  BY <1>3 DEF tokenVars
<1>8. SessionTypeOK'
  BY <1>5, <1>6, <1>7 DEF SInv, SessionTypeOK
<1>9. OneFamily' /\ OutIsRevoked' /\ SignedInOnly'
  BY <1>3 DEF SInv, OneFamily, OutIsRevoked, SignedInOnly, tokenVars
<1>10. StoreHoldsTheNewest'
  <2>1. ASSUME NEW x \in DOMAIN sessions', x \notin DOMAIN inflight'
        PROVE  Unburnt(sessions'[x].pair)
    <3>1. CASE x = s
      BY <1>6, <3>1
    <3>2. CASE x # s
      <4>1. x \in DOMAIN sessions /\ x \notin DOMAIN inflight /\ sessions'[x] = sessions[x]
        BY <1>5, <1>6, <2>1, <3>2
      <4> QED BY <4>1, HeldIsUnburnt
    <3> QED BY <3>1, <3>2
  <2> QED BY <1>7, <2>1 DEF StoreHoldsTheNewest, Unburnt
<1>11. PairsAreOurs'
  <2>1. ASSUME NEW x \in DOMAIN sessions' PROVE IssuedTo(sessions'[x].pair, x)
    BY <1>6 DEF SInv, PairsAreOurs
  <2>2. \A x \in DOMAIN inflight' : x \in DOMAIN inflight /\ inflight'[x] = inflight[x]
    BY <1>5
  <2> QED BY <1>7, <2>1, <2>2 DEF SInv, PairsAreOurs, IssuedTo, Unburnt
<1> QED BY <1>8, <1>9, <1>10, <1>11 DEF SInv

LEMMA DropSafe ==
  ASSUME IInv, SInv, NEW s \in Sids, DropSession(s)
  PROVE  SInv'
<1>1. /\ sessions' = Without(sessions, s) /\ UNCHANGED <<tokenVars, inflight, ours>>
      /\ logout[s] \in {"revoked", "failed"}
      /\ logout' = [logout EXCEPT ![s] = IF logout[s] = "revoked" THEN "out" ELSE "gone"]
  BY DEF DropSession
<1>2. /\ DOMAIN sessions \subseteq Sids /\ sessions \in [DOMAIN sessions -> Entry]
      /\ logout \in [Sids -> {"unused", "none", "revoked", "failed", "out", "gone"}]
  BY DEF SInv, SessionTypeOK
<1>3. /\ DOMAIN sessions' = DOMAIN sessions \ {s} /\ sessions' \in [DOMAIN sessions' -> Entry]
      /\ \A x \in DOMAIN sessions' : sessions'[x] = sessions[x]
  BY <1>1, <1>2 DEF Without, Restrict
<1>4. /\ logout' \in [Sids -> {"unused", "none", "revoked", "failed", "out", "gone"}]
      /\ \A x \in Sids : /\ logout'[x] \in {"revoked", "out"} <=> logout[x] \in {"revoked", "out"}
                         /\ logout'[x] = "unused" <=> logout[x] = "unused"
  <2>1. \A x \in Sids : logout'[x] = IF x = s THEN IF logout[s] = "revoked" THEN "out" ELSE "gone"
                                     ELSE logout[x]
    BY <1>1, <1>2
  <2>2. logout' \in [Sids -> {"unused", "none", "revoked", "failed", "out", "gone"}]
    BY <1>1, <1>2
  <2> QED BY <1>1, <2>1, <2>2
<1>5. SessionTypeOK'
  BY <1>1, <1>2, <1>3, <1>4 DEF SInv, SessionTypeOK, tokenVars
<1>6. \A t \in DOMAIN ours : ours[t] \in Sids
  BY OursAreMinted
<1>7. OneFamily' /\ OutIsRevoked' /\ SignedInOnly'
  BY <1>1, <1>4, <1>6 DEF SInv, OneFamily, OutIsRevoked, SignedInOnly, tokenVars
<1>8. StoreHoldsTheNewest' /\ PairsAreOurs'
  BY <1>1, <1>3 DEF SInv, StoreHoldsTheNewest, PairsAreOurs, IssuedTo, Unburnt, tokenVars
<1> QED BY <1>5, <1>7, <1>8 DEF SInv

\* A new pair is issued to s: it is of the family of what s has, or s has nothing.
LEMMA FamiliesGrow ==
  ASSUME IInv, SInv, NothingRevives, NEW s \in Sids, NEW k, k = minted + 1,
         ours' = With(ours, k, s),
         \A x \in Sids \ {s} : logout'[x] = logout[x],
         logout'[s] \notin {"revoked", "out"},
         \A t \in DOMAIN ours \cap DOMAIN access : ours[t] = s => access'[k].family = access[t].family
  PROVE  OneFamily' /\ (\A t \in DOMAIN ours' : ours'[t] # s => logout'[ours'[t]] = logout[ours'[t]])
         /\ OutIsRevoked'
<1>1. k \notin DOMAIN ours /\ \A t \in DOMAIN ours : t <= minted /\ ours[t] \in Sids
  BY OursAreMinted
<1>2. /\ DOMAIN ours' = DOMAIN ours \cup {k} /\ ours'[k] = s
      /\ \A t \in DOMAIN ours : ours'[t] = ours[t]
  BY <1>1 DEF With
<1>3. ASSUME NEW t \in DOMAIN ours, t \in DOMAIN access'
      PROVE  /\ t \in DOMAIN access /\ access'[t].family = access[t].family
             /\ families[access[t].family].revoked => families'[access[t].family].revoked
  BY <1>1, <1>3 DEF NothingRevives
<1>4. OneFamily'
  <2>1. ASSUME NEW t \in DOMAIN ours', NEW u \in DOMAIN ours', t \in DOMAIN access', u \in DOMAIN access',
               ours'[t] = ours'[u]
        PROVE  access'[t].family = access'[u].family
    <3>1. CASE t = k /\ u = k
      BY <3>1
    <3>2. CASE t = k /\ u # k
      <4>1. u \in DOMAIN ours /\ ours[u] = s
        BY <1>2, <2>1, <3>2
      <4>2. u \in DOMAIN access /\ access'[u].family = access[u].family
        BY <1>3, <2>1, <4>1
      <4> QED BY <3>2, <4>1, <4>2
    <3>3. CASE t # k /\ u = k
      <4>1. t \in DOMAIN ours /\ ours[t] = s
        BY <1>2, <2>1, <3>3
      <4>2. t \in DOMAIN access /\ access'[t].family = access[t].family
        BY <1>3, <2>1, <4>1
      <4> QED BY <3>3, <4>1, <4>2
    <3>4. CASE t # k /\ u # k
      <4>1. t \in DOMAIN ours /\ u \in DOMAIN ours /\ ours[t] = ours[u]
        BY <1>2, <2>1, <3>4
      <4>2. /\ t \in DOMAIN access /\ access'[t].family = access[t].family
            /\ u \in DOMAIN access /\ access'[u].family = access[u].family
        BY <1>3, <2>1, <4>1
      <4> QED BY <4>1, <4>2 DEF SInv, OneFamily
    <3> QED BY <3>1, <3>2, <3>3, <3>4
  <2> QED BY <2>1 DEF OneFamily
<1>5. \A t \in DOMAIN ours' : ours'[t] # s => t \in DOMAIN ours /\ logout'[ours'[t]] = logout[ours'[t]]
  BY <1>1, <1>2
<1>6. OutIsRevoked'
  <2>1. ASSUME NEW t \in DOMAIN ours', t \in DOMAIN access', logout'[ours'[t]] \in {"revoked", "out"}
        PROVE  families'[access'[t].family].revoked
    <3>1. ours'[t] # s
      BY <2>1
    <3>2. t \in DOMAIN ours /\ ours'[t] = ours[t] /\ logout[ours[t]] \in {"revoked", "out"}
      BY <1>2, <1>5, <2>1, <3>1
    <3>3. t \in DOMAIN access /\ access'[t].family = access[t].family
      BY <1>3, <2>1, <3>2
    <3>4. families[access[t].family].revoked
      BY <3>2, <3>3 DEF SInv, OutIsRevoked
    <3>5. families'[access[t].family].revoked
      BY <1>3, <2>1, <3>2, <3>4
    <3> QED BY <3>3, <3>5
  <2> QED BY <2>1 DEF OutIsRevoked
<1> QED BY <1>4, <1>5, <1>6

LEMMA PutSafe ==
  ASSUME IInv, SInv, NothingRevives, NEW s \in Sids, NEW u \in Users, PutSession(s, u)
  PROVE  SInv'
<1>1. PICK k : k = minted + 1
  OBVIOUS
<1>2. /\ BurnsOnly({}) /\ minted' = k /\ k \in Tokens /\ refresh'[k].consumed = FALSE /\ minted \in Nat
  BY <1>1, LoginBurns, OursAreMinted DEF PutSession
<1>3. PICK h : h = Holding(k, ttl)
  OBVIOUS
<1>4. /\ logout[s] = "unused" /\ sessions' = With(sessions, s, h) /\ ours' = With(ours, k, s)
      /\ logout' = [logout EXCEPT ![s] = "none"] /\ inflight' = inflight
  BY <1>2, <1>3 DEF PutSession
<1>5. h \in Entry /\ h.pair = k
  <2>1. ttl \in Nat
    BY TokenConstants DEF IInv, TokenTypeOK
  <2> QED BY <1>2, <1>3, <2>1, HoldingIsEntry
<1>6. SessionTypeOK
  BY DEF SInv
<1>7. k \notin DOMAIN ours /\ \A t \in DOMAIN ours : t \in 1..minted /\ ours[t] \in Sids /\ ours[t] # s
  BY <1>1, <1>4, OursAreMinted DEF SInv, SignedInOnly
<1>8. /\ DOMAIN ours' = DOMAIN ours \cup {k} /\ ours'[k] = s /\ \A t \in DOMAIN ours : ours'[t] = ours[t]
      /\ ours' \in [DOMAIN ours' -> Sids]
  BY <1>4, <1>6, <1>7 DEF With, SessionTypeOK
<1>9. /\ DOMAIN sessions' = DOMAIN sessions \cup {s} /\ sessions' \in [DOMAIN sessions' -> Entry]
      /\ sessions'[s] = h /\ \A x \in DOMAIN sessions \ {s} : sessions'[x] = sessions[x]
  BY <1>4, <1>5, <1>6 DEF With, SessionTypeOK
<1>10. /\ logout' \in [Sids -> {"unused", "none", "revoked", "failed", "out", "gone"}]
       /\ logout'[s] = "none" /\ \A x \in Sids \ {s} : logout'[x] = logout[x]
  BY <1>4, <1>6 DEF SessionTypeOK
<1>11. SessionTypeOK'
  <2>1. DOMAIN ours' \subseteq 1..minted'
    BY <1>1, <1>2, <1>7, <1>8
  <2>2. DOMAIN sessions' \subseteq Sids
    BY <1>6, <1>9 DEF SessionTypeOK
  <2> QED BY <1>4, <1>6, <1>8, <1>9, <1>10, <2>1, <2>2 DEF SessionTypeOK
<1>12. OneFamily' /\ OutIsRevoked'
  <2>2. \A t \in DOMAIN ours \cap DOMAIN access : ours[t] = s => access'[k].family = access[t].family
    BY <1>7
  <2> QED BY <1>1, <1>4, <1>10, <2>2, FamiliesGrow
<1>13. SignedInOnly'
  BY <1>7, <1>8, <1>10 DEF SInv, SignedInOnly
<1>14. \A t \in DOMAIN ours : Unburnt(t) => Unburnt(t)'
  BY <1>2, StaysUnburnt
<1>15. Unburnt(k)'
  BY <1>2 DEF Unburnt
<1>16. PairsAreOurs'
  <2>1. ASSUME NEW x \in DOMAIN sessions'
        PROVE  sessions'[x].pair \in DOMAIN ours' /\ ours'[sessions'[x].pair] = x
    <3>1. CASE x = s
      BY <1>5, <1>8, <1>9, <3>1
    <3>2. CASE x # s
      BY <1>8, <1>9, <2>1, <3>2 DEF SInv, PairsAreOurs, IssuedTo
    <3> QED BY <3>1, <3>2
  <2>2. ASSUME NEW x \in DOMAIN inflight
        PROVE  /\ inflight[x].presented \in DOMAIN ours' /\ ours'[inflight[x].presented] = x
               /\ (inflight[x].state = "sent" /\ inflight[x].presented \in DOMAIN refresh'
                     => ~ refresh'[inflight[x].presented].consumed)
               /\ (inflight[x].state = "answered"
                     => /\ inflight[x].pair \in DOMAIN ours' /\ ours'[inflight[x].pair] = x
                        /\ (inflight[x].pair \in DOMAIN refresh' => ~ refresh'[inflight[x].pair].consumed))
    <3>1. \A t \in DOMAIN ours : Unburnt(t) => (t \in DOMAIN refresh' => ~ refresh'[t].consumed)
      BY <1>14 DEF Unburnt
    <3> QED BY <1>8, <3>1 DEF SInv, PairsAreOurs, IssuedTo
  <2> QED BY <1>4, <2>1, <2>2 DEF PairsAreOurs, IssuedTo, Unburnt
<1>17. StoreHoldsTheNewest'
  <2>1. ASSUME NEW x \in DOMAIN sessions', x \notin DOMAIN inflight
        PROVE  sessions'[x].pair \in DOMAIN refresh' => ~ refresh'[sessions'[x].pair].consumed
    <3>1. CASE x = s
      BY <1>2, <1>5, <1>9, <3>1
    <3>2. CASE x # s
      <4>1. x \in DOMAIN sessions /\ sessions'[x] = sessions[x]
        BY <1>9, <3>2
      <4>2. Unburnt(sessions[x].pair) /\ sessions[x].pair \in DOMAIN ours
        BY <2>1, <4>1, HeldIsUnburnt DEF IssuedTo
      <4>3. Unburnt(sessions[x].pair)'
        BY <1>14, <4>2, <4>1 DEF Unburnt
      <4> QED BY <4>1, <4>3 DEF Unburnt
    <3> QED BY <3>1, <3>2
  <2> QED BY <1>4, <2>1 DEF StoreHoldsTheNewest
<1> QED BY <1>11, <1>12, <1>13, <1>16, <1>17 DEF SInv

\* The web app's tokens that a refresh of s cannot burn, and what they keep.
LEMMA TheRestIsKept ==
  ASSUME IInv, SInv, NEW s \in DOMAIN inflight, NEW S, BurnsOnly(S), S \subseteq {inflight[s].presented}
  PROVE  /\ \A t \in DOMAIN ours : ours[t] # s /\ Unburnt(t) => (t \in DOMAIN refresh' => ~ refresh'[t].consumed)
         /\ \A x \in DOMAIN sessions \ DOMAIN inflight :
              sessions[x].pair \in DOMAIN refresh' => ~ refresh'[sessions[x].pair].consumed
<1>1. ours[inflight[s].presented] = s
  BY DEF SInv, PairsAreOurs, IssuedTo
<1>2. ASSUME NEW t \in DOMAIN ours, ours[t] # s, Unburnt(t), t \in DOMAIN refresh' PROVE ~ refresh'[t].consumed
  <2>1. t \notin S
    BY <1>1, <1>2
  <2> QED BY <1>2, <2>1, StaysUnburnt DEF Unburnt
<1>3. ASSUME NEW x \in DOMAIN sessions, x \notin DOMAIN inflight, sessions[x].pair \in DOMAIN refresh'
      PROVE  ~ refresh'[sessions[x].pair].consumed
  <2>1. Unburnt(sessions[x].pair) /\ IssuedTo(sessions[x].pair, x) /\ x # s
    BY <1>3, HeldIsUnburnt
  <2> QED BY <1>2, <1>3, <2>1 DEF IssuedTo
<1> QED BY <1>2, <1>3

\* A refresh is refused, or there is nothing to refresh.
LEMMA RefusedSafe ==
  ASSUME IInv, SInv, NothingRevives, NEW s \in DOMAIN inflight, Answered(s, "failed", NoAnswer),
         NEW S, BurnsOnly(S), S \subseteq {inflight[s].presented}, minted' = minted,
         UNCHANGED <<sessions, logout, ours>>
  PROVE  SInv'
<1>1. PICK c : c = [inflight[s] EXCEPT !.state = "failed", !.pair = NoAnswer, !.lifetime = 0]
  OBVIOUS
<1>2. inflight' = [inflight EXCEPT ![s] = c]
  BY <1>1 DEF Answered
<1>3. /\ DOMAIN inflight \subseteq Sids /\ inflight \in [DOMAIN inflight -> Call]
  BY DEF SInv, SessionTypeOK
<1>4. c \in Call /\ c.presented = inflight[s].presented /\ c.state = "failed"
  BY <1>1, <1>3 DEF Call
<1>5. /\ DOMAIN inflight' = DOMAIN inflight /\ inflight' \in [DOMAIN inflight -> Call]
      /\ inflight'[s] = c /\ \A x \in DOMAIN inflight \ {s} : inflight'[x] = inflight[x]
  BY <1>2, <1>3, <1>4
<1>6. sessions' = sessions /\ logout' = logout /\ ours' = ours
  OBVIOUS
<1>7. SessionTypeOK'
  BY <1>3, <1>5, <1>6 DEF SInv, SessionTypeOK
<1>8. OneFamily' /\ OutIsRevoked' /\ SignedInOnly'
  BY <1>6, FamiliesStay DEF SInv, SignedInOnly
<1>9. StoreHoldsTheNewest'
  BY <1>5, <1>6, TheRestIsKept DEF StoreHoldsTheNewest
<1>10. PairsAreOurs'
  <2>1. \A t \in DOMAIN ours : ours[t] # s /\ Unburnt(t) => (t \in DOMAIN refresh' => ~ refresh'[t].consumed)
    BY TheRestIsKept
  <2>2. ASSUME NEW x \in DOMAIN inflight
        PROVE  /\ inflight'[x].presented \in DOMAIN ours /\ ours[inflight'[x].presented] = x
               /\ (inflight'[x].state = "sent" /\ inflight'[x].presented \in DOMAIN refresh'
                     => ~ refresh'[inflight'[x].presented].consumed)
               /\ (inflight'[x].state = "answered"
                     => /\ inflight'[x].pair \in DOMAIN ours /\ ours[inflight'[x].pair] = x
                        /\ (inflight'[x].pair \in DOMAIN refresh' => ~ refresh'[inflight'[x].pair].consumed))
    <3>1. CASE x = s
      BY <1>4, <1>5, <3>1 DEF SInv, PairsAreOurs, IssuedTo
    <3>2. CASE x # s
      <4>1. inflight'[x] = inflight[x]
        BY <1>5, <3>2
      <4> QED BY <2>1, <3>2, <4>1 DEF SInv, PairsAreOurs, IssuedTo
    <3> QED BY <3>1, <3>2
  <2>3. \A x \in DOMAIN sessions : sessions[x].pair \in DOMAIN ours /\ ours[sessions[x].pair] = x
    BY DEF SInv, PairsAreOurs, IssuedTo
  <2> QED BY <1>5, <1>6, <2>2, <2>3 DEF PairsAreOurs, IssuedTo, Unburnt
<1> QED BY <1>7, <1>8, <1>9, <1>10 DEF SInv

\* A refresh is answered with the next pair of the family.
LEMMA RotatedSafe ==
  ASSUME IInv, SInv, NothingRevives, NEW s \in DOMAIN inflight, inflight[s].state = "sent",
         Rotate(inflight[s].presented), ours' = With(ours, minted', s), Answered(s, "answered", minted'),
         UNCHANGED <<sessions, logout>>
  PROVE  SInv'
<1>1. PICK p, k : p = inflight[s].presented /\ k = minted + 1
  OBVIOUS
<1>2. /\ BurnsOnly({p}) /\ minted' = k /\ k \in Tokens /\ refresh'[k].consumed = FALSE /\ minted \in Nat
      /\ access'[k].family = refresh[p].family
  BY <1>1, RotateBurns, OursAreMinted
<1>3. PICK c : c = [inflight[s] EXCEPT !.state = "answered", !.pair = k, !.lifetime = ttl]
  OBVIOUS
<1>4. SessionTypeOK
  BY DEF SInv
<1>5. /\ DOMAIN inflight \subseteq Sids /\ inflight \in [DOMAIN inflight -> Call] /\ s \in Sids
      /\ ttl \in Nat
  BY <1>4, TokenConstants DEF SessionTypeOK, IInv, TokenTypeOK
<1>6. inflight' = [inflight EXCEPT ![s] = c]
  <2>1. k # NoAnswer
    BY <1>1, <1>2 DEF NoAnswer
  <2> QED BY <1>2, <1>3, <2>1 DEF Answered
<1>7. c \in Call /\ c.presented = p /\ c.state = "answered" /\ c.pair = k
  BY <1>1, <1>2, <1>3, <1>5 DEF Call
<1>8. /\ DOMAIN inflight' = DOMAIN inflight /\ inflight' \in [DOMAIN inflight -> Call]
      /\ inflight'[s] = c /\ \A x \in DOMAIN inflight \ {s} : inflight'[x] = inflight[x]
  BY <1>5, <1>6, <1>7
<1>9. /\ p \in DOMAIN ours /\ ours[p] = s /\ p \in DOMAIN refresh /\ p \in DOMAIN access
      /\ access[p].family = refresh[p].family /\ ~ families[access[p].family].revoked
  <2>1. p \in DOMAIN ours /\ ours[p] = s
    BY <1>1 DEF SInv, PairsAreOurs, IssuedTo
  <2>2. RefreshAnswer(p) = "ok"
    BY <1>1 DEF Rotate
  <2>3. p \in DOMAIN refresh /\ ~ families[refresh[p].family].revoked
    <3>1. p \in DOMAIN refresh
      BY <2>2 DEF RefreshAnswer
    <3>2. families[refresh[p].family].revoked \in BOOLEAN
      BY <3>1 DEF IInv, TokenTypeOK, OneLiveRefresh, Family
    <3> QED BY <2>2, <3>1, <3>2 DEF RefreshAnswer
  <2>4. p \in DOMAIN access /\ access[p].family = refresh[p].family
    BY <2>3 DEF IInv, TokenTypeOK, OneLiveRefresh
  <2> QED BY <2>1, <2>3, <2>4
<1>10. logout[s] \notin {"revoked", "out"} /\ logout[s] # "unused"
  BY <1>9 DEF SInv, OutIsRevoked, SignedInOnly
<1>11. OneFamily' /\ OutIsRevoked'
  <2>1. \A t \in DOMAIN ours \cap DOMAIN access : ours[t] = s => access'[k].family = access[t].family
    BY <1>2, <1>9 DEF SInv, OneFamily
  <2>2. ours' = With(ours, k, s) /\ logout' = logout
    BY <1>2
  <2> QED BY <1>1, <1>5, <1>10, <2>1, <2>2, FamiliesGrow
<1>12. k \notin DOMAIN ours /\ \A t \in DOMAIN ours : t \in 1..minted /\ ours[t] \in Sids
  BY <1>1, OursAreMinted
<1>13. /\ DOMAIN ours' = DOMAIN ours \cup {k} /\ ours'[k] = s /\ \A t \in DOMAIN ours : ours'[t] = ours[t]
       /\ ours' \in [DOMAIN ours' -> Sids]
  BY <1>2, <1>5, <1>12 DEF With
<1>14. SessionTypeOK'
  <2>1. DOMAIN ours' \subseteq 1..minted'
    BY <1>1, <1>2, <1>12, <1>13
  <2> QED BY <1>4, <1>8, <1>13, <2>1 DEF SessionTypeOK
<1>15. SignedInOnly'
  BY <1>10, <1>13 DEF SInv, SignedInOnly
<1>16. /\ \A t \in DOMAIN ours : ours[t] # s /\ Unburnt(t) => (t \in DOMAIN refresh' => ~ refresh'[t].consumed)
       /\ \A x \in DOMAIN sessions \ DOMAIN inflight :
            sessions[x].pair \in DOMAIN refresh' => ~ refresh'[sessions[x].pair].consumed
  BY <1>1, <1>2, TheRestIsKept
<1>17. StoreHoldsTheNewest'
  BY <1>8, <1>16 DEF StoreHoldsTheNewest
<1>18. PairsAreOurs'
  <2>1. ASSUME NEW x \in DOMAIN inflight
        PROVE  /\ inflight'[x].presented \in DOMAIN ours' /\ ours'[inflight'[x].presented] = x
               /\ (inflight'[x].state = "sent" /\ inflight'[x].presented \in DOMAIN refresh'
                     => ~ refresh'[inflight'[x].presented].consumed)
               /\ (inflight'[x].state = "answered"
                     => /\ inflight'[x].pair \in DOMAIN ours' /\ ours'[inflight'[x].pair] = x
                        /\ (inflight'[x].pair \in DOMAIN refresh' => ~ refresh'[inflight'[x].pair].consumed))
    <3>1. CASE x = s
      <4>1. inflight'[x] = c
        BY <1>8, <3>1
      <4> QED BY <1>2, <1>7, <1>9, <1>13, <3>1, <4>1
    <3>2. CASE x # s
      <4>1. inflight'[x] = inflight[x]
        BY <1>8, <3>2
      <4> QED BY <1>13, <1>16, <3>2, <4>1 DEF SInv, PairsAreOurs, IssuedTo
    <3> QED BY <3>1, <3>2
  <2>2. \A x \in DOMAIN sessions : sessions[x].pair \in DOMAIN ours' /\ ours'[sessions[x].pair] = x
    BY <1>13 DEF SInv, PairsAreOurs, IssuedTo
  <2> QED BY <1>8, <2>1, <2>2 DEF PairsAreOurs, IssuedTo, Unburnt
<1> QED BY <1>11, <1>14, <1>15, <1>17, <1>18 DEF SInv

LEMMA ServeRefreshSafe ==
  ASSUME IInv, SInv, NothingRevives, NEW s \in Sids, ServeRefresh(s)
  PROVE  SInv'
<1>1. s \in DOMAIN inflight /\ inflight[s].state = "sent" /\ UNCHANGED <<sessions, logout>>
  BY DEF ServeRefresh
<1>2. CASE Rotate(inflight[s].presented) /\ ours' = With(ours, minted', s) /\ Answered(s, "answered", minted')
  BY <1>1, <1>2, RotatedSafe
<1>3. CASE (RefuseSpent(inflight[s].presented) \/ RefuseReused(inflight[s].presented))
           /\ Answered(s, "failed", NoAnswer) /\ UNCHANGED ours
  <2>1. CASE RefuseSpent(inflight[s].presented)
    BY <1>1, <1>3, <2>1, RefuseSpentBurns, RefusedSafe
  <2>2. CASE RefuseReused(inflight[s].presented)
    <3>1. BurnsOnly({}) /\ UNCHANGED minted
      BY <2>2, OtherStepsBurnNothing
    <3> QED BY <1>1, <1>3, <3>1, RefusedSafe
  <2> QED BY <1>3, <2>1, <2>2
<1>4. CASE Answered(s, "failed", NoAnswer) /\ UNCHANGED <<tokenVars, ours>>
  <2>1. BurnsOnly({}) /\ UNCHANGED minted
    BY <1>4, OtherStepsBurnNothing
  <2> QED BY <1>1, <1>4, <2>1, RefusedSafe
<1> QED BY <1>2, <1>3, <1>4 DEF ServeRefresh

LEMMA LogoutSafe ==
  ASSUME IInv, SInv, NothingRevives, NEW s \in Sids, ServeLogout(s)
  PROVE  SInv'
<1>1. /\ s \in DOMAIN sessions /\ logout[s] = "none"
      /\ sessions' = sessions /\ inflight' = inflight /\ ours' = ours
  BY DEF ServeLogout
<1>2. BurnsOnly({}) /\ minted' = minted
  BY OtherStepsBurnNothing DEF ServeLogout
<1>3. PICK v \in {"revoked", "failed"} :
        /\ logout' = [logout EXCEPT ![s] = v]
        /\ (v = "revoked" => Logout(sessions[s].pair))
  BY DEF ServeLogout
<1>4. /\ logout' \in [Sids -> {"unused", "none", "revoked", "failed", "out", "gone"}]
      /\ logout'[s] = v /\ \A x \in Sids \ {s} : logout'[x] = logout[x]
  BY <1>3 DEF SInv, SessionTypeOK
<1>5. SessionTypeOK'
  BY <1>1, <1>2, <1>4 DEF SInv, SessionTypeOK
<1>6. \A t \in DOMAIN ours : ours[t] \in Sids
  BY OursAreMinted
<1>7. SignedInOnly'
  BY <1>1, <1>4, <1>6 DEF SInv, SignedInOnly
<1>8. ASSUME NEW t \in DOMAIN ours, t \in DOMAIN access'
      PROVE  /\ t \in DOMAIN access /\ access'[t].family = access[t].family
             /\ families[access[t].family].revoked => families'[access[t].family].revoked
  BY <1>8, OursAreMinted DEF NothingRevives
<1>9. OneFamily'
  BY <1>1, <1>8 DEF SInv, OneFamily
<1>10. OutIsRevoked'
  <2>1. ASSUME NEW t \in DOMAIN ours, t \in DOMAIN access', logout'[ours[t]] \in {"revoked", "out"}
        PROVE  families'[access'[t].family].revoked
    <3>1. CASE ours[t] = s
      <4>1. PICK p : p = sessions[s].pair
        OBVIOUS
      <4>2. Logout(p)
        BY <1>3, <1>4, <2>1, <3>1, <4>1
      <4>3. p \in DOMAIN access /\ access' = access
            /\ families' = Revoked({access[p].family})
        BY <4>2 DEF Logout, RevokeFamilies
      <4>4. p \in DOMAIN ours /\ ours[p] = s
        BY <1>1, <4>1 DEF SInv, PairsAreOurs, IssuedTo
      <4>5. access[t].family = access[p].family /\ access[p].family \in DOMAIN families
        BY <2>1, <3>1, <4>3, <4>4 DEF SInv, OneFamily, IInv, OneLiveRefresh
      <4>6. families'[access[p].family].revoked
        <5>1. families[access[p].family] \in Family
          BY <4>5 DEF IInv, TokenTypeOK
        <5>2. families'[access[p].family] = [families[access[p].family] EXCEPT !.revoked = TRUE]
          BY <4>3, <4>5 DEF Revoked
        <5> QED BY <5>1, <5>2 DEF Family
      <4> QED BY <4>3, <4>5, <4>6
    <3>2. CASE ours[t] # s
      <4>1. logout[ours[t]] \in {"revoked", "out"}
        BY <1>4, <1>6, <2>1, <3>2
      <4>2. t \in DOMAIN access /\ access'[t].family = access[t].family
        BY <1>8, <2>1
      <4>3. families[access[t].family].revoked
        BY <4>1, <4>2 DEF SInv, OutIsRevoked
      <4>4. families'[access[t].family].revoked
        BY <1>8, <2>1, <4>3
      <4> QED BY <4>2, <4>4
    <3> QED BY <3>1, <3>2
  <2> QED BY <1>1, <2>1 DEF OutIsRevoked
<1>11. \A t \in DOMAIN ours : Unburnt(t) => (t \in DOMAIN refresh' => ~ refresh'[t].consumed)
  BY <1>2, StaysUnburnt DEF Unburnt
<1>12. PairsAreOurs'
  BY <1>1, <1>11 DEF SInv, PairsAreOurs, IssuedTo, Unburnt
<1>13. StoreHoldsTheNewest'
  <2>1. \A x \in DOMAIN sessions \ DOMAIN inflight : Unburnt(sessions[x].pair) /\ sessions[x].pair \in DOMAIN ours
    BY HeldIsUnburnt DEF IssuedTo
  <2> QED BY <1>1, <1>11, <2>1 DEF StoreHoldsTheNewest
<1> QED BY <1>5, <1>7, <1>9, <1>10, <1>12, <1>13 DEF SInv

\* A step of the web app, of time or of anybody else is a step of the token store.
LEMMA StepsOfTheStore ==
  ASSUME IInv, SInv, [SessionNext]_sessionVars
  PROVE  [TokenNext]_tokenVars
<1>1. ASSUME NEW s \in Sids, NEW u \in Users, PutSession(s, u) PROVE TokenNext
  BY <1>1 DEF PutSession, TokenNext
<1>2. ASSUME NEW s \in Sids, ServeRefresh(s) PROVE [TokenNext]_tokenVars
  <2>1. s \in DOMAIN inflight
    BY <1>2 DEF ServeRefresh
  <2>2. PICK p \in Tokens : p = inflight[s].presented
    BY <2>1 DEF SInv, SessionTypeOK, Call
  <2> QED BY <1>2, <2>2 DEF ServeRefresh, TokenNext, Refresh
<1>3. ASSUME NEW s \in Sids, ServeLogout(s) PROVE [TokenNext]_tokenVars
  <2>1. s \in DOMAIN sessions
    BY <1>3 DEF ServeLogout
  <2>2. PICK p \in Tokens : p = sessions[s].pair
    BY <2>1 DEF SInv, SessionTypeOK, Entry
  <2> QED BY <1>3, <2>2 DEF ServeLogout, TokenNext
<1>4. ASSUME NEW s \in Sids, RefreshOnce(s) \/ LoseRefresh(s) \/ HearRefresh(s) \/ DropSession(s)
      PROVE  UNCHANGED tokenVars
  BY <1>4 DEF RefreshOnce, LoseRefresh, HearRefresh, DropSession
<1>5. CASE WebApp
  BY <1>1, <1>2, <1>3, <1>4, <1>5 DEF WebApp
<1>6. CASE TickSessions
  BY <1>6 DEF TickSessions, TokenNext
<1>7. CASE Others
  BY <1>7 DEF Others, TokenNext
<1>8. CASE UNCHANGED sessionVars
  BY <1>8 DEF sessionVars
<1> QED BY <1>5, <1>6, <1>7, <1>8 DEF SessionNext

LEMMA SessionStepInv == IInv /\ SInv /\ [SessionNext]_sessionVars => IInv' /\ SInv'
<1> SUFFICES ASSUME IInv, SInv, [SessionNext]_sessionVars PROVE IInv' /\ SInv'
  OBVIOUS
<1>1. [TokenNext]_tokenVars
  BY StepsOfTheStore
<1>2. IInv' /\ NothingRevives
  BY <1>1, StepInv, NoStepRevives
<1>3. CASE WebApp
  <2> PICK s \in Sids : \/ \E u \in Users : PutSession(s, u)
                        \/ RefreshOnce(s) \/ ServeRefresh(s) \/ LoseRefresh(s) \/ HearRefresh(s)
                        \/ ServeLogout(s) \/ DropSession(s)
    BY <1>3 DEF WebApp
  <2>1. CASE \E u \in Users : PutSession(s, u)
    BY <1>2, <2>1, PutSafe
  <2>2. CASE RefreshOnce(s)
    BY <1>2, <2>2, RefreshOnceSafe
  <2>3. CASE ServeRefresh(s)
    BY <1>2, <2>3, ServeRefreshSafe
  <2>4. CASE LoseRefresh(s)
    BY <1>2, <2>4, LoseSafe
  <2>5. CASE HearRefresh(s)
    BY <1>2, <2>5, HearSafe
  <2>6. CASE ServeLogout(s)
    BY <1>2, <2>6, LogoutSafe
  <2>7. CASE DropSession(s)
    BY <1>2, <2>7, DropSafe
  <2>8. SInv'
    BY <2>1, <2>2, <2>3, <2>4, <2>5, <2>6, <2>7
  <2> QED BY <1>2, <2>8
<1>4. CASE TickSessions
  BY <1>2, <1>4, TickSafe
<1>5. CASE Others /\ UNCHANGED storeVars
  BY <1>2, <1>5, OthersSafe
<1>6. CASE UNCHANGED sessionVars
  <2>1. UNCHANGED <<tokenVars, sessions, inflight, logout, ours>>
    BY <1>6 DEF sessionVars, storeVars
  <2>2. SInv'
    BY <2>1 DEF tokenVars, SInv, SessionTypeOK, StoreHoldsTheNewest, PairsAreOurs, IssuedTo, Unburnt,
                OneFamily, SignedInOnly, OutIsRevoked
  <2> QED BY <1>2, <2>2
<1> QED BY <1>3, <1>4, <1>5, <1>6 DEF SessionNext

LEMMA SessionInitInv == SessionInit => IInv /\ SInv
<1> SUFFICES ASSUME SessionInit PROVE IInv /\ SInv
  OBVIOUS
<1>1. IInv
  BY InitInv DEF SessionInit
<1>2. SInv
  BY DEF SessionInit, Empty, SInv, SessionTypeOK, StoreHoldsTheNewest, PairsAreOurs,
         OneFamily, SignedInOnly, OutIsRevoked
<1> QED BY <1>1, <1>2

\* What the invariant says of the answers the web app gets.
LEMMA SafeSessions ==
  ASSUME IInv, SInv
  PROVE  SessionSafety
<1>1. \A t \in DOMAIN access : /\ t \in DOMAIN refresh /\ refresh[t].family = access[t].family
                               /\ families[access[t].family].revoked \in BOOLEAN
                               /\ refresh[t].consumed \in BOOLEAN
  BY DEF IInv, TokenTypeOK, OneLiveRefresh, Family
<1>2. DOMAIN refresh = DOMAIN access
  BY DEF IInv, TokenTypeOK
<1>3. NeverPresentsBurnt
  <2>1. ASSUME NEW s \in DOMAIN inflight, inflight[s].state = "sent"
        PROVE  RefreshAnswer(inflight[s].presented) # "refresh_reused"
    <3>1. PICK p : p = inflight[s].presented
      OBVIOUS
    <3>2. p \in DOMAIN refresh => ~ refresh[p].consumed
      BY <2>1, <3>1 DEF SInv, PairsAreOurs, Unburnt
    <3>3. RefreshAnswer(p) # "refresh_reused"
      BY <1>1, <1>2, <3>2 DEF RefreshAnswer
    <3> QED BY <3>1, <3>3
  <2> QED BY <2>1 DEF NeverPresentsBurnt
<1>4. LoggedOutIsOut
  <2>1. ASSUME NEW t \in DOMAIN ours, logout[ours[t]] \in {"revoked", "out"}
        PROVE  AccessStatus(t) # "ok" /\ RefreshAnswer(t) # "ok"
    <3>1. CASE t \in DOMAIN access
      <4>1. families[access[t].family].revoked
        BY <2>1, <3>1 DEF SInv, OutIsRevoked
      <4> QED BY <1>1, <3>1, <4>1 DEF AccessStatus, RefreshAnswer
    <3>2. CASE t \notin DOMAIN access
      BY <1>2, <3>2 DEF AccessStatus, RefreshAnswer
    <3> QED BY <3>1, <3>2
  <2> QED BY <2>1 DEF LoggedOutIsOut
<1> QED BY <1>3, <1>4 DEF SInv, SessionSafety

\* Whatever is lost, late or repeated, and whoever else signs in, logs out or
\* administers the API: the web app never works with a pair the API has burnt,
\* and a session that was logged out has nothing left that works
\* (session-store.ts).
THEOREM SessionsAreSafe == SessionSpec => []SessionSafety
<1>1. SessionSpec => [](IInv /\ SInv)
  BY SessionInitInv, SessionStepInv, PTL DEF SessionSpec
<1>2. IInv /\ SInv => SessionSafety
  BY SafeSessions
<1> QED BY <1>1, <1>2, PTL
=============================================================================
