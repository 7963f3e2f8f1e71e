------------------------------ MODULE Requests ------------------------------
(***************************************************************************)
(* The way of an HTTP request through the capture API: the observer        *)
(* (platform/observer.py) wraps the chaos middleware (platform/chaos.py),  *)
(* which delays, fails or drops it; then the route authenticates it        *)
(* (deps.py), perhaps meets its rate limit (module Windows) and answers.   *)
(* Requests overlap: each is suspended while chaos delays it, and again    *)
(* while its answer is sent, and sessions begin and end meanwhile.  Routes *)
(* under /v1/auth skip chaos.  Latency is a suspension of any length.      *)
(***************************************************************************)
EXTENDS Integers, Sequences, FiniteSets, Functions

CONSTANTS
  Families,      \* token families that may call
  Clients,       \* address and user agent, as the observer tells callers apart
  ClientOf,      \* the client every family calls through
  Profiles,      \* chaos profiles: whether they fault GETs
  MaxCounters,   \* MAX_TRACKED_KEYS of the chaos controller
  RingSize,      \* records kept of a family
  Anonymous,
  InFlight,      \* bound: requests at a time
  MaxRequests    \* bound: requests ever made

ASSUME RequestConstants ==
  /\ ClientOf \in [Families -> Clients]
  /\ Anonymous \notin Families \cup Clients
  /\ Profiles \subseteq BOOLEAN
  /\ {MaxCounters, RingSize, MaxRequests} \subseteq Nat

VARIABLES
  signedIn,  \* families whose token authenticates
  profile,   \* ChaosController._profile: are GETs faulted
  counters,  \* ChaosController._counters: key -> requests decided
  flight,    \* what the middleware knows of each request under way
  sticky,    \* Observer._sticky: client -> family last seen there
  seq,       \* Observer._seq
  log        \* Observer._families: family -> its records, in order

requestVars == <<signedIn, profile, counters, flight, sticky, seq, log>>

Kinds == {"read", "write", "login", "logout"}
Idle == [phase |-> "idle"]

Keys == Families \cup Clients

Statuses == {200, 204, 401, 429, 503}

Requests == [phase: {"delayed", "answered"}, family: Families, kind: Kinds,
             fault: {"none", "unavailable", "drop"}, authed: BOOLEAN, status: Statuses \cup {0}]

Records == [seq: Nat, by: Families, authed: BOOLEAN, status: Statuses, dropped: BOOLEAN]

RequestsTypeOK ==
  /\ signedIn \subseteq Families
  /\ profile \in BOOLEAN
  /\ DOMAIN counters \subseteq Keys /\ counters \in [DOMAIN counters -> Nat]
  /\ flight \in [InFlight -> Requests \cup {Idle}]
  /\ DOMAIN sticky \subseteq Clients /\ sticky \in [DOMAIN sticky -> Families]
  /\ seq \in Nat
  /\ DOMAIN log \subseteq Families \cup {Anonymous}
  /\ \A f \in DOMAIN log : log[f] \in Seq(Records) /\ Len(log[f]) <= RingSize

RequestsInit ==
  /\ signedIn = Families
  /\ profile \in Profiles
  /\ counters = [k \in {} |-> 0]
  /\ flight = [s \in InFlight |-> Idle]
  /\ sticky = [c \in {} |-> Anonymous]
  /\ seq = 0
  /\ log = [f \in {} |-> << >>]

Set(f, k, v) == [x \in DOMAIN f \cup {k} |-> IF x = k THEN v ELSE f[x]]

Get(f, k, default) == IF k \in DOMAIN f THEN f[k] ELSE default

-----------------------------------------------------------------------------
(* Chaos.                                                                  *)

(* Whom a request counts as: its family if its token authenticates now.    *)
KeyFor(f) == IF f \in signedIn THEN f ELSE ClientOf[f]

Bump(k) ==
  LET kept == IF Cardinality(DOMAIN counters) > MaxCounters /\ k \notin DOMAIN counters
                THEN [x \in {} |-> 0] ELSE counters
  IN Set(kept, k, Get(kept, k, 0) + 1)

Faults(kind) == IF profile /\ kind = "read" THEN {"none", "unavailable", "drop"} ELSE {"none"}

Exempt == {"login", "logout"}

Busy == {s \in InFlight : flight[s] # Idle}

Arrive(s, f, kind) ==
  /\ flight[s] = Idle /\ seq + Cardinality(Busy) < MaxRequests
  /\ \E fault \in Faults(kind) :
       flight' = [flight EXCEPT ![s] = [phase |-> "delayed", family |-> f, kind |-> kind,
                                        fault |-> fault, authed |-> FALSE, status |-> 0]]
  /\ counters' = IF kind \in Exempt THEN counters ELSE Bump(KeyFor(f))
  /\ UNCHANGED <<signedIn, profile, sticky, seq, log>>

Answers(s, status, authed) ==
  flight' = [flight EXCEPT ![s] = [@ EXCEPT !.phase = "answered", !.status = status,
                                            !.authed = authed]]

(* A dropped answer begins as a 200 and breaks off.                        *)
Faulted(s) ==
  /\ flight[s] # Idle /\ flight[s].phase = "delayed" /\ flight[s].fault # "none"
  /\ Answers(s, IF flight[s].fault = "drop" THEN 200 ELSE 503, FALSE)
  /\ UNCHANGED <<signedIn, profile, counters, sticky, seq, log>>

-----------------------------------------------------------------------------
(* The route.                                                              *)

Reaches(s, kinds) == /\ flight[s] # Idle /\ flight[s].phase = "delayed"
                     /\ flight[s].fault = "none" /\ flight[s].kind \in kinds

RefusedAuth(s) ==
  /\ Reaches(s, {"read", "write"}) /\ flight[s].family \notin signedIn
  /\ Answers(s, 401, FALSE)
  /\ UNCHANGED <<signedIn, profile, counters, sticky, seq, log>>

Serve(s) ==
  /\ Reaches(s, {"read", "write"}) /\ flight[s].family \in signedIn
  /\ \E status \in {200, 429} : Answers(s, status, TRUE)
  /\ UNCHANGED <<signedIn, profile, counters, sticky, seq, log>>

(* A password is right or wrong, or the account is limited.                *)
ServeLogin(s) ==
  /\ Reaches(s, {"login"})
  /\ \/ /\ flight[s].family \notin signedIn
        /\ signedIn' = signedIn \cup {flight[s].family}
        /\ Answers(s, 200, FALSE)
     \/ /\ \E status \in {401, 429} : Answers(s, status, FALSE)
        /\ UNCHANGED signedIn
  /\ UNCHANGED <<profile, counters, sticky, seq, log>>

(* Logging out accepts an old token and authenticates nobody.              *)
ServeLogout(s) ==
  /\ Reaches(s, {"logout"})
  /\ signedIn' = signedIn \ {flight[s].family}
  /\ Answers(s, 204, FALSE)
  /\ UNCHANGED <<profile, counters, sticky, seq, log>>

-----------------------------------------------------------------------------
(* The observer writes its record when the answer is out, in finally.      *)

(* Does the request, or the answer to it, hold a token of its family?      *)
HoldsToken(r) == r.kind # "login" \/ r.status = 200

RecognisedByToken(r) == HoldsToken(r) /\ r.family \in signedIn

Recognised(r) == r.authed \/ (HoldsToken(r) /\ r.family \in signedIn)

(* Who authenticated, or whose token would, or who was seen there last.    *)
Identity(r) == IF Recognised(r) THEN r.family ELSE Get(sticky, ClientOf[r.family], Anonymous)

OneMore(s) == IF Len(s) <= RingSize + 1 THEN s ELSE SubSeq(s, Len(s) - RingSize, Len(s))

LastRecords(s) == IF Len(s) <= RingSize THEN s ELSE SubSeq(s, Len(s) - RingSize + 1, Len(s))

(* A number taken when the request arrives, not when its record is made.   *)
RecordByArrival(s) ==
  /\ flight[s] # Idle /\ flight[s].phase = "answered"
  /\ LET who == Identity(flight[s])
     IN log' = Set(log, who, LastRecords(Append(Get(log, who, << >>),
                 [seq |-> seq + Cardinality({t \in Busy : t <= s}), by |-> flight[s].family,
                  authed |-> flight[s].authed, status |-> flight[s].status, dropped |-> FALSE])))
  /\ seq' = seq + 1
  /\ flight' = [flight EXCEPT ![s] = Idle]
  /\ UNCHANGED <<signedIn, profile, counters, sticky>>

Record(s) ==
  /\ flight[s] # Idle /\ flight[s].phase = "answered"
  /\ LET r == flight[s]
         who == Identity(r)
     IN /\ seq' = seq + 1
        /\ sticky' = IF Recognised(r) THEN Set(sticky, ClientOf[r.family], who) ELSE sticky
        /\ log' = Set(log, who, LastRecords(Append(Get(log, who, << >>),
                    [seq |-> seq + 1, by |-> r.family, authed |-> r.authed,
                     status |-> r.status, dropped |-> r.fault = "drop"])))
  /\ flight' = [flight EXCEPT ![s] = Idle]
  /\ UNCHANGED <<signedIn, profile, counters>>

HandledUnlessDropped(s) == \/ Faulted(s) \/ RefusedAuth(s) \/ Serve(s) \/ ServeLogin(s)
                           \/ ServeLogout(s) \/ (Record(s) /\ flight[s].fault # "drop")

-----------------------------------------------------------------------------
Handled(s) == \/ Faulted(s) \/ RefusedAuth(s) \/ Serve(s) \/ ServeLogin(s)
              \/ ServeLogout(s) \/ Record(s)

Configure(p) ==
  /\ profile' = p
  /\ UNCHANGED <<signedIn, counters, flight, sticky, seq, log>>

(* A reset empties tokens, chaos and observer, and leaves the profile.     *)
ResetPlatform ==
  /\ signedIn' = {} /\ counters' = [k \in {} |-> 0]
  /\ sticky' = [c \in {} |-> Anonymous] /\ seq' = 0 /\ log' = [f \in {} |-> << >>]
  /\ UNCHANGED <<profile, flight>>

RequestsNext ==
  \/ \E s \in InFlight : \/ Handled(s)
                         \/ \E f \in Families, kind \in Kinds : Arrive(s, f, kind)
  \/ \E p \in Profiles : Configure(p)
  \/ ResetPlatform

RequestsFairness == \A s \in InFlight : WF_requestVars(Handled(s))

RequestsSpec == RequestsInit /\ [][RequestsNext]_requestVars /\ RequestsFairness

-----------------------------------------------------------------------------
(* A request that got past authentication is recorded under its own        *)
(* family, also when the session ended before its answer was out: the      *)
(* context kept by current_auth comes before the token (chaos.py:172).     *)
RecordsBelong ==
  \A f \in DOMAIN log : \A i \in DOMAIN log[f] : log[f][i].authed => log[f][i].by = f

(* The records of a family are in the order of their numbers, and no       *)
(* number is given twice, whichever of the overlapping requests ends first *)
(* and however full the ring is (observer.py:163).                         *)
RecordsInOrder ==
  /\ \A f \in DOMAIN log : \A i, j \in DOMAIN log[f] : i < j => log[f][i].seq < log[f][j].seq
  /\ \A f, g \in DOMAIN log : \A i \in DOMAIN log[f], j \in DOMAIN log[g] :
       log[f][i].seq = log[g][j].seq => f = g /\ i = j

(* The log of a family holds its own requests and no others, numbered once *)
(* and in order, however requests overlap, fail and are dropped.           *)
RecordsAreRight ==
  /\ RequestsTypeOK
  /\ RecordsBelong
  /\ RecordsInOrder

(* Every request that arrives ends and leaves a record, dropped or not.    *)
EveryRequestEnds == \A s \in InFlight : flight[s] # Idle ~> flight[s] = Idle
=============================================================================
