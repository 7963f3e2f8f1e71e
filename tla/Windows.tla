------------------------------ MODULE Windows -------------------------------
(***************************************************************************)
(* The sliding windows of the capture API: the rate limiter of the routes  *)
(* (platform/ratelimit.py) and the limiter of failed sign-ins (platform/   *)
(* login_limit.py).  A hit is its age in ticks, oldest first; an age stops *)
(* growing where nothing tells it from an older one.  Answers are in whole *)
(* seconds, of Second ticks each.                                          *)
(***************************************************************************)
EXTENDS Integers, Sequences, FiniteSets, Functions

CONSTANTS
  Buckets,      \* the names in BUCKETS
  Callers,      \* the families hits are counted under
  Limit,        \* bucket -> limit
  Window,       \* bucket -> window_s, in ticks
  FixedRetry,   \* bucket -> retry_after_s, 0 where it is computed
  Second,       \* ticks in a second
  MaxTracked,   \* MAX_TRACKED_KEYS
  ForgetAfter,  \* the 600 s after which an idle key may be forgotten, in ticks
  Emails,
  MaxFailures,  \* max_failures
  LoginWindow   \* window_s of the login limiter, in ticks

ASSUME WindowConstants ==
  /\ Second \in Nat \ {0}
  /\ Limit \in [Buckets -> Nat \ {0}]
  /\ Window \in [Buckets -> Nat \ {0}]
  /\ FixedRetry \in [Buckets -> Nat]
  /\ \A b \in Buckets : FixedRetry[b] = 0 \/ FixedRetry[b] * Second = Window[b]
  /\ {MaxTracked, ForgetAfter} \subseteq Nat
  /\ \A b \in Buckets : Window[b] <= ForgetAfter
  /\ {MaxFailures, LoginWindow} \subseteq Nat \ {0}

VARIABLES
  hits,      \* RateLimiter._hits: (bucket, caller) -> ages
  failures,  \* LoginLimiter._failures: email -> ages
  admitted   \* history: (bucket, caller) -> ages of what was let through and may still count

windowVars == <<hits, failures, admitted>>

Pairs == Buckets \X Callers

Ages == 0..ForgetAfter

WindowsTypeOK ==
  /\ DOMAIN hits \subseteq Pairs /\ \A p \in DOMAIN hits : hits[p] \in Seq(Ages)
  /\ DOMAIN failures \subseteq Emails
  /\ \A e \in DOMAIN failures : failures[e] \in Seq(0..LoginWindow)

WindowsInit ==
  /\ hits = [p \in {} |-> << >>]
  /\ failures = [e \in {} |-> << >>]
  /\ admitted = [p \in Pairs |-> << >>]

Put(f, k, v) == [x \in DOMAIN f \cup {k} |-> IF x = k THEN v ELSE f[x]]

Of(f, k) == IF k \in DOMAIN f THEN f[k] ELSE << >>

(* Dropping from the left while the head is too old.                       *)
TooOld(ages, window) ==
  CHOOSE n \in 0..Len(ages) :
    /\ \A i \in 1..n : ages[i] >= window
    /\ n < Len(ages) => ages[n + 1] < window

Pruned(ages, window) == SubSeq(ages, TooOld(ages, window) + 1, Len(ages))

KeepsRecentHead(ages) == ages # << >> /\ ages[1] < ForgetAfter

KeepsRecent(ages) == ages # << >> /\ ages[Len(ages)] < ForgetAfter

(* _window, which every question about a bucket goes through.              *)
Tracked == IF Cardinality(DOMAIN hits) > MaxTracked
             THEN Restrict(hits, {p \in DOMAIN hits : KeepsRecent(hits[p])})
             ELSE hits

Windowed(b, c) == Put(Tracked, <<b, c>>, Pruned(Of(Tracked, <<b, c>>), Window[b]))

SecondsFloor(ticks) == IF ticks <= Second THEN 1 ELSE ticks \div Second

(* What is left of a window of w ticks, in whole seconds, never 0.         *)
Seconds(ticks) == IF ticks <= Second THEN 1 ELSE (ticks + Second - 1) \div Second

RetryAfter(b, ages) ==
  IF FixedRetry[b] # 0 THEN FixedRetry[b]
  ELSE IF ages = << >> THEN 1 ELSE Seconds(Window[b] - ages[1])

Full(b, c) == Len(Pruned(Of(Tracked, <<b, c>>), Window[b])) >= Limit[b]

Admit(b, c) ==
  /\ ~Full(b, c)
  /\ hits' = [Windowed(b, c) EXCEPT ![<<b, c>>] = Append(@, 0)]
  /\ admitted' = [admitted EXCEPT ![<<b, c>>] = Append(@, 0)]
  /\ UNCHANGED failures

Refuse(b, c) ==
  /\ Full(b, c)
  /\ hits' = Windowed(b, c)
  /\ UNCHANGED <<failures, admitted>>

-----------------------------------------------------------------------------
(* POST /v1/auth/login: the limiter is asked first, then the password is   *)
(* compared, in one handler.                                               *)

LoginPruned(e) == Pruned(Of(failures, e), LoginWindow)

LoginFull(e) == Len(LoginPruned(e)) >= MaxFailures

LoginRetryAfter(ages) == Seconds(LoginWindow - ages[1])

LoginRefused(e) ==
  /\ LoginFull(e)
  /\ failures' = Put(failures, e, LoginPruned(e))
  /\ UNCHANGED <<hits, admitted>>

LoginWrong(e) ==
  /\ ~LoginFull(e)
  /\ failures' = Put(failures, e, Append(LoginPruned(e), 0))
  /\ UNCHANGED <<hits, admitted>>

LoginRight(e) ==
  /\ ~LoginFull(e)
  /\ failures' = Restrict(failures, DOMAIN failures \ {e})
  /\ UNCHANGED <<hits, admitted>>

ResetWindows ==
  /\ hits' = [p \in {} |-> << >>]
  /\ failures' = [e \in {} |-> << >>]
  /\ admitted' = [p \in Pairs |-> << >>]

AgedOn(ages, most) == [i \in DOMAIN ages |-> IF ages[i] <= most THEN ages[i] + 1 ELSE most]

Aged(ages, most) == [i \in DOMAIN ages |-> IF ages[i] < most THEN ages[i] + 1 ELSE most]

TickWindows ==
  /\ hits' = [p \in DOMAIN hits |-> Aged(hits[p], ForgetAfter)]
  /\ failures' = [e \in DOMAIN failures |-> Aged(failures[e], LoginWindow)]
  /\ admitted' = [p \in Pairs |-> Pruned(Aged(admitted[p], ForgetAfter), Window[p[1]])]

WindowsNext ==
  \/ \E b \in Buckets, c \in Callers : Admit(b, c) \/ Refuse(b, c)
  \/ \E e \in Emails : LoginRefused(e) \/ LoginWrong(e) \/ LoginRight(e)
  \/ ResetWindows \/ TickWindows

WindowsSpec == WindowsInit /\ [][WindowsNext]_windowVars

-----------------------------------------------------------------------------
(* In no window of a bucket are more calls let through than its limit      *)
(* allows, even when idle keys are forgotten to make room                  *)
(* (ratelimit.py:100), and no account has more failures than are allowed.  *)
LimitsHold ==
  /\ \A p \in Pairs : Len(admitted[p]) <= Limit[p[1]]
  /\ \A e \in DOMAIN failures : Len(LoginPruned(e)) <= MaxFailures

(* Whether a full window still counts limit hits after that many seconds.  *)
StillFull(ages, seconds, window, limit) ==
  Len(Pruned([i \in DOMAIN ages |-> ages[i] + seconds * Second], window)) >= limit

(* Whoever is refused and waits exactly as long as the answer says is let  *)
(* in, unless somebody spends the same budget meanwhile; and a computed    *)
(* answer is no longer than it need be (ratelimit.py:117-124).             *)
WaitingIsEnough ==
  /\ \A p \in DOMAIN hits :
       LET ages == Pruned(hits[p], Window[p[1]])
           wait == RetryAfter(p[1], ages)
       IN Len(ages) = Limit[p[1]] =>
            /\ ~StillFull(ages, wait, Window[p[1]], Limit[p[1]])
            /\ FixedRetry[p[1]] = 0 /\ wait > 1
                 => StillFull(ages, wait - 1, Window[p[1]], Limit[p[1]])
  /\ \A e \in DOMAIN failures :
       LET ages == LoginPruned(e)
       IN Len(ages) = MaxFailures =>
            ~StillFull(ages, LoginRetryAfter(ages), LoginWindow, MaxFailures)

(* A budget is never exceeded, and the delay a refusal advertises is the   *)
(* one to wait.                                                            *)
WindowsHold ==
  /\ WindowsTypeOK
  /\ LimitsHold
  /\ WaitingIsEnough
=============================================================================
