----------------------------- MODULE AppendLog -----------------------------
(***************************************************************************)
(* What paging through a running search promises its reader: the matches   *)
(* form a log that is only appended to until it is closed, and the reader  *)
(* holds a prefix of it that only grows.  "ended" is the reader being told *)
(* that there is no more, which is true when it is said and stays true.    *)
(***************************************************************************)
EXTENDS Naturals

VARIABLES
  log,     \* how many matches there are
  closed,  \* the search has finished
  shown,   \* how many of them the reader holds
  ended    \* the reader was told that was the end

vars == <<log, closed, shown, ended>>

Init == log = 0 /\ closed = FALSE /\ shown = 0 /\ ended = FALSE

Write ==
  /\ ~closed
  /\ log' >= log /\ log' \in Nat
  /\ closed' \in BOOLEAN
  /\ UNCHANGED <<shown, ended>>

Read ==
  /\ ~ended
  /\ shown' \in shown..log
  /\ ended' => (closed /\ shown' = log)
  /\ ended' \in BOOLEAN
  /\ UNCHANGED <<log, closed>>

Next == Write \/ Read

Spec == Init /\ [][Next]_vars
=============================================================================
