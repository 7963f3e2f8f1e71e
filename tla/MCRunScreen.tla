---------------------------- MODULE MCRunScreen ----------------------------
(* Instances of RunScreen for TLC: one user with one or two tabs open.     *)
EXTENDS RunScreen, TLC

OneUser == [f \in {"ana1"} |-> "ana"]

(* Tabs are interchangeable, and so are queries.                           *)
TabAndQuerySymmetry == Permutations(Screens) \cup Permutations(Bodies)
=============================================================================
