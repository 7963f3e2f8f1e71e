--------------------------- MODULE MCResultScreen ---------------------------
(* Instances of ResultScreen for TLC: one user watching one search.        *)
EXTENDS ResultScreen

OneUser == [f \in {"ana1"} |-> "ana"]
=============================================================================
