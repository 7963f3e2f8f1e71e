---------------------------- MODULE MCSearchJobs ----------------------------
(* Instances of SearchJobs for TLC.                                        *)
EXTENDS SearchJobs, TLC

(* Ana is signed in twice and Ben once; or Ana alone.                      *)
TwoUsers == [f \in {"ana1", "ana2", "ben1"} |-> IF f = "ben1" THEN "ben" ELSE "ana"]
OneUser == [f \in {"ana1"} |-> "ana"]
TwoFamilies == [f \in {"ana1", "ana2"} |-> "ana"]

(* The bodies of two requests are interchangeable.                          *)
InterchangeableBodies == Permutations(Bodies)
=============================================================================
