------------------------- MODULE MCDetectionStream -------------------------
(* Instances for TLC of the two ends of a detection's way: the streams of  *)
(* the API and the list of a tab, one at a time.  Streams are              *)
(* interchangeable.                                                        *)
EXTENDS DetectionStream, TabList

VARIABLE part

wayVars == <<vars, listVars, part>>

WayInit == part \in {"streams", "lists"} /\ StreamInit /\ ListInit

StreamsPart == part = "streams" /\ StreamNext /\ UNCHANGED <<listVars, part>>
ListsPart == part = "lists" /\ ListNext /\ UNCHANGED <<vars, part>>

WayNext == StreamsPart \/ ListsPart

WaySpec == WayInit /\ [][WayNext]_wayVars

ShowsAll == [f \in Families |-> Seqs]
ShowsTwo == [f \in Families |-> Seqs \ {2}]

(* The other user sees one detection, the user of the tabs all of them.    *)
BothSee == [u \in {"ana", "ben"} |-> IF u = "ana" THEN 1..LastSeq ELSE {2}]

StreamSymmetry == Permutations(Streams)

(* What a sequence holds of a set is what filtering it leaves.             *)
ASSUME ThoseAreSelected ==
  \A seq \in UNION {[1..n -> Seqs] : n \in 0..4}, S \in SUBSET Seqs :
    Those(seq, S) = SelectSeq(seq, LAMBDA d : d \in S)
=============================================================================
