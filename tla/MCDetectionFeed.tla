-------------------------- MODULE MCDetectionFeed --------------------------
(* Instances of DetectionFeed for TLC: one session, one family, one stream *)
(* at a time.                                                              *)
EXTENDS DetectionFeed

ShowsAll == [f \in Families |-> Seqs]
=============================================================================
