------------------------------ MODULE MCWapSink ------------------------------
(* Instances of WapSink small enough for TLC.                              *)
EXTENDS WapSink, TLC

FileSymmetry == Permutations(Own) \cup Permutations(Others)
=============================================================================
