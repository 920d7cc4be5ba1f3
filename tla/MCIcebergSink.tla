---------------------------- MODULE MCIcebergSink ----------------------------
(* Instances of IcebergSink small enough for TLC.                          *)
EXTENDS IcebergSink, TLC

\* With auto_commit and manifests, as in a service that streams ...
Streaming == [autoCommit |-> TRUE, manifestDir |-> TRUE]

\* ... committed by its clients, with manifests or without.
Manual == [autoCommit : {FALSE}, manifestDir : BOOLEAN]

StreamingOnly     == {Streaming}
StreamingOrManual == {Streaming} \cup Manual

\* Bound: faults and commits of other writers together.
FewDisturbances == Len(faults) + rivals <= MaxFaults

\* No action tells records apart when none of them is poison.
RecordSymmetry == Permutations(Records)
=============================================================================
