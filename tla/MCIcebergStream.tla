---------------------------- MODULE MCIcebergStream ----------------------------
(* Instances of IcebergStream small enough for TLC.                          *)
EXTENDS IcebergStream

MCRows == {"a", "b", "c"}
MCPartitionOf == [r \in MCRows |-> IF r = "c" THEN "q" ELSE "p"]
MCKeyOf == [r \in MCRows |-> IF r = "c" THEN 2 ELSE 1]

\* Commits within a partition, and one that reaches across.
Single == {{"a"}, {"b"}, {"c"}}
Across == {{"a"}, {"b", "c"}}
=============================================================================
