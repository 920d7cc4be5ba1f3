-------------------------- MODULE MCFileCompactor --------------------------
(***************************************************************************)
(* The file compactor for TLC.  Rows are compared with rows and schemas    *)
(* with schemas, and nothing tells one of either from the others, so that  *)
(* states that differ in their names only are one.                         *)
(***************************************************************************)
EXTENDS FileCompactor

SameUpToNames == Permutations(Rows) \cup Permutations(Schemas)
=============================================================================
