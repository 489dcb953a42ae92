----------------------------- MODULE MCRecords -----------------------------
(* Instances of Records for TLC.  Only the largest part is worth its symmetry. *)
EXTENDS Records, TLC

Symm == Permutations(Recorders)
=============================================================================
