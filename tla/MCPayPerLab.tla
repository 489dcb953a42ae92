---------------------------- MODULE MCPayPerLab ----------------------------
(* Instances of PayPerLab for TLC.                                            *)
EXTENDS PayPerLab, TLC

\* Orders, confirms and launches are interchangeable.
Symmetric == Permutations(Orders) \cup Permutations(Confirms) \cup Permutations(Launches)
=============================================================================
