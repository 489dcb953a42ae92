----------------------------- MODULE MCLabPool -----------------------------
(* Instances of LabPool for TLC: small sets, and who launches what.           *)
EXTENDS LabPool, TLC

CONSTANTS s1, s2, s3, u1, u2, labA, labB

\* u1 launches twice, each time another lab; u2 launches the warm lab, or it is
\* u1 again who does.
MCUserId  == [s \in Sessions |-> IF s \in {s1, s2} THEN u1 ELSE u2]
MCOneUser == [s \in Sessions |-> u1]
MCLabSlug == [s \in Sessions |-> IF s = s2 THEN labB ELSE labA]

AccountSymmetry == Permutations(Accounts)
WorkerSymmetry  == Permutations(Workers)
LaunchSymmetry  == Permutations({s1, s3})
Symmetric == AccountSymmetry \cup WorkerSymmetry
\* The third launch is like the first if it is the same user's.
SymmetricToo == Symmetric \cup LaunchSymmetry
=============================================================================
