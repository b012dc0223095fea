----------------------------- MODULE MCResearch -----------------------------
(* The instances of Research TLC checks: see the .cfg files. *)
EXTENDS Research, TLC

\* The versions are far apart: the fingerprint and the gate both tell them apart.
Prints == [v \in Versions |-> v]
Apart  == {<<v, v>> : v \in Versions}

\* The paying runs are interchangeable.
RunSymmetry == Permutations(Paid)
=============================================================================
