---------------------------- MODULE MCLpRunner ----------------------------
(* Instances of the first-LP runner for TLC: two processes of one release. *)
EXTENDS LpInv, TLC

CONSTANTS r1, r2

TwoRuns == {r1, r2}
SameRelease == [r \in TwoRuns |-> "release"]
RunSymmetry == Permutations(TwoRuns)
=============================================================================
