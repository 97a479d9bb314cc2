------------------------------ MODULE MCAction ------------------------------
(***************************************************************************)
(* The test action on small instances.                                     *)
(***************************************************************************)
EXTENDS AltanaActionInv, TLC

CONSTANTS w1, w2, t1

OneFaulty == {"publicnode"}

TwoWorkers == {w1, w2}
OneWorker == {w1}
OneTab == {t1}
Everyone == {w1, w2, t1}

Symmetry == Permutations({w1, w2})
=============================================================================
