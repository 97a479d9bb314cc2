--------------------------- MODULE MCAltanaGrant ---------------------------
(* One bootstrap, submitted by one tab or two. *)
EXTENDS AltanaGrantInv, TLC

CONSTANTS t1, t2

TwoTabs == {t1, t2}
OneTab == {t1}
TabSymmetry == Permutations(TwoTabs)
=============================================================================
