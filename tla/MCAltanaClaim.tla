--------------------------- MODULE MCAltanaClaim ---------------------------
(* Calls with an exact replay, a rival of the same bootstrap and a         *)
(* stranger among their claims.                                            *)
EXTENDS AltanaClaimInv, TLC

CONSTANTS r1, r2

TwoRequests == {r1, r2}
SomeClaims == {"first", "later", "stranger"}
SomeKeys == {"bootstrap", "first second", "later second", "other bootstrap"}
TheirKeys == [c \in SomeClaims |->
                CASE c = "first" -> {"bootstrap", "first second"}
                  [] c = "later" -> {"bootstrap", "later second"}
                  [] OTHER       -> {"other bootstrap"}]
=============================================================================
