---------------------------- MODULE MCLiquidity ----------------------------
(* Four ticks, at a scale of sixteen: every answer of the function occurs. *)
EXTENDS LiquidityQuote

LowestTick == -2
SmallRatio == [t \in -2..1 |-> CASE t = -2 -> 2 [] t = -1 -> 8 [] t = 0 -> 15 [] t = 1 -> 18]
=============================================================================
