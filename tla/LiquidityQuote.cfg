SPECIFICATION FairSpec
CONSTANTS
  MinTick <- LowestTick
  MaxTick = 1
  Ratio <- SmallRatio
  Q = 16
  MaxLiquidity = 24
  Basis = 4
  Prices = {1, 2, 8, 9, 10, 15, 16, 18}
  Amounts = {0, 8, 12, 13, 17, 19}
INVARIANTS ArithmeticHolds RootExact DriftsDown
PROPERTIES Ends
CHECK_DEADLOCK FALSE
