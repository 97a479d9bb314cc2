SPECIFICATION Spec
CONSTANTS
  t1 = t1
  t2 = t2
  Tabs <- OneTab
  NoClaim = NoClaim
  Expiry = 4
  MaxAge = 2
  Skew = 1
  MaxTime = 5
  MaxProbes = 3
INVARIANTS NewerWins
CHECK_DEADLOCK FALSE
