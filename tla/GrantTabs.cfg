SPECIFICATION Spec
CONSTANTS
  t1 = t1
  t2 = t2
  Tabs <- TwoTabs
  NoClaim = NoClaim
  Expiry = 4
  MaxAge = 1
  Skew = 0
  MaxTime = 4
  MaxProbes = 2
SYMMETRY TabSymmetry
INVARIANTS AtMostOneGrant DeadEnds NewerWins
PROPERTIES SecretKept EnabledTruth
CHECK_DEADLOCK FALSE
