SPECIFICATION Spec
CONSTANTS
  r1 = r1
  r2 = r2
  NoRun = NoRun
  Faulty = {"primary"}
  Runs <- TwoRuns
  ReleaseOf <- SameRelease
  MaxReorgs = 1
  MaxLive = 2
  QuietReads = TRUE
SYMMETRY RunSymmetry
INVARIANTS AtMostOnce TerminalTruth WriteAhead MintGated EvidenceTruth
PROPERTIES AppendOnly ImplementsOneShot RestartOnlyReconciles RecoveryOnlyEnds
CHECK_DEADLOCK FALSE
