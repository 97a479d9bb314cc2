SPECIFICATION Spec
CONSTANTS
  r1 = r1
  r2 = r2
  NoRun = NoRun
  Faulty = {"primary"}
  Runs <- TwoRuns
  ReleaseOf <- SameRelease
  MaxReorgs = 1
  MaxLive = 1
  QuietReads = FALSE
INVARIANTS TerminalTruth
CHECK_DEADLOCK FALSE
