SPECIFICATION Spec
CONSTANTS
  o1 = o1
  n1 = n1
  NoRun = NoRun
  Faulty = {"primary"}
  Depth = 1
  MaxHeight = 2
  Runs <- Runs2
  Successors <- New1
INVARIANTS AtMostOnce WriteAhead EndedForGood OneValidStart TerminalTruth
PROPERTIES AppendOnly RestartOnlyReconciles OnlyOutcomesFollow ImplementsOneShot
CHECK_DEADLOCK FALSE
