SPECIFICATION FairSpec
CONSTANTS
  o1 = o1
  n1 = n1
  NoRun = NoRun
  Faulty = {"primary"}
  Depth = 0
  MaxHeight = 1
  Runs <- Runs2
  Successors <- New1
PROPERTIES SentIsReconciled
CHECK_DEADLOCK FALSE
