SPECIFICATION FairSpec
CONSTANTS
  o1 = o1
  n1 = n1
  NoRun = NoRun
  Faulty = {"primary"}
  Depth = 1
  MaxHeight = 2
  Runs <- RunsNew
  Successors <- New1
PROPERTIES SentIsReconciled
CHECK_DEADLOCK FALSE
