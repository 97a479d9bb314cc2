SPECIFICATION FairSpec
CONSTANTS
  w1 = w1
  w2 = w2
  t1 = t1
  Faulty <- OneFaulty
  Callers <- Everyone
  Workers <- OneWorker
  Tabs <- OneTab
  MaxAborts = 1
INVARIANT CeremonyFence
PROPERTY Completes
