SPECIFICATION Spec
CONSTANTS
  w1 = w1
  w2 = w2
  t1 = t1
  Faulty <- OneFaulty
  Callers <- Everyone
  Workers <- TwoWorkers
  Tabs <- OneTab
  MaxAborts = 0
SYMMETRY Symmetry
INVARIANT SubmitsOnce PublishedTruth
PROPERTY ImplementsLifecycle
