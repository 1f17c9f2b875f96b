SPECIFICATION FairSpec
CONSTANTS
  m1 = m1
  m2 = m2
  w1 = w1
  w2 = w2
  c1 = c1
  c2 = c2
  c3 = c3
  c4 = c4
  NoMaster = NoMaster
  Masters <- TwoMasters
  Workers <- TwoWorkers
  Checks <- FourChecks
  Valid <- AllButOne
  nBatchSize = 2
INVARIANTS
  CountersExact
PROPERTIES
  ImplementsCheckSession
  WaitReturns
  StopReturns
