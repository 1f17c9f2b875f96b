SPECIFICATION FairSpec
CONSTANTS
  s1 = s1
  s2 = s2
  p1 = p1
  Loader = Loader
  Main = Main
  Servers <- TwoServers
  Producers <- TwoProducers
  QueueLimit = 0
  MaxCallbacks = 2
  Delta = 1
  MaxTime = 1
PROPERTIES
  ShutdownEnds
CHECK_DEADLOCK FALSE
