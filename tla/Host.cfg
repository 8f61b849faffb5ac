CONSTANTS
  dispatch = dispatch
  recovery = recovery
  p1 = p1
  Workers <- TwoWorkers
  Prober <- OneProber
  Interval = 1
SPECIFICATION FairSpec
INVARIANTS
  HungIsNotReady
PROPERTIES
  AtWorkUntilStopped
CHECK_DEADLOCK FALSE
