CONSTANTS
  p1 = p1
  p2 = p2
  f1 = f1
  t1 = t1
  NoPlan = NoPlan
  Plans <- OnePlan
  Findings <- NoFindings
  Grades <- Blocking
  MaxRevision = 2
  MaxPackages = 1
  Others <- NoOther
SPECIFICATION FairSpec
PROPERTY AwaitingTimesOut
CHECK_DEADLOCK FALSE
