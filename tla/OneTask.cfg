CONSTANTS
  p1 = p1
  p2 = p2
  f1 = f1
  t1 = t1
  NoPlan = NoPlan
  Plans <- OnePlan
  Findings <- OneFinding
  Grades <- Blocking
  MaxRevision = 3
  MaxPackages = 1
  Others <- OneOther
SPECIFICATION FairSpec
INVARIANTS
  ActiveRequestAgrees
  DoneIsEarned
  FrozenExactlyAtGate
PROPERTIES
  HistoryIsImmutable
  FindingsHoldStill
  ReviewEventuallyCloses
  AutomationComesToRest
CHECK_DEADLOCK FALSE
