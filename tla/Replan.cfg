CONSTANTS
  p1 = p1
  p2 = p2
  f1 = f1
  NoPlan = NoPlan
  Plans <- TwoPlans
  Findings <- OneFinding
  Grades <- Minor
  MaxRevision = 3
  MaxPackages = 1
SPECIFICATION Spec
SYMMETRY PlanSymmetry
INVARIANTS
  ReviewedInputIsCurrent
  CodingNeedsPlanPass
  OpenActionHoldsTask
PROPERTIES
  ReviewerAloneAbsolves
  KeepsReviewPromise
CHECK_DEADLOCK FALSE
