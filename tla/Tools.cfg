CONSTANTS
  p1 = p1
  p2 = p2
  w1 = w1
  w2 = w2
  e1 = e1
  k1 = k1
  r1 = r1
  Plans <- TwoPlans
  NoPlan = NoPlan
  Tests <- OneTest
  EarlierTest = EarlierTest
  NoTest = NoTest
  Before = Before
  Workers <- TwoWorkers
  NoWorker = NoWorker
  LeaseTime = 1
  MaxTime = 1
  MaxGenerations = 2
  MaxUploads = 1
  FinalKeys <- OneFinal
  RetryKeys <- OneRetry
  FinalLimit = 2
  MaxVersion = 10
SYMMETRY Symmetry
SPECIFICATION Spec
INVARIANTS
  OneLiveAssignment
  EvidenceOfTheClaim
  EachCallReviewsItsPackage
  AnsweredCallReplays
PROPERTIES
  PackagedWorkIsFinished
CHECK_DEADLOCK FALSE
