CONSTANTS
  w1 = w1
  w2 = w2
  Waker <- TwoWakers
  MaxWakes = 3
SPECIFICATION FairWakeSpec
INVARIANT
  WakesWithinLimit
PROPERTIES
  AnsweredIsNotWoken
  WakingEnds
CHECK_DEADLOCK FALSE
