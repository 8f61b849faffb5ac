CONSTANTS
  h1 = h1
  h2 = h2
  d1 = d1
  d2 = d2
  opened = opened
  push1 = push1
  push2 = push2
  Handler <- TwoHandlers
  Delivery <- TwoDeliveries
  Body <- Payloads
  Event <- Payloads
  EventOf <- SameEvent
  Advancing <- Pushes
  FinalLimit = 2
  MaxVersion = 4
SYMMETRY Interchangeable
SPECIFICATION Spec
INVARIANTS
  OneRequestPerEvent
  AnsweredWithItsRequest
  RequestedAsPrepared
CHECK_DEADLOCK FALSE
