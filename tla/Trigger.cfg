CONSTANTS
  s1 = s1
  s2 = s2
  k1 = k1
  k2 = k2
  c1 = c1
  c2 = c2
  Server <- TwoServers
  Key <- TwoKeys
  Conversation <- TwoConversations
  Message <- Messages
  NoTask = NoTask
  MaxAge = 1
  MaxTime = 2
SYMMETRY Symmetry
SPECIFICATION Spec
INVARIANTS
  OneTaskAtATime
  TasksAreAttested
  LateCallReplays
CHECK_DEADLOCK FALSE
