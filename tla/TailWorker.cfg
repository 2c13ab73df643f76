SPECIFICATION FairSpec
CONSTANTS
  m1 = m1 m2 = m2 m3 = m3 u1 = u1 u2 = u2 w1 = w1 w2 = w2
  Tasks = {m1, m2, m3}
  MessageTasks = {m1, m2}
  MemberTasks = {}
  MemberWorkers = {}
  QueueSize = 1
  FailureLimit = 2
  MaxFaults = 1
INVARIANTS OneOrderedHandler FailureAccounted
PROPERTIES TailReturns
CHECK_DEADLOCK FALSE
