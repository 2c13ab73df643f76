SPECIFICATION FairSpec
CONSTANTS
  m1 = m1 m2 = m2 m3 = m3 u1 = u1 u2 = u2 w1 = w1 w2 = w2
  Tasks = {m1, u1}
  MessageTasks = {m1}
  MemberTasks = {u1}
  MemberWorkers = {w1}
  QueueSize = 1
  FailureLimit = 1
  MaxFaults = 1
INVARIANTS FailureAccounted
PROPERTIES TailReturns
CHECK_DEADLOCK FALSE
