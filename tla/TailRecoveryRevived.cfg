SPECIFICATION Spec
CONSTANTS
  m1 = m1  m2 = m2
  Msgs = {m1}
  MaxVer = 1
  Stamp <- MCEdits
  ReplayLimit = 2
  MaxFaults = 1
INVARIANTS RecoveryKeepsDeletion
