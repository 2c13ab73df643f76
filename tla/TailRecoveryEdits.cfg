SPECIFICATION Spec
CONSTANTS
  m1 = m1  m2 = m2
  Msgs = {m1}
  MaxVer = 3
  Stamp <- MCEdits
  ReplayLimit = 2
  MaxFaults = 2
INVARIANTS TypeOK NoLostFailure ArchivedIsStored RecoveryInv
PROPERTIES RecoveryKeepsNewer
