SPECIFICATION FairSpec
CONSTANTS
  m1 = m1  m2 = m2
  Msgs = {m1}
  MaxVer = 2
  Stamp <- MCEdits
  ReplayLimit = 1
  MaxFaults = 3
INVARIANTS NoLostFailure
PROPERTIES RecoveryKeepsNewer NoStarvation
