SPECIFICATION FairSpec
CONSTANTS
  m1 = m1  m2 = m2
  Msgs = {m1}
  MaxVer = 2
  Stamp <- MCPreviews
  ReplayLimit = 1
  MaxFaults = 3
INVARIANTS FenceInv
PROPERTIES RecoveryKeepsNewer NoStarvation
