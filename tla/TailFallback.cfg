SPECIFICATION SteadyFairSpec
CONSTANTS
  o1 = o1  o2 = o2  k1 = k1  i1 = i1 i2 = i2
  Occurrences = {o1, o2}
  Refs = {k1}
  RefOf <- MCRefOf
  Importers = {i1, i2}
  MaxFaults = 1
  MaxPowerLosses = 1
INVARIANTS AcceptedIsDurable
PROPERTIES RemovedOnlyAfterImport ImplementsSpool AcceptedIsImported
CHECK_DEADLOCK FALSE
