SPECIFICATION FairSpec
CONSTANTS
  m1 = m1  m2 = m2  t1 = t1  t2 = t2  t3 = t3  s1 = s1  s2 = s2
  Blank = blank
  Capped <- MCCapped
  Msgs = {m1}
  Texts = {t1, t2, t3, blank}
  Slots = {s1, s2}
  Owners = {"tail", "sync", "embed"}
  Enqueues = {TRUE, FALSE}
  Snapshots = {t2}
  MaxRevision = 4
  MaxFaults = 2
INVARIANTS VectorIsCurrent FailedIsCurrent
PROPERTIES PublishedIsCurrent EverySettles
CHECK_DEADLOCK FALSE
