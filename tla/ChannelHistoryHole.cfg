SPECIFICATION Spec
CONSTANTS
  MaxPosts = 2
  PageSize = 2
  Modes = {"full", "incremental"}
  Sinces = {0, 2}
  TailModes = {}
  MaxDeletes = 0
  MaxFaults = 0
INVARIANT HistoryIsWhole
CHECK_DEADLOCK FALSE
