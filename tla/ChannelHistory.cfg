SPECIFICATION FairSpec
CONSTANTS
  MaxPosts = 3
  PageSize = 1
  Modes = {"full", "latest", "incremental"}
  Sinces = {0, 2}
  TailModes = {"preserve", "advance"}
  MaxDeletes = 1
  MaxFaults = 1
INVARIANTS HistoryHasNoHole
PROPERTIES VerificationEndsWhole VerificationEnds
CHECK_DEADLOCK FALSE
