CONSTANTS
    Messages = {m}
    Entities = {u}
    MaxTime = 3
    MaxPublications = 2
    MaxExact = 1
    MaxFaults = 1
SPECIFICATION Spec
INVARIANT OpenIsSearchable
CHECK_DEADLOCK FALSE
