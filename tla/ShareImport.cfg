CONSTANTS
    Messages = {m}
    Entities = {u}
    MaxTime = 3
    MaxPublications = 2
    MaxExact = 1
    MaxFaults = 1
SPECIFICATION Spec
INVARIANTS RecordedIsApplied EventsOnce
PROPERTIES ContentNeverOlder UpdatesSettle
CHECK_DEADLOCK FALSE
