\* One user who joins and leaves twice: failures recorded again during a replay.
SPECIFICATION Spec
CONSTANTS
    Users = {1}
    Posts = {}
    Values = {a, b}
    PageSize = 1
    BatchSize = 1
    Workers = 4
    None = None
    Gone = Gone
    MaxChanges = 4
    MaxCommands = 0
    MaxFaults = 2
INVARIANT TypeOK
PROPERTIES ObserverNeverOlder ReceiptIsComplete MembersSettle
