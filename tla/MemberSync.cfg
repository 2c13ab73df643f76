\* Two users who join and leave, pages and batches of one, and one message of a plan.
SPECIFICATION Spec
CONSTANTS
    Users = {1, 2}
    Posts = {p}
    Values = {a}
    PageSize = 1
    BatchSize = 1
    Workers = 4
    None = None
    Gone = Gone
    MaxChanges = 3
    MaxCommands = 1
    MaxFaults = 2
PROPERTIES ObserverNeverOlder ReceiptIsComplete MembersSettle
