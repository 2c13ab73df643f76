\* By hand: the last property is violated, a join is stored after the leave.
SPECIFICATION Spec
CONSTANTS
    Users = {1}
    Posts = {}
    Values = {a}
    PageSize = 1
    BatchSize = 1
    Workers = 4
    None = None
    Gone = Gone
    MaxChanges = 2
    MaxCommands = 0
    MaxFaults = 0
PROPERTY HandlersKeepRemovals
