SPECIFICATION Spec
CONSTANTS
    p = p
    q = q
    t = t
    w1 = w1
    w2 = w2
    None = None
    Parents <- MCParents
    Threads <- MCThreads
    ParentOf <- MCParentOf
    Archives <- MCArchives
    OwnerOf <- MCOwnerOf
    ListOf <- MCListOf
    FailureIds <- MCFailureIds
    Workers = {w1, w2}
    Options = {"latest", "full", "window", "target"}
    PageLimit = 1
    MaxChanges = 1
    MaxFaults = 1

PROPERTIES SuccessHasEvidence SettledIsGone ChannelsSettle
