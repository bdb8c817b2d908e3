\* Notifications about two items, one of them monitored by itself.
SPECIFICATION MCSpec
CONSTANTS
    Item = {i1, i2}
    Collection = {c1, c2}
    NoCollection = NoCollection
    Part = {p}
    Explicit = {i1}
    Fickle = {"Modify"}
    NoChange = NoChange
    Capacity = 1
    MaxNotified = 3
    MaxRewired = 2
    MaxCrashes = 1
INVARIANTS TypeOK FileMatches ContractKept OneInHand PendingIsScheduled FetchOnTheWay StaleIsRefetched HeadIsGiven
CHECK_DEADLOCK FALSE
PROPERTIES Durable Drains
