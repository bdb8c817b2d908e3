SPECIFICATION MCSpec
CONSTANTS
    Item = {i1, i2}
    Collection = {c1, c2}
    Hollow = {}
    Request = {r1, r2}
    None = None
    Late = {"prepare", "items"}
    MaxAsked = 2
    MaxChanged = 2
    MaxOffline = 1
    MaxDeferred = 1
    MaxAborted = 1
    MaxEvents = 4
CHECK_DEADLOCK FALSE
INVARIANTS TypeOK TasksOnce RequestsHeld ReplayScheduled SyncerFits
PROPERTY Drains
