\* One item, modified and then removed; filters do not change, nobody dies.
SPECIFICATION Spec
CONSTANTS
    Item = {i1}
    Collection = {c1}
    NoCollection = NoCollection
    Part = {p}
    Explicit = {}
    Fickle = {}
    NoChange = NoChange
    Capacity = 1
    MaxNotified = 2
    MaxRewired = 0
    MaxCrashes = 0
PROPERTY ProcessedWasEmitted
CHECK_DEADLOCK FALSE
