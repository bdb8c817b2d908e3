\* Two incidences, of which one is left alone, or both have one day, and two
\* uids or two types.
SPECIFICATION Spec
CONSTANTS
    Incidence = {i1, i2}
    Uid = {u1, u2}
    RecurrenceId = {r1}
    NoRid = NoRid
    Date = {1, 2}
    NoDate = NoDate
    NoIncidence = NoIncidence
    Types = {"event", "todo", "journal"}
    MaxLevel = 2
    MaxCopies = 2
SYMMETRY Symmetry
VIEW View
CONSTRAINTS SomeKept InScene
INVARIANTS TypeOK IndexExact ListedOnce ChangesFlagged AdditionsFlagged GroupPending
PROPERTIES ExceptionsFollowParent
