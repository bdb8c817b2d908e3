\* One event that starts to recur while it is in the calendar.
SPECIFICATION Spec
CONSTANTS
    Incidence = {i1}
    Uid = {u1}
    RecurrenceId = {}
    NoRid = NoRid
    Date = {1}
    NoDate = NoDate
    NoIncidence = NoIncidence
    Types = {"event"}
    MaxLevel = 1
    MaxCopies = 2
INVARIANT OnlySingleDaysFiled
