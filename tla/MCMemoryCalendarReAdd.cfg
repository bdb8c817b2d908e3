\* A journal and its exception, one of which is added a second time.
SPECIFICATION Spec
CONSTANTS
    Incidence = {i1, i2}
    Uid = {u1}
    RecurrenceId = {r1}
    NoRid = NoRid
    Date = {1}
    NoDate = NoDate
    NoIncidence = NoIncidence
    Types = {"journal"}
    MaxLevel = 1
    MaxCopies = 2
PROPERTY ReAddedIsTheSame
