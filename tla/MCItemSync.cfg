\* Three items, of which any are stored at first, in every mode and form.
SPECIFICATION Spec
CONSTANTS
    Item = {a, b, c}
    Changed = {a}
    Modes = {"Single", "Multiple", "None"}
    Forms = {"full", "incremental"}
    MaxChunk = 2
    MaxFailures = 2
CHECK_DEADLOCK FALSE
INVARIANTS TypeOK Accounted AllOrNothing Complete NothingLost
PROPERTY Ends SeenByCommit
