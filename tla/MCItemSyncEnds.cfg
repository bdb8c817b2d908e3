\* Two items in one transaction, one job fails.
SPECIFICATION Spec
CONSTANTS
    Item = {a, b}
    Changed = {}
    Modes = {"Single"}
    Forms = {"full"}
    MaxChunk = 1
    MaxFailures = 1
CHECK_DEADLOCK FALSE
PROPERTY EndsAfterErrors
