\* One incidence whose notebook is hidden after it was asked for its visibility.
SPECIFICATION Spec
CONSTANTS
    Uid = {u1}
    RecurrenceId = {}
    NoRid = NoRid
    Object = {o1}
    Notebook = {n1}
    NoNotebook = NoNotebook
INVARIANT VisibilityCurrent
