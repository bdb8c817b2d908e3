\* A recurring incidence and its exception, each in two objects, and two notebooks.
SPECIFICATION Spec
CONSTANTS
    Uid = {u1}
    RecurrenceId = {r1}
    NoRid = NoRid
    Object = {o1, o2}
    Notebook = {n1, n2}
    NoNotebook = NoNotebook
SYMMETRY Symmetry
INVARIANTS TypeOK OneNotebook ObserversKnow HiddenByNotebook
PROPERTIES MovedTogether
VIEW View
CONSTRAINT FewObjects
