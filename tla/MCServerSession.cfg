\* Two sessions of one user at once, a name to collide on, and three uploads, so
\* that a number can be shared, reused and followed. When the uploads are used
\* up, nothing is left to do.
SPECIFICATION Spec
CONSTANTS
    Data = {d1, d2, d3}
    Archived = Archived
    Names = {n1}
    NoFile = NoFile
    Torn = Torn
    Nothing = Nothing
    Width = 1
    Users = {u1}
    Sessions = {s1, s2}
    Archive = 0
    AskIds = {1}
    Requests = {"backup"}
    Faults = {}
CHECK_DEADLOCK FALSE
SYMMETRY Symmetry
INVARIANTS
    AckedIntact
    NoInheritedName
    ListedDense
PROPERTIES
    ListedStays
    ImplementsCatalog
