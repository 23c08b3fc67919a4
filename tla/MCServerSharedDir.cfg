\* Two uploads of one user at once.
SPECIFICATION Spec
CONSTANTS
    Data = {d1, d2}
    Archived = Archived
    Names = {n1}
    NoFile = NoFile
    Torn = Torn
    Nothing = Nothing
    Width = 1
    Users = {u1}
    Sessions = {s1, s2}
    Archive = 0
    AskIds = {}
    Requests = {"backup"}
    Faults = {}
CHECK_DEADLOCK FALSE
INVARIANT DirectoriesNotShared
