\* Two users, two sessions, every request: restores and lists next to uploads,
\* from the ninth backup of each user on, in IDs of two padded digits.
SPECIFICATION Spec
CONSTANTS
    Data = {d1, d2}
    Archived = Archived
    Names = {n1}
    NoFile = NoFile
    Torn = Torn
    Nothing = Nothing
    Width = 2
    Users = {u1, u2}
    Sessions = {s1, s2}
    Archive = 9
    AskIds = {9, 10}
    Requests = {"backup", "restore", "list"}
    Faults = {}
SYMMETRY Symmetry
INVARIANTS
    RestoreExact
    ListComplete
    LatestIsNewest
