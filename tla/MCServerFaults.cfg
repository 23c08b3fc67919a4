\* One session at a time; the disk may refuse any open and any write. No
\* symmetry, because SessionsEnd is a liveness property.
SPECIFICATION FairSpec
CONSTANTS
    Data = {d1, d2}
    Archived = Archived
    Names = {n1}
    NoFile = NoFile
    Torn = Torn
    Nothing = Nothing
    Width = 1
    Users = {u1}
    Sessions = {s1}
    Archive = 0
    AskIds = {1}
    Requests = {"backup", "restore", "list"}
    Faults = {"open", "write"}
INVARIANTS
    AckedIntact
 
