\* Three numbers: one deleted in the middle, one at the end and reused.
SPECIFICATION Spec
CONSTANTS
    Data = {d1}
    Archived = Archived
    Names = {n1}
    NoFile = NoFile
    Torn = Torn
    Nothing = Nothing
    Width = 1
    MaxId = 3
INVARIANTS
    ReadsBack
