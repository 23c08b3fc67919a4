\* Three jobs of one user or one output, in the window and in programs of their own,
\* with one change of the source directory. A machine with no job left does nothing.
SPECIFICATION FairSpec
CONSTANTS
    j1 = j1
    j2 = j2
    j3 = j3
    Jobs <- MCJobs
    Plans <- MCPlans
    NoJob = NoJob
    MaxEdits = 1
CHECK_DEADLOCK FALSE
INVARIANTS
    OwnData
    Tidy
    
    LocalKept
    OnlyProgramsDisturb
PROPERTY Recovers
