\* Backups of two and three entries into eleven destinations, as root or not; the
\* restore may be killed once at any point, or run again. The last run ends.
SPECIFICATION Spec
CONSTANTS
    Paths <- MCPaths
    Dest = "."
    Outside = "o"
    Parent <- MCParent
    Above <- MCAbove
    Rank <- MCRank
    Backups <- MCBackups
    Befores <- MCBefores
    Me = 1
    MaxRuns = 1
CHECK_DEADLOCK FALSE
INVARIANTS
    
    ContentRestored
    MetadataRestored
