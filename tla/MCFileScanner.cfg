\* Every pair of rows, from the command line and from the window, while at most
\* one other entry is written or removed. A scan that has ended does nothing.
SPECIFICATION FairSpec
CONSTANTS
    ann = ann
    nobody = nobody
    Kilo = 2
    IdOf <- MCIdOf
    Short = Short
    Nodes <- MCNodes
    Root = "."
    Parent <- MCParent
    Above <- MCAbove
    Attr <- MCAttr
    Size0 <- MCSize0
    Locked = {"d/g"}
    Sizes = {1}
    Filters <- MCFilters
    MaxTouch = 1
CHECK_DEADLOCK FALSE
INVARIANTS
    
    ParentsFirst
    ContentExact
    
PROPERTY ScanEnds
