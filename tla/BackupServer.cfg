\* Three clients, so that one can be reaped, one run and one die while a fourth
\* step is taken; two stop signals, so that one can interrupt the shutdown. No
\* symmetry, because HeardStops is a liveness property.
SPECIFICATION FairSpec
CONSTANTS
    Clients = {c1, c2, c3}
    NoClient = NoClient
    MaxConnections = 1
    MaxWaits = 2
    MaxSignals = 2
CHECK_DEADLOCK FALSE
INVARIANTS
    ChildrenTracked
    NothingServing
    AllReaped
    ForceAfterWait
PROPERTIES
    HeardStops
