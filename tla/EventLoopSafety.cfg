SPECIFICATION Spec
CONSTANTS
    Conns = {c1, c2}
    Threads = {t1, t2}
    Listener = listener
    NoEvt = noEvt
    MaxPartial = 1
SYMMETRY Symmetry
INVARIANTS
    TypeOK
    NoUseAfterFree
    RefsAreHolders
    ExclusiveProcessing
    MonitoredMatchesState
    LeakedOnlyFromQueues
PROPERTIES
    ImplementsConnLife
CHECK_DEADLOCK FALSE
