SPECIFICATION FairSpec
CONSTANTS
    Conns = {c1}
    Threads = {t1, t2}
    Listener = listener
    NoEvt = noEvt
    MaxPartial = 2
PROPERTIES
    ConnectionsEnd
    ShutdownEnds
CHECK_DEADLOCK FALSE
