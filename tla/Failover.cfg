SPECIFICATION Spec
CONSTANTS
    Slaves = {s1}
    Master = master
    Nobody = nobody
    Faults = {"slow", "worker"}
INVARIANTS
    TypeOK
    FailsOnlyIfAllFail
    AbsentOnlyByFault
PROPERTIES
    CommandEnds
    SlavesComeBack
CHECK_DEADLOCK FALSE
