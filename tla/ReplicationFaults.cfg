SPECIFICATION FairSpec
CONSTANTS
    a = a
    k1 = k1
    k2 = k2
    r1 = r1
    r2 = r2
    Files = {f1}
    Words = {a, b, c}
    Workers = {k1, k2}
    Reports = {r1, r2}
    Slaves = {s1}
    Master = master
    NoWorker = noWorker
    WordsOf <- MCWordsOf
    FileOf <- MCFileOf
    WorkerOf <- MCWorkerOf
    LookupGroup <- MCLookupGroup
    InvertGroup <- MCInvertGroup
    NumLookup = 1
    NumInvert = 2
    Faults = {"loss", "late", "full", "unregistered", "broken"}
INVARIANTS
    BackupNeverAhead
    SettledUnharmed
    LocationsAgree
PROPERTIES
    UnharmedConverge
    ImplementsBackups
CHECK_DEADLOCK FALSE
