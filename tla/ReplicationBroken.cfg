SPECIFICATION Spec
CONSTANTS
    f1 = f1
    f2 = f2
    a = a
    b = b
    k1 = k1
    k2 = k2
    r1 = r1
    r2 = r2
    Files = {f1, f2}
    Words = {a, b}
    Workers = {k1, k2}
    Reports = {r1, r2}
    Slaves = {s1}
    Master = master
    NoWorker = noWorker
    WordsOf <- MCWordsOf
    FileOf <- MCFileOf
    WorkerOf <- MCWorkerOf
    LookupGroup <- MCLookupGroup
    InvertGroup <- MCInvertGroup
    NumLookup = 2
    NumInvert = 2
    Faults = {"broken"}
INVARIANTS
    SettledSlaveHasEntries
CHECK_DEADLOCK FALSE
