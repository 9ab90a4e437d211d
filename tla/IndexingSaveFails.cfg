SPECIFICATION Spec
CONSTANTS
    c1 = c1
    c2 = c2
    c3 = c3
    k1 = k1
    k2 = k2
    Files = {f1, f2}
    Putters = {p1}
    Workers = {k1, k2}
    Consumers = {c1, c2, c3}
    Readers = {q1}
    HomeOf <- MCHomeOf
    LockOf <- MCOneLock
    NoFile = noFile
    NoWorker = noWorker
    MaxSent = 3
    Faults = {"save_fails"}
INVARIANTS
    LocatedFileExists
CHECK_DEADLOCK FALSE
