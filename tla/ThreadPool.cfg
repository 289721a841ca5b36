SPECIFICATION FairSpec
CONSTANTS
    Task = {t1, t2, t3}
    NoTask = NoTask
    Requested = 3
    MinThreads = 1
    MaxThreads = 2
    UIntMod = 8
    MaxSpawnFailures = 1
INVARIANTS WorkConserving QuietWhenDown
PROPERTIES TaskServed StopReturns
