SPECIFICATION FairSpec
CONSTANTS
    Thread = {t1}
    MsgLen = 2
    HighWater = 3
    MaxCalls = 3
INVARIANTS StreamIntact FinAfterData
PROPERTIES ShutdownCompletes
CHECK_DEADLOCK FALSE
