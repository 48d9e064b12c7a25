\* One agent with two connections at a time, under fairness.
CONSTANTS
    c1 = c1  c2 = c2  d1 = d1  k1 = k1
    Conn = {c1, c2}
    Device = {d1}
    DeviceOf <- OneDevice
    NoConn = NoConn
    NoDevice = NoDevice
    Caller = {}
    Tokens = {"good"}
    Overlap = TRUE
    Crashes = TRUE
    QueueCap = 1
    LongLived = {}
    MaxFaults = 0
SPECIFICATION FairSpec
INVARIANTS LockInv ClosedOnce
PROPERTIES FreezeIsTotal AllGetThrough DirectoryRefined
CHECK_DEADLOCK FALSE
