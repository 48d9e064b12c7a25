\* An agent that connects again while its connection is registered.
CONSTANTS
    c1 = c1  c2 = c2  d1 = d1  k1 = k1
    Conn = {c1, c2}
    Device = {d1}
    DeviceOf <- OneDevice
    NoConn = NoConn
    NoDevice = NoDevice
    Caller = {}
    Tokens = {"good"}
    Overlap = TRUE
    Crashes = FALSE
    QueueCap = 1
    LongLived = {}
    MaxFaults = 0
SPECIFICATION FairSpec
PROPERTY HelloReturns
CHECK_DEADLOCK FALSE
