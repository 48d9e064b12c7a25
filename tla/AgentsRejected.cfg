\* An agent with a wrong token.
CONSTANTS
    c1 = c1  c2 = c2  d1 = d1  k1 = k1
    Conn = {c1, c2}
    Device = {d1}
    DeviceOf <- OneDevice
    NoConn = NoConn
    NoDevice = NoDevice
    Caller = {}
    Tokens = {"bad"}
    Overlap = FALSE
    Crashes = FALSE
    QueueCap = 1
    LongLived = {}
    MaxFaults = 0
SPECIFICATION Spec
INVARIANT NoPanic
CHECK_DEADLOCK FALSE
