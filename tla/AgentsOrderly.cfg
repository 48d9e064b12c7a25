\* One agent that connects twice, one time after the other, and is rejected,
\* refused by the database or cut off by a crash at any point, and a request
\* that sends to it.
CONSTANTS
    c1 = c1  c2 = c2  d1 = d1  k1 = k1
    Conn = {c1, c2}
    Device = {d1}
    DeviceOf <- OneDevice
    NoConn = NoConn
    NoDevice = NoDevice
    Caller = {k1}
    Tokens = {"good", "bad"}
    Overlap = FALSE
    Crashes = TRUE
    QueueCap = 1
    LongLived = {d1}
    MaxFaults = 1
SPECIFICATION Spec
INVARIANTS TypeOK OrderlyInv SettledAgree
PROPERTY DevicesLive
