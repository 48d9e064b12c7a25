\* Two calls to one device, answered over two connections, under fairness.
SPECIFICATION FairSpec
CONSTANTS
    r1 = r1
    r2 = r2
    d1 = d1
    p1 = p1
    p2 = p2
    Req = {r1, r2}
    Device = {d1}
    DeviceOf <- OneDevice
    Pump = {p1, p2}
    NoReq = NoReq
INVARIANTS
    TypeOK
    CallSafety
PROPERTIES
    ContractKept
    CallsEnd
\* After a freeze nothing may be left to do.
CHECK_DEADLOCK FALSE
