\* An answered call that ends as cancelled although nobody cancelled it.
SPECIFICATION Spec
CONSTANTS
    r1 = r1
    r2 = r2
    d1 = d1
    p1 = p1
    p2 = p2
    Req = {r1}
    Device = {d1}
    DeviceOf <- OneDevice
    Pump = {p1}
    NoReq = NoReq
INVARIANT ResponseWinsSelect
\* After a freeze nothing may be left to do.
CHECK_DEADLOCK FALSE
