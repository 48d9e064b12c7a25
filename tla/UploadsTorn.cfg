\* Two uploads of one object at a time.
CONSTANTS
    u1 = u1  u2 = u2  o1 = o1  k1 = k1  x1 = x1
    Object = {o1}
    Upload = {u1, u2}
    ObjectOf <- OneObject
    Deleter = {}
    Canceller = {}
    None = None
    Bodies = {"exact"}
    GivesUp = FALSE
    Crashes = FALSE
    MaxFaults = 0
SPECIFICATION Spec
INVARIANT StoredIsVerified
CHECK_DEADLOCK FALSE
