\* Links: two by admins, one by a tool, a download; a token lives for a tick.
CONSTANTS
    o1 = o1  a1 = a1  a2 = a2  t1 = t1  r1 = r1
    Object = {o1}
    Admin = {a1, a2}
    Tool = {t1}
    OwnOf <- ToolOwn
    Reader = {r1}
    NoObject = NoObject
    NoLink = NoLink
    NoIssuer = NoIssuer
    Absent = Absent
    Malformed = Malformed
    Life = 1
    Horizon = 2
    MaxFaults = 1
SPECIFICATION FairSpec
INVARIANTS TypeOK LinksAreBacked LinksServe
PROPERTY ExpiredAreRemoved
CHECK_DEADLOCK FALSE
