\* An admin watches an agent that connects and disconnects, three times at most.
CONSTANTS
    d1 = d1  d2 = d2  a1 = a1  a2 = a2
    Device = {d1}
    Admin = {a1}
    NoEvent = NoEvent
    Progress = Progress
    HubCap = 1
    SendCap = 2
    MaxVisits = 3
SPECIFICATION FairSpec
INVARIANTS TypeOK ViewsConverge RegisteredIsOpen
PROPERTIES HubServes FeedsInOrder
CHECK_DEADLOCK FALSE
