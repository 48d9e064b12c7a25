\* Two uploads of one object, a deletion and a cancellation, failing calls and
\* a crash.  A body that is corrupt or breaks off fails where a short one does.
CONSTANTS
    u1 = u1  u2 = u2  o1 = o1  k1 = k1  x1 = x1
    Object = {o1}
    Upload = {u1, u2}
    ObjectOf <- OneObject
    Deleter = {k1}
    Canceller = {x1}
    None = None
    Bodies = {"exact", "short", "long"}
    GivesUp = TRUE
    Crashes = TRUE
    MaxFaults = 1
SPECIFICATION FairSpec
INVARIANTS TypeOK CompletedIsBacked TempIsRemoved
PROPERTIES UploadingEnds ObjectsLive
CHECK_DEADLOCK FALSE
