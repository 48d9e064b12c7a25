\* Three requests of any kind, of which two run at a time; a session is over with
\* the first tick, before or after any step of the requests that use it.
CONSTANTS
    r1 = r1  r2 = r2  r3 = r3
    Req = {r1, r2, r3}
    Answer = {"success", "failure"}
    NoAnswer = "none"
    Failure = {"error"}
    NoSession = NoSession
    NoEntry = NoEntry
    Life = 0
    MaxConcurrent = 2
    QueueCap = 1
    Crashes = TRUE
    MaxFaults = 1
SPECIFICATION FairSpec
INVARIANTS TypeOK SlotsAreHeld OutIsOut AuditIsTruthful AnsweredIsAudited
PROPERTIES ImplementsTrail AllSettles
CHECK_DEADLOCK FALSE
