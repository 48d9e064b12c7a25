------------------------------ MODULE McpServer ------------------------------
(***************************************************************************)
(* The MCP server: internal/mcp/session.go, the handlers of mcp/server.go  *)
(* and the tools of mcp/tools.go.  Requests, SSE streams and the clean-up  *)
(* of sessions run in goroutines of their own.  They meet in the table of  *)
(* sessions, under its lock, and in the sessions they took from it, which  *)
(* they keep when the clean-up removes them.                               *)
(*                                                                         *)
(* A step is what a goroutine does between two accesses to those, or       *)
(* between two RPCs.  Times are counted from the last use of a session and *)
(* from the beginning of a request, and are not told apart beyond the      *)
(* timeout.                                                                *)
(***************************************************************************)
EXTENDS Naturals, FiniteSets

CONSTANTS
    Id,         \* the session ids clients send, or that are generated
    Session,    \* the session objects, used again when nothing refers to them
    Device,
    Request,    \* the clients of POST /messages, one request at a time each
    Linker,     \* those of them that ask for download links
    Stream,     \* the clients of GET /sse
    NoSession, NoDevice,
    Timeout,    \* the idle time after which a session goes, in ticks
    Patience,   \* how often waitForObjectCompletion polls
    Nested      \* the directories a directory holds at most

ASSUME McpNamesAssumption ==
    /\ NoDevice \notin Device
    /\ NoSession \notin Session \cup Device \cup {NoDevice}
ASSUME LinkerAssumption == Linker \subseteq Request
ASSUME McpTimesAssumption == Timeout \in Nat /\ Patience \in Nat /\ Nested \in Nat

VARIABLES
    table,      \* SessionManager.sessions
    idle,       \* the time since LastActivity of the session of an id
    chosen,     \* Session.SelectedDevice
    closed,     \* the sessions whose ResponseChan is closed
    pc,         \* what a request does next
    holds,      \* the session it was given
    held,       \* the time since then
    target,     \* the device its tool works on
    asked,      \* the devices it has called
    rest,       \* the directories or polls left to it
    settled,    \* the requests whose upload has completed or failed
    reading,    \* the session of an SSE stream
    frozen      \* ws.Manager.mu is held for ever

sessionVars == <<table, idle, chosen, closed>>
callVars == <<target, asked, rest, settled>>
requestVars == <<pc, holds, held, callVars>>
vars == <<sessionVars, requestVars, reading, frozen>>

\* The steps that end with the answer to an RPC.
Calling == {"files", "info", "empty", "compress", "uploadInfo", "upload"}

TypeOK ==
    /\ table \in [Id -> Session \cup {NoSession}]
    /\ idle \in [Id -> 0..Timeout + 1]
    /\ chosen \in [Session -> Device \cup {NoDevice}]
    /\ closed \in SUBSET Session
    /\ pc \in [Request -> {"idle", "body", "tool", "set", "wait"} \cup Calling]
    /\ holds \in [Request -> Session \cup {NoSession}]
    /\ held \in [Request -> 0..Timeout + 1]
    /\ target \in [Request -> Device \cup {NoDevice}]
    /\ asked \in [Request -> SUBSET Device]
    /\ rest \in [Request -> Nat]
    /\ settled \in SUBSET Request
    /\ reading \in [Stream -> Session \cup {NoSession}]
    /\ frozen \in BOOLEAN

Init ==
    /\ table = [i \in Id |-> NoSession]
    /\ idle = [i \in Id |-> 0]
    /\ chosen = [s \in Session |-> NoDevice]
    /\ closed = {}
    /\ pc = [r \in Request |-> "idle"]
    /\ holds = [r \in Request |-> NoSession]
    /\ held = [r \in Request |-> 0]
    /\ target = [r \in Request |-> NoDevice]
    /\ asked = [r \in Request |-> {}]
    /\ rest = [r \in Request |-> 0]
    /\ settled = {}
    /\ reading = [c \in Stream |-> NoSession]
    /\ frozen = FALSE

-----------------------------------------------------------------------------
Goto(r, step) == pc' = [pc EXCEPT ![r] = step]
Known(s) == \E i \in Id : table[i] = s
Unreferenced == {s \in Session : /\ ~Known(s)
                                 /\ \A r \in Request : holds[r] # s
                                 /\ \A c \in Stream : reading[c] # s}

Older(t) == IF t <= Timeout THEN t + 1 ELSE t

\* A request is over.
Finish(r) ==
    /\ Goto(r, "idle")
    /\ holds' = [holds EXCEPT ![r] = NoSession]
    /\ held' = [held EXCEPT ![r] = 0]
    /\ target' = [target EXCEPT ![r] = NoDevice]
    /\ asked' = [asked EXCEPT ![r] = {}]
    /\ rest' = [rest EXCEPT ![r] = 0]
    /\ settled' = settled \ {r}

Tick ==
    /\ idle' = [i \in Id |-> IF table[i] = NoSession THEN 0 ELSE Older(idle[i])]
    /\ held' = [r \in Request |-> IF pc[r] = "idle" THEN 0 ELSE Older(held[r])]
    /\ UNCHANGED <<table, chosen, closed, pc, holds, callVars, reading, frozen>>

-----------------------------------------------------------------------------
(***************************************************************************)
(* handleMessages up to the call of the tool.                              *)
(***************************************************************************)
\* Mutant of Resume: the lookup does not count as activity.
ResumeUntouched(r, i) ==
    /\ pc[r] = "idle" /\ table[i] # NoSession
    /\ holds' = [holds EXCEPT ![r] = table[i]]
    /\ Goto(r, "body")
    /\ UNCHANGED <<sessionVars, held, callVars, reading, frozen>>

\* GetOrCreate, for the id of a known session.
Resume(r, i) ==
    /\ pc[r] = "idle" /\ table[i] # NoSession
    /\ idle' = [idle EXCEPT ![i] = 0]
    /\ holds' = [holds EXCEPT ![r] = table[i]]
    /\ Goto(r, "body")
    /\ UNCHANGED <<table, chosen, closed, held, callVars, reading, frozen>>

\* GetOrCreate, for an id without a session.
Create(r, i) ==
    /\ pc[r] = "idle" /\ table[i] = NoSession /\ Unreferenced # {}
    /\ LET s == CHOOSE s \in Unreferenced : TRUE
       IN  /\ table' = [table EXCEPT ![i] = s]
           /\ idle' = [idle EXCEPT ![i] = 0]
           /\ chosen' = [chosen EXCEPT ![s] = NoDevice]
           /\ closed' = closed \ {s}
           /\ holds' = [holds EXCEPT ![r] = s]
    /\ Goto(r, "body")
    /\ UNCHANGED <<held, callVars, reading, frozen>>

\* The body is read and parsed after the session is taken, at the client's
\* pace: it comes whole, or the client leaves or sent something else.
Body(r) ==
    /\ pc[r] = "body"
    /\ \/ Goto(r, "tool") /\ UNCHANGED <<holds, held, callVars>>
       \/ Finish(r)
    /\ UNCHANGED <<sessionVars, reading, frozen>>

\* The request is refused, or its tool answers without touching the session
\* or an agent: tools/list, list_devices, get_device_status, and every error
\* in the parameters, in the registry or in a path.
Answer(r) ==
    /\ pc[r] = "tool"
    /\ Finish(r)
    /\ UNCHANGED <<sessionVars, reading, frozen>>

-----------------------------------------------------------------------------
(***************************************************************************)
(* select_device.  Get and ListOnline find any device they like, online or *)
(* the request is answered with an error.                                  *)
(***************************************************************************)
SelectFind(r, d) ==
    /\ pc[r] = "tool"
    /\ target' = [target EXCEPT ![r] = d]
    /\ Goto(r, "set")
    /\ UNCHANGED <<sessionVars, holds, held, asked, rest, settled, reading, frozen>>

\* SetSelectedDevice.
SelectSet(r) ==
    /\ pc[r] = "set"
    /\ chosen' = [chosen EXCEPT ![holds[r]] = target[r]]
    /\ Finish(r)
    /\ UNCHANGED <<table, idle, closed, reading, frozen>>

-----------------------------------------------------------------------------
(***************************************************************************)
(* The tools that ask the selected device: list_files, check_path and      *)
(* get_download_link.  They read the selection once.  It is a copy of the  *)
(* device taken while it was online, so that the test of its status in     *)
(* get_download_link (tools.go:402) never fails; its roots are of that     *)
(* time, too.                                                              *)
(***************************************************************************)
Begin(r, step) ==
    /\ pc[r] = "tool"
    /\ chosen[holds[r]] # NoDevice
    /\ target' = [target EXCEPT ![r] = chosen[holds[r]]]
    /\ asked' = [asked EXCEPT ![r] = {chosen[holds[r]]}]
    /\ Goto(r, step)
    /\ UNCHANGED <<sessionVars, holds, held, rest, settled, reading, frozen>>

Ask(r) == asked' = [asked EXCEPT ![r] = @ \cup {target[r]}]

\* list_files and check_path: whatever the call returns, a reply follows.
FilesEnds(r) ==
    /\ pc[r] = "files"
    /\ Finish(r)
    /\ UNCHANGED <<sessionVars, reading, frozen>>

\* getFileInfo of the one path: an error, a file or a directory.  Several
\* paths are an error at once, compressAndUpload takes only one: an Answer.
InfoEnds(r) ==
    /\ pc[r] = "info"
    /\ \/ Finish(r)
       \/ /\ \/ Goto(r, "uploadInfo") /\ UNCHANGED rest
             \/ Goto(r, "empty") /\ rest' = [rest EXCEPT ![r] = Nested]
          /\ Ask(r)
          /\ UNCHANGED <<holds, held, target, settled>>
    /\ UNCHANGED <<sessionVars, reading, frozen>>

\* isDirectoryEmpty: one directory after another until a file is found, a call
\* fails or there is none left, and the reply is that there is nothing.
EmptyEnds(r) ==
    /\ pc[r] = "empty"
    /\ \/ Finish(r)
       \/ /\ \/ Goto(r, "compress") /\ rest' = [rest EXCEPT ![r] = 0]
             \/ rest[r] > 0 /\ rest' = [rest EXCEPT ![r] = @ - 1] /\ UNCHANGED pc
          /\ Ask(r)
          /\ UNCHANGED <<holds, held, target, settled>>
    /\ UNCHANGED <<sessionVars, reading, frozen>>

\* The steps of compressAndUpload and uploadFile.  After an error a token is
\* generated all the same, since the err that is tested (tools.go:448) is not
\* the one that was assigned (tools.go:416): DownloadLinks has the tokens.
CallEnds(r, step, next) ==
    /\ pc[r] = step
    /\ \/ Finish(r)
       \/ /\ Goto(r, next) /\ Ask(r)
          /\ rest' = [rest EXCEPT ![r] = IF next = "wait" THEN Patience ELSE 0]
          /\ UNCHANGED <<holds, held, target, settled>>
    /\ UNCHANGED <<sessionVars, reading, frozen>>

Compress(r) == CallEnds(r, "compress", "uploadInfo")

\* Mutant of UploadInfo: the selection is read anew.
UploadInfoAnew(r) ==
    /\ pc[r] = "uploadInfo"
    /\ target' = [target EXCEPT ![r] = chosen[holds[r]]]
    /\ asked' = [asked EXCEPT ![r] = @ \cup {chosen[holds[r]]}]
    /\ Goto(r, "upload")
    /\ UNCHANGED <<sessionVars, holds, held, rest, settled, reading, frozen>>

\* getFileInfo and InitUpload.
UploadInfo(r) == CallEnds(r, "uploadInfo", "upload")

Upload(r) == CallEnds(r, "upload", "wait")

\* The agent's PUT request, which ObjectStore takes apart.
UploadSettles(r) ==
    /\ pc[r] \in {"upload", "wait"} /\ r \notin settled
    /\ settled' = settled \cup {r}
    /\ UNCHANGED <<sessionVars, pc, holds, held, target, asked, rest, reading, frozen>>

\* Mutant of Poll: it waits until the upload completes or fails.
PollForever(r) ==
    /\ pc[r] = "wait" /\ r \in settled
    /\ Finish(r)
    /\ UNCHANGED <<sessionVars, reading, frozen>>

\* Mutant of Poll: the deadline is never looked at.
PollLate(r) ==
    /\ pc[r] = "wait"
    /\ IF r \in settled THEN Finish(r)
       ELSE /\ rest' = [rest EXCEPT ![r] = @ - 1]
            /\ UNCHANGED <<pc, holds, held, target, asked, settled>>
    /\ UNCHANGED <<sessionVars, reading, frozen>>

\* waitForObjectCompletion: a round of its loop, or what follows its deadline,
\* and then GenerateToken and the reply.  The loop does not ask whether the
\* client is still there.
Poll(r) ==
    /\ pc[r] = "wait"
    /\ IF r \in settled \/ rest[r] = 0 THEN Finish(r)
       ELSE /\ rest' = [rest EXCEPT ![r] = @ - 1]
            /\ UNCHANGED <<pc, holds, held, target, asked, settled>>
    /\ UNCHANGED <<sessionVars, reading, frozen>>

-----------------------------------------------------------------------------
(***************************************************************************)
(* handleSSE.  Nothing in the repository sends on a ResponseChan: a stream *)
(* ends when the channel is closed or the client leaves.                   *)
(***************************************************************************)
\* Get, which counts as activity; later the stream does not.
StreamOpen(c, i) ==
    /\ reading[c] = NoSession /\ table[i] # NoSession
    /\ reading' = [reading EXCEPT ![c] = table[i]]
    /\ idle' = [idle EXCEPT ![i] = 0]
    /\ UNCHANGED <<table, chosen, closed, requestVars, frozen>>

StreamClosed(c) ==
    /\ reading[c] \in closed
    /\ reading' = [reading EXCEPT ![c] = NoSession]
    /\ UNCHANGED <<sessionVars, requestVars, frozen>>

StreamLeft(c) ==
    /\ reading[c] # NoSession
    /\ reading' = [reading EXCEPT ![c] = NoSession]
    /\ UNCHANGED <<sessionVars, requestVars, frozen>>

-----------------------------------------------------------------------------
(***************************************************************************)
(* cleanupExpiredSessions: a round, in one critical section.               *)
(***************************************************************************)
Expired == {i \in Id : table[i] # NoSession /\ idle[i] > Timeout}

\* Mutant of Sweep: a session that somebody reads is not idle.
SweepUnread ==
    LET old == {i \in Expired : \A c \in Stream : reading[c] # table[i]}
    IN  /\ old # {}
        /\ closed' = closed \cup {table[i] : i \in old}
        /\ table' = [i \in Id |-> IF i \in old THEN NoSession ELSE table[i]]
        /\ UNCHANGED <<idle, chosen, requestVars, reading, frozen>>

\* Mutant of Sweep: what is closed stays in the table.
SweepClose ==
    /\ Expired # {}
    /\ closed' = closed \cup {table[i] : i \in Expired}
    /\ UNCHANGED <<table, idle, chosen, requestVars, reading, frozen>>

\* Mutant of Sweep: a session that is removed is not closed.
SweepOpen ==
    /\ Expired # {}
    /\ table' = [i \in Id |-> IF i \in Expired THEN NoSession ELSE table[i]]
    /\ UNCHANGED <<idle, chosen, closed, requestVars, reading, frozen>>

\* Mutant of Sweep: sessions expire at the timeout, not after it.
SweepEarly ==
    LET old == {i \in Id : table[i] # NoSession /\ idle[i] >= Timeout}
    IN  /\ old # {}
        /\ closed' = closed \cup {table[i] : i \in old}
        /\ table' = [i \in Id |-> IF i \in old THEN NoSession ELSE table[i]]
        /\ UNCHANGED <<idle, chosen, requestVars, reading, frozen>>

Sweep ==
    /\ Expired # {}
    /\ closed' = closed \cup {table[i] : i \in Expired}
    /\ table' = [i \in Id |-> IF i \in Expired THEN NoSession ELSE table[i]]
    /\ idle' = [i \in Id |-> IF i \in Expired THEN 0 ELSE idle[i]]
    /\ UNCHANGED <<chosen, requestVars, reading, frozen>>

-----------------------------------------------------------------------------
\* A hello that replaces a connection keeps ws.Manager.mu for ever: what
\* FreezeIsTotal of AgentSessions shows of the code.
Freeze ==
    /\ ~frozen
    /\ frozen' = TRUE
    /\ UNCHANGED <<sessionVars, requestVars, reading>>

HandleMessages(r) == \E i \in Id : Resume(r, i) \/ Create(r, i)
\* What a handler does by itself, or when an RPC it waits for has ended.
Work(r) ==
    \/ Answer(r) \/ SelectSet(r) \/ FilesEnds(r) \/ InfoEnds(r) \/ EmptyEnds(r)
    \/ Compress(r) \/ UploadInfo(r) \/ Upload(r) \/ Poll(r)

Next ==
    \/ Tick \/ Sweep
    \/ \E r \in Request :
        \/ HandleMessages(r) \/ Body(r) \/ Work(r)
        \/ \E d \in Device : SelectFind(r, d)
        \/ Begin(r, "files") \/ (r \in Linker /\ Begin(r, "info"))
        \/ UploadSettles(r)
    \/ \E c \in Stream :
        \/ StreamClosed(c) \/ StreamLeft(c)
        \/ \E i \in Id : StreamOpen(c, i)
    \/ Freeze

Spec == Init /\ [][Next]_vars

\* The ticker goes on, handlers do what they do next, and a stream notices
\* that its channel is closed.  Calls end, by their timeout at the latest, but
\* not those that wait for ws.Manager.mu after a freeze, as CallsEnd of
\* RpcCalls has it.  Clients owe nothing, not even the body of a request they
\* began, and uploads may stand still.
FairSpec ==
    /\ Spec
    /\ WF_vars(Sweep)
    /\ \A r \in Request : WF_vars(~(frozen /\ pc[r] \in Calling) /\ Work(r))
    /\ \A c \in Stream : WF_vars(StreamClosed(c))
=============================================================================
