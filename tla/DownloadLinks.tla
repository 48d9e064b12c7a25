---------------------------- MODULE DownloadLinks ----------------------------
(***************************************************************************)
(* Download links: internal/objects/token.go, the handlers of objects/     *)
(* api.go that issue and redeem them, get_download_link of the MCP tools,  *)
(* and the clean-up of objects and tokens whose time is over.              *)
(*                                                                         *)
(* Requests and clean-ups run in goroutines of their own and share no      *)
(* lock: every SQL statement and file system call is a step.  Time passes  *)
(* in ticks, a few to a token's life, and uploads are one step each:       *)
(* ObjectStore has their detail.                                           *)
(***************************************************************************)
EXTENDS Integers, FiniteSets

CONSTANTS
    Object,     \* the object ids
    Admin,      \* the requests to generate a token
    Tool,       \* the get_download_link calls
    OwnOf,      \* the object each of those creates
    Reader,     \* the download requests
    NoObject,   \* the empty object id
    NoLink,     \* a request that has not returned a link
    NoIssuer,   \* a download that names its object itself
    Life,       \* the life of a token in ticks
    Horizon,    \* the last tick
    MaxFaults   \* how many SQL and file system calls may fail in a behaviour

ASSUME OwnOfAssumption == OwnOf \in [Tool -> Object]
ASSUME LinkNamesAssumption ==
    /\ NoObject \notin Object
    /\ NoIssuer \notin Admin \cup Tool
    /\ Admin \cap Tool = {}
ASSUME TimeAssumption == Life \in Nat \ {0} /\ Horizon \in Nat
ASSUME FaultsAssumption == MaxFaults \in Nat

Issuer == Admin \cup Tool

\* The NULL of expires_at: later than everything.
Never == Horizon + Life + 1

Link == [object : Object \cup {NoObject}, expires : 0..Horizon + Life]
ASSUME NoLinkAssumption == NoLink \notin Link

VARIABLES
    now,
    row,        \* uploaded_objects.status, "none" before and "gone" after
    file,       \* the objects with a file at their storage path
    expires,    \* uploaded_objects.expires_at
    tokens,     \* the issuers whose token is in download_tokens
    link,       \* what they returned to their clients
    pc,         \* what an issuer does next
    target,     \* the object it issues a link for
    dl,         \* what a download does next, or how it ended
    via,        \* the issuer of its token
    dlObj,      \* its object
    todo,       \* the expired objects the clean-up has listed
    sweeping,   \* the one whose file it has removed
    deletion,   \* what HandleDeleteObject does next with an object
    faults,     \* the calls that failed so far
    raced       \* history: the issuers that another issuer for the same object,
                \* or a clean-up that took the object for expired, overlapped

issueVars == <<tokens, link, pc, target>>
readVars == <<dl, via, dlObj>>
sweepVars == <<todo, sweeping>>
vars == <<now, row, file, expires, issueVars, readVars, sweepVars, deletion, faults, raced>>

TypeOK ==
    /\ now \in 0..Horizon
    /\ row \in [Object -> {"none", "pending", "completed", "failed", "gone"}]
    /\ file \in SUBSET Object
    /\ expires \in [Object -> 0..Never]
    /\ tokens \in SUBSET Issuer
    /\ link \in [Issuer -> Link \cup {NoLink}]
    /\ pc \in [Issuer -> {"idle", "call", "wait", "insert", "expire", "done"}]
    /\ target \in [Issuer -> Object \cup {NoObject}]
    /\ dl \in [Reader -> {"idle", "get", "open", "invalid", "notFound", "empty", "served"}]
    /\ via \in [Reader -> Issuer \cup {NoIssuer}]
    /\ dlObj \in [Reader -> Object \cup {NoObject}]
    /\ todo \in SUBSET Object
    /\ sweeping \in Object \cup {NoObject}
    /\ deletion \in [Object -> {"no", "file", "row", "done"}]
    /\ faults \in 0..MaxFaults
    /\ raced \in SUBSET Issuer

\* The objects the tools do not create have been initialised by RequestZip.
Init ==
    /\ now = 0
    /\ row = [o \in Object |->
                 IF \E i \in Tool : OwnOf[i] = o THEN "none" ELSE "pending"]
    /\ file = {}
    /\ expires = [o \in Object |-> Never]
    /\ tokens = {}
    /\ link = [i \in Issuer |-> NoLink]
    /\ pc = [i \in Issuer |-> "idle"]
    /\ target = [i \in Issuer |-> NoObject]
    /\ dl = [r \in Reader |-> "idle"]
    /\ via = [r \in Reader |-> NoIssuer]
    /\ dlObj = [r \in Reader |-> NoObject]
    /\ todo = {}
    /\ sweeping = NoObject
    /\ deletion = [o \in Object |-> "no"]
    /\ faults = 0
    /\ raced = {}

-----------------------------------------------------------------------------
HasRow(o) == o \in Object /\ row[o] \notin {"none", "gone"}
Goto(i, step) == pc' = [pc EXCEPT ![i] = step]
\* The issuers at work for an object.
Issuing(o) == {i \in Issuer : pc[i] \notin {"idle", "done"} /\ target[i] = o}

\* A call fails: a locked database, a file that cannot be removed.
Fault == faults < MaxFaults /\ faults' = faults + 1

Tick ==
    /\ now < Horizon
    /\ now' = now + 1
    /\ UNCHANGED <<row, file, expires, issueVars, readVars, sweepVars, deletion, faults, raced>>

(***************************************************************************)
(* The upload of an object, which ObjectStore takes apart: its file is in  *)
(* place and its row completed, or it failed.  The request that asked for  *)
(* it may mark it failed while the upload goes on, or after it has         *)
(* completed (zip.go:114).                                                 *)
(***************************************************************************)
UploadCompletes(o) ==
    /\ row[o] = "pending" \/ (row[o] = "failed" /\ o \notin file /\ expires[o] = Never)
    /\ row' = [row EXCEPT ![o] = "completed"]
    /\ file' = file \cup {o}
    /\ UNCHANGED <<now, expires, issueVars, readVars, sweepVars, deletion, faults, raced>>

UploadFails(o) ==
    /\ row[o] \in {"pending", "completed"}
    /\ \A i \in Tool : OwnOf[i] = o => row[o] = "pending"
    /\ row' = [row EXCEPT ![o] = "failed"]
    /\ UNCHANGED <<now, file, expires, issueVars, readVars, sweepVars, deletion, faults, raced>>

-----------------------------------------------------------------------------
(***************************************************************************)
(* HandleGenerateDownloadToken.                                            *)
(***************************************************************************)
\* GetObject and the test of the status.
IssueCheck(i, o) ==
    /\ pc[i] = "idle" /\ row[o] = "completed"
    /\ target' = [target EXCEPT ![i] = o]
    /\ Goto(i, "insert")
    /\ LET others == Issuing(o)
       IN  raced' = raced \cup others
                          \cup {j \in {i} : others # {} \/ o \in todo \cup {sweeping}}
    /\ UNCHANGED <<now, row, file, expires, tokens, link, readVars, sweepVars,
                   deletion, faults>>

\* GenerateToken, for both kinds of issuers.
Insert(i) ==
    LET l == [object |-> target[i], expires |-> now + Life]
    IN  /\ pc[i] = "insert"
        /\ \/ /\ tokens' = tokens \cup {i}
              /\ link' = [link EXCEPT ![i] = l]
              /\ Goto(i, IF i \in Admin THEN "expire" ELSE "done")
              /\ UNCHANGED faults
           \/ Fault /\ Goto(i, "done") /\ UNCHANGED <<tokens, link>>
        /\ UNCHANGED <<now, row, file, expires, target, readVars, sweepVars, deletion, raced>>

\* Mutant of Expire: the token's expiry is taken for a duration.
ExpireAfter(i) ==
    /\ pc[i] = "expire"
    /\ expires' = [expires EXCEPT ![target[i]] = now + link[i].expires]
    /\ Goto(i, "done")
    /\ UNCHANGED <<now, row, file, tokens, link, target, readVars, sweepVars,
                   deletion, faults, raced>>

\* Mutant of Expire: the object's expiration is left alone.
ExpireSkipped(i) ==
    /\ pc[i] = "expire"
    /\ Goto(i, "done")
    /\ UNCHANGED <<now, row, file, expires, tokens, link, target, readVars,
                   sweepVars, deletion, faults, raced>>

\* SetObjectExpiration: an UPDATE that may find no row.  An error is logged.
Expire(i) ==
    /\ pc[i] = "expire"
    /\ \/ /\ expires' = IF HasRow(target[i])
                          THEN [expires EXCEPT ![target[i]] = link[i].expires]
                          ELSE expires
          /\ UNCHANGED faults
       \/ Fault /\ UNCHANGED expires
    /\ Goto(i, "done")
    /\ UNCHANGED <<now, row, file, tokens, link, target, readVars, sweepVars, deletion, raced>>

-----------------------------------------------------------------------------
(***************************************************************************)
(* handleGetDownloadLink, for one path.  The err its uploads return is     *)
(* declared inside the if statement (tools.go:416) and the test after it   *)
(* (tools.go:448) sees another one: whatever goes wrong, a token is        *)
(* generated, for the empty object id.                                     *)
(***************************************************************************)
\* InitUpload; getFileInfo or compress may have failed before it.
ToolInit(i) ==
    LET o == OwnOf[i]
    IN  /\ pc[i] = "idle" /\ row[o] = "none"
        /\ \/ /\ row' = [row EXCEPT ![o] = "pending"]
              /\ target' = [target EXCEPT ![i] = o]
              /\ Goto(i, "call")
              /\ UNCHANGED faults
           \/ Fault /\ Goto(i, "insert") /\ UNCHANGED <<row, target, raced>>
        /\ UNCHANGED <<now, file, expires, tokens, link, readVars, sweepVars, deletion, raced>>

\* The call that asks the agent for the upload returns well, or fails; whether
\* the object can be marked failed then is not looked at.
ToolCall(i, well) ==
    LET o == OwnOf[i]
    IN  /\ pc[i] = "call"
        /\ IF well THEN Goto(i, "wait") /\ UNCHANGED <<row, target, faults, raced>>
           ELSE /\ \/ /\ row' = IF HasRow(o) THEN [row EXCEPT ![o] = "failed"] ELSE row
                      /\ UNCHANGED faults
                   \/ Fault /\ UNCHANGED row
                /\ target' = [target EXCEPT ![i] = NoObject]
                /\ Goto(i, "insert")
        /\ UNCHANGED <<now, file, expires, tokens, link, readVars, sweepVars, deletion, raced>>

\* Mutant of ToolWait: an upload that has not failed is taken for completed.
ToolWaitHasty(i) ==
    /\ pc[i] = "wait"
    /\ target' = IF row[OwnOf[i]] # "failed" THEN target
                 ELSE [target EXCEPT ![i] = NoObject]
    /\ Goto(i, "insert")
    /\ UNCHANGED <<now, row, file, expires, tokens, link, readVars, sweepVars,
                   deletion, faults, raced>>

\* waitForObjectCompletion: completed, or failed, or the time it waits is over.
ToolWait(i) ==
    /\ pc[i] = "wait"
    /\ target' = IF row[OwnOf[i]] = "completed" THEN target
                 ELSE [target EXCEPT ![i] = NoObject]
    /\ Goto(i, "insert")
    /\ UNCHANGED <<now, row, file, expires, tokens, link, readVars, sweepVars,
                   deletion, faults, raced>>

-----------------------------------------------------------------------------
(***************************************************************************)
(* HandleDownload and ServeFile.                                           *)
(***************************************************************************)
\* ValidateToken, with the link of a request that has returned it.
DlValidate(r, i) ==
    LET valid == i \in tokens /\ link[i].expires >= now
    IN  /\ dl[r] = "idle" /\ pc[i] = "done" /\ link[i] # NoLink
        /\ via' = [via EXCEPT ![r] = i]
        /\ \/ /\ valid
              /\ dl' = [dl EXCEPT ![r] = "get"]
              /\ dlObj' = [dlObj EXCEPT ![r] = link[i].object]
              /\ UNCHANGED faults
           \/ /\ dl' = [dl EXCEPT ![r] = "invalid"]
              /\ Fault \/ (~valid /\ UNCHANGED faults)
              /\ UNCHANGED dlObj
        /\ UNCHANGED <<now, row, file, expires, issueVars, sweepVars, deletion, raced>>

\* The other route names the object.
DlById(r, o) ==
    /\ dl[r] = "idle"
    /\ dl' = [dl EXCEPT ![r] = "get"]
    /\ dlObj' = [dlObj EXCEPT ![r] = o]
    /\ UNCHANGED <<now, row, file, expires, issueVars, via, sweepVars, deletion, faults, raced>>

\* GetObject.  The status is not asked for.
DlGet(r) ==
    /\ dl[r] = "get"
    /\ \/ dl' = [dl EXCEPT ![r] = IF HasRow(dlObj[r]) THEN "open" ELSE "notFound"]
          /\ UNCHANGED faults
       \/ Fault /\ dl' = [dl EXCEPT ![r] = "notFound"]
    /\ UNCHANGED <<now, row, file, expires, issueVars, via, dlObj, sweepVars, deletion, raced>>

\* GetStoragePath, which looks the row up again, and os.Open; a file that is
\* open is served whatever becomes of its entry.  An error is returned without
\* an answer: the client gets 200 and nothing.
DlOpen(r) ==
    LET o == dlObj[r]
    IN  /\ dl[r] = "open"
        /\ \/ dl' = [dl EXCEPT ![r] = IF HasRow(o) /\ o \in file THEN "served" ELSE "empty"]
              /\ UNCHANGED faults
           \/ Fault /\ dl' = [dl EXCEPT ![r] = "empty"]
        /\ UNCHANGED <<now, row, file, expires, issueVars, via, dlObj, sweepVars, deletion, raced>>

-----------------------------------------------------------------------------
(***************************************************************************)
(* CleanupExpiredObjects, CleanupExpiredTokens and DeleteObject.           *)
(***************************************************************************)
\* Mutant of SweepList: an object is expired in its last tick.
SweepListInclusive ==
    /\ todo = {} /\ sweeping = NoObject
    /\ todo' = {o \in Object : HasRow(o) /\ expires[o] <= now}
    /\ todo' # {}
    /\ raced' = raced \cup UNION {Issuing(o) : o \in todo'}
    /\ UNCHANGED <<now, row, file, expires, issueVars, readVars, sweeping, deletion, faults>>

\* The query finds its rows when it starts; the removals run one by one after.
SweepList ==
    /\ todo = {} /\ sweeping = NoObject
    /\ todo' = {o \in Object : HasRow(o) /\ expires[o] < now}
    /\ todo' # {}
    /\ raced' = raced \cup UNION {Issuing(o) : o \in todo'}
    /\ UNCHANGED <<now, row, file, expires, issueVars, readVars, sweeping, deletion, faults>>

\* A failure to remove the file is logged.
SweepFile(o) ==
    /\ o \in todo /\ sweeping = NoObject
    /\ todo' = todo \ {o}
    /\ sweeping' = o
    /\ \/ file' = file \ {o} /\ UNCHANGED faults
       \/ Fault /\ UNCHANGED file
    /\ UNCHANGED <<now, row, expires, issueVars, readVars, deletion, raced>>

SweepRow ==
    /\ sweeping # NoObject
    /\ sweeping' = NoObject
    /\ \/ row' = [row EXCEPT ![sweeping] = "gone"] /\ UNCHANGED faults
       \/ Fault /\ UNCHANGED row
    /\ UNCHANGED <<now, file, expires, issueVars, readVars, todo, deletion, raced>>

TokensSweep ==
    /\ \E i \in tokens : link[i].expires < now
    /\ tokens' = {i \in tokens : link[i].expires >= now}
    /\ UNCHANGED <<now, row, file, expires, link, pc, target, readVars, sweepVars,
                   deletion, faults, raced>>

DeleteGet(o) ==
    /\ deletion[o] = "no" /\ HasRow(o)
    /\ deletion' = [deletion EXCEPT ![o] = "file"]
    /\ UNCHANGED <<now, row, file, expires, issueVars, readVars, sweepVars, faults, raced>>

DeleteFile(o) ==
    /\ deletion[o] = "file"
    /\ deletion' = [deletion EXCEPT ![o] = "row"]
    /\ \/ file' = file \ {o} /\ UNCHANGED faults
       \/ Fault /\ UNCHANGED file
    /\ UNCHANGED <<now, row, expires, issueVars, readVars, sweepVars, raced>>

DeleteRow(o) ==
    /\ deletion[o] = "row"
    /\ deletion' = [deletion EXCEPT ![o] = "done"]
    /\ \/ row' = [row EXCEPT ![o] = "gone"] /\ UNCHANGED faults
       \/ Fault /\ UNCHANGED row
    /\ UNCHANGED <<now, file, expires, issueVars, readVars, sweepVars, raced>>

-----------------------------------------------------------------------------
Sweep == SweepList \/ SweepRow \/ \E o \in Object : SweepFile(o)
Delete(o) == DeleteGet(o) \/ DeleteFile(o) \/ DeleteRow(o)
GetDownloadLink(i) ==
    ToolInit(i) \/ ToolWait(i) \/ \E well \in BOOLEAN : ToolCall(i, well)
HandleDownload(r) ==
    \/ DlGet(r) \/ DlOpen(r)
    \/ \E i \in Issuer : DlValidate(r, i)
    \/ \E o \in Object : DlById(r, o)

Next ==
    \/ Tick \/ Sweep \/ TokensSweep
    \/ \E o \in Object : UploadCompletes(o) \/ UploadFails(o) \/ Delete(o)
    \/ \E i \in Admin : Expire(i) \/ \E o \in Object : IssueCheck(i, o)
    \/ \E i \in Tool : GetDownloadLink(i)
    \/ \E i \in Issuer : Insert(i)
    \/ \E r \in Reader : HandleDownload(r)

\* The tickers that start the clean-ups go on, and a clean-up that started runs.
Spec == Init /\ [][Next]_vars
FairSpec == Spec /\ WF_vars(Sweep) /\ WF_vars(TokensSweep)
=============================================================================
