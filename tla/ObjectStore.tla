----------------------------- MODULE ObjectStore -----------------------------
(***************************************************************************)
(* Uploads into the object storage: internal/objects/upload.go over        *)
(* storage.go.  An object is a row of the table uploaded_objects, a file   *)
(* at its storage path, and while it is uploaded a second one at that path *)
(* plus ".tmp".  PUT requests, the service that asked for the upload,      *)
(* deletions and cancellations run in goroutines of their own and share no *)
(* lock: every SQL statement and every file system call is a step.         *)
(*                                                                         *)
(* Directory entries and files are told apart, because an upload writes to *)
(* the file it opened whatever became of the entry.  An upload writes the  *)
(* file in two halves, which is enough for two of them to mix.             *)
(***************************************************************************)
EXTENDS Naturals, FiniteSets

CONSTANTS
    Object,     \* the object ids
    Upload,     \* the PUT requests
    ObjectOf,   \* the object each of them is for
    Deleter,    \* the goroutines that delete objects
    Canceller,  \* the goroutines that cancel uploads
    None,       \* no file, no object
    Bodies,     \* what clients send: see Body
    GivesUp,    \* may the request for the upload fail
    Crashes,    \* may the process be killed
    MaxFaults   \* how many SQL and file system calls may fail in a behaviour

\* The announced bytes, bytes with another hash, too few, too many, or a
\* connection that breaks.  A hash is announced only to HandleInitUpload; for
\* the uploads RequestZip and uploadFile ask for, "corrupt" counts as "exact".
Body == {"exact", "corrupt", "short", "long", "broken"}

ASSUME ObjectOfAssumption == ObjectOf \in [Upload -> Object]
ASSUME NoneAssumption == None \notin Upload \cup Object
ASSUME BodiesAssumption == Bodies \subseteq Body
ASSUME StoreFlagAssumption ==
    GivesUp \in BOOLEAN /\ Crashes \in BOOLEAN
ASSUME StoreFaultAssumption == MaxFaults \in Nat

VARIABLES
    status,     \* uploaded_objects.status, "none" before and "gone" after
    asking,     \* the objects whose upload request to the agent is not over
    final,      \* the file the entry at the storage path names
    temp,       \* the file the ".tmp" entry names
    lo, hi,     \* the uploads whose bytes are in the halves of a file; files
                \* are named for the upload that created them
    left,       \* the objects whose ".tmp" an upload failed to remove
    pc,         \* what an upload does next
    body,       \* what its client sends
    fd,         \* the file it has open
    delPc, delObj,  \* what a deletion does next, to which object
    canPc, canObj,  \* what a cancellation does next, to which object
    deleted,    \* the objects whose deletion has begun, or was tried
    overlapped, \* the objects that two uploads were handled of at a time
    faults,     \* the calls that failed so far
    crashed     \* was the process killed once

vars == <<status, asking, final, temp, lo, hi, left, pc, body, fd, delPc, delObj,
          canPc, canObj, deleted, overlapped, faults, crashed>>

rowVars == <<status, asking>>
fileVars == <<final, temp, lo, hi, left>>
uploadVars == <<pc, body, fd>>
adminVars == <<delPc, delObj, canPc, canObj, deleted>>

Running == {"mark", "create", "writeLo", "writeHi", "judge", "rename",
            "complete", "fail", "failEarly", "cleanup"}

TypeOK ==
    /\ status \in [Object -> {"none", "pending", "uploading", "completed",
                              "failed", "gone"}]
    /\ asking \in SUBSET Object
    /\ final \in [Object -> Upload \cup {None}]
    /\ temp \in [Object -> Upload \cup {None}]
    /\ lo \in [Upload -> Upload \cup {None}]
    /\ hi \in [Upload -> Upload \cup {None}]
    /\ left \in SUBSET Object
    /\ pc \in [Upload -> {"idle", "done"} \cup Running]
    /\ body \in [Upload -> Body]
    /\ fd \in [Upload -> Upload \cup {None}]
    /\ delPc \in [Deleter -> {"idle", "file", "row"}]
    /\ delObj \in [Deleter -> Object \cup {None}]
    /\ canPc \in [Canceller -> {"idle", "temp", "mark"}]
    /\ canObj \in [Canceller -> Object \cup {None}]
    /\ deleted \in SUBSET Object
    /\ overlapped \in SUBSET Object
    /\ faults \in 0..MaxFaults
    /\ crashed \in BOOLEAN

Init ==
    /\ status = [o \in Object |-> "none"]
    /\ asking = {}
    /\ final = [o \in Object |-> None]
    /\ temp = [o \in Object |-> None]
    /\ lo = [u \in Upload |-> None]
    /\ hi = [u \in Upload |-> None]
    /\ left = {}
    /\ pc = [u \in Upload |-> "idle"]
    /\ body = [u \in Upload |-> "exact"]
    /\ fd = [u \in Upload |-> None]
    /\ delPc = [k \in Deleter |-> "idle"]
    /\ delObj = [k \in Deleter |-> None]
    /\ canPc = [k \in Canceller |-> "idle"]
    /\ canObj = [k \in Canceller |-> None]
    /\ deleted = {}
    /\ overlapped = {}
    /\ faults = 0
    /\ crashed = FALSE

-----------------------------------------------------------------------------
InFlight(o) == \E u \in Upload : ObjectOf[u] = o /\ pc[u] \in Running
HasRow(o) == status[o] \notin {"none", "gone"}
Uploadable(o) == status[o] \in {"pending", "uploading"}
Goto(u, step) == pc' = [pc EXCEPT ![u] = step]

\* A call fails: a locked database, a full disk.
Fault == faults < MaxFaults /\ faults' = faults + 1

\* UpdateObjectStatus, which asks nothing of the status it overwrites, and its
\* two errors: no row, or the statement failed.
UpdateObjectStatus(o, s) ==
    /\ HasRow(o)
    /\ status' = [status EXCEPT ![o] = s]
    /\ UNCHANGED faults
UpdateFails(o) ==
    /\ UNCHANGED status
    /\ Fault \/ (~HasRow(o) /\ UNCHANGED faults)

-----------------------------------------------------------------------------
(***************************************************************************)
(* The request for an upload: RequestZip, and uploadFile of the MCP tools. *)
(***************************************************************************)
InitUpload(o) ==
    /\ status[o] = "none"
    /\ status' = [status EXCEPT ![o] = "pending"]
    /\ asking' = asking \cup {o}
    /\ UNCHANGED <<fileVars, uploadVars, adminVars, overlapped, faults, crashed>>

\* The RPC that asks the agent for the upload returns well (TRUE), or fails,
\* times out or is cancelled, whatever became of the upload meanwhile.
RequestEnds(o, well) ==
    /\ o \in asking
    /\ asking' = asking \ {o}
    /\ IF well THEN UNCHANGED <<status, faults>>
       ELSE /\ GivesUp
            /\ UpdateObjectStatus(o, "failed") \/ UpdateFails(o)
    /\ UNCHANGED <<fileVars, uploadVars, adminVars, overlapped, crashed>>

-----------------------------------------------------------------------------
(***************************************************************************)
(* HandleUpload, for a PUT request u of object ObjectOf[u].                *)
(***************************************************************************)
\* Mutant of UpCheck: whatever has a row is uploaded, and replaced.
UpCheckAny(u, b) ==
    LET o == ObjectOf[u]
    IN  /\ pc[u] = "idle" /\ HasRow(o)
        /\ overlapped' = IF InFlight(o) THEN overlapped \cup {o} ELSE overlapped
        /\ Goto(u, "mark")
        /\ body' = [body EXCEPT ![u] = b]
        /\ UNCHANGED <<rowVars, fileVars, fd, adminVars, faults, crashed>>

\* The row is read and its status tested.
UpCheck(u, b) ==
    LET o == ObjectOf[u]
    IN  /\ pc[u] = "idle" /\ Uploadable(o)
        /\ overlapped' = IF InFlight(o) THEN overlapped \cup {o} ELSE overlapped
        /\ Goto(u, "mark")
        /\ body' = [body EXCEPT ![u] = b]
        /\ UNCHANGED <<rowVars, fileVars, fd, adminVars, faults, crashed>>

UpMark(u) ==
    LET o == ObjectOf[u]
    IN  /\ pc[u] = "mark"
        /\ \/ UpdateObjectStatus(o, "uploading") /\ Goto(u, "create")
           \/ UpdateFails(o) /\ Goto(u, "done")
        /\ UNCHANGED <<asking, fileVars, body, fd, adminVars, overlapped, crashed>>

\* GetStoragePath and os.Create, which truncates the file the entry names if
\* there is one.  Without a row the path is empty and the upload is doomed: it
\* writes a stray file elsewhere, which is left out here.
UpCreate(u) ==
    LET o == ObjectOf[u]
        file == IF temp[o] = None THEN u ELSE temp[o]
    IN  /\ pc[u] = "create"
        /\ \/ /\ HasRow(o)
              /\ temp' = [temp EXCEPT ![o] = file]
              /\ fd' = [fd EXCEPT ![u] = file]
              /\ lo' = [lo EXCEPT ![file] = None]
              /\ hi' = [hi EXCEPT ![file] = None]
              /\ Goto(u, "writeLo")
              /\ UNCHANGED faults
           \/ ~HasRow(o) /\ Goto(u, "done") /\ UNCHANGED <<temp, fd, lo, hi, faults>>
           \/ Fault /\ Goto(u, "failEarly") /\ UNCHANGED <<temp, fd, lo, hi>>
        /\ UNCHANGED <<rowVars, final, left, body, adminVars, overlapped, crashed>>

\* CopyN, the first half of the file.
UpWriteLo(u) ==
    /\ pc[u] = "writeLo"
    /\ lo' = [lo EXCEPT ![fd[u]] = u]
    /\ Goto(u, "writeHi")
    /\ UNCHANGED <<rowVars, final, temp, hi, left, body, fd, adminVars, overlapped, faults,
                   crashed>>

\* CopyN, the second half, which a body that is short or breaks off lacks.
UpWriteHi(u) ==
    /\ pc[u] = "writeHi"
    /\ hi' = IF body[u] \in {"short", "broken"} THEN hi
             ELSE [hi EXCEPT ![fd[u]] = u]
    /\ Goto(u, "judge")
    /\ UNCHANGED <<rowVars, final, temp, lo, left, body, fd, adminVars, overlapped, faults,
                   crashed>>

\* Mutant of UpJudge: only an error of CopyN fails the upload.
UpJudgeErrorOnly(u) ==
    /\ pc[u] = "judge"
    /\ Goto(u, IF body[u] = "broken" THEN "fail" ELSE "rename")
    /\ UNCHANGED <<rowVars, fileVars, body, fd, adminVars, overlapped, faults, crashed>>

\* The error, the length and the hash of what was received.
UpJudge(u) ==
    /\ pc[u] = "judge"
    /\ Goto(u, IF body[u] = "exact" THEN "rename" ELSE "fail")
    /\ UNCHANGED <<rowVars, fileVars, body, fd, adminVars, overlapped, faults, crashed>>

\* Mutant of UpRename: a rename that fails is not noticed.
UpRenameUnchecked(u) ==
    LET o == ObjectOf[u]
    IN  /\ pc[u] = "rename"
        /\ IF temp[o] # None
             THEN /\ final' = [final EXCEPT ![o] = temp[o]]
                  /\ temp' = [temp EXCEPT ![o] = None]
             ELSE UNCHANGED <<final, temp>>
        /\ Goto(u, "complete")
        /\ UNCHANGED <<rowVars, lo, hi, left, body, fd, adminVars, overlapped, faults,
                       crashed>>

UpRename(u) ==
    LET o == ObjectOf[u]
    IN  /\ pc[u] = "rename"
        /\ \/ /\ temp[o] # None
              /\ final' = [final EXCEPT ![o] = temp[o]]
              /\ temp' = [temp EXCEPT ![o] = None]
              /\ Goto(u, "complete")
              /\ UNCHANGED faults
           \/ temp[o] = None /\ Goto(u, "fail") /\ UNCHANGED <<final, temp, faults>>
           \/ Fault /\ Goto(u, "fail") /\ UNCHANGED <<final, temp>>
        /\ UNCHANGED <<rowVars, lo, hi, left, body, fd, adminVars, overlapped, crashed>>

\* Mutant of UpComplete: the status is misspelt.
UpCompleteMistyped(u) ==
    /\ pc[u] = "complete"
    /\ UpdateObjectStatus(ObjectOf[u], "complete")
    /\ Goto(u, "cleanup")
    /\ UNCHANGED <<asking, fileVars, body, fd, adminVars, overlapped, crashed>>

UpComplete(u) ==
    LET o == ObjectOf[u]
    IN  /\ pc[u] = "complete"
        /\ UpdateObjectStatus(o, "completed") \/ UpdateFails(o)
        /\ Goto(u, "cleanup")
        /\ UNCHANGED <<asking, fileVars, body, fd, adminVars, overlapped, crashed>>

\* Mutant of UpFail: the error is returned without a status.
UpFailSilent(u) ==
    /\ pc[u] \in {"fail", "failEarly"}
    /\ Goto(u, IF pc[u] = "fail" THEN "cleanup" ELSE "done")
    /\ UNCHANGED <<rowVars, fileVars, body, fd, adminVars, overlapped, faults, crashed>>

\* An error return: the status is set to failed, and nothing is made of it
\* when that fails too.  Before the file was created nothing was deferred.
UpFail(u) ==
    LET o == ObjectOf[u]
    IN  /\ pc[u] \in {"fail", "failEarly"}
        /\ UpdateObjectStatus(o, "failed") \/ UpdateFails(o)
        /\ Goto(u, IF pc[u] = "fail" THEN "cleanup" ELSE "done")
        /\ UNCHANGED <<asking, fileVars, body, fd, adminVars, overlapped, crashed>>

\* Mutant of UpCleanup: the deferred function looks at an err that a later
\* statement shadowed, and removes nothing.
UpCleanupShadowed(u) ==
    /\ pc[u] = "cleanup"
    /\ fd' = [fd EXCEPT ![u] = None]
    /\ Goto(u, "done")
    /\ UNCHANGED <<rowVars, fileVars, body, adminVars, overlapped, faults, crashed>>

\* The deferred function.  Its err is the one CopyN returned: io.EOF unless
\* the body was too long, so that ".tmp" is removed -- whoever's it is by now,
\* and after a success too -- except for a body that was too long.  Nobody
\* looks whether the removal succeeds.
UpCleanup(u) ==
    LET o == ObjectOf[u]
    IN  /\ pc[u] = "cleanup"
        /\ \/ body[u] = "long" /\ UNCHANGED <<temp, left, faults>>
           \/ /\ body[u] # "long" /\ temp' = [temp EXCEPT ![o] = None]
              /\ UNCHANGED <<left, faults>>
           \/ /\ body[u] # "long" /\ temp[o] # None /\ Fault
              /\ left' = left \cup {o}
              /\ UNCHANGED temp
        /\ fd' = [fd EXCEPT ![u] = None]
        /\ Goto(u, "done")
        /\ UNCHANGED <<rowVars, final, lo, hi, body, adminVars, overlapped, crashed>>

-----------------------------------------------------------------------------
(***************************************************************************)
(* DeleteObject, and the body of the loop of CleanupExpiredObjects.        *)
(***************************************************************************)
DeleteGet(k, o) ==
    /\ delPc[k] = "idle" /\ HasRow(o)
    /\ delPc' = [delPc EXCEPT ![k] = "file"]
    /\ delObj' = [delObj EXCEPT ![k] = o]
    /\ deleted' = deleted \cup {o}
    /\ UNCHANGED <<rowVars, fileVars, uploadVars, canPc, canObj, overlapped, faults, crashed>>

\* A failure to remove the file is logged.
DeleteFile(k) ==
    /\ delPc[k] = "file"
    /\ \/ final' = [final EXCEPT ![delObj[k]] = None] /\ UNCHANGED faults
       \/ Fault /\ UNCHANGED final
    /\ delPc' = [delPc EXCEPT ![k] = "row"]
    /\ UNCHANGED <<rowVars, temp, lo, hi, left, uploadVars, delObj, canPc, canObj, deleted,
                   overlapped, crashed>>

DeleteRow(k) ==
    /\ delPc[k] = "row"
    /\ \/ status' = [status EXCEPT ![delObj[k]] = "gone"] /\ UNCHANGED faults
       \/ Fault /\ UNCHANGED status
    /\ delPc' = [delPc EXCEPT ![k] = "idle"]
    /\ delObj' = [delObj EXCEPT ![k] = None]
    /\ UNCHANGED <<asking, fileVars, uploadVars, canPc, canObj, deleted, overlapped, crashed>>

(***************************************************************************)
(* CancelUpload.                                                           *)
(***************************************************************************)
CancelGet(k, o) ==
    /\ canPc[k] = "idle" /\ Uploadable(o)
    /\ canPc' = [canPc EXCEPT ![k] = "temp"]
    /\ canObj' = [canObj EXCEPT ![k] = o]
    /\ UNCHANGED <<rowVars, fileVars, uploadVars, delPc, delObj, deleted, overlapped, faults, crashed>>

\* Without a row the path is empty.  The removal may fail, unnoticed.
CancelTemp(k) ==
    LET o == canObj[k]
    IN  /\ canPc[k] = "temp"
        /\ \/ HasRow(o) /\ temp' = [temp EXCEPT ![o] = None] /\ UNCHANGED faults
           \/ ~HasRow(o) /\ UNCHANGED <<temp, faults>>
           \/ Fault /\ UNCHANGED temp
        /\ canPc' = [canPc EXCEPT ![k] = "mark"]
        /\ UNCHANGED <<rowVars, final, lo, hi, left, uploadVars, delPc, delObj, canObj,
                       deleted, overlapped, crashed>>

CancelMark(k) ==
    /\ canPc[k] = "mark"
    /\ UpdateObjectStatus(canObj[k], "failed") \/ UpdateFails(canObj[k])
    /\ canPc' = [canPc EXCEPT ![k] = "idle"]
    /\ canObj' = [canObj EXCEPT ![k] = None]
    /\ UNCHANGED <<asking, fileVars, uploadVars, delPc, delObj, deleted, overlapped, crashed>>

-----------------------------------------------------------------------------
\* The process is killed and started again: rows and files stay, goroutines
\* and requests do not.
Crash ==
    /\ Crashes /\ ~crashed
    /\ crashed' = TRUE
    /\ asking' = {}
    /\ pc' = [u \in Upload |-> IF pc[u] = "idle" THEN "idle" ELSE "done"]
    /\ fd' = [u \in Upload |-> None]
    /\ delPc' = [k \in Deleter |-> "idle"]
    /\ delObj' = [k \in Deleter |-> None]
    /\ canPc' = [k \in Canceller |-> "idle"]
    /\ canObj' = [k \in Canceller |-> None]
    /\ UNCHANGED <<status, fileVars, body, deleted, overlapped, faults>>

HandleUpload(u) ==
    \/ UpMark(u) \/ UpCreate(u) \/ UpWriteLo(u) \/ UpWriteHi(u) \/ UpJudge(u)
    \/ UpRename(u) \/ UpComplete(u) \/ UpFail(u) \/ UpCleanup(u)
Delete(k) == (\E o \in Object : DeleteGet(k, o)) \/ DeleteFile(k) \/ DeleteRow(k)
Cancel(k) == (\E o \in Object : CancelGet(k, o)) \/ CancelTemp(k) \/ CancelMark(k)

Next ==
    \/ \E o \in Object : InitUpload(o) \/ \E well \in BOOLEAN : RequestEnds(o, well)
    \/ \E u \in Upload : HandleUpload(u) \/ \E b \in Bodies : UpCheck(u, b)
    \/ \E k \in Deleter : Delete(k)
    \/ \E k \in Canceller : Cancel(k)
    \/ Crash

\* An upload that started goes on: the client's bytes arrive or its connection
\* breaks.
Spec == Init /\ [][Next]_vars
FairSpec == Spec /\ \A u \in Upload : WF_vars(HandleUpload(u))
=============================================================================
