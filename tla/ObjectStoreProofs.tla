-------------------------- MODULE ObjectStoreProofs --------------------------
(***************************************************************************)
(* Theorems about uploads, for any number of objects, PUT requests,        *)
(* deletions and cancellations, and any number of failing calls.           *)
(***************************************************************************)
EXTENDS ObjectStoreProps, TLAPS

USE ObjectOfAssumption, NoneAssumption, BodiesAssumption, StoreFlagAssumption,
    StoreFaultAssumption

\* A step of the requests for uploads, and one for a PUT request.
Request == \E o \in Object : InitUpload(o) \/ \E well \in BOOLEAN : RequestEnds(o, well)
UploadStep(u) == HandleUpload(u) \/ \E b \in Bodies : UpCheck(u, b)

LEMMA NextSteps ==
    Next <=> \/ Request
             \/ \E u \in Upload : UploadStep(u)
             \/ \E k \in Deleter : Delete(k)
             \/ \E k \in Canceller : Cancel(k)
             \/ Crash
BY DEF Next, Request, UploadStep

-----------------------------------------------------------------------------
(***************************************************************************)
(* Type correctness.                                                       *)
(***************************************************************************)
\* What an UPDATE of a status does, whether it succeeds or not.
LEMMA UpdateTypeOK ==
    ASSUME TypeOK, NEW o, NEW s \in {"uploading", "completed", "failed"},
           UpdateObjectStatus(o, s) \/ UpdateFails(o)
    PROVE  /\ status' \in [Object -> {"none", "pending", "uploading", "completed",
                                      "failed", "gone"}]
           /\ faults' \in 0..MaxFaults
BY DEF UpdateObjectStatus, UpdateFails, Fault, TypeOK

LEMMA UploadTypeOK ==
    ASSUME TypeOK, NEW u \in Upload, UploadStep(u)
    PROVE  TypeOK'
<1> USE DEF Goto, rowVars, fileVars, uploadVars, adminVars
<1>1. CASE \E b \in Bodies : UpCheck(u, b)
  BY <1>1 DEF UpCheck, TypeOK, Running, Body
<1>2. CASE UpMark(u)
  <2>1. UpdateObjectStatus(ObjectOf[u], "uploading") \/ UpdateFails(ObjectOf[u])
    BY <1>2 DEF UpMark
  <2>2. pc' = [pc EXCEPT ![u] = "create"] \/ pc' = [pc EXCEPT ![u] = "done"]
    BY <1>2 DEF UpMark
  <2>3. UNCHANGED <<asking, fileVars, body, fd, adminVars, overlapped, crashed>>
    BY <1>2 DEF UpMark
  <2>. QED BY <2>1, <2>2, <2>3, UpdateTypeOK DEF TypeOK, Running
<1>3. CASE UpCreate(u) BY <1>3 DEF UpCreate, Fault, TypeOK, Running
<1>4. CASE UpWriteLo(u) BY <1>4 DEF UpWriteLo, TypeOK, Running
<1>5. CASE UpWriteHi(u) BY <1>5 DEF UpWriteHi, TypeOK, Running
<1>6. CASE UpJudge(u) BY <1>6 DEF UpJudge, TypeOK, Running
<1>7. CASE UpRename(u) BY <1>7 DEF UpRename, Fault, TypeOK, Running
<1>8. CASE UpComplete(u)
  <2>1. UpdateObjectStatus(ObjectOf[u], "completed") \/ UpdateFails(ObjectOf[u])
    BY <1>8 DEF UpComplete
  <2>. QED BY <1>8, <2>1, UpdateTypeOK DEF UpComplete, TypeOK, Running
<1>9. CASE UpFail(u)
  <2>1. UpdateObjectStatus(ObjectOf[u], "failed") \/ UpdateFails(ObjectOf[u])
    BY <1>9 DEF UpFail
  <2>. QED BY <1>9, <2>1, UpdateTypeOK DEF UpFail, TypeOK, Running
<1>10. CASE UpCleanup(u) BY <1>10 DEF UpCleanup, Fault, TypeOK, Running
<1>. QED BY <1>1, <1>2, <1>3, <1>4, <1>5, <1>6, <1>7, <1>8, <1>9, <1>10
         DEF UploadStep, HandleUpload

LEMMA AdminTypeOK ==
    ASSUME TypeOK,
           (\E k \in Deleter : Delete(k)) \/ (\E k \in Canceller : Cancel(k))
    PROVE  TypeOK'
<1> USE DEF rowVars, fileVars, uploadVars
<1>1. ASSUME NEW k \in Deleter, Delete(k) PROVE TypeOK'
  <2>1. CASE \E o \in Object : DeleteGet(k, o) BY <2>1 DEF DeleteGet, TypeOK
  <2>2. CASE DeleteFile(k) BY <2>2 DEF DeleteFile, Fault, TypeOK
  <2>3. CASE DeleteRow(k) BY <2>3 DEF DeleteRow, Fault, TypeOK
  <2>. QED BY <1>1, <2>1, <2>2, <2>3 DEF Delete
<1>2. ASSUME NEW k \in Canceller, Cancel(k) PROVE TypeOK'
  <2>1. CASE \E o \in Object : CancelGet(k, o) BY <2>1 DEF CancelGet, TypeOK
  <2>2. CASE CancelTemp(k) BY <2>2 DEF CancelTemp, Fault, TypeOK
  <2>3. CASE CancelMark(k)
    <3>1. UpdateObjectStatus(canObj[k], "failed") \/ UpdateFails(canObj[k])
      BY <2>3 DEF CancelMark
    <3>. QED BY <2>3, <3>1, UpdateTypeOK DEF CancelMark, TypeOK
  <2>. QED BY <1>2, <2>1, <2>2, <2>3 DEF Cancel
<1>. QED BY <1>1, <1>2

LEMMA NextTypeOK == TypeOK /\ [Next]_vars => TypeOK'
<1> SUFFICES ASSUME TypeOK, [Next]_vars PROVE TypeOK'
  OBVIOUS
<1>1. CASE UNCHANGED vars BY <1>1 DEF vars, TypeOK
<1>2. CASE Request
  <2> USE DEF fileVars, uploadVars, adminVars
  <2>1. ASSUME NEW o \in Object, InitUpload(o) PROVE TypeOK'
    BY <2>1 DEF InitUpload, TypeOK
  <2>2. ASSUME NEW o \in Object, NEW well \in BOOLEAN, RequestEnds(o, well) PROVE TypeOK'
    <3>1. \/ status' = status /\ faults' = faults
          \/ UpdateObjectStatus(o, "failed") \/ UpdateFails(o)
      BY <2>2 DEF RequestEnds
    <3>. QED BY <2>2, <3>1, UpdateTypeOK DEF RequestEnds, TypeOK
  <2>. QED BY <1>2, <2>1, <2>2 DEF Request
<1>3. CASE Crash
  <2>1. crashed' = TRUE BY <1>3 DEF Crash
  <2>2. crashed' \in BOOLEAN BY <2>1
  <2>. QED BY <1>3, <2>2 DEF Crash, TypeOK, fileVars, Running
<1>. QED BY <1>1, <1>2, <1>3, UploadTypeOK, AdminTypeOK, NextSteps

LEMMA InitTypeOK == Init => TypeOK
<1> SUFFICES ASSUME Init PROVE TypeOK
  OBVIOUS
<1>1. crashed \in BOOLEAN
  <2>1. crashed = FALSE BY Zenon DEF Init
  <2>. QED BY Zenon, <2>1
<1>2. faults \in 0..MaxFaults BY DEF Init
<1>. QED BY <1>1, <1>2 DEF Init, TypeOK, Body

\* The variables of the object store keep their types.
THEOREM UploadsTypeCorrect == Spec => []TypeOK
BY InitTypeOK, NextTypeOK, PTL DEF Spec

-----------------------------------------------------------------------------
(***************************************************************************)
(* Temporary files.  While nothing crashed and no removal failed, the      *)
(* ".tmp" of an object has an upload that will remove it, or one whose     *)
(* body was too long.                                                      *)
(***************************************************************************)
Opened == {"writeLo", "writeHi", "judge", "rename", "complete", "fail", "cleanup"}

Remover(u, o) ==
    ObjectOf[u] = o /\ (pc[u] \in Opened \/ (body[u] = "long" /\ pc[u] = "done"))

TempInv ==
    \A o \in Object : temp[o] # None /\ ~crashed /\ o \notin left =>
        \E u \in Upload : Remover(u, o)

LEMMA UploadTempInv ==
    ASSUME TypeOK, TempInv, NEW u \in Upload, UploadStep(u)
    PROVE  TempInv'
<1> USE DEF Goto, fileVars
<1>1. crashed' = crashed
  BY DEF UploadStep, HandleUpload, UpMark, UpCreate, UpWriteLo, UpWriteHi,
         UpJudge, UpRename, UpComplete, UpFail, UpCleanup, UpCheck
<1>2. ~crashed' => ~crashed BY Zenon, <1>1
<1>3. \A v \in Upload \ {u} : pc'[v] = pc[v] /\ body'[v] = body[v]
  BY DEF UploadStep, HandleUpload, UpMark, UpCreate, UpWriteLo, UpWriteHi, UpJudge,
         UpRename, UpComplete, UpFail, UpCleanup, UpCheck, TypeOK
<1>5. left \subseteq left'
  BY DEF UploadStep, HandleUpload, UpMark, UpCreate, UpWriteLo, UpWriteHi,
         UpJudge, UpRename, UpComplete, UpFail, UpCleanup, UpCheck
<1>4. ASSUME NEW o \in Object, temp'[o] # None, ~crashed, o \notin left'
      PROVE  \E v \in Upload : Remover(v, o)'
  <2>1. CASE temp[o] # None
    <3>1. PICK v \in Upload : Remover(v, o) BY <1>4, <1>5, <2>1 DEF TempInv
    <3>2. CASE v # u
      <4>1. Remover(v, o)' BY <1>3, <3>1, <3>2 DEF Remover
      <4>. QED BY <4>1
    <3>3. CASE v = u /\ pc[u] = "done"
      BY <3>3 DEF UploadStep, HandleUpload, UpMark, UpCreate, UpWriteLo, UpWriteHi,
                  UpJudge, UpRename, UpComplete, UpFail, UpCleanup, UpCheck
    <3>4. CASE v = u /\ pc[u] \in Opened /\ UpCleanup(u)
      <4>1. pc'[u] = "done" /\ body' = body BY <3>4 DEF UpCleanup, TypeOK
      <4>2. body[u] = "long" BY <1>4, <3>1, <3>4 DEF UpCleanup, TypeOK, Remover
      <4>3. v = u /\ ObjectOf[u] = o BY <3>1, <3>4 DEF Remover
      <4>4. Remover(u, o)' BY <4>1, <4>2, <4>3 DEF Remover
      <4>. QED BY <4>4
    <3>5. CASE v = u /\ pc[u] \in Opened /\ ~UpCleanup(u)
      <4>1. pc'[u] \in Opened
        BY <3>5
           DEF UploadStep, HandleUpload, UpMark, UpCreate, UpWriteLo, UpWriteHi, UpJudge,
               UpRename, UpComplete, UpFail, UpCheck, TypeOK, Opened
      <4>2. v = u /\ ObjectOf[u] = o BY <3>1, <3>5 DEF Remover
      <4>3. Remover(u, o)' BY <4>1, <4>2 DEF Remover
      <4>. QED BY <4>3
    <3>. QED BY <3>1, <3>2, <3>3, <3>4, <3>5 DEF Remover
  <2>2. CASE temp[o] = None
    <3>1. UpCreate(u) /\ pc'[u] = "writeLo" /\ o = ObjectOf[u]
      BY <1>4, <2>2
         DEF UploadStep, HandleUpload, UpMark, UpCreate, UpWriteLo, UpWriteHi, UpJudge,
             UpRename, UpComplete, UpFail, UpCleanup, UpCheck, TypeOK
    <3>2. Remover(u, o)' BY <3>1 DEF Remover, Opened
    <3>. QED BY <3>2
  <2>. QED BY <2>1, <2>2
<1>. QED BY <1>2, <1>4 DEF TempInv

LEMMA NextTempInv == TypeOK /\ TempInv /\ [Next]_vars => TempInv'
<1> SUFFICES ASSUME TypeOK, TempInv, [Next]_vars PROVE TempInv'
  OBVIOUS
<1> USE DEF Remover
<1>1. CASE UNCHANGED vars BY <1>1 DEF vars, TempInv
<1>2. CASE Crash BY <1>2 DEF Crash, TempInv
<1>3. CASE Request
  BY <1>3 DEF Request, InitUpload, RequestEnds, TempInv, fileVars, uploadVars
<1>4. ASSUME NEW k \in Deleter, Delete(k) PROVE TempInv'
  BY <1>4 DEF Delete, DeleteGet, DeleteFile, DeleteRow, TempInv, fileVars, uploadVars
<1>5. ASSUME NEW k \in Canceller, Cancel(k) PROVE TempInv'
  BY <1>5 DEF Cancel, CancelGet, CancelTemp, CancelMark, TempInv, fileVars, uploadVars,
              TypeOK
<1>. QED BY <1>1, <1>2, <1>3, <1>4, <1>5, UploadTempInv, NextSteps

\* When the uploads of an object are over, its ".tmp" is gone (the deferred
\* function at upload.go:61), unless one was too long, its removal failed or
\* the process was killed.
THEOREM TempFilesAreRemoved == Spec => []TempIsRemoved
<1>1. Init => TempInv BY DEF Init, TempInv
<1>2. TempInv => TempIsRemoved
  BY DEF TempInv, Remover, TempIsRemoved, InFlight, Opened, Running
<1>. QED BY <1>1, <1>2, NextTempInv, UploadsTypeCorrect, PTL DEF Spec

-----------------------------------------------------------------------------
(***************************************************************************)
(* Files.  Every file belongs to one object, the one at the storage path   *)
(* is not the ".tmp", and an upload that has not created a file owns none. *)
(***************************************************************************)
Fresh == {"idle", "mark", "create"}
FileOf(f, o) == f \in Upload /\ ObjectOf[f] = o /\ pc[f] \notin Fresh

FilesInv ==
    /\ \A o \in Object : temp[o] # None => FileOf(temp[o], o)
    /\ \A o \in Object : final[o] # None => FileOf(final[o], o) /\ final[o] # temp[o]
    /\ \A u \in Upload : fd[u] # None => FileOf(fd[u], ObjectOf[u])
    /\ \A f \in Upload : lo[f] # None => pc[lo[f]] # "idle"

\* A step of an upload is its own: the others stay where they are.
LEMMA OthersStay ==
    ASSUME TypeOK, NEW u \in Upload, UploadStep(u)
    PROVE  /\ \A v \in Upload \ {u} : pc'[v] = pc[v] /\ body'[v] = body[v] /\ fd'[v] = fd[v]
           /\ pc[u] # "idle" => pc'[u] \notin {"idle", "mark"}
           /\ pc'[u] = "create" => pc[u] = "mark"
           /\ pc[u] = "idle" => \E b \in Bodies : UpCheck(u, b)
           /\ UNCHANGED <<asking, adminVars, crashed>>
BY DEF UploadStep, HandleUpload, UpMark, UpCreate, UpWriteLo, UpWriteHi, UpJudge,
       UpRename, UpComplete, UpFail, UpCleanup, UpCheck, Goto, rowVars, TypeOK

LEMMA UploadFilesInv ==
    ASSUME TypeOK, FilesInv, NEW u \in Upload, UploadStep(u)
    PROVE  FilesInv'
<1> USE DEF Goto, fileVars, FileOf
<1>1. CASE \E b \in Bodies : UpCheck(u, b)
  <2>1. UNCHANGED <<fileVars, fd>> /\ pc[u] = "idle" /\ pc' = [pc EXCEPT ![u] = "mark"]
    BY <1>1 DEF UpCheck
  <2>. QED BY <2>1 DEF FilesInv, Fresh, TypeOK
<1>2. CASE UpMark(u)
  <2>1. /\ UNCHANGED <<fileVars, fd>> /\ pc[u] = "mark"
        /\ pc' = [pc EXCEPT ![u] = "create"] \/ pc' = [pc EXCEPT ![u] = "done"]
    BY <1>2 DEF UpMark
  <2>. QED BY <2>1 DEF FilesInv, Fresh, TypeOK
<1>3. CASE UpCreate(u)
  <2> DEFINE o == ObjectOf[u]
             file == IF temp[o] = None THEN u ELSE temp[o]
  <2>1. CASE UNCHANGED <<fileVars, fd>>
    BY <1>3, <2>1 DEF UpCreate, FilesInv, Fresh, TypeOK
  <2>2. CASE ~UNCHANGED <<fileVars, fd>>
    <3>1. /\ temp' = [temp EXCEPT ![o] = file] /\ fd' = [fd EXCEPT ![u] = file]
          /\ lo' = [lo EXCEPT ![file] = None] /\ hi' = [hi EXCEPT ![file] = None]
          /\ final' = final /\ pc[u] = "create" /\ pc' = [pc EXCEPT ![u] = "writeLo"]
      BY <1>3, <2>2 DEF UpCreate
    <3>2. /\ o \in Object /\ file \in Upload /\ ObjectOf[file] = o /\ pc'[file] \notin Fresh
          /\ final[o] # file
      BY <3>1 DEF FilesInv, Fresh, TypeOK
    <3>3. \A v \in Upload : pc[v] \notin Fresh => pc'[v] \notin Fresh
      BY <3>1 DEF Fresh, TypeOK
    <3> HIDE DEF file
    <3>. QED BY <3>1, <3>2, <3>3 DEF FilesInv, TypeOK, Fresh
  <2>. QED BY <2>1, <2>2
<1>4. CASE UpWriteLo(u) BY <1>4 DEF UpWriteLo, FilesInv, Fresh, TypeOK
<1>5. CASE UpWriteHi(u) BY <1>5 DEF UpWriteHi, FilesInv, Fresh, TypeOK
<1>6. CASE UpJudge(u) BY <1>6 DEF UpJudge, FilesInv, Fresh, TypeOK
<1>7. CASE UpRename(u) BY <1>7 DEF UpRename, FilesInv, Fresh, TypeOK
<1>8. CASE UpComplete(u) BY <1>8 DEF UpComplete, FilesInv, Fresh, TypeOK
<1>9. CASE UpFail(u) BY <1>9 DEF UpFail, FilesInv, Fresh, TypeOK
<1>10. CASE UpCleanup(u) BY <1>10 DEF UpCleanup, FilesInv, Fresh, TypeOK
<1>. QED BY <1>1, <1>2, <1>3, <1>4, <1>5, <1>6, <1>7, <1>8, <1>9, <1>10
         DEF UploadStep, HandleUpload

LEMMA NextFilesInv == TypeOK /\ FilesInv /\ [Next]_vars => FilesInv'
<1> SUFFICES ASSUME TypeOK, FilesInv, [Next]_vars PROVE FilesInv'
  OBVIOUS
<1> USE DEF FilesInv, FileOf, Fresh, fileVars, uploadVars
<1>1. CASE UNCHANGED vars BY <1>1 DEF vars
<1>2. CASE Crash BY <1>2 DEF Crash, TypeOK
<1>3. CASE Request BY <1>3 DEF Request, InitUpload, RequestEnds
<1>4. ASSUME NEW k \in Deleter, Delete(k) PROVE FilesInv'
  BY <1>4 DEF Delete, DeleteGet, DeleteFile, DeleteRow, TypeOK
<1>5. ASSUME NEW k \in Canceller, Cancel(k) PROVE FilesInv'
  BY <1>5 DEF Cancel, CancelGet, CancelTemp, CancelMark, TypeOK
<1> HIDE DEF FilesInv
<1>. QED BY <1>1, <1>2, <1>3, <1>4, <1>5, UploadFilesInv, NextSteps

-----------------------------------------------------------------------------
(***************************************************************************)
(* The files of an object whose uploads did not overlap.                   *)
(***************************************************************************)
SoleInv ==
    \A u, v \in Upload :
        /\ pc[u] \in Running /\ pc[v] \in Running
        /\ ObjectOf[u] = ObjectOf[v] /\ ObjectOf[u] \notin overlapped
        => u = v

LEMMA NextSoleInv == TypeOK /\ SoleInv /\ [Next]_vars => SoleInv'
<1> SUFFICES ASSUME TypeOK, SoleInv, [Next]_vars PROVE SoleInv'
  OBVIOUS
<1> USE DEF SoleInv
<1>1. CASE UNCHANGED vars BY <1>1 DEF vars
<1>2. CASE Crash BY <1>2 DEF Crash, TypeOK, Running
<1>3. CASE Request BY <1>3 DEF Request, InitUpload, RequestEnds, uploadVars
<1>4. ASSUME NEW k \in Deleter, Delete(k) PROVE SoleInv'
  BY <1>4 DEF Delete, DeleteGet, DeleteFile, DeleteRow, uploadVars
<1>5. ASSUME NEW k \in Canceller, Cancel(k) PROVE SoleInv'
  BY <1>5 DEF Cancel, CancelGet, CancelTemp, CancelMark, uploadVars
<1>6. ASSUME NEW u \in Upload, UploadStep(u) PROVE SoleInv'
  <2>1. CASE \E b \in Bodies : UpCheck(u, b)
    BY <2>1 DEF UpCheck, InFlight, Running, Goto, TypeOK
  <2>2. CASE HandleUpload(u)
    <3>1. overlapped' = overlapped /\ pc[u] \in Running
      BY <2>2 DEF HandleUpload, UpMark, UpCreate, UpWriteLo, UpWriteHi, UpJudge,
                  UpRename, UpComplete, UpFail, UpCleanup, Running
    <3>. QED BY <1>6, <3>1, OthersStay
  <2>. QED BY <1>6, <2>1, <2>2 DEF UploadStep
<1>. QED BY <1>1, <1>2, <1>3, <1>4, <1>5, <1>6, NextSteps

\* What an upload that is alone has in its file, the ".tmp" unless that was
\* removed.
OwnFile(u) ==
    LET o == ObjectOf[u]
    IN  /\ pc[u] \in {"writeLo", "writeHi", "judge", "rename"} =>
               fd[u] # None /\ temp[o] \in {None, fd[u]} /\ final[o] # fd[u]
        /\ pc[u] \in {"writeHi", "judge", "rename"} => lo[fd[u]] = u
        /\ pc[u] \in {"judge", "rename"} /\ body[u] = "exact" => hi[fd[u]] = u
        /\ pc[u] = "rename" => body[u] = "exact"

FinalWhole(o) == final[o] # None => Whole(final[o])

WholeInv ==
    /\ \A u \in Upload : ObjectOf[u] \notin overlapped => OwnFile(u)
    /\ \A o \in Object \ overlapped : FinalWhole(o)

\* A step that writes no file and moves no entry, or removes entries.
LEMMA WholeKept ==
    ASSUME TypeOK, FilesInv, WholeInv,
           UNCHANGED <<lo, hi, overlapped>>,
           \A o \in Object : /\ temp'[o] \in {temp[o], None}
                             /\ final'[o] \in {final[o], None},
           \A u \in Upload :
               /\ body'[u] = body[u] \/ pc[u] = "idle"
               /\ \/ pc'[u] = pc[u] /\ fd'[u] = fd[u]
                  \/ pc'[u] \notin {"writeLo", "writeHi", "judge", "rename"}
    PROVE  WholeInv'
<1>1. ASSUME NEW u \in Upload, ObjectOf[u] \notin overlapped PROVE OwnFile(u)'
  BY <1>1 DEF WholeInv, OwnFile, TypeOK
<1>2. ASSUME NEW o \in Object \ overlapped, final'[o] # None PROVE FinalWhole(o)'
  <2>1. final'[o] = final[o] /\ Whole(final[o]) BY <1>2 DEF WholeInv, FinalWhole
  <2>2. final[o] \in Upload /\ lo[final[o]] \in Upload
    BY <2>1 DEF TypeOK, FinalWhole, Whole
  <2>3. pc[lo[final[o]]] # "idle" BY <2>1, <2>2 DEF FilesInv, FinalWhole, Whole
  <2>. QED BY <2>1, <2>2, <2>3 DEF FinalWhole, Whole
<1>. QED BY <1>1, <1>2 DEF WholeInv, FinalWhole

\* The file at the storage path of an object is not written by its upload.
LEMMA FinalIsNotWritten ==
    ASSUME TypeOK, FilesInv, WholeInv, NEW u \in Upload,
           pc[u] \in {"writeLo", "writeHi"},
           NEW o \in Object \ overlapped, final[o] # None
    PROVE  final[o] # fd[u]
BY DEF FilesInv, FileOf, WholeInv, OwnFile, TypeOK

\* Nor is the file of another upload that is alone.
LEMMA OwnIsNotWritten ==
    ASSUME TypeOK, FilesInv, WholeInv, SoleInv,
           NEW u \in Upload, pc[u] \in {"writeLo", "writeHi"},
           NEW v \in Upload \ {u}, pc[v] \in {"writeLo", "writeHi", "judge", "rename"},
           ObjectOf[v] \notin overlapped
    PROVE  fd[v] # fd[u]
BY DEF FilesInv, FileOf, WholeInv, OwnFile, SoleInv, Running, TypeOK

LEMMA CreateWholeInv ==
    ASSUME TypeOK, FilesInv, WholeInv, SoleInv, NEW u \in Upload, UpCreate(u)
    PROVE  WholeInv'
<1> DEFINE o == ObjectOf[u]
           file == IF temp[o] = None THEN u ELSE temp[o]
<1>1. CASE pc'[u] # "writeLo"
  BY <1>1, WholeKept DEF UpCreate, Goto, TypeOK
<1>2. CASE pc'[u] = "writeLo"
  <2>1. /\ temp' = [temp EXCEPT ![o] = file] /\ fd' = [fd EXCEPT ![u] = file]
        /\ lo' = [lo EXCEPT ![file] = None] /\ hi' = [hi EXCEPT ![file] = None]
        /\ UNCHANGED <<final, body, overlapped>>
        /\ pc[u] = "create" /\ pc' = [pc EXCEPT ![u] = "writeLo"]
    BY <1>2 DEF UpCreate, Goto, TypeOK
  <2>2. file \in Upload /\ ObjectOf[file] = o /\ o \in Object
        /\ \A p \in Object : final[p] # None => final[p] # file
    BY <2>1 DEF FilesInv, FileOf, Fresh, TypeOK
  <2>3. ASSUME NEW v \in Upload \ {u}, ObjectOf[v] \notin overlapped,
               pc[v] \in {"writeLo", "writeHi", "judge", "rename"}
        PROVE  fd[v] # file /\ ObjectOf[v] # o
    <3>1. ObjectOf[v] # o BY <2>1, <2>3 DEF SoleInv, Running
    <3>2. fd[v] # None BY <2>3 DEF WholeInv, OwnFile
    <3>. QED BY <2>2, <3>1, <3>2 DEF FilesInv, FileOf
  <2>4. u # None /\ file # None BY <2>2
  <2> HIDE DEF file
  <2>5. ASSUME NEW v \in Upload, ObjectOf[v] \notin overlapped PROVE OwnFile(v)'
    <3>1. CASE v = u BY <2>1, <2>2, <2>4, <3>1 DEF OwnFile, TypeOK
    <3>2. CASE v # u
      <4>1. OwnFile(v) BY <2>5 DEF WholeInv
      <4>2. CASE pc[v] \in {"writeLo", "writeHi", "judge", "rename"}
        <5>1. fd[v] # file /\ ObjectOf[v] # o /\ fd[v] \in Upload
          BY <2>3, <2>5, <3>2, <4>1, <4>2 DEF OwnFile, TypeOK
        <5>. QED BY <2>1, <2>2, <3>2, <4>1, <5>1 DEF OwnFile, TypeOK
      <4>3. CASE pc[v] \notin {"writeLo", "writeHi", "judge", "rename"}
        BY <2>1, <3>2, <4>3 DEF OwnFile
      <4>. QED BY <4>2, <4>3
    <3>. QED BY <3>1, <3>2
  <2>6. ASSUME NEW p \in Object \ overlapped, final'[p] # None PROVE FinalWhole(p)'
    BY <2>1, <2>2, <2>6 DEF WholeInv, FinalWhole, Whole, TypeOK
  <2>. QED BY <2>1, <2>5, <2>6 DEF WholeInv, FinalWhole
<1>. QED BY <1>1, <1>2

LEMMA WriteWholeInv ==
    ASSUME TypeOK, FilesInv, WholeInv, SoleInv, NEW u \in Upload,
           UpWriteLo(u) \/ UpWriteHi(u)
    PROVE  WholeInv'
<1>1. /\ UNCHANGED <<temp, final, fd, body, overlapped>>
      /\ pc[u] \in {"writeLo", "writeHi"}
      /\ \A v \in Upload \ {u} : pc'[v] = pc[v]
      /\ \A f \in Upload \ {fd[u]} : lo'[f] = lo[f] /\ hi'[f] = hi[f]
  BY DEF UpWriteLo, UpWriteHi, Goto, TypeOK
<1>2. ASSUME ObjectOf[u] \notin overlapped PROVE OwnFile(u)'
  BY <1>2 DEF UpWriteLo, UpWriteHi, Goto, TypeOK, WholeInv, OwnFile
<1>3. ASSUME NEW v \in Upload, ObjectOf[v] \notin overlapped PROVE OwnFile(v)'
  <2>1. CASE v # u /\ pc[v] \in {"writeLo", "writeHi", "judge", "rename"}
    <3>1. fd[v] # fd[u] BY <1>1, <1>3, <2>1, OwnIsNotWritten
    <3>2. OwnFile(v) /\ fd[v] \in Upload BY <1>3, <2>1 DEF WholeInv, OwnFile, TypeOK
    <3>. QED BY <1>1, <2>1, <3>1, <3>2 DEF OwnFile
  <2>2. CASE v # u /\ pc[v] \notin {"writeLo", "writeHi", "judge", "rename"}
    BY <1>1, <2>2 DEF OwnFile
  <2>. QED BY <1>2, <1>3, <2>1, <2>2
<1>4. ASSUME NEW o \in Object \ overlapped, final'[o] # None PROVE FinalWhole(o)'
  <2>1. final[o] # fd[u] /\ final[o] \in Upload /\ Whole(final[o])
    BY <1>1, <1>4, FinalIsNotWritten
       DEF WholeInv, FinalWhole, TypeOK
  <2>. QED BY <1>1, <2>1 DEF FinalWhole, Whole
<1>. QED BY <1>1, <1>3, <1>4 DEF WholeInv, FinalWhole

LEMMA RenameWholeInv ==
    ASSUME TypeOK, FilesInv, WholeInv, SoleInv, NEW u \in Upload, UpRename(u)
    PROVE  WholeInv'
<1> DEFINE o == ObjectOf[u]
<1>1. CASE UNCHANGED <<final, temp>>
  BY <1>1, WholeKept DEF UpRename, Goto, TypeOK
<1>2. CASE ~UNCHANGED <<final, temp>>
  <2>1. /\ temp[o] # None
        /\ final' = [final EXCEPT ![o] = temp[o]]
        /\ temp' = [temp EXCEPT ![o] = None]
        /\ UNCHANGED <<lo, hi, body, fd, overlapped>>
        /\ pc[u] = "rename" /\ pc' = [pc EXCEPT ![u] = "complete"]
    BY <1>2 DEF UpRename, Goto
  <2>2. ASSUME NEW v \in Upload, ObjectOf[v] \notin overlapped PROVE OwnFile(v)'
    <3>1. CASE v = u BY <2>1, <3>1 DEF OwnFile, TypeOK
    <3>2. CASE v # u /\ pc[v] \in {"writeLo", "writeHi", "judge", "rename"}
      <4>1. ObjectOf[v] # o BY <2>1, <2>2, <3>2 DEF SoleInv, Running
      <4>. QED BY <2>1, <2>2, <3>2, <4>1 DEF WholeInv, OwnFile, TypeOK
    <3>3. CASE v # u /\ pc[v] \notin {"writeLo", "writeHi", "judge", "rename"}
      BY <2>1, <3>3 DEF OwnFile, TypeOK
    <3>. QED BY <3>1, <3>2, <3>3
  <2>3. ASSUME NEW p \in Object \ overlapped, final'[p] # None PROVE FinalWhole(p)'
    <3>1. CASE p = o
      <4>1. OwnFile(u) BY <2>3, <3>1 DEF WholeInv
      <4>2. final'[p] = fd[u] /\ lo[fd[u]] = u /\ hi[fd[u]] = u /\ body[u] = "exact"
            /\ fd[u] # None
        BY <2>1, <3>1, <4>1 DEF OwnFile, TypeOK
      <4>. QED BY <2>1, <4>2 DEF FinalWhole, Whole
    <3>2. CASE p # o BY <2>1, <2>3, <3>2 DEF WholeInv, FinalWhole, Whole, TypeOK
    <3>. QED BY <3>1, <3>2
  <2>. QED BY <2>1, <2>2, <2>3 DEF WholeInv, FinalWhole
<1>. QED BY <1>1, <1>2

LEMMA UploadWholeInv ==
    ASSUME TypeOK, FilesInv, WholeInv, SoleInv, NEW u \in Upload, UploadStep(u)
    PROVE  WholeInv'
<1> USE DEF Goto, fileVars
<1>1. CASE \E b \in Bodies : UpCheck(u, b)
  <2>1. /\ UNCHANGED <<fileVars, fd>> /\ pc[u] = "idle" /\ pc' = [pc EXCEPT ![u] = "mark"]
        /\ overlapped \subseteq overlapped'
        /\ \A v \in Upload \ {u} : body'[v] = body[v]
    BY <1>1 DEF UpCheck, TypeOK
  <2>2. ASSUME NEW v \in Upload, ObjectOf[v] \notin overlapped' PROVE OwnFile(v)'
    BY <2>1, <2>2 DEF WholeInv, OwnFile, TypeOK
  <2>3. ASSUME NEW o \in Object \ overlapped', final'[o] # None PROVE FinalWhole(o)'
    <3>1. Whole(final[o]) /\ final[o] \in Upload
      BY <2>1, <2>3 DEF WholeInv, FinalWhole, TypeOK
    <3>2. lo[final[o]] # u /\ lo[final[o]] \in Upload
      BY <2>1, <3>1 DEF FilesInv, Whole, TypeOK
    <3>. QED BY <2>1, <3>1, <3>2 DEF FinalWhole, Whole
  <2>. QED BY <2>2, <2>3 DEF WholeInv, FinalWhole
<1>2. CASE UpMark(u) BY <1>2, WholeKept DEF UpMark, TypeOK
<1>3. CASE UpCreate(u) BY <1>3, CreateWholeInv
<1>4. CASE UpWriteLo(u) \/ UpWriteHi(u) BY <1>4, WriteWholeInv
<1>5. CASE UpJudge(u)
  <2>1. /\ UNCHANGED <<fileVars, fd, body, overlapped>> /\ pc[u] = "judge"
        /\ pc' = [pc EXCEPT ![u] = IF body[u] = "exact" THEN "rename" ELSE "fail"]
    BY <1>5 DEF UpJudge
  <2>2. ASSUME NEW v \in Upload, ObjectOf[v] \notin overlapped PROVE OwnFile(v)'
    BY <2>1, <2>2 DEF WholeInv, OwnFile, TypeOK
  <2>3. ASSUME NEW o \in Object \ overlapped PROVE FinalWhole(o)'
    BY <2>1, <2>3 DEF WholeInv, FinalWhole, Whole
  <2>. QED BY <2>1, <2>2, <2>3 DEF WholeInv
<1>6. CASE UpRename(u) BY <1>6, RenameWholeInv
<1>7. CASE UpComplete(u) BY <1>7, WholeKept DEF UpComplete, TypeOK
<1>8. CASE UpFail(u) BY <1>8, WholeKept DEF UpFail, TypeOK
<1>9. CASE UpCleanup(u) BY <1>9, WholeKept DEF UpCleanup, TypeOK
<1>. QED BY <1>1, <1>2, <1>3, <1>4, <1>5, <1>6, <1>7, <1>8, <1>9
         DEF UploadStep, HandleUpload

LEMMA NextWholeInv ==
    TypeOK /\ FilesInv /\ SoleInv /\ WholeInv /\ [Next]_vars => WholeInv'
<1> SUFFICES ASSUME TypeOK, FilesInv, SoleInv, WholeInv, [Next]_vars PROVE WholeInv'
  OBVIOUS
<1> USE DEF fileVars, uploadVars
<1>1. CASE UNCHANGED vars BY <1>1, WholeKept DEF vars
<1>2. CASE Crash BY <1>2, WholeKept DEF Crash, TypeOK
<1>3. CASE Request BY <1>3, WholeKept DEF Request, InitUpload, RequestEnds
<1>4. ASSUME NEW k \in Deleter, Delete(k) PROVE WholeInv'
  BY <1>4, WholeKept DEF Delete, DeleteGet, DeleteFile, DeleteRow, TypeOK
<1>5. ASSUME NEW k \in Canceller, Cancel(k) PROVE WholeInv'
  BY <1>5, WholeKept DEF Cancel, CancelGet, CancelTemp, CancelMark, TypeOK
<1>. QED BY <1>1, <1>2, <1>3, <1>4, <1>5, UploadWholeInv, NextSteps

-----------------------------------------------------------------------------
(***************************************************************************)
(* Completed objects.  Only a deletion removes a file at a storage path.   *)
(***************************************************************************)
Placed(o) ==
    status[o] = "completed" \/ \E u \in Upload : ObjectOf[u] = o /\ pc[u] = "complete"

HasFileInv ==
    /\ \A o \in Object \ deleted : Placed(o) => final[o] # None
    /\ \A k \in Deleter : delPc[k] # "idle" => delObj[k] \in deleted

LEMMA UploadHasFileInv ==
    ASSUME TypeOK, HasFileInv, NEW u \in Upload, UploadStep(u)
    PROVE  HasFileInv'
<1> USE DEF Goto, fileVars, rowVars
<1>1. \A o \in Object : final[o] # None => final'[o] # None
  BY DEF UploadStep, HandleUpload, UpMark, UpCreate, UpWriteLo, UpWriteHi, UpJudge,
         UpRename, UpComplete, UpFail, UpCleanup, UpCheck, TypeOK
<1>2. ASSUME NEW o \in Object, Placed(o)' PROVE Placed(o) \/ final'[o] # None
  <2>1. ASSUME status'[o] = "completed", status[o] # "completed"
        PROVE  Placed(o)
    <3>1. UpComplete(u) /\ o = ObjectOf[u]
      BY <2>1 DEF UploadStep, HandleUpload, UpMark, UpCreate, UpWriteLo, UpWriteHi,
                  UpJudge, UpRename, UpComplete, UpFail, UpCleanup, UpCheck,
                  UpdateObjectStatus, UpdateFails, TypeOK
    <3>. QED BY <3>1 DEF UpComplete, Placed
  <2>2. ASSUME NEW v \in Upload, ObjectOf[v] = o, pc'[v] = "complete", pc[v] # "complete"
        PROVE  final'[o] # None
    <3>1. v = u BY <2>2, OthersStay
    <3>2. UpRename(u)
      BY <2>2, <3>1 DEF UploadStep, HandleUpload, UpMark, UpCreate, UpWriteLo, UpWriteHi,
                  UpJudge, UpRename, UpComplete, UpFail, UpCleanup, UpCheck, TypeOK
    <3>. QED BY <2>2, <3>1, <3>2 DEF UpRename, TypeOK
  <2>. QED BY <1>2, <2>1, <2>2 DEF Placed
<1>3. UNCHANGED <<deleted, delPc, delObj>> BY OthersStay DEF adminVars
<1>. QED BY <1>1, <1>2, <1>3 DEF HasFileInv

LEMMA NextHasFileInv == TypeOK /\ HasFileInv /\ [Next]_vars => HasFileInv'
<1> SUFFICES ASSUME TypeOK, HasFileInv, [Next]_vars PROVE HasFileInv'
  OBVIOUS
<1> USE DEF HasFileInv, Placed, fileVars, uploadVars, adminVars, rowVars
<1>1. CASE UNCHANGED vars BY <1>1 DEF vars
<1>2. CASE Crash BY <1>2 DEF Crash, TypeOK
<1>3. CASE Request
  BY <1>3 DEF Request, InitUpload, RequestEnds, UpdateObjectStatus, UpdateFails, TypeOK
<1>4. ASSUME NEW k \in Deleter, Delete(k) PROVE HasFileInv'
  BY <1>4 DEF Delete, DeleteGet, DeleteFile, DeleteRow, TypeOK
<1>5. ASSUME NEW k \in Canceller, Cancel(k) PROVE HasFileInv'
  BY <1>5 DEF Cancel, CancelGet, CancelTemp, CancelMark, UpdateObjectStatus, UpdateFails,
              TypeOK
<1> HIDE DEF HasFileInv
<1>. QED BY <1>1, <1>2, <1>3, <1>4, <1>5, UploadHasFileInv, NextSteps

\* A completed object that nobody tried to delete has a file, and the verified
\* one if no two of its uploads overlapped (upload.go:97).
THEOREM CompletedObjectsAreBacked == Spec => []CompletedIsBacked
<1>1. Init => FilesInv /\ SoleInv /\ WholeInv /\ HasFileInv
  BY DEF Init, FilesInv, SoleInv, WholeInv, OwnFile, FinalWhole, HasFileInv, Placed, Running
<1>2. HasFileInv /\ WholeInv => CompletedIsBacked
  BY DEF HasFileInv, Placed, WholeInv, FinalWhole, CompletedIsBacked
<1>. QED BY <1>1, <1>2, NextFilesInv, NextSoleInv, NextWholeInv, NextHasFileInv,
         UploadsTypeCorrect, PTL DEF Spec

-----------------------------------------------------------------------------
(***************************************************************************)
(* The life of an object.  An upload that is alone on its way meets a row  *)
(* that is not completed, and a row goes only by a deletion.               *)
(***************************************************************************)
LifeInv ==
    /\ \A u \in Upload :
         pc[u] \in Running \ {"cleanup"} /\ ObjectOf[u] \notin overlapped =>
             status[ObjectOf[u]] \in {"pending", "uploading", "failed", "gone"}
    /\ \A o \in Object : status[o] = "gone" => o \in deleted
    /\ \A k \in Deleter : delPc[k] # "idle" => status[delObj[k]] # "none"

\* What a status may become: the row is made once and goes by a deletion.
LEMMA StatusIsMade ==
    ASSUME TypeOK, [Next]_vars, NEW o \in Object
    PROVE  /\ status[o] # "none" => status'[o] # "none"
           /\ deleted \subseteq deleted' /\ overlapped \subseteq overlapped'
           /\ deleted' \subseteq Object
<1> USE DEF adminVars, rowVars, UpdateObjectStatus, UpdateFails, TypeOK
<1>1. CASE UNCHANGED vars BY <1>1 DEF vars
<1>2. CASE Crash BY <1>2 DEF Crash
<1>3. CASE Request BY <1>3 DEF Request, InitUpload, RequestEnds
<1>4. ASSUME NEW k \in Deleter, Delete(k)
      PROVE  /\ status[o] # "none" => status'[o] # "none"
             /\ deleted \subseteq deleted' /\ overlapped \subseteq overlapped'
             /\ deleted' \subseteq Object
  BY <1>4 DEF Delete, DeleteGet, DeleteFile, DeleteRow
<1>5. ASSUME NEW k \in Canceller, Cancel(k)
      PROVE  /\ status[o] # "none" => status'[o] # "none"
             /\ deleted \subseteq deleted' /\ overlapped \subseteq overlapped'
  BY <1>5 DEF Cancel, CancelGet, CancelTemp, CancelMark
<1>6. ASSUME NEW u \in Upload, UploadStep(u)
      PROVE  /\ status[o] # "none" => status'[o] # "none"
             /\ deleted \subseteq deleted' /\ overlapped \subseteq overlapped'
  BY <1>6 DEF UploadStep, HandleUpload, UpMark, UpCreate, UpWriteLo, UpWriteHi, UpJudge,
              UpRename, UpComplete, UpFail, UpCleanup, UpCheck
<1>. QED BY <1>1, <1>2, <1>3, <1>4, <1>5, <1>6, NextSteps, NextTypeOK

LEMMA UploadLifeInv ==
    ASSUME TypeOK, SoleInv, HasFileInv, LifeInv, NEW u \in Upload, UploadStep(u)
    PROVE  LifeInv'
<1> DEFINE o == ObjectOf[u]
<1> USE DEF Goto, fileVars, rowVars
<1>1. /\ UNCHANGED <<delPc, delObj, deleted>>
      /\ \A v \in Upload \ {u} : pc'[v] = pc[v]
      /\ \A k \in Deleter : delPc[k] # "idle" => delObj[k] \in Object
  BY OthersStay DEF adminVars, HasFileInv, TypeOK
<1>2. /\ \A p \in Object \ {o} : status'[p] = status[p]
      /\ status'[o] # "gone" \/ status'[o] = status[o]
      /\ status[o] # "none" => status'[o] # "none"
      /\ overlapped \subseteq overlapped'
  BY DEF UploadStep, HandleUpload, UpMark, UpCreate, UpWriteLo, UpWriteHi, UpJudge,
         UpRename, UpComplete, UpFail, UpCleanup, UpCheck, UpdateObjectStatus,
         UpdateFails, TypeOK
<1>3. ASSUME o \notin overlapped', pc'[u] \in Running \ {"cleanup"}
      PROVE  status'[o] \in {"pending", "uploading", "failed", "gone"}
  <2>1. CASE \E b \in Bodies : UpCheck(u, b) BY <2>1 DEF UpCheck, Uploadable
  <2>2. CASE HandleUpload(u)
    <3>1. pc[u] \in Running \ {"cleanup"} /\ o \notin overlapped
          /\ (status'[o] = status[o] \/ status'[o] \in {"uploading", "failed"})
      BY <1>2, <1>3, <2>2
         DEF HandleUpload, UpMark, UpCreate, UpWriteLo, UpWriteHi, UpJudge, UpRename,
             UpComplete, UpFail, UpCleanup, UpdateObjectStatus, UpdateFails, TypeOK, Running
    <3>. QED BY <3>1 DEF LifeInv
  <2>. QED BY <2>1, <2>2 DEF UploadStep
<1>4. ASSUME NEW v \in Upload \ {u}, pc'[v] \in Running \ {"cleanup"},
             ObjectOf[v] \notin overlapped'
      PROVE  status'[ObjectOf[v]] \in {"pending", "uploading", "failed", "gone"}
  <2>1. pc[v] \in Running \ {"cleanup"} /\ ObjectOf[v] \notin overlapped
    BY <1>1, <1>2, <1>4
  <2>2. status[ObjectOf[v]] \in {"pending", "uploading", "failed", "gone"}
    BY <2>1 DEF LifeInv
  <2>3. CASE ObjectOf[v] # o BY <1>2, <2>2, <2>3 DEF TypeOK
  <2>4. CASE ObjectOf[v] = o
    <3>1. \E b \in Bodies : UpCheck(u, b)
      BY <2>1, <2>4, <1>4
         DEF SoleInv, UploadStep, HandleUpload, UpMark, UpCreate, UpWriteLo, UpWriteHi,
             UpJudge, UpRename, UpComplete, UpFail, UpCleanup, Running
    <3>. QED BY <2>2, <3>1 DEF UpCheck
  <2>. QED BY <2>3, <2>4
<1>5. \A p \in Object : status'[p] = "gone" => p \in deleted'
  BY <1>1, <1>2 DEF LifeInv
<1>6. \A k \in Deleter : delPc'[k] # "idle" => status'[delObj'[k]] # "none"
  BY <1>1, <1>2 DEF LifeInv
<1>. QED BY <1>3, <1>4, <1>5, <1>6 DEF LifeInv

LEMMA NextLifeInv ==
    TypeOK /\ SoleInv /\ HasFileInv /\ LifeInv /\ [Next]_vars => LifeInv'
<1> SUFFICES ASSUME TypeOK, SoleInv, HasFileInv, LifeInv, [Next]_vars PROVE LifeInv'
  OBVIOUS
<1> USE DEF LifeInv, fileVars, uploadVars, adminVars, rowVars
<1>1. CASE UNCHANGED vars BY <1>1 DEF vars
<1>2. CASE Crash BY <1>2 DEF Crash, TypeOK, Running
<1>3. CASE Request
  BY <1>3 DEF Request, InitUpload, RequestEnds, UpdateObjectStatus, UpdateFails,
              HasFileInv, TypeOK
<1>4. ASSUME NEW k \in Deleter, Delete(k) PROVE LifeInv'
  BY <1>4 DEF Delete, DeleteGet, DeleteFile, DeleteRow, HasRow, HasFileInv, TypeOK
<1>5. ASSUME NEW k \in Canceller, Cancel(k) PROVE LifeInv'
  BY <1>5 DEF Cancel, CancelGet, CancelTemp, CancelMark, UpdateObjectStatus, UpdateFails,
              HasFileInv, TypeOK
<1> HIDE DEF LifeInv
<1>. QED BY <1>1, <1>2, <1>3, <1>4, <1>5, UploadLifeInv, NextSteps

\* The stored content of an object changes only with its file.
LEMMA StoredKept ==
    ASSUME TypeOK, FilesInv, NEW o \in Object, final'[o] = final[o],
           final[o] # None => lo'[final[o]] = lo[final[o]] /\ hi'[final[o]] = hi[final[o]],
           \A u \in Upload : body'[u] = body[u] \/ pc[u] = "idle"
    PROVE  Stored(o)' = Stored(o)
<1>1. CASE final[o] = None BY <1>1 DEF Stored, Whole
<1>2. CASE final[o] # None /\ lo[final[o]] = None BY <1>2 DEF Stored, Whole
<1>3. CASE final[o] # None /\ lo[final[o]] # None
  <2>1. final[o] \in Upload /\ lo[final[o]] \in Upload BY <1>3 DEF TypeOK
  <2>2. body'[lo[final[o]]] = body[lo[final[o]]] BY <1>3, <2>1 DEF FilesInv
  <2>. QED BY <1>3, <2>2 DEF Stored, Whole
<1>. QED BY <1>1, <1>2, <1>3

\* A step that leaves the status and the content of an object, and on which no
\* upload of a failed object begins.
LEMMA StatusStays ==
    ASSUME NEW o \in Object, status'[o] = status[o], Stored(o)' = Stored(o),
           Underway(o)' => Underway(o) \/ status[o] # "failed"
    PROVE  Life!Step(o)
BY DEF Stage, Life!Step, Life!Stays, Life!Fail

\* A status that becomes "failed", whoever says so.
LEMMA StatusFails ==
    ASSUME TypeOK, LifeInv, NEW o \in Object \ overlapped, Stored(o)' = Stored(o),
           Underway(o)' => Underway(o),
           status'[o] = status[o] \/ (HasRow(o) /\ status'[o] = "failed")
    PROVE  Life!Step(o)
<1>1. CASE status'[o] = status[o] BY <1>1, StatusStays
<1>2. CASE HasRow(o) /\ status'[o] = "failed" /\ status[o] = "completed"
  <2>1. ~Underway(o) BY <1>2 DEF LifeInv, Underway
  <2>. QED BY <1>2, <2>1 DEF Stage, Life!Step, Life!Fail
<1>3. CASE HasRow(o) /\ status'[o] = "failed" /\ status[o] # "completed"
  BY <1>3 DEF HasRow, TypeOK, Stage, Life!Step, Life!Stays, Life!Fail
<1>. QED BY <1>1, <1>2, <1>3

LEMMA UploadLife ==
    ASSUME TypeOK, FilesInv, SoleInv, WholeInv, WholeInv', HasFileInv, LifeInv,
           NEW u \in Upload, UploadStep(u), NEW o \in Object \ overlapped'
    PROVE  Life!Step(o)
<1> USE DEF Goto, fileVars, rowVars
<1>1. \A v \in Upload \ {u} : pc'[v] = pc[v] /\ body'[v] = body[v]
  BY OthersStay
<1>2. CASE \E b \in Bodies : UpCheck(u, b)
  <2>1. /\ UNCHANGED <<status, fileVars>> /\ o \notin overlapped
        /\ pc[u] = "idle" /\ Uploadable(ObjectOf[u])
    BY <1>2 DEF UpCheck, TypeOK
  <2>2. Stored(o)' = Stored(o) BY <1>1, <2>1, StoredKept
  <2>3. Underway(o)' => Underway(o) \/ status[o] # "failed"
    BY <1>1, <2>1 DEF Underway, Uploadable
  <2>. QED BY <2>1, <2>2, <2>3, StatusStays
<1>3. ASSUME HandleUpload(u)
      PROVE  overlapped' = overlapped /\ body' = body /\ pc[u] \in Running
  BY <1>3 DEF HandleUpload, UpMark, UpCreate, UpWriteLo, UpWriteHi, UpJudge, UpRename,
              UpComplete, UpFail, UpCleanup, Running
<1>4. ASSUME HandleUpload(u) PROVE Underway(o)' => Underway(o)
  <2>1. pc'[u] \in Running \ {"cleanup"} => pc[u] \in Running \ {"cleanup"}
    BY <1>4 DEF HandleUpload, UpMark, UpCreate, UpWriteLo, UpWriteHi, UpJudge, UpRename,
                UpComplete, UpFail, UpCleanup, Running, TypeOK
  <2>. QED BY <1>1, <2>1 DEF Underway
<1>5. CASE UpMark(u)
  <2>1. /\ UNCHANGED fileVars /\ pc[u] = "mark" /\ pc'[u] \in {"create", "done"}
        /\ \/ status'[o] = status[o]
           \/ /\ o = ObjectOf[u] /\ HasRow(o)
              /\ status'[o] = "uploading" /\ pc'[u] = "create"
    BY <1>5 DEF UpMark, UpdateObjectStatus, UpdateFails, TypeOK
  <2>2. HandleUpload(u) BY <1>5 DEF HandleUpload
  <2>3. Stored(o)' = Stored(o) BY <1>3, <2>1, <2>2, StoredKept
  <2>4. CASE status'[o] = status[o] BY <1>4, <2>2, <2>3, <2>4, StatusStays
  <2>5. CASE status'[o] # status[o]
    <3>1. Underway(o) /\ Underway(o)' BY <2>1, <2>5 DEF Underway, Running
    <3>2. status[o] \in {"pending", "uploading", "failed"}
      BY <1>3, <2>1, <2>2, <2>5 DEF LifeInv, HasRow, Running
    <3>. QED BY <2>1, <2>3, <2>5, <3>1, <3>2 DEF Stage, Life!Step, Life!Stays
  <2>. QED BY <2>4, <2>5
<1>6. CASE UpCreate(u)
  <2>1. HandleUpload(u) /\ UNCHANGED <<status, final>>
        /\ (final[o] # None => lo'[final[o]] = lo[final[o]] /\ hi'[final[o]] = hi[final[o]])
    BY <1>6 DEF HandleUpload, UpCreate, FilesInv, FileOf, Fresh, TypeOK
  <2>2. Stored(o)' = Stored(o) BY <1>3, <2>1, StoredKept
  <2>. QED BY <1>4, <2>1, <2>2, StatusStays
<1>7. CASE UpWriteLo(u) \/ UpWriteHi(u)
  <2>1. /\ HandleUpload(u) /\ UNCHANGED <<status, final>>
        /\ pc[u] \in {"writeLo", "writeHi"}
        /\ \A f \in Upload \ {fd[u]} : lo'[f] = lo[f] /\ hi'[f] = hi[f]
    BY <1>7 DEF HandleUpload, UpWriteLo, UpWriteHi, TypeOK
  <2>2. final[o] # None => final[o] \in Upload /\ final[o] # fd[u]
    BY <1>3, <2>1, FinalIsNotWritten DEF TypeOK
  <2>3. Stored(o)' = Stored(o) BY <1>3, <2>1, <2>2, StoredKept
  <2>. QED BY <1>4, <2>1, <2>3, StatusStays
<1>8. CASE UpJudge(u) \/ UpCleanup(u)
  <2>1. HandleUpload(u) /\ UNCHANGED <<status, final, lo, hi>>
    BY <1>8 DEF HandleUpload, UpJudge, UpCleanup
  <2>2. Stored(o)' = Stored(o) BY <1>3, <2>1, StoredKept
  <2>. QED BY <1>4, <2>1, <2>2, StatusStays
<1>9. CASE UpRename(u)
  <2>1. /\ HandleUpload(u) /\ UNCHANGED <<status, lo, hi>>
        /\ pc[u] = "rename" /\ pc'[u] \in {"complete", "fail"}
        /\ \/ final'[o] = final[o]
           \/ o = ObjectOf[u] /\ final'[o] # None
    BY <1>9 DEF HandleUpload, UpRename, TypeOK
  <2>2. CASE final'[o] = final[o]
    <3>1. Stored(o)' = Stored(o) BY <1>3, <2>1, <2>2, StoredKept
    <3>. QED BY <1>4, <2>1, <3>1, StatusStays
  <2>3. CASE o = ObjectOf[u] /\ final'[o] # None
    <3>1. Underway(o) /\ Underway(o)' BY <2>1, <2>3 DEF Underway, Running
    <3>2. status[o] \in {"pending", "uploading", "failed", "gone"}
          /\ (status[o] = "gone" => o \in deleted)
      BY <1>3, <2>1, <2>3 DEF LifeInv, Running
    <3>3. Stored(o)' \in Upload
      <4>1. Whole(final[o])' BY <2>3 DEF WholeInv, FinalWhole
      <4>2. final'[o] \in Upload /\ lo' = lo BY <2>1, <2>3, <4>1, <1>9 DEF UpRename, TypeOK
      <4>. QED BY <4>1, <4>2 DEF Stored, Whole, TypeOK
    <3>4. Stage(o)' = Stage(o) /\ Stage(o) \in {"wanted", "gone"}
          /\ (Stage(o) = "gone" => o \in deleted)
      BY <2>1, <3>1, <3>2 DEF Stage
    <3>. QED BY <3>3, <3>4 DEF Life!Step, Life!Store
  <2>. QED BY <2>1, <2>2, <2>3
<1>10. CASE UpComplete(u)
  <2>1. /\ HandleUpload(u) /\ UNCHANGED fileVars /\ pc[u] = "complete"
        /\ \/ status'[o] = status[o]
           \/ o = ObjectOf[u] /\ HasRow(o) /\ status'[o] = "completed"
    BY <1>10 DEF HandleUpload, UpComplete, UpdateObjectStatus, UpdateFails, TypeOK
  <2>2. Stored(o)' = Stored(o) BY <1>3, <2>1, StoredKept
  <2>3. CASE status'[o] = status[o] BY <1>4, <2>1, <2>2, <2>3, StatusStays
  <2>4. CASE status'[o] # status[o]
    <3>1. Underway(o) /\ Placed(o) BY <2>1, <2>4 DEF Underway, Placed, Running
    <3>2. status[o] \in {"pending", "uploading", "failed"}
      BY <1>3, <2>1, <2>4 DEF LifeInv, HasRow, Running
    <3>3. Stored(o) # None \/ o \in deleted
      <4>1. ASSUME o \notin deleted PROVE Whole(final[o])
        BY <1>3, <2>1, <3>1, <4>1 DEF HasFileInv, WholeInv, FinalWhole
      <4>. QED BY <4>1 DEF Stored, Whole
    <3>4. Stage(o) = "wanted" /\ Stage(o)' = "complete"
      BY <2>1, <2>4, <3>1, <3>2 DEF Stage
    <3>. QED BY <2>2, <3>3, <3>4 DEF Life!Step, Life!Complete
  <2>. QED BY <2>3, <2>4
<1>11. CASE UpFail(u)
  <2>1. /\ HandleUpload(u) /\ UNCHANGED fileVars
        /\ status'[o] = status[o] \/ (HasRow(o) /\ status'[o] = "failed")
    BY <1>11 DEF HandleUpload, UpFail, UpdateObjectStatus, UpdateFails, TypeOK
  <2>2. Stored(o)' = Stored(o) BY <1>3, <2>1, StoredKept
  <2>. QED BY <1>3, <1>4, <2>1, <2>2, StatusFails
<1>. QED BY <1>2, <1>5, <1>6, <1>7, <1>8, <1>9, <1>10, <1>11
         DEF UploadStep, HandleUpload

LEMMA ObjectLifeStep ==
    ASSUME TypeOK, FilesInv, SoleInv, WholeInv, WholeInv', HasFileInv, LifeInv, [Next]_vars
    PROVE  Life!Next
<1>1. deleted \subseteq deleted' /\ overlapped \subseteq overlapped'
  <2>1. CASE Object = {} BY <2>1, NextTypeOK DEF TypeOK
  <2>2. CASE Object # {} BY <2>2, StatusIsMade
  <2>. QED BY <2>1, <2>2
<1>2. ASSUME NEW o \in Object \ overlapped' PROVE Life!Step(o)
  <2> USE DEF fileVars, uploadVars, adminVars, rowVars
  <2>1. o \in Object \ overlapped BY <1>1
  <2>2. CASE UNCHANGED vars
    <3>1. Stored(o)' = Stored(o) BY <2>2, StoredKept DEF vars
    <3>2. Underway(o)' = Underway(o) BY <2>2 DEF vars, Underway
    <3>. QED BY <2>2, <3>1, <3>2, StatusStays DEF vars
  <2>3. CASE Crash
    <3>1. UNCHANGED <<status, fileVars, body>> /\ (Underway(o)' => Underway(o))
      BY <2>3 DEF Crash, Underway, Running, TypeOK
    <3>2. Stored(o)' = Stored(o) BY <3>1, StoredKept
    <3>. QED BY <3>1, <3>2, StatusStays
  <2>4. CASE Request
    <3>1. UNCHANGED <<fileVars, uploadVars>> BY <2>4 DEF Request, InitUpload, RequestEnds
    <3>2. Stored(o)' = Stored(o) BY <3>1, StoredKept
    <3>3. Underway(o)' = Underway(o) BY <3>1 DEF Underway
    <3>4. \/ status'[o] = status[o] \/ (HasRow(o) /\ status'[o] = "failed")
          \/ status[o] = "none" /\ status'[o] = "pending"
      BY <2>4 DEF Request, InitUpload, RequestEnds, UpdateObjectStatus, UpdateFails, TypeOK
    <3>5. CASE status[o] = "none" /\ status'[o] = "pending"
      BY <3>2, <3>5 DEF Stage, Life!Step, Life!Ask
    <3>. QED BY <2>1, <3>2, <3>3, <3>4, <3>5, StatusFails
  <2>5. ASSUME NEW k \in Deleter, Delete(k) PROVE Life!Step(o)
    <3>1. UNCHANGED <<lo, hi, pc, body>> BY <2>5 DEF Delete, DeleteGet, DeleteFile, DeleteRow
    <3>2. Underway(o)' = Underway(o) BY <3>1 DEF Underway
    <3>3. CASE final'[o] = final[o] /\ status'[o] = status[o]
      BY <3>1, <3>2, <3>3, StoredKept, StatusStays
    <3>4. CASE final'[o] # final[o]
      <4>1. /\ o \in deleted /\ final'[o] = None /\ status' = status
        BY <2>5, <3>4 DEF Delete, DeleteGet, DeleteFile, DeleteRow, HasFileInv, TypeOK
      <4>2. Stored(o)' = None BY <4>1 DEF Stored, Whole
      <4>. QED BY <3>2, <4>1, <4>2 DEF Stage, Life!Step, Life!Vanish
    <3>5. CASE status'[o] # status[o]
      <4>1. /\ o \in deleted /\ status[o] # "none" /\ status'[o] = "gone" /\ final' = final
        BY <2>5, <3>5 DEF Delete, DeleteGet, DeleteFile, DeleteRow, HasFileInv, LifeInv, TypeOK
      <4>2. Stored(o)' = Stored(o) BY <3>1, <4>1, StoredKept
      <4>3. Stage(o) # "none" /\ Stage(o)' = "gone" BY <4>1 DEF Stage
      <4>. QED BY <4>1, <4>2, <4>3 DEF Life!Step, Life!Go
    <3>. QED BY <3>3, <3>4, <3>5
  <2>6. ASSUME NEW k \in Canceller, Cancel(k) PROVE Life!Step(o)
    <3>1. UNCHANGED <<final, lo, hi, uploadVars>>
          /\ (status'[o] = status[o] \/ (HasRow(o) /\ status'[o] = "failed"))
      BY <2>6 DEF Cancel, CancelGet, CancelTemp, CancelMark, UpdateObjectStatus,
                  UpdateFails, TypeOK
    <3>2. Stored(o)' = Stored(o) BY <3>1, StoredKept
    <3>3. Underway(o)' = Underway(o) BY <3>1 DEF Underway
    <3>. QED BY <2>1, <3>1, <3>2, <3>3, StatusFails
  <2>. QED BY <2>2, <2>3, <2>4, <2>5, <2>6, UploadLife, NextSteps
<1>. QED BY <1>1, <1>2 DEF Life!Next

\* However uploads, deletions, cancellations, failing calls and a crash
\* interleave, an object whose uploads do not overlap completes once, with the
\* verified bytes (upload.go:97), and keeps them until it is deleted.
THEOREM ImplementsObjectLife == Spec => ObjectsLive
<1>1. Init => FilesInv /\ SoleInv /\ WholeInv /\ HasFileInv /\ LifeInv
  BY DEF Init, FilesInv, SoleInv, WholeInv, OwnFile, FinalWhole, HasFileInv, Placed,
         LifeInv, Running
<1>2. Init => Life!Init
  BY DEF Init, Life!Init, Stage, Stored, Whole
<1>3. TypeOK /\ FilesInv /\ SoleInv /\ WholeInv /\ WholeInv' /\ HasFileInv /\ LifeInv
        /\ [Next]_vars => [Life!Next]_Life!vars
  BY ObjectLifeStep
<1>. QED BY <1>1, <1>2, <1>3, NextFilesInv, NextSoleInv, NextWholeInv, NextHasFileInv,
         NextLifeInv, UploadsTypeCorrect, PTL DEF Spec, ObjectsLive, Life!Spec
=============================================================================
