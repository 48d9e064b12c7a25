------------------------- MODULE DownloadLinksProofs -------------------------
(***************************************************************************)
(* Theorems about download links, for any number of objects, requests and  *)
(* downloads, any life of a token and any number of ticks.                 *)
(***************************************************************************)
EXTENDS DownloadLinksProps, TLAPS

USE OwnOfAssumption, LinkNamesAssumption, TimeAssumption, FaultsAssumption,
    NoLinkAssumption

\* The steps of an issuer, of a download, and of what takes objects away.
Issue(i) ==
    \/ i \in Admin /\ (Expire(i) \/ \E o \in Object : IssueCheck(i, o))
    \/ i \in Tool /\ GetDownloadLink(i)
    \/ Insert(i)
Upload(o) == UploadCompletes(o) \/ UploadFails(o)

LEMMA NextSteps ==
    Next <=> \/ Tick \/ Sweep \/ TokensSweep
             \/ \E o \in Object : Upload(o) \/ Delete(o)
             \/ \E i \in Issuer : Issue(i)
             \/ \E r \in Reader : HandleDownload(r)
BY DEF Next, Issue, Upload, Issuer

-----------------------------------------------------------------------------
(***************************************************************************)
(* Type correctness.                                                       *)
(***************************************************************************)
\* An issuer has its link exactly when it has stored the token.
IssuedInv ==
    \A i \in Issuer :
        /\ pc[i] = "expire" => link[i] # NoLink
        /\ link[i] # NoLink => pc[i] \in {"expire", "done"}

LEMMA IssueTypeOK ==
    ASSUME TypeOK, IssuedInv, NEW i \in Issuer, Issue(i)
    PROVE  TypeOK'
<1> USE DEF readVars, sweepVars, Goto
<1>1. CASE \E o \in Object : IssueCheck(i, o)
  <2>1. raced' \in SUBSET Issuer BY <1>1 DEF IssueCheck, Issuing, TypeOK
  <2>. QED BY <1>1, <2>1 DEF IssueCheck, TypeOK
<1>2. CASE Insert(i)
  <2> DEFINE l == [object |-> target[i], expires |-> now + Life]
  <2>1. l \in Link BY DEF Link, TypeOK
  <2>2. /\ link' = [link EXCEPT ![i] = l] \/ link' = link
        /\ tokens' = tokens \cup {i} \/ tokens' = tokens
        /\ pc' = [pc EXCEPT ![i] = "expire"] \/ pc' = [pc EXCEPT ![i] = "done"]
        /\ faults' = faults \/ Fault
        /\ UNCHANGED <<now, row, file, expires, target, readVars, sweepVars, deletion, raced>>
    BY <1>2 DEF Insert
  <2> HIDE DEF l
  <2>. QED BY <2>1, <2>2 DEF TypeOK, Fault
<1>3. CASE i \in Admin /\ Expire(i)
  <2>1. expires' \in [Object -> 0..Never]
    <3>1. link[i].expires \in 0..Never
      BY <1>3 DEF Expire, IssuedInv, TypeOK, Link, Never
    <3>. QED BY <1>3, <3>1 DEF Expire, TypeOK
  <2>. QED BY <1>3, <2>1 DEF Expire, Fault, TypeOK
<1>4. CASE i \in Tool /\ ToolInit(i) BY <1>4 DEF ToolInit, Fault, TypeOK
<1>5. CASE i \in Tool /\ \E well \in BOOLEAN : ToolCall(i, well)
  BY <1>5 DEF ToolCall, Fault, TypeOK
<1>6. CASE i \in Tool /\ ToolWait(i) BY <1>6 DEF ToolWait, TypeOK
<1>. QED BY <1>1, <1>2, <1>3, <1>4, <1>5, <1>6 DEF Issue, GetDownloadLink

LEMMA DownloadTypeOK ==
    ASSUME TypeOK, NEW r \in Reader, HandleDownload(r)
    PROVE  TypeOK'
<1> USE DEF issueVars, sweepVars
<1>1. CASE \E i \in Issuer : DlValidate(r, i)
  BY <1>1 DEF DlValidate, Fault, TypeOK, Link
<1>2. CASE \E o \in Object : DlById(r, o) BY <1>2 DEF DlById, TypeOK
<1>3. CASE DlGet(r) BY <1>3 DEF DlGet, Fault, TypeOK
<1>4. CASE DlOpen(r) BY <1>4 DEF DlOpen, Fault, TypeOK
<1>. QED BY <1>1, <1>2, <1>3, <1>4 DEF HandleDownload

LEMMA RemovalTypeOK ==
    ASSUME TypeOK, Sweep \/ TokensSweep \/ \E o \in Object : Upload(o) \/ Delete(o)
    PROVE  TypeOK'
<1> USE DEF issueVars, readVars, sweepVars
<1>1. CASE SweepList
  <2>1. raced' \in SUBSET Issuer BY <1>1 DEF SweepList, Issuing, TypeOK
  <2>. QED BY <1>1, <2>1 DEF SweepList, TypeOK
<1>2. CASE \E o \in Object : SweepFile(o) BY <1>2 DEF SweepFile, Fault, TypeOK
<1>3. CASE SweepRow BY <1>3 DEF SweepRow, Fault, TypeOK
<1>4. CASE TokensSweep BY <1>4 DEF TokensSweep, TypeOK
<1>5. ASSUME NEW o \in Object, Upload(o) PROVE TypeOK'
  BY <1>5 DEF Upload, UploadCompletes, UploadFails, TypeOK
<1>6. ASSUME NEW o \in Object, Delete(o) PROVE TypeOK'
  BY <1>6 DEF Delete, DeleteGet, DeleteFile, DeleteRow, Fault, TypeOK
<1>. QED BY <1>1, <1>2, <1>3, <1>4, <1>5, <1>6 DEF Sweep

LEMMA NextTypeOK == TypeOK /\ IssuedInv /\ [Next]_vars => TypeOK'
<1> SUFFICES ASSUME TypeOK, IssuedInv, [Next]_vars PROVE TypeOK'
  OBVIOUS
<1>1. CASE UNCHANGED vars
  BY <1>1 DEF vars, issueVars, readVars, sweepVars, TypeOK
<1>2. CASE Tick BY <1>2 DEF Tick, issueVars, readVars, sweepVars, TypeOK
<1>. QED BY <1>1, <1>2, IssueTypeOK, DownloadTypeOK, RemovalTypeOK, NextSteps

LEMMA NextIssuedInv == TypeOK /\ IssuedInv /\ [Next]_vars => IssuedInv'
<1> SUFFICES ASSUME TypeOK, IssuedInv, [Next]_vars PROVE IssuedInv'
  OBVIOUS
<1> USE DEF issueVars, IssuedInv
<1>1. CASE UNCHANGED vars BY <1>1 DEF vars
<1>2. CASE Tick \/ Sweep \/ TokensSweep
  BY <1>2 DEF Tick, Sweep, SweepList, SweepFile, SweepRow, TokensSweep
<1>3. CASE \E o \in Object : Upload(o) \/ Delete(o)
  BY <1>3 DEF Upload, UploadCompletes, UploadFails, Delete, DeleteGet, DeleteFile, DeleteRow
<1>4. CASE \E r \in Reader : HandleDownload(r)
  BY <1>4 DEF HandleDownload, DlValidate, DlById, DlGet, DlOpen
<1>5. ASSUME NEW i \in Issuer, Issue(i) PROVE IssuedInv'
  <2> USE DEF Goto, TypeOK
  <2>1. CASE Insert(i)
    <3> DEFINE l == [object |-> target[i], expires |-> now + Life]
    <3>1. l # NoLink BY DEF Link
    <3>2. \/ /\ link' = [link EXCEPT ![i] = l]
             /\ pc' = [pc EXCEPT ![i] = "expire"] \/ pc' = [pc EXCEPT ![i] = "done"]
          \/ link' = link /\ pc' = [pc EXCEPT ![i] = "done"]
      BY <2>1 DEF Insert
    <3> HIDE DEF l
    <3>. QED BY <3>1, <3>2
  <2>2. CASE Expire(i) BY <2>2 DEF Expire
  <2>3. CASE \E o \in Object : IssueCheck(i, o) BY <2>3 DEF IssueCheck
  <2>4. CASE GetDownloadLink(i) BY <2>4 DEF GetDownloadLink, ToolInit, ToolCall, ToolWait
  <2>. QED BY <1>5, <2>1, <2>2, <2>3, <2>4 DEF Issue
<1> HIDE DEF IssuedInv
<1>. QED BY <1>1, <1>2, <1>3, <1>4, <1>5, NextSteps

LEMMA Issued == Spec => [](TypeOK /\ IssuedInv)
<1>1. Init => TypeOK
  <2> SUFFICES ASSUME Init PROVE TypeOK
    OBVIOUS
  <2>1. row \in [Object -> {"none", "pending", "completed", "failed", "gone"}]
    BY DEF Init
  <2>2. now \in 0..Horizon /\ faults \in 0..MaxFaults BY DEF Init
  <2>3. expires \in [Object -> 0..Never] BY DEF Init, Never
  <2>4. /\ link \in [Issuer -> Link \cup {NoLink}]
        /\ target \in [Issuer -> Object \cup {NoObject}]
        /\ via \in [Reader -> Issuer \cup {NoIssuer}]
        /\ dlObj \in [Reader -> Object \cup {NoObject}]
    BY DEF Init
  <2>. QED BY <2>1, <2>2, <2>3, <2>4 DEF Init, TypeOK
<1>2. Init => IssuedInv BY DEF Init, IssuedInv
<1>. QED BY <1>1, <1>2, NextTypeOK, NextIssuedInv, PTL DEF Spec

\* The variables of links and objects keep their types; time stays bounded.
THEOREM LinksTypeCorrect == Spec => []TypeOK
BY Issued, PTL

-----------------------------------------------------------------------------
(***************************************************************************)
(* What issuers, objects and their times have to do with each other,       *)
(* overlaps or not.                                                        *)
(***************************************************************************)
TimeInv ==
    /\ \A i \in Issuer :
          /\ pc[i] = "expire" => i \in Admin /\ target[i] = link[i].object
          /\ link[i] # NoLink => link[i].expires <= now + Life
          /\ pc[i] = "idle" => target[i] = NoObject
          /\ target[i] # NoObject => row[target[i]] # "none"
          /\ pc[i] \in {"call", "wait"} => i \in Tool /\ target[i] = OwnOf[i]
    /\ \A o \in Object :
          row[o] = "none" => expires[o] = Never /\ o \notin todo /\ sweeping # o

LEMMA IssueTimeInv ==
    ASSUME TypeOK, IssuedInv, TimeInv, NEW i \in Issuer, Issue(i)
    PROVE  TimeInv'
<1> USE DEF Goto
<1>1. CASE i \in Admin /\ \E o \in Object : IssueCheck(i, o)
  BY <1>1 DEF IssueCheck, TimeInv, TypeOK, IssuedInv, Issuer, sweepVars
<1>2. CASE Insert(i)
  <2> DEFINE l == [object |-> target[i], expires |-> now + Life]
  <2>1. l # NoLink /\ l \in Link BY DEF Link, TypeOK
  <2>2. /\ pc[i] = "insert" /\ UNCHANGED <<now, row, expires, target, todo, sweeping>>
        /\ \/ /\ link' = [link EXCEPT ![i] = l]
              /\ pc' = [pc EXCEPT ![i] = IF i \in Admin THEN "expire" ELSE "done"]
           \/ link' = link /\ pc' = [pc EXCEPT ![i] = "done"]
    BY <1>2 DEF Insert, sweepVars
  <2>3. l.object = target[i] /\ l.expires = now + Life /\ now \in Nat /\ Life \in Nat
    BY DEF TypeOK
  <2> HIDE DEF l
  <2>4. ASSUME NEW j \in Issuer
        PROVE  /\ pc'[j] = "expire" => j \in Admin /\ target'[j] = link'[j].object
               /\ link'[j] # NoLink => link'[j].expires <= now' + Life
               /\ pc'[j] = "idle" => target'[j] = NoObject
               /\ target'[j] # NoObject => row'[target'[j]] # "none"
               /\ pc'[j] \in {"call", "wait"} => j \in Tool /\ target'[j] = OwnOf[j]
    <3>1. CASE j = i BY <2>1, <2>2, <2>3, <3>1 DEF TimeInv, TypeOK
    <3>2. CASE j # i BY <2>2, <3>2 DEF TimeInv, TypeOK
    <3>. QED BY <3>1, <3>2
  <2>. QED BY <2>2, <2>4 DEF TimeInv
<1>3. CASE i \in Admin /\ Expire(i)
  BY <1>3 DEF Expire, TimeInv, TypeOK, Issuer, HasRow, sweepVars
<1>4. CASE i \in Tool /\ ToolInit(i)
  BY <1>4 DEF ToolInit, TimeInv, TypeOK, Issuer, sweepVars
<1>5. CASE i \in Tool /\ \E well \in BOOLEAN : ToolCall(i, well)
  BY <1>5 DEF ToolCall, TimeInv, TypeOK, Issuer, HasRow, sweepVars
<1>6. CASE i \in Tool /\ ToolWait(i)
  BY <1>6 DEF ToolWait, TimeInv, TypeOK, Issuer, sweepVars
<1>. QED BY <1>1, <1>2, <1>3, <1>4, <1>5, <1>6 DEF Issue, GetDownloadLink

LEMMA NextTimeInv == TypeOK /\ IssuedInv /\ TimeInv /\ [Next]_vars => TimeInv'
<1> SUFFICES ASSUME TypeOK, IssuedInv, TimeInv, [Next]_vars PROVE TimeInv'
  OBVIOUS
<1> USE DEF issueVars, sweepVars
<1>1. CASE UNCHANGED vars BY <1>1 DEF vars, TimeInv
<1>2. CASE Tick BY <1>2 DEF Tick, TimeInv, TypeOK, Link
<1>3. CASE Sweep \/ TokensSweep
  BY <1>3 DEF Sweep, SweepList, SweepFile, SweepRow, TokensSweep, TimeInv, TypeOK, HasRow
<1>4. CASE \E o \in Object : Upload(o) \/ Delete(o)
  BY <1>4 DEF Upload, UploadCompletes, UploadFails, Delete, DeleteGet, DeleteFile,
              DeleteRow, TimeInv, TypeOK, HasRow
<1>5. CASE \E r \in Reader : HandleDownload(r)
  BY <1>5 DEF HandleDownload, DlValidate, DlById, DlGet, DlOpen, TimeInv
<1>. QED BY <1>1, <1>2, <1>3, <1>4, <1>5, IssueTimeInv, NextSteps

-----------------------------------------------------------------------------
(***************************************************************************)
(* What links rest on.  An issuer that nothing has overlapped is alone     *)
(* with its object, which is there and out of the clean-up's reach; when   *)
(* it is done, the object expires no earlier than the link, and nobody is  *)
(* about to store an earlier expiration.                                   *)
(***************************************************************************)
Kept(o) ==
    /\ row[o] \in {"completed", "failed"} /\ o \in file
    /\ o \notin todo /\ sweeping # o

\* An issuer at work, and one that has returned its link.
WorkInv(i, o) ==
    i \in Issuing(o) =>
        /\ Issuing(o) = {i}
        /\ pc[i] \in {"insert", "expire"} => Kept(o)
        /\ i \in Tool => expires[o] = Never /\ o \notin todo /\ sweeping # o

LinkInv(i, o) ==
    i \in Naming(o) \cap Live =>
        /\ Kept(o)
        /\ expires[o] >= link[i].expires
        /\ \A j \in Issuing(o) : pc[j] = "expire" => link[j].expires >= link[i].expires

ObjectInv(o) ==
    /\ \A i \in Issuer \ raced : WorkInv(i, o) /\ LinkInv(i, o)
    /\ row[o] = "completed" => o \in file \/ sweeping = o

\* Nothing failed, and nobody asked for the object's deletion.
Undisturbed(o) == faults = 0 /\ deletion[o] = "no"

KeptInv == \A o \in Object : Undisturbed(o) => ObjectInv(o)

\* Failures and deletions are not undone.
LEMMA Disturbed ==
    ASSUME TypeOK, [Next]_vars, NEW o \in Object, Undisturbed(o)'
    PROVE  Undisturbed(o)
<1> USE DEF Fault, Undisturbed, TypeOK
<1>1. faults' >= faults
  BY DEF Next, vars, Tick, Sweep, SweepList, SweepFile, SweepRow, TokensSweep,
         UploadCompletes, UploadFails, Delete, DeleteGet, DeleteFile, DeleteRow,
         Expire, IssueCheck, GetDownloadLink, ToolInit, ToolCall, ToolWait, Insert,
         HandleDownload, DlValidate, DlById, DlGet, DlOpen
<1>2. deletion[o] = deletion'[o] \/ deletion'[o] # "no"
  BY DEF Next, vars, Tick, Sweep, SweepList, SweepFile, SweepRow, TokensSweep,
         UploadCompletes, UploadFails, Delete, DeleteGet, DeleteFile, DeleteRow,
         Expire, IssueCheck, GetDownloadLink, ToolInit, ToolCall, ToolWait, Insert,
         HandleDownload, DlValidate, DlById, DlGet, DlOpen
<1>. QED BY <1>1, <1>2

\* A step that issues nothing and leaves time alone.
LEMMA IssuersKept ==
    ASSUME UNCHANGED <<now, link, pc, target>>, NEW o
    PROVE  Naming(o)' = Naming(o) /\ Live' = Live /\ Issuing(o)' = Issuing(o)
BY DEF Naming, Live, Issuing

LEMMA RemovalKeptInv ==
    ASSUME TypeOK, KeptInv, NEW o \in Object, Undisturbed(o), Undisturbed(o)',
           Sweep \/ TokensSweep \/ \E p \in Object : Upload(p) \/ Delete(p)
    PROVE  ObjectInv(o)'
<1>1. UNCHANGED <<now, link, pc, target, expires>>
  BY DEF Sweep, SweepList, SweepFile, SweepRow, TokensSweep, Upload, UploadCompletes,
         UploadFails, Delete, DeleteGet, DeleteFile, DeleteRow, issueVars
<1>2. Naming(o)' = Naming(o) /\ Live' = Live /\ Issuing(o)' = Issuing(o)
  BY <1>1, IssuersKept
<1>3. ObjectInv(o) BY DEF KeptInv
<1> USE DEF TypeOK, Undisturbed, Fault
<1>4. CASE SweepList
  <2>1. /\ UNCHANGED <<row, file, sweeping>>
        /\ o \in todo' => expires[o] < now /\ Issuing(o) \subseteq raced'
        /\ raced \subseteq raced' /\ todo = {}
    BY <1>4 DEF SweepList
  <2>2. ASSUME NEW i \in Issuer \ raced' PROVE WorkInv(i, o)'
    <3>1. WorkInv(i, o) BY <1>3, <2>1, <2>2 DEF ObjectInv
    <3>. QED BY <1>1, <1>2, <2>1, <2>2, <3>1 DEF WorkInv, Kept
  <2>3. ASSUME NEW i \in Issuer \ raced' PROVE LinkInv(i, o)'
    <3>1. LinkInv(i, o) BY <1>3, <2>1, <2>3 DEF ObjectInv
    <3>2. ASSUME i \in Naming(o) \cap Live PROVE o \notin todo'
      <4>1. expires[o] >= link[i].expires /\ link[i].expires >= now
        BY <3>1, <3>2 DEF LinkInv, Live
      <4>2. expires[o] \in Nat /\ link[i].expires \in Nat /\ now \in Nat
        BY <3>2 DEF Naming, Link, Never
      <4>. QED BY <2>1, <4>1, <4>2
    <3>. QED BY <1>1, <1>2, <2>1, <3>1, <3>2 DEF LinkInv, Kept
  <2>. QED BY <1>3, <2>1, <2>2, <2>3 DEF ObjectInv
<1>5. CASE (\E p \in Object : SweepFile(p)) \/ SweepRow \/ TokensSweep
           \/ \E p \in Object : Upload(p) \/ Delete(p)
  <2>1. raced' = raced /\ todo' \subseteq todo
    BY <1>5 DEF SweepFile, SweepRow, TokensSweep, Upload, UploadCompletes, UploadFails,
                Delete, DeleteGet, DeleteFile, DeleteRow, sweepVars
  <2>2. sweeping' = o => sweeping = o \/ o \in todo
    BY <1>5 DEF SweepFile, SweepRow, TokensSweep, Upload, UploadCompletes, UploadFails,
                Delete, DeleteGet, DeleteFile, DeleteRow, sweepVars
  <2>3. /\ Kept(o) => Kept(o)'
        /\ row'[o] = "completed" => o \in file' \/ sweeping' = o
    <3> USE <1>3 DEF ObjectInv, Kept
    <3>1. CASE \E p \in Object : SweepFile(p) BY <3>1 DEF SweepFile
    <3>2. CASE SweepRow BY <3>2 DEF SweepRow
    <3>3. CASE TokensSweep BY <3>3 DEF TokensSweep, sweepVars
    <3>4. ASSUME NEW p \in Object, Upload(p) \/ Delete(p)
          PROVE  /\ Kept(o) => Kept(o)'
                 /\ row'[o] = "completed" => o \in file' \/ sweeping' = o
      BY <3>4 DEF Upload, UploadCompletes, UploadFails, Delete, DeleteGet, DeleteFile,
                  DeleteRow, sweepVars
    <3>. QED BY <1>5, <3>1, <3>2, <3>3, <3>4
  <2>. QED BY <1>1, <1>2, <1>3, <2>1, <2>2, <2>3 DEF ObjectInv, WorkInv, LinkInv
<1>. QED BY <1>4, <1>5 DEF Sweep

LEMMA TickKeptInv ==
    ASSUME TypeOK, KeptInv, NEW o \in Object, Undisturbed(o), Tick
    PROVE  ObjectInv(o)'
<1>1. /\ now' = now + 1 /\ now \in Nat
      /\ UNCHANGED <<row, file, expires, link, pc, target, todo, sweeping, raced>>
  BY DEF Tick, issueVars, sweepVars, TypeOK
<1>2. ObjectInv(o) BY DEF KeptInv
<1>3. Naming(o)' = Naming(o) /\ Issuing(o)' = Issuing(o) /\ Kept(o)' = Kept(o)
  BY <1>1 DEF Naming, Issuing, Kept
<1>4. Live' \subseteq Live BY <1>1 DEF Live, TypeOK, Link
<1>. QED BY <1>1, <1>2, <1>3, <1>4 DEF ObjectInv, WorkInv, LinkInv

LEMMA IssueKeptInv ==
    ASSUME TypeOK, IssuedInv, TimeInv, KeptInv, NEW o \in Object,
           Undisturbed(o), Undisturbed(o)', NEW i \in Issuer, Issue(i)
    PROVE  ObjectInv(o)'
<1> USE DEF Goto
<1>1. ObjectInv(o) BY DEF KeptInv
<1>2. \A j \in Issuer \ {i} :
          pc'[j] = pc[j] /\ target'[j] = target[j] /\ link'[j] = link[j]
  BY DEF Issue, Expire, IssueCheck, GetDownloadLink, ToolInit, ToolCall, ToolWait, Insert,
         TypeOK
<1>3. UNCHANGED <<now, file, todo, sweeping>>
  BY DEF Issue, Expire, IssueCheck, GetDownloadLink, ToolInit, ToolCall, ToolWait, Insert,
         sweepVars
<1>4. \A j \in Issuer \ {i} :
          /\ j \in Issuing(o)' <=> j \in Issuing(o)
          /\ j \in (Naming(o) \cap Live)' <=> j \in Naming(o) \cap Live
  BY <1>2, <1>3 DEF Issuing, Naming, Live
<1>5. CASE i \in Admin /\ \E p \in Object : IssueCheck(i, p)
  <2>1. PICK p \in Object : IssueCheck(i, p) BY <1>5
  <2>2. /\ UNCHANGED <<row, expires, link>> /\ pc[i] = "idle" /\ pc'[i] = "insert"
        /\ target'[i] = p /\ row[p] = "completed"
        /\ raced \subseteq raced' /\ Issuing(p) \subseteq raced'
        /\ i \in raced' \/ (Issuing(p) = {} /\ p \notin todo /\ sweeping # p)
    BY <2>1 DEF IssueCheck, TypeOK
  <2>3. i \notin Naming(o) /\ i \notin Naming(o)' /\ i \notin Issuing(o)
    BY <2>2 DEF Naming, Issuing
  <2>4. Kept(o)' <=> Kept(o) BY <1>3, <2>2 DEF Kept
  <2>5. ASSUME NEW k \in Issuer \ raced' PROVE LinkInv(k, o)'
    <3>1. LinkInv(k, o) BY <1>1, <2>2, <2>5 DEF ObjectInv
    <3>. QED BY <1>2, <1>4, <2>2, <2>3, <2>4, <3>1 DEF LinkInv, Issuing
  <2>6. ASSUME NEW k \in Issuer \ raced' PROVE WorkInv(k, o)'
    <3>1. CASE p # o
      <4>1. Issuing(o)' = Issuing(o)
        <5>1. i \notin Issuing(o)' BY <2>2, <3>1 DEF Issuing
        <5>. QED BY <1>4, <2>3, <5>1 DEF Issuing
      <4>2. WorkInv(k, o) BY <1>1, <2>2, <2>6 DEF ObjectInv
      <4>. QED BY <1>2, <1>3, <2>2, <2>3, <2>4, <4>1, <4>2 DEF WorkInv
    <3>2. CASE p = o /\ k \in Issuing(o)'
      <4>1. k = i /\ Issuing(o) = {} /\ o \notin todo /\ sweeping # o
        BY <1>4, <2>2, <2>6, <3>2
      <4>2. Issuing(o)' = {i} BY <1>4, <3>2, <4>1 DEF Issuing
      <4>3. Kept(o) BY <1>1, <2>2, <3>2, <4>1 DEF ObjectInv, Kept
      <4>. QED BY <1>5, <2>4, <4>1, <4>2, <4>3 DEF WorkInv
    <3>3. CASE k \notin Issuing(o)' BY <3>3 DEF WorkInv
    <3>. QED BY <3>1, <3>2, <3>3
  <2>7. row'[o] = "completed" => o \in file' \/ sweeping' = o
    BY <1>1, <1>3, <2>2 DEF ObjectInv
  <2>. QED BY <2>5, <2>6, <2>7 DEF ObjectInv
<1>6. CASE Insert(i)
  <2> DEFINE l == [object |-> target[i], expires |-> now + Life]
  <2>1. /\ pc[i] = "insert" /\ UNCHANGED <<row, expires, target, raced>>
        /\ link' = [link EXCEPT ![i] = l]
        /\ pc' = [pc EXCEPT ![i] = IF i \in Admin THEN "expire" ELSE "done"]
    BY <1>6 DEF Insert, Fault, Undisturbed, TypeOK
  <2>2. l.object = target[i] /\ l.expires = now + Life /\ now \in Nat /\ Life \in Nat
    BY DEF TypeOK
  <2> HIDE DEF l
  <2>3. /\ link'[i] = l /\ pc'[i] = IF i \in Admin THEN "expire" ELSE "done"
        /\ i \notin Naming(o)
    BY <2>1 DEF TypeOK, Naming
  <2>4. Kept(o)' <=> Kept(o) BY <1>3, <2>1 DEF Kept
  <2>5. /\ i \in Issuing(o)' => i \in Issuing(o) /\ i \in Admin
        /\ i \in Naming(o)' => i \in Issuing(o) /\ i \in Tool
    BY <2>1, <2>2, <2>3 DEF Issuing, Naming, Issuer
  <2>6. ASSUME NEW k \in Issuer \ raced PROVE WorkInv(k, o)'
    <3>1. WorkInv(k, o) BY <1>1, <2>6 DEF ObjectInv
    <3>2. CASE k \in Issuing(o)'
      <4>1. k \in Issuing(o) BY <1>4, <2>5, <3>2
      <4>2. Issuing(o) = {k} BY <3>1, <4>1 DEF WorkInv
      <4>3. Issuing(o)' = {k} BY <1>4, <2>5, <3>2, <4>2 DEF Issuing
      <4>4. pc'[k] \in {"insert", "expire"} => pc[k] \in {"insert", "expire"}
        BY <1>2, <2>1, <2>3
      <4>. QED BY <1>3, <2>1, <2>4, <3>1, <4>1, <4>3, <4>4 DEF WorkInv
    <3>3. CASE k \notin Issuing(o)' BY <3>3 DEF WorkInv
    <3>. QED BY <3>2, <3>3
  <2>7. ASSUME NEW k \in Issuer \ raced, k \in (Naming(o) \cap Live)'
        PROVE  /\ Kept(o)
               /\ expires[o] >= link'[k].expires
               /\ \A j \in Issuing(o)' :
                      pc'[j] = "expire" => link'[j].expires >= link'[k].expires
    <3>1. CASE k = i
      <4>1. i \in Issuing(o) /\ i \in Tool BY <2>5, <2>7, <3>1
      <4>2. Issuing(o) = {i} /\ Kept(o) /\ expires[o] = Never
        BY <1>1, <2>1, <2>7, <3>1, <4>1 DEF ObjectInv, WorkInv
      <4>3. Issuing(o)' = {} BY <1>4, <2>5, <4>1, <4>2 DEF Issuing
      <4>4. Never >= now + Life BY DEF Never, TypeOK
      <4>. QED BY <2>2, <2>3, <3>1, <4>2, <4>3, <4>4
    <3>2. CASE k # i
      <4>1. k \in Naming(o) \cap Live /\ link'[k] = link[k]
        BY <1>2, <1>4, <2>7, <3>2
      <4>2. LinkInv(k, o) BY <1>1, <2>7 DEF ObjectInv
      <4>3. l.expires >= link[k].expires
        BY <2>2, <4>1 DEF TimeInv, Naming, TypeOK, Link
      <4>4. ASSUME NEW j \in Issuing(o)', pc'[j] = "expire"
            PROVE  link'[j].expires >= link[k].expires
        <5>1. CASE j = i BY <2>3, <4>3, <5>1
        <5>2. CASE j # i
          <6>1. j \in Issuer BY <4>4 DEF Issuing
          <6>2. j \in Issuing(o) /\ pc[j] = "expire" /\ link'[j] = link[j]
            BY <1>2, <1>4, <4>4, <5>2, <6>1
          <6>. QED BY <4>1, <4>2, <6>2 DEF LinkInv
        <5>. QED BY <5>1, <5>2
      <4>. QED BY <4>1, <4>2, <4>4 DEF LinkInv
    <3>. QED BY <3>1, <3>2
  <2>8. row'[o] = "completed" => o \in file' \/ sweeping' = o
    BY <1>1, <1>3, <2>1 DEF ObjectInv
  <2>. QED BY <2>1, <2>4, <2>6, <2>7, <2>8 DEF ObjectInv, LinkInv
<1>7. CASE i \in Admin /\ Expire(i)
  <2>1. /\ pc[i] = "expire" /\ pc' = [pc EXCEPT ![i] = "done"]
        /\ UNCHANGED <<row, link, target, raced>>
        /\ expires' = IF HasRow(target[i])
                        THEN [expires EXCEPT ![target[i]] = link[i].expires]
                        ELSE expires
    BY <1>7 DEF Expire, Fault, Undisturbed, TypeOK
  <2>2. link[i] # NoLink /\ target[i] = link[i].object /\ pc'[i] = "done"
    BY <2>1 DEF TimeInv, IssuedInv, TypeOK
  <2>3. Kept(o)' <=> Kept(o) BY <1>3, <2>1 DEF Kept
  <2>4. /\ i \notin Issuing(o)' /\ i \notin Naming(o)
        /\ i \in Naming(o)' => i \in Issuing(o) /\ target[i] = o
        /\ i \in Issuing(o) <=> target[i] = o
    BY <2>1, <2>2 DEF Issuing, Naming
  <2>5. expires'[o] = expires[o] \/ (target[i] = o /\ expires'[o] = link[i].expires)
    BY <2>1 DEF HasRow, TypeOK
  <2>6. target[i] = o /\ Kept(o) => expires'[o] = link[i].expires
    BY <2>1 DEF HasRow, Kept, TypeOK
  <2>7. ASSUME NEW k \in Issuer \ raced PROVE WorkInv(k, o)'
    <3>1. WorkInv(k, o) BY <1>1, <2>7 DEF ObjectInv
    <3>2. CASE k \in Issuing(o)'
      <4>1. k # i /\ k \in Issuing(o) BY <1>4, <2>4, <3>2
      <4>2. Issuing(o) = {k} BY <3>1, <4>1 DEF WorkInv
      <4>3. target[i] # o BY <2>4, <4>1, <4>2
      <4>4. Issuing(o)' = {k} BY <1>4, <2>4, <3>2, <4>2 DEF Issuing
      <4>. QED BY <1>2, <1>3, <2>1, <2>3, <2>5, <3>1, <4>1, <4>3, <4>4 DEF WorkInv
    <3>3. CASE k \notin Issuing(o)' BY <3>3 DEF WorkInv
    <3>. QED BY <3>2, <3>3
  <2>8. ASSUME NEW k \in Issuer \ raced PROVE LinkInv(k, o)'
    <3>1. CASE k = i /\ i \in Naming(o)'
      <4>1. Issuing(o) = {i} /\ Kept(o) /\ target[i] = o
        BY <1>1, <2>1, <2>4, <2>8, <3>1 DEF ObjectInv, WorkInv
      <4>2. Issuing(o)' = {} BY <1>4, <2>4, <4>1 DEF Issuing
      <4>3. expires'[o] = link'[i].expires /\ link[i].expires \in Nat
        BY <2>1, <2>2, <2>6, <4>1 DEF TypeOK, Link
      <4>4. expires'[o] >= link'[i].expires BY <2>1, <4>3
      <4>. QED BY <2>3, <3>1, <4>1, <4>2, <4>4 DEF LinkInv
    <3>2. CASE k # i /\ k \in (Naming(o) \cap Live)'
      <4>1. k \in Naming(o) \cap Live /\ LinkInv(k, o)
        BY <1>1, <1>4, <2>8, <3>2 DEF ObjectInv
      <4>2. expires'[o] >= link[k].expires
        BY <2>1, <2>4, <2>5, <4>1 DEF LinkInv
      <4>. QED BY <1>2, <1>4, <2>1, <2>3, <2>4, <4>1, <4>2 DEF LinkInv, Issuing
    <3>3. CASE k \notin (Naming(o) \cap Live)' BY <3>3 DEF LinkInv
    <3>. QED BY <3>1, <3>2, <3>3
  <2>9. row'[o] = "completed" => o \in file' \/ sweeping' = o
    BY <1>1, <1>3, <2>1 DEF ObjectInv
  <2>. QED BY <2>1, <2>7, <2>8, <2>9 DEF ObjectInv
<1>8. CASE i \in Tool /\ (ToolInit(i) \/ \E well \in BOOLEAN : ToolCall(i, well))
  <2>1. /\ UNCHANGED <<expires, link, raced>> /\ pc[i] \in {"idle", "call"}
        /\ \/ target'[i] = NoObject
           \/ pc[i] = "idle" /\ target'[i] = OwnOf[i] /\ pc'[i] = "call"
                             /\ row[OwnOf[i]] = "none"
           \/ pc[i] = "call" /\ target'[i] = target[i] /\ pc'[i] = "wait"
        /\ row'[o] = row[o] \/ (row[o] = "none" /\ row'[o] = "pending")
                            \/ row'[o] = "failed"
    BY <1>8 DEF ToolInit, ToolCall, Fault, Undisturbed, TypeOK
  <2>2. i \notin Naming(o) /\ i \notin Naming(o)'
    BY <2>1 DEF IssuedInv, Naming
  <2>3. Kept(o) => Kept(o)' BY <1>3, <2>1 DEF Kept
  <2>4. ASSUME NEW k \in Issuer \ raced PROVE WorkInv(k, o)'
    <3>1. WorkInv(k, o) BY <1>1, <2>4 DEF ObjectInv
    <3>2. CASE k # i /\ k \in Issuing(o)'
      <4>1. k \in Issuing(o) /\ Issuing(o) = {k} BY <1>4, <3>1, <3>2 DEF WorkInv
      <4>2. row[o] # "none" BY <4>1 DEF TimeInv, Issuing
      <4>3. i \notin Issuing(o)'
        <5>1. i \notin Issuing(o) BY <3>2, <4>1
        <5>. QED BY <2>1, <4>2, <5>1 DEF Issuing
      <4>4. Issuing(o)' = {k} BY <1>4, <3>2, <4>1, <4>3 DEF Issuing
      <4>. QED BY <1>2, <1>3, <2>1, <2>3, <3>1, <3>2, <4>1, <4>4 DEF WorkInv
    <3>3. CASE k = i /\ i \in Issuing(o)'
      <4>1. target'[i] = o /\ pc'[i] \in {"call", "wait"} BY <2>1, <3>3 DEF Issuing
      <4>2. CASE pc[i] = "idle"
        <5>1. row[o] = "none" BY <2>1, <4>1, <4>2
        <5>2. Issuing(o) = {} BY <5>1 DEF TimeInv, Issuing
        <5>3. Issuing(o)' = {i} BY <1>4, <3>3, <5>2 DEF Issuing
        <5>. QED BY <1>3, <2>1, <3>3, <4>1, <5>1, <5>3 DEF WorkInv, TimeInv
      <4>3. CASE pc[i] = "call"
        <5>1. i \in Issuing(o) BY <2>1, <4>1, <4>3 DEF Issuing
        <5>2. Issuing(o) = {i} BY <3>1, <3>3, <5>1 DEF WorkInv
        <5>3. Issuing(o)' = {i} BY <1>4, <3>3, <5>2 DEF Issuing
        <5>. QED BY <1>3, <1>8, <2>1, <3>1, <3>3, <4>1, <5>1, <5>3 DEF WorkInv
      <4>. QED BY <2>1, <4>2, <4>3
    <3>4. CASE k \notin Issuing(o)' BY <3>4 DEF WorkInv
    <3>. QED BY <3>2, <3>3, <3>4
  <2>5. ASSUME NEW k \in Issuer \ raced PROVE LinkInv(k, o)'
    <3>1. LinkInv(k, o) BY <1>1, <2>5 DEF ObjectInv
    <3>2. i \in Issuing(o)' => pc'[i] # "expire" BY <2>1 DEF Issuing
    <3>. QED BY <1>2, <1>4, <2>1, <2>2, <2>3, <3>1, <3>2 DEF LinkInv, Issuing
  <2>6. row'[o] = "completed" => o \in file' \/ sweeping' = o
    BY <1>1, <1>3, <2>1 DEF ObjectInv
  <2>. QED BY <2>1, <2>4, <2>5, <2>6 DEF ObjectInv
<1>9. CASE i \in Tool /\ ToolWait(i)
  <2>1. /\ UNCHANGED <<row, expires, link, raced>> /\ pc[i] = "wait" /\ pc'[i] = "insert"
        /\ target'[i] = o => row[OwnOf[i]] = "completed" /\ target[i] = o
    BY <1>9 DEF ToolWait, TypeOK
  <2>2. i \notin Naming(o) /\ i \notin Naming(o)'
    BY <2>1 DEF IssuedInv, Naming
  <2>3. Kept(o)' <=> Kept(o) BY <1>3, <2>1 DEF Kept
  <2>4. i \in Issuing(o)' => i \in Issuing(o) /\ row[o] = "completed"
    BY <2>1 DEF Issuing, TimeInv
  <2>5. ASSUME NEW k \in Issuer \ raced, k \in Issuing(o)'
        PROVE  /\ Issuing(o)' = {k}
               /\ pc'[k] \in {"insert", "expire"} => Kept(o)
               /\ k \in Tool => expires[o] = Never /\ o \notin todo /\ sweeping # o
    <3>1. WorkInv(k, o) BY <1>1, <2>5 DEF ObjectInv
    <3>2. k \in Issuing(o) BY <1>4, <2>4, <2>5
    <3>3. Issuing(o)' = {k} BY <1>4, <2>4, <2>5, <3>1, <3>2 DEF WorkInv, Issuing
    <3>4. pc'[k] \in {"insert", "expire"} => Kept(o)
      BY <1>1, <1>2, <1>9, <2>4, <2>5, <3>1, <3>2 DEF WorkInv, ObjectInv, Kept
    <3>. QED BY <3>1, <3>2, <3>3, <3>4 DEF WorkInv
  <2>6. ASSUME NEW k \in Issuer \ raced PROVE LinkInv(k, o)'
    <3>1. LinkInv(k, o) BY <1>1, <2>6 DEF ObjectInv
    <3>. QED BY <1>2, <1>4, <2>1, <2>2, <2>3, <3>1 DEF LinkInv, Issuing
  <2>7. row'[o] = "completed" => o \in file' \/ sweeping' = o
    BY <1>1, <1>3, <2>1 DEF ObjectInv
  <2>. QED BY <1>3, <2>1, <2>3, <2>5, <2>6, <2>7 DEF ObjectInv, WorkInv
<1>. QED BY <1>5, <1>6, <1>7, <1>8, <1>9 DEF Issue, GetDownloadLink

LEMMA NextKeptInv ==
    TypeOK /\ IssuedInv /\ TimeInv /\ KeptInv /\ [Next]_vars => KeptInv'
<1> SUFFICES ASSUME TypeOK, IssuedInv, TimeInv, KeptInv, [Next]_vars,
                    NEW o \in Object, Undisturbed(o)'
             PROVE  ObjectInv(o)'
  BY DEF KeptInv
<1>1. Undisturbed(o) BY Disturbed
<1>2. ObjectInv(o) BY <1>1 DEF KeptInv
<1>3. CASE UNCHANGED vars \/ \E r \in Reader : HandleDownload(r)
  <2>1. UNCHANGED <<now, row, file, expires, link, pc, target, todo, sweeping, raced>>
    BY <1>3 DEF vars, issueVars, sweepVars, HandleDownload, DlValidate, DlById, DlGet,
                DlOpen
  <2>2. Naming(o)' = Naming(o) /\ Live' = Live /\ Issuing(o)' = Issuing(o)
    BY <2>1, IssuersKept
  <2>. QED BY <1>2, <2>1, <2>2 DEF ObjectInv, WorkInv, LinkInv, Kept
<1>. QED BY <1>1, <1>3, RemovalKeptInv, TickKeptInv, IssueKeptInv, NextSteps

LEMMA Timely == Spec => [](TypeOK /\ IssuedInv /\ TimeInv /\ KeptInv)
<1>1. Init => TimeInv
  <2> SUFFICES ASSUME Init PROVE TimeInv
    OBVIOUS
  <2>1. \A o \in Object : expires[o] = Never BY DEF Init
  <2>2. sweeping \notin Object /\ todo = {} BY DEF Init
  <2>. QED BY <2>1, <2>2 DEF Init, TimeInv, Issuer
<1>2. Init => KeptInv
  <2> SUFFICES ASSUME Init, NEW o \in Object PROVE ObjectInv(o)
    BY DEF KeptInv
  <2>1. Issuing(o) = {} /\ Naming(o) = {} BY DEF Init, Issuing, Naming
  <2>. QED BY <2>1 DEF Init, ObjectInv, WorkInv, LinkInv
<1>. QED BY <1>1, <1>2, Issued, NextTimeInv, NextKeptInv, PTL DEF Spec

\* An unexpired link has its object's row and file behind it, unless somebody
\* asked for the object's deletion, a call failed, or another request for the
\* object or a clean-up of it overlapped the link's own request: otherwise the
\* clean-up of expired objects (storage.go:290) never gets ahead of the links.
THEOREM LinksHaveObjects == Spec => []LinksAreBacked
<1>1. KeptInv => LinksAreBacked
  BY DEF KeptInv, Undisturbed, ObjectInv, LinkInv, Kept, LinksAreBacked, Naming
<1>. QED BY <1>1, Timely, PTL

-----------------------------------------------------------------------------
(***************************************************************************)
(* Downloads.  A token is valid until its link expires, and a download     *)
(* keeps to the object of its link.                                        *)
(***************************************************************************)
ReadInv ==
    /\ Live \subseteq tokens
    /\ \A r \in Reader :
          /\ dl[r] = "idle" => via[r] = NoIssuer
          /\ via[r] # NoIssuer => pc[via[r]] = "done" /\ link[via[r]] # NoLink
          /\ via[r] # NoIssuer /\ dl[r] \in {"get", "open"} =>
                 dlObj[r] = link[via[r]].object

\* A link that has been returned does not change, and is live until it expires.
LEMMA DoneIsDone ==
    ASSUME TypeOK, IssuedInv, [Next]_vars
    PROVE  /\ \A i \in Issuer : link[i] # NoLink => link'[i] = link[i]
           /\ \A i \in Issuer : pc[i] = "done" => pc'[i] = "done" /\ link'[i] = link[i]
           /\ \A i \in Issuer : link[i] # NoLink /\ i \in Live' => i \in Live
<1> USE DEF issueVars, Goto
<1>1. ASSUME NEW i \in Issuer, pc[i] \in {"expire", "done"} PROVE link'[i] = link[i]
  BY <1>1 DEF Next, vars, Tick, Sweep, SweepList, SweepFile, SweepRow, TokensSweep,
         UploadCompletes, UploadFails, Delete, DeleteGet, DeleteFile, DeleteRow,
         Expire, IssueCheck, GetDownloadLink, ToolInit, ToolCall, ToolWait, Insert,
         HandleDownload, DlValidate, DlById, DlGet, DlOpen, TypeOK
<1>2. ASSUME NEW i \in Issuer, pc[i] = "done" PROVE pc'[i] = "done"
  BY <1>2 DEF Next, vars, Tick, Sweep, SweepList, SweepFile, SweepRow, TokensSweep,
         UploadCompletes, UploadFails, Delete, DeleteGet, DeleteFile, DeleteRow,
         Expire, IssueCheck, GetDownloadLink, ToolInit, ToolCall, ToolWait, Insert,
         HandleDownload, DlValidate, DlById, DlGet, DlOpen, TypeOK
<1>3. now' >= now
  BY DEF Next, vars, Tick, Sweep, SweepList, SweepFile, SweepRow, TokensSweep,
         UploadCompletes, UploadFails, Delete, DeleteGet, DeleteFile, DeleteRow,
         Expire, IssueCheck, GetDownloadLink, ToolInit, ToolCall, ToolWait, Insert,
         HandleDownload, DlValidate, DlById, DlGet, DlOpen, TypeOK
<1>4. \A i \in Issuer : link[i] # NoLink => link'[i] = link[i]
  BY <1>1 DEF IssuedInv
<1>5. \A i \in Issuer : link[i] # NoLink => link[i].expires \in Nat
  BY DEF TypeOK, Link
<1>6. now \in Nat /\ now' \in Nat BY NextTypeOK DEF TypeOK
<1>. QED BY <1>1, <1>2, <1>3, <1>4, <1>5, <1>6 DEF Live

LEMMA NextReadInv ==
    TypeOK /\ IssuedInv /\ ReadInv /\ [Next]_vars => ReadInv'
<1> SUFFICES ASSUME TypeOK, IssuedInv, ReadInv, [Next]_vars PROVE ReadInv'
  OBVIOUS
<1>1. Live' \subseteq tokens'
  <2>1. CASE \E i \in Issuer : Insert(i)
    <3>1. PICK i \in Issuer : Insert(i) BY <2>1
    <3>2. /\ \A j \in Issuer \ {i} : link'[j] = link[j]
          /\ now' = now
          /\ tokens' = tokens \cup {i} \/ (tokens' = tokens /\ link' = link)
      BY <3>1 DEF Insert, TypeOK
    <3>. QED BY <3>2 DEF ReadInv, Live
  <2>2. CASE ~\E i \in Issuer : Insert(i)
    <3>1. link' = link
      BY <2>2 DEF Next, vars, issueVars, Tick, Sweep, SweepList, SweepFile, SweepRow,
           TokensSweep, UploadCompletes, UploadFails, Delete, DeleteGet, DeleteFile,
           DeleteRow, Expire, IssueCheck, GetDownloadLink, ToolInit, ToolCall, ToolWait,
           HandleDownload, DlValidate, DlById, DlGet, DlOpen
    <3>2. Live' \subseteq Live BY <3>1, DoneIsDone DEF Live
    <3>3. tokens' = tokens \/ (tokens' = {i \in tokens : link[i].expires >= now} /\ now' = now)
      BY <2>2 DEF Next, vars, issueVars, Tick, Sweep, SweepList, SweepFile, SweepRow,
           TokensSweep, UploadCompletes, UploadFails, Delete, DeleteGet, DeleteFile,
           DeleteRow, Expire, IssueCheck, GetDownloadLink, ToolInit, ToolCall, ToolWait,
           HandleDownload, DlValidate, DlById, DlGet, DlOpen
    <3>. QED BY <3>1, <3>2, <3>3 DEF ReadInv, Live
  <2>. QED BY <2>1, <2>2
<1>2. ASSUME NEW r \in Reader
      PROVE  /\ dl'[r] = "idle" => via'[r] = NoIssuer
             /\ via'[r] # NoIssuer => pc'[via'[r]] = "done" /\ link'[via'[r]] # NoLink
             /\ via'[r] # NoIssuer /\ dl'[r] \in {"get", "open"} =>
                    dlObj'[r] = link'[via'[r]].object
  <2>1. CASE \E i \in Issuer : DlValidate(r, i)
    BY <2>1 DEF DlValidate, issueVars, TypeOK
  <2>2. CASE \E o \in Object : DlById(r, o)
    BY <2>2 DEF DlById, ReadInv, issueVars, TypeOK
  <2>3. CASE DlGet(r) \/ DlOpen(r)
    BY <2>3 DEF DlGet, DlOpen, ReadInv, issueVars, TypeOK
  <2>4. CASE ~HandleDownload(r)
    <3>1. dl'[r] = dl[r] /\ via'[r] = via[r] /\ dlObj'[r] = dlObj[r]
      BY <2>4 DEF Next, vars, readVars, Tick, Sweep, SweepList, SweepFile, SweepRow,
           TokensSweep, UploadCompletes, UploadFails, Delete, DeleteGet, DeleteFile,
           DeleteRow, Expire, IssueCheck, GetDownloadLink, ToolInit, ToolCall, ToolWait,
           Insert, HandleDownload, DlValidate, DlById, DlGet, DlOpen, TypeOK
    <3>2. via[r] \in Issuer \cup {NoIssuer} BY DEF TypeOK
    <3>. QED BY <3>1, <3>2, DoneIsDone DEF ReadInv
  <2>. QED BY <2>1, <2>2, <2>3, <2>4 DEF HandleDownload
<1>. QED BY <1>1, <1>2 DEF ReadInv

\* What has overlapped is remembered.
LEMMA RacedStays == [Next]_vars => raced \subseteq raced'
BY DEF Next, vars, Tick, Sweep, SweepList, SweepFile, SweepRow, TokensSweep,
       UploadCompletes, UploadFails, Delete, DeleteGet, DeleteFile, DeleteRow,
       Expire, IssueCheck, GetDownloadLink, ToolInit, ToolCall, ToolWait, Insert,
       HandleDownload, DlValidate, DlById, DlGet, DlOpen

\* What a download that did not end with the file is due to.
Excused(r, o) ==
    via[r] \notin Live \/ via[r] \in raced \/ deletion[o] # "no" \/ faults > 0
ServeInv(r, o) ==
    via[r] \in Naming(o) /\ dl[r] \in {"invalid", "notFound", "empty"} => Excused(r, o)

LEMMA NextServeInv ==
    ASSUME TypeOK, IssuedInv, KeptInv, ReadInv, ReadInv', [Next]_vars,
           NEW r \in Reader, NEW o \in Object, ServeInv(r, o)
    PROVE  ServeInv(r, o)'
<1> SUFFICES ASSUME (via[r] \in Naming(o))', dl'[r] \in {"invalid", "notFound", "empty"},
                    (via[r] \in Live)', (via[r] \notin raced)', Undisturbed(o)'
             PROVE  FALSE
  <2>1. faults' \in Nat BY NextTypeOK DEF TypeOK
  <2>. QED BY <2>1 DEF ServeInv, Excused, Undisturbed
<1>1. Undisturbed(o) BY Disturbed
<1>2. ObjectInv(o) BY <1>1 DEF KeptInv
<1> USE DEF Naming, Fault, Undisturbed
<1>3. CASE \E i \in Issuer : DlValidate(r, i)
  <2>1. PICK i \in Issuer : DlValidate(r, i) BY <1>3
  <2>2. via'[r] = i /\ link' = link /\ now' = now /\ link[i] # NoLink
    BY <2>1 DEF DlValidate, issueVars, TypeOK
  <2>3. i \in Live /\ link[i].expires >= now BY <2>2 DEF Live
  <2>4. i \in tokens BY <2>3 DEF ReadInv
  <2>. QED BY <1>1, <2>1, <2>3, <2>4 DEF DlValidate, TypeOK
<1>4. CASE \E p \in Object : DlById(r, p) BY <1>4 DEF DlById, TypeOK
<1>5. CASE ~\E i \in Issuer : DlValidate(r, i)
  <2>1. via'[r] = via[r]
    BY <1>5 DEF Next, vars, readVars, Tick, Sweep, SweepList, SweepFile, SweepRow,
           TokensSweep, UploadCompletes, UploadFails, Delete, DeleteGet, DeleteFile,
           DeleteRow, Expire, IssueCheck, GetDownloadLink, ToolInit, ToolCall, ToolWait,
           Insert, HandleDownload, DlValidate, DlById, DlGet, DlOpen, TypeOK
  <2>2. via[r] \in Issuer /\ via[r] # NoIssuer
    <3>1. via'[r] \in {i \in Issuer : /\ pc'[i] = "done" /\ link'[i] # NoLink
                                     /\ link'[i].object = o}
      OBVIOUS
    <3>. QED BY <2>1, <3>1 DEF Issuer
  <2>3. via[r] \in Naming(o) /\ via[r] \in Live
    BY <2>1, <2>2, DoneIsDone DEF ReadInv
  <2>8. via[r] \notin raced BY <2>1, RacedStays
  <2>4. Kept(o) BY <1>2, <2>2, <2>3, <2>8 DEF ObjectInv, LinkInv
  <2>5. dl[r] \notin {"invalid", "notFound", "empty"}
    BY <1>1, <2>3, <2>8 DEF ServeInv, Excused
  <2>6. CASE DlGet(r) \/ DlOpen(r)
    <3>1. dlObj[r] = o BY <2>2, <2>3, <2>6 DEF ReadInv, DlGet, DlOpen
    <3>. QED BY <1>1, <2>4, <2>6, <3>1 DEF DlGet, DlOpen, Kept, HasRow, TypeOK
  <2>7. CASE ~(DlGet(r) \/ DlOpen(r)) /\ ~\E p \in Object : DlById(r, p)
    <3>1. dl'[r] = dl[r]
      BY <1>5, <2>7 DEF Next, vars, readVars, Tick, Sweep, SweepList, SweepFile, SweepRow,
           TokensSweep, UploadCompletes, UploadFails, Delete, DeleteGet, DeleteFile,
           DeleteRow, Expire, IssueCheck, GetDownloadLink, ToolInit, ToolCall, ToolWait,
           Insert, HandleDownload, DlValidate, DlById, DlGet, DlOpen, TypeOK
    <3>. QED BY <2>5, <3>1
  <2>. QED BY <1>4, <2>6, <2>7
<1>. QED BY <1>3, <1>5

\* A download by a link ends with the file (api.go:231), unless the link has
\* expired since, another request for the object or a clean-up of it overlapped
\* the link's own request, the object was to be deleted, or a call failed.
THEOREM LinksServeFiles == Spec => []LinksServe
<1> DEFINE AllServeInv == \A r \in Reader, o \in Object : ServeInv(r, o)
<1>1. Init => ReadInv /\ AllServeInv
  BY DEF Init, ReadInv, Live, ServeInv
<1>2. AllServeInv => LinksServe
  BY DEF ServeInv, Excused, LinksServe
<1>3. TypeOK /\ IssuedInv /\ KeptInv /\ ReadInv /\ ReadInv' /\ AllServeInv /\ [Next]_vars
      => AllServeInv'
  BY NextServeInv
<1> HIDE DEF AllServeInv
<1>. QED BY <1>1, <1>2, <1>3, Timely, NextReadInv, PTL DEF Spec
=============================================================================
