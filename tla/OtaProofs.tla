----------------------------- MODULE OtaProofs -----------------------------
(***************************************************************************)
(* Proofs about module Ota, for any number of binaries, uploads,           *)
(* deployments and devices.                                                *)
(***************************************************************************)
EXTENDS Ota, TLAPS

\* The state of one upload, behind a name that the provers need not open.
UploadRecords == [pc : UploadStates, id : Ids]

LEMMA UploadFields ==
  ASSUME NEW r \in UploadRecords
  PROVE  /\ r.pc \in UploadStates /\ r.id \in Ids
         /\ \A to \in UploadStates :
              LET q == [r EXCEPT !.pc = to]
              IN  q \in UploadRecords /\ q.pc = to /\ q.id = r.id
BY DEF UploadRecords

LEMMA TypeUploads == TypeOK => upload \in [Uploads -> UploadRecords]
BY DEF TypeOK, UploadRecords

\* What a step of one upload leaves as it was, and what it changes.
LEMMA StepChanges ==
  ASSUME TypeOK, NEW u \in Uploads, NEW from, NEW to \in UploadStates,
         Step(u, from, to)
  PROVE  /\ upload' \in [Uploads -> UploadRecords]
         /\ upload[u].pc = from /\ upload'[u].pc = to
         /\ upload'[u].id = upload[u].id
         /\ \A v \in Uploads \ {u} : upload'[v] = upload[v]
<1>1. upload \in [Uploads -> UploadRecords]
  BY TypeUploads
<1>2. upload' = [upload EXCEPT ![u] = [upload[u] EXCEPT !.pc = to]] /\ upload[u].pc = from
  BY DEF Step
<1>3. upload[u] \in UploadRecords
  BY <1>1
<1> DEFINE q == [upload[u] EXCEPT !.pc = to]
<1>4. q \in UploadRecords /\ q.pc = to /\ q.id = upload[u].id
  BY <1>3, UploadFields
<1> HIDE DEF q
<1>5. upload' = [upload EXCEPT ![u] = q]
  BY <1>2 DEF q
<1> QED BY <1>1, <1>2, <1>4, <1>5

LEMMA InitIInv == Init => IInv
BY OtaAssumption DEF Init, IInv, TypeOK, WrittenBeforeInsert, RegisteredWasWritten,
   NoStrayFile, Ids, UploadStates, Content, NotDeployed

\* Steps that move one upload: files and rows change for its content only.
LEMMA UploadStep ==
  ASSUME IInv, NEW u \in Uploads, Handle(u)
  PROVE  IInv'
<1> USE DEF IInv
<1> DEFINE k == Content(u)
<1>1. UNCHANGED deployments
  BY DEF Handle, OpenTruncate, WriteBytes, WriteFails, InsertFirmware, InsertFails,
     RemoveFile, RemoveFails
<1>2. /\ upload \in [Uploads -> UploadRecords]
      /\ upload[u].pc \in UploadStates /\ k \in Ids
  BY TypeUploads, UploadFields DEF Content
<1>3. PICK from, to \in UploadStates :
        /\ Step(u, from, to)
        /\ from \in {"open", "write", "insert", "remove"}
        /\ \/ from = "open" /\ to = "write" /\ OpenTruncate(u)
           \/ from = "write" /\ to = "insert" /\ WriteBytes(u)
           \/ from \in {"open", "write"} /\ to = "failed" /\ WriteFails(u)
           \/ from = "insert" /\ to = "done" /\ InsertFirmware(u)
           \/ from = "insert" /\ k \in Contents /\ to = "remove" /\ InsertFails(u)
           \/ from = "insert" /\ k \notin Contents /\ to = "failed" /\ InsertFails(u)
           \/ from = "remove" /\ to = "failed" /\ RemoveFile(u)
           \/ from = "remove" /\ to = "failed" /\ RemoveFails(u)
  BY DEF Handle, OpenTruncate, WriteBytes, WriteFails, InsertFirmware, InsertFails,
     RemoveFile, RemoveFails, UploadStates
<1>4. /\ upload' \in [Uploads -> UploadRecords]
      /\ upload[u].pc = from /\ upload'[u].pc = to
      /\ Content(u)' = k
      /\ \A v \in Uploads \ {u} : upload'[v] = upload[v] /\ Content(v)' = Content(v)
  BY <1>3, StepChanges DEF Content
<1>5. from # "insert" => k \in Contents
  BY <1>3, <1>4 DEF WrittenBeforeInsert
<1>6. from = "insert" /\ k \in Contents => k \in written
  BY <1>4 DEF WrittenBeforeInsert
<1> HIDE DEF k
\* What happens to the files, the rows and the history.
<1>7. /\ \A l \in Contents \ {k} : file'[l] = file[l]
      /\ file' \in [Contents -> {"none", "partial", "whole"}]
      /\ owner' \in [Contents -> Uploads \union {NoUpload}]
      /\ rows \subseteq rows' /\ rows' \subseteq rows \union {k}
      /\ written \subseteq written' /\ written' \subseteq Contents
      /\ spoilt \subseteq spoilt' /\ spoilt' \subseteq Ids
      /\ k \in rows' \ rows => from = "insert"
      /\ to = "insert" => k \in written'
      /\ k \in Contents /\ to \in {"done", "failed"} =>
           file'[k] = "none" \/ k \in rows' \/ k \in spoilt'
  <2> USE <1>2, <1>3, <1>5 DEF TypeOK
  <2>1. CASE to = "write" /\ OpenTruncate(u)
    BY <2>1 DEF OpenTruncate, k
  <2>2. CASE to = "insert" /\ WriteBytes(u)
    <3>1. PICK f \in {"none", "partial", "whole"} : file' = [file EXCEPT ![k] = f]
      BY <2>2 DEF WriteBytes, k
    <3> QED BY <2>2, <3>1 DEF WriteBytes, k
  <2>3. CASE from \in {"open", "write"} /\ to = "failed" /\ WriteFails(u)
    BY <2>3 DEF WriteFails, k
  <2>4. CASE from = "insert" /\ to = "done" /\ InsertFirmware(u)
    BY <2>4 DEF InsertFirmware, files, k
  <2>5. CASE /\ from = "insert" /\ InsertFails(u)
             /\ \/ k \in Contents /\ to = "remove"
                \/ k \notin Contents /\ to = "failed"
    BY <2>5 DEF InsertFails, files
  <2>6. CASE from = "remove" /\ to = "failed" /\ RemoveFile(u)
    BY <2>6 DEF RemoveFile, k
  <2>7. CASE from = "remove" /\ to = "failed" /\ RemoveFails(u)
    BY <2>7 DEF RemoveFails, k
  <2> QED BY <1>3, <2>1, <2>2, <2>3, <2>4, <2>5, <2>6, <2>7, Zenon
<1>8. TypeOK'
  <2>1. rows' \subseteq Ids
    BY <1>2, <1>7 DEF TypeOK
  <2> QED BY <1>1, <1>4, <1>7, <2>1 DEF TypeOK, UploadRecords, deployments
<1>9. WrittenBeforeInsert'
  <2>1. \A v \in Uploads \ {u} :
          /\ upload'[v].pc \in {"open", "write", "remove"} => Content(v)' \in Contents
          /\ upload'[v].pc = "insert" /\ Content(v)' \in Contents => Content(v)' \in written'
    BY <1>4, <1>7 DEF WrittenBeforeInsert
  <2>2. to \in {"open", "write", "remove"} => k \in Contents
    BY <1>3, <1>5
  <2> QED BY <1>4, <1>7, <2>1, <2>2 DEF WrittenBeforeInsert
<1>10. RegisteredWasWritten'
  BY <1>6, <1>7 DEF RegisteredWasWritten
<1>11. NoStrayFile'
  <2> SUFFICES ASSUME NEW l \in Contents, file'[l] # "none", l \notin rows', l \notin spoilt'
               PROVE  Active(l)'
    BY DEF NoStrayFile
  <2>1. CASE l = k
    <3>1. to \notin {"done", "failed"}
      BY <1>7, <2>1
    <3>2. to \in {"write", "insert", "remove"}
      BY <1>3, <3>1
    <3> QED BY <1>4, <2>1, <3>2 DEF Active
  <2>2. CASE l # k
    <3>1. file[l] # "none" /\ l \notin rows /\ l \notin spoilt
      BY <1>7, <2>2
    <3>2. PICK v \in Uploads :
            Content(v) = l /\ upload[v].pc \in {"write", "insert", "remove"}
      BY <3>1 DEF NoStrayFile, Active
    <3>3. v # u
      BY <2>2, <3>2 DEF k
    <3> QED BY <1>4, <3>2, <3>3 DEF Active
  <2> QED BY <2>1, <2>2
<1> QED BY <1>8, <1>9, <1>10, <1>11

LEMMA StartStep ==
  ASSUME IInv, NEW u \in Uploads,
         UploadMetadata(u) \/ \E k \in Contents : UploadFile(u, k)
  PROVE  IInv'
<1> USE DEF IInv
<1>1. PICK id \in Ids, pc \in {"open", "insert"} :
        /\ upload[u].pc = "idle"
        /\ upload' = [upload EXCEPT ![u] = [pc |-> pc, id |-> id]]
        /\ pc = "open" => id \in Contents
        /\ pc = "insert" => id \notin Contents
  BY OtaAssumption DEF UploadMetadata, UploadFile, Ids
<1>2. UNCHANGED <<rows, files, deployments>>
  BY DEF UploadMetadata, UploadFile
<1>3. upload \in [Uploads -> UploadRecords]
  BY TypeUploads
<1>4. [pc |-> pc, id |-> id] \in UploadRecords
  BY DEF UploadRecords, UploadStates
<1>5. /\ upload' \in [Uploads -> UploadRecords]
      /\ upload'[u].pc = pc /\ Content(u)' = id
      /\ \A v \in Uploads \ {u} : upload'[v] = upload[v] /\ Content(v)' = Content(v)
  BY <1>1, <1>3, <1>4 DEF Content
<1>6. TypeOK'
  BY <1>2, <1>5 DEF TypeOK, UploadRecords, files, deployments
<1>7. WrittenBeforeInsert'
  BY <1>1, <1>2, <1>5 DEF WrittenBeforeInsert, files
<1>8. RegisteredWasWritten'
  BY <1>2 DEF RegisteredWasWritten, files
<1>9. \A l \in Contents : Active(l) => Active(l)'
  BY <1>1, <1>5 DEF Active
<1>10. NoStrayFile'
  BY <1>2, <1>9 DEF NoStrayFile, files
<1> QED BY <1>6, <1>7, <1>8, <1>10

LEMMA CrashStep == IInv /\ Crash => IInv'
<1> SUFFICES ASSUME IInv, Crash PROVE IInv'
  OBVIOUS
<1> USE DEF IInv
<1> DEFINE cut == {u \in Uploads : upload[u].pc \in {"open", "write", "insert", "remove"}}
<1>1. /\ upload' = [u \in Uploads |-> IF u \in cut THEN [upload[u] EXCEPT !.pc = "failed"]
                                      ELSE upload[u]]
      /\ spoilt' = spoilt \union {Content(u) : u \in cut}
      /\ UNCHANGED <<rows, file, owner, written, deployments>>
  BY DEF Crash
<1>2. upload \in [Uploads -> UploadRecords]
  BY TypeUploads
<1>3. ASSUME NEW u \in Uploads
      PROVE  /\ upload'[u] \in UploadRecords
             /\ Content(u)' = Content(u) /\ Content(u) \in Ids
             /\ upload'[u].pc \notin {"open", "write", "insert", "remove"}
  <2>1. upload[u] \in UploadRecords
    BY <1>2
  <2> DEFINE q == [upload[u] EXCEPT !.pc = "failed"]
  <2>2. q \in UploadRecords /\ q.pc = "failed" /\ q.id = upload[u].id
        /\ upload[u].id \in Ids
    BY <2>1, UploadFields DEF UploadStates
  <2> HIDE DEF q
  <2>3. upload'[u] = IF u \in cut THEN q ELSE upload[u]
    BY <1>1 DEF q
  <2> QED BY <2>1, <2>2, <2>3 DEF Content
<1>4. TypeOK'
  <2>1. upload' \in [Uploads -> UploadRecords]
    BY <1>1, <1>3
  <2>2. spoilt' \subseteq Ids
    BY <1>1, <1>3 DEF TypeOK
  <2> QED BY <1>1, <2>1, <2>2 DEF TypeOK, UploadRecords, deployments
<1>5. WrittenBeforeInsert' /\ RegisteredWasWritten'
  BY <1>1, <1>3 DEF WrittenBeforeInsert, RegisteredWasWritten
<1>6. NoStrayFile'
  <2> SUFFICES ASSUME NEW l \in Contents, file'[l] # "none", l \notin rows', l \notin spoilt'
               PROVE  FALSE
    BY DEF NoStrayFile
  <2>1. PICK v \in Uploads :
          Content(v) = l /\ upload[v].pc \in {"write", "insert", "remove"}
    BY <1>1 DEF NoStrayFile, Active
  <2> QED BY <1>1, <2>1
<1> QED BY <1>4, <1>5, <1>6

LEMMA DeployStep ==
  ASSUME IInv, NEW x \in Deploys,
         \/ \E k \in Ids : CreateDeployment(x, k)
         \/ \E d \in Devices, st \in Reports : DeviceStatus(x, d, st)
  PROVE  IInv'
<1> USE DEF IInv
<1>1. UNCHANGED <<rows, files, upload>>
  BY DEF CreateDeployment, DeviceStatus
<1>2. deploy' \in [Deploys -> [state : {"none", "in_progress"},
                               firmware : Ids \union {NoUpload}]]
  <2> DEFINE Entry == [state : {"none", "in_progress"},
                       firmware : Ids \union {NoUpload}]
  <2>1. deploy \in [Deploys -> Entry]
    BY DEF TypeOK
  <2>2. ASSUME NEW k \in Ids, CreateDeployment(x, k)
        PROVE  deploy' \in [Deploys -> Entry]
    <3>1. [state |-> "in_progress", firmware |-> k] \in Entry
      OBVIOUS
    <3>2. deploy' = [deploy EXCEPT ![x] = [state |-> "in_progress", firmware |-> k]]
      BY <2>2 DEF CreateDeployment
    <3> HIDE DEF Entry
    <3> QED BY <2>1, <3>1, <3>2
  <2>3. ASSUME NEW d \in Devices, NEW st \in Reports, DeviceStatus(x, d, st)
        PROVE  deploy' \in [Deploys -> Entry]
    BY <2>1, <2>3 DEF DeviceStatus
  <2> QED BY <2>2, <2>3
<1>3. reported' \in [Deploys -> [Devices -> Reports \union {NoReport}]]
  <2> DEFINE Row == [Devices -> Reports \union {NoReport}]
  <2>1. reported \in [Deploys -> Row] /\ reported[x] \in Row
    BY DEF TypeOK
  <2>2. ASSUME NEW d \in Devices, NEW st \in Reports, DeviceStatus(x, d, st)
        PROVE  reported' \in [Deploys -> Row]
    <3> DEFINE row == [reported[x] EXCEPT ![d] = st]
    <3>1. row \in Row
      BY <2>1
    <3>2. reported' = [reported EXCEPT ![x] = row]
      BY <2>2 DEF DeviceStatus
    <3> HIDE DEF Row, row
    <3> QED BY <2>1, <3>1, <3>2
  <2>3. ASSUME NEW k \in Ids, CreateDeployment(x, k)
        PROVE  reported' \in [Deploys -> Row]
    BY <2>1, <2>3 DEF CreateDeployment
  <2> QED BY <2>2, <2>3
<1>4. TypeOK'
  BY <1>1, <1>2, <1>3 DEF TypeOK, files
<1> QED BY <1>1, <1>4 DEF WrittenBeforeInsert, RegisteredWasWritten, NoStrayFile,
        Active, Content, files

LEMMA NextIInv == IInv /\ [Next]_vars => IInv'
<1> SUFFICES ASSUME IInv, [Next]_vars PROVE IInv'
  OBVIOUS
<1>1. CASE UNCHANGED vars
  BY <1>1 DEF IInv, TypeOK, WrittenBeforeInsert, RegisteredWasWritten, NoStrayFile,
     Active, Content, vars, files, deployments
<1>2. ASSUME NEW u \in Uploads, Handle(u) PROVE IInv'
  BY <1>2, UploadStep
<1>3. ASSUME NEW u \in Uploads, UploadMetadata(u) PROVE IInv'
  BY <1>3, StartStep
<1>4. ASSUME NEW u \in Uploads, NEW k \in Contents, UploadFile(u, k) PROVE IInv'
  BY <1>4, StartStep
<1>5. ASSUME Crash PROVE IInv'
  BY <1>5, CrashStep
<1>6. ASSUME NEW x \in Deploys, NEW k \in Ids, CreateDeployment(x, k) PROVE IInv'
  BY <1>6, DeployStep
<1>7. ASSUME NEW x \in Deploys, NEW d \in Devices, NEW st \in Reports,
             DeviceStatus(x, d, st)
      PROVE  IInv'
  BY <1>7, DeployStep
<1> QED BY <1>1, <1>2, <1>3, <1>4, <1>5, <1>6, <1>7, Zenon DEF Next

\* The strengthened invariant holds in every behaviour of the module.
THEOREM IndInvariant == Spec => []IInv
BY InitIInv, NextIInv, PTL DEF Spec

\* The variables keep their types over uploads, crashes and deployments.
THEOREM TypeCorrect == Spec => []TypeOK
<1>1. IInv => TypeOK
  BY DEF IInv
<1> QED BY IndInvariant, <1>1, PTL

\* handleUpload registers no binary that was never written to the store.
THEOREM NoEmptyRegistration == Spec => []RegisteredWasWritten
<1>1. IInv => RegisteredWasWritten
  BY DEF IInv
<1> QED BY IndInvariant, <1>1, PTL

\* Unless a write or a remove fails or the process crashes, every file of the
\* store belongs to a row or to an upload that is under way.
THEOREM StoreIsAccounted == Spec => []NoStrayFile
<1>1. IInv => NoStrayFile
  BY DEF IInv
<1> QED BY IndInvariant, <1>1, PTL
=============================================================================
