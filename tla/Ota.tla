-------------------------------- MODULE Ota --------------------------------
(***************************************************************************)
(* modules/ota: firmware uploads, deployments and what devices report.     *)
(*                                                                         *)
(* The id of a binary is derived from its content, so that uploads of the  *)
(* same binary share one file and one row.  os.WriteFile opens the file    *)
(* with O_TRUNC and then writes it; the row is INSERTed after that, and a  *)
(* failing INSERT removes the file.  Each of these steps may fall between  *)
(* the steps of another upload, and a crash may fall between any two.      *)
(***************************************************************************)
EXTENDS Naturals, FiniteSets

CONSTANTS
  Contents,   \* firmware binaries; the id is fw_ and 12 digits of the SHA-256
  Uploads,    \* calls of handleUpload
  NoUpload,
  Deploys,    \* deployment ids
  Devices,
  Reports,    \* statuses devices report
  NoReport,
  FkModes     \* values of PRAGMA foreign_keys on the connections of the pool

\* An upload without a file is registered, too, under an id from the clock.
Ids == Contents \union Uploads

ASSUME OtaAssumption ==
  /\ Contents \intersect Uploads = {}
  /\ NoUpload \notin Uploads
  /\ NoReport \notin Reports
  /\ FkModes \in (SUBSET BOOLEAN) \ {{}}

VARIABLES
  rows,     \* ids in table firmware
  file,     \* what is in storeDir under the name of each content's id
  owner,    \* the upload that created or truncated the file last
  upload,   \* where each upload is, and the id it is about
  deploy,   \* table deployments: [firmware, status]
  reported, \* table deployment_devices: status per deployment and device
  \* history
  written,  \* contents whose file has been complete at some time
  spoilt    \* contents whose upload met a failing write, a failing remove or
            \* a crash

files == <<file, owner, written, spoilt>>
deployments == <<deploy, reported>>
vars == <<rows, files, upload, deployments>>

Step(u, from, to) ==
  /\ upload[u].pc = from
  /\ upload' = [upload EXCEPT ![u] = [@ EXCEPT !.pc = to]]

Content(u) == upload[u].id

(***************************************************************************)
(* POST /api/v1/firmware                                                   *)
(***************************************************************************)
UploadFile(u, k) ==
  /\ upload[u].pc = "idle"
  /\ upload' = [upload EXCEPT ![u] = [pc |-> "open", id |-> k]]
  /\ UNCHANGED <<rows, files, deployments>>

UploadMetadata(u) ==               \* no file: straight to the INSERT
  /\ upload[u].pc = "idle"
  /\ upload' = [upload EXCEPT ![u] = [pc |-> "insert", id |-> u]]
  /\ UNCHANGED <<rows, files, deployments>>

OpenTruncate(u) ==
  /\ Step(u, "open", "write")
  /\ file' = [file EXCEPT ![Content(u)] = "partial"]
  /\ owner' = [owner EXCEPT ![Content(u)] = u]
  /\ UNCHANGED <<rows, written, spoilt, deployments>>

\* The bytes go to the inode the upload opened.  Truncated by another upload
\* since, the file may come out complete or not; removed since, it stays away.
WriteBytes(u) ==
  LET k == Content(u) IN
  /\ Step(u, "write", "insert")
  /\ \E f \in IF owner[k] = u THEN {"whole"}
              ELSE IF file[k] = "partial" THEN {"partial", "whole"}
              ELSE {file[k]} :
       file' = [file EXCEPT ![k] = f]
  /\ written' = written \union {k}
  /\ UNCHANGED <<rows, owner, spoilt, deployments>>

\* Mutant: WriteFile's error is ignored.
MutWriteFails(u) ==
  /\ Step(u, "open", "insert") \/ Step(u, "write", "insert")
  /\ spoilt' = spoilt \union {Content(u)}
  /\ UNCHANGED <<rows, file, owner, written, deployments>>

WriteFails(u) ==                   \* 500, also when the open fails
  /\ Step(u, "open", "failed") \/ Step(u, "write", "failed")
  /\ spoilt' = spoilt \union {Content(u)}
  /\ UNCHANGED <<rows, file, owner, written, deployments>>

InsertFirmware(u) ==               \* 201
  /\ Content(u) \notin rows
  /\ Step(u, "insert", "done")
  /\ rows' = rows \union {Content(u)}
  /\ UNCHANGED <<files, deployments>>

\* Mutant: the file is not removed.
MutInsertFails(u) ==
  /\ Step(u, "insert", "failed")
  /\ UNCHANGED <<rows, files, deployments>>

\* Busy, or the id is there already.
InsertFails(u) ==
  /\ Step(u, "insert", IF Content(u) \in Contents THEN "remove" ELSE "failed")
  /\ UNCHANGED <<rows, files, deployments>>

RemoveFile(u) ==                   \* 500
  /\ Step(u, "remove", "failed")
  /\ file' = [file EXCEPT ![Content(u)] = "none"]
  /\ owner' = [owner EXCEPT ![Content(u)] = NoUpload]
  /\ UNCHANGED <<rows, written, spoilt, deployments>>

RemoveFails(u) ==                  \* os.Remove's error is ignored
  /\ Step(u, "remove", "failed")
  /\ spoilt' = spoilt \union {Content(u)}
  /\ UNCHANGED <<rows, file, owner, written, deployments>>

Crash ==
  LET cut == {u \in Uploads : upload[u].pc \in {"open", "write", "insert", "remove"}}
  IN  /\ upload' = [u \in Uploads |->
                      IF u \in cut THEN [upload[u] EXCEPT !.pc = "failed"]
                      ELSE upload[u]]
      /\ spoilt' = spoilt \union {Content(u) : u \in cut}
      /\ UNCHANGED <<rows, file, owner, written, deployments>>

(***************************************************************************)
(* Deployments                                                             *)
(***************************************************************************)
NotDeployed == [state |-> "none", firmware |-> NoUpload]

CreateDeployment(x, k) ==
  /\ deploy[x] = NotDeployed
  /\ \E foreignKeys \in FkModes : foreignKeys => k \in rows
  /\ deploy' = [deploy EXCEPT ![x] = [state |-> "in_progress", firmware |-> k]]
  /\ UNCHANGED <<rows, files, upload, reported>>

\* INSERT ... ON CONFLICT DO UPDATE: neither the device nor the status is
\* looked at, and the deployment's own status is left alone.
DeviceStatus(x, d, st) ==
  /\ \E foreignKeys \in FkModes : foreignKeys => deploy[x] # NotDeployed
  /\ reported' = [reported EXCEPT ![x][d] = st]
  /\ UNCHANGED <<rows, files, upload, deploy>>

Init ==
  /\ rows = {} /\ written = {} /\ spoilt = {}
  /\ file = [k \in Contents |-> "none"]
  /\ owner = [k \in Contents |-> NoUpload]
  /\ upload = [u \in Uploads |-> [pc |-> "idle", id |-> u]]
  /\ deploy = [x \in Deploys |-> NotDeployed]
  /\ reported = [x \in Deploys |-> [d \in Devices |-> NoReport]]

Handle(u) ==
  \/ OpenTruncate(u) \/ WriteBytes(u) \/ WriteFails(u) \/ InsertFirmware(u)
  \/ InsertFails(u) \/ RemoveFile(u) \/ RemoveFails(u)

Next ==
  \/ \E u \in Uploads :
       Handle(u) \/ UploadMetadata(u) \/ \E k \in Contents : UploadFile(u, k)
  \/ Crash
  \/ \E x \in Deploys :
       \/ \E k \in Ids : CreateDeployment(x, k)
       \/ \E d \in Devices, st \in Reports : DeviceStatus(x, d, st)

Spec == Init /\ [][Next]_vars
-----------------------------------------------------------------------------
(***************************************************************************)
(* Properties                                                              *)
(***************************************************************************)
UploadStates == {"idle", "open", "write", "insert", "remove", "done", "failed"}

TypeOK ==
  /\ rows \subseteq Ids
  /\ written \subseteq Contents /\ spoilt \subseteq Ids
  /\ file \in [Contents -> {"none", "partial", "whole"}]
  /\ owner \in [Contents -> Uploads \union {NoUpload}]
  /\ upload \in [Uploads -> [pc : UploadStates, id : Ids]]
  /\ deploy \in [Deploys -> [state : {"none", "in_progress"},
                             firmware : Ids \union {NoUpload}]]
  /\ reported \in [Deploys -> [Devices -> Reports \union {NoReport}]]

Active(k) ==
  \E u \in Uploads : Content(u) = k /\ upload[u].pc \in {"write", "insert", "remove"}

\* Nothing is registered whose bytes were never written: an upload that could
\* not store its file registers nothing.
RegisteredWasWritten == rows \intersect Contents \subseteq written

\* No binary is left in the store that no row accounts for, however uploads of
\* one binary overlap, when writes and removes work and nothing crashes.
NoStrayFile ==
  \A k \in Contents :
    file[k] # "none" /\ k \notin rows => Active(k) \/ k \in spoilt

\* A registered binary has its file.  This does not hold: uploading it again
\* finds the id taken and removes the file of the first upload (module.go:178).
RegisteredHasFile ==
  \A k \in rows \intersect Contents : file[k] # "none"
-----------------------------------------------------------------------------
\* The inductive invariant: an upload past its write has written its binary.
WrittenBeforeInsert ==
  \A u \in Uploads :
    /\ upload[u].pc \in {"open", "write", "remove"} => Content(u) \in Contents
    /\ upload[u].pc = "insert" /\ Content(u) \in Contents => Content(u) \in written

IInv == TypeOK /\ WrittenBeforeInsert /\ RegisteredWasWritten /\ NoStrayFile
=============================================================================
