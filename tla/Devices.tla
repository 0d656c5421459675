------------------------------ MODULE Devices ------------------------------
(***************************************************************************)
(* The rows of table devices and what the handlers that share them answer: *)
(* modules/devices (register, list, get, update, delete), modules/fleet    *)
(* (tags, group, and the table groups), and the UPDATE that a reading of   *)
(* modules/telemetry makes.                                                *)
(*                                                                         *)
(* Every handler is one SQLite statement and its answer, which is one      *)
(* step, except PUT /api/v1/devices/{id}: its UPDATE and the SELECT that   *)
(* makes its answer are two, and anything may come between them.  A        *)
(* statement may fail at any time (SQLITE_BUSY on a connection without     *)
(* busy_timeout).  What a request writes is told apart by the request.     *)
(***************************************************************************)
EXTENDS Naturals, Sequences

CONSTANTS
  DeviceIds,  \* ids of devices
  Groups,     \* ids of groups
  GroupNames, \* names of groups
  Orgs,       \* values of the X-Org-ID header; "" stands for none
  Reqs,       \* the requests
  None        \* there is no row, no id

VARIABLES
  device,   \* table devices
  group,    \* table groups
  req,      \* the requests
  reply,    \* the status and the device of their answers
  \* history
  writes,   \* PUT requests whose UPDATE has hit a row, in their order
  failed    \* requests a statement of which failed

rowVars == <<device, group, req, reply, writes, failed>>

\* A row of devices: the request that wrote name, type and metadata, those
\* that wrote tags and device_group, the org, status, and whether last_seen
\* is not NULL.
Device == [profile : Reqs, tags : Reqs, group : Reqs, org : Orgs,
           status : {"offline", "online"}, seen : BOOLEAN]

Group == [name : GroupNames, org : Orgs]

Ops == {"register", "list", "get", "update", "delete", "tags", "group",
        "create_group", "delete_group"}

Request == [op : Ops, id : DeviceIds \cup Groups \cup {None}, org : Orgs]

ASSUME DeviceAssumption ==
  /\ DeviceIds \cap Groups = {}       \* prefixes dev_ and grp_
  /\ None \notin DeviceIds \cup Groups
  /\ None \notin Device /\ None \notin Group /\ None \notin Request
  /\ "" \in Orgs

DevicesTypeOK ==
  /\ device \in [DeviceIds -> Device \cup {None}]
  /\ group \in [Groups -> Group \cup {None}]
  /\ req \in [Reqs -> Request \cup {None}]
  /\ reply \in [Reqs -> [status : {"none", "200", "201", "204", "404", "500"},
                         row : Device \cup {None}]]
  /\ writes \in Seq(Reqs)
  /\ failed \subseteq Reqs

DevicesInit ==
  /\ device = [d \in DeviceIds |-> None]
  /\ group = [g \in Groups |-> None]
  /\ req = [q \in Reqs |-> None]
  /\ reply = [q \in Reqs |-> [status |-> "none", row |-> None]]
  /\ writes = <<>>
  /\ failed = {}

Exists(d) == device[d] # None

\* An id that createDevice or handleCreateGroup draws was in no request.
Unused(i) == \A q \in Reqs : req[q] # None => req[q].id # i

-----------------------------------------------------------------------------

\* Request q comes in.
Asks(q, op, i, o) ==
  /\ req[q] = None
  /\ req' = [req EXCEPT ![q] = [op |-> op, id |-> i, org |-> o]]

Reply(q, status) == reply' = [reply EXCEPT ![q].status = status]

(***************************************************************************)
(* modules/devices.                                                        *)
(***************************************************************************)

\* Mutant: the id is made from the name, and may come again.
MutCreateDevice(q, d, o) ==
  /\ Asks(q, "register", d, o)
  /\ ~Exists(d)
  /\ device' = [device EXCEPT ![d] =
       [profile |-> q, tags |-> q, group |-> q, org |-> o,
        status |-> "offline", seen |-> FALSE]]
  /\ Reply(q, "201")
  /\ UNCHANGED <<group, writes, failed>>

\* POST /api/v1/devices.
CreateDevice(q, d, o) ==
  /\ Asks(q, "register", d, o)
  /\ Unused(d)
  /\ device' = [device EXCEPT ![d] =
       [profile |-> q, tags |-> q, group |-> q, org |-> o,
        status |-> "offline", seen |-> FALSE]]
  /\ Reply(q, "201")
  /\ UNCHANGED <<group, writes, failed>>

\* Scan reads last_seen into a time.Time, which cannot hold NULL.
Readable(d) == Exists(d) /\ device[d].seen

\* GET /api/v1/devices: the devices of the org, or all of them without one.
\* One row that Scan refuses fails the whole list.
ListDevices(q, o) ==
  /\ Asks(q, "list", None, o)
  /\ LET listed == {d \in DeviceIds : Exists(d) /\ o \in {"", device[d].org}}
     IN  Reply(q, IF \A d \in listed : Readable(d) THEN "200" ELSE "500")
  /\ UNCHANGED <<device, group, writes, failed>>

\* The answer of getDevice's row, whatever the org; 404 for any error.
GetDevice(q, d, o) ==
  IF Readable(d)
    THEN reply' = [reply EXCEPT ![q] = [status |-> "200", row |-> device[d]]]
    ELSE Reply(q, "404")

\* GET /api/v1/devices/{id}.
HandleGet(q, d, o) ==
  /\ Asks(q, "get", d, o)
  /\ GetDevice(q, d, o)
  /\ UNCHANGED <<device, group, writes, failed>>

\* Mutant: the UPDATE asks for the org as well.
MutUpdateOrg(q, d, o) ==
  IF Exists(d) /\ device[d].org = o
    THEN /\ device' = [device EXCEPT ![d] =
              [@ EXCEPT !.profile = q, !.tags = q, !.group = q]]
         /\ writes' = Append(writes, q)
    ELSE UNCHANGED <<device, writes>>

\* The UPDATE, of no row if there is none.
Update(q, d, o) ==
  IF Exists(d)
    THEN /\ device' = [device EXCEPT ![d] =
              [@ EXCEPT !.profile = q, !.tags = q, !.group = q]]
         /\ writes' = Append(writes, q)
    ELSE UNCHANGED <<device, writes>>

\* PUT /api/v1/devices/{id}: updateDevice ...
UpdateDevice(q, d, o) ==
  /\ Asks(q, "update", d, o)
  /\ Update(q, d, o)
  /\ UNCHANGED <<group, reply, failed>>

Updated(q) == req[q] # None /\ reply[q].status = "none"

\* ... and getDevice.
AnswerUpdate(q) ==
  /\ Updated(q)
  /\ GetDevice(q, req[q].id, req[q].org)
  /\ UNCHANGED <<device, group, req, writes, failed>>

\* DELETE /api/v1/devices/{id}: the same answer when there was no row.
DeleteDevice(q, d, o) ==
  /\ Asks(q, "delete", d, o)
  /\ device' = [device EXCEPT ![d] = None]
  /\ Reply(q, "204")
  /\ UNCHANGED <<group, writes, failed>>

(***************************************************************************)
(* modules/telemetry: a reading has been stored.                           *)
(***************************************************************************)

Touch(d) ==
  /\ Exists(d)
  /\ device' = [device EXCEPT ![d] = [@ EXCEPT !.status = "online", !.seen = TRUE]]
  /\ UNCHANGED <<group, req, reply, writes, failed>>

(***************************************************************************)
(* modules/fleet.                                                          *)
(***************************************************************************)

\* POST /api/v1/devices/{id}/tags: the whole column, of the org's device.
AddTags(q, d, o) ==
  /\ Asks(q, "tags", d, o)
  /\ IF Exists(d) /\ device[d].org = o
       THEN device' = [device EXCEPT ![d].tags = q] /\ Reply(q, "200")
       ELSE device' = device /\ Reply(q, "404")
  /\ UNCHANGED <<group, writes, failed>>

\* PUT /api/v1/devices/{id}/group.
SetGroup(q, d, o) ==
  /\ Asks(q, "group", d, o)
  /\ IF Exists(d) /\ device[d].org = o
       THEN device' = [device EXCEPT ![d].group = q] /\ Reply(q, "200")
       ELSE device' = device /\ Reply(q, "404")
  /\ UNCHANGED <<group, writes, failed>>

\* POST /api/v1/groups: names are unique over all orgs.
CreateGroup(q, g, n, o) ==
  /\ Asks(q, "create_group", g, o)
  /\ IF \E h \in Groups : group[h] # None /\ group[h].name = n
       THEN group' = group /\ Reply(q, "500")
       ELSE /\ Unused(g)
            /\ group' = [group EXCEPT ![g] = [name |-> n, org |-> o]]
            /\ Reply(q, "201")
  /\ UNCHANGED <<device, writes, failed>>

\* DELETE /api/v1/groups/{id}.
DeleteGroup(q, g, o) ==
  /\ Asks(q, "delete_group", g, o)
  /\ IF group[g] # None /\ group[g].org = o
       THEN group' = [group EXCEPT ![g] = None] /\ Reply(q, "204")
       ELSE group' = group /\ Reply(q, "404")
  /\ UNCHANGED <<device, writes, failed>>

-----------------------------------------------------------------------------

\* What a failing statement is answered with: handleGet, handleUpdate and
\* handleDelete take every error for a missing device.
ErrorStatus(op) == IF op \in {"get", "update", "delete"} THEN "404" ELSE "500"

\* The only statement of a request, or the UPDATE, fails.
StatementFails(q, op, i, o) ==
  /\ Asks(q, op, i, o)
  /\ Reply(q, ErrorStatus(op))
  /\ failed' = failed \cup {q}
  /\ UNCHANGED <<device, group, writes>>

\* The SELECT after the UPDATE fails.
AnswerFails(q) ==
  /\ Updated(q)
  /\ Reply(q, "404")
  /\ failed' = failed \cup {q}
  /\ UNCHANGED <<device, group, req, writes>>

HandleDevice(q, d, o) ==
  \/ CreateDevice(q, d, o) \/ HandleGet(q, d, o) \/ UpdateDevice(q, d, o)
  \/ DeleteDevice(q, d, o) \/ AddTags(q, d, o) \/ SetGroup(q, d, o)
  \/ \E op \in {"get", "update", "delete", "tags", "group"} :
       StatementFails(q, op, d, o)

HandleGroup(q, g, o) ==
  \/ \E n \in GroupNames : CreateGroup(q, g, n, o)
  \/ DeleteGroup(q, g, o)
  \/ StatementFails(q, "delete_group", g, o)

DevicesNext ==
  \/ \E q \in Reqs, o \in Orgs :
       \/ \E d \in DeviceIds : HandleDevice(q, d, o)
       \/ \E g \in Groups : HandleGroup(q, g, o)
       \/ ListDevices(q, o)
       \/ \E op \in {"register", "list", "create_group"} :
            StatementFails(q, op, None, o)
  \/ \E q \in Reqs : AnswerUpdate(q) \/ AnswerFails(q)
  \/ \E d \in DeviceIds : Touch(d)

DevicesSpec == DevicesInit /\ [][DevicesNext]_rowVars

-----------------------------------------------------------------------------

\* An update that is answered with 200 has been applied, and the device in
\* the answer has it or a later update, never an older state: the UPDATE is
\* not checked for having hit a row, only the SELECT after it
\* (devices/storage.go:144-152), and others update and delete in between.
UpdateTold ==
  \A q \in Reqs :
    (reply[q].status = "200" /\ req[q].op = "update") =>
      \E i, j \in 1..Len(writes) :
        i <= j /\ writes[i] = q /\ writes[j] = reply[q].row.profile

Here(i) == IF i \in DeviceIds THEN Exists(i) ELSE group[i] # None

\* A deleted device or group does not come back: a PUT, a reading or a fleet
\* request that was under way does not write its row again, and no later
\* registration gets its id (devices/storage.go:31-32, 144-147,
\* telemetry/storage.go:36, fleet/module.go:70, 101).
DeletedStaysDeleted ==
  [][\A i \in DeviceIds \cup Groups :
       (~Here(i) /\ \E q \in Reqs : reply[q].status = "201" /\ req[q].id = i)
         => ~Here(i)']_rowVars
-----------------------------------------------------------------------------
(***************************************************************************)
(* The inductive invariant: only updates wait between two statements, an   *)
(* answer has its request, and the row of a waiting update, if there is    *)
(* one, has that update or a later one.                                    *)
(***************************************************************************)
OnlyUpdatesWait ==
  \A q \in Reqs : Updated(q) => req[q].op = "update" /\ req[q].id \in DeviceIds

AnswersHaveRequests ==
  \A q \in Reqs : reply[q].status # "none" => req[q] # None

\* Update q, and then profile, are among the writes.
Written(q, profile) ==
  \E i, j \in 1..Len(writes) :
    i <= j /\ writes[i] = q /\ writes[j] = profile

WaitingIsWritten ==
  \A q \in Reqs : Updated(q) /\ Exists(req[q].id) =>
    Written(q, device[req[q].id].profile)

DevicesIInv ==
  /\ DevicesTypeOK /\ OnlyUpdatesWait /\ AnswersHaveRequests /\ WaitingIsWritten
  /\ UpdateTold
=============================================================================
