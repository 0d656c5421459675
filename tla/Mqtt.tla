-------------------------------- MODULE Mqtt --------------------------------
(***************************************************************************)
(* modules/mqtt: an embedded mochi-mqtt broker whose hooks authenticate    *)
(* the devices, check their topics and store their readings.  Only Start   *)
(* makes the broker serve; the program registers the module but calls no   *)
(* StartAll, so that it is the module's own life that is modelled here.    *)
(*                                                                         *)
(* The broker is external: it runs a goroutine per connection, which calls *)
(* the hooks of that connection one after the other, and it lets a new     *)
(* connection take over the session of an older one with the same client   *)
(* id.  The hooks of different connections interleave, and they share the  *)
(* map devices, whose key is the client id.  A connection dropped before   *)
(* its CONNACK has left gets no OnDisconnect.                              *)
(*                                                                         *)
(* A client may publish to deviceos/{any device id}/telemetry.  OnACLCheck *)
(* and OnPublished compare the device of the topic with the one of the     *)
(* entry, which after a takeover is another than the client's own: then    *)
(* its messages for that device are accepted.  A refused message, or one   *)
(* to any other topic, changes nothing.  The org of a device never changes *)
(* and deviceInfo is represented by the device.  Store is the one of       *)
(* module Ingest; here it is its INSERT, which may fail.                   *)
(***************************************************************************)
CONSTANTS
  Conns,      \* connections, in their life a client id and a device each
  ClientIds,  \* MQTT client identifiers, chosen by the clients
  Devices,    \* ids of devices
  None        \* no entry, no choice yet

ASSUME MqttAssumption == None \notin ClientIds \cup Devices

VARIABLES
  broker,     \* the life of m.server
  device,     \* table devices: the ids that have a row
  pc,         \* where the goroutine of a connection is
  id,         \* cl.ID
  user,       \* the username of CONNECT, a device id
  told,       \* connections that the broker has stopped
  entry,      \* the map devices: client id -> deviceInfo
  topic,      \* the device in the topic of the message under way
  info,       \* the deviceInfo that OnPublished has loaded for it
  \* history
  stored,     \* rows of telemetry: the connection the message came by, the
              \* device, and the device whose org the row has
  shared      \* connections that shared their client id with a live one

vars ==
  <<broker, device, pc, id, user, told, entry, topic, info, stored, shared>>

Steps == {"new", "auth", "accepted", "known", "ready", "acl", "storing",
          "leaving", "deleting", "gone", "refused", "lost"}

Rows == [by : Conns, device : Devices, org : Devices]

TypeOK ==
  /\ broker \in {"initialized", "serving", "closing", "closed"}
  /\ device \subseteq Devices
  /\ pc \in [Conns -> Steps]
  /\ id \in [Conns -> ClientIds \cup {None}]
  /\ user \in [Conns -> Devices \cup {None}]
  /\ told \subseteq Conns
  /\ entry \in [ClientIds -> Devices \cup {None}]
  /\ topic \in [Conns -> Devices \cup {None}]
  /\ info \in [Conns -> Devices \cup {None}]
  /\ stored \subseteq Rows
  /\ shared \subseteq Conns

\* Connections with an entry to their name that OnDisconnect has yet to see
Holding == {c \in Conns :
             pc[c] \in {"known", "ready", "acl", "storing", "leaving",
                        "deleting"}}

\* Connections whose packets the broker reads
Sessions == {c \in Conns : pc[c] \in {"ready", "acl", "storing"}}

Go(c, step) == pc' = [pc EXCEPT ![c] = step]

\* GET /api/v1/mqtt/status counts the entries of the map
Connected == {i \in ClientIds : entry[i] # None}

Init ==
  /\ broker = "initialized"
  /\ device = Devices
  /\ pc = [c \in Conns |-> "new"]
  /\ id = [c \in Conns |-> None]
  /\ user = [c \in Conns |-> None]
  /\ told = {}
  /\ entry = [i \in ClientIds |-> None]
  /\ topic = [c \in Conns |-> None]
  /\ info = [c \in Conns |-> None]
  /\ stored = {}
  /\ shared = {}
-----------------------------------------------------------------------------
(***************************************************************************)
(* Start and Stop.  Close tells every session to end and returns when no   *)
(* goroutine of a connection is left.                                      *)
(***************************************************************************)
Start ==
  /\ broker = "initialized"
  /\ broker' = "serving"
  /\ UNCHANGED <<device, pc, id, user, told, entry, topic, info, stored, shared>>

Stop ==
  /\ broker \in {"initialized", "serving"}
  /\ broker' = "closing"
  /\ told' = told \cup Sessions
  /\ UNCHANGED <<device, pc, id, user, entry, topic, info, stored, shared>>

StopReturns ==
  /\ broker = "closing"
  /\ \A c \in Conns : pc[c] \in {"new", "gone", "refused", "lost"}
  /\ broker' = "closed"
  /\ UNCHANGED <<device, pc, id, user, told, entry, topic, info, stored, shared>>
-----------------------------------------------------------------------------
(***************************************************************************)
(* CONNECT and OnConnectAuthenticate                                       *)
(***************************************************************************)
Connect(c, i, d) ==
  /\ broker = "serving"
  /\ pc[c] = "new"
  /\ Go(c, "auth")
  /\ id' = [id EXCEPT ![c] = i]
  /\ user' = [user EXCEPT ![c] = d]
  /\ UNCHANGED <<broker, device, told, entry, topic, info, stored, shared>>

\* Mutant: the entry is stored before the password is compared.
MutRefuse(c) ==
  /\ pc[c] = "auth"
  /\ Go(c, "refused")
  /\ entry' = [entry EXCEPT ![id[c]] = user[c]]
  /\ UNCHANGED <<broker, device, id, user, told, topic, info, stored, shared>>

\* No such device, another password, or the SELECT failed
Refuse(c) ==
  /\ pc[c] = "auth"
  /\ Go(c, "refused")
  /\ UNCHANGED <<broker, device, id, user, told, entry, topic, info, stored, shared>>

\* The SELECT finds the row and its secret_key is the password
Authenticate(c) ==
  /\ pc[c] = "auth"
  /\ user[c] \in device
  /\ Go(c, "accepted")
  /\ UNCHANGED <<broker, device, id, user, told, entry, topic, info, stored, shared>>

\* devices.Store
StoreEntry(c) ==
  /\ pc[c] = "accepted"
  /\ Go(c, "known")
  /\ entry' = [entry EXCEPT ![id[c]] = user[c]]
  /\ LET others == {x \in Holding : id[x] = id[c]}
     IN  shared' = IF others = {} THEN shared ELSE shared \cup others \cup {c}
  /\ UNCHANGED <<broker, device, id, user, told, topic, info, stored>>

\* The broker adds the session, which ends an older one of the client id,
\* and sends the CONNACK, which may fail.
Establish(c) ==
  /\ pc[c] = "known"
  /\ \E step \in {"ready", "lost"} : Go(c, step)
  /\ told' = told \cup {x \in Sessions : id[x] = id[c]}
  /\ UNCHANGED <<broker, device, id, user, entry, topic, info, stored, shared>>
-----------------------------------------------------------------------------
(***************************************************************************)
(* A message of the device to its topic                                    *)
(***************************************************************************)
OnACLCheck(c, d) ==
  /\ pc[c] = "ready"
  /\ c \notin told
  /\ entry[id[c]] = d
  /\ topic' = [topic EXCEPT ![c] = d]
  /\ Go(c, "acl")
  /\ UNCHANGED <<broker, device, id, user, told, entry, info, stored, shared>>

\* Mutant: the device of the topic is not compared with the entry.
MutOnPublished(c) ==
  /\ pc[c] = "acl"
  /\ entry[id[c]] # None
  /\ info' = [info EXCEPT ![c] = entry[id[c]]]
  /\ Go(c, "storing")
  /\ UNCHANGED <<broker, device, id, user, told, entry, topic, stored, shared>>

\* The entry may have changed since the check of the topic.
OnPublished(c) ==
  /\ pc[c] = "acl"
  /\ entry[id[c]] # None /\ entry[id[c]] = topic[c]
  /\ info' = [info EXCEPT ![c] = entry[id[c]]]
  /\ Go(c, "storing")
  /\ UNCHANGED <<broker, device, id, user, told, entry, topic, stored, shared>>

\* The message is done with, stored or not.
Done(c, step) ==
  /\ pc[c] = step
  /\ Go(c, "ready")
  /\ topic' = [topic EXCEPT ![c] = None]
  /\ info' = [info EXCEPT ![c] = None]
  /\ UNCHANGED <<broker, device, id, user, told, entry, shared>>

\* Without an entry, with another device's, or not JSON: the message is
\* dropped, and the device is not told.
DropMessage(c) == Done(c, "acl") /\ UNCHANGED stored

\* Store(deviceID, ..., info.OrgID), the device being that of the topic
Store(c) ==
  /\ Done(c, "storing")
  /\ stored' = stored \cup {[by |-> c, device |-> topic[c], org |-> info[c]]}

StoreFails(c) == Done(c, "storing") /\ UNCHANGED stored
-----------------------------------------------------------------------------
(***************************************************************************)
(* The end of a connection: DISCONNECT, a broken connection, or told.      *)
(* OnDisconnect loads the entry of the client id and then deletes it,      *)
(* whoever stored it.                                                      *)
(***************************************************************************)
End(c) ==
  /\ pc[c] = "ready"
  /\ Go(c, "leaving")
  /\ UNCHANGED <<broker, device, id, user, told, entry, topic, info, stored, shared>>

OnDisconnect(c) ==
  /\ pc[c] = "leaving"
  /\ Go(c, IF entry[id[c]] = None THEN "gone" ELSE "deleting")
  /\ UNCHANGED <<broker, device, id, user, told, entry, topic, info, stored, shared>>

\* Mutant: what is deleted is every entry of the device.
MutDeleteEntry(c) ==
  /\ pc[c] = "deleting"
  /\ Go(c, "gone")
  /\ entry' = [i \in ClientIds |-> IF entry[i] = user[c] THEN None
                                                        ELSE entry[i]]
  /\ UNCHANGED <<broker, device, id, user, told, topic, info, stored, shared>>

DeleteEntry(c) ==
  /\ pc[c] = "deleting"
  /\ Go(c, "gone")
  /\ entry' = [entry EXCEPT ![id[c]] = None]
  /\ UNCHANGED <<broker, device, id, user, told, topic, info, stored, shared>>

\* DELETE /api/v1/devices/{id} tells the broker nothing
DeleteDevice(d) ==
  /\ d \in device
  /\ device' = device \ {d}
  /\ UNCHANGED <<broker, pc, id, user, told, entry, topic, info, stored, shared>>

Handle(c) ==
  \/ \E i \in ClientIds, d \in Devices : Connect(c, i, d)
  \/ Refuse(c) \/ Authenticate(c) \/ StoreEntry(c) \/ Establish(c)
  \/ \E d \in Devices : OnACLCheck(c, d)
  \/ OnPublished(c) \/ DropMessage(c)
  \/ Store(c) \/ StoreFails(c)
  \/ End(c) \/ OnDisconnect(c) \/ DeleteEntry(c)

Next ==
  \/ Start \/ Stop \/ StopReturns
  \/ \E c \in Conns : Handle(c)
  \/ \E d \in Devices : DeleteDevice(d)

Spec == Init /\ [][Next]_vars
-----------------------------------------------------------------------------
(***************************************************************************)
(* Properties                                                              *)
(***************************************************************************)
\* Connections whose password was compared and whose entry was stored
Admitted == Holding \cup {c \in Conns : pc[c] \in {"gone", "lost"}}

\* A client of this id was authenticated as the device.
Vouched(c, d) == \E x \in Admitted : id[x] = id[c] /\ user[x] = d

\* A reading has the organization of the device it is stored for, and that is
\* the device its connection was authenticated as, or, when the connection has
\* shared its client id, one that another client of this id was: the entry may
\* change before the check of the topic, after it, and before Store.
StoredWithItsOrg ==
  \A r \in stored :
    /\ r.device = r.org
    /\ r.device = user[r.by] \/ r.by \in shared
    /\ Vouched(r.by, r.device)

\* What handleStatus counts is connections: each entry is that of one that
\* was authenticated as this device, and whose OnDisconnect is to come or
\* was denied it by the broker.
EntriesHaveOwners ==
  \A i \in Connected :
    \E c \in Conns : /\ id[c] = i
                     /\ user[c] = entry[i]
                     /\ c \in Holding \/ pc[c] = "lost"

\* A session is known to the hooks, which is what its messages are stored
\* by, for as long as no other connection has used its client id.
KnownUnlessShared ==
  \A c \in Holding \ shared : entry[id[c]] = user[c]

\* A session that was not told to end is known to the hooks: the broker
\* "hooks into the telemetry storage pipeline" (Docs/architecture.md:140).
\* This does not hold: OnDisconnect of a session that was taken over deletes
\* the entry of the one that took it over (module.go:178).
ConnectedIsKnown == \A c \in Sessions \ told : entry[id[c]] = user[c]
-----------------------------------------------------------------------------
(***************************************************************************)
(* The inductive invariant: who is past CONNECT has an id and a device,    *)
(* two holders of one client id are both marked as sharing it, and what    *)
(* OnPublished has loaded is the entry of the device of the topic, one     *)
(* that a client of this id was authenticated as.                          *)
(***************************************************************************)
Connecting == \A c \in Conns : pc[c] # "new" => /\ id[c] \in ClientIds
                                              /\ user[c] \in Devices

SharersAreMarked ==
  \A c, x \in Holding : c # x /\ id[c] = id[x] => c \in shared

LoadedIsVouched ==
  \A c \in Conns : pc[c] = "storing" =>
    /\ info[c] = topic[c] /\ topic[c] \in Devices
    /\ topic[c] = user[c] \/ c \in shared
    /\ Vouched(c, topic[c])

StoredByAdmitted == \A r \in stored : r.by \in Admitted

IInv ==
  /\ TypeOK /\ Connecting /\ SharersAreMarked /\ LoadedIsVouched
  /\ StoredByAdmitted /\ StoredWithItsOrg /\ EntriesHaveOwners /\ KnownUnlessShared
=============================================================================
