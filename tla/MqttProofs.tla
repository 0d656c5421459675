----------------------------- MODULE MqttProofs -----------------------------
(***************************************************************************)
(* Proofs about module Mqtt, for any number of connections, client ids and *)
(* devices.                                                                *)
(***************************************************************************)
EXTENDS Mqtt, TLAPS

LEMMA InitIInv == Init => IInv
BY MqttAssumption DEF Init, IInv, TypeOK, Steps, Connecting, SharersAreMarked,
   LoadedIsVouched, StoredByAdmitted, StoredWithItsOrg, EntriesHaveOwners,
   KnownUnlessShared, Connected, Holding

\* Who was admitted once stays a witness for its client id and its device:
\* what was loaded and stored before a step is accounted for after it.
LEMMA WitnessesStay ==
  ASSUME IInv,
         Admitted \subseteq Admitted', shared \subseteq shared',
         \A x \in Admitted : id'[x] = id[x] /\ user'[x] = user[x]
  PROVE  /\ \A x \in Admitted, d \in Devices : Vouched(x, d) => Vouched(x, d)'
         /\ stored' = stored => StoredByAdmitted' /\ StoredWithItsOrg'
         /\ (\A x \in Conns : pc'[x] = "storing" =>
               /\ pc[x] = "storing"
               /\ info'[x] = info[x] /\ topic'[x] = topic[x])
            => LoadedIsVouched'
<1>1. ASSUME NEW x \in Admitted, NEW d \in Devices, Vouched(x, d)
      PROVE  Vouched(x, d)'
  <2>1. PICK y \in Admitted : id[y] = id[x] /\ user[y] = d
    BY <1>1 DEF Vouched
  <2>2. id'[y] = id'[x] /\ user'[y] = d
    BY <2>1
  <2>3. y \in Admitted'
    OBVIOUS
  <2> QED BY <2>2, <2>3 DEF Vouched
<1>2. ASSUME stored' = stored PROVE StoredByAdmitted' /\ StoredWithItsOrg'
  <2>1. StoredByAdmitted'
    BY <1>2 DEF IInv, StoredByAdmitted
  <2>2. ASSUME NEW r \in stored
        PROVE  /\ r.device = r.org
               /\ r.device = user'[r.by] \/ r.by \in shared'
               /\ Vouched(r.by, r.device)'
    <3>1. r.by \in Admitted
      BY DEF IInv, StoredByAdmitted
    <3>2. r.device \in Devices
      BY DEF IInv, TypeOK, Rows
    <3>3. /\ r.device = r.org
          /\ r.device = user[r.by] \/ r.by \in shared
          /\ Vouched(r.by, r.device)
      BY DEF IInv, StoredWithItsOrg
    <3> QED BY <1>1, <3>1, <3>2, <3>3
  <2> QED BY <1>2, <2>1, <2>2 DEF StoredWithItsOrg
<1>3. ASSUME \A x \in Conns : pc'[x] = "storing" =>
               /\ pc[x] = "storing"
               /\ info'[x] = info[x] /\ topic'[x] = topic[x]
      PROVE  LoadedIsVouched'
  <2> SUFFICES ASSUME NEW x \in Conns, pc'[x] = "storing"
               PROVE  /\ info'[x] = topic'[x] /\ topic'[x] \in Devices
                      /\ topic'[x] = user'[x] \/ x \in shared'
                      /\ Vouched(x, topic[x])'
    BY <1>3 DEF LoadedIsVouched, Vouched
  <2>1. /\ pc[x] = "storing"
        /\ info'[x] = info[x] /\ topic'[x] = topic[x]
    BY <1>3
  <2>2. x \in Admitted
    BY <2>1 DEF Admitted, Holding
  <2>3. /\ info[x] = topic[x] /\ topic[x] \in Devices
        /\ topic[x] = user[x] \/ x \in shared
        /\ Vouched(x, topic[x])
    BY <2>1 DEF IInv, LoadedIsVouched
  <2> QED BY <1>1, <2>1, <2>2, <2>3 DEF Vouched
<1> QED BY <1>1, <1>2, <1>3

\* A step that moves one connection between two steps at which it does hold,
\* or does not hold, an entry, and that leaves the map and the rows alone.
LEMMA MoveIInv ==
  ASSUME IInv, NEW c \in Conns, NEW to \in Steps,
         pc[c] \notin {"new", "lost", "gone"}, to \notin {"new", "storing"},
         Go(c, to),
         UNCHANGED <<id, user, entry, shared>>,
         \/ c \in Holding <=> to \in {"known", "ready", "acl", "storing",
                                      "leaving", "deleting"}
         \/ to = "lost"
         \/ to = "gone" /\ entry[id[c]] = None,
         told' \subseteq Conns, broker' = broker, device' = device,
         topic' \in [Conns -> Devices \cup {None}],
         info' \in [Conns -> Devices \cup {None}],
         \A x \in Conns \ {c} : info'[x] = info[x] /\ topic'[x] = topic[x],
         stored' \subseteq Rows
  PROVE  /\ stored' = stored => IInv'
         /\ StoredByAdmitted' /\ StoredWithItsOrg' => IInv'
         /\ Admitted \subseteq Admitted'
<1> DEFINE H == {"known", "ready", "acl", "storing", "leaving", "deleting"}
<1>1. /\ pc'[c] = to
      /\ \A x \in Conns \ {c} : pc'[x] = pc[x]
      /\ pc' \in [Conns -> Steps]
  BY DEF Go, IInv, TypeOK
<1>2. TypeOK'
  BY <1>1 DEF IInv, TypeOK
<1>3. Connecting'
  BY <1>1 DEF IInv, Connecting
<1>4. Holding' \subseteq Holding
  BY <1>1 DEF Holding
<1>5. SharersAreMarked'
  BY <1>4 DEF IInv, SharersAreMarked
<1>6. Admitted \subseteq Admitted'
  BY <1>1 DEF Admitted, Holding
<1>7. EntriesHaveOwners'
  <2> SUFFICES ASSUME NEW i \in ClientIds, entry[i] # None
               PROVE  \E x \in Conns : /\ id[x] = i
                                       /\ user[x] = entry[i]
                                       /\ x \in Holding' \/ pc'[x] = "lost"
    BY DEF EntriesHaveOwners, Connected
  <2>1. PICK x \in Conns : /\ id[x] = i
                           /\ user[x] = entry[i]
                           /\ x \in Holding \/ pc[x] = "lost"
    BY DEF IInv, EntriesHaveOwners, Connected
  <2>2. CASE x # c
    BY <1>1, <2>1, <2>2 DEF Holding
  <2>3. CASE x = c
    <3>1. c \in Holding
      BY <2>1, <2>3 DEF Holding
    <3>2. ~(to = "gone" /\ entry[id[c]] = None)
      BY <2>1, <2>3
    <3>3. CASE to = "lost"
      BY <1>1, <2>1, <2>3, <3>3
    <3>4. CASE to \in H
      BY <1>1, <2>1, <2>3, <3>4 DEF Holding
    <3> QED BY <3>1, <3>2, <3>3, <3>4
  <2> QED BY <2>2, <2>3
<1>8. KnownUnlessShared'
  BY <1>4 DEF IInv, KnownUnlessShared
<1>9. /\ LoadedIsVouched'
      /\ stored' = stored => StoredByAdmitted' /\ StoredWithItsOrg'
  <2>1. \A x \in Conns : pc'[x] = "storing" =>
               /\ pc[x] = "storing"
               /\ info'[x] = info[x] /\ topic'[x] = topic[x]
    BY <1>1
  <2>2. \A x \in Admitted : id'[x] = id[x] /\ user'[x] = user[x]
    OBVIOUS
  <2> QED BY <1>6, <2>1, <2>2, WitnessesStay
<1> QED BY <1>2, <1>3, <1>5, <1>6, <1>7, <1>8, <1>9 DEF IInv

\* Done clears what the message has loaded.
LEMMA DoneClears ==
  ASSUME IInv, NEW c \in Conns, NEW step \in {"acl", "storing"}, Done(c, step),
         stored' \subseteq Rows
  PROVE  /\ stored' = stored => IInv'
         /\ StoredByAdmitted' /\ StoredWithItsOrg' => IInv'
         /\ Admitted \subseteq Admitted'
<1>1. /\ topic' \in [Conns -> Devices \cup {None}]
      /\ info' \in [Conns -> Devices \cup {None}]
      /\ \A x \in Conns \ {c} : info'[x] = info[x] /\ topic'[x] = topic[x]
  BY DEF Done, IInv, TypeOK
<1>2. /\ pc[c] \in {"acl", "storing"} /\ Go(c, "ready") /\ "ready" \in Steps
      /\ UNCHANGED <<id, user, entry, shared, broker, device>>
      /\ told' \subseteq Conns
  BY DEF Done, Steps, IInv, TypeOK
<1>3. c \in Holding
  BY <1>2 DEF Holding
<1> QED BY <1>1, <1>2, <1>3, MoveIInv

\* A row gets the device that was loaded for its message.
LEMMA StoreIInv ==
  ASSUME IInv, NEW c \in Conns, Store(c)
  PROVE  IInv'
<1> DEFINE row == [by |-> c, device |-> topic[c], org |-> info[c]]
<1>1. /\ Done(c, "storing") /\ pc[c] = "storing"
      /\ stored' = stored \cup {row}
      /\ UNCHANGED <<id, user, shared>>
  BY DEF Store, Done
<1>2. /\ info[c] = topic[c] /\ topic[c] \in Devices
      /\ topic[c] = user[c] \/ c \in shared
      /\ Vouched(c, topic[c])
  BY <1>1 DEF IInv, LoadedIsVouched
<1>3. row \in Rows /\ stored' \subseteq Rows
  BY <1>1, <1>2 DEF Rows, IInv, TypeOK
<1>4. c \in Admitted
  BY <1>1 DEF Admitted, Holding
<1>5. Admitted \subseteq Admitted'
  BY <1>1, <1>3, DoneClears
<1>6. \A x \in Admitted, d \in Devices : Vouched(x, d) => Vouched(x, d)'
  BY <1>1, <1>5, WitnessesStay
<1>7. ASSUME NEW r \in stored'
      PROVE  /\ r.by \in Admitted'
             /\ r.device = r.org
             /\ r.device = user'[r.by] \/ r.by \in shared'
             /\ Vouched(r.by, r.device)'
  <2>1. CASE r \in stored
    <3>1. r.by \in Admitted /\ r.device \in Devices
      BY <2>1 DEF IInv, StoredByAdmitted, TypeOK, Rows
    <3>2. /\ r.device = r.org
          /\ r.device = user[r.by] \/ r.by \in shared
          /\ Vouched(r.by, r.device)
      BY <2>1 DEF IInv, StoredWithItsOrg
    <3> QED BY <1>1, <1>5, <1>6, <3>1, <3>2
  <2>2. CASE r = row
    <3>1. r.by = c /\ r.device = topic[c] /\ r.org = info[c]
      BY <2>2
    <3> QED BY <1>1, <1>2, <1>4, <1>5, <1>6, <3>1
  <2> QED BY <1>1, <2>1, <2>2
<1>8. StoredByAdmitted' /\ StoredWithItsOrg'
  BY <1>7 DEF StoredByAdmitted, StoredWithItsOrg
<1> QED BY <1>1, <1>3, <1>8, DoneClears

\* The check of the topic keeps the device of the entry for its message.
LEMMA CheckIInv ==
  ASSUME IInv, NEW c \in Conns, NEW d \in Devices, OnACLCheck(c, d)
  PROVE  IInv'
<1>1. /\ topic' \in [Conns -> Devices \cup {None}]
      /\ \A x \in Conns \ {c} : topic'[x] = topic[x]
      /\ "acl" \in Steps
      /\ UNCHANGED <<id, user, entry, shared, broker, device, told, info, stored>>
      /\ info \in [Conns -> Devices \cup {None}]
      /\ told \subseteq Conns /\ stored \subseteq Rows
  BY DEF OnACLCheck, IInv, TypeOK, Steps
<1>2. pc[c] = "ready" /\ Go(c, "acl") /\ c \in Holding
  BY DEF OnACLCheck, Holding
<1> QED BY <1>1, <1>2, MoveIInv

\* The steps that only move a connection.
LEMMA MovesIInv ==
  ASSUME IInv, NEW c \in Conns,
         \/ Refuse(c) \/ Authenticate(c) \/ Establish(c)
         \/ DropMessage(c) \/ StoreFails(c)
         \/ End(c) \/ OnDisconnect(c)
  PROVE  IInv'
<1> USE DEF IInv
<1>1. CASE Refuse(c)
  BY <1>1, MoveIInv DEF Refuse, Holding, TypeOK, Steps
<1>2. CASE Authenticate(c)
  BY <1>2, MoveIInv DEF Authenticate, Holding, TypeOK, Steps
<1>3. CASE Establish(c)
  <2>1. told' \subseteq Conns
    BY <1>3 DEF Establish, Sessions, TypeOK
  <2> QED BY <1>3, <2>1, MoveIInv DEF Establish, Holding, TypeOK, Steps
<1>4. CASE DropMessage(c)
  <2>1. stored' \subseteq Rows
    BY <1>4 DEF DropMessage, TypeOK
  <2> QED BY <1>4, <2>1, DoneClears DEF DropMessage
<1>5. CASE StoreFails(c)
  <2>1. stored' \subseteq Rows
    BY <1>5 DEF StoreFails, TypeOK
  <2> QED BY <1>5, <2>1, DoneClears DEF StoreFails
<1>6. CASE End(c)
  BY <1>6, MoveIInv DEF End, Holding, TypeOK, Steps
<1>7. CASE OnDisconnect(c)
  BY <1>7, MoveIInv DEF OnDisconnect, Holding, TypeOK, Steps
<1> QED BY <1>1, <1>2, <1>3, <1>4, <1>5, <1>6, <1>7

\* CONNECT gives a connection its client id and its device, before it holds
\* anything.
LEMMA ConnectIInv ==
  ASSUME IInv, NEW c \in Conns, NEW i \in ClientIds, NEW d \in Devices,
         Connect(c, i, d)
  PROVE  IInv'
<1> USE DEF IInv, Connect, Go
<1>1. /\ TypeOK'
      /\ pc'[c] = "auth" /\ id'[c] = i /\ user'[c] = d
      /\ \A x \in Conns \ {c} : /\ pc'[x] = pc[x]
                                /\ id'[x] = id[x]
                                /\ user'[x] = user[x]
  BY DEF TypeOK, Steps
<1>2. Holding' = Holding /\ c \notin Holding
  BY <1>1 DEF Holding
<1>3. Connecting'
  BY <1>1 DEF Connecting
<1>4. SharersAreMarked'
  <2> SUFFICES ASSUME NEW a \in Holding, NEW b \in Holding,
                      a # b, id'[a] = id'[b]
               PROVE  a \in shared'
    BY <1>2 DEF SharersAreMarked
  <2>1. a \in Conns \ {c} /\ b \in Conns \ {c}
    BY <1>2 DEF Holding
  <2> QED BY <1>1, <2>1 DEF SharersAreMarked
<1>5. LoadedIsVouched' /\ StoredByAdmitted' /\ StoredWithItsOrg'
  <2>1. Admitted' = Admitted /\ c \notin Admitted
    BY <1>1, <1>2 DEF Admitted
  <2>2. \A x \in Admitted : id'[x] = id[x] /\ user'[x] = user[x]
    BY <1>1, <2>1 DEF Admitted, Holding
  <2>3. \A x \in Conns : pc'[x] = "storing" =>
               /\ pc[x] = "storing"
               /\ info'[x] = info[x] /\ topic'[x] = topic[x]
    BY <1>1
  <2> QED BY <2>1, <2>2, <2>3, WitnessesStay
<1>6. EntriesHaveOwners'
  <2> SUFFICES ASSUME NEW j \in ClientIds, entry[j] # None
               PROVE  \E x \in Conns : /\ id'[x] = j
                                       /\ user'[x] = entry[j]
                                       /\ x \in Holding' \/ pc'[x] = "lost"
    BY DEF EntriesHaveOwners, Connected
  <2>1. PICK x \in Conns : /\ id[x] = j
                           /\ user[x] = entry[j]
                           /\ x \in Holding \/ pc[x] = "lost"
    BY DEF EntriesHaveOwners, Connected
  <2>2. x # c
    BY <1>2, <2>1
  <2> QED BY <1>1, <1>2, <2>1, <2>2
<1>7. KnownUnlessShared'
  <2> SUFFICES ASSUME NEW x \in Holding \ shared
               PROVE  entry[id'[x]] = user'[x]
    BY <1>2 DEF KnownUnlessShared
  <2>1. x \in Conns \ {c}
    BY <1>2 DEF Holding
  <2> QED BY <1>1, <2>1 DEF KnownUnlessShared
<1> QED BY <1>1, <1>3, <1>4, <1>5, <1>6, <1>7

\* devices.Store takes the entry of the client id: whoever held it is marked,
\* and so is the one that stores.
LEMMA StoreEntryIInv ==
  ASSUME IInv, NEW c \in Conns, StoreEntry(c)
  PROVE  IInv'
<1> DEFINE others == {x \in Holding : id[x] = id[c]}
<1> USE DEF IInv
<1>1. id[c] \in ClientIds /\ user[c] \in Devices /\ user[c] # None
  BY MqttAssumption DEF Connecting, StoreEntry
<1>2. /\ pc[c] = "accepted" /\ pc'[c] = "known"
      /\ pc' \in [Conns -> Steps]
      /\ \A x \in Conns \ {c} : pc'[x] = pc[x]
      /\ UNCHANGED <<id, user, told, topic, info, stored, broker, device>>
  BY DEF StoreEntry, Go, TypeOK, Steps
<1>3. /\ entry' \in [ClientIds -> Devices \cup {None}]
      /\ entry'[id[c]] = user[c]
      /\ \A i \in ClientIds \ {id[c]} : entry'[i] = entry[i]
  BY <1>1 DEF StoreEntry, TypeOK
<1>4. Holding' = Holding \cup {c} /\ c \notin Holding
  BY <1>2 DEF Holding
<1>5. /\ shared \subseteq shared'
      /\ others \subseteq shared'
      /\ others # {} => c \in shared'
      /\ shared' \subseteq Conns
  <2>1. shared' = IF others = {} THEN shared ELSE shared \cup others \cup {c}
    BY DEF StoreEntry
  <2>2. others \subseteq Conns /\ shared \subseteq Conns
    BY DEF Holding, TypeOK
  <2> QED BY <2>1, <2>2
<1>6. TypeOK'
  BY <1>2, <1>3, <1>5 DEF TypeOK
<1>7. Connecting'
  BY <1>2 DEF Connecting
<1>8. SharersAreMarked'
  <2> SUFFICES ASSUME NEW a \in Holding \cup {c}, NEW b \in Holding \cup {c},
                      a # b, id[a] = id[b]
               PROVE  a \in shared'
    BY <1>2, <1>4 DEF SharersAreMarked
  <2>1. CASE a = c
    <3>1. b \in others
      BY <2>1
    <3> QED BY <1>5, <2>1, <3>1
  <2>2. CASE b = c
    <3>1. a \in others
      BY <2>2
    <3> QED BY <1>5, <3>1
  <2>3. CASE a # c /\ b # c
    BY <1>5, <2>3 DEF SharersAreMarked
  <2> QED BY <2>1, <2>2, <2>3
<1>9. LoadedIsVouched' /\ StoredByAdmitted' /\ StoredWithItsOrg'
  <2>1. Admitted \subseteq Admitted'
    BY <1>2, <1>4 DEF Admitted
  <2>2. \A x \in Conns : pc'[x] = "storing" =>
               /\ pc[x] = "storing"
               /\ info'[x] = info[x] /\ topic'[x] = topic[x]
    BY <1>2
  <2> QED BY <1>2, <1>5, <2>1, <2>2, WitnessesStay
<1>10. EntriesHaveOwners'
  <2> SUFFICES ASSUME NEW i \in ClientIds, entry'[i] # None
               PROVE  \E x \in Conns : /\ id[x] = i
                                       /\ user[x] = entry'[i]
                                       /\ x \in Holding' \/ pc'[x] = "lost"
    BY <1>2 DEF EntriesHaveOwners, Connected
  <2>1. CASE i = id[c]
    BY <1>3, <1>4, <2>1
  <2>2. CASE i # id[c]
    <3>1. PICK x \in Conns : /\ id[x] = i
                             /\ user[x] = entry[i]
                             /\ x \in Holding \/ pc[x] = "lost"
      BY <1>3, <2>2 DEF EntriesHaveOwners, Connected
    <3>2. x # c
      BY <2>2, <3>1
    <3> QED BY <1>2, <1>3, <1>4, <2>2, <3>1, <3>2
  <2> QED BY <2>1, <2>2
<1>11. KnownUnlessShared'
  <2> SUFFICES ASSUME NEW x \in Holding \cup {c}, x \notin shared'
               PROVE  entry'[id[x]] = user[x]
    BY <1>2, <1>4 DEF KnownUnlessShared
  <2>1. CASE x = c
    BY <1>3, <2>1
  <2>2. CASE x # c
    <3>1. id[x] # id[c]
      BY <1>5, <2>2
    <3>2. id[x] \in ClientIds
      BY <2>2 DEF Connecting, Holding
    <3> QED BY <1>3, <1>5, <2>2, <3>1, <3>2 DEF KnownUnlessShared
  <2> QED BY <2>1, <2>2
<1> QED BY <1>6, <1>7, <1>8, <1>9, <1>10, <1>11

\* OnPublished loads an entry that it has compared with the topic.  Whoever
\* stored it was admitted, and it is the connection's own unless it shares
\* its client id.
LEMMA OnPublishedIInv ==
  ASSUME IInv, NEW c \in Conns, OnPublished(c)
  PROVE  IInv'
<1> USE DEF IInv
<1>1. /\ pc[c] = "acl" /\ pc'[c] = "storing"
      /\ \A x \in Conns \ {c} : pc'[x] = pc[x] /\ info'[x] = info[x]
      /\ info'[c] = entry[id[c]] /\ entry[id[c]] = topic[c] /\ topic[c] # None
      /\ UNCHANGED <<id, user, told, entry, topic, stored, shared, broker, device>>
  BY DEF OnPublished, Go, TypeOK
<1>2. id[c] \in ClientIds /\ entry[id[c]] \in Devices \cup {None}
  BY <1>1 DEF Connecting, TypeOK
<1>3. TypeOK'
  BY <1>2 DEF OnPublished, Go, TypeOK, Steps
<1>4. Holding' = Holding /\ Admitted' = Admitted /\ c \in Holding
  BY <1>1 DEF Holding, Admitted
<1>5. Connecting'
  BY <1>1 DEF Connecting
<1>6. SharersAreMarked' /\ KnownUnlessShared'
  BY <1>1, <1>4 DEF SharersAreMarked, KnownUnlessShared
<1>7. EntriesHaveOwners'
  <2> SUFFICES ASSUME NEW i \in ClientIds, entry[i] # None
               PROVE  \E x \in Conns : /\ id[x] = i
                                       /\ user[x] = entry[i]
                                       /\ x \in Holding \/ pc'[x] = "lost"
    BY <1>1, <1>4 DEF EntriesHaveOwners, Connected
  <2> QED BY <1>1 DEF EntriesHaveOwners, Connected
<1>8. StoredByAdmitted' /\ StoredWithItsOrg'
  BY <1>1, <1>4, WitnessesStay
<1>9. LoadedIsVouched'
  <2>1. ASSUME NEW x \in Conns \ {c}, pc'[x] = "storing"
        PROVE  /\ info'[x] = topic'[x] /\ topic'[x] \in Devices
               /\ topic'[x] = user'[x] \/ x \in shared'
               /\ Vouched(x, topic[x])'
    BY <1>1, <1>4, <2>1 DEF LoadedIsVouched, Vouched
  <2>2. topic[c] \in Devices
    BY <1>1, <1>2
  <2>3. topic[c] = user[c] \/ c \in shared
    BY <1>1, <1>4 DEF KnownUnlessShared
  <2>4. Vouched(c, topic[c])
    <3>1. PICK x \in Conns : /\ id[x] = id[c]
                             /\ user[x] = entry[id[c]]
                             /\ x \in Holding \/ pc[x] = "lost"
      BY <1>1, <1>2, <2>2, MqttAssumption DEF EntriesHaveOwners, Connected
    <3> QED BY <1>1, <3>1 DEF Vouched, Admitted
  <2>5. Vouched(c, topic[c])'
    BY <1>1, <1>4, <2>4 DEF Vouched
  <2> QED BY <1>1, <2>1, <2>2, <2>3, <2>5 DEF LoadedIsVouched, Vouched
<1> QED BY <1>3, <1>5, <1>6, <1>7, <1>8, <1>9

\* OnDisconnect takes the entry from whoever shares the client id, which is
\* why they are marked.
LEMMA DeleteEntryIInv ==
  ASSUME IInv, NEW c \in Conns, DeleteEntry(c)
  PROVE  IInv'
<1> USE DEF IInv
<1>1. /\ pc[c] = "deleting" /\ pc'[c] = "gone"
      /\ pc' \in [Conns -> Steps]
      /\ \A x \in Conns \ {c} : pc'[x] = pc[x]
      /\ UNCHANGED <<id, user, told, topic, info, stored, shared, broker, device>>
  BY DEF DeleteEntry, Go, TypeOK, Steps
<1>2. id[c] \in ClientIds
  BY <1>1 DEF Connecting
<1>3. /\ entry' \in [ClientIds -> Devices \cup {None}]
      /\ entry'[id[c]] = None
      /\ \A i \in ClientIds \ {id[c]} : entry'[i] = entry[i]
  BY <1>2 DEF DeleteEntry, TypeOK
<1>4. Holding' = Holding \ {c} /\ c \in Holding
  BY <1>1 DEF Holding
<1>5. TypeOK'
  BY <1>1, <1>3 DEF TypeOK
<1>6. /\ Connecting'
      /\ LoadedIsVouched' /\ StoredByAdmitted' /\ StoredWithItsOrg'
  <2>1. Admitted \subseteq Admitted'
    BY <1>1, <1>4 DEF Admitted
  <2>2. \A x \in Conns : pc'[x] = "storing" =>
               /\ pc[x] = "storing"
               /\ info'[x] = info[x] /\ topic'[x] = topic[x]
    BY <1>1
  <2>3. Connecting'
    BY <1>1 DEF Connecting
  <2> QED BY <1>1, <2>1, <2>2, <2>3, WitnessesStay
<1>7. SharersAreMarked'
  BY <1>1, <1>4 DEF SharersAreMarked
<1>8. EntriesHaveOwners'
  <2> SUFFICES ASSUME NEW i \in ClientIds, entry'[i] # None
               PROVE  \E x \in Conns : /\ id[x] = i
                                       /\ user[x] = entry'[i]
                                       /\ x \in Holding' \/ pc'[x] = "lost"
    BY <1>1 DEF EntriesHaveOwners, Connected
  <2>1. i # id[c]
    BY <1>3
  <2>2. PICK x \in Conns : /\ id[x] = i
                           /\ user[x] = entry[i]
                           /\ x \in Holding \/ pc[x] = "lost"
    BY <1>3, <2>1 DEF EntriesHaveOwners, Connected
  <2>3. x # c
    BY <2>1, <2>2
  <2> QED BY <1>1, <1>3, <1>4, <2>1, <2>2, <2>3
<1>9. KnownUnlessShared'
  <2> SUFFICES ASSUME NEW x \in Holding \ {c}, x \notin shared
               PROVE  entry'[id[x]] = user[x]
    BY <1>1, <1>4 DEF KnownUnlessShared
  <2>1. id[x] # id[c]
    BY <1>4 DEF SharersAreMarked
  <2>2. id[x] \in ClientIds
    BY DEF Connecting, Holding
  <2> QED BY <1>3, <2>1, <2>2 DEF KnownUnlessShared
<1> QED BY <1>5, <1>6, <1>7, <1>8, <1>9

\* The steps that leave the connections and the map alone.
LEMMA AsideIInv ==
  ASSUME IInv,
         UNCHANGED <<pc, id, user, entry, topic, info, stored, shared>>,
         TypeOK'
  PROVE  IInv'
BY DEF IInv, Connecting, SharersAreMarked, LoadedIsVouched, StoredByAdmitted,
       StoredWithItsOrg, EntriesHaveOwners, KnownUnlessShared, Connected,
       Holding, Admitted, Vouched

LEMMA NextIInv == IInv /\ [Next]_vars => IInv'
<1> SUFFICES ASSUME IInv, [Next]_vars PROVE IInv'
  OBVIOUS
<1>1. CASE Start \/ Stop \/ StopReturns
  <2>1. TypeOK'
    BY <1>1 DEF IInv, TypeOK, Start, Stop, StopReturns, Sessions
  <2> QED BY <1>1, <2>1, AsideIInv DEF Start, Stop, StopReturns
<1>2. ASSUME NEW c \in Conns, Handle(c) PROVE IInv'
  BY <1>2, MovesIInv, ConnectIInv, StoreEntryIInv, CheckIInv, OnPublishedIInv,
     StoreIInv, DeleteEntryIInv DEF Handle
<1>3. ASSUME NEW d \in Devices, DeleteDevice(d) PROVE IInv'
  <2>1. TypeOK'
    BY <1>3 DEF IInv, TypeOK, DeleteDevice
  <2> QED BY <1>3, <2>1, AsideIInv DEF DeleteDevice
<1>4. CASE UNCHANGED vars
  <2>1. TypeOK'
    BY <1>4 DEF IInv, TypeOK, vars
  <2> QED BY <1>4, <2>1, AsideIInv DEF vars
<1> QED BY <1>1, <1>2, <1>3, <1>4 DEF Next
-----------------------------------------------------------------------------
\* IInv is inductive: over every interleaving of the hooks it relates what
\* each connection has done to the shared map of modules/mqtt.
THEOREM IndInvariant == Spec => []IInv
BY InitIInv, NextIInv, PTL DEF Spec

\* Every variable keeps its type: the map devices has ids of devices, and the
\* rows that Store inserts have a device and the org of a device each.
THEOREM TypeCorrect == Spec => []TypeOK
<1>1. IInv => TypeOK
  BY DEF IInv
<1> QED BY <1>1, IndInvariant, PTL

\* A reading that OnPublished stores has the organization of the device it is
\* stored for, whatever other connections do to the map between the check of
\* the topic, the load of the entry and the INSERT.  It is stored for the
\* device its connection was authenticated as, unless the client id is shared:
\* then for one that a client of this id was authenticated as.
THEOREM OwnOrganization == Spec => []StoredWithItsOrg
<1>1. IInv => StoredWithItsOrg
  BY DEF IInv
<1> QED BY <1>1, IndInvariant, PTL

\* What GET /api/v1/mqtt/status counts are connections that were
\* authenticated and that OnDisconnect has yet to see, or never will.
THEOREM CountedAreAuthenticated == Spec => []EntriesHaveOwners
<1>1. IInv => EntriesHaveOwners
  BY DEF IInv
<1> QED BY <1>1, IndInvariant, PTL

\* Only a shared client id can make the hooks forget a session: with ids of
\* their own, all sessions are known from devices.Store to OnDisconnect.
THEOREM OwnIdsAreKnown == Spec => []KnownUnlessShared
<1>1. IInv => KnownUnlessShared
  BY DEF IInv
<1> QED BY <1>1, IndInvariant, PTL
=============================================================================
