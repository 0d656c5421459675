--------------------------- MODULE CommandsProofs ---------------------------
(***************************************************************************)
(* Proofs about module Commands, for any finite set of commands and any    *)
(* sets of devices, organisations and sessions.  IInv is inductive: one    *)
(* lemma per group of actions, and in it one step per conjunct the actions *)
(* can disturb.                                                            *)
(***************************************************************************)
EXTENDS Commands, TLAPS, FiniteSetTheorems

LEMMA ClosedType == Closed \in SessionStates /\ Closed.pc = "closed"
<1>1. (CHOOSE o \in Orgs : TRUE) \in Orgs
  BY IdAssumption
<1> QED BY <1>1 DEF Closed, SessionStates

\* GoTo gives the session a legal state and leaves the others alone.
LEMMA GoToType ==
  ASSUME TypeOK, NEW s \in Sessions, NEW c \in Cmds \union {NoCmd},
         NEW pc \in {"closed", "replay", "poll", "write", "mark"},
         GoTo(s, pc, c)
  PROVE  /\ session' \in [Sessions -> SessionStates]
         /\ session'[s].pc = pc
         /\ session'[s].cmd = c
         /\ \A r \in Sessions \ {s} : session'[r] = session[r]
<1> DEFINE x == session[s]
           y == [x EXCEPT !.pc = pc, !.cmd = c]
<1>1. session \in [Sessions -> SessionStates] /\ x \in SessionStates
  BY DEF TypeOK
<1>2. session' = [session EXCEPT ![s] = y]
  BY <1>1 DEF GoTo
<1> HIDE DEF x
<1>3. y \in SessionStates /\ y.pc = pc /\ y.cmd = c
  BY <1>1 DEF SessionStates
<1> HIDE DEF y
<1> QED BY <1>1, <1>2, <1>3

\* A session whose connection went down is still a session record.
LEMMA DownType ==
  ASSUME NEW x \in SessionStates
  PROVE  /\ [x EXCEPT !.up = FALSE] \in SessionStates
         /\ [x EXCEPT !.up = FALSE].pc = x.pc
         /\ [x EXCEPT !.up = FALSE].cmd = x.cmd
BY DEF SessionStates

LEMMA InitIInv == Init => IInv
<1> SUFFICES ASSUME Init PROVE IInv
  OBVIOUS
<1> USE DEF Init
<1>1. TypeOK
  <2>1. [dev |-> NoDevice, org |-> Closed.org] \in RequestValues
    BY ClosedType DEF RequestValues, SessionStates
  <2> QED BY <2>1, ClosedType DEF TypeOK, RowStatuses, SenderStates
<1>2. SessionHoldsCommand
  BY ClosedType DEF SessionHoldsCommand
<1>3. RowFollowsSender /\ PurgedWithDevice
  BY DEF RowFollowsSender, PurgedWithDevice
<1>4. PendingMapIntegrity
  BY DEF PendingMapIntegrity
<1>5. StampsAreRanks
  <2>1. {b \in Cmds : stamp[b] # 0} = {}
    OBVIOUS
  <2> QED BY <2>1, FS_EmptySet DEF StampsAreRanks
<1>6. RowsInOrder /\ TakenWasServed /\ ServedInOrder
  BY DEF RowsInOrder, TakenWasServed, ServedInOrder
<1> QED BY <1>1, <1>2, <1>3, <1>4, <1>5, <1>6 DEF IInv

OrderParts == StampsAreRanks /\ RowsInOrder /\ TakenWasServed /\ ServedInOrder

\* A step that stamps nothing, takes no row, result or write back, and polls
\* only commands whose earlier ones are served keeps the order.
LEMMA OrderKept ==
  ASSUME IInv, UNCHANGED <<request, stamp, before>>,
         \A c \in Cmds :
           /\ sender'[c] = "idle" => sender[c] = "idle"
           /\ status[c] # "none" => status'[c] # "none"
           /\ status[c] = "purged" => status'[c] = "purged"
           /\ done[c] => done'[c],
         polled \subseteq polled', polled' \subseteq Cmds,
         \A c \in polled' \ polled : status[c] # "none" /\ OthersServed(c),
         TakenWasServed'
  PROVE  /\ OrderParts'
         /\ \A c \in Cmds : OthersServed(c) => OthersServed(c)'
<1> USE DEF IInv
<1>1. StampsAreRanks'
  BY DEF StampsAreRanks
<1>2. RowsInOrder'
  BY DEF RowsInOrder, TypeOK
<1>3. ASSUME NEW c \in Cmds, OthersServed(c) PROVE OthersServed(c)'
  <2>1. before[c] \subseteq Cmds
    BY DEF TypeOK
  <2> QED BY <1>3, <2>1 DEF OthersServed
<1>4. ServedInOrder'
  BY <1>3 DEF ServedInOrder
<1> QED BY <1>1, <1>2, <1>3, <1>4 DEF OrderParts

\* What sessions hold, when they are left alone and the order is kept.
LEMMA HeldKept ==
  ASSUME IInv, UNCHANGED session, polled \subseteq polled',
         \A c \in Cmds : /\ status[c] # "none" => status'[c] # "none"
                         /\ OthersServed(c) => OthersServed(c)'
  PROVE  SessionHoldsCommand'
BY DEF IInv, SessionHoldsCommand

\* A new stamp is larger than all the others, and no poll knows its command.
LEMMA StampStep ==
  ASSUME IInv, NEW c \in Cmds, NEW d \in Devices, NEW o \in Orgs,
         StampCommand(c, d, o)
  PROVE  IInv'
<1> USE DEF IInv, StampCommand, database
<1> DEFINE Stamped == {b \in Cmds : stamp[b] # 0}
<1>1. Cardinality(Stamped) \in Nat /\ IsFiniteSet(Stamped)
  BY IdAssumption, FS_Subset, FS_CardinalityType
<1>2. TypeOK'
  <2>1. request' \in [Cmds -> RequestValues]
    BY DEF RequestValues, TypeOK
  <2>2. before' \in [Cmds -> SUBSET Cmds]
    BY DEF TypeOK
  <2>3. stamp' \in [Cmds -> Nat]
    BY <1>1 DEF TypeOK
  <2> QED BY <2>1, <2>2, <2>3 DEF TypeOK, SenderStates
<1>3. RowFollowsSender' /\ PurgedWithDevice'
  <2>1. request'[c].dev = d
    BY DEF TypeOK
  <2> QED BY <2>1 DEF RowFollowsSender, PurgedWithDevice, TypeOK
<1>4. PendingMapIntegrity'
  BY DEF PendingMapIntegrity, TypeOK
<1>5. status[c] = "none" /\ stamp[c] = 0
  BY DEF RowFollowsSender, StampsAreRanks
<1>6. StampsAreRanks'
  <2>1. {b \in Cmds : stamp'[b] # 0} = Stamped \union {c}
    <3>1. stamp'[c] # 0 /\ \A b \in Cmds \ {c} : stamp'[b] = stamp[b]
      BY <1>1 DEF TypeOK
    <3>2. \A b \in Cmds : stamp'[b] # 0 <=> stamp[b] # 0 \/ b = c
      BY <3>1
    <3> QED BY <3>2, Zenon
  <2>2. Cardinality(Stamped \union {c}) = Cardinality(Stamped) + 1
    BY <1>1, <1>5, FS_AddElement
  <2>3. stamp'[c] = 1 + Cardinality(Stamped)
        /\ \A b \in Cmds \ {c} : stamp'[b] = stamp[b]
    BY DEF TypeOK
  <2>4. \A b \in Cmds : stamp[b] \in Nat /\ stamp[b] <= Cardinality(Stamped)
    BY DEF StampsAreRanks, TypeOK
  <2>5. \A b \in Cmds : stamp'[b] <= Cardinality(Stamped) + 1
    <3> HIDE DEF Stamped
    <3> QED BY <1>1, <2>3, <2>4
  <2>6. \A b \in Cmds : sender'[b] = "idle" => b # c /\ sender[b] = "idle"
    BY DEF TypeOK
  <2>7. \A b \in Cmds : sender'[b] = "idle" => stamp'[b] = 0
    BY <2>3, <2>6 DEF StampsAreRanks
  <2> QED BY <2>1, <2>2, <2>5, <2>7 DEF StampsAreRanks
<1>7. RowsInOrder'
  <2>1. \A b \in before'[c] : b \in Cmds /\ status[b] # "none" /\ b # c
    BY <1>5 DEF TypeOK
  <2>2. \A b \in Cmds : b # c => stamp'[b] = stamp[b]
    BY DEF TypeOK
  <2>3. \A b \in Cmds : stamp[b] \in Nat /\ stamp[b] <= Cardinality(Stamped)
    BY DEF StampsAreRanks, TypeOK
  <2>4. stamp'[c] = 1 + Cardinality(Stamped)
    BY DEF TypeOK
  <2>5. \A b \in before'[c] : stamp'[b] < stamp'[c]
    <3> HIDE DEF Stamped
    <3> QED BY <1>1, <2>1, <2>2, <2>3, <2>4
  <2>6. \A a \in Cmds \ {c} : before'[a] = before[a]
    BY DEF TypeOK
  <2>7. \A a \in Cmds \ {c} : \A b \in before'[a] :
          status[b] # "none" /\ stamp'[b] < stamp'[a]
    <3> SUFFICES ASSUME NEW a \in Cmds \ {c}, NEW b \in before[a]
                 PROVE  status[b] # "none" /\ stamp'[b] < stamp'[a]
      BY <2>6
    <3>1. b \in Cmds /\ status[b] # "none" /\ stamp[b] < stamp[a]
      BY DEF RowsInOrder, TypeOK
    <3> QED BY <1>5, <2>2, <3>1
  <2> QED BY <2>1, <2>5, <2>7 DEF RowsInOrder
<1>8. ASSUME NEW a \in Cmds, status[a] # "none", OthersServed(a)
      PROVE  OthersServed(a)'
  <2>1. a # c /\ before'[a] = before[a] /\ request'[a] = request[a]
    BY <1>5, <1>8 DEF TypeOK
  <2>2. \A b \in before[a] : b # c /\ b \in Cmds
    BY <1>5 DEF RowsInOrder, TypeOK
  <2>3. \A b \in before[a] : request'[b] = request[b]
    BY <2>2 DEF TypeOK
  <2> QED BY <1>8, <2>1, <2>3 DEF OthersServed
<1>9. ServedInOrder' /\ SessionHoldsCommand'
  <2>1. ServedInOrder'
    BY <1>8 DEF ServedInOrder, RowsInOrder, TypeOK
  <2>2. SessionHoldsCommand'
    BY <1>8 DEF SessionHoldsCommand
  <2> QED BY <2>1, <2>2
<1>10. TakenWasServed'
  BY DEF TakenWasServed
<1> QED BY <1>2, <1>3, <1>4, <1>6, <1>7, <1>9, <1>10

\* handleSend after the stamp: the row first, the map entry after it.
LEMMA SendStep ==
  ASSUME IInv, NEW c \in Cmds, Send(c)
  PROVE  IInv'
<1> USE DEF IInv
<1>1. CASE InsertCommand(c)
  <2> USE <1>1 DEF InsertCommand, history
  <2>1. TypeOK'
    BY DEF TypeOK, RowStatuses, Statuses, SenderStates
  <2>2. RowFollowsSender' /\ PurgedWithDevice'
    BY DEF RowFollowsSender, PurgedWithDevice, TypeOK
  <2>3. PendingMapIntegrity'
    BY DEF PendingMapIntegrity, TypeOK
  <2>4. TakenWasServed'
    BY DEF TakenWasServed, TypeOK
  <2>5. status[c] = "none"
    BY DEF RowFollowsSender
  <2>6. OrderParts' /\ \A b \in Cmds : OthersServed(b) => OthersServed(b)'
    BY <2>4, <2>5, OrderKept DEF TypeOK
  <2>7. SessionHoldsCommand'
    BY <2>5, <2>6, HeldKept DEF TypeOK
  <2> QED BY <2>1, <2>2, <2>3, <2>6, <2>7 DEF OrderParts
<1>2. CASE InsertFails(c)
  <2> USE <1>2 DEF InsertFails, database, history
  <2>1. TypeOK'
    BY DEF TypeOK, SenderStates
  <2>2. RowFollowsSender' /\ PendingMapIntegrity' /\ PurgedWithDevice'
    BY DEF RowFollowsSender, PendingMapIntegrity, TypeOK, PurgedWithDevice
  <2>3. TakenWasServed'
    BY DEF TakenWasServed
  <2>4. OrderParts' /\ \A b \in Cmds : OthersServed(b) => OthersServed(b)'
    BY <2>3, OrderKept DEF TypeOK
  <2>5. SessionHoldsCommand'
    BY <2>4, HeldKept
  <2> QED BY <2>1, <2>2, <2>4, <2>5 DEF OrderParts
<1>3. CASE StorePending(c)
  <2> USE <1>3 DEF StorePending, database, history
  <2>1. TypeOK'
    BY DEF TypeOK, SenderStates
  <2>2. RowFollowsSender' /\ PurgedWithDevice'
    BY DEF RowFollowsSender, TypeOK, PurgedWithDevice
  <2>3. PendingMapIntegrity'
    <3>1. request[c].dev \in Devices /\ status[c] # "none"
      BY DEF RowFollowsSender
    <3>2. pending' = [pending EXCEPT ![request[c].dev] = c]
      OBVIOUS
    <3> QED BY <3>1, <3>2 DEF PendingMapIntegrity, TypeOK
  <2>4. TakenWasServed'
    BY DEF TakenWasServed
  <2>5. OrderParts' /\ \A b \in Cmds : OthersServed(b) => OthersServed(b)'
    BY <2>4, OrderKept DEF TypeOK
  <2>6. SessionHoldsCommand'
    BY <2>5, HeldKept
  <2> QED BY <2>1, <2>2, <2>3, <2>5, <2>6 DEF OrderParts
<1> QED BY <1>1, <1>2, <1>3 DEF Send

\* handleResult and deleteDevice: rows change their status, or go with the
\* device.
LEMMA RowStep ==
  ASSUME IInv,
         \/ \E c \in Cmds, st \in Reported : HandleResult(c, st)
         \/ \E d \in Devices : DeleteDevice(d)
  PROVE  IInv'
<1> USE DEF IInv
<1>1. ASSUME NEW c \in Cmds, NEW st \in Reported, HandleResult(c, st)
      PROVE  IInv'
  <2> USE <1>1 DEF HandleResult, history
  <2>1. TypeOK'
    BY DEF TypeOK, RowStatuses, Statuses
  <2>2. st \notin {"none", "purged"} /\ status[c] \notin {"none", "purged"}
    BY IdAssumption DEF HasRow, Statuses
  <2>3. RowFollowsSender'
    BY <2>2 DEF RowFollowsSender, TypeOK
  <2>4. PurgedWithDevice'
    BY <2>2 DEF PurgedWithDevice, TypeOK
  <2>5. PendingMapIntegrity'
    <3>1. \A k \in Keys : pending'[k] # NoCmd => pending'[k] = pending[k]
      BY DEF TypeOK
    <3> QED BY <2>2, <3>1 DEF PendingMapIntegrity, TypeOK
  <2>6. TakenWasServed'
    BY DEF TakenWasServed, TypeOK
  <2>7. OrderParts' /\ \A b \in Cmds : OthersServed(b) => OthersServed(b)'
    BY <2>2, <2>6, OrderKept DEF TypeOK
  <2>8. SessionHoldsCommand'
    BY <2>2, <2>7, HeldKept DEF TypeOK
  <2> QED BY <2>1, <2>3, <2>4, <2>5, <2>7, <2>8 DEF OrderParts
<1>2. ASSUME NEW d \in Devices, DeleteDevice(d) PROVE IInv'
  <2> USE <1>2
  <2>1. PICK on \in FkModes :
          status' = [c \in Cmds |-> IF on /\ c \in RowsOf(d)
                                      THEN "purged" ELSE status[c]]
    BY DEF DeleteDevice
  <2>2. \A c \in Cmds : \/ status'[c] = status[c]
                        \/ /\ status'[c] = "purged"
                           /\ status[c] # "none"
                           /\ request[c].dev = d
    BY <2>1, IdAssumption DEF RowsOf, HasRow, Statuses
  <2>3. UNCHANGED <<done, pending, request, stamp, sender, session, before, polled>>
        /\ registered' = registered \ {d}
    BY DEF DeleteDevice, history
  <2>4. TypeOK'
    BY <2>1, <2>3 DEF TypeOK, RowStatuses
  <2>5. RowFollowsSender' /\ PurgedWithDevice'
    BY <2>2, <2>3 DEF RowFollowsSender, PurgedWithDevice
  <2>6. PendingMapIntegrity'
    BY <2>2, <2>3 DEF PendingMapIntegrity, TypeOK
  <2>7. TakenWasServed'
    BY <2>2, <2>3 DEF TakenWasServed
  <2>8. OrderParts' /\ \A b \in Cmds : OthersServed(b) => OthersServed(b)'
    BY <2>2, <2>3, <2>7, OrderKept DEF TypeOK
  <2>9. SessionHoldsCommand'
    BY <2>2, <2>3, <2>8, HeldKept
  <2> QED BY <2>4, <2>5, <2>6, <2>8, <2>9 DEF OrderParts
<1> QED BY <1>1, <1>2

\* A change of sessions that leaves rows, senders and the map alone, and may
\* have written commands whose earlier ones are served.
LEMMA SessionOnly ==
  ASSUME IInv, session' \in [Sessions -> SessionStates],
         UNCHANGED <<database, pending, request, stamp, sender, before>>,
         polled \subseteq polled', polled' \subseteq Cmds,
         \A c \in polled' \ polled : status[c] # "none" /\ OthersServed(c)
  PROVE  /\ TypeOK' /\ RowFollowsSender' /\ PurgedWithDevice'
         /\ PendingMapIntegrity' /\ OrderParts'
         /\ \A c \in Cmds : OthersServed(c) => OthersServed(c)'
<1> USE DEF IInv, database
<1>1. TypeOK'
  BY DEF TypeOK
<1>2. RowFollowsSender' /\ PurgedWithDevice'
  BY DEF RowFollowsSender, PurgedWithDevice
<1>3. PendingMapIntegrity'
  BY DEF PendingMapIntegrity
<1>4. TakenWasServed'
  BY DEF TakenWasServed
<1>5. OrderParts' /\ \A c \in Cmds : OthersServed(c) => OthersServed(c)'
  BY <1>4, OrderKept
<1> QED BY <1>1, <1>2, <1>3, <1>5

\* When one session moves on, only what it holds then is to be looked at.
LEMMA OneSession ==
  ASSUME IInv, NEW s \in Sessions, NEW c,
         session'[s].cmd = c,
         \A r \in Sessions \ {s} : session'[r] = session[r],
         UNCHANGED status, polled \subseteq polled',
         \A b \in Cmds : OthersServed(b) => OthersServed(b)',
         session'[s].pc \in {"write", "mark"} =>
           c \in Cmds /\ status[c] # "none" /\ OthersServed(c),
         session'[s].pc = "mark" => c \in polled'
  PROVE  SessionHoldsCommand'
<1> DEFINE Held(r, b) == b \in Cmds /\ status'[b] # "none" /\ OthersServed(b)'
<1>1. ASSUME NEW r \in Sessions, r # s
      PROVE  /\ session'[r].pc \in {"write", "mark"} => Held(r, session[r].cmd)
             /\ session'[r].pc = "mark" => session[r].cmd \in polled'
             /\ session'[r].cmd = session[r].cmd
  BY <1>1 DEF IInv, SessionHoldsCommand
<1>2. session'[s].pc \in {"write", "mark"} => Held(s, c)
  OBVIOUS
<1> QED BY <1>1, <1>2 DEF SessionHoldsCommand

\* handleWS: the mark comes after the write of the same command.
LEMMA SessionStep ==
  ASSUME IInv, NEW s \in Sessions,
         \/ \E d \in Devices \union {NoDevice}, o \in Orgs : Upgrade(s, d, o)
         \/ Serve(s)
  PROVE  IInv'
<1> USE DEF IInv
<1>1. CASE \E d \in Devices \union {NoDevice}, o \in Orgs : Upgrade(s, d, o)
  <2>1. PICK d \in Devices \union {NoDevice}, o \in Orgs : Upgrade(s, d, o)
    BY <1>1
  <2> USE <2>1 DEF Upgrade, database, history
  <2>2. session' \in [Sessions -> SessionStates]
    BY DEF TypeOK, SessionStates, Keys
  <2>3. /\ TypeOK' /\ RowFollowsSender' /\ PurgedWithDevice'
        /\ PendingMapIntegrity' /\ OrderParts'
        /\ \A c \in Cmds : OthersServed(c) => OthersServed(c)'
    BY <2>2, SessionOnly DEF TypeOK
  <2>4. /\ session'[s].pc = "replay"
        /\ \A r \in Sessions \ {s} : session'[r] = session[r]
    BY DEF TypeOK
  <2>5. SessionHoldsCommand'
    BY <2>3, <2>4, OneSession
  <2> QED BY <2>3, <2>5 DEF OrderParts
<1>2. ASSUME NEW k \in Keys, ReplayKey(s, k) PROVE IInv'
  <2> USE <1>2 DEF ReplayKey, database, history
  <2>1. session' \in [Sessions -> SessionStates]
    BY DEF TypeOK, SessionStates
  <2>2. /\ TypeOK' /\ RowFollowsSender' /\ PurgedWithDevice'
        /\ PendingMapIntegrity' /\ OrderParts'
        /\ \A c \in Cmds : OthersServed(c) => OthersServed(c)'
    BY <2>1, SessionOnly DEF TypeOK
  <2>3. /\ session'[s].pc = "replay"
        /\ \A r \in Sessions \ {s} : session'[r] = session[r]
    BY DEF TypeOK, SessionStates
  <2>4. SessionHoldsCommand'
    BY <2>2, <2>3, OneSession
  <2> QED BY <2>2, <2>4 DEF OrderParts
<1>3. CASE StartPolling(s) \/ MarkFails(s)
  <2>1. /\ GoTo(s, "poll", NoCmd)
        /\ UNCHANGED <<database, pending, request, stamp, sender, before, polled>>
    BY <1>3 DEF StartPolling, MarkFails, history
  <2>2. /\ session' \in [Sessions -> SessionStates]
        /\ session'[s].pc = "poll"
        /\ \A r \in Sessions \ {s} : session'[r] = session[r]
    BY <2>1, GoToType
  <2>3. /\ TypeOK' /\ RowFollowsSender' /\ PurgedWithDevice'
        /\ PendingMapIntegrity' /\ OrderParts'
        /\ \A c \in Cmds : OthersServed(c) => OthersServed(c)'
    BY <2>1, <2>2, SessionOnly DEF TypeOK
  <2>4. SessionHoldsCommand'
    BY <2>1, <2>2, <2>3, OneSession DEF database
  <2> QED BY <2>3, <2>4 DEF OrderParts
<1>4. CASE PollOldest(s)
  <2>1. PICK c \in Oldest(PendingRows(session[s].dev, session[s].org)) :
          GoTo(s, "write", c)
    BY <1>4 DEF PollOldest
  <2>2. UNCHANGED <<database, pending, request, stamp, sender, before, polled>>
    BY <1>4 DEF PollOldest, history
  <2>3. c \in Cmds /\ status[c] = "pending"
    BY <2>1 DEF Oldest, PendingRows
  <2>4. OthersServed(c)
    <3> SUFFICES ASSUME NEW b \in before[c], request[b] = request[c]
                 PROVE  b \in polled \/ done[b] \/ status[b] = "purged"
      BY DEF OthersServed
    <3>1. b \in Cmds /\ status[b] # "none" /\ stamp[b] < stamp[c]
      BY <2>3 DEF RowsInOrder, TypeOK
    <3>2. stamp[b] \in Nat /\ stamp[c] \in Nat
      BY <2>3, <3>1 DEF TypeOK
    <3>3. status[b] # "pending"
      <4>1. SUFFICES ASSUME status[b] = "pending" PROVE FALSE
        OBVIOUS
      <4>2. stamp[c] <= stamp[b]
        BY <2>1, <3>1, <4>1 DEF Oldest, PendingRows
      <4> QED BY <3>1, <3>2, <4>2
    <3> QED BY <3>1, <3>3 DEF TakenWasServed
  <2>5. /\ session' \in [Sessions -> SessionStates]
        /\ session'[s].cmd = c /\ session'[s].pc = "write"
        /\ \A r \in Sessions \ {s} : session'[r] = session[r]
    BY <2>1, <2>3, GoToType
  <2>6. /\ TypeOK' /\ RowFollowsSender' /\ PurgedWithDevice'
        /\ PendingMapIntegrity' /\ OrderParts'
        /\ \A b \in Cmds : OthersServed(b) => OthersServed(b)'
    BY <2>2, <2>5, SessionOnly DEF TypeOK
  <2>7. SessionHoldsCommand'
    BY <2>2, <2>3, <2>4, <2>5, <2>6, OneSession DEF database
  <2> QED BY <2>6, <2>7 DEF OrderParts
<1>5. CASE WriteCommand(s)
  <2> DEFINE c == session[s].cmd
  <2>1. c \in Cmds /\ status[c] # "none" /\ OthersServed(c)
    BY <1>5 DEF WriteCommand, SessionHoldsCommand
  <2>2. /\ GoTo(s, "mark", c)
        /\ polled' = polled \union {c}
        /\ UNCHANGED <<database, pending, request, stamp, sender, before>>
    BY <1>5 DEF WriteCommand
  <2> HIDE DEF c
  <2>3. /\ session' \in [Sessions -> SessionStates]
        /\ session'[s].cmd = c /\ session'[s].pc = "mark"
        /\ \A r \in Sessions \ {s} : session'[r] = session[r]
    BY <2>1, <2>2, GoToType
  <2>4. /\ TypeOK' /\ RowFollowsSender' /\ PurgedWithDevice'
        /\ PendingMapIntegrity' /\ OrderParts'
        /\ \A b \in Cmds : OthersServed(b) => OthersServed(b)'
    BY <2>1, <2>2, <2>3, SessionOnly DEF TypeOK
  <2>5. SessionHoldsCommand'
    BY <2>1, <2>2, <2>3, <2>4, OneSession DEF database
  <2> QED BY <2>4, <2>5 DEF OrderParts
<1>6. CASE MarkDelivered(s)
  <2> DEFINE c == session[s].cmd
  <2>1. c \in Cmds /\ c \in polled
    BY <1>6 DEF MarkDelivered, SessionHoldsCommand
  <2>2. /\ GoTo(s, "poll", NoCmd)
        /\ status' = [status EXCEPT ![c] = IF HasRow(c) THEN "delivered" ELSE @]
        /\ UNCHANGED <<registered, done, pending, request, stamp, sender,
                       before, polled>>
    BY <1>6 DEF MarkDelivered, history
  <2> HIDE DEF c
  <2>3. /\ session' \in [Sessions -> SessionStates]
        /\ session'[s].pc = "poll"
        /\ \A r \in Sessions \ {s} : session'[r] = session[r]
    BY <2>2, GoToType
  <2>4. TypeOK'
    BY <2>1, <2>2, <2>3 DEF TypeOK, RowStatuses, Statuses
  <2>5. \A b \in Cmds : \/ status'[b] = status[b]
                        \/ /\ status'[b] = "delivered"
                           /\ status[b] \notin {"none", "purged"}
                           /\ b \in polled
    BY <2>1, <2>2, IdAssumption DEF TypeOK, HasRow, Statuses
  <2>6. RowFollowsSender' /\ PurgedWithDevice'
    BY <2>2, <2>5 DEF RowFollowsSender, PurgedWithDevice
  <2>7. PendingMapIntegrity'
    BY <2>2, <2>5 DEF PendingMapIntegrity, TypeOK
  <2>8. TakenWasServed'
    BY <2>2, <2>5 DEF TakenWasServed
  <2>9. OrderParts' /\ \A b \in Cmds : OthersServed(b) => OthersServed(b)'
    BY <2>2, <2>5, <2>8, OrderKept DEF TypeOK
  <2>10. SessionHoldsCommand'
    <3>1. ASSUME NEW r \in Sessions, session'[r].pc \in {"write", "mark"}
          PROVE  r # s /\ session'[r] = session[r]
      BY <2>3, <3>1
    <3> QED BY <2>2, <2>5, <2>9, <3>1 DEF SessionHoldsCommand
  <2> QED BY <2>4, <2>6, <2>7, <2>9, <2>10 DEF OrderParts
<1>7. CASE Leave(s) \/ HangUp(s)
  <2>1. UNCHANGED <<database, pending, request, stamp, sender, before, polled>>
    BY <1>7 DEF Leave, HangUp, history
  <2>2. /\ session' \in [Sessions -> SessionStates]
        /\ \A r \in Sessions : session'[r].pc \in {"write", "mark"} =>
             session'[r].pc = session[r].pc /\ session'[r].cmd = session[r].cmd
    <3>1. CASE Leave(s)
      BY <3>1, ClosedType DEF Leave, TypeOK
    <3>2. CASE HangUp(s)
      <4> DEFINE down == [session[s] EXCEPT !.up = FALSE]
      <4>0. session \in [Sessions -> SessionStates]
        BY DEF TypeOK
      <4>1. session' = [session EXCEPT ![s] = down]
        BY <3>2 DEF HangUp
      <4>a. /\ down \in SessionStates
            /\ down.pc = session[s].pc /\ down.cmd = session[s].cmd
        BY <4>0, DownType
      <4> HIDE DEF down
      <4> QED BY <4>0, <4>1, <4>a
    <3> QED BY <1>7, <3>1, <3>2
  <2>3. /\ TypeOK' /\ RowFollowsSender' /\ PurgedWithDevice'
        /\ PendingMapIntegrity' /\ OrderParts'
        /\ \A b \in Cmds : OthersServed(b) => OthersServed(b)'
    BY <2>1, <2>2, SessionOnly DEF TypeOK
  <2>4. SessionHoldsCommand'
    BY <2>1, <2>2, <2>3 DEF SessionHoldsCommand, database
  <2> QED BY <2>3, <2>4 DEF OrderParts
<1> QED BY <1>1, <1>2, <1>3, <1>4, <1>5, <1>6, <1>7 DEF Serve

LEMMA CrashStep == IInv /\ Crash => IInv'
<1> SUFFICES ASSUME IInv, Crash PROVE IInv'
  OBVIOUS
<1> USE DEF IInv, Crash, database, history
<1>1. TypeOK'
  BY ClosedType DEF TypeOK, SenderStates
<1>2. SessionHoldsCommand'
  BY ClosedType DEF SessionHoldsCommand
<1>3. RowFollowsSender' /\ PurgedWithDevice'
  BY DEF RowFollowsSender, PurgedWithDevice, TypeOK, SenderStates
<1>4. PendingMapIntegrity'
  BY DEF PendingMapIntegrity
<1>5. TakenWasServed'
  BY DEF TakenWasServed
<1>6. OrderParts'
  <2>1. \A c \in Cmds : sender'[c] = "idle" => sender[c] = "idle"
    BY DEF TypeOK
  <2> QED BY <1>5, <2>1, OrderKept DEF TypeOK
<1> QED BY <1>1, <1>2, <1>3, <1>4, <1>6 DEF OrderParts

LEMMA NextIInv == IInv /\ [Next]_vars => IInv'
<1> SUFFICES ASSUME IInv, [Next]_vars PROVE IInv'
  OBVIOUS
<1>1. CASE UNCHANGED vars
  BY <1>1 DEF vars, database, history, IInv, TypeOK, SessionHoldsCommand,
     RowFollowsSender, PurgedWithDevice, PendingMapIntegrity,
     StampsAreRanks, RowsInOrder, TakenWasServed, ServedInOrder, OthersServed
<1>2. CASE Next
  BY <1>2, StampStep, SendStep, RowStep, SessionStep, CrashStep DEF Next
<1> QED BY <1>1, <1>2

\* The strengthened invariant holds whatever handler, session or crash comes
\* next; a session that is about to write or mark holds a command.
THEOREM IndInvariant == Spec => []IInv
BY InitIInv, NextIInv, PTL DEF Spec

\* Rows, map, senders and sessions keep their types, over failing statements,
\* deletions of devices and crashes.
THEOREM TypeCorrect == Spec => []TypeOK
<1>1. IInv => TypeOK
  BY DEF IInv
<1> QED BY IndInvariant, <1>1, PTL

\* The replay map holds stored commands of the device they are filed under.
THEOREM MapIntegrity == Spec => []PendingMapIntegrity
<1>1. IInv => PendingMapIntegrity
  BY DEF IInv
<1> QED BY IndInvariant, <1>1, PTL

\* As long as no result is reported, a row says 'delivered' only after a poll
\* has written that command.
THEOREM DeliveredAfterWrite == Spec => []DeliveredWasWritten
<1>1. IInv => DeliveredWasWritten
  BY DEF IInv, DeliveredWasWritten, TakenWasServed
<1> QED BY IndInvariant, <1>1, PTL

\* A poll writes a command only when those of its device that were there before
\* it have been written, resolved or deleted, for any number of sessions.
THEOREM NoOvertaking == Spec => []ServedInOrder
<1>1. IInv => ServedInOrder
  BY DEF IInv
<1> QED BY IndInvariant, <1>1, PTL

\* A command answered with 201 keeps its row until its device is deleted.
THEOREM AckedKept == Spec => []NoAckedCommandLost
<1>1. IInv => NoAckedCommandLost
  BY DEF IInv, NoAckedCommandLost, RowFollowsSender, PurgedWithDevice, TypeOK,
         HasRow, RowStatuses
<1> QED BY IndInvariant, <1>1, PTL

(***************************************************************************)
(* Refinement: the phase of a command moves only as the ledger allows.     *)
(***************************************************************************)
LEMMA QuietStep ==
  ASSUME UNCHANGED <<status, done>>
  PROVE  UNCHANGED ledgerPhase
BY DEF ledgerPhase, PhaseOf, HasRow

\* When the row of one command changes, the phases of the others stay.
LEMMA OneRowStep ==
  ASSUME TypeOK, NEW c \in Cmds, NEW p,
         \A b \in Cmds \ {c} : status'[b] = status[b] /\ done'[b] = done[b],
         PhaseOf(c)' = p
  PROVE  ledgerPhase' = [ledgerPhase EXCEPT ![c] = p]
<1>1. \A b \in Cmds \ {c} : PhaseOf(b)' = PhaseOf(b)
  BY DEF PhaseOf, HasRow
<1> QED BY <1>1 DEF ledgerPhase

LEMMA StepRefines ==
  ASSUME IInv, [Next]_vars
  PROVE  Ledger!LedgerNext \/ UNCHANGED ledgerPhase
<1> USE DEF IInv
<1>1. ASSUME NEW c \in Cmds, InsertCommand(c)
      PROVE  Ledger!Accept(c)
  <2>1. status[c] = "none" /\ ~done[c] /\ UNCHANGED done
    BY <1>1 DEF InsertCommand, RowFollowsSender
  <2>2. status' = [status EXCEPT ![c] = "pending"]
    BY <1>1 DEF InsertCommand
  <2>3. PhaseOf(c) = "absent"
    BY <2>1, IdAssumption DEF PhaseOf, HasRow, Statuses
  <2>4. PhaseOf(c)' = "pending"
    BY <2>1, <2>2 DEF PhaseOf, HasRow, Statuses, TypeOK
  <2>5. ledgerPhase' = [ledgerPhase EXCEPT ![c] = "pending"]
    BY <2>1, <2>2, <2>4, OneRowStep DEF TypeOK
  <2> QED BY <2>3, <2>5 DEF Ledger!Accept, ledgerPhase
<1>2. ASSUME NEW c \in Cmds, NEW st \in Reported, HandleResult(c, st)
      PROVE  Ledger!Resolve(c) \/ UNCHANGED ledgerPhase
  <2>1. /\ HasRow(c)
        /\ status' = [status EXCEPT ![c] = st]
        /\ done' = [done EXCEPT ![c] = TRUE]
    BY <1>2 DEF HandleResult
  <2>2. PhaseOf(c)' = "resolved"
    BY <2>1, IdAssumption DEF PhaseOf, HasRow, Statuses, TypeOK
  <2>3. ledgerPhase' = [ledgerPhase EXCEPT ![c] = "resolved"]
    BY <2>1, <2>2, OneRowStep DEF TypeOK
  <2>4. PhaseOf(c) \in {"pending", "delivered", "resolved"}
    BY <2>1, IdAssumption DEF PhaseOf, HasRow, Statuses, TypeOK
  <2> QED BY <2>3, <2>4 DEF Ledger!Resolve, ledgerPhase
<1>3. ASSUME NEW d \in Devices, DeleteDevice(d)
      PROVE  \E gone \in SUBSET Cmds : Ledger!Purge(gone)
  <2>1. PICK on \in FkModes :
          status' = [c \in Cmds |-> IF on /\ c \in RowsOf(d)
                                      THEN "purged" ELSE status[c]]
    BY <1>3 DEF DeleteDevice
  <2> DEFINE gone == {c \in Cmds : on /\ c \in RowsOf(d)}
  <2>2. UNCHANGED done
    BY <1>3 DEF DeleteDevice
  <2>3. \A c \in gone : PhaseOf(c) # "absent" /\ PhaseOf(c)' = "purged"
    BY <2>1, IdAssumption DEF PhaseOf, RowsOf, HasRow, Statuses, TypeOK
  <2>4. \A c \in Cmds \ gone : PhaseOf(c)' = PhaseOf(c)
    BY <2>1, <2>2 DEF PhaseOf, HasRow
  <2>5. Ledger!Purge(gone)
    BY <2>3, <2>4 DEF Ledger!Purge, ledgerPhase
  <2> QED BY <2>5
<1>4. ASSUME NEW s \in Sessions, MarkDelivered(s)
      PROVE  \/ \E c \in Cmds : Ledger!Deliver(c)
             \/ UNCHANGED ledgerPhase
  <2>1. PICK c \in Cmds :
          /\ status' = [status EXCEPT ![c] =
                          IF HasRow(c) THEN "delivered" ELSE @]
          /\ UNCHANGED done
    BY <1>4 DEF MarkDelivered, SessionHoldsCommand
  <2>2. CASE HasRow(c) /\ ~done[c] /\ status[c] # "delivered"
    <3>1. PhaseOf(c) = "pending"
      BY <2>2, IdAssumption DEF PhaseOf, HasRow, Statuses
    <3>2. PhaseOf(c)' = "delivered"
      BY <2>1, <2>2 DEF PhaseOf, HasRow, Statuses, TypeOK
    <3>3. ledgerPhase' = [ledgerPhase EXCEPT ![c] = "delivered"]
      BY <2>1, <3>2, OneRowStep DEF TypeOK
    <3> QED BY <3>1, <3>3 DEF Ledger!Deliver, ledgerPhase
  <2>3. CASE HasRow(c) /\ done[c]
    <3>1. PhaseOf(c) = "resolved" /\ PhaseOf(c)' = "resolved"
      BY <2>1, <2>3, IdAssumption DEF PhaseOf, HasRow, Statuses, TypeOK
    <3>2. ledgerPhase' = [ledgerPhase EXCEPT ![c] = "resolved"]
      BY <2>1, <3>1, OneRowStep DEF TypeOK
    <3> QED BY <3>1, <3>2 DEF ledgerPhase
  <2>4. CASE ~HasRow(c) \/ status[c] = "delivered"
    <3>1. status' = status
      BY <2>1, <2>4 DEF TypeOK
    <3> QED BY <2>1, <3>1, QuietStep
  <2> QED BY <2>2, <2>3, <2>4
<1>5. ASSUME \/ UNCHANGED vars
             \/ \E c \in Cmds, d \in Devices, o \in Orgs : StampCommand(c, d, o)
             \/ \E c \in Cmds : InsertFails(c) \/ StorePending(c)
             \/ \E s \in Sessions, d \in Devices \union {NoDevice}, o \in Orgs :
                  Upgrade(s, d, o)
             \/ \E s \in Sessions :
                  \/ \E k \in Keys : ReplayKey(s, k)
                  \/ StartPolling(s) \/ PollOldest(s) \/ WriteCommand(s)
                  \/ MarkFails(s) \/ Leave(s) \/ HangUp(s)
             \/ Crash
      PROVE  UNCHANGED ledgerPhase
  <2>1. UNCHANGED <<status, done>>
    BY <1>5 DEF vars, database, history, StampCommand, InsertFails, StorePending,
       Upgrade, ReplayKey, StartPolling, PollOldest, WriteCommand, MarkFails,
       Leave, HangUp, Crash
  <2> QED BY <2>1, QuietStep
<1>6. ASSUME \/ \E c \in Cmds : InsertCommand(c)
             \/ \E c \in Cmds, st \in Reported : HandleResult(c, st)
             \/ \E d \in Devices : DeleteDevice(d)
             \/ \E s \in Sessions : MarkDelivered(s)
      PROVE  Ledger!LedgerNext \/ UNCHANGED ledgerPhase
  BY <1>6, <1>1, <1>2, <1>3, <1>4, Zenon DEF Ledger!LedgerNext
<1>7. CASE \E c \in Cmds : Send(c)
  BY <1>5, <1>6, <1>7, Zenon DEF Send
<1>8. CASE \E s \in Sessions : Serve(s)
  BY <1>5, <1>6, <1>8, Zenon DEF Serve
<1> QED BY <1>5, <1>6, <1>7, <1>8, Zenon DEF Next

\* Handlers, sessions and crashes implement the ledger: a command is accepted
\* once and its phase never goes back.
THEOREM Refinement == Spec => LedgerRefined
<1>1. Init => Ledger!LedgerInit
  <2>1. "none" \notin Statuses
    BY IdAssumption DEF Statuses
  <2> QED BY <2>1 DEF Init, Ledger!LedgerInit, ledgerPhase, PhaseOf, HasRow
<1>2. IInv /\ [Next]_vars => [Ledger!LedgerNext]_ledgerPhase
  BY StepRefines
<1> QED
  BY <1>1, <1>2, IndInvariant, PTL DEF Spec, LedgerRefined, Ledger!LedgerSpec

\* What the ledger allows, it never takes back.
LEMMA LedgerStepIsOnward ==
  ASSUME Ledger!LedgerNext, NEW c \in Cmds
  PROVE  Ledger!Onward(c)
<1>1. \A b \in Cmds : \A p :
        ledgerPhase' = [ledgerPhase EXCEPT ![b] = p] =>
          ledgerPhase'[c] = IF c = b THEN p ELSE ledgerPhase[c]
  BY DEF ledgerPhase
<1>2. ASSUME NEW b \in Cmds,
             Ledger!Accept(b) \/ Ledger!Deliver(b) \/ Ledger!Resolve(b)
      PROVE  Ledger!Onward(c)
  BY <1>1, <1>2
     DEF Ledger!Accept, Ledger!Deliver, Ledger!Resolve, Ledger!Onward
<1>3. ASSUME NEW gone \in SUBSET Cmds, Ledger!Purge(gone)
      PROVE  Ledger!Onward(c)
  <2>1. ledgerPhase'[c] = IF c \in gone THEN "purged" ELSE ledgerPhase[c]
    BY <1>3 DEF Ledger!Purge
  <2> QED BY <2>1, <1>3 DEF Ledger!Purge, Ledger!Onward
<1> QED BY <1>2, <1>3 DEF Ledger!LedgerNext

\* A command that is resolved is never pending or delivered again, and one that
\* was stored is not forgotten, however marks, results, deletions and crashes
\* meet: the ledger says so, and the service implements it.
THEOREM CommandsNeverGoBack == Spec => Ledger!NeverBack
<1>1. [Ledger!LedgerNext]_ledgerPhase =>
        [\A c \in Cmds : Ledger!Onward(c)]_ledgerPhase
  BY LedgerStepIsOnward
<1> QED BY <1>1, Refinement, PTL
           DEF LedgerRefined, Ledger!LedgerSpec, Ledger!NeverBack
=============================================================================
