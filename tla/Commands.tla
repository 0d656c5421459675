------------------------------ MODULE Commands ------------------------------
(***************************************************************************)
(* modules/commands: downlink commands.  A command lives in two places: a  *)
(* row of table commands, and an entry of the in-memory map `pending`,     *)
(* which a device's WebSocket session replays when it connects.  Each      *)
(* handler touches both, in separate steps, while other handlers, other    *)
(* sessions and the deletion of the device run between them.               *)
(*                                                                         *)
(* SQLite statements are atomic; any Exec or Query may fail (SQLITE_BUSY   *)
(* on a connection without busy_timeout), and a statement may run on a     *)
(* connection where foreign_keys is off: internal/db runs its PRAGMAs on   *)
(* one connection of the pool only.  A crash of the process clears the map *)
(* and the sessions, never the rows.                                       *)
(***************************************************************************)
EXTENDS Naturals, FiniteSets

CONSTANTS
  Cmds,       \* command ids, drawn at random by generateCmdID: never reused
  Devices,    \* ids of devices
  Orgs,       \* values of the X-Org-ID header
  Sessions,   \* WebSocket sessions of GET /api/v1/ws/commands
  NoCmd,      \* sync.Map's "no value for this key"
  NoDevice,   \* the session's device_id parameter is absent
  Reported,   \* statuses of PUT .../result: any string a client sends, also
              \* "pending" and "delivered"; none sent stands for "completed"
  FkModes     \* values of PRAGMA foreign_keys on the connections of the pool

Keys == Devices \union Cmds        \* keys handlers use on the pending map

ASSUME IdAssumption ==
  /\ IsFiniteSet(Cmds)
  /\ Devices \intersect Cmds = {}  \* prefixes dev_ and cmd_
  /\ NoCmd \notin Cmds
  /\ Orgs # {}
  /\ NoDevice \notin Devices
  /\ Reported \intersect {"none", "purged"} = {}   \* not values of the column
  /\ FkModes \in (SUBSET BOOLEAN) \ {{}}

VARIABLES
  \* database
  registered, \* devices that have a row in table devices
  status,     \* column commands.status; "none" before the INSERT and
              \* "purged" once ON DELETE CASCADE removed the row
  done,       \* column commands.completed_at is set
  \* memory of the process
  pending,    \* Module.pending, a sync.Map from keys to Command values
  request,    \* the Command value handleSend built for an id, with the org
  stamp,      \* its CreatedAt, as the rank among all the stamps; 0 before
  sender,     \* where the handleSend call of a command is
  session,    \* the handleWS calls
  \* history
  before,     \* the commands that had a row when a command was stamped
  polled      \* commands that a poll has written (WriteMessage)

database == <<registered, status, done>>
history == <<before, polled>>
vars == <<database, pending, request, stamp, sender, session, history>>

Statuses == {"pending", "delivered"} \union Reported
RowStatuses == Statuses \union {"none", "purged"}

Closed == [pc |-> "closed", dev |-> NoDevice, org |-> CHOOSE o \in Orgs : TRUE,
           up |-> FALSE, todo |-> {}, cmd |-> NoCmd]

HasRow(c) == status[c] \in Statuses

(***************************************************************************)
(* POST /api/v1/devices/{id}/commands: stamp, INSERT, Store.               *)
(***************************************************************************)
StampCommand(c, d, o) ==
  /\ sender[c] = "idle"
  /\ sender' = [sender EXCEPT ![c] = "stamped"]
  /\ request' = [request EXCEPT ![c] = [dev |-> d, org |-> o]]
  /\ stamp' = [stamp EXCEPT ![c] =
                 1 + Cardinality({b \in Cmds : stamp[b] # 0})]
  /\ before' = [before EXCEPT ![c] = {b \in Cmds : status[b] # "none"}]
  /\ UNCHANGED <<database, pending, session, polled>>

\* With foreign keys enforced the row needs its device; without, it does not.
InsertCommand(c) ==
  /\ sender[c] = "stamped"
  /\ \E foreignKeys \in FkModes : foreignKeys => request[c].dev \in registered
  /\ sender' = [sender EXCEPT ![c] = "stored"]
  /\ status' = [status EXCEPT ![c] = "pending"]
  /\ UNCHANGED <<registered, done, pending, request, stamp, session, history>>

\* Mutant: the Store comes before the INSERT's error is looked at.
MutInsertFailsStores(c) ==
  /\ sender[c] = "stamped"
  /\ sender' = [sender EXCEPT ![c] = "failed"]
  /\ pending' = [pending EXCEPT ![request[c].dev] = c]
  /\ UNCHANGED <<database, request, stamp, session, history>>

\* Mutant: the INSERT's error is ignored.
MutInsertFailsAcks(c) ==
  /\ sender[c] = "stamped"
  /\ sender' = [sender EXCEPT ![c] = "stored"]
  /\ UNCHANGED <<database, pending, request, stamp, session, history>>

InsertFails(c) ==                  \* busy, or the foreign key: 500
  /\ sender[c] = "stamped"
  /\ sender' = [sender EXCEPT ![c] = "failed"]
  /\ UNCHANGED <<database, pending, request, stamp, session, history>>

StorePending(c) ==                 \* and the 201 response
  /\ sender[c] = "stored"
  /\ pending' = [pending EXCEPT ![request[c].dev] = c]
  /\ sender' = [sender EXCEPT ![c] = "acked"]
  /\ UNCHANGED <<database, request, stamp, session, history>>

(***************************************************************************)
(* PUT /api/v1/commands/{id}/result.  The id is known to anyone the row is *)
(* visible to, before the sender has its response.  A failing UPDATE (500) *)
(* and an UPDATE of no row (404) change nothing.  The UPDATE and the       *)
(* Delete are one step: the Delete's key is a command id, and no other     *)
(* handler uses such a key.                                                *)
(***************************************************************************)
HandleResult(c, st) ==
  /\ HasRow(c)
  /\ status' = [status EXCEPT ![c] = st]
  /\ done' = [done EXCEPT ![c] = TRUE]
  /\ pending' = [pending EXCEPT ![c] = NoCmd]
  /\ UNCHANGED <<registered, request, stamp, sender, session, history>>

(***************************************************************************)
(* DELETE /api/v1/devices/{id}: the rows of the device go with it when the *)
(* statement runs with foreign keys enforced, and stay when it does not.   *)
(***************************************************************************)
RowsOf(d) == {c \in Cmds : HasRow(c) /\ request[c].dev = d}

DeleteDevice(d) ==
  /\ d \in registered
  /\ registered' = registered \ {d}
  /\ \E foreignKeys \in FkModes :
       status' = [c \in Cmds |-> IF foreignKeys /\ c \in RowsOf(d)
                                    THEN "purged" ELSE status[c]]
  /\ UNCHANGED <<done, pending, request, stamp, sender, session, history>>

(***************************************************************************)
(* GET /api/v1/ws/commands: one session is one goroutine that first ranges *)
(* over the pending map, then polls the table every five seconds.  Range   *)
(* visits the keys in any order and reads each value when it comes to it.  *)
(***************************************************************************)
\* The session goes to pc, holding command c.
GoTo(s, pc, c) ==
  session' = [session EXCEPT ![s] = [@ EXCEPT !.pc = pc, !.cmd = c]]

Upgrade(s, d, o) ==
  /\ session[s].pc = "closed"
  /\ session' = [session EXCEPT ![s] =
                   [pc |-> "replay", dev |-> d, org |-> o, up |-> TRUE,
                    todo |-> IF d = NoDevice THEN Keys ELSE {d}, cmd |-> NoCmd]]
  /\ UNCHANGED <<database, pending, request, stamp, sender, history>>

\* Mutant: the replay waits for a command to be filed under its key.
MutReplayKey(s, k) ==
  /\ session[s].pc = "replay"
  /\ k \in session[s].todo
  /\ pending[k] # NoCmd
  /\ session' = [session EXCEPT ![s].todo = @ \ {k}]
  /\ UNCHANGED <<database, pending, request, stamp, sender, history>>

\* The Command value of the entry, if there is one, goes to WriteMessage, whose
\* error is ignored: neither the write nor a broken socket changes a thing here.
ReplayKey(s, k) ==
  /\ session[s].pc = "replay"
  /\ k \in session[s].todo
  /\ session' = [session EXCEPT ![s].todo = @ \ {k}]
  /\ UNCHANGED <<database, pending, request, stamp, sender, history>>

StartPolling(s) ==
  /\ session[s].pc = "replay"
  /\ session[s].todo = {}
  /\ GoTo(s, "poll", NoCmd)
  /\ UNCHANGED <<database, pending, request, stamp, sender, history>>

\* Mutant: the query does not ask for pending rows.
MutPendingRows(d, o) ==
  {c \in Cmds : HasRow(c) /\ request[c] = [dev |-> d, org |-> o]}

PendingRows(d, o) ==
  {c \in Cmds : status[c] = "pending" /\ request[c] = [dev |-> d, org |-> o]}

\* Mutant: ORDER BY created_at DESC, as in handleList.
MutOldest(cs) == {c \in cs : \A b \in cs : stamp[b] <= stamp[c]}

\* ORDER BY created_at ASC LIMIT 1
Oldest(cs) == {c \in cs : \A b \in cs : stamp[c] <= stamp[b]}

\* Mutant: the row is marked before the command is written.
MutPollOldest(s) ==
  /\ session[s].pc = "poll"
  /\ session[s].dev # NoDevice
  /\ \E c \in Oldest(PendingRows(session[s].dev, session[s].org)) :
       GoTo(s, "mark", c)
  /\ UNCHANGED <<database, pending, request, stamp, sender, history>>

\* A tick without device_id, without a pending row or with a failing query
\* changes nothing.
PollOldest(s) ==
  /\ session[s].pc = "poll"
  /\ session[s].dev # NoDevice
  /\ \E c \in Oldest(PendingRows(session[s].dev, session[s].org)) :
       GoTo(s, "write", c)
  /\ UNCHANGED <<database, pending, request, stamp, sender, history>>

WriteCommand(s) ==
  /\ session[s].pc = "write"
  /\ polled' = polled \union {session[s].cmd}
  /\ GoTo(s, "mark", session[s].cmd)
  /\ UNCHANGED <<database, pending, request, stamp, sender, before>>

\* Mutant: the mark is an upsert, which brings a deleted row back.
MutMarkDelivered(s) ==
  LET c == session[s].cmd IN
  /\ session[s].pc = "mark"
  /\ status' = [status EXCEPT ![c] = "delivered"]
  /\ GoTo(s, "poll", NoCmd)
  /\ UNCHANGED <<registered, done, pending, request, stamp, sender, history>>

\* UPDATE commands SET status='delivered' WHERE id=?: whatever the status is,
\* and whether or not the row is still there.
MarkDelivered(s) ==
  LET c == session[s].cmd IN
  /\ session[s].pc = "mark"
  /\ status' = [status EXCEPT ![c] = IF HasRow(c) THEN "delivered" ELSE @]
  /\ GoTo(s, "poll", NoCmd)
  /\ UNCHANGED <<registered, done, pending, request, stamp, sender, history>>

MarkFails(s) ==                    \* Exec's error is ignored
  /\ session[s].pc = "mark"
  /\ GoTo(s, "poll", NoCmd)
  /\ UNCHANGED <<database, pending, request, stamp, sender, history>>

\* The reader goroutine closes `done`; the loop returns at its next select.
Leave(s) ==
  /\ session[s].pc = "poll"
  /\ ~session[s].up
  /\ session' = [session EXCEPT ![s] = Closed]
  /\ UNCHANGED <<database, pending, request, stamp, sender, history>>

(***************************************************************************)
(* The environment: clients hang up, and the process is killed.            *)
(***************************************************************************)
HangUp(s) ==
  /\ session[s].up
  /\ session' = [session EXCEPT ![s].up = FALSE]
  /\ UNCHANGED <<database, pending, request, stamp, sender, history>>

Crash ==
  /\ pending' = [k \in Keys |-> NoCmd]
  /\ session' = [s \in Sessions |-> Closed]
  /\ sender' = [c \in Cmds |-> IF sender[c] \in {"stamped", "stored"}
                                  THEN "failed" ELSE sender[c]]
  /\ UNCHANGED <<database, request, stamp, history>>

Init ==
  /\ registered \in SUBSET Devices
  /\ status = [c \in Cmds |-> "none"]
  /\ done = [c \in Cmds |-> FALSE]
  /\ pending = [k \in Keys |-> NoCmd]
  /\ request = [c \in Cmds |-> [dev |-> NoDevice, org |-> Closed.org]]
  /\ stamp = [c \in Cmds |-> 0]
  /\ sender = [c \in Cmds |-> "idle"]
  /\ session = [s \in Sessions |-> Closed]
  /\ before = [c \in Cmds |-> {}]
  /\ polled = {}

Send(c) == InsertCommand(c) \/ InsertFails(c) \/ StorePending(c)

Serve(s) ==
  \/ \E k \in Keys : ReplayKey(s, k)
  \/ StartPolling(s) \/ PollOldest(s) \/ WriteCommand(s)
  \/ MarkDelivered(s) \/ MarkFails(s) \/ Leave(s) \/ HangUp(s)

Next ==
  \/ \E c \in Cmds, d \in Devices, o \in Orgs : StampCommand(c, d, o)
  \/ \E c \in Cmds : Send(c)
  \/ \E c \in Cmds, st \in Reported : HandleResult(c, st)
  \/ \E d \in Devices : DeleteDevice(d)
  \/ \E s \in Sessions, d \in Devices \union {NoDevice}, o \in Orgs :
       Upgrade(s, d, o)
  \/ \E s \in Sessions : Serve(s)
  \/ Crash

Spec == Init /\ [][Next]_vars

\* The goroutine of a session keeps running; the mark may fail now and then
\* but not for ever, and select does not ignore a closed `done` for ever.
SessionFairness(s) ==
  /\ WF_vars(\E k \in Keys : ReplayKey(s, k))
  /\ WF_vars(StartPolling(s))
  /\ WF_vars(PollOldest(s))
  /\ WF_vars(WriteCommand(s))
  /\ WF_vars(MarkDelivered(s) \/ MarkFails(s))
  /\ SF_vars(MarkDelivered(s))
  /\ SF_vars(Leave(s))

FairSpec == Spec /\ \A s \in Sessions : SessionFairness(s)
-----------------------------------------------------------------------------
(***************************************************************************)
(* Properties                                                              *)
(***************************************************************************)
SenderStates == {"idle", "stamped", "stored", "acked", "failed"}

SessionStates == [pc : {"closed", "replay", "poll", "write", "mark"},
                  dev : Devices \union {NoDevice}, org : Orgs, up : BOOLEAN,
                  todo : SUBSET Keys, cmd : Cmds \union {NoCmd}]

RequestValues == [dev : Devices \union {NoDevice}, org : Orgs]

TypeOK ==
  /\ registered \subseteq Devices
  /\ status \in [Cmds -> RowStatuses]
  /\ done \in [Cmds -> BOOLEAN]
  /\ pending \in [Keys -> Cmds \union {NoCmd}]
  /\ request \in [Cmds -> RequestValues]
  /\ stamp \in [Cmds -> Nat]
  /\ sender \in [Cmds -> SenderStates]
  /\ session \in [Sessions -> SessionStates]
  /\ before \in [Cmds -> SUBSET Cmds]
  /\ polled \subseteq Cmds

\* The replay map only holds commands that were INSERTed before and that
\* belong to the device they are filed under, across racing senders, failing
\* INSERTs and crashes; no entry is ever filed under a command id.
PendingMapIntegrity ==
  \A k \in Keys : pending[k] # NoCmd =>
    /\ k \in Devices
    /\ request[pending[k]].dev = k
    /\ sender[pending[k]] = "acked"
    /\ status[pending[k]] # "none"

\* As long as no result of a command has been reported, its row says 'delivered'
\* only when a session of its device and organisation called WriteMessage with
\* it before, however sessions and failing UPDATEs interleave.  (A client may
\* report the status 'delivered' of a command that was never written: done.)
DeliveredWasWritten ==
  \A c \in Cmds : status[c] = "delivered" /\ ~done[c] => c \in polled

\* Commands that had a row when c was stamped, for the same device and
\* organisation, are behind c: written, resolved or deleted.
OthersServed(c) ==
  \A b \in before[c] :
    request[b] = request[c] => b \in polled \/ done[b] \/ status[b] = "purged"

\* A poll never overtakes: it writes no command while an earlier one of the
\* device waits that was there before, though marks fail, sessions poll the same
\* row, results put rows back to 'pending' and the process crashes in between.
\* (The replay of the map does overtake, since the map has the latest command.)
ServedInOrder == \A c \in polled : OthersServed(c)

\* A command the sender was told about (201) keeps its row, across crashes,
\* until its device is deleted.
NoAckedCommandLost ==
  \A c \in Cmds : sender[c] = "acked" /\ ~HasRow(c) =>
    status[c] = "purged" /\ request[c].dev \notin registered

\* No command is without its device ("foreign_keys=ON for referential
\* integrity", Docs/architecture.md:107).  This does not hold: the INSERT, or the
\* deletion of the device, may run on a connection of the pool that does not
\* enforce foreign keys (db.go:103-115), which is FALSE in FkModes.
NoOrphanCommands ==
  \A c \in Cmds : HasRow(c) => request[c].dev \in registered

\* What a session replays when it connects is still to be executed: no result
\* of it has been reported ("// Send pending commands", module.go:232).  This
\* does not hold: handleResult deletes the entry under the command's id
\* (module.go:205), handleSend stores it under the device's (module.go:116).
ReplaySendsUnfinished ==
  [][\A s \in Sessions, k \in Keys :
       /\ session[s].pc = "replay" /\ session'[s].pc = "replay"
       /\ k \in session[s].todo \ session'[s].todo
       /\ pending[k] # NoCmd
       => ~done[pending[k]]]_vars

\* The commands service implements the ledger: `done`, not the status, is what
\* says that a command is resolved.
PhaseOf(c) ==
  CASE status[c] = "none"   -> "absent"
    [] status[c] = "purged" -> "purged"
    [] HasRow(c) /\ done[c] -> "resolved"
    [] HasRow(c) /\ ~done[c] /\ status[c] = "delivered" -> "delivered"
    [] HasRow(c) /\ ~done[c] /\ status[c] # "delivered" -> "pending"

ledgerPhase == [c \in Cmds |-> PhaseOf(c)]

Ledger == INSTANCE CommandLedger WITH phase <- ledgerPhase

\* Every step of handlers, sessions and crashes is a step of the ledger.
LedgerRefined == Ledger!LedgerSpec

Watches(s, c) ==
  /\ session[s].pc # "closed"
  /\ session[s].up
  /\ session[s].dev = request[c].dev
  /\ session[s].org = request[c].org

\* A client reports the status 'pending' of a command that the poll takes before
\* c, and that was not pending.
PutsBackBefore(c) ==
  \E b \in Cmds : /\ request[b] = request[c] /\ stamp[b] < stamp[c]
                  /\ HasRow(b) /\ status[b] # "pending"
                  /\ status'[b] = "pending"

\* A pending command does not stay pending while a session of its device and
\* organisation stays connected, whoever else sends, polls or reports, unless
\* clients put commands before it back to 'pending' for ever: the poll takes one
\* row at a time, the oldest.
PendingIsServed ==
  \A c \in Cmds, s \in Sessions :
    \/ []<><<PutsBackBefore(c)>>_vars
    \/ status[c] = "pending" /\ Watches(s, c)
         ~> status[c] # "pending" \/ ~Watches(s, c)

\* A session whose client hung up ends: its goroutine does not leak in the
\* replay or behind a poll.
BrokenSessionsEnd ==
  \A s \in Sessions :
    session[s].pc # "closed" /\ ~session[s].up ~> session[s].pc = "closed"
-----------------------------------------------------------------------------
(***************************************************************************)
(* The inductive invariant behind the safety properties.                   *)
(***************************************************************************)
\* What a session is about to write or to mark is a command with a row, and it
\* overtakes none; what it is about to mark has been written.
SessionHoldsCommand ==
  \A s \in Sessions :
    /\ session[s].pc \in {"write", "mark"} =>
         LET c == session[s].cmd
         IN  c \in Cmds /\ status[c] # "none" /\ OthersServed(c)
    /\ session[s].pc = "mark" => session[s].cmd \in polled

StampsAreRanks ==
  \A c \in Cmds : /\ sender[c] = "idle" => stamp[c] = 0
                  /\ stamp[c] <= Cardinality({b \in Cmds : stamp[b] # 0})

\* Who was before a command has its row and an earlier stamp.
RowsInOrder ==
  /\ \A c \in Cmds : \A b \in before[c] : status[b] # "none" /\ stamp[b] < stamp[c]
  /\ \A c \in polled : status[c] # "none"

\* A row that is not pending any more has been written, reported or deleted.
TakenWasServed ==
  \A c \in Cmds :
    status[c] \in {"none", "pending", "purged"} \/ c \in polled \/ done[c]

\* The row exists from the INSERT of its sender on, unresolved at first.
RowFollowsSender ==
  \A c \in Cmds :
    /\ sender[c] # "idle" => request[c].dev \in Devices
    /\ sender[c] \in {"idle", "stamped"} => status[c] = "none"
    /\ sender[c] \in {"stored", "acked"} => status[c] # "none"
    /\ status[c] = "none" => ~done[c]

PurgedWithDevice ==
  \A c \in Cmds : status[c] = "purged" => request[c].dev \notin registered

IInv ==
  /\ TypeOK
  /\ SessionHoldsCommand
  /\ RowFollowsSender
  /\ PurgedWithDevice
  /\ PendingMapIntegrity
  /\ StampsAreRanks
  /\ RowsInOrder
  /\ TakenWasServed
  /\ ServedInOrder
=============================================================================
