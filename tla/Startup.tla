------------------------------ MODULE Startup ------------------------------
(***************************************************************************)
(* Servers that start on one database file: cmdStart                       *)
(* (cmd/deviceos/start.go) opens the file, initialises the modules in the  *)
(* order they were registered, each of which calls DB.Migrate              *)
(* (internal/db/migrate.go) for its migrations, serves, and shuts down.    *)
(*                                                                         *)
(* Several processes may start at once (a restart that overlaps the old    *)
(* server, a second container on the same volume), each may die at any     *)
(* step, and its supervisor starts it again.  What SQLite promises is      *)
(* modelled from how the code uses it: one writer at a time, a transaction *)
(* that has read and then writes after another has committed is refused,   *)
(* and a process that dies leaves no trace of its open transaction.        *)
(***************************************************************************)
EXTENDS Integers, Sequences

CONSTANTS
  Procs,      \* the server processes
  Names,      \* names of migrations
  Plan,       \* the migrations of the modules, in the order of InitAll
  Alters,     \* those that are ALTER TABLE: they fail when done twice
  OldRows,    \* what a table of the old layout may hold (sets of names)
  MaxConns,   \* storage.max_open_conns
  MaxFaults,  \* bound: statements that fail and processes that die
  Free        \* the write lock of the database is not held

ASSUME PlanAssumption ==
  /\ Plan \in Seq(Names)
  /\ Len(Plan) > 0
  /\ \A i, j \in 1..Len(Plan) : i # j => Plan[i] # Plan[j]

ASSUME BoundAssumption ==
  /\ OldRows \subseteq SUBSET Names
  /\ MaxConns \in Nat
  /\ MaxFaults \in Nat
  /\ Free \notin Procs

VARIABLES
  table,    \* the table _migrations: "none", "old" (column id) or "new"
  records,  \* its rows (an old row is given the version 0 it will get)
  index,    \* idx_migrations_name exists
  schema,   \* migrations whose statements have been committed
  lock,     \* the process whose transaction holds the write lock, or Free
  stale,    \* processes whose open transaction reads an outdated snapshot
  pc,       \* where each process is
  at,       \* the migration it is at
  ver,      \* its maxVer
  exposed,  \* history: _migrations was, or may be, without its index
  faults    \* faults so far

db == <<table, records, index, schema, lock, stale>>
vars == <<db, pc, at, ver, exposed, faults>>

(***************************************************************************)
(* The names each module's Init gives to Migrate, and the plan they make   *)
(* in the order in which cmdStart registers the modules.  The modules      *)
(* mqtt, events, simulator and dashboard have no migrations.               *)
(***************************************************************************)
DevicesInit == <<"devices_v1", "devices_v2_org">>
TelemetryInit == <<"telemetry_v1", "telemetry_v2_org">>
AlertsInit == <<"alerts_v1", "alerts_v2_org">>
AuthInit == <<"auth_v1">>
CommandsInit == <<"commands_v1", "commands_v2_org">>
OtaInit == <<"ota_v1", "ota_v2_org">>
WebhooksInit == <<"webhooks_v1", "webhooks_v2_org">>
FleetInit == <<"fleet_v1", "fleet_v2_org">>
TenantInit == <<"tenant_v1">>
AuditInit == <<"audit_v1", "audit_v2_org">>

ProgramPlan ==
  DevicesInit \o TelemetryInit \o AlertsInit \o AuthInit \o CommandsInit
    \o OtaInit \o WebhooksInit \o FleetInit \o TenantInit \o AuditInit

\* The ALTER TABLE statements among them.
ProgramAlters ==
  {"devices_v2_org", "telemetry_v2_org", "alerts_v2_org", "commands_v2_org",
   "ota_v2_org", "webhooks_v2_org", "fleet_v2_org", "audit_v2_org"}

Row == [version : Nat, name : Names]
Recorded == {r.name : r \in records}
Versions == {r.version : r \in records}

\* The steps of Migrate, then those of the running server.
Steps == {"off", "ensure", "look", "upgrade", "index", "check", "run", "max",
          "record", "serving", "stopped", "closed"}

TypeOK ==
  /\ table \in {"none", "old", "new"}
  /\ records \subseteq Row
  /\ index \in BOOLEAN
  /\ schema \subseteq Names
  /\ lock \in Procs \cup {Free}
  /\ stale \subseteq Procs
  /\ pc \in [Procs -> Steps]
  /\ at \in [Procs -> 1..Len(Plan)]
  /\ ver \in [Procs -> Nat]
  /\ exposed \in BOOLEAN
  /\ faults \in 0..MaxFaults

\* A new file, or one of a version that kept the old layout.
Init ==
  /\ \/ table = "none" /\ records = {} /\ schema = {}
     \/ /\ table = "old"
        /\ \E R \in OldRows :
             /\ records = {[version |-> 0, name |-> n] : n \in R}
             /\ schema = R
  /\ index = FALSE
  /\ lock = Free
  /\ stale = {}
  /\ pc = [p \in Procs |-> "off"]
  /\ at = [p \in Procs |-> 1]
  /\ ver = [p \in Procs |-> 0]
  /\ exposed = FALSE
  /\ faults = 0

Goto(p, step) == pc' = [pc EXCEPT ![p] = step]

Fault == faults < MaxFaults /\ faults' = faults + 1

\* A commit by p outdates the snapshots of the transactions that have read.
Outdate(p) ==
  stale' = (stale \ {p}) \cup {q \in Procs \ {p} : pc[q] \in {"max", "record"}}

\* An autocommitted statement of p that writes waits for the lock.
Autocommit(p) == lock = Free /\ lock' = lock /\ Outdate(p)

(***************************************************************************)
(* cmdStart up to InitAll: the file is opened, the modules are registered. *)
(***************************************************************************)
Launch(p) ==
  /\ pc[p] = "off"
  /\ Goto(p, "ensure")
  /\ UNCHANGED <<db, at, ver, exposed, faults>>

(***************************************************************************)
(* ensureMigrationTable, which every call of Migrate begins with.          *)
(***************************************************************************)

\* CREATE TABLE IF NOT EXISTS _migrations.
EnsureTable(p) ==
  /\ pc[p] = "ensure"
  /\ \/ table = "none" /\ table' = "new" /\ Autocommit(p)
     \/ table # "none" /\ UNCHANGED <<table, lock, stale>>
  /\ Goto(p, "look")
  /\ UNCHANGED <<records, index, schema, at, ver, exposed, faults>>

\* Does the table have a column id?
LookSchema(p) ==
  /\ pc[p] = "look"
  /\ Goto(p, IF table = "old" THEN "upgrade" ELSE "index")
  /\ UNCHANGED <<db, at, ver, exposed, faults>>

\* The error of that query is ignored: hasOldSchema stays 0.
LookFails(p) ==
  /\ pc[p] = "look"
  /\ Fault
  /\ Goto(p, "index")
  /\ UNCHANGED <<db, at, ver, exposed>>

\* The transaction that replaces the table.  Its first statement takes the
\* lock, so that it is one step.  Every row is copied with version 0, the
\* primary key: it cannot copy two.  The index goes with the old table.
Upgrade(p) ==
  /\ pc[p] = "upgrade"
  /\ \A r, s \in records : r = s
  /\ Autocommit(p)
  /\ records' = {[version |-> 0, name |-> r.name] : r \in records}
  /\ table' = "new"
  /\ index' = FALSE
  /\ exposed' = TRUE
  /\ Goto(p, "index")
  /\ UNCHANGED <<schema, at, ver, faults>>

\* Mutant: the branch for a table that is not upgraded makes no index.
MutMakeIndex(p) ==
  /\ pc[p] = "index"
  /\ Goto(p, "check")
  /\ UNCHANGED <<db, at, ver, exposed, faults>>

\* CREATE UNIQUE INDEX IF NOT EXISTS idx_migrations_name.
MakeIndex(p) ==
  /\ pc[p] = "index"
  /\ \/ index /\ UNCHANGED <<index, lock, stale>>
     \/ /\ ~index
        /\ \A r, s \in records : r.name = s.name => r = s
        /\ index' = TRUE
        /\ Autocommit(p)
  /\ Goto(p, "check")
  /\ UNCHANGED <<table, records, schema, at, ver, exposed, faults>>

\* Its error is ignored, whether a fault or two rows of one name cause it.
IndexFails(p) ==
  /\ pc[p] = "index"
  /\ ~index
  /\ \/ Fault
     \/ /\ \E r, s \in records : r.name = s.name /\ r # s
        /\ faults' = faults
  /\ exposed' = TRUE
  /\ Goto(p, "check")
  /\ UNCHANGED <<db, at, ver>>

(***************************************************************************)
(* The rest of Migrate.                                                    *)
(***************************************************************************)

\* The next migration, or, after the last, the routes and the listener.
Advance(p) ==
  \/ /\ at[p] < Len(Plan)
     /\ at' = [at EXCEPT ![p] = @ + 1]
     /\ Goto(p, "ensure")
  \/ /\ at[p] = Len(Plan)
     /\ at' = at
     /\ Goto(p, "serving")

\* Mutant: the name is not looked for, every migration is run.
MutCheckNothing(p) ==
  /\ pc[p] = "check"
  /\ Goto(p, "run")
  /\ UNCHANGED <<db, at, ver, exposed, faults>>

\* Mutant: the query counts the rows of every name.
MutCheckAny(p) ==
  /\ pc[p] = "check"
  /\ \/ records # {} /\ Advance(p)
     \/ records = {} /\ Goto(p, "run") /\ at' = at
  /\ UNCHANGED <<db, ver, exposed, faults>>

\* SELECT COUNT(*) FROM _migrations WHERE name = ?, on any connection.
Check(p) ==
  /\ pc[p] = "check"
  /\ \/ Plan[at[p]] \in Recorded /\ Advance(p)
     \/ Plan[at[p]] \notin Recorded /\ Goto(p, "run") /\ at' = at
  /\ UNCHANGED <<db, ver, exposed, faults>>

\* Mutant: the statements are not executed in the transaction.
MutRunStatements(p) ==
  /\ pc[p] = "run"
  /\ Plan[at[p]] \notin schema \cap Alters
  /\ Autocommit(p)
  /\ schema' = schema \cup {Plan[at[p]]}
  /\ Goto(p, "max")
  /\ UNCHANGED <<table, records, index, at, ver, exposed, faults>>

\* The statements in a transaction.  CREATE ... IF NOT EXISTS of what exists
\* only reads; a statement with something to do takes the lock.
RunStatements(p) ==
  /\ pc[p] = "run"
  /\ \/ /\ Plan[at[p]] \in schema
        /\ Plan[at[p]] \notin Alters
        /\ lock' = lock
     \/ /\ Plan[at[p]] \notin schema
        /\ lock = Free
        /\ lock' = p
  /\ Goto(p, "max")
  /\ UNCHANGED <<table, records, index, schema, stale, at, ver, exposed, faults>>

\* Mutant: the next version is computed here and again in the INSERT.
MutReadMax(p) ==
  /\ pc[p] = "max"
  /\ \E v \in Versions \cup {0} :
       /\ \A w \in Versions : w <= v
       /\ ver' = [ver EXCEPT ![p] = v + 1]
  /\ Goto(p, "record")
  /\ UNCHANGED <<db, at, exposed, faults>>

\* The largest version, read outside the transaction, whose connection is
\* not free: the pool must have a second one.
ReadMax(p) ==
  /\ pc[p] = "max"
  /\ MaxConns # 1
  /\ table = "new"
  /\ \E v \in Versions \cup {0} :
       /\ \A w \in Versions : w <= v
       /\ ver' = [ver EXCEPT ![p] = v]
  /\ Goto(p, "record")
  /\ UNCHANGED <<db, at, exposed, faults>>

\* Its error is ignored (an old table has no column version).
ReadMaxFails(p) ==
  /\ pc[p] = "max"
  /\ MaxConns # 1
  /\ \/ Fault
     \/ table = "old" /\ faults' = faults
  /\ ver' = [ver EXCEPT ![p] = 0]
  /\ Goto(p, "record")
  /\ UNCHANGED <<db, at, exposed>>

\* The INSERT is refused by SQLite: no column version, the lock asked for
\* with an outdated snapshot, the primary key, the unique index.
Refused(p) ==
  \/ table = "old"
  \/ p \in stale
  \/ ver[p] + 1 \in Versions
  \/ index /\ Plan[at[p]] \in Recorded

\* INSERT INTO _migrations and the commit.
Record(p) ==
  /\ pc[p] = "record"
  /\ ~Refused(p)
  /\ lock \in {Free, p}
  /\ records' = records \cup {[version |-> ver[p] + 1, name |-> Plan[at[p]]]}
  /\ schema' = schema \cup {Plan[at[p]]}
  /\ lock' = Free
  /\ Outdate(p)
  /\ Advance(p)
  /\ UNCHANGED <<table, index, ver, exposed, faults>>

(***************************************************************************)
(* Exits.  An error of Migrate rolls the transaction back, InitAll returns *)
(* it and cmdStart calls os.Exit(1); a process that is killed leaves the   *)
(* same database.                                                          *)
(***************************************************************************)
Exit(p) ==
  /\ Goto(p, "off")
  /\ at' = [at EXCEPT ![p] = 1]
  /\ ver' = [ver EXCEPT ![p] = 0]
  /\ lock' = IF lock = p THEN Free ELSE lock
  /\ stale' = stale \ {p}
  /\ UNCHANGED <<table, records, index, schema, exposed>>

\* What the state of the database makes fail.
InitFails(p) ==
  /\ \/ pc[p] = "upgrade" /\ \E r, s \in records : r # s
     \/ pc[p] = "run" /\ Plan[at[p]] \in schema \cap Alters
     \/ pc[p] = "record" /\ Refused(p)
  /\ Exit(p)
  /\ faults' = faults

\* Any other error (a timeout on the lock, the disk), a kill, a crash.
Die(p) ==
  /\ pc[p] # "off"
  /\ Fault
  /\ Exit(p)

\* Writes to other tables, by requests and by auth's Init (the admin key):
\* such a commit too outdates the snapshots of others.
OtherWrite(p) ==
  /\ pc[p] \in {"ensure", "serving", "stopped"}
  /\ Autocommit(p)
  /\ UNCHANGED <<table, records, index, schema, pc, at, ver, exposed, faults>>

(***************************************************************************)
(* A signal, or an error of the listener: StopAll, then database.Close,    *)
(* then srv.Stop, in this order, and the process ends.                     *)
(***************************************************************************)
StopAll(p) ==
  /\ pc[p] = "serving"
  /\ Goto(p, "stopped")
  /\ UNCHANGED <<db, at, ver, exposed, faults>>

CloseDatabase(p) ==
  /\ pc[p] = "stopped"
  /\ Goto(p, "closed")
  /\ UNCHANGED <<db, at, ver, exposed, faults>>

StopServer(p) ==
  /\ pc[p] = "closed"
  /\ Exit(p)
  /\ faults' = faults

\* The steps that move a start or a shutdown on.
Step(p) ==
  \/ Launch(p) \/ EnsureTable(p) \/ LookSchema(p) \/ Upgrade(p)
  \/ MakeIndex(p) \/ Check(p) \/ RunStatements(p) \/ ReadMax(p)
  \/ Record(p) \/ InitFails(p) \/ CloseDatabase(p) \/ StopServer(p)

Next ==
  \E p \in Procs :
    Step(p) \/ LookFails(p) \/ IndexFails(p) \/ ReadMaxFails(p) \/ Die(p)
            \/ StopAll(p) \/ OtherWrite(p)

Spec == Init /\ [][Next]_vars

(***************************************************************************)
(* Fairness.  A process that can take its next step takes it, however      *)
(* often the lock was held when it looked (busy_timeout makes SQLite try   *)
(* again), and the supervisor starts it again (Restart=always in           *)
(* Docs/deployment.md, restart: unless-stopped in docker-compose.yml).     *)
(* The errors that the code ignores are fair too where the state of the    *)
(* database makes them certain.                                            *)
(***************************************************************************)
Certain(p) == faults' = faults /\ (IndexFails(p) \/ ReadMaxFails(p))

FairSpec == Spec /\ \A p \in Procs : SF_vars(Step(p)) /\ WF_vars(Certain(p))

-----------------------------------------------------------------------------

\* The statements of a migration are in the schema exactly when its name is
\* in _migrations, whatever died in between and whoever else was starting:
\* Migrate's transaction covers both (migrate.go:39-62), and the upgrade of
\* the table keeps every name.
SchemaMatchesRecords == schema = Recorded

\* A server that takes requests finds every table and column its modules
\* use: InitAll got through every Migrate, and what another process did to
\* _migrations meanwhile undid nothing (registry.go:38-46, start.go:123).
ServingIsMigrated ==
  \A p \in Procs :
    pc[p] \in {"serving", "stopped"} =>
      \A i \in 1..Len(Plan) : Plan[i] \in Recorded \cap schema

\* A migration is recorded once although the test for its name (migrate.go:29)
\* is far from the INSERT (migrate.go:58): the unique index decides the race.
\* It is created after the table and its errors are ignored, so this is only
\* so while it was never missing.
RecordedOnce ==
  ~exposed => \A r, s \in records : r.name = s.name => r = s

\* Versions have no gap although maxVer is read outside the transaction and
\* its error is ignored (migrate.go:55-56): each version above 1 follows
\* one that is there.
VersionsHaveNoGap == \A v \in Versions : v > 1 => v - 1 \in Versions

\* A race for a migration has a winner: the process whose statements took the
\* write lock (migrate.go:45-50) is not refused at the INSERT, neither for an
\* outdated snapshot nor for the name, nor for a version that another start
\* has used, unless its query for maxVer failed (migrate.go:56), which leaves 0.
HolderIsNotRefused ==
  \A p \in Procs :
    lock = p => /\ pc[p] \in {"max", "record"}
                /\ pc[p] = "record" /\ Refused(p) => ver[p] = 0

\* No start, race, death or upgrade of the table undoes or forgets a migration.
MigrationsAreKept == [][Recorded \subseteq Recorded' /\ schema \subseteq schema']_vars

\* Starts that race for the same migrations, and are refused, all serve in
\* the end: an error of a race is never met twice (migrate.go:24-63).
StartsInTheEnd == \A p \in Procs : pc[p] = "ensure" ~> pc[p] = "serving"
=============================================================================
