------------------------------ MODULE Migrator ------------------------------
(***************************************************************************)
(* The versioned migrations of internal/db/migrate.go: a Migrator whose    *)
(* Up, Down and DownTo are called one after the other, and, between those  *)
(* calls, the calls of DB.Migrate by modules that number nothing.  Both    *)
(* keep their rows in _migrations: Migrate gives the next free version to  *)
(* a name, the Migrator looks for its own versions.                        *)
(*                                                                         *)
(* Each migration is one transaction, which may fail and end the call.     *)
(* Module Startup has the table, its index and concurrent processes.       *)
(***************************************************************************)
EXTENDS Integers, Sequences

CONSTANTS
  Lists,    \* what Add may have been given: sequences of migrations
  Names,    \* the names of those migrations
  Named,    \* the names that modules pass to Migrate
  Targets   \* the arguments of DownTo

Migration == [version : Nat, name : Names, down : BOOLEAN]

\* Add gets its migrations in the order of their versions, each with a name
\* of its own (Docs/development.md:331-347, internal/db/migrate_test.go:129-133).
ASSUME MigratorAssumption ==
  /\ Lists \subseteq Seq(Migration)
  /\ \A list \in Lists : \A i, j \in 1..Len(list) :
       i < j => list[i].version < list[j].version /\ list[i].name # list[j].name
  /\ Names \intersect Named = {}
  /\ Targets \subseteq Int

VARIABLES
  migrations,  \* m.migrations
  records,     \* the rows of _migrations
  schema,      \* names whose statements are in effect
  call,        \* the call that runs: "idle", "up", "down", "downto"
  todo,        \* the places in the list it has yet to apply or revert
  target,      \* the argument of the last DownTo
  answer,      \* what the last call returned
  taken        \* history: Migrate recorded a version of the list

migratorVars ==
  <<migrations, records, schema, call, todo, target, answer, taken>>

Recorded == {r.name : r \in records}
Versions == {r.version : r \in records}
Places == 1..Len(migrations)

MigratorTypeOK ==
  /\ migrations \in Lists
  /\ records \subseteq [version : Nat, name : Named \union Names]
  /\ schema \subseteq Named \union Names
  /\ call \in {"idle", "up", "down", "downto"}
  /\ todo \subseteq Places
  /\ target \in Targets
  /\ answer \in {"none", "failed", "up", "down", "downto"}
  /\ taken \in BOOLEAN
  /\ call = "idle" => todo = {}

MigratorInit ==
  /\ migrations \in Lists
  /\ records = {}
  /\ schema = {}
  /\ call = "idle"
  /\ todo = {}
  /\ target \in Targets
  /\ answer = "none"
  /\ taken = FALSE

\* A module calls Migrate with a name that is not recorded.  Its statements
\* are CREATE ... IF NOT EXISTS.  (A call that fails changes nothing.)
Migrate(n) ==
  /\ call = "idle"
  /\ n \notin Recorded
  /\ \E v \in {w + 1 : w \in Versions \union {0}} :    \* COALESCE(MAX, 0) + 1
       /\ \A w \in Versions : w < v
       /\ records' = records \union {[version |-> v, name |-> n]}
       /\ taken' = (taken \/ \E i \in Places : migrations[i].version = v)
  /\ schema' = schema \union {n}
  /\ answer' = "none"
  /\ UNCHANGED <<migrations, call, todo, target>>

Call(name, places) ==
  /\ call = "idle"
  /\ call' = name
  /\ todo' = places
  /\ answer' = "none"
  /\ UNCHANGED <<migrations, records, schema, taken>>

Applied(i) == migrations[i].version \in Versions

\* Up goes through the list, past the versions that were recorded before.
Up == Call("up", {i \in Places : ~Applied(i)}) /\ UNCHANGED target

\* Down looks for the migration of the largest version, and only for that.
Down ==
  /\ Call("down", {i \in Places : Applied(i) /\
                     \A w \in Versions : w <= migrations[i].version})
  /\ UNCHANGED target

\* Mutant: DownTo stops one version early.
MutToRevertLess(t) ==
  {i \in Places : Applied(i) /\
     \A j \in Places : j >= i /\ Applied(j) /\ t >= 0 =>
       migrations[j].version > t + 1}

\* What DownTo reverts: from the end, until a version that is to stay.
ToRevert(t) ==
  {i \in Places : Applied(i) /\
     \A j \in Places : j >= i /\ Applied(j) /\ t >= 0 => migrations[j].version > t}

DownTo(t) == Call("downto", ToRevert(t)) /\ target' = t

\* Mutant: Up forgets the row.
MutApply(i) ==
  /\ call = "up" /\ \A j \in todo : i <= j
  /\ migrations[i].name \notin schema
  /\ schema' = schema \union {migrations[i].name}
  /\ todo' = todo \ {i}
  /\ UNCHANGED <<migrations, records, call, target, answer, taken>>

\* The next migration of Up: its statements, INSERT OR REPLACE, commit.  They
\* fail if they were done before (CREATE TABLE, ADD COLUMN).
Apply(i) ==
  /\ call = "up" /\ \A j \in todo : i <= j
  /\ LET m == migrations[i] IN
       /\ m.name \notin schema
       /\ schema' = schema \union {m.name}
       /\ records' = {r \in records : r.version # m.version /\ r.name # m.name}
                       \union {[version |-> m.version, name |-> m.name]}
  /\ todo' = todo \ {i}
  /\ UNCHANGED <<migrations, call, target, answer, taken>>

\* Mutant: the loop of DownTo begins at the front.
MutRevert(i) ==
  /\ call \in {"down", "downto"} /\ \A j \in todo : i <= j
  /\ migrations[i].down
  /\ migrations[i].name \in schema
  /\ schema' = schema \ {migrations[i].name}
  /\ records' = {r \in records : r.version # migrations[i].version}
  /\ todo' = todo \ {i}
  /\ UNCHANGED <<migrations, call, target, answer, taken>>

\* revert: without Down statements it only warns.  They fail if there is
\* nothing to undo (DROP TABLE).
Revert(i) ==
  /\ call \in {"down", "downto"} /\ \A j \in todo : i >= j
  /\ LET m == migrations[i] IN
       \/ ~m.down /\ UNCHANGED <<records, schema>>
       \/ /\ m.down
          /\ m.name \in schema
          /\ schema' = schema \ {m.name}
          /\ records' = {r \in records : r.version # m.version}
  /\ todo' = todo \ {i}
  /\ UNCHANGED <<migrations, call, target, answer, taken>>

\* A statement fails, is rolled back, and the call returns the error.
Fails ==
  /\ call # "idle" /\ todo # {}
  /\ call' = "idle" /\ todo' = {} /\ answer' = "failed"
  /\ UNCHANGED <<migrations, records, schema, target, taken>>

Returns ==
  /\ call # "idle" /\ todo = {}
  /\ call' = "idle" /\ answer' = call
  /\ UNCHANGED <<migrations, records, schema, todo, target, taken>>

MigratorNext ==
  \/ \E n \in Named : Migrate(n)
  \/ \E t \in Targets : DownTo(t)
  \/ \E i \in todo : Apply(i) \/ Revert(i)
  \/ Up \/ Down \/ Fails \/ Returns

MigratorSpec == MigratorInit /\ [][MigratorNext]_migratorVars

-----------------------------------------------------------------------------

InEffect(i) == migrations[i].name \in schema

\* A call that returns nil has done what it says, whatever failed and was
\* reverted before: after Up every migration of the list is in effect
\* (migrate.go:78-120), after DownTo none above its target is but those that
\* have no Down (migrate.go:149-166).  That is so unless Migrate gave one of
\* their versions to a name of its own, which Up takes for applied.
CallsDoWhatTheySay ==
  ~taken =>
    /\ answer = "up" => \A i \in Places : InEffect(i)
    /\ answer = "downto" => \A i \in Places :
         migrations[i].down /\ InEffect(i) =>
           target >= 0 /\ migrations[i].version <= target

\* The table tells what is in effect, over every sequence of calls and
\* failures (migrate.go:93-114, 177-195).
RecordsTellSchema == ~taken => schema = Recorded

\* A migration is in effect only over all those before it in the list: Up
\* goes forward, Down and DownTo backward, and a failure in the middle
\* leaves a prefix - if each has a Down (migrate.go:170-173).
InOrder ==
  ~taken /\ (\A i \in Places : migrations[i].down) =>
    \A i, j \in Places : i < j /\ InEffect(j) => InEffect(i)
-----------------------------------------------------------------------------
(***************************************************************************)
(* The inductive invariant: a version of the list is recorded with its own *)
(* name, and what a call has yet to do is all that is left to do, above or *)
(* below which everything is as the call wants it.                         *)
(***************************************************************************)
VersionsAreNames ==
  ~taken => \A r \in records : \A i \in Places :
    r.version = migrations[i].version <=> r.name = migrations[i].name

UpIsAhead ==
  ~taken /\ call = "up" => \A i \in Places : i \in todo \/ InEffect(i)

DownIsLast ==
  ~taken /\ call = "down" =>
    \A i \in todo : \A j \in Places : i < j => ~InEffect(j)

DownToIsAhead ==
  ~taken /\ call = "downto" =>
    /\ \A i \in Places : migrations[i].down /\ InEffect(i) =>
         i \in todo \/ (target >= 0 /\ migrations[i].version <= target)
    /\ \A i \in todo : target >= 0 => migrations[i].version > target

IdleIsAnswered == answer \in {"up", "downto"} => call = "idle"

MigratorIInv ==
  /\ MigratorTypeOK /\ VersionsAreNames
  /\ UpIsAhead /\ DownIsLast /\ DownToIsAhead /\ IdleIsAnswered
  /\ CallsDoWhatTheySay /\ RecordsTellSchema /\ InOrder
=============================================================================
