--------------------------- MODULE StartupProofs ---------------------------
(***************************************************************************)
(* Any number of processes that start on one database, with any plan of    *)
(* migrations, any number of faults and any old table: the safety          *)
(* properties of Startup, proved from one inductive invariant.             *)
(***************************************************************************)
EXTENDS Startup, TLAPS

InMigrate == {"check", "run", "max", "record"}

\* What a process has gone through is recorded.
PassedIsRecorded ==
  \A p \in Procs : \A i \in 1..Len(Plan) :
    (i < at[p] \/ pc[p] \in {"serving", "stopped", "closed"}) => Plan[i] \in Recorded

\* A process between the index and the INSERT has seen the index.
IndexIsThere == ~exposed => \A p \in Procs : pc[p] \in InMigrate => index

\* A maxVer that an INSERT may still use is 0 or a version that is there.
MaxIsThere ==
  \A p \in Procs : pc[p] = "record" /\ p \notin stale => ver[p] = 0 \/ ver[p] \in Versions

IInv ==
  /\ TypeOK
  /\ SchemaMatchesRecords
  /\ PassedIsRecorded
  /\ IndexIsThere
  /\ RecordedOnce
  /\ MaxIsThere
  /\ VersionsHaveNoGap

-----------------------------------------------------------------------------

\* What the proofs need of the constants.
LEMMA Constants ==
  /\ Len(Plan) \in Nat /\ 1 \in 1..Len(Plan)
  /\ \A i \in 1..Len(Plan) : Plan[i] \in Names
  /\ MaxFaults \in Nat
  /\ Free \notin Procs
BY PlanAssumption, BoundAssumption

\* The names of the steps.
LEMMA StepNames ==
  /\ "off" \in Steps /\ "ensure" \in Steps /\ "look" \in Steps
  /\ "upgrade" \in Steps /\ "index" \in Steps /\ "check" \in Steps
  /\ "run" \in Steps /\ "max" \in Steps /\ "record" \in Steps
  /\ "serving" \in Steps /\ "stopped" \in Steps /\ "closed" \in Steps
BY DEF Steps

\* The first state, of a new file and of one with an old table.
LEMMA InitIInv == Init => IInv
<1> SUFFICES ASSUME Init PROVE IInv
  OBVIOUS
<1>1. /\ records \subseteq Row /\ schema = Recorded /\ schema \subseteq Names
      /\ \A r \in records : r.version = 0
      /\ \A r, s \in records : r.name = s.name => r = s
  <2>1. CASE table = "none" /\ records = {} /\ schema = {}
    BY <2>1 DEF Recorded
  <2>2. ASSUME NEW R \in OldRows,
               records = {[version |-> 0, name |-> n] : n \in R}, schema = R
        PROVE <1>1!:
    <3>0. R \subseteq Names
      BY BoundAssumption
    <3>1. \A r \in records : /\ r = [version |-> 0, name |-> r.name]
                             /\ r.name \in R /\ r.version = 0
      BY <2>2
    <3>2. records \subseteq Row
      BY <3>0, <3>1 DEF Row
    <3>3. R = Recorded
      <4>1. ASSUME NEW n \in R PROVE n \in Recorded
        <5>1. [version |-> 0, name |-> n] \in records
          BY <2>2
        <5> QED
          BY <5>1 DEF Recorded
      <4> QED
        BY <3>1, <4>1 DEF Recorded
    <3>4. \A r, s \in records : r.name = s.name => r = s
      BY <3>1, Zenon
    <3> QED
      BY <2>2, <3>0, <3>1, <3>2, <3>3, <3>4, Zenon
  <2> QED
    BY <2>1, <2>2 DEF Init
<1>2. TypeOK
  <2>1. /\ table \in {"none", "old", "new"} /\ index \in BOOLEAN
        /\ lock \in Procs \cup {Free} /\ stale \subseteq Procs
        /\ exposed \in BOOLEAN
    BY DEF Init
  <2>2. /\ pc \in [Procs -> Steps] /\ at \in [Procs -> 1..Len(Plan)]
        /\ ver \in [Procs -> Nat] /\ faults \in 0..MaxFaults
    BY Constants, StepNames DEF Init
  <2> QED
    BY <1>1, <2>1, <2>2, Zenon DEF TypeOK
<1>3. Versions \subseteq {0}
  BY <1>1 DEF Versions
<1>4. \A p \in Procs : pc[p] = "off" /\ at[p] = 1
  BY DEF Init
<1> QED
  <2>1. PassedIsRecorded
    BY <1>4, Constants DEF PassedIsRecorded
  <2>2. IndexIsThere /\ MaxIsThere
    BY <1>4 DEF IndexIsThere, InMigrate, MaxIsThere
  <2>3. VersionsHaveNoGap
    BY <1>3 DEF VersionsHaveNoGap
  <2> QED
    BY <1>1, <1>2, <2>1, <2>2, <2>3 DEF IInv, SchemaMatchesRecords, RecordedOnce

\* The next migration is one of the plan.
LEMMA AdvanceType ==
  ASSUME TypeOK, NEW p \in Procs, Advance(p)
  PROVE  pc' \in [Procs -> Steps] /\ at' \in [Procs -> 1..Len(Plan)]
<1>1. pc \in [Procs -> Steps] /\ at \in [Procs -> 1..Len(Plan)]
  BY DEF TypeOK
<1>2. CASE /\ at[p] < Len(Plan)
           /\ at' = [at EXCEPT ![p] = @ + 1]
           /\ Goto(p, "ensure")
  <2>1. at[p] + 1 \in 1..Len(Plan)
    BY <1>1, <1>2, Constants
  <2> QED
    BY <1>1, <1>2, <2>1, StepNames DEF Goto
<1>3. CASE at' = at /\ Goto(p, "serving")
  BY <1>1, <1>3, StepNames DEF Goto
<1> QED
  BY <1>2, <1>3 DEF Advance

\* Every step preserves the types.
LEMMA TypeStep == TypeOK /\ Next => TypeOK'
<1> SUFFICES ASSUME TypeOK, NEW p \in Procs,
                    \/ Step(p) \/ LookFails(p) \/ IndexFails(p)
                    \/ ReadMaxFails(p) \/ Die(p) \/ StopAll(p)
                    \/ OtherWrite(p)
             PROVE  TypeOK'
  BY DEF Next
<1> USE Constants, StepNames DEF TypeOK, Goto, db
<1>1. CASE Launch(p)
  BY <1>1 DEF Launch
<1>2. CASE EnsureTable(p)
  BY <1>2 DEF EnsureTable, Autocommit, Outdate
<1>3. CASE LookSchema(p)
  BY <1>3 DEF LookSchema
<1>4. CASE Upgrade(p)
  <2>1. records' \subseteq Row
    BY <1>4 DEF Upgrade, Row
  <2>2. lock' = lock /\ stale' \subseteq Procs /\ pc' \in [Procs -> Steps]
    BY <1>4 DEF Upgrade, Autocommit, Outdate
  <2> QED
    BY <1>4, <2>1, <2>2 DEF Upgrade
<1>5. CASE MakeIndex(p)
  BY <1>5 DEF MakeIndex, Autocommit, Outdate
<1>6. CASE Check(p)
  <2>1. CASE Advance(p)
    BY <1>6, <2>1, AdvanceType DEF Check
  <2>2. CASE Goto(p, "run") /\ at' = at
    BY <1>6, <2>2 DEF Check
  <2> QED
    BY <1>6, <2>1, <2>2 DEF Check
<1>7. CASE RunStatements(p)
  BY <1>7 DEF RunStatements
<1>8. CASE ReadMax(p)
  <2>1. Versions \cup {0} \subseteq Nat
    BY DEF Versions, Row
  <2> QED
    BY <1>8, <2>1 DEF ReadMax
<1>9. CASE Record(p)
  <2>0. ver[p] + 1 \in Nat /\ Plan[at[p]] \in Names
    OBVIOUS
  <2>1. [version |-> ver[p] + 1, name |-> Plan[at[p]]] \in Row
    BY <2>0, Zenon DEF Row
  <2>2. records' \subseteq Row /\ schema' \subseteq Names /\ lock' \in Procs \cup {Free}
        /\ stale' \subseteq Procs
    BY <1>9, <2>0, <2>1 DEF Record, Outdate
  <2>3. pc' \in [Procs -> Steps] /\ at' \in [Procs -> 1..Len(Plan)]
    BY <1>9, AdvanceType, Zenon DEF Record
  <2> QED
    BY <1>9, <2>2, <2>3, Zenon DEF Record
<1>10. ASSUME Exit(p), faults' \in 0..MaxFaults PROVE TypeOK'
  BY <1>10 DEF Exit
<1>11. CASE InitFails(p) \/ StopServer(p) \/ Die(p)
  BY <1>10, <1>11 DEF InitFails, StopServer, Die, Fault
<1>12. CASE LookFails(p)
  BY <1>12 DEF LookFails, Fault
<1>13. CASE IndexFails(p)
  BY <1>13 DEF IndexFails, Fault
<1>14. CASE ReadMaxFails(p)
  BY <1>14 DEF ReadMaxFails, Fault
<1>15. CASE StopAll(p) \/ CloseDatabase(p)
  BY <1>15 DEF StopAll, CloseDatabase
<1>16. CASE OtherWrite(p)
  BY <1>16 DEF OtherWrite, Autocommit, Outdate
<1> QED
  BY <1>1, <1>2, <1>3, <1>4, <1>5, <1>6, <1>7, <1>8, <1>9, <1>11,
     <1>12, <1>13, <1>14, <1>15, <1>16, Zenon DEF Step

\* The steps that leave _migrations as it is.
Quiet == records' = records /\ schema' = schema /\ (exposed => exposed')

LEMMA QuietStep ==
  ASSUME IInv, Quiet, TypeOK',
         PassedIsRecorded', IndexIsThere', MaxIsThere'
  PROVE  IInv'
<1>1. Recorded' = Recorded /\ Versions' = Versions
  BY DEF Quiet, Recorded, Versions
<1>2. SchemaMatchesRecords'
  BY <1>1 DEF IInv, SchemaMatchesRecords, Quiet
<1>3. RecordedOnce'
  BY DEF IInv, RecordedOnce, Quiet
<1>4. VersionsHaveNoGap'
  BY <1>1 DEF IInv, VersionsHaveNoGap
<1> QED
  BY <1>2, <1>3, <1>4 DEF IInv

\* A process that has passed its migration has it recorded.
LEMMA PassedByAdvance ==
  ASSUME TypeOK, PassedIsRecorded, NEW p \in Procs, Advance(p),
         Recorded \subseteq Recorded', Plan[at[p]] \in Recorded'
  PROVE  PassedIsRecorded'
<1> SUFFICES ASSUME NEW q \in Procs, NEW i \in 1..Len(Plan),
                    i < at'[q] \/ pc'[q] \in {"serving", "stopped", "closed"}
             PROVE  Plan[i] \in Recorded'
  BY DEF PassedIsRecorded
<1>0. pc \in [Procs -> Steps] /\ at \in [Procs -> 1..Len(Plan)]
  BY DEF TypeOK
<1>1. CASE q # p
  <2>1. pc'[q] = pc[q] /\ at'[q] = at[q]
    BY <1>0, <1>1 DEF Advance, Goto
  <2> QED
    BY <2>1 DEF PassedIsRecorded
<1>2. CASE q = p
  <2>1. i <= at[p]
    BY <1>0, <1>2, Constants DEF Advance, Goto
  <2>2. CASE i = at[p]
    BY <2>2
  <2>3. CASE i # at[p]
    <3>1. i < at[p]
      BY <1>0, <2>1, <2>3, Constants
    <3> QED
      BY <3>1 DEF PassedIsRecorded
  <2> QED
    BY <2>2, <2>3
<1> QED
  BY <1>1, <1>2

\* The steps that move one process and leave _migrations as it is.
LEMMA QuietSteps ==
  ASSUME IInv, TypeOK', NEW p \in Procs,
         \/ Launch(p) \/ EnsureTable(p) \/ LookSchema(p) \/ LookFails(p)
         \/ MakeIndex(p) \/ IndexFails(p) \/ Check(p) \/ RunStatements(p)
         \/ ReadMax(p) \/ ReadMaxFails(p) \/ InitFails(p) \/ Die(p)
         \/ StopAll(p) \/ CloseDatabase(p) \/ StopServer(p) \/ OtherWrite(p)
  PROVE  IInv'
<1>0. /\ pc \in [Procs -> Steps] /\ at \in [Procs -> 1..Len(Plan)]
      /\ ver \in [Procs -> Nat] /\ index \in BOOLEAN /\ exposed \in BOOLEAN
      /\ PassedIsRecorded /\ IndexIsThere /\ MaxIsThere
  BY DEF IInv, TypeOK
<1>q. Quiet
  <2> USE DEF Quiet, db
  <2>1. CASE Launch(p) \/ EnsureTable(p) \/ LookSchema(p) \/ LookFails(p) \/ MakeIndex(p)
    BY <2>1 DEF Launch, EnsureTable, LookSchema, LookFails, MakeIndex
  <2>2. CASE IndexFails(p) \/ Check(p) \/ RunStatements(p) \/ ReadMax(p) \/ ReadMaxFails(p)
    BY <2>2 DEF IndexFails, Check, RunStatements, ReadMax, ReadMaxFails
  <2>3. CASE \/ InitFails(p) \/ Die(p) \/ StopAll(p) \/ CloseDatabase(p)
             \/ StopServer(p) \/ OtherWrite(p)
    BY <2>3 DEF InitFails, Die, StopAll, CloseDatabase, StopServer, Exit, OtherWrite
  <2> QED
    BY <2>1, <2>2, <2>3, Zenon
<1>r. Recorded' = Recorded /\ Versions' = Versions
  BY <1>q DEF Quiet, Recorded, Versions
<1> SUFFICES PassedIsRecorded' /\ IndexIsThere' /\ MaxIsThere'
  BY <1>q, QuietStep
<1> USE <1>0, <1>r, Constants DEF Goto, db
<1>1. CASE Launch(p)
  BY <1>1 DEF Launch, PassedIsRecorded, IndexIsThere, MaxIsThere, InMigrate
<1>2. CASE EnsureTable(p)
  BY <1>2 DEF EnsureTable, Autocommit, Outdate,
     PassedIsRecorded, IndexIsThere, MaxIsThere, InMigrate
<1>3. CASE LookSchema(p) \/ LookFails(p)
  BY <1>3 DEF LookSchema, LookFails,
     PassedIsRecorded, IndexIsThere, MaxIsThere, InMigrate
<1>4. CASE MakeIndex(p)
  BY <1>4 DEF MakeIndex, Autocommit, Outdate,
     PassedIsRecorded, IndexIsThere, MaxIsThere, InMigrate
<1>5. CASE IndexFails(p)
  BY <1>5 DEF IndexFails,
     PassedIsRecorded, IndexIsThere, MaxIsThere, InMigrate
<1>6. CASE Check(p)
  <2>1. CASE Plan[at[p]] \in Recorded /\ Advance(p)
    <3>1. PassedIsRecorded'
      BY <2>1, PassedByAdvance DEF IInv
    <3>2. IndexIsThere' /\ MaxIsThere'
      BY <1>6, <2>1 DEF Check, Advance, IndexIsThere, MaxIsThere, InMigrate
    <3> QED
      BY <3>1, <3>2
  <2>2. CASE Goto(p, "run") /\ at' = at
    BY <1>6, <2>2 DEF Check, PassedIsRecorded, IndexIsThere, MaxIsThere, InMigrate
  <2> QED
    BY <1>6, <2>1, <2>2 DEF Check
<1>7. CASE RunStatements(p)
  BY <1>7 DEF RunStatements, PassedIsRecorded, IndexIsThere, MaxIsThere, InMigrate
<1>8. CASE ReadMax(p)
  BY <1>8 DEF ReadMax, PassedIsRecorded, IndexIsThere, MaxIsThere, InMigrate
<1>9. CASE ReadMaxFails(p)
  BY <1>9 DEF ReadMaxFails, PassedIsRecorded, IndexIsThere, MaxIsThere, InMigrate
<1>10. ASSUME Exit(p) PROVE PassedIsRecorded' /\ IndexIsThere' /\ MaxIsThere'
  BY <1>10 DEF Exit, PassedIsRecorded, IndexIsThere, MaxIsThere, InMigrate
<1>11. CASE InitFails(p) \/ Die(p) \/ StopServer(p)
  BY <1>10, <1>11 DEF InitFails, Die, StopServer
<1>12. CASE StopAll(p) \/ CloseDatabase(p)
  BY <1>12 DEF StopAll, CloseDatabase, PassedIsRecorded, IndexIsThere, MaxIsThere, InMigrate
<1>13. CASE OtherWrite(p)
  BY <1>13 DEF OtherWrite, Autocommit, Outdate, PassedIsRecorded, IndexIsThere,
     MaxIsThere, InMigrate
<1> QED
  BY <1>1, <1>2, <1>3, <1>4, <1>5, <1>6, <1>7, <1>8, <1>9, <1>11, <1>12,
     <1>13, Zenon

\* The upgrade of the table keeps the names and outdates every maxVer.
LEMMA UpgradeStep ==
  ASSUME IInv, TypeOK', NEW p \in Procs, Upgrade(p)
  PROVE  IInv'
<1>0. /\ pc \in [Procs -> Steps] /\ at \in [Procs -> 1..Len(Plan)]
      /\ PassedIsRecorded /\ SchemaMatchesRecords
  BY DEF IInv, TypeOK
<1>1. Recorded' = Recorded
  <2>1. records' = {[version |-> 0, name |-> r.name] : r \in records}
    BY DEF Upgrade
  <2>2. ASSUME NEW r \in records PROVE r.name \in Recorded'
    <3>1. [version |-> 0, name |-> r.name] \in records'
      BY <2>1
    <3> QED
      BY <3>1 DEF Recorded
  <2>3. ASSUME NEW r \in records' PROVE r.name \in Recorded
    BY <2>1 DEF Recorded
  <2> QED
    BY <2>2, <2>3 DEF Recorded
<1>2. Versions' \subseteq {0}
  BY DEF Upgrade, Versions
<1>3. /\ \A q \in Procs : at'[q] = at[q]
      /\ \A q \in Procs : q # p => pc'[q] = pc[q]
      /\ pc'[p] = "index" /\ pc[p] = "upgrade"
  BY <1>0 DEF Upgrade, Goto
<1>4. SchemaMatchesRecords'
  BY <1>0, <1>1 DEF Upgrade, SchemaMatchesRecords
<1>5. PassedIsRecorded'
  BY <1>0, <1>1, <1>3 DEF PassedIsRecorded
<1>6. IndexIsThere' /\ RecordedOnce'
  BY DEF Upgrade, IndexIsThere, RecordedOnce
<1>7. MaxIsThere'
  BY <1>3 DEF MaxIsThere, Upgrade, Autocommit, Outdate
<1>8. VersionsHaveNoGap'
  BY <1>2 DEF VersionsHaveNoGap
<1> QED
  BY <1>4, <1>5, <1>6, <1>7, <1>8 DEF IInv

\* The INSERT adds one row, of a name that is new if the index was there.
LEMMA RecordStep ==
  ASSUME IInv, TypeOK', NEW p \in Procs, Record(p)
  PROVE  IInv'
<1>0. /\ pc \in [Procs -> Steps] /\ at \in [Procs -> 1..Len(Plan)]
      /\ ver \in [Procs -> Nat] /\ records \subseteq Row
      /\ PassedIsRecorded /\ SchemaMatchesRecords /\ RecordedOnce
      /\ IndexIsThere /\ MaxIsThere /\ VersionsHaveNoGap
  BY DEF IInv, TypeOK
<1> DEFINE n == Plan[at[p]]
           v == ver[p] + 1
           row == [version |-> v, name |-> n]
<1>1. /\ records' = records \cup {row} /\ schema' = schema \cup {n}
      /\ pc[p] = "record" /\ ~Refused(p) /\ Advance(p)
      /\ index' = index /\ exposed' = exposed /\ ver' = ver
      /\ stale' = (stale \ {p}) \cup {q \in Procs \ {p} : pc[q] \in {"max", "record"}}
  BY DEF Record, Outdate
<1>2. row.version = v /\ row.name = n
  OBVIOUS
<1> HIDE DEF n, v, row
<1>3. Recorded' = Recorded \cup {n} /\ Versions' = Versions \cup {v}
  BY <1>1, <1>2 DEF Recorded, Versions
<1>4. SchemaMatchesRecords'
  BY <1>0, <1>1, <1>3 DEF SchemaMatchesRecords
<1>5. PassedIsRecorded'
  <2>1. Plan[at[p]] \in Recorded' /\ Recorded \subseteq Recorded'
    BY <1>3 DEF n
  <2> QED
    BY <1>0, <1>1, <2>1, PassedByAdvance DEF IInv
<1>6. /\ \A q \in Procs : q # p => pc'[q] = pc[q]
      /\ pc'[p] \in {"ensure", "serving"}
  BY <1>0, <1>1 DEF Advance, Goto
<1>7. IndexIsThere'
  BY <1>0, <1>1, <1>6 DEF IndexIsThere, InMigrate
<1>8. RecordedOnce'
  <2> SUFFICES ASSUME ~exposed, NEW r \in records', NEW s \in records',
                      r.name = s.name
               PROVE  r = s
    BY <1>1 DEF RecordedOnce
  <2>1. index
    BY <1>0, <1>1 DEF IndexIsThere, InMigrate
  <2>2. \A r1 \in records : r1.name # n
    BY <1>1, <2>1 DEF Refused, Recorded, n
  <2>3. \A r1, s1 \in records : r1.name = s1.name => r1 = s1
    BY <1>0 DEF RecordedOnce
  <2> QED
    BY <1>1, <1>2, <2>2, <2>3
<1>9. MaxIsThere'
  BY <1>1, <1>6 DEF MaxIsThere
<1>10. VersionsHaveNoGap'
  <2>1. ver[p] = 0 \/ ver[p] \in Versions
    BY <1>0, <1>1 DEF MaxIsThere, Refused
  <2>2. v > 1 => v - 1 \in Versions
    BY <1>0, <2>1 DEF v
  <2> QED
    BY <1>0, <1>3, <2>2 DEF VersionsHaveNoGap
<1> QED
  BY <1>4, <1>5, <1>7, <1>8, <1>9, <1>10 DEF IInv

\* Every step preserves the invariant.
LEMMA NextIInv == IInv /\ [Next]_vars => IInv'
<1> SUFFICES ASSUME IInv, [Next]_vars PROVE IInv'
  OBVIOUS
<1>1. CASE UNCHANGED vars
  BY <1>1 DEF vars, db, IInv, TypeOK, SchemaMatchesRecords, Recorded, Versions,
     PassedIsRecorded, IndexIsThere, InMigrate, RecordedOnce, MaxIsThere,
     VersionsHaveNoGap
<1>2. CASE Next
  <2>1. TypeOK'
    BY <1>2, TypeStep DEF IInv
  <2>2. PICK p \in Procs : \/ Step(p) \/ LookFails(p) \/ IndexFails(p)
                           \/ ReadMaxFails(p) \/ Die(p) \/ StopAll(p)
                           \/ OtherWrite(p)
    BY <1>2, Zenon DEF Next
  <2>3. CASE Upgrade(p)
    BY <2>1, <2>3, UpgradeStep
  <2>4. CASE Record(p)
    BY <2>1, <2>4, RecordStep
  <2>5. CASE \/ Launch(p) \/ EnsureTable(p) \/ LookSchema(p) \/ LookFails(p)
             \/ MakeIndex(p) \/ IndexFails(p) \/ Check(p) \/ RunStatements(p)
             \/ ReadMax(p) \/ ReadMaxFails(p) \/ InitFails(p) \/ Die(p)
             \/ StopAll(p) \/ CloseDatabase(p) \/ StopServer(p) \/ OtherWrite(p)
    BY <2>1, <2>5, QuietSteps
  <2> QED
    BY <2>2, <2>3, <2>4, <2>5, Zenon DEF Step
<1> QED
  BY <1>1, <1>2

-----------------------------------------------------------------------------

\* The inductive invariant holds in every reachable state of Startup.
THEOREM IndInvariant == Spec => []IInv
BY InitIInv, NextIInv, PTL DEF Spec

\* The variables of Startup keep their types.
THEOREM TypeCorrect == Spec => []TypeOK
<1>1. IInv => TypeOK
  BY DEF IInv
<1> QED
  BY <1>1, IndInvariant, PTL

\* Migrate (migrate.go:24) leaves no migration half done: the schema and
\* _migrations tell the same, over any number of starts, races and deaths.
THEOREM SchemaIsRecorded == Spec => []SchemaMatchesRecords
<1>1. IInv => SchemaMatchesRecords
  BY DEF IInv
<1> QED
  BY <1>1, IndInvariant, PTL

\* A server of cmdStart (start.go:34) that serves has all of its schema.
THEOREM ServersAreMigrated == Spec => []ServingIsMigrated
<1>1. IInv => ServingIsMigrated
  BY DEF IInv, PassedIsRecorded, SchemaMatchesRecords, ServingIsMigrated
<1> QED
  BY <1>1, IndInvariant, PTL

\* As long as the index was there, it decides every race for a name
\* (migrate.go:29, 58).
THEOREM OneRecordEach == Spec => []RecordedOnce
<1>1. IInv => RecordedOnce
  BY DEF IInv
<1> QED
  BY <1>1, IndInvariant, PTL

\* The version of a row follows one that exists (migrate.go:55-58), although
\* it was read outside the transaction.
THEOREM NoGap == Spec => []VersionsHaveNoGap
<1>1. IInv => VersionsHaveNoGap
  BY DEF IInv
<1> QED
  BY <1>1, IndInvariant, PTL

-----------------------------------------------------------------------------
(***************************************************************************)
(* The winner of a race, and what a start never undoes.                    *)
(***************************************************************************)

\* An outdated snapshot is that of an open transaction.
StaleAreOpen == \A p \in stale : pc[p] \in {"max", "record"}

\* Whoever holds the lock has statements to commit that nobody has committed,
\* a snapshot that nobody outdates, and, unless its query failed, the largest
\* version.
HolderIsAhead ==
  \A p \in Procs :
    lock = p =>
      /\ pc[p] \in {"max", "record"}
      /\ p \notin stale
      /\ Plan[at[p]] \notin Recorded
      /\ pc[p] = "record" =>
           ver[p] = 0 \/ (table = "new" /\ \A w \in Versions : w <= ver[p])

Race == StaleAreOpen /\ HolderIsAhead

\* A step of a process that has no transaction and opens none.
LEMMA AsideOfRace ==
  ASSUME TypeOK, Race, NEW p \in Procs,
         pc[p] \notin {"max", "record"},
         \A q \in Procs \ {p} :
           pc'[q] = pc[q] /\ at'[q] = at[q] /\ ver'[q] = ver[q],
         UNCHANGED <<table, records, lock, stale>>
  PROVE  Race'
<1>1. stale \subseteq Procs \ {p} /\ lock # p
  BY DEF TypeOK, Race, StaleAreOpen, HolderIsAhead
<1>2. Recorded' = Recorded /\ Versions' = Versions
  BY DEF Recorded, Versions
<1>3. StaleAreOpen'
  BY <1>1 DEF Race, StaleAreOpen
<1>4. HolderIsAhead'
  BY <1>1, <1>2 DEF Race, HolderIsAhead
<1> QED
  BY <1>3, <1>4 DEF Race

\* A commit: nobody holds the lock after it.
LEMMA CommitInRace ==
  ASSUME TypeOK, Race, NEW p \in Procs, Outdate(p), lock' = Free,
         \A q \in Procs \ {p} : pc'[q] = pc[q]
  PROVE  Race'
<1>1. StaleAreOpen'
  BY DEF Outdate, TypeOK, Race, StaleAreOpen
<1>2. HolderIsAhead'
  BY Constants DEF HolderIsAhead
<1> QED
  BY <1>1, <1>2 DEF Race

\* A process that ends gives the lock back.
LEMMA ExitFromRace ==
  ASSUME TypeOK, Race, NEW p \in Procs, Exit(p)
  PROVE  Race'
<1>1. /\ \A q \in Procs \ {p} :
           pc'[q] = pc[q] /\ at'[q] = at[q] /\ ver'[q] = ver[q]
      /\ stale' = stale \ {p} /\ lock' = (IF lock = p THEN Free ELSE lock)
      /\ table' = table /\ records' = records
  BY DEF Exit, Goto, TypeOK
<1>2. Recorded' = Recorded /\ Versions' = Versions
  BY <1>1 DEF Recorded, Versions
<1>3. StaleAreOpen'
  BY <1>1 DEF TypeOK, Race, StaleAreOpen
<1>4. HolderIsAhead'
  BY <1>1, <1>2, Constants DEF Race, HolderIsAhead
<1> QED
  BY <1>3, <1>4 DEF Race

\* The transaction of a migration up to its INSERT.
LEMMA TransactionInRace ==
  ASSUME IInv, Race, NEW p \in Procs,
         RunStatements(p) \/ ReadMax(p) \/ ReadMaxFails(p)
  PROVE  Race'
<1>0. /\ TypeOK /\ schema = Recorded /\ StaleAreOpen /\ HolderIsAhead
      /\ pc \in [Procs -> Steps] /\ ver \in [Procs -> Nat]
  BY DEF IInv, TypeOK, SchemaMatchesRecords, Race
<1>1. /\ pc'[p] \in {"max", "record"} /\ at' = at
      /\ \A q \in Procs \ {p} : pc'[q] = pc[q] /\ ver'[q] = ver[q]
      /\ UNCHANGED <<table, records, stale>>
  BY <1>0 DEF RunStatements, ReadMax, ReadMaxFails, Goto, db
<1>2. Recorded' = Recorded /\ Versions' = Versions
  BY <1>1 DEF Recorded, Versions
<1>3. StaleAreOpen'
  BY <1>0, <1>1 DEF StaleAreOpen, TypeOK
<1>4. ASSUME NEW q \in Procs, lock' = q, q # p
      PROVE  lock = q
  BY <1>4 DEF RunStatements, ReadMax, ReadMaxFails, db
<1>5. ASSUME lock' = p
      PROVE  /\ p \notin stale /\ Plan[at[p]] \notin Recorded
             /\ pc'[p] = "record" =>
                  \/ ver'[p] = 0
                  \/ table = "new" /\ \A w \in Versions : w <= ver'[p]
  <2>1. CASE RunStatements(p)
    <3>1. pc[p] = "run" /\ pc'[p] = "max"
      BY <1>0, <2>1 DEF RunStatements, Goto
    <3>2. p \notin stale /\ lock # p
      BY <1>0, <3>1 DEF StaleAreOpen, HolderIsAhead
    <3> QED
      BY <1>0, <1>5, <2>1, <3>1, <3>2 DEF RunStatements
  <2>2. CASE ReadMax(p)
    <3>1. PICK v \in Versions \cup {0} :
            /\ \A w \in Versions : w <= v
            /\ ver' = [ver EXCEPT ![p] = v]
      BY <2>2 DEF ReadMax
    <3>2. lock = p /\ table = "new"
      BY <1>5, <2>2 DEF ReadMax, db
    <3> QED
      BY <1>0, <3>1, <3>2 DEF HolderIsAhead
  <2>3. CASE ReadMaxFails(p)
    <3>1. lock = p /\ ver'[p] = 0
      BY <1>0, <1>5, <2>3 DEF ReadMaxFails, db
    <3> QED
      BY <1>0, <3>1 DEF HolderIsAhead
  <2> QED
    BY <2>1, <2>2, <2>3
<1>6. HolderIsAhead'
  BY <1>0, <1>1, <1>2, <1>4, <1>5 DEF HolderIsAhead
<1> QED
  BY <1>3, <1>6 DEF Race

\* Every step preserves what is said of the race.
LEMMA RaceStep == IInv /\ Race /\ [Next]_vars => Race'
<1> SUFFICES ASSUME IInv, Race, [Next]_vars PROVE Race'
  OBVIOUS
<1>0. /\ TypeOK /\ pc \in [Procs -> Steps] /\ at \in [Procs -> 1..Len(Plan)]
      /\ ver \in [Procs -> Nat]
  BY DEF IInv, TypeOK
<1>1. CASE UNCHANGED vars
  BY <1>1 DEF vars, db, Race, StaleAreOpen, HolderIsAhead, Recorded, Versions
<1>2. CASE Next
  <2> PICK p \in Procs : \/ Step(p) \/ LookFails(p) \/ IndexFails(p)
                         \/ ReadMaxFails(p) \/ Die(p) \/ StopAll(p)
                         \/ OtherWrite(p)
    BY <1>2, Zenon DEF Next
  <2>1. CASE \/ Launch(p) \/ LookSchema(p) \/ LookFails(p) \/ IndexFails(p)
             \/ Check(p) \/ StopAll(p) \/ CloseDatabase(p)
    <3>1. /\ pc[p] \notin {"max", "record"}
          /\ \A q \in Procs \ {p} :
               pc'[q] = pc[q] /\ at'[q] = at[q] /\ ver'[q] = ver[q]
          /\ UNCHANGED <<table, records, lock, stale>>
      <4>1. CASE Launch(p) \/ LookSchema(p) \/ LookFails(p) \/ IndexFails(p)
        BY <1>0, <4>1 DEF Launch, LookSchema, LookFails, IndexFails, Goto, db
      <4>2. CASE Check(p)
        BY <1>0, <4>2 DEF Check, Advance, Goto, db
      <4>3. CASE StopAll(p) \/ CloseDatabase(p)
        BY <1>0, <4>3 DEF StopAll, CloseDatabase, Goto, db
      <4> QED
        BY <2>1, <4>1, <4>2, <4>3
    <3> QED
      BY <1>0, <3>1, AsideOfRace
  <2>2. CASE EnsureTable(p) \/ MakeIndex(p)
    <3>1. /\ pc[p] \notin {"max", "record"}
          /\ \A q \in Procs \ {p} : pc'[q] = pc[q]
          /\ at' = at /\ ver' = ver /\ records' = records
          /\ \/ UNCHANGED <<table, lock, stale>>
             \/ Outdate(p) /\ lock' = Free
      BY <1>0, <2>2 DEF EnsureTable, MakeIndex, Autocommit, Goto
    <3> QED
      BY <1>0, <3>1, AsideOfRace, CommitInRace
  <2>3. CASE Upgrade(p) \/ OtherWrite(p) \/ Record(p)
    <3>1. Outdate(p) /\ lock' = Free /\ \A q \in Procs \ {p} : pc'[q] = pc[q]
      BY <1>0, <2>3
         DEF Upgrade, OtherWrite, Record, Autocommit, Advance, Goto
    <3> QED
      BY <1>0, <3>1, CommitInRace
  <2>4. CASE RunStatements(p) \/ ReadMax(p) \/ ReadMaxFails(p)
    BY <2>4, TransactionInRace
  <2>5. CASE InitFails(p) \/ Die(p) \/ StopServer(p)
    BY <1>0, <2>5, ExitFromRace DEF InitFails, Die, StopServer
  <2> QED
    BY <2>1, <2>2, <2>3, <2>4, <2>5, Zenon DEF Step
<1> QED
  BY <1>1, <1>2

\* The process that took the write lock with its statements wins the race
\* (migrate.go:45-62): its INSERT is refused only after a failed maxVer query.
THEOREM LockHolderWins == Spec => []HolderIsNotRefused
<1>1. Init => Race
  BY Constants DEF Init, Race, StaleAreOpen, HolderIsAhead
<1>2. ASSUME IInv, Race PROVE HolderIsNotRefused
  <2> SUFFICES ASSUME NEW p \in Procs, lock = p
               PROVE  /\ pc[p] \in {"max", "record"}
                      /\ pc[p] = "record" /\ Refused(p) => ver[p] = 0
    BY Zenon DEF HolderIsNotRefused
  <2>1. /\ pc[p] \in {"max", "record"} /\ p \notin stale
        /\ Plan[at[p]] \notin Recorded
        /\ pc[p] = "record" =>
             ver[p] = 0 \/ (table = "new" /\ \A w \in Versions : w <= ver[p])
    BY <1>2 DEF Race, HolderIsAhead
  <2>2. ver[p] \in Nat
    BY <1>2 DEF IInv, TypeOK
  <2> QED
    BY <2>1, <2>2 DEF Refused
<1>3. IInv /\ Race => HolderIsNotRefused
  BY <1>2
<1> QED
  BY <1>1, <1>3, RaceStep, IndInvariant, PTL DEF Spec

\* Every step keeps what is recorded and what is in the schema.
LEMMA KeepsMigrations ==
  ASSUME IInv, [Next]_vars
  PROVE  Recorded \subseteq Recorded' /\ schema \subseteq schema'
<1>1. schema = Recorded /\ schema' = Recorded'
  BY NextIInv DEF IInv, SchemaMatchesRecords
<1>2. schema \subseteq schema'
  <2>1. CASE UNCHANGED vars
    BY <2>1 DEF vars, db
  <2>2. CASE Next
    <3> PICK p \in Procs : \/ Step(p) \/ LookFails(p) \/ IndexFails(p)
                           \/ ReadMaxFails(p) \/ Die(p) \/ StopAll(p)
                           \/ OtherWrite(p)
      BY <2>2, Zenon DEF Next
    <3>1. CASE \/ Launch(p) \/ EnsureTable(p) \/ LookSchema(p) \/ Upgrade(p)
               \/ MakeIndex(p) \/ Check(p) \/ RunStatements(p)
      BY <3>1 DEF Launch, EnsureTable, LookSchema, Upgrade, MakeIndex, Check,
         RunStatements, db
    <3>2. CASE \/ ReadMax(p) \/ Record(p) \/ InitFails(p) \/ CloseDatabase(p)
               \/ StopServer(p) \/ LookFails(p) \/ IndexFails(p)
               \/ ReadMaxFails(p)
      BY <3>2 DEF ReadMax, Record, InitFails, CloseDatabase, StopServer,
         LookFails, IndexFails, ReadMaxFails, Exit, db
    <3>3. CASE Die(p) \/ StopAll(p) \/ OtherWrite(p)
      BY <3>3 DEF Die, StopAll, OtherWrite, Exit, db
    <3> QED
      BY <3>1, <3>2, <3>3, Zenon DEF Step
  <2> QED
    BY <2>1, <2>2
<1> QED
  BY <1>1, <1>2

\* A migration that is done and recorded stays so (migrate.go:240-293, the upgrade
\* of the table, included).
THEOREM MigrationsStay == Spec => MigrationsAreKept
<1>1. IInv /\ [Next]_vars =>
        [Recorded \subseteq Recorded' /\ schema \subseteq schema']_vars
  BY KeepsMigrations
<1> QED
  BY <1>1, IndInvariant, PTL DEF Spec, MigrationsAreKept

=============================================================================
