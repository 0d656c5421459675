------------------------------- MODULE Ingest -------------------------------
(***************************************************************************)
(* The path of a reading: modules/telemetry stores it and marks its device *)
(* (modules/devices), the hook of modules/alerts evaluates the rules on    *)
(* it.  The whole path runs in the goroutine of one HTTP request or one    *)
(* MQTT client, statement by statement, between the statements of other    *)
(* readings, of rule changes and of deletions.                             *)
(*                                                                         *)
(* As in module Commands a statement is atomic, may fail, and may run on a *)
(* connection where foreign_keys is off.  The broadcasts to WebSocket      *)
(* clients change no state of these modules and are left to module WsHub.  *)
(* Organisations are left out: Evaluate loads the rules of all of them,    *)
(* and a change the organisation does not allow changes nothing (404).     *)
(***************************************************************************)
EXTENDS Integers

CONSTANTS
  Devices,    \* device ids, drawn at random by generateID: never reused
  NoDevice,   \* no device id
  Readings,   \* calls of telemetry.Store
  Rules,      \* rule ids, from the clock: never reused
  Times,      \* timestamps of readings, chosen by the client
  Metrics,    \* names of metrics
  Values,     \* numbers a metric may have
  Absent,     \* the reading does not have the metric
  Conditions, \* [metric, operator, threshold] a rule may have
  FkModes     \* values of PRAGMA foreign_keys on the connections of the pool

Operators == {">", "<", ">=", "<=", "==", "other"}

ASSUME IngestAssumption ==
  /\ Times \subseteq Nat \ {0}
  /\ Values \subseteq Int
  /\ Absent \notin Values
  /\ NoDevice \notin Devices
  /\ Conditions \subseteq
       [metric : Metrics, operator : Operators, threshold : Int]
  /\ Conditions # {}
  /\ FkModes \in (SUBSET BOOLEAN) \ {{}}

VARIABLES
  device,   \* table devices: whether the row is there, status, last_seen
  rule,     \* table alert_rules
  rows,     \* table telemetry: the readings that have a row
  events,   \* table alert_events
  report,   \* where each call of Store is, and what it was called with
  todo,     \* the rules a call has loaded, matched and not yet raised
  \* history
  inserted, \* readings that had a row at some time
  faulted,  \* readings whose evaluation met a failing statement
  some,     \* what was armed at some time between a reading's INSERT and the
            \* loading of the rules for it
  all       \* what was armed all that time

history == <<inserted, faulted, some, all>>
vars == <<device, rule, rows, events, report, todo, history>>

Here(row) == row.state = "here"

NewDevice == [state |-> "fresh", online |-> FALSE, seen |-> 0]

(***************************************************************************)
(* modules/alerts/evaluator.go                                             *)
(***************************************************************************)
matches(c, val) ==
  \/ c.operator = ">"  /\ val > c.threshold
  \/ c.operator = "<"  /\ val < c.threshold
  \/ c.operator = ">=" /\ val >= c.threshold
  \/ c.operator = "<=" /\ val <= c.threshold
  \/ c.operator = "==" /\ val = c.threshold

\* A reading whose metrics are not all numbers has, for OnTelemetry, none.
Fires(r, c) ==
  LET val == report[r].metrics[c.metric]
  IN  val # Absent /\ matches(c, val)

\* SELECT ... FROM alert_rules WHERE enabled = 1
Armed(table) ==
  {a \in Rules \X Conditions :
     LET row == table[a[1]] IN Here(row) /\ row.enabled /\ row.cond = a[2]}

\* History: what is armed after this step, for the readings that are inserted
\* and have not loaded the rules.
Watch ==
  LET waits(r) == report'[r].pc \in {"touch", "evaluate"}
  IN  /\ some' = [r \in Readings |->
                    IF waits(r) THEN some[r] \union Armed(rule') ELSE some[r]]
      /\ all' = [r \in Readings |->
                   CASE ~waits(r) -> all[r]
                     [] waits(r) /\ report[r].pc = "insert" -> Armed(rule')
                     [] waits(r) /\ report[r].pc # "insert" ->
                          all[r] \intersect Armed(rule')]

(***************************************************************************)
(* Devices                                                                 *)
(***************************************************************************)
Register(d) ==
  /\ device[d].state = "fresh"
  /\ device' = [device EXCEPT ![d] = [NewDevice EXCEPT !.state = "here"]]
  /\ UNCHANGED <<rule, rows, events, report, todo, history>>

RowsOf(d) == {r \in rows : report[r].dev = d}

DeleteDevice(d) ==                 \* ON DELETE CASCADE for table telemetry
  /\ Here(device[d])
  /\ device' = [device EXCEPT ![d] = [NewDevice EXCEPT !.state = "gone"]]
  /\ \E foreignKeys \in FkModes :
       rows' = IF foreignKeys THEN rows \ RowsOf(d) ELSE rows
  /\ UNCHANGED <<rule, events, report, todo, history>>

(***************************************************************************)
(* Alert rules                                                             *)
(***************************************************************************)
CreateRule(x, c, on) ==
  /\ rule[x].state = "fresh"
  /\ rule' = [rule EXCEPT ![x] =
                [state |-> "here", cond |-> c, enabled |-> on]]
  /\ UNCHANGED <<device, rows, events, report, todo, inserted, faulted>>
  /\ Watch

UpdateRule(x, c, on) ==            \* the operator is not validated here
  /\ Here(rule[x])
  /\ rule' = [rule EXCEPT ![x] = [@ EXCEPT !.cond = c, !.enabled = on]]
  /\ UNCHANGED <<device, rows, events, report, todo, inserted, faulted>>
  /\ Watch

\* alert_events references alert_rules without ON DELETE: with foreign keys
\* enforced a rule that has raised an alert stays, and the answer is 500.
DeleteRule(x) ==
  /\ Here(rule[x])
  /\ \E foreignKeys \in FkModes :
       foreignKeys => \A e \in events : e.rule # x
  /\ rule' = [rule EXCEPT ![x] = [@ EXCEPT !.state = "gone"]]
  /\ UNCHANGED <<device, rows, events, report, todo, inserted, faulted>>
  /\ Watch

(***************************************************************************)
(* telemetry.Store, from handleIngest and from the MQTT hook OnPublished.  *)
(***************************************************************************)
Step(r, from, to) ==
  /\ report[r].pc = from
  /\ report' = [report EXCEPT ![r] = [@ EXCEPT !.pc = to]]

Store(r, d, ts, m) ==
  /\ report[r].pc = "idle"
  /\ report' = [report EXCEPT ![r] =
                  [pc |-> "insert", dev |-> d, ts |-> ts, metrics |-> m]]
  /\ UNCHANGED <<device, rule, rows, events, todo, history>>

InsertReading(r) ==
  /\ Step(r, "insert", "touch")
  /\ \E foreignKeys \in FkModes : foreignKeys => Here(device[report[r].dev])
  /\ rows' = rows \union {r}
  /\ inserted' = inserted \union {r}
  /\ UNCHANGED <<device, rule, events, todo, faulted>>
  /\ Watch

InsertReadingFails(r) ==           \* busy, or the foreign key: 500
  /\ Step(r, "insert", "failed")
  /\ UNCHANGED <<device, rule, rows, events, todo, history>>

\* Mutant: the UPDATE is an upsert.
MutTouchUpserts(r) ==
  LET d == report[r].dev IN
  /\ Step(r, "touch", "evaluate")
  /\ device' = [device EXCEPT ![d] = [@ EXCEPT !.online = TRUE, !.seen = report[r].ts]]
  /\ UNCHANGED <<rule, rows, events, todo, history>>

\* UPDATE devices SET status='online', last_seen=? WHERE id=?
TouchDevice(r) ==
  LET d == report[r].dev IN
  /\ Step(r, "touch", "evaluate")
  /\ device' = IF Here(device[d])
                 THEN [device EXCEPT ![d] =
                         [@ EXCEPT !.online = TRUE, !.seen = report[r].ts]]
                 ELSE device
  /\ UNCHANGED <<rule, rows, events, todo, history>>

TouchFails(r) ==                   \* Exec's error is ignored
  /\ Step(r, "touch", "evaluate")
  /\ UNCHANGED <<device, rule, rows, events, todo, history>>

\* Mutant: the query loads disabled rules, too.
MutLoadRules(r) ==
  /\ Step(r, "evaluate", "raise")
  /\ todo' = [todo EXCEPT ![r] =
                {a \in Rules \X Conditions :
                   Here(rule[a[1]]) /\ rule[a[1]].cond = a[2] /\ Fires(r, a[2])}]
  /\ UNCHANGED <<device, rule, rows, events, history>>

LoadRules(r) ==
  /\ Step(r, "evaluate", "raise")
  /\ todo' = [todo EXCEPT ![r] = {a \in Armed(rule) : Fires(r, a[2])}]
  /\ UNCHANGED <<device, rule, rows, events, history>>

LoadFails(r) ==                    \* logged; nothing is evaluated
  /\ Step(r, "evaluate", "raise")
  /\ faulted' = faulted \union {r}
  /\ UNCHANGED <<device, rule, rows, events, todo, inserted, some, all>>

\* Mutant: the evaluation ends with the first rule that fires.
MutRaise(r, a) ==
  /\ report[r].pc = "raise" /\ a \in todo[r]
  /\ \E foreignKeys \in FkModes : foreignKeys => Here(rule[a[1]])
  /\ todo' = [todo EXCEPT ![r] = {}]
  /\ events' = events \union
       {[rule |-> a[1], cond |-> a[2], reading |-> r]}
  /\ UNCHANGED <<device, rule, rows, report, history>>

\* Mutant: the alert is written with the rule as it is now.
MutRaiseAnew(r, a) ==
  /\ report[r].pc = "raise" /\ a \in todo[r]
  /\ \E foreignKeys \in FkModes : foreignKeys => Here(rule[a[1]])
  /\ todo' = [todo EXCEPT ![r] = @ \ {a}]
  /\ events' = events \union
       {[rule |-> a[1], cond |-> rule[a[1]].cond, reading |-> r]}
  /\ UNCHANGED <<device, rule, rows, report, history>>

Raise(r, a) ==
  /\ report[r].pc = "raise" /\ a \in todo[r]
  /\ \E foreignKeys \in FkModes : foreignKeys => Here(rule[a[1]])
  /\ todo' = [todo EXCEPT ![r] = @ \ {a}]
  /\ events' = events \union
       {[rule |-> a[1], cond |-> a[2], reading |-> r]}
  /\ UNCHANGED <<device, rule, rows, report, history>>

RaiseFails(r, a) ==                \* Exec's error is ignored
  /\ report[r].pc = "raise" /\ a \in todo[r]
  /\ todo' = [todo EXCEPT ![r] = @ \ {a}]
  /\ faulted' = faulted \union {r}
  /\ UNCHANGED <<device, rule, rows, events, report, inserted, some, all>>

Answer(r) ==                       \* 201
  /\ todo[r] = {}
  /\ Step(r, "raise", "done")
  /\ UNCHANGED <<device, rule, rows, events, todo, history>>

Crash ==
  /\ report' = [r \in Readings |->
                  IF report[r].pc \in {"idle", "failed", "done"} THEN report[r]
                  ELSE [report[r] EXCEPT !.pc = "lost"]]
  /\ todo' = [r \in Readings |-> {}]
  /\ UNCHANGED <<device, rule, rows, events, history>>

NoRule == [state |-> "fresh", cond |-> CHOOSE c \in Conditions : TRUE,
           enabled |-> FALSE]

NoReport == [pc |-> "idle", dev |-> NoDevice, ts |-> 0,
             metrics |-> [m \in Metrics |-> Absent]]

Init ==
  /\ device = [d \in Devices |-> NewDevice]
  /\ rule = [x \in Rules |-> NoRule]
  /\ rows = {} /\ events = {}
  /\ report = [r \in Readings |-> NoReport]
  /\ todo = [r \in Readings |-> {}]
  /\ inserted = {} /\ faulted = {}
  /\ some = [r \in Readings |-> {}] /\ all = [r \in Readings |-> {}]

MetricMaps == [Metrics -> Values \union {Absent}]

Handle(r) ==
  \/ InsertReading(r) \/ InsertReadingFails(r)
  \/ TouchDevice(r) \/ TouchFails(r)
  \/ LoadRules(r) \/ LoadFails(r)
  \/ \E a \in todo[r] : Raise(r, a) \/ RaiseFails(r, a)
  \/ Answer(r)

Next ==
  \/ \E d \in Devices : Register(d) \/ DeleteDevice(d)
  \/ \E x \in Rules, c \in Conditions, on \in BOOLEAN :
       CreateRule(x, c, on) \/ UpdateRule(x, c, on)
  \/ \E x \in Rules : DeleteRule(x)
  \/ \E r \in Readings, d \in Devices, ts \in Times, m \in MetricMaps :
       Store(r, d, ts, m)
  \/ \E r \in Readings : Handle(r)
  \/ Crash

Spec == Init /\ [][Next]_vars

-----------------------------------------------------------------------------
(***************************************************************************)
(* Properties                                                              *)
(***************************************************************************)
RowStates == {"fresh", "here", "gone"}

DeviceRows == [state : RowStates, online : BOOLEAN,
               seen : Times \union {0}]

RuleRows == [state : RowStates, cond : Conditions, enabled : BOOLEAN]

ReportStates == {"idle", "insert", "touch", "evaluate", "raise", "done", "failed",
                 "lost"}

Reports == [pc : ReportStates, dev : Devices \union {NoDevice},
            ts : Times \union {0}, metrics : MetricMaps]

AlertRows == [rule : Rules, cond : Conditions, reading : Readings]

TypeOK ==
  /\ device \in [Devices -> DeviceRows]
  /\ rule \in [Rules -> RuleRows]
  /\ rows \subseteq Readings
  /\ events \subseteq AlertRows
  /\ report \in [Readings -> Reports]
  /\ todo \in [Readings -> SUBSET (Rules \X Conditions)]
  /\ inserted \subseteq Readings /\ faulted \subseteq Readings
  /\ some \in [Readings -> SUBSET (Rules \X Conditions)]
  /\ all \in [Readings -> SUBSET (Rules \X Conditions)]

\* An alert is never spurious or doubled: its reading was stored, its rule was
\* enabled with just the condition the reading meets at some time after that,
\* and the reading raised no other alert of the rule, however rules are
\* changed, disabled or deleted while the reading is evaluated.
AlertsAreSound ==
  \A e \in events :
    /\ e.reading \in inserted
    /\ <<e.rule, e.cond>> \in some[e.reading]
    /\ Fires(e.reading, e.cond)
    /\ \A f \in events : f.rule = e.rule /\ f.reading = e.reading => f = e

\* No alert is missed: once a reading is answered, every rule that was enabled
\* with a condition the reading meets from its INSERT to the loading of the
\* rules has raised its alert, unless a statement of the evaluation failed.
AlertsAreComplete ==
  \A r \in Readings \ faulted :
    report[r].pc = "done" =>
      \A a \in all[r] : Fires(r, a[2]) =>
        \E e \in events : e.rule = a[1] /\ e.cond = a[2] /\ e.reading = r

\* A device shows the time of a reading that was stored for it, and is online
\* exactly when it shows one: not for a reading whose INSERT failed, and not
\* from an earlier life of its row.
SeenIsStored ==
  \A d \in Devices :
    /\ device[d].online <=> device[d].seen # 0
    /\ device[d].online =>
         /\ Here(device[d])
         /\ \E r \in inserted : report[r].dev = d /\ report[r].ts = device[d].seen

\* Does not hold.  Docs/architecture.md:107 says the database runs with
\* foreign_keys=ON, so that no reading should be left without its device and no
\* alert without its rule; db.go:103-115 sets it on one connection of the pool.
NoOrphanRows ==
  /\ \A r \in rows : Here(device[report[r].dev])
  /\ \A e \in events : Here(rule[e.rule])

\* Evaluation implements judging at one instant: an alarm is a rule with the
\* condition it has, and the instant is the query that loads the rules.
Stage(pc) ==
  CASE pc = "idle"                 -> "new"
    [] pc = "insert"               -> "asked"
    [] pc \in {"touch", "evaluate"} -> "kept"
    [] pc = "raise"                -> "judged"
    [] pc = "done"                 -> "answered"
    [] pc = "failed"               -> "refused"
    [] pc = "lost"                 -> "lost"

dutyStage == [r \in Readings |-> Stage(report[r].pc)]

dutyMeets ==
  [r \in Readings |-> {a \in Rules \X Conditions : Fires(r, a[2])}]

dutyRaised == {<<e.reading, <<e.rule, e.cond>>>> : e \in events}

Duty == INSTANCE AlertDuty
  WITH Alarms <- Rules \X Conditions, armed <- Armed(rule),
       stage <- dutyStage, meets <- dutyMeets, due <- todo,
       raised <- dutyRaised, excused <- faulted

\* Every step of Store, of a rule's change and of a crash is one of AlertDuty:
\* no reading is judged by half of the old rules and half of the new.
EvaluatedAtOnce == Duty!DutySpec
-----------------------------------------------------------------------------
(***************************************************************************)
(* The inductive invariant.  It follows a call of Store: what it has       *)
(* loaded was armed in its window, is one condition of each rule, and has  *)
(* not been raised yet; what it had to raise is loaded or raised.          *)
(***************************************************************************)
RowsFollowCalls ==
  /\ rows \subseteq inserted
  /\ \A r \in Readings :
       /\ report[r].pc \in {"idle", "insert", "failed"} => r \notin inserted
       /\ report[r].pc \in {"touch", "evaluate", "raise", "done"} => r \in inserted
       /\ report[r].pc # "idle" => /\ report[r].dev \in Devices
                                  /\ report[r].ts \in Times
       /\ todo[r] # {} => report[r].pc = "raise"

WindowIsWatched ==
  \A r \in Readings :
    report[r].pc \in {"touch", "evaluate"} =>
      all[r] \subseteq Armed(rule) /\ Armed(rule) \subseteq some[r]

LoadedOnce ==
  \A r \in Readings : \A a \in todo[r] :
    /\ a \in some[r] /\ Fires(r, a[2])
    /\ \A b \in todo[r] : b[1] = a[1] => b = a
    /\ \A e \in events : e.reading = r => e.rule # a[1]

RaisedAfterLoading ==
  \A e \in events : report[e.reading].pc \in {"raise", "done", "lost"}

NoneForgotten ==
  \A r \in Readings \ faulted :
    report[r].pc \in {"raise", "done"} =>
      \A a \in all[r] : Fires(r, a[2]) =>
        \/ a \in todo[r]
        \/ \E e \in events : e.rule = a[1] /\ e.cond = a[2] /\ e.reading = r

IInv ==
  /\ TypeOK /\ RowsFollowCalls /\ WindowIsWatched /\ LoadedOnce
  /\ RaisedAfterLoading /\ NoneForgotten
  /\ AlertsAreSound /\ SeenIsStored
=============================================================================
