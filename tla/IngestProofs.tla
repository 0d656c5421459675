---------------------------- MODULE IngestProofs ----------------------------
(***************************************************************************)
(* Proofs about module Ingest, for any number of devices, readings, rules  *)
(* and conditions.                                                         *)
(***************************************************************************)
EXTENDS Ingest, TLAPS

USE DEF history, vars

LEMMA InitIInv == Init => IInv
<1> SUFFICES ASSUME Init PROVE IInv
  OBVIOUS
<1>1. TypeOK
  <2>1. (CHOOSE c \in Conditions : TRUE) \in Conditions
    BY IngestAssumption
  <2> QED BY <2>1 DEF Init, TypeOK, NoRule, NoReport, NewDevice, DeviceRows,
             RuleRows, Reports, RowStates, ReportStates, MetricMaps
<1>2. RowsFollowCalls /\ WindowIsWatched
  BY DEF Init, RowsFollowCalls, WindowIsWatched, NoReport
<1>3. LoadedOnce /\ RaisedAfterLoading /\ NoneForgotten
  BY DEF Init, LoadedOnce, RaisedAfterLoading, NoneForgotten, NoReport
<1>4. AlertsAreSound /\ SeenIsStored
  BY DEF Init, AlertsAreSound, SeenIsStored, NewDevice
<1> QED BY <1>1, <1>2, <1>3, <1>4 DEF IInv
-----------------------------------------------------------------------------
(***************************************************************************)
(* What the operators of the model do                                      *)
(***************************************************************************)

\* A step of a call moves its pc and nothing else of any call.
LEMMA StepFacts ==
  ASSUME TypeOK, NEW r \in Readings, NEW from, NEW to \in ReportStates,
         Step(r, from, to)
  PROVE  /\ report[r].pc = from /\ report'[r].pc = to
         /\ report' \in [Readings -> Reports]
         /\ \A x \in Readings \ {r} : report'[x] = report[x]
         /\ \A x \in Readings : /\ report'[x].dev = report[x].dev
                                /\ report'[x].ts = report[x].ts
                                /\ report'[x].metrics = report[x].metrics
         /\ \A x \in Readings : \A c : Fires(x, c)' <=> Fires(x, c)
<1>1. /\ report[r].pc = from
      /\ report' = [report EXCEPT ![r] = [report[r] EXCEPT !.pc = to]]
      /\ report \in [Readings -> Reports]
  BY DEF Step, TypeOK
<1>2. /\ report'[r].pc = to
      /\ report' \in [Readings -> Reports]
      /\ \A x \in Readings \ {r} : report'[x] = report[x]
      /\ \A x \in Readings : /\ report'[x].dev = report[x].dev
                             /\ report'[x].ts = report[x].ts
                             /\ report'[x].metrics = report[x].metrics
  BY <1>1 DEF Reports
<1>3. \A x \in Readings : \A c : Fires(x, c)' <=> Fires(x, c)
  BY <1>2 DEF Fires
<1> QED BY <1>1, <1>2, <1>3

\* The enabled rules, each with the one condition that it has.
LEMMA ArmedFacts ==
  /\ Armed(rule) \subseteq Rules \X Conditions
  /\ \A a, b \in Armed(rule) : a[1] = b[1] => a = b
BY DEF Armed

\* The windows of waiting readings take in what is armed after the step, and
\* those of all others stay.
LEMMA WatchFacts ==
  ASSUME TypeOK, Watch
  PROVE  /\ some' \in [Readings -> SUBSET (Rules \X Conditions)]
         /\ all' \in [Readings -> SUBSET (Rules \X Conditions)]
         /\ \A r \in Readings :
              /\ some[r] \subseteq some'[r]
              /\ report'[r].pc \in {"touch", "evaluate"} =>
                   all'[r] \subseteq Armed(rule') /\ Armed(rule') \subseteq some'[r]
              /\ report'[r].pc \notin {"touch", "evaluate"} => all'[r] = all[r]
<1>1. Armed(rule') \subseteq Rules \X Conditions
  BY DEF Armed
<1>2. /\ some \in [Readings -> SUBSET (Rules \X Conditions)]
      /\ all \in [Readings -> SUBSET (Rules \X Conditions)]
  BY DEF TypeOK
<1>3. /\ some' \in [Readings -> SUBSET (Rules \X Conditions)]
      /\ \A r \in Readings :
           /\ some[r] \subseteq some'[r]
           /\ report'[r].pc \in {"touch", "evaluate"} =>
                Armed(rule') \subseteq some'[r]
  <2>1. some' = [r \in Readings |->
                   IF report'[r].pc \in {"touch", "evaluate"}
                     THEN some[r] \union Armed(rule') ELSE some[r]]
    BY DEF Watch
  <2> QED BY <1>1, <1>2, <2>1
<1>4. /\ all' \in [Readings -> SUBSET (Rules \X Conditions)]
      /\ \A r \in Readings :
           /\ report'[r].pc \in {"touch", "evaluate"} =>
                all'[r] \subseteq Armed(rule')
           /\ report'[r].pc \notin {"touch", "evaluate"} => all'[r] = all[r]
  <2>1. all' = [r \in Readings |->
                  IF report'[r].pc \notin {"touch", "evaluate"} THEN all[r]
                  ELSE IF report[r].pc = "insert" THEN Armed(rule')
                  ELSE all[r] \intersect Armed(rule')]
    BY DEF Watch
  <2> QED BY <1>1, <1>2, <2>1
<1> QED BY <1>3, <1>4
-----------------------------------------------------------------------------
(***************************************************************************)
(* Devices and rules                                                       *)
(***************************************************************************)
LEMMA RegisterIInv ==
  ASSUME IInv, NEW d \in Devices, Register(d)
  PROVE  IInv'
<1> USE DEF IInv, Register
<1>1. TypeOK'
  BY DEF TypeOK, DeviceRows, NewDevice, RowStates
<1>2. RowsFollowCalls' /\ WindowIsWatched' /\ RaisedAfterLoading'
  BY DEF RowsFollowCalls, WindowIsWatched, RaisedAfterLoading
<1>3. LoadedOnce' /\ NoneForgotten' /\ AlertsAreSound'
  BY DEF LoadedOnce, NoneForgotten, AlertsAreSound, Fires
<1>4. SeenIsStored'
  BY DEF SeenIsStored, TypeOK, NewDevice
<1> QED BY <1>1, <1>2, <1>3, <1>4

LEMMA DeleteDeviceIInv ==
  ASSUME IInv, NEW d \in Devices, DeleteDevice(d)
  PROVE  IInv'
<1> USE DEF IInv, DeleteDevice
<1>1. TypeOK'
  BY DEF TypeOK, DeviceRows, NewDevice, RowStates, RowsOf
<1>2. RowsFollowCalls' /\ WindowIsWatched' /\ RaisedAfterLoading'
  BY DEF RowsFollowCalls, WindowIsWatched, RaisedAfterLoading
<1>3. LoadedOnce' /\ NoneForgotten' /\ AlertsAreSound'
  BY DEF LoadedOnce, NoneForgotten, AlertsAreSound, Fires
<1>4. SeenIsStored'
  BY DEF SeenIsStored, TypeOK, NewDevice
<1> QED BY <1>1, <1>2, <1>3, <1>4

\* A change of the rules that leaves the calls alone moves only the windows:
\* no waiting call has loaded anything, and all others keep their windows.
LEMMA RuleChangeIInv ==
  ASSUME IInv, rule' \in [Rules -> RuleRows], Watch,
         UNCHANGED <<device, rows, events, report, todo, inserted, faulted>>
  PROVE  IInv'
<1> USE DEF IInv
<1>1. TypeOK'
  BY WatchFacts DEF TypeOK
<1>2. RowsFollowCalls' /\ RaisedAfterLoading' /\ SeenIsStored'
  BY DEF RowsFollowCalls, RaisedAfterLoading, SeenIsStored
<1>3. WindowIsWatched'
  BY WatchFacts DEF WindowIsWatched, Armed
<1>4. LoadedOnce'
  BY WatchFacts DEF LoadedOnce, Fires
<1>5. NoneForgotten'
  BY WatchFacts DEF NoneForgotten, Fires
<1>6. AlertsAreSound'
  BY WatchFacts DEF AlertsAreSound, Fires, TypeOK, AlertRows
<1> QED BY <1>1, <1>2, <1>3, <1>4, <1>5, <1>6

LEMMA CreateRuleIInv ==
  ASSUME IInv, NEW x \in Rules, NEW c \in Conditions, NEW on \in BOOLEAN,
         CreateRule(x, c, on)
  PROVE  IInv'
<1> USE DEF IInv, CreateRule
<1>1. rule' \in [Rules -> RuleRows]
  BY DEF TypeOK, RuleRows, RowStates
<1> QED BY <1>1, RuleChangeIInv

LEMMA UpdateRuleIInv ==
  ASSUME IInv, NEW x \in Rules, NEW c \in Conditions, NEW on \in BOOLEAN,
         UpdateRule(x, c, on)
  PROVE  IInv'
<1> USE DEF IInv, UpdateRule
<1>1. rule' \in [Rules -> RuleRows]
  BY DEF TypeOK, RuleRows, RowStates
<1> QED BY <1>1, RuleChangeIInv

LEMMA DeleteRuleIInv ==
  ASSUME IInv, NEW x \in Rules, DeleteRule(x)
  PROVE  IInv'
<1> USE DEF IInv, DeleteRule
<1>1. rule' \in [Rules -> RuleRows]
  BY DEF TypeOK, RuleRows, RowStates
<1> QED BY <1>1, RuleChangeIInv
-----------------------------------------------------------------------------
(***************************************************************************)
(* telemetry.Store and the evaluation                                      *)
(***************************************************************************)
LEMMA StoreIInv ==
  ASSUME IInv, NEW r \in Readings, NEW d \in Devices, NEW ts \in Times,
         NEW m \in MetricMaps, Store(r, d, ts, m)
  PROVE  IInv'
<1> USE DEF IInv, Store
<1>1. /\ report[r].pc = "idle" /\ r \notin inserted /\ r \notin rows
      /\ todo[r] = {} /\ \A e \in events : e.reading # r
  BY DEF RowsFollowCalls, RaisedAfterLoading
<1>2. /\ report' \in [Readings -> Reports]
      /\ report'[r] = [pc |-> "insert", dev |-> d, ts |-> ts, metrics |-> m]
      /\ \A x \in Readings \ {r} : report'[x] = report[x]
  BY DEF TypeOK, Reports, ReportStates
<1>3. \A x \in Readings \ {r} : \A c : Fires(x, c)' <=> Fires(x, c)
  BY <1>2 DEF Fires
<1>4. TypeOK'
  BY <1>2 DEF TypeOK
<1>5. RowsFollowCalls' /\ WindowIsWatched'
  BY <1>1, <1>2 DEF RowsFollowCalls, WindowIsWatched
<1>6. LoadedOnce'
  BY <1>1, <1>3 DEF LoadedOnce
<1>7. RaisedAfterLoading'
  BY <1>1, <1>2 DEF RaisedAfterLoading, TypeOK, AlertRows
<1>8. NoneForgotten'
  BY <1>1, <1>2, <1>3 DEF NoneForgotten
<1>9. AlertsAreSound'
  BY <1>1, <1>3 DEF AlertsAreSound, TypeOK, AlertRows
<1>10. SeenIsStored'
  BY <1>1, <1>2 DEF SeenIsStored, TypeOK
<1> QED BY <1>4, <1>5, <1>6, <1>7, <1>8, <1>9, <1>10

LEMMA InsertReadingIInv ==
  ASSUME IInv, NEW r \in Readings, InsertReading(r)
  PROVE  IInv'
<1> USE DEF IInv, InsertReading
<1>1. /\ report[r].pc = "insert" /\ report'[r].pc = "touch"
      /\ report' \in [Readings -> Reports]
      /\ \A x \in Readings \ {r} : report'[x] = report[x]
      /\ \A x \in Readings : report'[x].dev = report[x].dev
                             /\ report'[x].ts = report[x].ts
      /\ \A x \in Readings : \A c : Fires(x, c)' <=> Fires(x, c)
  BY StepFacts DEF ReportStates
<1>2. /\ todo[r] = {} /\ \A e \in events : e.reading # r
      /\ report[r].dev \in Devices /\ report[r].ts \in Times
  BY <1>1 DEF RowsFollowCalls, RaisedAfterLoading
<1>3. TypeOK'
  BY <1>1, WatchFacts DEF TypeOK
<1>4. RowsFollowCalls'
  BY <1>1, <1>2 DEF RowsFollowCalls
<1>5. WindowIsWatched'
  BY WatchFacts DEF WindowIsWatched, Armed
<1>6. LoadedOnce'
  BY <1>1, WatchFacts DEF LoadedOnce
<1>7. RaisedAfterLoading'
  BY <1>1, <1>2 DEF RaisedAfterLoading, TypeOK, AlertRows
<1>8. NoneForgotten'
  BY <1>1, WatchFacts DEF NoneForgotten
<1>9. AlertsAreSound'
  BY <1>1, WatchFacts DEF AlertsAreSound, TypeOK, AlertRows
<1>10. SeenIsStored'
  BY <1>1 DEF SeenIsStored, TypeOK
<1> QED BY <1>3, <1>4, <1>5, <1>6, <1>7, <1>8, <1>9, <1>10

\* A step of a call after its INSERT, or the failing INSERT, that changes no
\* rule, no row and no alert: what the call has loaded is for the caller to
\* say.
LEMMA MoveIInv ==
  ASSUME IInv, NEW r \in Readings, NEW from \in ReportStates,
         NEW to \in ReportStates, Step(r, from, to),
         <<from, to>> \in {<<"insert", "failed">>, <<"touch", "evaluate">>,
                           <<"evaluate", "raise">>, <<"raise", "done">>},
         UNCHANGED <<rule, rows, events, inserted, some, all>>,
         device' \in [Devices -> DeviceRows], SeenIsStored',
         \A d \in Devices : Here(device[d]) <=> Here(device'[d]),
         todo' \in [Readings -> SUBSET (Rules \X Conditions)],
         \A x \in Readings \ {r} : todo'[x] = todo[x],
         to # "raise" => todo'[r] = {},
         \A a \in todo'[r] : a \in Armed(rule) /\ Fires(r, a[2]),
         faulted' \in {faulted, faulted \union {r}},
         r \notin faulted' /\ to \in {"raise", "done"} =>
           \A a \in all[r] : Fires(r, a[2]) =>
             \/ a \in todo'[r]
             \/ \E e \in events : e.rule = a[1] /\ e.cond = a[2] /\ e.reading = r
  PROVE  IInv'
<1> USE DEF IInv
<1>1. /\ report[r].pc = from /\ report'[r].pc = to
      /\ report' \in [Readings -> Reports]
      /\ \A x \in Readings \ {r} : report'[x] = report[x]
      /\ \A x \in Readings : report'[x].dev = report[x].dev
                             /\ report'[x].ts = report[x].ts
      /\ \A x \in Readings : \A c : Fires(x, c)' <=> Fires(x, c)
  BY StepFacts
<1>2. TypeOK'
  BY <1>1 DEF TypeOK
<1>3. RowsFollowCalls'
  BY <1>1 DEF RowsFollowCalls
<1>4. WindowIsWatched'
  BY <1>1 DEF WindowIsWatched, Armed
<1>5. LoadedOnce'
  <2> SUFFICES ASSUME NEW x \in Readings, NEW a \in todo'[x]
               PROVE  /\ a \in some[x] /\ Fires(x, a[2])'
                      /\ \A b \in todo'[x] : b[1] = a[1] => b = a
                      /\ \A e \in events : e.reading = x => e.rule # a[1]
    BY DEF LoadedOnce
  <2>1. CASE x # r
    BY <1>1, <2>1 DEF LoadedOnce
  <2>2. CASE x = r
    <3>1. from = "evaluate"
      BY <2>2 DEF RowsFollowCalls
    <3>2. a \in some[x] /\ Fires(x, a[2])'
      BY <1>1, <2>2, <3>1 DEF WindowIsWatched
    <3>3. \A b \in todo'[x] : b[1] = a[1] => b = a
      BY <2>2, ArmedFacts
    <3>4. \A e \in events : e.reading # x
      BY <1>1, <2>2, <3>1 DEF RaisedAfterLoading
    <3> QED BY <3>2, <3>3, <3>4
  <2> QED BY <2>1, <2>2
<1>6. RaisedAfterLoading'
  BY <1>1 DEF RaisedAfterLoading, TypeOK, AlertRows
<1>7. NoneForgotten'
  BY <1>1 DEF NoneForgotten
<1>8. AlertsAreSound'
  BY <1>1 DEF AlertsAreSound, TypeOK, AlertRows
<1> QED BY <1>2, <1>3, <1>4, <1>5, <1>6, <1>7, <1>8

LEMMA MovesIInv ==
  ASSUME IInv, NEW r \in Readings,
         \/ InsertReadingFails(r) \/ TouchFails(r) \/ LoadRules(r) \/ LoadFails(r)
         \/ Answer(r)
  PROVE  IInv'
<1> USE DEF IInv
<1>1. /\ device \in [Devices -> DeviceRows]
      /\ todo \in [Readings -> SUBSET (Rules \X Conditions)]
  BY DEF TypeOK
<1>2. ASSUME UNCHANGED <<device, inserted>>,
             NEW from, NEW to \in ReportStates, Step(r, from, to)
      PROVE  SeenIsStored'
  BY <1>2, StepFacts DEF SeenIsStored, TypeOK
<1>3. CASE InsertReadingFails(r)
  <2>1. todo[r] = {}
    BY <1>3 DEF InsertReadingFails, Step, RowsFollowCalls
  <2> QED BY <1>1, <1>2, <1>3, <2>1, MoveIInv DEF InsertReadingFails, ReportStates
<1>4. CASE TouchFails(r)
  <2>1. todo[r] = {}
    BY <1>4 DEF TouchFails, Step, RowsFollowCalls
  <2> QED BY <1>1, <1>2, <1>4, <2>1, MoveIInv DEF TouchFails, ReportStates
<1>5. CASE LoadRules(r)
  <2>1. /\ todo'[r] = {a \in Armed(rule) : Fires(r, a[2])}
        /\ \A x \in Readings \ {r} : todo'[x] = todo[x]
        /\ todo' \in [Readings -> SUBSET (Rules \X Conditions)]
    BY <1>1, <1>5, ArmedFacts DEF LoadRules
  <2>2. all[r] \subseteq Armed(rule)
    BY <1>5 DEF LoadRules, Step, WindowIsWatched
  <2> QED BY <1>1, <1>2, <1>5, <2>1, <2>2, MoveIInv DEF LoadRules, ReportStates
<1>6. CASE LoadFails(r)
  <2>1. todo[r] = {}
    BY <1>6 DEF LoadFails, Step, RowsFollowCalls
  <2> QED BY <1>1, <1>2, <1>6, <2>1, MoveIInv DEF LoadFails, ReportStates
<1>7. CASE Answer(r)
  <2>1. r \notin faulted =>
          \A a \in all[r] : Fires(r, a[2]) =>
            \E e \in events : e.rule = a[1] /\ e.cond = a[2] /\ e.reading = r
    BY <1>7 DEF Answer, Step, NoneForgotten
  <2> QED BY <1>1, <1>2, <1>7, <2>1, MoveIInv DEF Answer, ReportStates
<1> QED BY <1>3, <1>4, <1>5, <1>6, <1>7

\* The UPDATE of the device shows the time of a reading that has its row.
LEMMA TouchDeviceIInv ==
  ASSUME IInv, NEW r \in Readings, TouchDevice(r)
  PROVE  IInv'
<1> DEFINE d == report[r].dev
<1> USE DEF IInv
<1>1. /\ report[r].pc = "touch" /\ Step(r, "touch", "evaluate")
      /\ UNCHANGED <<rule, rows, events, todo, history>>
  BY DEF TouchDevice, Step
<1>2. r \in inserted /\ d \in Devices /\ report[r].ts \in Times /\ todo[r] = {}
  BY <1>1 DEF RowsFollowCalls
<1>3. /\ device' = IF Here(device[d])
                     THEN [device EXCEPT ![d] =
                             [device[d] EXCEPT !.online = TRUE,
                                               !.seen = report[r].ts]]
                     ELSE device
      /\ device \in [Devices -> DeviceRows]
  BY DEF TouchDevice, TypeOK
<1>4. /\ device' \in [Devices -> DeviceRows]
      /\ \A x \in Devices : Here(device[x]) <=> Here(device'[x])
      /\ \A x \in Devices \ {d} : device'[x] = device[x]
      /\ \/ device'[d] = device[d]
         \/ /\ device'[d].online = TRUE /\ device'[d].seen = report[r].ts
            /\ Here(device'[d])
  BY <1>2, <1>3 DEF DeviceRows, Here
<1>5. \A x \in Readings : report'[x].dev = report[x].dev
                          /\ report'[x].ts = report[x].ts
  BY <1>1, StepFacts DEF ReportStates
<1>6. report[r].ts # 0
  BY <1>2, IngestAssumption
<1>7. SeenIsStored'
  <2> SUFFICES ASSUME NEW x \in Devices
               PROVE  /\ device'[x].online <=> device'[x].seen # 0
                      /\ device'[x].online =>
                           /\ Here(device'[x])
                           /\ \E y \in inserted : /\ report'[y].dev = x
                                                  /\ report'[y].ts = device'[x].seen
    BY <1>1 DEF SeenIsStored
  <2>1. inserted \subseteq Readings
    BY DEF TypeOK
  <2>2. CASE device'[x] = device[x]
    BY <1>5, <2>1, <2>2 DEF SeenIsStored
  <2>3. CASE x = d /\ device'[d] # device[d]
    BY <1>2, <1>4, <1>5, <1>6, <2>3
  <2> QED BY <1>4, <2>2, <2>3
<1> QED BY <1>1, <1>2, <1>4, <1>7, MoveIInv DEF ReportStates, TypeOK

\* An alert is raised by a rule that has raised none for this reading.
LEMMA RaiseIInv ==
  ASSUME IInv, NEW r \in Readings, NEW a \in todo[r], Raise(r, a)
  PROVE  IInv'
<1> DEFINE new == [rule |-> a[1], cond |-> a[2], reading |-> r]
<1> USE DEF IInv
<1>1. /\ report[r].pc = "raise" /\ r \in inserted
      /\ a \in Rules \X Conditions /\ a = <<a[1], a[2]>>
      /\ a \in some[r] /\ Fires(r, a[2])
      /\ \A b \in todo[r] : b[1] = a[1] => b = a
      /\ \A e \in events : e.reading = r => e.rule # a[1]
  <2>1. /\ report[r].pc = "raise" /\ r \in inserted
        /\ a \in Rules \X Conditions
        /\ a \in some[r] /\ Fires(r, a[2])
    BY DEF Raise, RowsFollowCalls, LoadedOnce, TypeOK
  <2>2. \A b \in todo[r] : b[1] = a[1] => b = a
    BY DEF LoadedOnce
  <2>3. \A e \in events : e.reading = r => e.rule # a[1]
    BY DEF LoadedOnce
  <2> QED BY <2>1, <2>2, <2>3
<1>2. /\ todo'[r] = todo[r] \ {a}
      /\ \A x \in Readings \ {r} : todo'[x] = todo[x]
      /\ todo' \in [Readings -> SUBSET (Rules \X Conditions)]
      /\ events' = events \union {new}
      /\ UNCHANGED <<device, rule, rows, report, history>>
  BY DEF Raise, TypeOK
<1>3. new \in AlertRows
  BY <1>1 DEF AlertRows
<1>4. TypeOK'
  BY <1>2, <1>3 DEF TypeOK
<1>5. \A x \in Readings : \A c : Fires(x, c)' <=> Fires(x, c)
  BY <1>2 DEF Fires
<1>6. RowsFollowCalls' /\ WindowIsWatched' /\ SeenIsStored'
  BY <1>1, <1>2 DEF RowsFollowCalls, WindowIsWatched, SeenIsStored
<1>7. LoadedOnce'
  <2> SUFFICES ASSUME NEW x \in Readings, NEW b \in todo'[x]
               PROVE  /\ b \in some[x] /\ Fires(x, b[2])
                      /\ \A z \in todo'[x] : z[1] = b[1] => z = b
                      /\ \A e \in events' : e.reading = x => e.rule # b[1]
    BY <1>2, <1>5 DEF LoadedOnce
  <2>1. b \in todo[x] /\ todo'[x] \subseteq todo[x] /\ (x = r => b # a)
    BY <1>2
  <2>2. /\ b \in some[x] /\ Fires(x, b[2])
        /\ \A z \in todo'[x] : z[1] = b[1] => z = b
        /\ \A e \in events : e.reading = x => e.rule # b[1]
    BY <2>1 DEF LoadedOnce
  <2>3. x = r => b[1] # a[1]
    BY <1>1, <2>1
  <2> QED BY <1>2, <2>2, <2>3
<1>8. RaisedAfterLoading'
  BY <1>1, <1>2 DEF RaisedAfterLoading
<1>9. NoneForgotten'
  <2> SUFFICES ASSUME NEW x \in Readings \ faulted,
                      report[x].pc \in {"raise", "done"},
                      NEW b \in all[x], Fires(x, b[2])
               PROVE  \/ b \in todo'[x]
                      \/ \E e \in events' : /\ e.rule = b[1]
                                            /\ e.cond = b[2]
                                            /\ e.reading = x
    BY <1>2, <1>5 DEF NoneForgotten
  <2>1. \/ b \in todo[x]
        \/ \E e \in events : e.rule = b[1] /\ e.cond = b[2] /\ e.reading = x
    BY DEF NoneForgotten
  <2>2. CASE x = r /\ b = a
    <3>1. /\ new \in events' /\ new.rule = b[1] /\ new.cond = b[2]
          /\ new.reading = x
      BY <1>2, <2>2
    <3> QED BY <3>1
  <2>3. CASE ~(x = r /\ b = a)
    BY <1>2, <2>1, <2>3
  <2> QED BY <2>2, <2>3
<1>10. AlertsAreSound'
  <2> SUFFICES ASSUME NEW e \in events'
               PROVE  /\ e.reading \in inserted
                      /\ <<e.rule, e.cond>> \in some[e.reading]
                      /\ Fires(e.reading, e.cond)
                      /\ \A f \in events' :
                           f.rule = e.rule /\ f.reading = e.reading => f = e
    BY <1>2, <1>5 DEF AlertsAreSound, TypeOK
  <2>1. CASE e \in events
    BY <1>1, <1>2, <2>1 DEF AlertsAreSound
  <2>2. CASE e = new
    BY <1>1, <1>2, <2>2
  <2> QED BY <1>2, <2>1, <2>2
<1> QED BY <1>4, <1>6, <1>7, <1>8, <1>9, <1>10

LEMMA RaiseFailsIInv ==
  ASSUME IInv, NEW r \in Readings, NEW a \in todo[r], RaiseFails(r, a)
  PROVE  IInv'
<1> USE DEF IInv
<1>1. /\ report[r].pc = "raise"
      /\ todo'[r] \subseteq todo[r]
      /\ \A x \in Readings \ {r} : todo'[x] = todo[x]
      /\ todo' \in [Readings -> SUBSET (Rules \X Conditions)]
      /\ faulted' = faulted \union {r}
      /\ UNCHANGED <<device, rule, rows, events, report, inserted, some, all>>
  BY DEF RaiseFails, TypeOK
<1>2. \A x \in Readings : \A c : Fires(x, c)' <=> Fires(x, c)
  BY <1>1 DEF Fires
<1>3. TypeOK'
  BY <1>1 DEF TypeOK
<1>4. RowsFollowCalls' /\ WindowIsWatched' /\ RaisedAfterLoading'
  BY <1>1 DEF RowsFollowCalls, WindowIsWatched, RaisedAfterLoading
<1>5. LoadedOnce'
  BY <1>1, <1>2 DEF LoadedOnce
<1>6. NoneForgotten'
  BY <1>1, <1>2 DEF NoneForgotten
<1>7. AlertsAreSound' /\ SeenIsStored'
  BY <1>1, <1>2 DEF AlertsAreSound, SeenIsStored, TypeOK
<1> QED BY <1>3, <1>4, <1>5, <1>6, <1>7

\* A crash loses the calls under way and what they have loaded.
LEMMA CrashIInv ==
  ASSUME IInv, Crash
  PROVE  IInv'
<1> USE DEF IInv
<1>1. /\ report' \in [Readings -> Reports]
      /\ \A x \in Readings :
           /\ report'[x].pc = IF report[x].pc \in {"idle", "failed", "done"}
                                THEN report[x].pc ELSE "lost"
           /\ report'[x].dev = report[x].dev
           /\ report'[x].ts = report[x].ts
           /\ report'[x].metrics = report[x].metrics
           /\ todo'[x] = {}
      /\ todo' \in [Readings -> SUBSET (Rules \X Conditions)]
      /\ UNCHANGED <<device, rule, rows, events, history>>
  BY DEF Crash, TypeOK, Reports, ReportStates
<1>2. \A x \in Readings : \A c : Fires(x, c)' <=> Fires(x, c)
  BY <1>1 DEF Fires
<1>3. TypeOK'
  BY <1>1 DEF TypeOK
<1>4. RowsFollowCalls' /\ WindowIsWatched' /\ LoadedOnce'
  BY <1>1 DEF RowsFollowCalls, WindowIsWatched, LoadedOnce
<1>5. RaisedAfterLoading'
  BY <1>1 DEF RaisedAfterLoading, TypeOK, AlertRows
<1>6. NoneForgotten'
  BY <1>1, <1>2 DEF NoneForgotten, RowsFollowCalls
<1>7. AlertsAreSound'
  BY <1>1, <1>2 DEF AlertsAreSound, TypeOK, AlertRows
<1>8. SeenIsStored'
  <2>1. inserted \subseteq Readings /\ inserted' = inserted /\ device' = device
    BY <1>1 DEF TypeOK
  <2> QED BY <1>1, <2>1 DEF SeenIsStored
<1> QED BY <1>3, <1>4, <1>5, <1>6, <1>7, <1>8

LEMMA StutterIInv == IInv /\ UNCHANGED vars => IInv'
BY DEF IInv, TypeOK, RowsFollowCalls, WindowIsWatched, LoadedOnce,
   RaisedAfterLoading, NoneForgotten, AlertsAreSound, SeenIsStored,
   Armed, Fires

LEMMA NextIInv == IInv /\ [Next]_vars => IInv'
<1> SUFFICES ASSUME IInv, Next PROVE IInv'
  BY StutterIInv
<1>1. ASSUME NEW d \in Devices, Register(d) \/ DeleteDevice(d) PROVE IInv'
  BY <1>1, RegisterIInv, DeleteDeviceIInv
<1>2. ASSUME NEW x \in Rules, NEW c \in Conditions, NEW on \in BOOLEAN,
             CreateRule(x, c, on) \/ UpdateRule(x, c, on)
      PROVE  IInv'
  BY <1>2, CreateRuleIInv, UpdateRuleIInv
<1>3. ASSUME NEW x \in Rules, DeleteRule(x) PROVE IInv'
  BY <1>3, DeleteRuleIInv
<1>4. ASSUME NEW r \in Readings, NEW d \in Devices, NEW ts \in Times,
             NEW m \in MetricMaps, Store(r, d, ts, m)
      PROVE  IInv'
  BY <1>4, StoreIInv
<1>5. ASSUME NEW r \in Readings, Handle(r) PROVE IInv'
  BY <1>5, InsertReadingIInv, MovesIInv, TouchDeviceIInv, RaiseIInv,
     RaiseFailsIInv DEF Handle
<1> QED BY <1>1, <1>2, <1>3, <1>4, <1>5, CrashIInv DEF Next
-----------------------------------------------------------------------------
\* IInv is inductive: it holds over every interleaving of readings, rule
\* changes, deletions, failing statements and crashes.
THEOREM IndInvariant == Spec => []IInv
BY InitIInv, NextIInv, PTL DEF Spec

\* Every variable keeps its type.
THEOREM TypeCorrect == Spec => []TypeOK
<1>1. IInv => TypeOK
  BY DEF IInv
<1> QED BY <1>1, IndInvariant, PTL

\* For any number of readings and rules: each alert is of a stored reading
\* and of a rule that was enabled with that condition in the reading's
\* window, and it is the only one of the two, whatever PUT and DELETE do to
\* the rules while OnTelemetry runs.
THEOREM Soundness == Spec => []AlertsAreSound
<1>1. IInv => AlertsAreSound
  BY DEF IInv
<1> QED BY <1>1, IndInvariant, PTL

\* For any number of readings and rules: when Store answers without a failed
\* statement, each rule armed throughout the window that the reading meets
\* has its alert.
THEOREM Completeness == Spec => []AlertsAreComplete
<1>1. IInv => AlertsAreComplete
  BY DEF IInv, AlertsAreComplete, NoneForgotten, RowsFollowCalls
<1> QED BY <1>1, IndInvariant, PTL

\* What a device shows as last_seen is the time of a reading that was stored
\* for it.
THEOREM ShownIsStored == Spec => []SeenIsStored
<1>1. IInv => SeenIsStored
  BY DEF IInv
<1> QED BY <1>1, IndInvariant, PTL
-----------------------------------------------------------------------------
(***************************************************************************)
(* The path of a reading implements AlertDuty.                             *)
(***************************************************************************)

\* Where the steps of Store are in the abstract.
LEMMA Stages ==
  /\ Stage("idle") = "new" /\ Stage("insert") = "asked"
  /\ Stage("touch") = "kept" /\ Stage("evaluate") = "kept"
  /\ Stage("raise") = "judged" /\ Stage("done") = "answered"
  /\ Stage("failed") = "refused" /\ Stage("lost") = "lost"
<1>1. Stage("idle") = "new" /\ Stage("insert") = "asked"
  BY DEF Stage
<1>2. Stage("touch") = "kept" /\ Stage("evaluate") = "kept"
  BY DEF Stage
<1>3. Stage("raise") = "judged" /\ Stage("done") = "answered"
  BY DEF Stage
<1>4. Stage("failed") = "refused" /\ Stage("lost") = "lost"
  BY DEF Stage
<1> QED BY <1>1, <1>2, <1>3, <1>4

\* What the abstract state is made of, when the calls stay where they are.
LEMMA CallsStay ==
  ASSUME UNCHANGED report
  PROVE  UNCHANGED <<dutyStage, dutyMeets>>
BY DEF dutyStage, dutyMeets, Fires

\* A step of one call moves its stage, and no call's metrics.
LEMMA CallMoves ==
  ASSUME TypeOK, NEW r \in Readings, NEW from \in ReportStates,
         NEW to \in ReportStates, Step(r, from, to)
  PROVE  /\ report[r].pc = from /\ report'[r].pc = to
         /\ dutyStage[r] = Stage(from)
         /\ dutyStage' = [dutyStage EXCEPT ![r] = Stage(to)]
         /\ UNCHANGED dutyMeets
<1>1. /\ report[r].pc = from /\ report'[r].pc = to
      /\ \A x \in Readings \ {r} : report'[x] = report[x]
      /\ \A x \in Readings : \A c : Fires(x, c)' <=> Fires(x, c)
  BY StepFacts
<1>2. dutyStage' = [dutyStage EXCEPT ![r] = Stage(to)]
  BY <1>1 DEF dutyStage
<1>3. UNCHANGED dutyMeets
  BY <1>1 DEF dutyMeets
<1> QED BY <1>1, <1>2, <1>3 DEF dutyStage

\* Registrations and deletions of devices are none of the duty's business.
LEMMA DeviceRefines ==
  ASSUME NEW d \in Devices, Register(d) \/ DeleteDevice(d)
  PROVE  UNCHANGED Duty!dutyVars
<1>1. UNCHANGED <<rule, events, report, todo, faulted>>
  BY DEF Register, DeleteDevice
<1> QED BY <1>1, CallsStay DEF Duty!dutyVars, Armed, dutyRaised

\* A change of a rule arms another set at once.
LEMMA RuleRefines ==
  ASSUME UNCHANGED <<events, report, todo, faulted>>
  PROVE  Duty!Rearm
<1>1. Armed(rule)' \in SUBSET (Rules \X Conditions)
  BY DEF Armed
<1> QED BY <1>1, CallsStay DEF Duty!Rearm, dutyRaised

LEMMA StoreRefines ==
  ASSUME IInv, NEW r \in Readings, NEW d \in Devices, NEW ts \in Times,
         NEW m \in MetricMaps, Store(r, d, ts, m)
  PROVE  Duty!Ask(r)
<1> DEFINE set == {a \in Rules \X Conditions : Fires(r, a[2])'}
<1>1. /\ report \in [Readings -> Reports]
      /\ report[r].pc = "idle"
      /\ report' = [report EXCEPT ![r] =
                      [pc |-> "insert", dev |-> d, ts |-> ts, metrics |-> m]]
      /\ UNCHANGED <<rule, events, todo, faulted>>
  BY DEF IInv, TypeOK, Store
<1>2. /\ report'[r].pc = "insert"
      /\ \A x \in Readings \ {r} : report'[x] = report[x]
  BY <1>1
<1>3. /\ dutyStage[r] = "new"
      /\ dutyStage' = [dutyStage EXCEPT ![r] = "asked"]
  BY <1>1, <1>2, Stages DEF dutyStage
<1>4. \A x \in Readings \ {r} : \A c : Fires(x, c)' <=> Fires(x, c)
  BY <1>2 DEF Fires
<1>5. dutyMeets' = [dutyMeets EXCEPT ![r] = set]
  BY <1>4 DEF dutyMeets
<1>6. set \in SUBSET (Rules \X Conditions)
  OBVIOUS
<1> HIDE DEF set
<1> QED BY <1>1, <1>3, <1>5, <1>6 DEF Duty!Ask, Duty!Move, Armed, dutyRaised

\* The INSERT keeps the reading, its failure refuses it; the touch of the
\* device shows nothing.
LEMMA InsertRefines ==
  ASSUME IInv, NEW r \in Readings,
         InsertReading(r) \/ InsertReadingFails(r) \/ TouchDevice(r) \/ TouchFails(r)
  PROVE  Duty!Keep(r) \/ Duty!Refuse(r) \/ UNCHANGED Duty!dutyVars
<1>0. TypeOK /\ UNCHANGED <<rule, events, todo, faulted>>
  BY DEF IInv, InsertReading, InsertReadingFails, TouchDevice, TouchFails
<1>1. UNCHANGED <<Armed(rule), dutyRaised>>
  BY <1>0 DEF Armed, dutyRaised
<1>2. CASE InsertReading(r)
  <2>1. Step(r, "insert", "touch")
    BY <1>2 DEF InsertReading
  <2> QED BY <1>0, <1>1, <2>1, CallMoves, Stages
      DEF ReportStates, Duty!Keep, Duty!Move
<1>3. CASE InsertReadingFails(r)
  <2>1. Step(r, "insert", "failed")
    BY <1>3 DEF InsertReadingFails
  <2> QED BY <1>0, <1>1, <2>1, CallMoves, Stages
      DEF ReportStates, Duty!Refuse, Duty!Move
<1>4. CASE TouchDevice(r) \/ TouchFails(r)
  <2>1. Step(r, "touch", "evaluate")
    BY <1>4 DEF TouchDevice, TouchFails
  <2>2. /\ dutyStage[r] = "kept" /\ dutyStage' = [dutyStage EXCEPT ![r] = "kept"]
        /\ UNCHANGED dutyMeets
    BY <1>0, <2>1, CallMoves, Stages DEF ReportStates
  <2>3. dutyStage' = dutyStage
    BY <2>2 DEF dutyStage
  <2> QED BY <1>0, <1>1, <2>2, <2>3 DEF Duty!dutyVars
<1> QED BY <1>2, <1>3, <1>4

\* The query of the rules is the instant of the judgement.
LEMMA LoadRefines ==
  ASSUME IInv, NEW r \in Readings, LoadRules(r) \/ LoadFails(r) \/ Answer(r)
  PROVE  Duty!Judge(r) \/ Duty!Excuse(r) \/ Duty!Answer(r)
<1>0. TypeOK /\ UNCHANGED <<rule, events>>
  BY DEF IInv, LoadRules, LoadFails, Answer
<1>1. UNCHANGED <<Armed(rule), dutyRaised>>
  BY <1>0 DEF Armed, dutyRaised
<1>2. CASE LoadRules(r)
  <2>1. Step(r, "evaluate", "raise") /\ UNCHANGED faulted
    BY <1>2 DEF LoadRules
  <2>2. {a \in Armed(rule) : Fires(r, a[2])} = Armed(rule) \intersect dutyMeets[r]
    BY ArmedFacts DEF dutyMeets
  <2>3. todo' = [todo EXCEPT ![r] = Armed(rule) \intersect dutyMeets[r]]
    BY <1>2, <2>2 DEF LoadRules
  <2> QED BY <1>0, <1>1, <2>1, <2>3, CallMoves, Stages
      DEF ReportStates, Duty!Judge, Duty!Move
<1>3. CASE LoadFails(r)
  <2>1. /\ Step(r, "evaluate", "raise") /\ UNCHANGED todo
        /\ faulted' = faulted \union {r}
    BY <1>3 DEF LoadFails
  <2> QED BY <1>0, <1>1, <2>1, CallMoves, Stages
      DEF ReportStates, Duty!Excuse, Duty!Move
<1>4. CASE Answer(r)
  <2>1. Step(r, "raise", "done") /\ todo[r] = {} /\ UNCHANGED <<todo, faulted>>
    BY <1>4 DEF Answer
  <2> QED BY <1>0, <1>1, <2>1, CallMoves, Stages
      DEF ReportStates, Duty!Answer, Duty!Move
<1> QED BY <1>2, <1>3, <1>4

\* An INSERT of an alert, or its failure, settles one alarm that is due.
LEMMA RaiseRefines ==
  ASSUME IInv, NEW r \in Readings, NEW a \in todo[r],
         Raise(r, a) \/ RaiseFails(r, a)
  PROVE  Duty!Raise(r, a) \/ Duty!Miss(r, a)
<1>0. UNCHANGED <<rule, report>> /\ report[r].pc = "raise"
  BY DEF Raise, RaiseFails
<1>1. dutyStage[r] = "judged" /\ UNCHANGED <<dutyStage, dutyMeets, Armed(rule)>>
  BY <1>0, CallsStay, Stages DEF dutyStage, Armed
<1>2. CASE Raise(r, a)
  <2>1. /\ todo' = [todo EXCEPT ![r] = @ \ {a}]
        /\ events' = events \union {[rule |-> a[1], cond |-> a[2], reading |-> r]}
        /\ UNCHANGED faulted
    BY <1>2 DEF Raise
  <2>2. a = <<a[1], a[2]>>
    BY DEF IInv, TypeOK
  <2>3. dutyRaised' = dutyRaised \union {<<r, <<a[1], a[2]>>>>}
    <3> DEFINE new == [rule |-> a[1], cond |-> a[2], reading |-> r]
    <3>1. new.rule = a[1] /\ new.cond = a[2] /\ new.reading = r
      OBVIOUS
    <3>2. events' = events \union {new}
      BY <2>1
    <3> HIDE DEF new
    <3> QED BY <3>1, <3>2 DEF dutyRaised
  <2>4. \A e \in events : e.reading = r => e.rule # a[1]
    BY DEF IInv, LoadedOnce
  <2>5. <<r, a>> \notin dutyRaised
    BY <2>2, <2>4 DEF dutyRaised
  <2> QED BY <1>1, <2>1, <2>2, <2>3, <2>5 DEF Duty!Raise
<1>3. CASE RaiseFails(r, a)
  <2>1. /\ todo' = [todo EXCEPT ![r] = @ \ {a}]
        /\ faulted' = faulted \union {r} /\ UNCHANGED events
    BY <1>3 DEF RaiseFails
  <2> QED BY <1>1, <2>1 DEF Duty!Miss, dutyRaised
<1> QED BY <1>2, <1>3

LEMMA CrashRefines ==
  ASSUME IInv, Crash
  PROVE  Duty!Crash
<1>1. /\ \A x \in Readings :
           /\ report'[x].pc = IF report[x].pc \in {"idle", "failed", "done"}
                                THEN report[x].pc ELSE "lost"
           /\ report'[x].metrics = report[x].metrics
           /\ report[x].pc \in ReportStates
      /\ todo' = [x \in Readings |-> {}]
      /\ UNCHANGED <<rule, events, faulted>>
  BY DEF Crash, IInv, TypeOK, Reports
<1>2. \A x \in Readings : \A c : Fires(x, c)' <=> Fires(x, c)
  BY <1>1 DEF Fires
<1>3. UNCHANGED <<dutyMeets, Armed(rule), dutyRaised>>
  BY <1>1, <1>2 DEF dutyMeets, Armed, dutyRaised
<1>4. \A x \in Readings :
        Stage(report'[x].pc) =
          IF Stage(report[x].pc) \in {"refused", "answered", "lost", "new"}
            THEN Stage(report[x].pc) ELSE "lost"
  BY <1>1, Stages DEF ReportStates
<1>5. dutyStage' = [x \in Readings |->
                     IF dutyStage[x] \in Duty!Ended \union {"new"}
                       THEN dutyStage[x] ELSE "lost"]
  BY <1>4 DEF dutyStage, Duty!Ended
<1> QED BY <1>1, <1>3, <1>5 DEF Duty!Crash

\* Every step is one of the duty, or shows nothing of it.
LEMMA StepRefines ==
  ASSUME IInv, [Next]_vars
  PROVE  [Duty!DutyNext]_(Duty!dutyVars)
<1>1. CASE UNCHANGED vars
  <2>1. UNCHANGED <<rule, events, report, todo, faulted>>
    BY <1>1
  <2> QED BY <2>1, CallsStay DEF Duty!dutyVars, Armed, dutyRaised
<1>2. CASE \E d \in Devices : Register(d) \/ DeleteDevice(d)
  BY <1>2, DeviceRefines
<1>3. CASE \/ \E x \in Rules, c \in Conditions, on \in BOOLEAN :
                CreateRule(x, c, on) \/ UpdateRule(x, c, on)
           \/ \E x \in Rules : DeleteRule(x)
  <2>1. UNCHANGED <<events, report, todo, faulted>>
    <3>1. CASE \E x \in Rules, c \in Conditions, on \in BOOLEAN :
                 CreateRule(x, c, on) \/ UpdateRule(x, c, on)
      BY <3>1, Zenon DEF CreateRule, UpdateRule
    <3>2. CASE \E x \in Rules : DeleteRule(x)
      BY <3>2, Zenon DEF DeleteRule
    <3> QED BY <1>3, <3>1, <3>2
  <2> QED BY <2>1, RuleRefines DEF Duty!DutyNext
<1>4. CASE \E r \in Readings, d \in Devices, ts \in Times, m \in MetricMaps :
             Store(r, d, ts, m)
  BY <1>4, StoreRefines DEF Duty!DutyNext, Duty!Treat
<1>5. ASSUME NEW r \in Readings, Handle(r)
      PROVE  Duty!Treat(r) \/ UNCHANGED Duty!dutyVars
  <2>1. CASE \/ InsertReading(r) \/ InsertReadingFails(r)
             \/ TouchDevice(r) \/ TouchFails(r)
    BY <2>1, InsertRefines DEF Duty!Treat
  <2>2. CASE LoadRules(r) \/ LoadFails(r) \/ Answer(r)
    BY <2>2, LoadRefines DEF Duty!Treat
  <2>3. CASE \E a \in todo[r] : Raise(r, a) \/ RaiseFails(r, a)
    BY <2>3, RaiseRefines DEF Duty!Treat
  <2> QED BY <1>5, <2>1, <2>2, <2>3 DEF Handle
<1>6. CASE Crash
  BY <1>6, CrashRefines DEF Duty!DutyNext
<1> QED BY <1>1, <1>2, <1>3, <1>4, <1>5, <1>6 DEF Next, Duty!DutyNext

\* Store and OnTelemetry implement AlertDuty: however readings, changes of
\* rules, failures and crashes meet, each reading is judged at one instant,
\* against the rules of that instant.
THEOREM EvaluationIsAtomic == Spec => EvaluatedAtOnce
<1>1. Init => Duty!DutyInit
  <2> SUFFICES ASSUME Init PROVE Duty!DutyInit
    OBVIOUS
  <2>1. /\ \A r \in Readings : /\ report[r].pc = "idle"
                               /\ \A m \in Metrics : report[r].metrics[m] = Absent
        /\ events = {} /\ faulted = {} /\ todo = [r \in Readings |-> {}]
    BY DEF Init, NoReport
  <2>2. Armed(rule) = {}
    BY DEF Init, Armed, NoRule, Here
  <2>3. dutyStage = [r \in Readings |-> "new"] /\ dutyRaised = {}
    BY <2>1, Stages DEF dutyStage, dutyRaised
  <2>4. \A c \in Conditions : c.metric \in Metrics
    BY IngestAssumption
  <2>5. dutyMeets = [r \in Readings |-> {}]
    BY <2>1, <2>4 DEF dutyMeets, Fires
  <2> QED BY <2>1, <2>2, <2>3, <2>5 DEF Duty!DutyInit
<1>2. IInv /\ [Next]_vars => [Duty!DutyNext]_(Duty!dutyVars)
  BY StepRefines
<1> QED BY <1>1, <1>2, IndInvariant, PTL
           DEF Spec, EvaluatedAtOnce, Duty!DutySpec

\* A step of the duty leaves what has ended alone.
LEMMA EndedStays ==
  ASSUME [Duty!DutyNext]_(Duty!dutyVars)
  PROVE  [Duty!Settles]_(Duty!dutyVars)
<1> SUFFICES /\ dutyRaised \subseteq dutyRaised'
             /\ \A r \in Readings :
                  dutyStage[r] \in Duty!Ended =>
                    /\ dutyStage'[r] = dutyStage[r]
                    /\ Duty!RaisedBy(r)' = Duty!RaisedBy(r)
  BY DEF Duty!Settles
<1>0. /\ Duty!Ended = {"refused", "answered", "lost"}
      /\ \A r \in Readings : \A s : \A x \in Readings :
           dutyStage' = [dutyStage EXCEPT ![r] = s] /\ x # r =>
             dutyStage'[x] = dutyStage[x]
  BY DEF Duty!Ended, dutyStage
<1>1. CASE \/ UNCHANGED Duty!dutyVars
           \/ Duty!Rearm
  BY <1>1 DEF Duty!dutyVars, Duty!Rearm, Duty!RaisedBy
<1>2. CASE Duty!Crash
  BY <1>0, <1>2 DEF Duty!Crash, Duty!RaisedBy
<1>3. ASSUME NEW r \in Readings, NEW from, NEW to,
             from \in {"new", "asked", "kept", "judged"},
             Duty!Move(r, from, to), UNCHANGED dutyRaised
      PROVE  \A x \in Readings :
               dutyStage[x] \in Duty!Ended =>
                 /\ dutyStage'[x] = dutyStage[x]
                 /\ Duty!RaisedBy(x)' = Duty!RaisedBy(x)
  BY <1>0, <1>3 DEF Duty!Move, Duty!RaisedBy
<1>4. CASE \E r \in Readings :
             \/ Duty!Ask(r) \/ Duty!Keep(r) \/ Duty!Refuse(r) \/ Duty!Judge(r)
             \/ Duty!Excuse(r) \/ Duty!Answer(r)
  <2>1. /\ UNCHANGED dutyRaised
        /\ \E r \in Readings :
             \E from \in {"new", "asked", "kept", "judged"} : \E to :
               Duty!Move(r, from, to)
    BY <1>4 DEF Duty!Ask, Duty!Keep, Duty!Refuse, Duty!Judge, Duty!Excuse,
       Duty!Answer
  <2> QED BY <1>3, <2>1
<1>5. CASE \E r \in Readings : \E a \in todo[r] : Duty!Raise(r, a) \/ Duty!Miss(r, a)
  <2> PICK r \in Readings : \E a \in todo[r] : Duty!Raise(r, a) \/ Duty!Miss(r, a)
    BY <1>5
  <2> PICK a \in todo[r] : Duty!Raise(r, a) \/ Duty!Miss(r, a)
    OBVIOUS
  <2>1. /\ dutyStage[r] = "judged" /\ UNCHANGED dutyStage
        /\ dutyRaised' \in {dutyRaised, dutyRaised \union {<<r, a>>}}
    BY DEF Duty!Raise, Duty!Miss
  <2> QED BY <1>0, <2>1 DEF Duty!RaisedBy
<1> QED BY <1>1, <1>2, <1>4, <1>5 DEF Duty!DutyNext, Duty!Treat

\* No alert is taken back, and a reading that was answered, refused or lost
\* raises no more: not the rest of an evaluation that a crash cut off.
THEOREM EndedIsSettled == Spec => Duty!Settled
<1>1. [Duty!DutyNext]_(Duty!dutyVars) => [Duty!Settles]_(Duty!dutyVars)
  BY EndedStays
<1> QED BY <1>1, EvaluationIsAtomic, PTL
           DEF EvaluatedAtOnce, Duty!DutySpec, Duty!Settled
=============================================================================
