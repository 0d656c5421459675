------------------------------ MODULE AlertDuty ------------------------------
(***************************************************************************)
(* What the alert rules promise about readings, without tables, handlers,  *)
(* statements or connections.                                              *)
(*                                                                         *)
(* A reading that is kept is judged at one instant, against all the alarms *)
(* that are armed at that instant and no others.  What it then owes it     *)
(* raises, each alarm once, and only then is it answered.  A failure       *)
(* excuses it from what it owes; a crash ends what is under way.           *)
(***************************************************************************)
CONSTANTS Readings, Alarms

VARIABLES
  armed,    \* the alarms that are set
  stage,    \* where each reading is
  meets,    \* the alarms each reading would set off
  due,      \* what it has been judged to owe and has not raised
  raised,   \* <<reading, alarm>>
  excused   \* readings that a failure has cost an alarm, or may have

dutyVars == <<armed, stage, meets, due, raised, excused>>

DutyInit ==
  /\ armed = {}
  /\ stage = [r \in Readings |-> "new"]
  /\ meets = [r \in Readings |-> {}]
  /\ due = [r \in Readings |-> {}]
  /\ raised = {}
  /\ excused = {}

Move(r, from, to) ==
  /\ stage[r] = from
  /\ stage' = [stage EXCEPT ![r] = to]

Rearm ==
  /\ UNCHANGED <<stage, meets, due, raised, excused>>
  /\ armed' \in SUBSET Alarms

Ask(r) ==
  /\ Move(r, "new", "asked")
  /\ \E set \in SUBSET Alarms : meets' = [meets EXCEPT ![r] = set]
  /\ UNCHANGED <<armed, due, raised, excused>>

Keep(r) ==
  /\ Move(r, "asked", "kept")
  /\ UNCHANGED <<armed, meets, due, raised, excused>>

Refuse(r) ==
  /\ Move(r, "asked", "refused")
  /\ UNCHANGED <<armed, meets, due, raised, excused>>

\* The instant of the judgement.
Judge(r) ==
  /\ Move(r, "kept", "judged")
  /\ due' = [due EXCEPT ![r] = armed \intersect meets[r]]
  /\ UNCHANGED <<armed, meets, raised, excused>>

\* Nothing is judged, and that is known.
Excuse(r) ==
  /\ Move(r, "kept", "judged")
  /\ excused' = excused \union {r}
  /\ UNCHANGED <<armed, meets, due, raised>>

Raise(r, a) ==
  /\ stage[r] = "judged" /\ a \in due[r] /\ <<r, a>> \notin raised
  /\ due' = [due EXCEPT ![r] = @ \ {a}]
  /\ raised' = raised \union {<<r, a>>}
  /\ UNCHANGED <<armed, stage, meets, excused>>

Miss(r, a) ==
  /\ stage[r] = "judged" /\ a \in due[r]
  /\ due' = [due EXCEPT ![r] = @ \ {a}]
  /\ excused' = excused \union {r}
  /\ UNCHANGED <<armed, stage, meets, raised>>

Answer(r) ==
  /\ due[r] = {}
  /\ Move(r, "judged", "answered")
  /\ UNCHANGED <<armed, meets, due, raised, excused>>

Ended == {"refused", "answered", "lost"}

Crash ==
  /\ stage' = [r \in Readings |->
                 IF stage[r] \in Ended \union {"new"} THEN stage[r] ELSE "lost"]
  /\ due' = [r \in Readings |-> {}]
  /\ UNCHANGED <<armed, meets, raised, excused>>

Treat(r) ==
  \/ Ask(r) \/ Keep(r) \/ Refuse(r) \/ Judge(r) \/ Excuse(r) \/ Answer(r)
  \/ \E a \in due[r] : Raise(r, a) \/ Miss(r, a)

DutyNext ==
  \/ Rearm
  \/ \E r \in Readings : Treat(r)
  \/ Crash

DutySpec == DutyInit /\ [][DutyNext]_dutyVars
-----------------------------------------------------------------------------
\* No alarm is taken back, and a reading that has ended raises no more: a
\* crash or a refusal is not followed by a late alarm.
RaisedBy(r) == {a \in Alarms : <<r, a>> \in raised}

Settles ==
  /\ raised \subseteq raised'
  /\ \A r \in Readings :
       stage[r] \in Ended => stage'[r] = stage[r] /\ RaisedBy(r)' = RaisedBy(r)

Settled == [][Settles]_dutyVars
=============================================================================
