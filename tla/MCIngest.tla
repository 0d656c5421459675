------------------------------ MODULE MCIngest ------------------------------
(* Ingest on a small instance. *)
EXTENDS Ingest, FiniteSets, TLC

CONSTANTS m1

\* Two conditions that a reading of 2 tells apart.
MCConditions ==
  {[metric |-> m1, operator |-> ">=", threshold |-> 1],
   [metric |-> m1, operator |-> "<", threshold |-> 2]}

\* Two readings meet one rule, or one reading meets two.  They
\* are sent in the order of their timestamps, and stored in any order.
MaxActors == 3

Focus ==
  LET called == {r \in Readings : report[r].pc # "idle"} IN
  /\ Cardinality(called)
       + Cardinality({x \in Rules : rule[x].state # "fresh"}) <= MaxActors
  /\ {report[r].ts : r \in called} = 1 .. Cardinality(called)

Symmetry == Permutations(Readings) \union Permutations(Rules)
              \union Permutations(Devices)
=============================================================================
