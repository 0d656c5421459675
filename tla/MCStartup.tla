----------------------------- MODULE MCStartup -----------------------------
(* Two processes, the first CREATE TABLE and ALTER TABLE of the program's  *)
(* plan, an old table with at most one row.                                *)
EXTENDS Startup

\* The plan of the whole program meets what the theorems assume of a plan: a
\* name that two modules used would be skipped the second time.
ASSUME ProgramPlanAssumption ==
  \A i, j \in 1..Len(ProgramPlan) : i # j => ProgramPlan[i] # ProgramPlan[j]

MCPlan == DevicesInit
MCNames == {MCPlan[i] : i \in 1..Len(MCPlan)}
MCAlters == ProgramAlters \cap MCNames
MCOldRows == {{}, {"devices_v1"}}
=============================================================================
