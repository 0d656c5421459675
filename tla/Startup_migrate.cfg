CONSTANTS
  Procs = {p1, p2}
  Names <- MCNames
  Plan <- MCPlan
  Alters <- MCAlters
  OldRows <- MCOldRows
  MaxConns = 25
  MaxFaults = 3
  Free = Free
SPECIFICATION FairSpec
INVARIANTS SchemaMatchesRecords ServingIsMigrated RecordedOnce VersionsHaveNoGap
PROPERTIES StartsInTheEnd
