CONSTANTS
  Lists <- MCLists
  Names = {"a", "b", "c"}
  Named = {"x", "y"}
  Targets <- MCTargets
SPECIFICATION MigratorSpec
INVARIANTS CallsDoWhatTheySay RecordsTellSchema InOrder
