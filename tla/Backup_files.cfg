CONSTANTS
  MaxTx = 3
  FileIds = {f1, f2}
  NoFile = NoFile
SPECIFICATION FilesSpec
INVARIANTS OnlyCommittedStates OneRestoreLosesNothing
