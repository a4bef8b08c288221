\* Two validators, two values, two epochs.
SPECIFICATION Spec
CONSTANTS
  v1 = v1
  v2 = v2
  absent = absent
  NoValue = absent
  VoteAccounts = {v1, v2}
  Value = {5, 15}
  Limit = 10
  Epochs = {1, 2}
  MaxSnapshots = 4
SYMMETRY Symmetry
INVARIANTS
  TypeOK
  LogTellsSnapshots
  RowsAreChanges
  RuggersReported
