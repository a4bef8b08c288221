\* One validator, three epochs, four snapshots; epochs closed in every order.
SPECIFICATION Spec
CONSTANTS
  v1 = v1
  VoteAccounts = {v1}
  MaxEpoch = 3
  MaxSnapshots = 4
INVARIANTS
  CompletedCloseIsFinal
  OpenEpochsUntouched
  WindowsDisjoint
PROPERTY
  FinalColumnsStay
