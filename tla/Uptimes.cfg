\* One validator, five instants, incidents of one epoch; commands crash, and are run again or skipped.
SPECIFICATION Spec
CONSTANTS
  v1 = v1
  VoteAccounts = {v1}
  Instants <- Time
  Epochs = {1, 2}
  StatusTail = 1
  MaxDelay = 2
  IncidentsWindow = 1
INVARIANTS
  TypeOK
  RowsOrdered
  ObservationsKept
  OutagesNotSplit
  IncidentsAreOutages
  DowntimeIsTimeDown
PROPERTIES
  RerunWritesNothing
  DowntimeFinal
