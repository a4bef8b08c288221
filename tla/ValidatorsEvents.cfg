\* A cron and a backfill, which may overlap, over four epochs.
SPECIFICATION Spec
CONSTANTS
  v1 = v1
  r1 = r1
  cron = cron
  backfill = backfill
  VoteAccounts = {v1}
  Reasons = {r1}
  Jobs = {cron, backfill}
  EpochsBack = 2
  FromEpochs = {1}
  ClaimWindow = 1
  MaxAmount = 2
  MaxEpoch = 3
  Performed <- StoredIn
SYMMETRY Symmetry
INVARIANTS
  TypeOK
  RecentIsRight
  FinalAmountsServed
