\* Two validators; the accounts of two epochs are collected.
SPECIFICATION Spec
CONSTANTS
  v1 = v1
  v2 = v2
  VoteAccounts <- TwoAccounts
  MaxEpoch = 3
  SlotsInEpoch = 4
  Interval = 2
SYMMETRY Symmetry
INVARIANTS
  NoAccountMissed
  OneRowPerAccount
  CollectionsSpaced
