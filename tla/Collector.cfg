\* Two pages of stake accounts; the job of block rewards beside the collector.
SPECIFICATION CollectorSpec
CONSTANTS
  MaxEpoch = 3
  SlotsInEpoch = 2
  r1 = r1
  r2 = r2
  a1 = a1
  v1 = v1
  Rewards <- TwoRewards
  LoadingLimit = 1
  SlotOffsetWait = 0
  StakeAccounts = {a1}
  VoteAccounts = {v1}
  Voter <- OneVoter
  LastPage = 1
  RpcAttempts = 1
  HistorySlots = 3
  CreditsKept = 1
SYMMETRY Symmetry
INVARIANTS
  StoredWholeOrBroken
  PerformanceOfItsEpoch
  SelfStakeOnce
  SuperminorityOfSmallest
