\* A store that is interrupted after its first chunk.
SPECIFICATION Spec
CONSTANTS
  MaxEpoch = 2
  SlotsInEpoch = 3
  r1 = r1
  r2 = r2
  Rewards <- TwoRewards
  LoadingLimit = 1
  SlotOffsetWait = 1
SYMMETRY Symmetry
INVARIANT
  ProcessedMeansStored
