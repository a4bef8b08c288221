\* Epochs 4 and 5 are stored while BigQuery gets two.
SPECIFICATION CacheSpec
CONSTANTS
  MaxEpoch = 2
  MaxFailures = 1
  EpochsLast = TRUE
  a = a
  b = b
  Validators <- TwoValidators
  Voting <- BJoinsLater
  Activated <- BActivatedLast
  MaxStored = 5
  StoredBefore = 3
  DisplayEpochs = 4
  PageEpochs = {1, 2}
INVARIANTS
  CacheTypeOK
  CachedAsOfItsEpoch
  ValidatorsMatchCached
  ListedHaveLastStats
  RanksAreStandings
PROPERTIES
  EpochGetsCached
  PageEpochsAggregated
  PagesGetComplete
