\* The warmer, every handler, and uploads; they may lock up (see HintsAreAnswered).
SPECIFICATION LoadingSpec
CONSTANTS
  warmer = warmer
  h1 = h1
  h2 = h2
  Warmer = warmer
  Handlers <- TwoHandlers
  Requests <- AllRequests
  LastEpoch = 2
  Workers = 1
INVARIANTS
  StuckOnlyByNestedRead
  AnsweredScoresLoaded
PROPERTY
  EveryTaskEnds
CHECK_DEADLOCK FALSE
