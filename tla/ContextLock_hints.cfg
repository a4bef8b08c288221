\* One request for hints against the warmer.
SPECIFICATION Spec
CONSTANTS
  warmer = warmer
  h1 = h1
  Warmer = warmer
  Handlers <- OneHandler
  Requests = {"unstake_hints"}
PROPERTY
  HintsAreAnswered
CHECK_DEADLOCK FALSE
