\* An upload between the two loads of the last run.
SPECIFICATION ScoresSpec
CONSTANTS
  MaxRuns = 2
  MaxChunks = 1
  MaxFailures = 0
INVARIANT
  BreakdownOfOneRun
