\* Uploads of up to two chunks, queries, failures and restarts interleaved.
SPECIFICATION ScoresSpec
CONSTANTS
  MaxRuns = 3
  MaxChunks = 2
  MaxFailures = 2
INVARIANTS
  EveryScoreBrokenDown
  SingleRunAmongMulti
PROPERTY
  ServesPublished
