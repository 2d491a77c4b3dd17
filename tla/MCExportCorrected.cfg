\* A board is corrected during its turn.
CONSTANTS
  Species = {}
  Lanes = {"MOCK"}
  MaxMatches = 1
  MaxTurns = 1
  MaxFacts = 2
  MaxRejected = 0
  MaxJobs = 2
  MaxRedelivered = 0
  MaxCrashes = 0
SPECIFICATION ExportSpec
INVARIANTS
  EndedMatchHasOneStatePerTurn
CHECK_DEADLOCK FALSE
