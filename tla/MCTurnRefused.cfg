\* A board refused twice in a row after the advice was applied.
CONSTANTS
  Species = {}
  Lanes = {"MOCK"}
  MaxMatches = 1
  MaxTurns = 1
  MaxFacts = 1
  MaxRejected = 2
  MaxJobs = 1
  MaxRedelivered = 0
  MaxCrashes = 0
SPECIFICATION Spec
INVARIANTS
  RefusedFactsLeaveNoState
CHECK_DEADLOCK FALSE
