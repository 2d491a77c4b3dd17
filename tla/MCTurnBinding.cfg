\* Late and repeated answers around corrections, aborts and the next match.
CONSTANTS
  Species = {zapdos}
  Lanes = {"LEGACY", "RICH"}
  MaxMatches = 2
  MaxTurns = 1
  MaxFacts = 2
  MaxRejected = 0
  MaxJobs = 2
  MaxRedelivered = 1
  MaxCrashes = 0
SPECIFICATION Spec
INVARIANTS
  AdviceIsSound
  RecordedOnConfirmedBoard
PROPERTIES
  CurrentAnswerIsApplied
CHECK_DEADLOCK FALSE
