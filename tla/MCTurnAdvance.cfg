\* A recorded turn and the next one on the rich lane, with refusals and a process
\* stop.
CONSTANTS
  Species = {zapdos}
  Lanes = {"RICH"}
  MaxMatches = 1
  MaxTurns = 2
  MaxFacts = 2
  MaxRejected = 2
  MaxJobs = 2
  MaxRedelivered = 0
  MaxCrashes = 1
SPECIFICATION Spec
INVARIANTS
  RecordedTurnCanAdvance
PROPERTIES
  OnePendingEntry
  KeepsContract
CHECK_DEADLOCK FALSE
