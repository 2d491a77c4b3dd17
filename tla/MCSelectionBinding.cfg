\* Late, repeated and early answers around corrected facts, metadata, aborts and a
\* process stop, against the binding rules and the abstract contract.
CONSTANTS
  MaxSessions = 2
  MaxFacts = 2
  MaxJobs = 2
  MaxMetadata = 1
  MaxRedelivered = 1
  MaxCrashes = 1
SPECIFICATION Spec
INVARIANTS
  AdviceIsSound
PROPERTIES
  CurrentAnswerIsApplied
  KeepsContract
CHECK_DEADLOCK FALSE
