\* Requests on three lanes, their ledger and a process stop around one turn.
CONSTANTS
  Species = {zapdos}
  Lanes = {"MOCK", "LEGACY", "RICH"}
  MaxMatches = 1
  MaxTurns = 1
  MaxFacts = 2
  MaxRejected = 0
  MaxJobs = 3
  MaxRedelivered = 0
  MaxCrashes = 1
SPECIFICATION Spec
INVARIANTS
  TypeOK
  PendingIsOwned
  RequestsAreSingle
  UnknownDeliveryHoldsTheLane
CHECK_DEADLOCK FALSE
