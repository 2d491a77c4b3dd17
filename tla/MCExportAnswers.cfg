\* A corrected turn whose first answer comes before, during or after the export;
\* every request of it ends.
CONSTANTS
  Species = {s1}
  Lanes = {"MOCK", "RICH"}
  MaxMatches = 1
  MaxTurns = 1
  MaxFacts = 2
  MaxRejected = 0
  MaxJobs = 2
  MaxRedelivered = 2
  MaxCrashes = 1
SPECIFICATION ExportSpec
INVARIANTS
  ExportIsFaithful
  OffersAreAccepted
PROPERTIES
  RequestsSettle
CHECK_DEADLOCK FALSE
