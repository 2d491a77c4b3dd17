\* Two matches of up to three turns, corrections, and a process stop between any
\* two transactions, the file of the export and its record included.
CONSTANTS
  Species = {}
  Lanes = {"MOCK"}
  MaxMatches = 2
  MaxTurns = 3
  MaxFacts = 4
  MaxRejected = 0
  MaxJobs = 3
  MaxRedelivered = 0
  MaxCrashes = 1
SPECIFICATION ExportSpec
INVARIANTS
  HistoryIsUnbroken
  OnlyCorrectionsBlockExport
CHECK_DEADLOCK FALSE
