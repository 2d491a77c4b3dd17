\* Two turns of one Pokemon pair whose stage is raised by the effect card.
CONSTANTS
  Team = {a, b}
  MaxStage = 2
  MaxTurn = 2
SPECIFICATION RecordSpec
INVARIANTS
  RaiseRaises
CHECK_DEADLOCK FALSE
