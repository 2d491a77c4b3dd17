\* One match with two slots.
CONSTANTS
  Slots = {1, 2}
  Names = {x, y}
  MaxMatches = 1
SPECIFICATION BoardSpec
INVARIANT SendNeedsSixConfirmed
CHECK_DEADLOCK FALSE
