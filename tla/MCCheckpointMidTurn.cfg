\* One turn with two edits, of which the provider may report the first.
SPECIFICATION CheckpointsSpec
CONSTANTS
  Outcomes = {"ready"}
  MaxTurns = 1
  MaxEdits = 2
  MaxReverts = 0
  MaxFaults = 0
INVARIANTS
  CheckpointsHoldTheTurn
\* After the only turn nothing is left to do.
CHECK_DEADLOCK FALSE
