CONSTANTS
  MaxRuns = 3
  MaxEvents = 1
  MaxRestarts = 1
  Traffics <- Mixes
SPECIFICATION LiveSpec
INVARIANTS OneActive HoldRespected
PROPERTIES NoRevival CheckpointFirst QueueMoves
CHECK_DEADLOCK FALSE
