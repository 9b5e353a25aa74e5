CONSTANTS
  MaxRuns = 3
  MaxEvents = 1
  MaxRestarts = 0
  Traffics <- LaunchAndSend
SPECIFICATION Spec
PROPERTY WorktreeHold
CHECK_DEADLOCK FALSE
