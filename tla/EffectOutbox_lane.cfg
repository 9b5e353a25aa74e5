SPECIFICATION Spec
CONSTANTS
  e1 = e1
  e2 = e2
  e3 = e3
  t1 = t1
  f1 = f1
  f2 = f2
  NoEffect = NoEffect
  Effect = {e1, e2, e3}
  Thread = {t1}
  Fiber = {f1, f2}
  ThreadOf <- OneThread
  KindOf <- LaneKinds
  Undecodable = {}
  MaxAttempts = 1
  MaxGenerations = 2
  MaxStorageErrors = 1
SYMMETRY FiberSymmetry
INVARIANTS LaneSerial LaneOrder ProcessBoundStaysInProcess ProcessBoundOnce AttemptsBounded LeaseHasFiber
PROPERTIES SettledIsFinal ImplementsLaneQueue
CHECK_DEADLOCK FALSE
