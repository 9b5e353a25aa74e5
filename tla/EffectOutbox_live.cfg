SPECIFICATION FairSpec
CONSTANTS
  e1 = e1
  e2 = e2
  e3 = e3
  t1 = t1
  f1 = f1
  f2 = f2
  NoEffect = NoEffect
  Effect = {e1, e2}
  Thread = {t1}
  Fiber = {f1, f2}
  ThreadOf <- OneThread
  KindOf <- StartThenCapture
  Undecodable = {}
  MaxAttempts = 2
  MaxGenerations = 2
  MaxStorageErrors = 1
PROPERTIES EventuallySettled CancelledExecutionStops
CHECK_DEADLOCK FALSE
