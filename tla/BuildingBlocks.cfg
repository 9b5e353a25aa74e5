\* Every building block of the server with two or three clients.
SPECIFICATION BlockSpec
CONSTANTS
  Key = {k1, k2}
  NoKey = NoKey
  Fiber = {f1, f2, f3}
  Semaphore = {s1, s2, s3, s4}
  NoSemaphore = NoSemaphore
  Item = {i1, i2, i3}
  Drainer = {d1}
  NoItem = NoItem
  MaxEnqueues = 2
  MaxStates = 4
  MaxItems = 2
  Caller = {c1, c2, c3}
  NoCaller = NoCaller
  Waiter = {w1, w2}
  Deferred = {p1, p2, p3}
  NoDeferred = NoDeferred
  Turn = {t1, t2}
  Client = Client
  Nobody = Nobody
  MaxRuntimes = 2
  MaxTimers = 2
  MaxDisturbances = 1
  MaxPins = 1
  Request = {q1, q2}
  Unloader = {u1, u2}
  Detacher = Detacher
  Free = Free
  MaxDetaches = 2
  Entity = {e1}
  Link = {l1}
  Whole = Whole
  ReadEvent = ReadEvent
  Reader = {r1}
  MaxEvents = 4
  PageSize = 2
INVARIANTS TableExact RecordFollows RunsLoaded ReplayAgrees BufferIsExact
PROPERTIES ImplementsMutex DrainIsExact CoalescesExactly GateHolds WaitersServed
PROPERTIES IdleSparesTurns IdleSessionsEnd
\* Every block but the lock may finish.
CHECK_DEADLOCK FALSE
