SPECIFICATION Spec
CONSTANTS
  d1 = d1  d2 = d2  d3 = d3
  p = p  s = s  c = c  b = b
  c1 = c1  c2 = c2  c3 = c3  c4 = c4  c5 = c5  c6 = c6
  Dispatcher = {d1, d2}
  Thread = {p, s}
  CommandId = {c1, c2}
  Request <- Reused
  Parent <- NoParents
  InitialThreads = {p, s}
  SideChats <- SideChatOfP
  MaxDispatches = 3
  MaxFaults = 0
  NoThread = NoThread
  NoRequest = NoRequest
INVARIANTS AcceptedByOwnThread
CHECK_DEADLOCK FALSE
