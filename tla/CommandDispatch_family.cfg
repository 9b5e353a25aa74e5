SPECIFICATION FairSpec
CONSTANTS
  d1 = d1  d2 = d2  d3 = d3
  p = p  s = s  c = c  b = b
  c1 = c1  c2 = c2  c3 = c3  c4 = c4  c5 = c5  c6 = c6
  Dispatcher = {d1, d2, d3}
  Thread = {p, s, c, b}
  CommandId = {c1, c2, c3, c4, c5, c6}
  Request <- Family
  Parent <- ChildOfP
  InitialThreads = {p, c}
  SideChats <- NoSideChats
  MaxDispatches = 3
  MaxFaults = 1
  NoThread = NoThread
  NoRequest = NoRequest
INVARIANTS PlanCurrent NoOrphan
PROPERTIES Answered
CHECK_DEADLOCK FALSE
