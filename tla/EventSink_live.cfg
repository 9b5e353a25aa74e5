\* Fair writers and a client with a buffer of one item, which may read or not.
SPECIFICATION FairSpec
CONSTANTS
  client = client
  reactor = reactor
  Writer = {w1, w2}
  Reader = {client}
  Bounded = {client}
  AgentReader = {}
  Audience <- OneOfThem
  Topic = {"thread", "project"}
  Wants <- ClientOrAll
  MaxItems = 1
  PageSize = 1
  MaxBatch = 1
  MaxEvents = 3
  MaxFaults = 1
  NoWriter = NoWriter
PROPERTIES EventuallySeen PublicationCompletes
\* The system stops when the log has its bound and the readers have caught up.
CHECK_DEADLOCK FALSE
