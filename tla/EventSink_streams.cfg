\* Two writers and either a bounded client stream of one thread's events or an
\* unbounded in-process stream of all agent events.
SPECIFICATION Spec
CONSTANTS
  client = client
  reactor = reactor
  Writer = {w1, w2}
  Reader = {client, reactor}
  Bounded = {client}
  AgentReader = {reactor}
  Audience <- OneOfThem
  Topic = {"thread", "project"}
  Wants <- ClientOrAll
  MaxItems = 2
  PageSize = 1
  MaxBatch = 2
  MaxEvents = 4
  MaxFaults = 1
  NoWriter = NoWriter
SYMMETRY WriterSymmetry
INVARIANTS NoEventSkipped StreamsAscend BudgetExact
PROPERTY ImplementsFeed
\* The system stops when the log has its bound and the readers have caught up.
CHECK_DEADLOCK FALSE
