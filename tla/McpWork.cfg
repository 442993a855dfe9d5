SPECIFICATION WorkSpec
CONSTANTS
  Clients = {c1, c2}
  c1 = c1
  c2 = c2
  w1 = w1
  w2 = w2
  Writes = {w1, w2}
  MaxPending = 1
  None = None
  Budgets <- MCBudgets
  Conns = {"a", "b"}
  Desktops = {"d", "e"}
  Loads <- MCLoads
  MaxConnections = 1
  MaxStreams = 1
  MaxIpc = 1
  MaxBatch = 2
  NoDesktop = "none"
  Callers = {"p", "q"}
  Assignments <- MCAssignments
  FirstClient = "c"
  Uploads = {1, 2}
  SizeChoices = {1, 2}
  MaxUploads = 1
  MaxTotal = 2
  MaxCalls = 3
  MaxAges = 1
  MaxLocks = 2
  Messages <- MCMessages
  BufferSize = 4
  MaxHeader = 6
  MaxBody = 3
  MaxFraming = 15
  MaxTrailers = 1
INVARIANTS
  WritesAreApproved
  TokenIsCurrent
  ServerIsTrue
  ServerIsExact
PROPERTY
  EveryRequestEnds
CHECK_DEADLOCK FALSE
