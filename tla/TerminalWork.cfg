SPECIFICATION WorkSpec
CONSTANTS
  Windows = {w1}
  MaxReordered = 2
  Capacity = 2
  MaxBatch = 2
  SlowDrain = FALSE
  Budgets <- MCBudgets
  Senders = {s1, s2}
  MaxRuntimes = 2
  Mixes <- MCMixes
  MaxEvents = 3
  TrimBatch = 1
  InboundCap = 2
  InboundBatch = 2
  OutboxCap = 2
  SendSlots = 1
  RunSlots = 1
  Quotas <- MCQuotas
  Appends = {1, 2, 3}
  MaxTime = 2
  Retention = 1
  KeysAgree = TRUE
  MaxDeletes = 1
INVARIANTS
  KeysInOrder
  InputStaysHome
  OutputIsAttributed
  LogsAreKept
CHECK_DEADLOCK FALSE
