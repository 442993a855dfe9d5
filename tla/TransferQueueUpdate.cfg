SPECIFICATION FairSpec
CONSTANTS
  s1 = s1
  t1 = t1
  t2 = t2
  Sessions = {s1}
  Tasks = {t1, t2}
  SessionOf <- OneSession
  KindOf <- LocalKindOf
  ContentTasks = {}
  Users = {}
  Updater = Updater
  None = None
  MaxActive = 2
  MaxActivePerSession = 2
  MaxHistory = 2
  MaxRuntimes = 0
  MaxDeletes = 0
  Updates = TRUE
  MaxRestarts = 1
INVARIANTS
  UpdateQuiescent
  ActiveHasRunner
PROPERTIES
  RequestsSettle
