SPECIFICATION Spec
CONSTANTS
  s1 = s1
  t1 = t1
  t2 = t2
  Sessions = {s1}
  Tasks = {t1, t2}
  SessionOf <- OneSession
  KindOf <- MixedKindOf
  ContentTasks = {t1}
  Users = {u1}
  Updater = Updater
  None = None
  MaxActive = 2
  MaxActivePerSession = 2
  MaxHistory = 1
  MaxRuntimes = 2
  MaxDeletes = 1
  Updates = FALSE
  MaxRestarts = 0
INVARIANTS
  SettledAfterCleanup
PROPERTIES
  CancelSticks
  CompletedOnBoundRuntime
VIEW WithoutDisk
