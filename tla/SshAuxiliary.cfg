SPECIFICATION FairAuxSpec
CONSTANTS
  Callers = {c1, c2}
  Tunnels = {t1}
  Settings = {a}
  Operations = {"open", "close", "host"}
  StoreFails = TRUE
  MaxRuntimes = 2
  Nobody = Nobody
  Starts = {w1, w2}
  Targets = {x1}
  Queries = {q1}
  Scenes <- SideScenes
  MaxPerSession = 1
  ControlSlots = 2
  AuxiliarySlots = 2
INVARIANTS
  SideWorkIsSound
PROPERTIES
  CloseCompletes
  WatchersEnd
CHECK_DEADLOCK FALSE
