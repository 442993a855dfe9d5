SPECIFICATION KindsSpec
CONSTANTS
  Attempts = {a1}
  Writers = {w1}
  Settings = {s1, s2}
  MaxRuntimes = 2
  MaxCleanups = 2
  LatePrepare = FALSE
  None = None
  Sizes = {1, 2}
  Chunks <- MCChunks
  Budgets <- MCBudgets
  MaxKillFaults = 1
  Data <- MCData
  MaxData = 3
  MaxSub = 4
INVARIANTS
  SerialPortIsReleased
  EveryStatusIsServed
  TelnetIsFaithful
  NoShellChildIsLost
PROPERTIES
  BarrierIsLifted
CHECK_DEADLOCK FALSE
