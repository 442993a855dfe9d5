SPECIFICATION Spec
CONSTANTS
  Callers = {c1, c2}
  Tunnels = {t1}
  Settings = {a, b}
  Operations = {"open", "close", "delete", "edit", "tunnel", "update"}
  StoreFails = TRUE
  MaxRuntimes = 2
  Nobody = Nobody
INVARIANTS
  RuntimeMatchesStatus
  SessionIsDriven
  TunnelsOnRuntime
PROPERTIES
  NoResurrection
SYMMETRY Symmetry
