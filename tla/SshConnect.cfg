SPECIFICATION WorkSpec
CONSTANTS
  k1 = k1
  k2 = k2
  Hops <- MCHops
  ServerKeys <- MCServerKeys
  Alg <- MCAlg
  AuthOrder <- MCAuthOrder
  Policies <- MCPolicies
  Certificates = {}
  Attempts = {a1, a2}
  OneKeys = FALSE
  MaxActs = 2
  Forwards = {f1, f2}
  BindHosts = {h1, h2}
  Ports = {1, 2}
  AnyHost = anyHost
  NoForward = noForward
  Libssh = TRUE
  MaxForwards = 2
  MaxFaults = 1
  Clients = {1, 2}
  Mixes <- MCMixes
  Slots = 1
  Targets <- MCTargets
  Rules <- MCRules
  MaxData = 2
  MaxResponse = 2
  MaxTroubles = 1
SYMMETRY WorkSymmetry
INVARIANTS
  FirstUseIsUnique
  ConfirmationIsKept
  ForwardsAreServed
  TunnelsAreFaithful
PROPERTIES
  KeysAreTrusted
CHECK_DEADLOCK FALSE
