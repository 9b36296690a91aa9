SPECIFICATION MCSpec
CONSTANTS
  ra = ra  rb = rb  c1 = c1  c2 = c2  c3 = c3
  None = None
  Calls = {c1, c2, c3}
  Founded = {ra, rb}
  NameOf <- MCNameOf
  Names = {"acme", "globex", "initech"}
  Ids = {"root", "a", "b"}
  Root = "root"
  Capabilities = {"client:write", "user:write"}
  Scopes = {"admin"}
  Wanted <- MCWanted
  Roots <- MCRoots
  Asks = {"realm", "token", "call", "client"}
  Hands = {"realm", "client", "capability"}
SYMMETRY MCCalls
INVARIANTS
  RealmsAreWhole
  RightsAreHeld
CHECK_DEADLOCK FALSE
