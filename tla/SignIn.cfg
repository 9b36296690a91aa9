SPECIFICATION MCSpec
CONSTANTS
  b1 = b1  b2 = b2  i1 = i1  i2 = i2  a1 = a1  a2 = a2
  alice = alice  bob = bob  carol = carol  s1 = s1  email = email  profile = profile
  None = None
  Begins = {b1, b2}
  SignIns = {i1, i2}
  Answers = {a1, a2}
  Works <- Calls
  Rows <- MCRows
  People = {alice, bob, carol}
  Holds <- MCHolds
  Sessions <- MCSessions
  Asks <- MCAsks
  Clients <- MCClients
  Kept <- MCKept
  Meanwhile = {"fail", "expire", "end", "withdraw", "change"}
SYMMETRY Interchangeable
INVARIANTS
  CodeIsProven
  NoCodeUnallowed
PROPERTIES
  OneAnswer
CHECK_DEADLOCK FALSE
