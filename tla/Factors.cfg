SPECIFICATION MCSpec
CONSTANTS
  r1 = r1  r2 = r2  r3 = r3  r4 = r4  r5 = r5  k1 = k1  k2 = k2  s1 = s1  s2 = s2
  None = None
  Old = Old
  Requests = {r1, r2, r3, r4, r5}
  Works = {r1, r2, r3, r4, r5}
  Rows <- MCRows
  Keys = {k1, k2}
  Sessions = {s1, s2}
  Starts <- MCStarts
  Operations <- MCOperations
  MaxCodeFailures = 2
  MaxSecurityKeys = 1
  Steps = {1, 2}
  Counters = {0, 1, 2}
CONSTRAINT Within
INVARIANTS
  ServesOnce
  UnprovenSessionsEnd
PROPERTIES
  SuspensionStands
CHECK_DEADLOCK FALSE
