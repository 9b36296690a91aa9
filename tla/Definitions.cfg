SPECIFICATION MCSpec
CONSTANTS
  None = None  Realm = Realm
  r1 = r1  r2 = r2  r3 = r3  r4 = r4  web = web  app = app  t1 = t1  t2 = t2
  approver = approver  na = na  nb = nb  nc = nc  nd = nd  ne = ne
  g1 = g1  a1 = a1  a2 = a2  a3 = a3
  Requests = {r1, r2, r3, r4}
  Works = {r1, r2, r3, r4}
  Rows <- MCRows
  Schemas <- MCSchemas
  FirstSchemas <- MCFirst
  Relations = {t1, t2}
  Kind <- MCKind
  Policies <- MCPolicies
  Roles = {approver}
  Operations <- MCOperations
  MaxPolicies = 2
  MaxApplicable = 1
CONSTRAINT Within
INVARIANTS
  DefinitionsAgree
  RolesAreSaid
CHECK_DEADLOCK FALSE
