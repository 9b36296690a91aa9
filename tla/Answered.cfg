SPECIFICATION FairSpec
CONSTANTS
  r1 = r1  r2 = r2  r3 = r3  r4 = r4  c1 = c1  k1 = k1  s1 = s1  p1 = p1  openid = openid  None = None
  Requests = {r1, r2, r3, r4}
  Works = {r1, r2, r3, r4}
  Codes = {c1}
  Sessions = {s1}
  Persons = {p1}
  Clients = {k1}
  Scopes = {openid}
  Rows <- MCRows
  PersonOf <- MCPersonOf
  Requiring = {}
  Issued <- MCIssued
  Consented <- MCConsented
  Operations <- AnsweredOperations
  CodeLifetime = 1
  SessionLifetime = 2
  RefreshLifetime = 5
  CodesKept = 2
  LastInstant = 0
PROPERTIES
  ImplementsLifecycle
  EveryRequestIsAnswered
CHECK_DEADLOCK FALSE
