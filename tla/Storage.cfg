SPECIFICATION MCSpec
CONSTANTS
  w1 = w1  w2 = w2  v1 = v1  e1 = e1  e2 = e2  a = a  b = b  None = None  HeadRow = HeadRow
  Works = {w1, w2}
  Verifiers = {v1}
  Envelopes = {e1, e2}
  Genesis = Genesis
  Hash <- MCHash
  Rows <- MCRows
  Page = 2
  MostEvents = 3
  MostAltered = 1
  Units = {w1, w2}
  Probes = {p1}
  Sessions = {s1, s2}
  ScopeOf <- MCScopeOf
  MaxWrites = 2
INVARIANTS
  ChainIsWhole
  VerdictIsTrue
  UnitsAreApart
PROPERTIES
  EverythingEnds
CHECK_DEADLOCK FALSE
