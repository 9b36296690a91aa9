SPECIFICATION MCSpec
CONSTANTS
  r1 = r1  r2 = r2  r3 = r3  n1 = n1  n2 = n2  s1 = s1
  q1 = q1  q2 = q2  q3 = q3  tok = tok  ses = ses  b1 = b1
  None = None
  Runners = {r1, r2, r3}
  Nodes = {n1}
  Texts = {"a", "b", "c", "d", "e"}
  Embedded <- MCEmbedded
  BinaryOf <- MCBinaryOf
  FirstHistory <- MCFirst
  MaxVersion = 3
  MaxRuns = 3
  MaxFailovers = 2
  DrainDelay = 3
  DrainTimeout = 1
  ProbePatience = 2
  PollPeriod = 2
  MaxInFlight = 1
  MaxStarts = 2
  Lifetime = 2
  BatchRows = 1
  Budget = 4
  BatchTime = 1
  MaxNow = 2
  MaxFailures = 1
INVARIANTS
  HistoryStands
  TrafficIsServed
PROPERTIES
  PassesAreSafe
  EverythingEnds
CHECK_DEADLOCK FALSE
