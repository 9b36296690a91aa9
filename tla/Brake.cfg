SPECIFICATION MCSpec
CONSTANTS
  ann = ann  home = home  w1 = w1  w2 = w2  boss = boss  d1 = d1  d2 = d2  d3 = d3
  None = None
  Works = {w1, w2}
  Rows <- MCRows
  Attempts = {w1, w2}
  Administrators = {}
  Names = {ann}
  Person <- MCPerson
  Addresses = {home}
  Devices = {}
  BucketLength = 1
  LongBucketLength = 2
  LongWindowBuckets = 3
  CountersKept = 12
  MarkLifetime = 1
  MaxRecentFailures = 1
  MaxRecentFailuresPerName = 2
  MaxDailyFailures = 3
  MaxDailyFailuresPerBrowser = 2
  MaxRecentAttempts = 2
  MaxPendingSignIns = 1
  MostBrowsersPerPerson = 1
  Operations = {"sign_in"}
  Guesses = {FALSE}
  LastInstant = 1
  MaxBegun = 4
SYMMETRY Interchangeable
INVARIANTS
  EveryBoundHolds
PROPERTIES
  NoGuessGivenBack
  BrowserAnswersForItself
CHECK_DEADLOCK FALSE
