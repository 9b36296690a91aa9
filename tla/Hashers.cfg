SPECIFICATION HFairSpec
CONSTANTS
  Workers = 4
  Calls = {1, 2, 3, 4}
  Asking = {1, 2, 3}
  Keys <- MCKeys
  KeysOf <- MCKeysOf
  Limit <- MCLimit
INVARIANTS
  WorkersAreAccountedFor
PROPERTIES
  SharesAreFair
  WorkersComeBack
