SPECIFICATION MCSpec
CONSTANTS
  NoOne = NoOne
  NoMember = NoMember
  Issues <- MCIssues
  Elsewhere = {}
  Policies <- OpenPolicies
  Validity <- MCValidity
  Reserved <- MCReserved
  MaxPresented = 3
  MaxBound = 0
  MaxAge = 0
  Lifetime = 2
  MaxClock = 0
  Deadlines = {3, 6, 99}
  Changes = {1, 2, 3}
  MaxChanges = 2
INVARIANTS
  DisclosedAsIssued
  WalkIsTrue
  VerdictIsSure
  DecidedOnWhatWas
CHECK_DEADLOCK FALSE
