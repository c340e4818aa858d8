CONSTANTS
  u1 = u1
  s1 = s1
  s2 = s2
  l1 = l1
  Users <- MCUsers
  Keys <- MCKeys
  Deltas <- MCDeltas
  Sessions <- MCSessions
  Customer = u1
  SignupBonus = 1
  AttemptLimit = 2
  MaxCodes = 2
  Links <- MCLinks
  MaxCalls = 4
  MaxFaults = 1
SPECIFICATION FairSpec
INVARIANTS
  TypeOK
  GuessesBounded
  ReusedOnlyByOverlap
  AccountHasBonus
PROPERTIES
  LockoutEnds
CHECK_DEADLOCK FALSE
