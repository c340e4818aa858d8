CONSTANTS
  u1 = u1
  remix1 = remix1
  remix2 = remix2
  filter1 = filter1
  c1 = c1
  j1 = j1
  j2 = j2
  NoRequest = NoRequest
  NotGiven = NotGiven
  Users <- MCUsers
  Keys <- MCKeys
  Deltas <- MCDeltas
  Requests <- MCRequests
  Clients <- MCClients
  Jobs <- MCJobs
  UserOf <- MCUserOf
  InputKey <- MCInputKey
  Cost <- MCCost
  PackPrice = 1
  MaxCrashes = 1
  MaxFaults = 1
SPECIFICATION FairSpec
INVARIANTS
  TypeOK
  ChargeBuysJob
  FailureIsSettled
  DoneIsDelivered
  RefundReturnsCharge
PROPERTIES
  EveryJobIsReported
CHECK_DEADLOCK FALSE
