CONSTANTS
  u1 = u1
  p1 = p1
  a1 = a1
  a2 = a2
  s1 = s1
  s2 = s2
  NoAttempt = NoAttempt
  NoEvent = NoEvent
  NoSession = NoSession
  Users <- MCUsers
  Keys <- MCKeys
  Deltas <- MCDeltas
  Payments <- MCPayments
  Attempts <- MCOneAttempt
  Sessions <- MCSessions
  PaymentOf <- MCPaymentOf
  UserOf <- MCUserOf
  Amount <- MCAmount
  MaxFaults = 1
SPECIFICATION FairSpec
INVARIANTS
  TypeOK
  PaidIsCredited
  BalanceIsCaptured
  AnsweredIsCredited
PROPERTIES
  PaidLostOnlyToStaleCopy
  CaptureIsAnswered
