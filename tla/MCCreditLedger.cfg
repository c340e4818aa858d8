CONSTANTS
  u1 = u1
  u2 = u2
  k1 = k1
  k2 = k2
  m1 = m1
  s1 = s1
  s2 = s2
  NoSession = NoSession
  NoRow = NoRow
  NoCall = NoCall
  Users <- MCUsers
  Keys <- MCKeys
  ManualKeys <- MCManualKeys
  Amounts <- MCAmounts
  Sessions <- MCSessions
SYMMETRY MCSymmetry
SPECIFICATION Spec
INVARIANTS
  TypeOK
  NoNegativeBalance
  KeysUnique
  SuccessIsDurable
  RiderLostOnlyToForeignKey
PROPERTIES
  BalanceKeptUnderLock
  ImplementsWallet
