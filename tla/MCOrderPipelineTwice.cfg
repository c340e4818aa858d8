CONSTANTS
  u1 = u1
  u2 = u2
  o1 = o1
  o2 = o2
  c1 = c1
  c2 = c2
  m1 = m1
  m2 = m2
  m3 = m3
  m4 = m4
  NoAgent = NoAgent
  NoMessage = NoMessage
  Users <- MCUsers
  Keys <- MCKeys
  Deltas <- MCDeltas
  Orders <- MCOneOrder
  OwnerOf <- MCOwnerOf
  AgentOf <- MCAgentOf
  Price = 2
  RateBps = 5000
  TopUpAmount = 2
  Clients <- MCOneClient
  Messages <- MCThreeMessages
  MaxCrashes = 2
SPECIFICATION Spec
INVARIANTS
  RefundedNotDelivered
CHECK_DEADLOCK FALSE
