-------------------------- MODULE MCOrderPipeline ---------------------------
(***************************************************************************)
(* OrderPipeline on small instances.  The first order has an agent, who is *)
(* the customer of the second; a purchase covers one order, the commission *)
(* is half of it.                                                          *)
(***************************************************************************)
EXTENDS OrderPipeline, TLC

CONSTANTS u1, u2, o1, o2, c1, c2, m1, m2, m3, m4

MCUsers == {u1, u2}
MCOrders == {o1, o2}
MCOneOrder == {o1}
MCClients == {c1, c2}
MCOneClient == {c1}
MCTwoMessages == {m1, m2}
MCThreeMessages == {m1, m2, m3}
MCFourMessages == {m1, m2, m3, m4}

MCOwnerOf == [o \in Orders |-> IF o = o1 THEN u1 ELSE u2]
MCAgentOf == [o \in Orders |-> IF o = o1 THEN u2 ELSE NoAgent]

MCKeys ==
  UNION {{DebitKey(o), RefundKey(o), CommissionKey(o)} : o \in Orders}
    \cup {PurchaseKey(u) : u \in Users}

MCDeltas == {-2, 1, 2}

MCSymmetry == Permutations(Clients) \cup Permutations(Messages)

=============================================================================
