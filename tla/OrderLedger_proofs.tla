------------------------- MODULE OrderLedger_proofs -------------------------
(***************************************************************************)
(* What the postings of orders do to the ledger, for any orders, users,    *)
(* agents and amounts: which keys each takes, and what they leave of a     *)
(* balance.                                                                *)
(***************************************************************************)
EXTENDS OrderLedger, Wallet_proofs

(* The postings of OrderLedger are among the wallet's. *)
LEMMA Postings ==
  /\ \A o \in Orders : /\ DebitKey(o) \in Keys
                       /\ RefundKey(o) \in Keys
                       /\ CommissionKey(o) \in Keys
                       /\ OwnerOf[o] \in Users
                       /\ EarnsCommission(o) =>
                            AgentOf[o] \in Users /\ Commission \in Deltas
  /\ \A u \in Users : PurchaseKey(u) \in Keys
  /\ Price \in Deltas /\ -Price \in Deltas /\ TopUpAmount \in Deltas
  BY KeysAssumption, AmountsAssumption, OwnersAssumption, AgentsAssumption
     DEF EarnsCommission

(* Two postings of an order, or of two orders, or a purchase, never share  *)
(* a key.                                                                  *)
LEMMA KeysApart ==
  /\ \A o, p \in Orders : /\ DebitKey(o) # RefundKey(p)
                          /\ DebitKey(o) # CommissionKey(p)
                          /\ RefundKey(o) # CommissionKey(p)
                          /\ DebitKey(o) = DebitKey(p) => o = p
                          /\ RefundKey(o) = RefundKey(p) => o = p
                          /\ CommissionKey(o) = CommissionKey(p) => o = p
  /\ \A o \in Orders, u \in Users : /\ PurchaseKey(u) # DebitKey(o)
                                    /\ PurchaseKey(u) # RefundKey(o)
                                    /\ PurchaseKey(u) # CommissionKey(o)
  /\ \A u, v \in Users : PurchaseKey(u) = PurchaseKey(v) => u = v
  BY DEF DebitKey, RefundKey, CommissionKey, PurchaseKey

(* What a step that leaves the wallet alone leaves alone. *)
MoneyKept ==
  \A o \in Orders : /\ Charged(o)' <=> Charged(o)
                    /\ Refunded(o)' <=> Refunded(o)
                    /\ CommissionPaid(o)' <=> CommissionPaid(o)

(* A step that posts nothing. *)
LEMMA NoMoneyMoves ==
  ASSUME UNCHANGED walletVars, WalletTypeOK
  PROVE  MoneyKept /\ WalletTypeOK'
  BY WalletKept DEF MoneyKept, Charged, Refunded, CommissionPaid

(* The debit of an order charges that order and moves nothing else. *)
LEMMA ChargeMoves ==
  ASSUME WalletTypeOK, NEW o \in Orders, Charge(o)
  PROVE  /\ WalletTypeOK'
         /\ Charged(o)'
         /\ \A p \in Orders : /\ p # o => (Charged(p)' <=> Charged(p))
                              /\ Refunded(p)' <=> Refunded(p)
                              /\ CommissionPaid(p)' <=> CommissionPaid(p)
<1>1. /\ DebitKey(o) \in Keys /\ OwnerOf[o] \in Users /\ -Price \in Deltas
      /\ PostOnce(DebitKey(o), OwnerOf[o], -Price)
  BY Postings DEF Charge
<1>2. /\ WalletTypeOK'
      /\ HasKey(DebitKey(o))'
      /\ \A i : HasKey(i) => HasKey(i)'
      /\ \A i : HasKey(i)' => HasKey(i) \/ i = DebitKey(o)
  BY <1>1, PostOnceTakesKey
<1>. QED
  BY <1>2, KeysApart DEF Charged, Refunded, CommissionPaid

(* The refund of an order refunds it and moves nothing else. *)
LEMMA RefundMoves ==
  ASSUME WalletTypeOK, NEW o \in Orders, Refund(o)
  PROVE  /\ WalletTypeOK'
         /\ Refunded(o)'
         /\ \A p \in Orders : /\ Charged(p)' <=> Charged(p)
                              /\ Refunded(p) => Refunded(p)'
                              /\ Refunded(p)' => Refunded(p) \/ p = o
                              /\ CommissionPaid(p)' <=> CommissionPaid(p)
<1>1. /\ RefundKey(o) \in Keys /\ OwnerOf[o] \in Users /\ Price \in Deltas
      /\ PostOnce(RefundKey(o), OwnerOf[o], Price)
  BY Postings DEF Refund
<1>2. /\ WalletTypeOK'
      /\ HasKey(RefundKey(o))'
      /\ \A i : HasKey(i) => HasKey(i)'
      /\ \A i : HasKey(i)' => HasKey(i) \/ i = RefundKey(o)
  BY <1>1, PostOnceTakesKey
<1>. QED
  BY <1>2, KeysApart DEF Charged, Refunded, CommissionPaid

(* pay_commission pays that order's commission, if there is one, and moves *)
(* nothing else.                                                           *)
LEMMA CommissionMoves ==
  ASSUME WalletTypeOK, NEW o \in Orders, PayCommission(o)
  PROVE  /\ WalletTypeOK'
         /\ EarnsCommission(o) => CommissionPaid(o)'
         /\ CommissionPaid(o)' => CommissionPaid(o) \/ EarnsCommission(o)
         /\ \A p \in Orders : /\ Charged(p)' <=> Charged(p)
                              /\ Refunded(p)' <=> Refunded(p)
                              /\ CommissionPaid(p) => CommissionPaid(p)'
                              /\ CommissionPaid(p)' => CommissionPaid(p) \/ p = o
<1>1. CASE EarnsCommission(o)
  <2>1. /\ CommissionKey(o) \in Keys /\ AgentOf[o] \in Users /\ Commission \in Deltas
        /\ PostOnce(CommissionKey(o), AgentOf[o], Commission)
    BY <1>1, Postings DEF PayCommission
  <2>2. /\ WalletTypeOK'
        /\ HasKey(CommissionKey(o))'
        /\ \A i : HasKey(i) => HasKey(i)'
        /\ \A i : HasKey(i)' => HasKey(i) \/ i = CommissionKey(o)
    BY <2>1, PostOnceTakesKey
  <2>. QED
    BY <1>1, <2>2, KeysApart DEF Charged, Refunded, CommissionPaid
<1>2. CASE ~ EarnsCommission(o)
  BY <1>2, NoMoneyMoves DEF PayCommission, MoneyKept
<1>. QED
  BY <1>1, <1>2

(* A purchase charges, refunds and pays no order. *)
LEMMA PurchaseMoves ==
  ASSUME WalletTypeOK, NEW u \in Users, Purchase(u)
  PROVE  MoneyKept /\ WalletTypeOK'
<1>1. /\ PurchaseKey(u) \in Keys /\ TopUpAmount \in Deltas
      /\ PostOnce(PurchaseKey(u), u, TopUpAmount)
  BY Postings DEF Purchase, Post, PostOnce
<1>2. /\ WalletTypeOK'
      /\ \A i : HasKey(i) => HasKey(i)'
      /\ \A i : HasKey(i)' => HasKey(i) \/ i = PurchaseKey(u)
  BY <1>1, PostOnceTakesKey
<1>. QED
  BY <1>2, KeysApart DEF MoneyKept, Charged, Refunded, CommissionPaid

-----------------------------------------------------------------------------
(* What is left of a balance *)

ChargesOf(u) == {o \in Orders : OwnerOf[o] = u /\ Charged(o)}

(* The balance in terms of the user's orders, of which only so many have   *)
(* been posted that they can be counted.                                   *)
Balanced(u) ==
  /\ IsFiniteSet(ChargesOf(u)) /\ IsFiniteSet(RefundsOf(u)) /\ IsFiniteSet(EarningsOf(u))
  /\ balance[u] = Bought(u)
                  - Price * Cardinality(ChargesOf(u))
                  + Price * Cardinality(RefundsOf(u))
                  + Commission * Cardinality(EarningsOf(u))

(* The amounts are integers. *)
LEMMA AmountsAreInts ==
  /\ Price \in Int /\ TopUpAmount \in Int /\ Commission \in Int
  /\ \A u \in Users : Bought(u) \in Int
  BY PriceAssumption, TopUpAssumption DEF Commission, Bought

(* Counting one more adds its amount once more. *)
LEMMA CountsOneMore ==
  ASSUME NEW S, IsFiniteSet(S), NEW x, x \notin S, NEW p \in Int
  PROVE  /\ IsFiniteSet(S \cup {x})
         /\ p * Cardinality(S) \in Int
         /\ p * Cardinality(S \cup {x}) = p * Cardinality(S) + p
<1>. DEFINE n == Cardinality(S)
            m == Cardinality(S \cup {x})
<1>1. IsFiniteSet(S \cup {x}) /\ n \in Nat /\ m = n + 1
  BY FS_AddElement, FS_CardinalityType
<1>. HIDE DEF n, m
<1>2. p * n \in Int /\ p * m = p * n + p
  BY <1>1
<1>. QED
  BY <1>1, <1>2 DEF n, m

(* A number of postings makes an integer amount. *)
LEMMA CountIsInt ==
  ASSUME NEW S, IsFiniteSet(S), NEW p \in Int
  PROVE  p * Cardinality(S) \in Int
<1>. DEFINE n == Cardinality(S)
<1>1. n \in Nat
  BY FS_CardinalityType
<1>. HIDE DEF n
<1>2. p * n \in Int
  BY <1>1
<1>. QED
  BY <1>2 DEF n

(* A posting under a key that is taken changes nothing, any other moves    *)
(* the balance of its user and takes its key.                              *)
LEMMA PostOnceMoves ==
  ASSUME WalletTypeOK, NEW k, NEW u \in Users, NEW d, PostOnce(k, u, d)
  PROVE  /\ HasKey(k) => UNCHANGED walletVars
         /\ ~ HasKey(k) =>
              /\ balance'[u] = balance[u] + d
              /\ \A v \in Users : v # u => balance'[v] = balance[v]
              /\ \A i : HasKey(i)' <=> HasKey(i) \/ i = k
<1>1. CASE HasKey(k)
  BY <1>1 DEF PostOnce
<1>2. CASE ~ HasKey(k)
  <2>. DEFINE row == [key |-> k, user |-> u, delta |-> d]
  <2>1. rows' = rows \cup {row} /\ balance' = [balance EXCEPT ![u] = @ + d]
    BY <1>2 DEF PostOnce, Post
  <2>2. row.key = k
    OBVIOUS
  <2>3. \A i : HasKey(i)' <=> HasKey(i) \/ i = k
    <3>. HIDE DEF row
    <3>. QED
      BY <2>1, <2>2 DEF HasKey
  <2>. QED
    BY <1>2, <2>1, <2>3 DEF WalletTypeOK
<1>. QED
  BY <1>1, <1>2

(* What a step leaves alone. *)
SameOrders(u) ==
  /\ ChargesOf(u)' = ChargesOf(u)
  /\ RefundsOf(u)' = RefundsOf(u)
  /\ EarningsOf(u)' = EarningsOf(u)

(* A step that posts nothing for a user leaves the user's balance right. *)
LEMMA NothingPosted ==
  ASSUME NEW u \in Users, Balanced(u), SameOrders(u), balance'[u] = balance[u],
         HasKey(PurchaseKey(u))' <=> HasKey(PurchaseKey(u))
  PROVE  Balanced(u)'
  BY DEF Balanced, SameOrders, Bought

(* A step that posts nothing leaves every user's orders as they are. *)
LEMMA NoPosting ==
  ASSUME UNCHANGED walletVars, NEW u \in Users, Balanced(u)
  PROVE  Balanced(u)'
<1>1. \A i : HasKey(i)' <=> HasKey(i)
  BY WalletKept
<1>2. SameOrders(u)
  BY <1>1 DEF SameOrders, ChargesOf, RefundsOf, EarningsOf, Charged, Refunded, CommissionPaid
<1>3. balance'[u] = balance[u]
  BY DEF walletVars
<1>. QED
  BY <1>1, <1>2, <1>3, NothingPosted

(* A purchase is one more top-up of its user. *)
LEMMA PurchaseBalances ==
  ASSUME WalletTypeOK, NEW w \in Users, Purchase(w), NEW u \in Users, Balanced(u)
  PROVE  Balanced(u)'
<1>1. PostOnce(PurchaseKey(w), w, TopUpAmount) /\ ~ HasKey(PurchaseKey(w))
  BY DEF Purchase, Post, PostOnce
<1>2. /\ balance'[w] = balance[w] + TopUpAmount
      /\ \A v \in Users : v # w => balance'[v] = balance[v]
      /\ \A i : HasKey(i)' <=> HasKey(i) \/ i = PurchaseKey(w)
  BY <1>1, PostOnceMoves
<1>3. SameOrders(u)
  BY <1>2, KeysApart
     DEF SameOrders, ChargesOf, RefundsOf, EarningsOf, Charged, Refunded, CommissionPaid
<1>4. CASE u = w
  <2>1. Bought(u) = 0 /\ Bought(u)' = TopUpAmount
    BY <1>1, <1>2, <1>4 DEF Bought
  <2>2. balance[u] \in Int
    BY DEF WalletTypeOK
  <2>. DEFINE c == Price * Cardinality(ChargesOf(u))
              r == Price * Cardinality(RefundsOf(u))
              e == Commission * Cardinality(EarningsOf(u))
  <2>3. c \in Int /\ r \in Int /\ e \in Int
    BY CountIsInt, AmountsAreInts DEF Balanced
  <2>4. balance[u] = 0 - c + r + e
    BY <2>1 DEF Balanced
  <2>5. balance'[u] = balance[u] + TopUpAmount
    BY <1>2, <1>4
  <2>6. balance'[u] = TopUpAmount - c + r + e
    <3>. HIDE DEF c, r, e
    <3>. QED
      BY <2>3, <2>4, <2>5, AmountsAreInts
  <2>. QED
    BY <1>3, <2>1, <2>6 DEF Balanced, SameOrders
<1>5. CASE u # w
  <2>1. HasKey(PurchaseKey(u))' <=> HasKey(PurchaseKey(u))
    BY <1>2, <1>5, KeysApart
  <2>. QED
    BY <1>2, <1>3, <1>5, <2>1, NothingPosted
<1>. QED
  BY <1>4, <1>5

(* A debit is one more order of its owner. *)
LEMMA ChargeBalances ==
  ASSUME WalletTypeOK, NEW o \in Orders, Charge(o), NEW u \in Users, Balanced(u)
  PROVE  Balanced(u)'
<1>1. PostOnce(DebitKey(o), OwnerOf[o], -Price) /\ OwnerOf[o] \in Users
  BY Postings DEF Charge
<1>2. CASE HasKey(DebitKey(o))
  BY <1>1, <1>2, PostOnceMoves, NoPosting
<1>3. CASE ~ HasKey(DebitKey(o))
  <2>1. /\ balance'[OwnerOf[o]] = balance[OwnerOf[o]] + (-Price)
        /\ \A v \in Users : v # OwnerOf[o] => balance'[v] = balance[v]
        /\ \A i : HasKey(i)' <=> HasKey(i) \/ i = DebitKey(o)
    BY <1>1, <1>3, PostOnceMoves
  <2>2. /\ RefundsOf(u)' = RefundsOf(u)
        /\ EarningsOf(u)' = EarningsOf(u)
        /\ HasKey(PurchaseKey(u))' <=> HasKey(PurchaseKey(u))
    BY <2>1, KeysApart DEF RefundsOf, EarningsOf, Refunded, CommissionPaid
  <2>3. CASE OwnerOf[o] = u
    <3>1. ChargesOf(u)' = ChargesOf(u) \cup {o} /\ o \notin ChargesOf(u)
      BY <1>3, <2>1, <2>3, KeysApart DEF ChargesOf, Charged
    <3>2. balance[u] \in Int
      BY DEF WalletTypeOK
    <3>. DEFINE c == Price * Cardinality(ChargesOf(u))
                d == Price * Cardinality(ChargesOf(u) \cup {o})
                r == Price * Cardinality(RefundsOf(u))
                e == Commission * Cardinality(EarningsOf(u))
    <3>3. c \in Int /\ r \in Int /\ e \in Int
      BY CountIsInt, AmountsAreInts DEF Balanced
    <3>4. IsFiniteSet(ChargesOf(u) \cup {o}) /\ d = c + Price
      BY <3>1, CountsOneMore, AmountsAreInts DEF Balanced
    <3>5. balance[u] = Bought(u) - c + r + e
      BY DEF Balanced
    <3>6. balance'[u] = balance[u] + (-Price)
      BY <2>1, <2>3
    <3>7. balance'[u] = Bought(u) - d + r + e
      <4>. HIDE DEF c, d, r, e
      <4>. QED
        BY <3>3, <3>4, <3>5, <3>6, AmountsAreInts
    <3>8. Bought(u)' = Bought(u)
      BY <2>2 DEF Bought
    <3>. QED
      BY <2>2, <3>1, <3>4, <3>7, <3>8 DEF Balanced
  <2>4. CASE OwnerOf[o] # u
    <3>1. ChargesOf(u)' = ChargesOf(u)
      BY <2>1, <2>4, KeysApart DEF ChargesOf, Charged
    <3>. QED
      BY <2>1, <2>2, <2>4, <3>1, NothingPosted DEF SameOrders
  <2>. QED
    BY <2>3, <2>4
<1>. QED
  BY <1>2, <1>3

(* A refund is one more of its owner. *)
LEMMA RefundBalances ==
  ASSUME WalletTypeOK, NEW o \in Orders, Refund(o), NEW u \in Users, Balanced(u)
  PROVE  Balanced(u)'
<1>1. PostOnce(RefundKey(o), OwnerOf[o], Price) /\ OwnerOf[o] \in Users
  BY Postings DEF Refund
<1>2. CASE HasKey(RefundKey(o))
  BY <1>1, <1>2, PostOnceMoves, NoPosting
<1>3. CASE ~ HasKey(RefundKey(o))
  <2>1. /\ balance'[OwnerOf[o]] = balance[OwnerOf[o]] + Price
        /\ \A v \in Users : v # OwnerOf[o] => balance'[v] = balance[v]
        /\ \A i : HasKey(i)' <=> HasKey(i) \/ i = RefundKey(o)
    BY <1>1, <1>3, PostOnceMoves
  <2>2. /\ ChargesOf(u)' = ChargesOf(u)
        /\ EarningsOf(u)' = EarningsOf(u)
        /\ HasKey(PurchaseKey(u))' <=> HasKey(PurchaseKey(u))
    BY <2>1, KeysApart DEF ChargesOf, EarningsOf, Charged, CommissionPaid
  <2>3. CASE OwnerOf[o] = u
    <3>1. RefundsOf(u)' = RefundsOf(u) \cup {o} /\ o \notin RefundsOf(u)
      BY <1>3, <2>1, <2>3, KeysApart DEF RefundsOf, Refunded
    <3>2. balance[u] \in Int
      BY DEF WalletTypeOK
    <3>. DEFINE c == Price * Cardinality(ChargesOf(u))
                r == Price * Cardinality(RefundsOf(u))
                s == Price * Cardinality(RefundsOf(u) \cup {o})
                e == Commission * Cardinality(EarningsOf(u))
    <3>3. c \in Int /\ r \in Int /\ e \in Int
      BY CountIsInt, AmountsAreInts DEF Balanced
    <3>4. IsFiniteSet(RefundsOf(u) \cup {o}) /\ s = r + Price
      BY <3>1, CountsOneMore, AmountsAreInts DEF Balanced
    <3>5. balance[u] = Bought(u) - c + r + e
      BY DEF Balanced
    <3>6. balance'[u] = balance[u] + Price
      BY <2>1, <2>3
    <3>7. balance'[u] = Bought(u) - c + s + e
      <4>. HIDE DEF c, r, s, e
      <4>. QED
        BY <3>3, <3>4, <3>5, <3>6, AmountsAreInts
    <3>8. Bought(u)' = Bought(u)
      BY <2>2 DEF Bought
    <3>. QED
      BY <2>2, <3>1, <3>4, <3>7, <3>8 DEF Balanced
  <2>4. CASE OwnerOf[o] # u
    <3>1. RefundsOf(u)' = RefundsOf(u)
      BY <2>1, <2>4, KeysApart DEF RefundsOf, Refunded
    <3>. QED
      BY <2>1, <2>2, <2>4, <3>1, NothingPosted DEF SameOrders
  <2>. QED
    BY <2>3, <2>4
<1>. QED
  BY <1>2, <1>3

(* A commission is one more of its agent. *)
LEMMA CommissionBalances ==
  ASSUME WalletTypeOK, NEW o \in Orders, PayCommission(o), NEW u \in Users, Balanced(u)
  PROVE  Balanced(u)'
<1>1. CASE ~ EarnsCommission(o) \/ HasKey(CommissionKey(o))
  <2>1. UNCHANGED walletVars
    BY <1>1 DEF PayCommission, PostOnce
  <2>. QED
    BY <2>1, NoPosting
<1>2. CASE EarnsCommission(o) /\ ~ HasKey(CommissionKey(o))
  <2>0. PostOnce(CommissionKey(o), AgentOf[o], Commission) /\ AgentOf[o] \in Users
    BY <1>2, Postings DEF PayCommission
  <2>1. /\ balance'[AgentOf[o]] = balance[AgentOf[o]] + Commission
        /\ \A v \in Users : v # AgentOf[o] => balance'[v] = balance[v]
        /\ \A i : HasKey(i)' <=> HasKey(i) \/ i = CommissionKey(o)
    BY <1>2, <2>0, PostOnceMoves
  <2>2. /\ ChargesOf(u)' = ChargesOf(u)
        /\ RefundsOf(u)' = RefundsOf(u)
        /\ HasKey(PurchaseKey(u))' <=> HasKey(PurchaseKey(u))
    BY <2>1, KeysApart DEF ChargesOf, RefundsOf, Charged, Refunded
  <2>3. CASE AgentOf[o] = u
    <3>1. EarningsOf(u)' = EarningsOf(u) \cup {o} /\ o \notin EarningsOf(u)
      BY <1>2, <2>1, <2>3, KeysApart DEF EarningsOf, CommissionPaid
    <3>2. balance[u] \in Int
      BY DEF WalletTypeOK
    <3>. DEFINE c == Price * Cardinality(ChargesOf(u))
                r == Price * Cardinality(RefundsOf(u))
                e == Commission * Cardinality(EarningsOf(u))
                f == Commission * Cardinality(EarningsOf(u) \cup {o})
    <3>3. c \in Int /\ r \in Int /\ e \in Int
      BY CountIsInt, AmountsAreInts DEF Balanced
    <3>4. IsFiniteSet(EarningsOf(u) \cup {o}) /\ f = e + Commission
      BY <3>1, CountsOneMore, AmountsAreInts DEF Balanced
    <3>5. balance[u] = Bought(u) - c + r + e
      BY DEF Balanced
    <3>6. balance'[u] = balance[u] + Commission
      BY <2>1, <2>3
    <3>7. balance'[u] = Bought(u) - c + r + f
      <4>. HIDE DEF c, r, e, f
      <4>. QED
        BY <3>3, <3>4, <3>5, <3>6, AmountsAreInts
    <3>8. Bought(u)' = Bought(u)
      BY <2>2 DEF Bought
    <3>. QED
      BY <2>2, <3>1, <3>4, <3>7, <3>8 DEF Balanced
  <2>4. CASE AgentOf[o] # u
    <3>1. EarningsOf(u)' = EarningsOf(u)
      BY <2>1, <2>4, KeysApart DEF EarningsOf, CommissionPaid
    <3>. QED
      BY <2>1, <2>2, <2>4, <3>1, NothingPosted DEF SameOrders
  <2>. QED
    BY <2>3, <2>4
<1>. QED
  BY <1>1, <1>2

(* A posting keeps the wallet's type. *)
LEMMA LedgerTyped ==
  ASSUME WalletTypeOK, [LedgerNext]_walletVars
  PROVE  WalletTypeOK'
<1>1. CASE UNCHANGED walletVars
  BY <1>1, WalletKept
<1>2. ASSUME NEW u \in Users, Purchase(u) PROVE WalletTypeOK'
  BY <1>2, PurchaseMoves
<1>3. ASSUME NEW o \in Orders, Charge(o) \/ Refund(o) \/ PayCommission(o)
      PROVE  WalletTypeOK'
  BY <1>3, ChargeMoves, RefundMoves, CommissionMoves
<1>. QED
  BY <1>1, <1>2, <1>3 DEF LedgerNext

(* As long as orders and purchases move the money, a balance is what was   *)
(* bought, less the price of the orders charged, plus that of the orders   *)
(* refunded, plus the commissions earned, each of them once: however often *)
(* and in whatever order charges, refunds and commissions are asked for.   *)
THEOREM OrdersBalance == LedgerSpec => [](\A u \in Users : Balanced(u))
<1>. DEFINE Inv == WalletTypeOK /\ \A u \in Users : Balanced(u)
<1>1. WalletInit => Inv
  <2>. SUFFICES ASSUME WalletInit PROVE Inv
    OBVIOUS
  <2>1. WalletTypeOK /\ \A i : ~ HasKey(i)
    BY WalletEmpty
  <2>2. ASSUME NEW u \in Users PROVE Balanced(u)
    <3>1. ChargesOf(u) = {} /\ RefundsOf(u) = {} /\ EarningsOf(u) = {} /\ Bought(u) = 0
      BY <2>1 DEF ChargesOf, RefundsOf, EarningsOf, Charged, Refunded, CommissionPaid, Bought
    <3>2. IsFiniteSet({}) /\ Cardinality({}) = 0
      BY FS_EmptySet
    <3>3. balance[u] = 0
      BY DEF WalletInit
    <3>4. Price * 0 = 0 /\ Commission * 0 = 0
      BY AmountsAreInts
    <3>. QED
      BY <3>1, <3>2, <3>3, <3>4 DEF Balanced
  <2>. QED
    BY <2>1, <2>2
<1>2. Inv /\ [LedgerNext]_walletVars => Inv'
  <2>. SUFFICES ASSUME Inv, [LedgerNext]_walletVars PROVE Inv'
    OBVIOUS
  <2>1. WalletTypeOK'
    BY LedgerTyped
  <2>2. ASSUME NEW u \in Users PROVE Balanced(u)'
    <3>1. Balanced(u)
      OBVIOUS
    <3>2. CASE UNCHANGED walletVars
      BY <3>1, <3>2, NoPosting
    <3>3. CASE \E w \in Users : Purchase(w)
      BY <3>1, <3>3, PurchaseBalances
    <3>4. CASE \E o \in Orders : Charge(o) \/ Refund(o) \/ PayCommission(o)
      BY <3>1, <3>4, ChargeBalances, RefundBalances, CommissionBalances
    <3>. QED
      BY <3>2, <3>3, <3>4 DEF LedgerNext
  <2>. QED
    BY <2>1, <2>2
<1>. QED
  BY <1>1, <1>2, PTL DEF LedgerSpec

(* Whatever only charges, refunds, pays commissions and sells credits uses *)
(* the ledger as the atomic wallet, so that WalletIsSound and              *)
(* WalletBalanced hold of it.                                              *)
THEOREM LedgerUsesWallet == LedgerSpec => WalletSpec
<1>1. [LedgerNext]_walletVars => [WalletNext]_walletVars
  <2>. SUFFICES ASSUME LedgerNext PROVE [WalletNext]_walletVars
    OBVIOUS
  <2>1. ASSUME NEW u \in Users, Purchase(u) PROVE [WalletNext]_walletVars
    <3>1. PostOnce(PurchaseKey(u), u, TopUpAmount)
      BY <2>1 DEF Purchase, PostOnce, Post
    <3>. QED
      BY <3>1, Postings, PostOnceIsStep
  <2>2. ASSUME NEW o \in Orders, Charge(o) PROVE [WalletNext]_walletVars
    BY <2>2, Postings, PostOnceIsStep DEF Charge
  <2>3. ASSUME NEW o \in Orders, Refund(o) PROVE [WalletNext]_walletVars
    BY <2>3, Postings, PostOnceIsStep DEF Refund
  <2>4. ASSUME NEW o \in Orders, PayCommission(o) PROVE [WalletNext]_walletVars
    BY <2>4, Postings, PostOnceIsStep DEF PayCommission
  <2>. QED
    BY <2>1, <2>2, <2>3, <2>4 DEF LedgerNext
<1>. QED
  BY <1>1, PTL DEF LedgerSpec, WalletSpec

-----------------------------------------------------------------------------
(* The money of an order follows from what became of it *)

(* An order is charged once it is accepted, refunded when it is rejected   *)
(* and its agent is paid when it is done; out says what became of each.    *)
Matches(out) ==
  \A o \in Orders :
    /\ Charged(o) <=> out[o] # "absent"
    /\ Refunded(o) <=> out[o] = "rejected"
    /\ CommissionPaid(o) <=> out[o] = "done" /\ EarnsCommission(o)

(* An order turns from one outcome to another with its posting. *)
TurnsWith(o, from, to) ==
  \/ from = "absent" /\ to = "open" /\ Charge(o)
  \/ from = "open" /\ to = "done" /\ PayCommission(o)
  \/ from = "open" /\ to = "rejected" /\ Refund(o)
  \/ from = "open" /\ to = "failed" /\ UNCHANGED walletVars

(* Postings that belong to no order leave what there is matching. *)
LEMMA NoTurnMatches ==
  ASSUME WalletTypeOK, UNCHANGED walletVars \/ \E u \in Users : Purchase(u),
         NEW out, Matches(out)
  PROVE  Matches(out)'
<1>1. MoneyKept
  BY NoMoneyMoves, PurchaseMoves
<1>. QED
  BY <1>1 DEF MoneyKept, Matches

(* An order that turns takes the posting that its new outcome calls for,   *)
(* and no other order's.                                                   *)
LEMMA TurnMatches ==
  ASSUME WalletTypeOK, NEW o \in Orders, NEW out, NEW new, Matches(out),
         TurnsWith(o, out[o], new[o]),
         \A p \in Orders : p # o => new[p] = out[p]
  PROVE  Matches(new)'
<1>1. ASSUME out[o] = "absent", new[o] = "open", Charge(o)
      PROVE  Matches(new)'
  BY <1>1, ChargeMoves DEF Matches
<1>2. ASSUME out[o] = "open", new[o] = "done", PayCommission(o)
      PROVE  Matches(new)'
  BY <1>2, CommissionMoves DEF Matches
<1>3. ASSUME out[o] = "open", new[o] = "rejected", Refund(o)
      PROVE  Matches(new)'
  BY <1>3, RefundMoves DEF Matches
<1>4. ASSUME out[o] = "open", new[o] = "failed", UNCHANGED walletVars
      PROVE  Matches(new)'
  BY <1>4, NoMoneyMoves DEF Matches, MoneyKept
<1>. QED
  BY <1>1, <1>2, <1>3, <1>4 DEF TurnsWith

(* OrderLife, for any outcome of any order. *)
L(outcome) == INSTANCE OrderLife

(* The ledger operations that OrderLife names are those of OrderLedger. *)
LEMMA LifePostings ==
  ASSUME NEW VARIABLE outcome
  PROVE  /\ \A o \in Orders : /\ L(outcome)!Charge(o) <=> Charge(o)
                              /\ L(outcome)!Refund(o) <=> Refund(o)
                              /\ L(outcome)!PayCommission(o) <=> PayCommission(o)
         /\ \A u \in Users : L(outcome)!Purchase(u) <=> Purchase(u)
<1>1. \A k, v, d : L(outcome)!Post(k, v, d) <=> Post(k, v, d)
  BY DEF L!Post, Post, L!HasKey, HasKey, L!CanAfford, CanAfford
<1>2. \A k, v, d : L(outcome)!PostOnce(k, v, d) <=> PostOnce(k, v, d)
  BY <1>1 DEF L!PostOnce, PostOnce, L!HasKey, HasKey, L!walletVars, walletVars
<1>3. \A u \in Users : L(outcome)!Purchase(u) <=> Purchase(u)
  BY <1>1 DEF L!Purchase, Purchase, L!PurchaseKey, PurchaseKey
<1>4. ASSUME NEW o \in Orders
      PROVE  /\ L(outcome)!Charge(o) <=> Charge(o)
             /\ L(outcome)!Refund(o) <=> Refund(o)
             /\ L(outcome)!PayCommission(o) <=> PayCommission(o)
  <2>1. /\ L(outcome)!DebitKey(o) = DebitKey(o)
        /\ L(outcome)!RefundKey(o) = RefundKey(o)
        /\ L(outcome)!CommissionKey(o) = CommissionKey(o)
        /\ L(outcome)!Commission = Commission
        /\ L(outcome)!EarnsCommission(o) <=> EarnsCommission(o)
    BY DEF L!DebitKey, L!RefundKey, L!CommissionKey, L!Commission,
           L!EarnsCommission, DebitKey, RefundKey, CommissionKey, Commission,
           EarnsCommission
  <2>2. /\ L(outcome)!Charge(o) <=> Charge(o)
        /\ L(outcome)!Refund(o) <=> Refund(o)
    BY <1>2, <2>1 DEF L!Charge, Charge, L!Refund, Refund
  <2>3. L(outcome)!PayCommission(o) <=> PayCommission(o)
    BY <1>2, <2>1 DEF L!PayCommission, PayCommission, L!walletVars, walletVars
  <2>. QED
    BY <2>2, <2>3
<1>. QED
  BY <1>3, <1>4

(* A step of OrderLife is a posting that belongs to no order, or the turn  *)
(* of one order with its posting.                                          *)
LEMMA LifeStep ==
  ASSUME NEW VARIABLE outcome, WalletTypeOK, DOMAIN outcome = Orders,
         NEW out, out = outcome, NEW new, new = outcome',
         [L(outcome)!LifeNext]_(L(outcome)!lifeVars)
  PROVE  /\ DOMAIN new = Orders
         /\ \/ new = out /\ UNCHANGED walletVars
            \/ new = out /\ \E u \in Users : Purchase(u)
            \/ \E o \in Orders : /\ TurnsWith(o, out[o], new[o])
                                 /\ \A p \in Orders : p # o => new[p] = out[p]
<1>1. ASSUME NEW o \in Orders, NEW from, NEW to, L(outcome)!Turn(o, from, to)
      PROVE  /\ DOMAIN new = Orders
             /\ out[o] = from
             /\ new[o] = to
             /\ \A p \in Orders : p # o => new[p] = out[p]
  BY <1>1 DEF L!Turn
<1>2. ASSUME NEW o \in Orders, L(outcome)!Accept(o)
      PROVE  L(outcome)!Turn(o, "absent", "open") /\ Charge(o)
  BY <1>2, LifePostings DEF L!Accept
<1>3. ASSUME NEW o \in Orders, L(outcome)!Deliver(o)
      PROVE  L(outcome)!Turn(o, "open", "done") /\ PayCommission(o)
  BY <1>3, LifePostings DEF L!Deliver
<1>4. ASSUME NEW o \in Orders, L(outcome)!Reject(o)
      PROVE  L(outcome)!Turn(o, "open", "rejected") /\ Refund(o)
  BY <1>4, LifePostings DEF L!Reject
<1>5. ASSUME NEW o \in Orders, L(outcome)!GiveUp(o)
      PROVE  L(outcome)!Turn(o, "open", "failed") /\ UNCHANGED walletVars
  BY <1>5 DEF L!GiveUp, L!walletVars, walletVars
<1>6. ASSUME NEW o \in Orders,
             \/ L(outcome)!Accept(o) \/ L(outcome)!Deliver(o)
             \/ L(outcome)!Reject(o) \/ L(outcome)!GiveUp(o)
      PROVE  /\ DOMAIN new = Orders
             /\ TurnsWith(o, out[o], new[o])
             /\ \A p \in Orders : p # o => new[p] = out[p]
  <2>1. CASE L(outcome)!Accept(o)
    BY <2>1, <1>1, <1>2 DEF TurnsWith
  <2>2. CASE L(outcome)!Deliver(o)
    BY <2>2, <1>1, <1>3 DEF TurnsWith
  <2>3. CASE L(outcome)!Reject(o)
    BY <2>3, <1>1, <1>4 DEF TurnsWith
  <2>4. CASE L(outcome)!GiveUp(o)
    BY <2>4, <1>1, <1>5 DEF TurnsWith
  <2>. QED
    BY <1>6, <2>1, <2>2, <2>3, <2>4
<1>7. CASE UNCHANGED L(outcome)!lifeVars
  BY <1>7 DEF L!lifeVars, walletVars
<1>8. ASSUME NEW u \in Users, L(outcome)!Purchase(u), UNCHANGED outcome
      PROVE  new = out /\ Purchase(u)
  BY <1>8, LifePostings
<1>. QED
  BY <1>6, <1>7, <1>8 DEF L!LifeNext

(* The customer and the agent have received what the outcome of the order  *)
(* calls for, whatever OrderLife's orders do: the debit if it was          *)
(* accepted, the refund if and only if it was rejected, the commission if  *)
(* and only if it was delivered.                                           *)
THEOREM MoneyFollowsOrder ==
  ASSUME NEW VARIABLE outcome
  PROVE  L(outcome)!LifeSpec => []L(outcome)!MoneyFollowsOutcome
<1>. DEFINE Matched == L(outcome)!MoneyFollowsOutcome
            Inv == WalletTypeOK /\ DOMAIN outcome = Orders /\ Matched
<1>1. ASSUME NEW out, out = outcome
      PROVE  Matched <=> Matches(out)
  BY <1>1 DEF L!MoneyFollowsOutcome, Matches, L!Charged, L!Refunded,
     L!CommissionPaid, Charged, Refunded, CommissionPaid, L!HasKey, HasKey,
     L!DebitKey, DebitKey, L!RefundKey, RefundKey, L!CommissionKey,
     CommissionKey, L!EarnsCommission, EarnsCommission, L!Commission, Commission
<1>2. ASSUME NEW new, new = outcome'
      PROVE  Matched' <=> Matches(new)'
  BY <1>2 DEF L!MoneyFollowsOutcome, Matches, L!Charged, L!Refunded,
     L!CommissionPaid, Charged, Refunded, CommissionPaid, L!HasKey, HasKey,
     L!DebitKey, DebitKey, L!RefundKey, RefundKey, L!CommissionKey,
     CommissionKey, L!EarnsCommission, EarnsCommission, L!Commission, Commission
<1>3. L(outcome)!LifeInit => Inv
  <2>1. SUFFICES ASSUME L(outcome)!LifeInit
                 PROVE  Inv
    OBVIOUS
  <2>2. WalletInit /\ outcome = [o \in Orders |-> "absent"]
    BY <2>1 DEF L!LifeInit, L!WalletInit, WalletInit
  <2>3. PICK out : out = outcome
    OBVIOUS
  <2>4. Matches(out)
    BY <2>2, <2>3 DEF Matches, WalletInit, Charged, Refunded, CommissionPaid, HasKey
  <2>5. Matched
    BY <1>1, <2>3, <2>4
  <2>6. WalletTypeOK
    BY <2>2 DEF WalletInit, WalletTypeOK
  <2>. QED
    BY <2>2, <2>5, <2>6
<1>4. Inv /\ [L(outcome)!LifeNext]_(L(outcome)!lifeVars) => Inv'
  <2>1. SUFFICES ASSUME Inv, [L(outcome)!LifeNext]_(L(outcome)!lifeVars)
                 PROVE  Inv'
    OBVIOUS
  <2>2. PICK out : out = outcome
    OBVIOUS
  <2>3. PICK new : new = outcome'
    OBVIOUS
  <2>4. Matches(out)
    BY <1>1, <2>1, <2>2
  <2>. HIDE DEF Matched
  <2>5. /\ DOMAIN new = Orders
        /\ \/ new = out /\ UNCHANGED walletVars
           \/ new = out /\ \E u \in Users : Purchase(u)
           \/ \E o \in Orders : /\ TurnsWith(o, out[o], new[o])
                                /\ \A p \in Orders : p # o => new[p] = out[p]
    BY <2>1, <2>2, <2>3, LifeStep
  <2>6. Matches(new)'
    BY <2>1, <2>4, <2>5, NoTurnMatches, TurnMatches
  <2>7. Matched'
    BY <1>2, <2>3, <2>6
  <2>8. [LedgerNext]_walletVars
    BY <2>5 DEF TurnsWith, LedgerNext
  <2>9. WalletTypeOK'
    BY <2>1, <2>8, LedgerTyped
  <2>. QED
    BY <2>3, <2>5, <2>7, <2>9
<1>5. Inv => L(outcome)!MoneyFollowsOutcome
  OBVIOUS
<1>. QED
  BY <1>3, <1>4, <1>5, PTL DEF L!LifeSpec

=============================================================================
