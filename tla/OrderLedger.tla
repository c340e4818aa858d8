---------------------------- MODULE OrderLedger -----------------------------
(***************************************************************************)
(* The ledger side of an order: the mutations of the credit ledger that    *)
(* OrderService, the moderation step and AgentService make for it, each    *)
(* under an idempotency key derived from the order, as atomic steps of     *)
(* Wallet.                                                                 *)
(***************************************************************************)
EXTENDS Wallet, FiniteSets

CONSTANTS
  Orders,       \* client idempotency keys; each names at most one order row
  NoAgent,
  OwnerOf,      \* [Orders -> Users]: the authenticated user of the request
  AgentOf,      \* [Orders -> Users \cup {NoAgent}]: orders.agent_id
  Price,        \* template.base_price_paise
  RateBps,      \* agents.commission_rate_bps
  TopUpAmount   \* a purchase

ASSUME OrdersAssumption == Orders # {}
ASSUME OwnersAssumption == OwnerOf \in [Orders -> Users]
ASSUME AgentsAssumption == AgentOf \in [Orders -> Users \cup {NoAgent}]
ASSUME PriceAssumption == Price \in Nat \ {0} /\ RateBps \in 0 .. 10000
ASSUME TopUpAssumption == TopUpAmount \in Nat \ {0}

DebitKey(o) == <<"debit:order", o>>
RefundKey(o) == <<"refund:order", o>>
CommissionKey(o) == <<"commission", o>>
PurchaseKey(u) == <<"purchase", u>>

(* The keys and amounts of the mutations below are among Wallet's. *)
ASSUME KeysAssumption ==
  /\ \A o \in Orders : {DebitKey(o), RefundKey(o), CommissionKey(o)} \subseteq Keys
  /\ \A u \in Users : PurchaseKey(u) \in Keys

Commission == (Price * RateBps) \div 10000

EarnsCommission(o) == AgentOf[o] # NoAgent /\ Commission > 0

ASSUME AmountsAssumption ==
  /\ {-Price, Price, TopUpAmount} \subseteq Deltas
  /\ Commission > 0 => Commission \in Deltas

(* A captured payment. *)
Purchase(u) == Post(PurchaseKey(u), u, TopUpAmount)

Charge(o) == PostOnce(DebitKey(o), OwnerOf[o], -Price)

(* Mutant: the refund reuses the debit's key and is a silent no-op. *)
RefundMutant(o) == PostOnce(DebitKey(o), OwnerOf[o], Price)

Refund(o) == PostOnce(RefundKey(o), OwnerOf[o], Price)

(* Mutant: the commission is credited to the order's user. *)
PayCommissionMutant(o) ==
  IF EarnsCommission(o)
    THEN PostOnce(CommissionKey(o), OwnerOf[o], Commission)
    ELSE UNCHANGED walletVars

(* AgentService.pay_commission on an order that is done; its agent row     *)
(* exists.                                                                 *)
PayCommission(o) ==
  IF EarnsCommission(o)
    THEN PostOnce(CommissionKey(o), AgentOf[o], Commission)
    ELSE UNCHANGED walletVars

Charged(o) == HasKey(DebitKey(o))
Refunded(o) == HasKey(RefundKey(o))
CommissionPaid(o) == HasKey(CommissionKey(o))

Bought(u) == IF HasKey(PurchaseKey(u)) THEN TopUpAmount ELSE 0

RefundsOf(u) == {o \in Orders : OwnerOf[o] = u /\ Refunded(o)}
EarningsOf(u) == {o \in Orders : AgentOf[o] = u /\ CommissionPaid(o)}

-----------------------------------------------------------------------------
(* All that orders and purchases do to the ledger. *)

LedgerNext ==
  \/ \E u \in Users : Purchase(u)
  \/ \E o \in Orders : Charge(o) \/ Refund(o) \/ PayCommission(o)

LedgerSpec == WalletInit /\ [][LedgerNext]_walletVars

=============================================================================
