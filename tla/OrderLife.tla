----------------------------- MODULE OrderLife ------------------------------
(***************************************************************************)
(* What a customer is promised about an order: it is charged when it is    *)
(* accepted, it ends at most once, and the ledger moves in the same step   *)
(* as the order does - commission when it is delivered, the price back     *)
(* when moderation rejects it, nothing when it fails.                      *)
(*                                                                         *)
(* OrderPipeline implements this as long as no worker dies.                *)
(***************************************************************************)
EXTENDS OrderLedger

VARIABLE outcome   \* [Orders -> Outcomes]

lifeVars == <<rows, balance, outcome>>

Ends == {"done", "rejected", "failed"}

Outcomes == {"absent", "open"} \cup Ends

LifeInit == WalletInit /\ outcome = [o \in Orders |-> "absent"]

Turn(o, from, to) ==
  /\ outcome[o] = from
  /\ outcome' = [outcome EXCEPT ![o] = to]

Accept(o) == Turn(o, "absent", "open") /\ Charge(o)
Deliver(o) == Turn(o, "open", "done") /\ PayCommission(o)
Reject(o) == Turn(o, "open", "rejected") /\ Refund(o)
GiveUp(o) == Turn(o, "open", "failed") /\ UNCHANGED walletVars

LifeNext ==
  \/ \E u \in Users : Purchase(u) /\ UNCHANGED outcome
  \/ \E o \in Orders : Accept(o) \/ Deliver(o) \/ Reject(o) \/ GiveUp(o)

LifeSpec == LifeInit /\ [][LifeNext]_lifeVars

(* What the customer's and the agent's money is at any time follows from   *)
(* what became of the order.                                               *)
MoneyFollowsOutcome ==
  \A o \in Orders :
    /\ Charged(o) <=> outcome[o] # "absent"
    /\ Refunded(o) <=> outcome[o] = "rejected"
    /\ CommissionPaid(o) <=> outcome[o] = "done" /\ EarnsCommission(o)

=============================================================================
