------------------------------- MODULE Wallet -------------------------------
(***************************************************************************)
(* What the credit ledger promises to the rest of the application: a set   *)
(* of rows, each under an idempotency key of its own, and for every user a *)
(* balance.  A mutation is one atomic step; a second mutation under a key  *)
(* that is taken changes nothing; no mutation leaves a balance below zero. *)
(*                                                                         *)
(* CreditLedger shows how concurrent database transactions implement this; *)
(* OrderPipeline uses its steps as the ledger operations of a transaction. *)
(***************************************************************************)
EXTENDS Integers

CONSTANTS
  Users,    \* user ids
  Keys,     \* idempotency keys
  Deltas    \* signed amounts in paise: positive in, negative out

ASSUME DeltasAssumption == Deltas \subseteq Int \ {0}

VARIABLES
  rows,     \* the committed rows of credit_ledger
  balance   \* per user, SUM(delta_paise) over the committed rows

walletVars == <<rows, balance>>

Row == [key : Keys, user : Users, delta : Deltas]

WalletTypeOK ==
  /\ rows \subseteq Row
  /\ balance \in [Users -> Int]

HasKey(k) == \E r \in rows : r.key = k

CanAfford(u, d) == balance[u] + d >= 0

-----------------------------------------------------------------------------

WalletInit ==
  /\ rows = {}
  /\ balance = [u \in Users |-> 0]

(* A row lands, under a key no row has. *)
Post(k, u, d) ==
  /\ ~ HasKey(k)
  /\ CanAfford(u, d)
  /\ rows' = rows \cup {[key |-> k, user |-> u, delta |-> d]}
  /\ balance' = [balance EXCEPT ![u] = @ + d]

(* credit() or debit() as a caller sees it: a second call changes nothing. *)
PostOnce(k, u, d) ==
  IF HasKey(k) THEN UNCHANGED walletVars ELSE Post(k, u, d)

WalletNext == \E k \in Keys, u \in Users, d \in Deltas : Post(k, u, d)

WalletSpec == WalletInit /\ [][WalletNext]_walletVars

=============================================================================
