------------------------------ MODULE Payments ------------------------------
(***************************************************************************)
(* A top-up from the gateway's events to the credit: handle_webhook and    *)
(* verify_payment as concurrent database sessions on the payments row and  *)
(* the credit ledger.                                                      *)
(*                                                                         *)
(* A session reads the row once and decides on that copy.  Its UPDATE      *)
(* names only the columns that differ from the copy, waits for the row     *)
(* lock, and lands with the commit; the credit waits for the user's        *)
(* advisory lock and lands with the same commit.  The webhook takes the    *)
(* row first, verify_payment the advisory lock: PostgreSQL breaks the      *)
(* cycle by aborting one of them.                                          *)
(*                                                                         *)
(* Razorpay is external: an order may see several attempts, an attempt may *)
(* fail and be captured later, events arrive late, in any order and more   *)
(* than once, and again until they were answered with 200.                 *)
(***************************************************************************)
EXTENDS Wallet, FiniteSetsExt

CONSTANTS
  Payments,     \* payments rows, each with its gateway order
  Attempts,     \* gateway_payment_ids
  Sessions,     \* concurrent requests: webhook deliveries, verify_payment
  NoAttempt, NoEvent, NoSession,
  PaymentOf,    \* [Attempts -> Payments]: the order an attempt pays
  UserOf,       \* [Payments -> Users]
  Amount,       \* [Payments -> Nat]: payments.amount_paise
  MaxFaults     \* bound on errors and deaths of a session

CreditKey(a) == <<"razorpay:capture", a>>

ASSUME PaymentOfAssumption == PaymentOf \in [Attempts -> Payments]
ASSUME UserOfAssumption == UserOf \in [Payments -> Users]
ASSUME AmountAssumption == \A p \in Payments : Amount[p] \in Nat \cap Deltas
ASSUME CreditKeyAssumption == \A a \in Attempts : CreditKey(a) \in Keys
ASSUME NoneAssumption == NoAttempt \notin Attempts /\ NoSession \notin Sessions
ASSUME FaultsAssumption == MaxFaults \in Nat

VARIABLES
  payment,   \* [Payments -> the committed row]
  sent,      \* events the gateway has sent
  acked,     \* captured events answered with 200
  session,   \* [Sessions -> what the request is doing]
  rowLock,   \* [Payments -> the session whose UPDATE has not committed]
  userLock,  \* [Users -> the session with the advisory lock]
  faults     \* errors and deaths so far

vars == <<rows, balance, payment, sent, acked, session, rowLock, userLock, faults>>

Kinds == {"captured", "failed", "other"}

(* The top-up packs on offer: the price and the credits it buys.  *)
Packs == {[price |-> 4900, credits |-> 4900],
          [price |-> 9900, credits |-> 11000],
          [price |-> 19900, credits |-> 23000]}

Event == [kind : Kinds, attempt : Attempts]

(* What raw_webhook holds: the last event, or what verify_payment wrote. *)
Raw == [kind : Kinds \cup {"verify"}, attempt : Attempts] \cup {NoEvent}

PaymentRow == [status : {"absent", "created", "paid", "failed"},
               attempt : Attempts \cup {NoAttempt}, raw : Raw]

Absent == [status |-> "absent", attempt |-> NoAttempt, raw |-> NoEvent]

Resting == [pc |-> "idle", event |-> NoEvent, seen |-> Absent]

(* Statuses, copies, events and locks have the shapes the code gives them. *)
TypeOK ==
  /\ WalletTypeOK
  /\ payment \in [Payments -> PaymentRow]
  /\ sent \subseteq Event
  /\ acked \subseteq sent
  /\ session \in [Sessions -> [pc : {"idle", "update", "lock", "commit"},
                               event : Raw, seen : PaymentRow]]
  /\ rowLock \in [Payments -> Sessions \cup {NoSession}]
  /\ userLock \in [Users -> Sessions \cup {NoSession}]
  /\ faults \in 0 .. MaxFaults

Init ==
  /\ WalletInit
  /\ payment = [p \in Payments |-> Absent]
  /\ sent = {}
  /\ acked = {}
  /\ session = [s \in Sessions |-> Resting]
  /\ rowLock = [p \in Payments |-> NoSession]
  /\ userLock = [u \in Users |-> NoSession]
  /\ faults = 0

Kind(s) == session[s].event.kind
Attempt(s) == session[s].event.attempt
Pay(s) == PaymentOf[Attempt(s)]
User(s) == UserOf[Pay(s)]
Seen(s) == session[s].seen

-----------------------------------------------------------------------------
(* The gateway *)

(* PaymentService.create_order: the gateway order first, then the row; the *)
(* checkout opens with the response, after the commit.                     *)
CreateOrder(p) ==
  /\ payment[p].status = "absent"
  /\ payment' = [payment EXCEPT ![p].status = "created"]
  /\ UNCHANGED <<rows, balance, sent, acked, session, rowLock, userLock, faults>>

Captured(a) == [kind |-> "captured", attempt |-> a] \in sent

(* An order is captured once; a captured attempt does not fail. *)
GatewaySends(e) ==
  /\ payment[PaymentOf[e.attempt]].status # "absent"
  /\ e \notin sent
  /\ CASE e.kind = "captured" ->
            ~ \E a \in Attempts : PaymentOf[a] = PaymentOf[e.attempt] /\ Captured(a)
       [] e.kind = "failed" -> ~ Captured(e.attempt)
       [] OTHER -> TRUE
  /\ sent' = sent \cup {e}
  /\ UNCHANGED <<rows, balance, payment, acked, session, rowLock, userLock, faults>>

-----------------------------------------------------------------------------
(* The sessions *)

Begin(s, e, step) ==
  /\ session[s].pc = "idle"
  /\ session' = [session EXCEPT ![s] =
                   [pc |-> step, event |-> e, seen |-> payment[PaymentOf[e.attempt]]]]

Acknowledge(e) ==
  acked' = IF e.kind = "captured" THEN acked \cup {e} ELSE acked

(* Mutant: a failure event is not ignored after a capture. *)
IgnoresMutant(e) == FALSE

(* _handle_failed on a row that is already paid. *)
Ignores(e) == e.kind = "failed" /\ payment[PaymentOf[e.attempt]].status = "paid"

(* handle_webhook reads the row and branches on the event and the copy. *)
Webhook(s, e) ==
  /\ e \in sent
  /\ ~ Ignores(e)
  /\ Begin(s, e, IF e.kind = "captured" /\ payment[PaymentOf[e.attempt]].status = "paid"
                   THEN "lock" ELSE "update")
  /\ UNCHANGED <<rows, balance, payment, sent, acked, rowLock, userLock, faults>>

(* verify_payment, after the SDK reported a payment with its signature:    *)
(* reads the row, credits, then marks it paid.                             *)
Verify(s, a) ==
  /\ Captured(a)
  /\ Begin(s, [kind |-> "verify", attempt |-> a], "lock")
  /\ UNCHANGED <<rows, balance, payment, sent, acked, rowLock, userLock, faults>>

(* Mutant: the gateway's word for the status is stored. *)
StatusMutant(kind) == kind

Status(kind) == IF kind = "failed" THEN "failed" ELSE "paid"

(* set_paid, set_failed, or the raw body alone. *)
Assigned(s) ==
  IF Kind(s) = "other"
    THEN [Seen(s) EXCEPT !.raw = session[s].event]
    ELSE [status |-> Status(Kind(s)), attempt |-> Attempt(s), raw |-> session[s].event]

(* The ORM flushes the columns that were assigned another value.  *)
Flushed(s) ==
  [column \in {"status", "attempt", "raw"} |->
     IF Assigned(s)[column] # Seen(s)[column]
       THEN Assigned(s)[column] ELSE payment[Pay(s)][column]]

Changes(s) == Assigned(s) # Seen(s)

RowIsFree(s) == rowLock[Pay(s)] = NoSession

Goto(s, step) == session' = [session EXCEPT ![s].pc = step]

(* Mutant: the webhook alone credits. *)
WebhookCreditsMutant(s) == Kind(s) = "captured"

Credits(s) == Kind(s) \in {"captured", "verify"}

(* The flush; a capture goes on to the credit, the others to the commit. *)
Update(s) ==
  /\ session[s].pc = "update"
  /\ Changes(s) => RowIsFree(s)
  /\ rowLock' = IF Changes(s) THEN [rowLock EXCEPT ![Pay(s)] = s] ELSE rowLock
  /\ Goto(s, IF Kind(s) = "captured" THEN "lock" ELSE "commit")
  /\ UNCHANGED <<rows, balance, payment, sent, acked, userLock, faults>>

UserIsFree(s) == userLock[User(s)] = NoSession

(* credit() up to the insert; verify_payment marks the row afterwards. *)
Lock(s) ==
  /\ session[s].pc = "lock"
  /\ UserIsFree(s)
  /\ userLock' = [userLock EXCEPT ![User(s)] = s]
  /\ Goto(s, IF Kind(s) = "verify" /\ Seen(s).status # "paid" THEN "update" ELSE "commit")
  /\ UNCHANGED <<rows, balance, payment, sent, acked, rowLock, faults>>

(* Mutant: an ended session keeps its row locked. *)
ReleaseMutant(s) ==
  /\ UNCHANGED rowLock
  /\ userLock' = [u \in Users |-> IF userLock[u] = s THEN NoSession ELSE userLock[u]]

Release(s) ==
  /\ rowLock' = [p \in Payments |-> IF rowLock[p] = s THEN NoSession ELSE rowLock[p]]
  /\ userLock' = [u \in Users |-> IF userLock[u] = s THEN NoSession ELSE userLock[u]]

(* Mutant: verify_payment has a key of its own. *)
KeyMutant(s) == IF Kind(s) = "verify" THEN <<"verify", Attempt(s)>> ELSE CreditKey(Attempt(s))

Key(s) == CreditKey(Attempt(s))

Credit(s) == PostOnce(Key(s), User(s), Amount[Pay(s)])

(* Row and credit land together, and a webhook is answered with 200. *)
Commit(s) ==
  /\ session[s].pc = "commit"
  /\ payment' = IF rowLock[Pay(s)] = s
                  THEN [payment EXCEPT ![Pay(s)] = Flushed(s)] ELSE payment
  /\ IF Credits(s) THEN Credit(s) ELSE UNCHANGED walletVars
  /\ Acknowledge(session[s].event)
  /\ Release(s)
  /\ session' = [session EXCEPT ![s] = Resting]
  /\ UNCHANGED <<sent, faults>>

Undo(s) ==
  /\ Release(s)
  /\ session' = [session EXCEPT ![s] = Resting]
  /\ UNCHANGED <<rows, balance, payment, sent>>

(* An unexpected error: rollback, and the webhook still answers 200. *)
Error(s) == Undo(s) /\ Acknowledge(session[s].event)

Fails(s) ==
  /\ session[s].pc # "idle"
  /\ faults < MaxFaults
  /\ faults' = faults + 1
  /\ Error(s)

(* The API process dies: rollback and no answer. *)
Dies(s) ==
  /\ session[s].pc # "idle"
  /\ faults < MaxFaults
  /\ faults' = faults + 1
  /\ Undo(s)
  /\ UNCHANGED acked

(* Mutant: any wait is given up, as with a lock_timeout. *)
WaitsForMutant(s, t) ==
  /\ s # t
  /\ \E x, y \in {s, t} :
       /\ x # y
       /\ \/ session[x].pc = "update" /\ Changes(x) /\ rowLock[Pay(x)] = y
          \/ session[x].pc = "lock" /\ userLock[User(x)] = y

(* s waits for t: for its uncommitted row, or for its advisory lock. *)
WaitsFor(s, t) ==
  /\ s # t
  /\ \/ session[s].pc = "update" /\ Changes(s) /\ rowLock[Pay(s)] = t
     \/ session[s].pc = "lock" /\ userLock[User(s)] = t

(* PostgreSQL's deadlock detector aborts one session of a cycle. *)
DeadlockVictim(s) ==
  /\ \E t \in Sessions : WaitsFor(s, t) /\ WaitsFor(t, s)
  /\ Error(s)
  /\ UNCHANGED faults

-----------------------------------------------------------------------------

Next ==
  \/ \E p \in Payments : CreateOrder(p)
  \/ \E e \in Event : GatewaySends(e)
  \/ \E s \in Sessions :
       \/ \E e \in Event : Webhook(s, e)
       \/ \E a \in Attempts : Verify(s, a)
       \/ Update(s) \/ Lock(s) \/ Commit(s)
       \/ Fails(s) \/ Dies(s) \/ DeadlockVictim(s)

Spec == Init /\ [][Next]_vars

(* A session takes its next step, PostgreSQL serves the waiters of a lock  *)
(* in turn, and Razorpay delivers a capture again until it was answered    *)
(* with 200 (payment.py: retries "for up to 24 hours").                    *)
Fairness ==
  /\ \A s \in Sessions :
       /\ WF_vars(Commit(s) \/ DeadlockVictim(s))
       /\ SF_vars(Update(s))
       /\ SF_vars(Lock(s))
  /\ \A e \in Event :
       SF_vars(\E s \in Sessions : Webhook(s, e) /\ e.kind = "captured" /\ e \notin acked)

FairSpec == Spec /\ Fairness

-----------------------------------------------------------------------------
(* Properties *)

Credited(a) == HasKey(CreditKey(a))

(* A session that will credit the attempt is under way. *)
BeingCredited(a) ==
  \E s \in Sessions : session[s].pc # "idle" /\ Credits(s) /\ Attempt(s) = a

(* _handle_captured, verify_payment: a row shown as paid has its credit.   *)
PaidIsCredited ==
  \A p \in Payments :
    payment[p].status = "paid" => \E a \in Attempts : PaymentOf[a] = p /\ Credited(a)

(* A balance counts every payment with a captured and credited attempt     *)
(* once, at the amount that was paid: the ledger's key makes webhook,      *)
(* repeats and client verification credit a payment once, and an event     *)
(* without a capture credits nothing.  How much a payment should credit is *)
(* another matter: see PackCreditsReceived.                                *)
BalanceIsCaptured ==
  \A u \in Users :
    balance[u] =
      MapThenSumSet(LAMBDA p : Amount[p],
        {p \in Payments :
           /\ UserOf[p] = u
           /\ \E a \in Attempts : PaymentOf[a] = p /\ Captured(a) /\ Credited(a)})

(* Without an error, a capture that was answered with 200 is credited or   *)
(* a session that will credit it is under way: the webhook that loses a    *)
(* deadlock to verify_payment, and is never sent again, loses no money.    *)
AnsweredIsCredited ==
  faults = 0 =>
    \A e \in acked : Credited(e.attempt) \/ BeingCredited(e.attempt)

(* _handle_failed: a paid row becomes failed only by a session that read   *)
(* it before it was paid.                                                  *)
PaidLostOnlyToStaleCopy ==
  [][\A p \in Payments :
       payment[p].status = "paid" /\ payment'[p].status # "paid" =>
         \E s \in Sessions : rowLock[p] = s /\ Seen(s).status # "paid"]_vars

(* A capture is answered or credited: no session waits for ever.           *)
CaptureIsAnswered ==
  \A a \in Attempts :
    Captured(a) ~> Credited(a) \/ [kind |-> "captured", attempt |-> a] \in acked

(* PaymentService._handle_failed: "we already processed a capture - ignore *)
(* the failure".                                                           *)
PaidIsFinal ==
  [][\A p \in Payments : payment[p].status = "paid" => payment'[p].status = "paid"]_vars

(* _CREDIT_PACKS: "amount user pays vs credits they receive": a credited   *)
(* payment of a pack's price brought the pack's credits, bonus included.   *)
PackCreditsReceived ==
  \A a \in Attempts, r \in rows, pack \in Packs :
    r.key = CreditKey(a) /\ Amount[PaymentOf[a]] = pack.price =>
      r.delta = pack.credits

=============================================================================
