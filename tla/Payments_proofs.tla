--------------------------- MODULE Payments_proofs --------------------------
(***************************************************************************)
(* Proofs about Payments, for any payments, attempts, sessions and faults. *)
(*                                                                         *)
(* The inductive invariant says what a session may be doing while it has a *)
(* lock: the webhook has the row before the advisory lock, verify_payment  *)
(* has them the other way round.  Two sessions that wait for each other    *)
(* are therefore one of each on one payment, and as a payment is captured  *)
(* once, they credit the same attempt: the victim's money is not lost.     *)
(***************************************************************************)
EXTENDS Payments, Wallet_proofs

SessionEvent == [kind : Kinds \cup {"verify"}, attempt : Attempts]

(* Only a captured attempt is credited, and a failure is not handled by a  *)
(* session that read the row as paid.                                      *)
SessionFits(s) ==
  session[s].pc # "idle" =>
    /\ session[s].event \in SessionEvent
    /\ session[s].pc = "lock" => Credits(s)
    /\ Credits(s) => Captured(Attempt(s))
    /\ Kind(s) = "failed" => Seen(s).status # "paid"

SessionsFit == \A s \in Sessions : SessionFits(s)

(* A session with a row lock has flushed its own payment, and is about to  *)
(* commit, or a webhook that has yet to take the advisory lock.            *)
RowFits(p, s) ==
  rowLock[p] = s =>
    /\ session[s].pc # "idle" /\ Pay(s) = p
    /\ session[s].pc = "commit" \/ (session[s].pc = "lock" /\ Kind(s) = "captured")

(* A session with an advisory lock is about to commit, or a verification   *)
(* that has yet to flush.                                                  *)
UserFits(u, s) ==
  userLock[u] = s =>
    /\ session[s].pc # "idle" /\ User(s) = u
    /\ session[s].pc = "commit" \/ (session[s].pc = "update" /\ Kind(s) = "verify")

HeldBy(s) ==
  /\ \A p \in Payments : RowFits(p, s)
  /\ \A u \in Users : UserFits(u, s)

LocksFit == \A s \in Sessions : HeldBy(s)

(* The gateway captures an order once. *)
CapturedOnce ==
  \A a, b \in Attempts :
    Captured(a) /\ Captured(b) /\ PaymentOf[a] = PaymentOf[b] => a = b

(* Every row of the ledger is the credit of a captured attempt. *)
RowsAreCaptures ==
  \A r \in rows : \E a \in Attempts :
    /\ Captured(a)
    /\ r = [key |-> CreditKey(a), user |-> UserOf[PaymentOf[a]],
            delta |-> Amount[PaymentOf[a]]]

IInv ==
  /\ TypeOK
  /\ SessionsFit
  /\ LocksFit
  /\ CapturedOnce
  /\ RowsAreCaptures
  /\ PaidIsCredited
  /\ AnsweredIsCredited

-----------------------------------------------------------------------------
(* Lemmas about sessions *)

Request == [pc : {"idle", "update", "lock", "commit"}, event : Raw, seen : PaymentRow]

(* Session s takes a step and the others do not. *)
OnlyMoves(s) ==
  /\ session' \in [Sessions -> Request]
  /\ \A t \in Sessions : t # s => session'[t] = session[t]

(* It goes from one step to another with its event and its copy. *)
Goes(s, from, to) ==
  /\ OnlyMoves(s)
  /\ session[s].pc = from /\ session'[s].pc = to
  /\ session'[s].event = session[s].event /\ session'[s].seen = session[s].seen

(* It is over. *)
Ends(s) == OnlyMoves(s) /\ session'[s] = Resting

(* A session that begins holds the event and a copy of the row. *)
LEMMA BeginMoves ==
  ASSUME TypeOK, NEW s \in Sessions, NEW e \in SessionEvent,
         NEW step \in {"update", "lock"}, Begin(s, e, step)
  PROVE  /\ OnlyMoves(s) /\ session[s].pc = "idle"
         /\ session'[s].pc = step /\ session'[s].event = e
         /\ session'[s].seen = payment[PaymentOf[e.attempt]]
<1>1. e \in Raw /\ PaymentOf[e.attempt] \in Payments
  BY PaymentOfAssumption DEF SessionEvent, Raw
<1>2. [pc |-> step, event |-> e, seen |-> payment[PaymentOf[e.attempt]]] \in Request
  BY <1>1 DEF TypeOK, Request
<1>. QED
  BY <1>2 DEF TypeOK, OnlyMoves, Begin, Request

(* A session goes on. *)
LEMMA GotoMoves ==
  ASSUME TypeOK, NEW s \in Sessions, NEW from, NEW to \in {"update", "lock", "commit"},
         session[s].pc = from, Goto(s, to)
  PROVE  Goes(s, from, to)
<1>1. session[s] \in Request
  BY DEF TypeOK, Request
<1>2. session' = [session EXCEPT ![s] = [session[s] EXCEPT !.pc = to]]
  BY DEF Goto
<1>. QED
  BY <1>1, <1>2 DEF TypeOK, Goes, OnlyMoves, Request

(* A session that commits or is undone rests. *)
LEMMA RestMoves ==
  ASSUME TypeOK, NEW s \in Sessions, session' = [session EXCEPT ![s] = Resting]
  PROVE  Ends(s)
<1>1. Resting \in Request
  BY DEF Resting, Absent, Request, Raw, PaymentRow
<1>. QED
  BY <1>1 DEF TypeOK, Ends, OnlyMoves, Request

(* What the event of a session names exists. *)
LEMMA EventNames ==
  ASSUME IInv, NEW s \in Sessions, session[s].pc # "idle"
  PROVE  /\ session[s].event \in SessionEvent /\ Attempt(s) \in Attempts
         /\ Kind(s) \in Kinds \cup {"verify"}
         /\ Pay(s) \in Payments /\ User(s) \in Users
         /\ Seen(s) \in PaymentRow
<1>1. session[s].event \in SessionEvent
  BY DEF IInv, SessionsFit, SessionFits
<1>2. Attempt(s) \in Attempts /\ Kind(s) \in Kinds \cup {"verify"}
  BY <1>1 DEF SessionEvent, Attempt, Kind
<1>3. Pay(s) \in Payments
  BY <1>2, PaymentOfAssumption DEF Pay
<1>4. User(s) \in Users
  BY <1>3, UserOfAssumption DEF User
<1>5. Seen(s) \in PaymentRow
  BY DEF IInv, TypeOK, Seen
<1>. QED
  BY <1>1, <1>2, <1>3, <1>4, <1>5

(* Two sessions that wait for each other credit one attempt. *)
LEMMA CycleSharesAttempt ==
  ASSUME IInv, NEW s \in Sessions, NEW t \in Sessions, WaitsFor(s, t), WaitsFor(t, s)
  PROVE  /\ s # t /\ session[s].pc # "idle" /\ session[t].pc # "idle"
         /\ Credits(s) /\ Credits(t) /\ Attempt(s) = Attempt(t)
<1>1. ASSUME NEW x \in Sessions, NEW y \in Sessions,
             session[x].pc = "update", rowLock[Pay(x)] = y
      PROVE  session[y].pc # "update" /\ (session[y].pc = "lock" => Kind(y) = "captured")
             /\ Pay(y) = Pay(x)
  BY <1>1, EventNames DEF IInv, LocksFit, HeldBy, RowFits
<1>2. ASSUME NEW x \in Sessions, NEW y \in Sessions,
             session[x].pc = "lock", userLock[User(x)] = y
      PROVE  session[y].pc # "lock" /\ (session[y].pc = "update" => Kind(y) = "verify")
  BY <1>2, EventNames DEF IInv, LocksFit, HeldBy, UserFits
<1>3. /\ s # t /\ session[s].pc \in {"update", "lock"} /\ session[t].pc \in {"update", "lock"}
      /\ Credits(s) /\ Credits(t) /\ Pay(s) = Pay(t)
  BY <1>1, <1>2 DEF WaitsFor, Credits
<1>4. Captured(Attempt(s)) /\ Captured(Attempt(t))
  BY <1>3 DEF IInv, SessionsFit, SessionFits
<1>5. Attempt(s) \in Attempts /\ Attempt(t) \in Attempts
  BY <1>3, EventNames
<1>6. Attempt(s) = Attempt(t)
  BY <1>3, <1>4, <1>5 DEF IInv, CapturedOnce, Pay
<1>. QED
  BY <1>3, <1>6

-----------------------------------------------------------------------------
(* What the actions do to sessions, locks and ledger *)

(* The steps of the gateway and of create_order. *)
Environment ==
  \/ \E p \in Payments : CreateOrder(p)
  \/ \E e \in Event : GatewaySends(e)

Undone(s) == Fails(s) \/ Dies(s) \/ DeadlockVictim(s)

(* Where the steps of a session lead. *)
LEMMA Effects ==
  ASSUME IInv, NEW s \in Sessions
  PROVE  /\ \A e \in Event :
              Webhook(s, e) =>
                /\ OnlyMoves(s) /\ session[s].pc = "idle" /\ session'[s].event = e
                /\ session'[s].seen = payment[PaymentOf[e.attempt]]
                /\ session'[s].pc \in {"update", "lock"}
                /\ session'[s].pc = "lock" => e.kind = "captured"
         /\ \A a \in Attempts :
              Verify(s, a) =>
                /\ OnlyMoves(s) /\ session[s].pc = "idle" /\ session'[s].pc = "lock"
                /\ session'[s].event = [kind |-> "verify", attempt |-> a]
         /\ Update(s) =>
              \/ Goes(s, "update", "lock") /\ Kind(s) = "captured"
              \/ Goes(s, "update", "commit") /\ Kind(s) # "captured"
         /\ Lock(s) =>
              \/ Goes(s, "lock", "update") /\ Kind(s) = "verify"
              \/ Goes(s, "lock", "commit")
         /\ Commit(s) => session[s].pc = "commit" /\ Ends(s)
         /\ Undone(s) => session[s].pc # "idle" /\ Ends(s)
<1>. USE DEF IInv
<1>1. ASSUME NEW e \in Event, Webhook(s, e)
      PROVE  /\ OnlyMoves(s) /\ session[s].pc = "idle" /\ session'[s].event = e
             /\ session'[s].seen = payment[PaymentOf[e.attempt]]
             /\ session'[s].pc \in {"update", "lock"}
             /\ session'[s].pc = "lock" => e.kind = "captured"
  <2>1. e \in SessionEvent
    BY DEF Event, SessionEvent
  <2>. QED
    BY <1>1, <2>1, BeginMoves DEF Webhook
<1>2. ASSUME NEW a \in Attempts, Verify(s, a)
      PROVE  /\ OnlyMoves(s) /\ session[s].pc = "idle" /\ session'[s].pc = "lock"
             /\ session'[s].event = [kind |-> "verify", attempt |-> a]
  <2>1. [kind |-> "verify", attempt |-> a] \in SessionEvent
    BY DEF SessionEvent
  <2>. QED
    BY <1>2, <2>1, BeginMoves DEF Verify
<1>3. Update(s) =>
        \/ Goes(s, "update", "lock") /\ Kind(s) = "captured"
        \/ Goes(s, "update", "commit") /\ Kind(s) # "captured"
  BY GotoMoves DEF Update
<1>4. Lock(s) =>
        \/ Goes(s, "lock", "update") /\ Kind(s) = "verify"
        \/ Goes(s, "lock", "commit")
  BY GotoMoves DEF Lock
<1>5. Commit(s) => session[s].pc = "commit" /\ Ends(s)
  BY RestMoves DEF Commit
<1>6. Undone(s) => session[s].pc # "idle" /\ Ends(s)
  <2>1. DeadlockVictim(s) => session[s].pc # "idle"
    BY DEF DeadlockVictim, WaitsFor
  <2>. QED
    BY <2>1, RestMoves DEF Undone, Fails, Dies, DeadlockVictim, Error, Undo
<1>. QED
  BY <1>1, <1>2, <1>3, <1>4, <1>5, <1>6

(* What a commit posts is the credit of its captured attempt. *)
LEMMA CommitPosts ==
  ASSUME IInv, NEW s \in Sessions, Commit(s)
  PROVE  /\ WalletTypeOK'
         /\ \A i : HasKey(i) => HasKey(i)'
         /\ \A a \in Attempts : Credits(s) /\ a = Attempt(s) => Credited(a)'
         /\ RowsAreCaptures'
<1>1. /\ session[s].pc = "commit" /\ Attempt(s) \in Attempts
      /\ Pay(s) \in Payments /\ User(s) \in Users
  BY EventNames DEF Commit
<1>2. PICK a \in Attempts : a = Attempt(s)
  BY <1>1
<1>3. /\ CreditKey(a) \in Keys /\ Amount[PaymentOf[a]] \in Deltas
      /\ UserOf[PaymentOf[a]] \in Users
  BY <1>1, <1>2, CreditKeyAssumption, AmountAssumption DEF Pay, User
<1>4. CASE ~ Credits(s)
  <2>1. UNCHANGED walletVars /\ UNCHANGED sent
    BY <1>4 DEF Commit
  <2>2. RowsAreCaptures'
    BY <2>1 DEF IInv, RowsAreCaptures, Captured, walletVars
  <2>. QED
    BY <1>4, <2>1, <2>2, WalletKept DEF IInv, TypeOK
<1>5. CASE Credits(s)
  <2>1. PostOnce(CreditKey(a), UserOf[PaymentOf[a]], Amount[PaymentOf[a]]) /\ sent' = sent
    BY <1>2, <1>5 DEF Commit, Credit, Key, User, Pay
  <2>2. /\ WalletTypeOK' /\ HasKey(CreditKey(a))'
        /\ \A i : HasKey(i) => HasKey(i)'
    BY <1>3, <2>1, PostOnceTakesKey DEF IInv, TypeOK
  <2>3. Captured(a)
    BY <1>1, <1>2, <1>5 DEF IInv, SessionsFit, SessionFits
  <2>4. \A r \in rows' :
          \/ r \in rows
          \/ r = [key |-> CreditKey(a), user |-> UserOf[PaymentOf[a]],
                  delta |-> Amount[PaymentOf[a]]]
    BY <2>1 DEF PostOnce, Post, walletVars
  <2>5. RowsAreCaptures'
    BY <2>1, <2>3, <2>4 DEF IInv, RowsAreCaptures, Captured
  <2>6. Credited(a)'
    BY <2>2 DEF Credited
  <2>. QED
    BY <1>2, <2>2, <2>5, <2>6
<1>. QED
  BY <1>4, <1>5

(* A step of the gateway or of create_order, and the beginning and the end *)
(* of a session other than by its commit, credit nothing.                  *)
LEMMA LedgerStep ==
  ASSUME IInv, [Next]_vars
  PROVE  /\ WalletTypeOK' /\ RowsAreCaptures'
         /\ \A i : HasKey(i) => HasKey(i)'
         /\ sent \subseteq sent'
         /\ \A a \in Attempts : Captured(a) => Captured(a)'
<1>1. sent \subseteq sent'
  BY DEF Next, vars, CreateOrder, GatewaySends, Webhook, Verify, Update, Lock,
         Commit, Fails, Dies, DeadlockVictim, Error, Undo
<1>2. \A a \in Attempts : Captured(a) => Captured(a)'
  BY <1>1 DEF Captured
<1>3. CASE UNCHANGED walletVars
  <2>1. RowsAreCaptures'
    BY <1>2, <1>3 DEF IInv, RowsAreCaptures, walletVars
  <2>. QED
    BY <1>1, <1>2, <1>3, <2>1, WalletKept DEF IInv, TypeOK
<1>4. ASSUME NEW s \in Sessions, Commit(s)
      PROVE  WalletTypeOK' /\ RowsAreCaptures' /\ \A i : HasKey(i) => HasKey(i)'
  BY <1>4, CommitPosts
<1>5. UNCHANGED walletVars \/ \E s \in Sessions : Commit(s)
  BY DEF Next, vars, walletVars, CreateOrder, GatewaySends, Webhook, Verify,
         Update, Lock, Fails, Dies, DeadlockVictim, Error, Undo
<1>. QED
  BY <1>1, <1>2, <1>3, <1>4, <1>5

(* The row a commit writes: a status, an attempt and a body of the event,  *)
(* or of the row that is there.                                            *)
LEMMA FlushedFits ==
  ASSUME IInv, NEW s \in Sessions, session[s].pc # "idle"
  PROVE  /\ Flushed(s) \in PaymentRow
         /\ Assigned(s).status \in {Seen(s).status, Status(Kind(s))}
         /\ Flushed(s).status =
              IF Assigned(s).status # Seen(s).status THEN Assigned(s).status
              ELSE payment[Pay(s)].status
         /\ Kind(s) = "other" => Assigned(s).status = Seen(s).status
<1>1. /\ session[s].event \in Raw /\ Attempt(s) \in Attempts /\ Pay(s) \in Payments
      /\ Seen(s) \in PaymentRow /\ payment[Pay(s)] \in PaymentRow
      /\ Status(Kind(s)) \in {"absent", "created", "paid", "failed"}
  BY EventNames DEF IInv, TypeOK, Status
<1>2. Assigned(s) \in PaymentRow
  BY <1>1 DEF Assigned, PaymentRow
<1>3. Flushed(s) = [status |-> Flushed(s)["status"], attempt |-> Flushed(s)["attempt"],
                    raw |-> Flushed(s)["raw"]]
  BY DEF Flushed
<1>4. Flushed(s) \in PaymentRow
  <2>1. /\ Flushed(s)["status"] \in {"absent", "created", "paid", "failed"}
        /\ Flushed(s)["attempt"] \in Attempts \cup {NoAttempt}
        /\ Flushed(s)["raw"] \in Raw
    BY <1>1, <1>2 DEF Flushed, PaymentRow
  <2>. QED
    BY <1>3, <2>1 DEF PaymentRow
<1>5. /\ Assigned(s).status \in {Seen(s).status, Status(Kind(s))}
      /\ Kind(s) = "other" => Assigned(s).status = Seen(s).status
  BY <1>1 DEF Assigned, PaymentRow
<1>6. Flushed(s).status =
        IF Assigned(s).status # Seen(s).status THEN Assigned(s).status
        ELSE payment[Pay(s)].status
  BY DEF Flushed
<1>. QED
  BY <1>4, <1>5, <1>6

(* What is acknowledged was sent. *)
LEMMA AcknowledgeStep ==
  ASSUME IInv, NEW s \in Sessions, session[s].pc # "idle",
         Acknowledge(session[s].event), sent' = sent
  PROVE  /\ acked' \subseteq sent'
         /\ \A e \in acked' : e \in acked \/ (Credits(s) /\ e.attempt = Attempt(s))
<1>1. session[s].event \in SessionEvent
  BY EventNames
<1>2. CASE Kind(s) = "captured"
  <2>1. Credits(s) /\ Captured(Attempt(s))
    BY <1>2 DEF Credits, IInv, SessionsFit, SessionFits
  <2>2. session[s].event = [kind |-> "captured", attempt |-> Attempt(s)]
    BY <1>1, <1>2 DEF SessionEvent, Kind, Attempt
  <2>3. session[s].event \in sent
    BY <2>1, <2>2 DEF Captured
  <2>4. acked' = acked \cup {session[s].event}
    BY <1>2 DEF Acknowledge, Kind
  <2>. QED
    BY <2>1, <2>3, <2>4 DEF IInv, TypeOK, Attempt
<1>3. CASE Kind(s) # "captured"
  BY <1>3 DEF Acknowledge, Kind, IInv, TypeOK
<1>. QED
  BY <1>2, <1>3

-----------------------------------------------------------------------------
(* The steps *)

(* Every step keeps the type of every variable. *)
LEMMA TypeStep ==
  ASSUME IInv, [Next]_vars
  PROVE  TypeOK'
<1>1. WalletTypeOK'
  BY LedgerStep
<1>2. session' \in [Sessions -> Request]
  BY Effects
     DEF Next, Undone, Goes, Ends, OnlyMoves, vars, CreateOrder, GatewaySends, IInv,
         TypeOK, Request
<1>3. /\ faults \in Nat /\ faults <= MaxFaults /\ MaxFaults \in Nat
  BY FaultsAssumption DEF IInv, TypeOK
<1>4. ASSUME NEW p \in Payments, CreateOrder(p)
      PROVE  TypeOK'
  <2>1. payment[p] \in PaymentRow
    BY DEF IInv, TypeOK
  <2>2. [payment[p] EXCEPT !.status = "created"] \in PaymentRow
    BY <2>1 DEF PaymentRow
  <2>3. payment' = [payment EXCEPT ![p] = [payment[p] EXCEPT !.status = "created"]]
    BY <1>4 DEF CreateOrder
  <2>4. payment' \in [Payments -> PaymentRow]
    BY <2>2, <2>3 DEF IInv, TypeOK
  <2>. QED
    BY <1>1, <1>2, <1>4, <2>4 DEF CreateOrder, IInv, TypeOK, Request
<1>5. ASSUME NEW e \in Event, GatewaySends(e)
      PROVE  TypeOK'
  BY <1>1, <1>2, <1>5 DEF GatewaySends, IInv, TypeOK, Request
<1>6. ASSUME NEW s \in Sessions,
             \/ \E e \in Event : Webhook(s, e)
             \/ \E a \in Attempts : Verify(s, a)
             \/ Update(s) \/ Lock(s)
      PROVE  TypeOK'
  <2>1. rowLock' \in [Payments -> Sessions \cup {NoSession}]
        /\ userLock' \in [Users -> Sessions \cup {NoSession}]
    BY <1>6 DEF Webhook, Verify, Update, Lock, IInv, TypeOK
  <2>2. UNCHANGED <<payment, sent, acked, faults>>
    BY <1>6 DEF Webhook, Verify, Update, Lock
  <2>. QED
    BY <1>1, <1>2, <2>1, <2>2 DEF IInv, TypeOK, Request
<1>7. ASSUME NEW s \in Sessions, Release(s)
      PROVE  /\ rowLock' \in [Payments -> Sessions \cup {NoSession}]
             /\ userLock' \in [Users -> Sessions \cup {NoSession}]
  BY <1>7 DEF Release, IInv, TypeOK
<1>8. ASSUME NEW s \in Sessions, Commit(s)
      PROVE  TypeOK'
  <2>1. session[s].pc # "idle"
    BY <1>8 DEF Commit
  <2>2. payment' \in [Payments -> PaymentRow]
    BY <1>8, <2>1, FlushedFits, EventNames DEF Commit, IInv, TypeOK
  <2>3. acked' \subseteq sent' /\ sent' = sent
    BY <1>8, <2>1, AcknowledgeStep DEF Commit
  <2>4. Release(s) /\ faults' = faults
    BY <1>8 DEF Commit
  <2>. QED
    BY <1>1, <1>2, <1>7, <2>2, <2>3, <2>4 DEF IInv, TypeOK, Request
<1>9. ASSUME NEW s \in Sessions, Undone(s)
      PROVE  TypeOK'
  <2>1. session[s].pc # "idle" /\ Release(s) /\ UNCHANGED <<payment, sent>>
    BY <1>9, Effects DEF Undone, Fails, Dies, DeadlockVictim, Error, Undo
  <2>2. acked' \subseteq sent'
    BY <1>9, <2>1, AcknowledgeStep
       DEF Undone, Fails, Dies, DeadlockVictim, Error, IInv, TypeOK
  <2>3. faults' \in 0 .. MaxFaults
    BY <1>3, <1>9 DEF Undone, Fails, Dies, DeadlockVictim
  <2>. QED
    BY <1>1, <1>2, <1>7, <2>1, <2>2, <2>3 DEF IInv, TypeOK, Request
<1>10. CASE UNCHANGED vars
  BY <1>1, <1>10 DEF vars, IInv, TypeOK
<1>. QED
  BY <1>4, <1>5, <1>6, <1>8, <1>9, <1>10 DEF Next, Undone

(* What a session does fits its event and its copy. *)
LEMMA SessionsStep ==
  ASSUME IInv, [Next]_vars
  PROVE  SessionsFit'
<1>1. \A a \in Attempts : Captured(a) => Captured(a)'
  BY LedgerStep
<1>2. ASSUME NEW t \in Sessions, session'[t].event = session[t].event,
             session'[t].seen = session[t].seen, session[t].pc # "idle",
             session'[t].pc = "lock" => session[t].pc = "lock" \/ Credits(t)
      PROVE  SessionFits(t)'
  <2>1. SessionFits(t) /\ Attempt(t) \in Attempts
    BY <1>2, EventNames DEF IInv, SessionsFit
  <2>. QED
    BY <1>1, <1>2, <2>1 DEF SessionFits, Credits, Kind, Attempt, Seen
<1>3. ASSUME NEW t \in Sessions, session'[t] = session[t] PROVE SessionFits(t)'
  <2>1. CASE session[t].pc = "idle"
    BY <1>3, <2>1 DEF SessionFits
  <2>2. CASE session[t].pc # "idle"
    BY <1>2, <1>3, <2>2
  <2>. QED
    BY <2>1, <2>2
<1>4. ASSUME NEW s \in Sessions, SessionFits(s)', OnlyMoves(s) PROVE SessionsFit'
  BY <1>3, <1>4 DEF SessionsFit, OnlyMoves
<1>5. CASE Environment \/ UNCHANGED vars
  BY <1>3, <1>5 DEF Environment, CreateOrder, GatewaySends, vars, SessionsFit
<1>6. ASSUME NEW s \in Sessions, NEW e \in Event, Webhook(s, e)
      PROVE  SessionsFit'
  <2>1. /\ OnlyMoves(s) /\ session'[s].event = e
        /\ session'[s].seen = payment[PaymentOf[e.attempt]]
        /\ session'[s].pc = "lock" => e.kind = "captured"
    BY <1>6, Effects
  <2>2. e \in sent' /\ ~ Ignores(e)
    BY <1>6 DEF Webhook
  <2>3. e.kind = "captured" => Captured(e.attempt)'
    <3>. SUFFICES ASSUME e.kind = "captured" PROVE Captured(e.attempt)'
      OBVIOUS
    <3>1. e = [kind |-> "captured", attempt |-> e.attempt]
      BY DEF Event
    <3>. QED
      BY <2>2, <3>1 DEF Captured
  <2>4. e \in SessionEvent /\ e.kind # "verify"
    BY DEF Event, SessionEvent, Kinds
  <2>5. SessionFits(s)'
    BY <2>1, <2>2, <2>3, <2>4
       DEF SessionFits, Credits, Kind, Attempt, Seen, Ignores, Captured
  <2>. QED
    BY <1>4, <2>1, <2>5
<1>7. ASSUME NEW s \in Sessions, NEW a \in Attempts, Verify(s, a)
      PROVE  SessionsFit'
  <2>1. /\ OnlyMoves(s)
        /\ session'[s].event = [kind |-> "verify", attempt |-> a]
    BY <1>7, Effects
  <2>2. Captured(a)'
    BY <1>1, <1>7 DEF Verify
  <2>3. SessionFits(s)'
    BY <2>1, <2>2 DEF SessionFits, SessionEvent, Credits, Kind, Attempt, Captured
  <2>. QED
    BY <1>4, <2>1, <2>3
<1>8. ASSUME NEW s \in Sessions, Update(s) \/ Lock(s)
      PROVE  SessionsFit'
  <2>1. /\ OnlyMoves(s) /\ session[s].pc # "idle"
        /\ session'[s].event = session[s].event /\ session'[s].seen = session[s].seen
        /\ session'[s].pc = "lock" => Credits(s)
    BY <1>8, Effects DEF Goes, Credits
  <2>. QED
    BY <1>2, <1>4, <2>1
<1>9. ASSUME NEW s \in Sessions, Commit(s) \/ Undone(s)
      PROVE  SessionsFit'
  <2>1. OnlyMoves(s) /\ session'[s].pc = "idle"
    BY <1>9, Effects DEF Ends, Resting
  <2>. QED
    BY <1>4, <2>1 DEF SessionFits
<1>. QED
  BY <1>5, <1>6, <1>7, <1>8, <1>9 DEF Next, Environment, Undone

(* The gateway captures an order once. *)
LEMMA CapturedStep ==
  ASSUME IInv, [Next]_vars
  PROVE  CapturedOnce'
<1>1. CASE sent' = sent
  BY <1>1 DEF IInv, CapturedOnce, Captured
<1>2. ASSUME NEW e \in Event, GatewaySends(e)
      PROVE  CapturedOnce'
  <2>1. sent' = sent \cup {e}
    BY <1>2 DEF GatewaySends
  <2>2. CASE e.kind # "captured"
    BY <2>1, <2>2 DEF IInv, CapturedOnce, Captured
  <2>3. CASE e.kind = "captured"
    <3>1. \A a \in Attempts : PaymentOf[a] = PaymentOf[e.attempt] => ~ Captured(a)
      BY <1>2, <2>3 DEF GatewaySends
    <3>2. \A a \in Attempts : Captured(a)' => Captured(a) \/ a = e.attempt
      BY <2>1 DEF Captured
    <3>. QED
      BY <3>1, <3>2 DEF IInv, CapturedOnce
  <2>. QED
    BY <2>2, <2>3
<1>3. sent' = sent \/ \E e \in Event : GatewaySends(e)
  BY DEF Next, vars, CreateOrder, Webhook, Verify, Update, Lock, Commit, Fails,
         Dies, DeadlockVictim, Error, Undo
<1>. QED
  BY <1>1, <1>2, <1>3

(* A session takes a lock that is free, at the step that the order of its  *)
(* handler gives, and keeps it until it ends.                              *)
LEMMA LocksStep ==
  ASSUME IInv, TypeOK', [Next]_vars
  PROVE  LocksFit'
<1>. SUFFICES ASSUME NEW t \in Sessions
              PROVE  HeldBy(t)'
  BY DEF LocksFit
<1>2. HeldBy(t)
  BY DEF IInv, LocksFit
<1>3. ASSUME session'[t] = session[t],
             \A p \in Payments : rowLock'[p] = t => rowLock[p] = t,
             \A u \in Users : userLock'[u] = t => userLock[u] = t
      PROVE  HeldBy(t)'
  BY <1>2, <1>3 DEF HeldBy, RowFits, UserFits, Pay, User, Attempt, Kind
<1>4. CASE Environment \/ UNCHANGED vars
  BY <1>3, <1>4 DEF Environment, CreateOrder, GatewaySends, vars
<1>5. ASSUME NEW s \in Sessions,
             \/ \E e \in Event : Webhook(s, e)
             \/ \E a \in Attempts : Verify(s, a)
      PROVE  HeldBy(t)'
  <2>1. OnlyMoves(s) /\ session[s].pc = "idle" /\ UNCHANGED <<rowLock, userLock>>
    BY <1>5, Effects DEF Webhook, Verify
  <2>2. CASE t = s
    BY <1>2, <2>1, <2>2 DEF HeldBy, RowFits, UserFits
  <2>3. CASE t # s
    BY <1>3, <2>1, <2>3 DEF OnlyMoves
  <2>. QED
    BY <2>2, <2>3
<1>6. ASSUME NEW s \in Sessions, Update(s)
      PROVE  HeldBy(t)'
  <2>1. /\ OnlyMoves(s) /\ session[s].pc = "update"
        /\ session'[s].event = session[s].event
        /\ \/ session'[s].pc = "lock" /\ Kind(s) = "captured"
           \/ session'[s].pc = "commit" /\ Kind(s) # "captured"
        /\ userLock' = userLock
    BY <1>6, Effects DEF Goes, Update
  <2>2. \A p \in Payments :
          rowLock'[p] = t => rowLock[p] = t \/ (p = Pay(s) /\ t = s)
    BY <1>6 DEF Update, IInv, TypeOK
  <2>3. CASE t = s
    <3>1. \A p \in Payments : RowFits(p, t)'
      BY <1>2, <2>1, <2>2, <2>3 DEF HeldBy, RowFits, Pay, Attempt, Kind
    <3>2. \A u \in Users : UserFits(u, t)'
      BY <1>2, <2>1, <2>3 DEF HeldBy, UserFits, Pay, User, Attempt, Kind
    <3>. QED
      BY <3>1, <3>2 DEF HeldBy
  <2>4. CASE t # s
    BY <1>3, <2>1, <2>2, <2>4 DEF OnlyMoves
  <2>. QED
    BY <2>3, <2>4
<1>7. ASSUME NEW s \in Sessions, Lock(s)
      PROVE  HeldBy(t)'
  <2>1. /\ OnlyMoves(s) /\ session[s].pc = "lock"
        /\ session'[s].event = session[s].event
        /\ \/ session'[s].pc = "update" /\ Kind(s) = "verify"
           \/ session'[s].pc = "commit"
        /\ rowLock' = rowLock
    BY <1>7, Effects DEF Goes, Lock
  <2>2. \A u \in Users :
          userLock'[u] = t => userLock[u] = t \/ (u = User(s) /\ t = s)
    BY <1>7 DEF Lock, IInv, TypeOK
  <2>3. CASE t = s
    <3>1. \A p \in Payments : RowFits(p, t)'
      BY <1>2, <2>1, <2>3 DEF HeldBy, RowFits, Pay, Attempt, Kind
    <3>2. \A u \in Users : UserFits(u, t)'
      BY <1>2, <2>1, <2>2, <2>3 DEF HeldBy, UserFits, Pay, User, Attempt, Kind
    <3>. QED
      BY <3>1, <3>2 DEF HeldBy
  <2>4. CASE t # s
    BY <1>3, <2>1, <2>2, <2>4 DEF OnlyMoves
  <2>. QED
    BY <2>3, <2>4
<1>8. ASSUME NEW s \in Sessions, Commit(s) \/ Undone(s)
      PROVE  HeldBy(t)'
  <2>1. OnlyMoves(s) /\ Release(s)
    BY <1>8, Effects DEF Ends, Commit, Undone, Fails, Dies, DeadlockVictim, Error, Undo
  <2>2. /\ \A p \in Payments : rowLock'[p] = t => rowLock[p] = t /\ t # s
        /\ \A u \in Users : userLock'[u] = t => userLock[u] = t /\ t # s
    BY <2>1, NoneAssumption DEF Release
  <2>3. CASE t = s
    BY <2>2, <2>3 DEF HeldBy, RowFits, UserFits
  <2>4. CASE t # s
    BY <1>3, <2>1, <2>2, <2>4 DEF OnlyMoves
  <2>. QED
    BY <2>3, <2>4
<1>. QED
  BY <1>4, <1>5, <1>6, <1>7, <1>8 DEF Next, Environment, Undone

(* A row is written as paid only together with the credit of its attempt. *)
LEMMA PaidStep ==
  ASSUME IInv, [Next]_vars
  PROVE  PaidIsCredited'
<1>1. \A i : HasKey(i) => HasKey(i)'
  BY LedgerStep
<1>2. ASSUME NEW p \in Payments, payment'[p].status = "paid" => payment[p].status = "paid"
      PROVE  payment'[p].status = "paid" =>
               \E a \in Attempts : PaymentOf[a] = p /\ Credited(a)'
  BY <1>1, <1>2 DEF IInv, PaidIsCredited, Credited
<1>. SUFFICES ASSUME NEW p \in Payments, payment'[p].status = "paid",
                     payment[p].status # "paid"
              PROVE  \E a \in Attempts : PaymentOf[a] = p /\ Credited(a)'
  BY <1>2 DEF PaidIsCredited
<1>3. ASSUME NEW q \in Payments, CreateOrder(q) PROVE FALSE
  BY <1>3 DEF CreateOrder, IInv, TypeOK, PaymentRow
<1>4. ASSUME NEW s \in Sessions, Commit(s)
      PROVE  \E a \in Attempts : PaymentOf[a] = p /\ Credited(a)'
  <2>1. /\ session[s].pc # "idle" /\ p = Pay(s)
        /\ payment'[p] = Flushed(s)
    BY <1>4 DEF Commit, IInv, TypeOK
  <2>2. Assigned(s).status = "paid" /\ Kind(s) # "other" /\ Status(Kind(s)) = "paid"
    BY <2>1, FlushedFits
  <2>3. Credits(s) /\ Attempt(s) \in Attempts
    BY <2>1, <2>2, EventNames DEF Status, Credits, Kinds
  <2>. QED
    BY <1>4, <2>1, <2>3, CommitPosts DEF Pay
<1>. QED
  BY <1>3, <1>4 DEF Next, vars, GatewaySends, Webhook, Verify, Update, Lock,
                    Fails, Dies, DeadlockVictim, Error, Undo

(* Without an error the credit of an answered capture is there or under    *)
(* way: a commit makes it, and the victim of a deadlock leaves it to the   *)
(* other session.                                                          *)
LEMMA AnsweredStep ==
  ASSUME IInv, TypeOK', [Next]_vars
  PROVE  AnsweredIsCredited'
<1>. DEFINE Safe(a) ==
              \/ Credited(a)
              \/ \E s \in Sessions :
                   session[s].pc # "idle" /\ Credits(s) /\ Attempt(s) = a
<1>. SUFFICES ASSUME faults' = 0, NEW e \in acked'
              PROVE  Safe(e.attempt)'
  BY DEF AnsweredIsCredited, BeingCredited
<1>1. \A i : HasKey(i) => HasKey(i)'
  BY LedgerStep
<1>2. faults = 0 /\ \A s \in Sessions : ~ Fails(s) /\ ~ Dies(s)
  <2>1. faults \in Nat
    BY FaultsAssumption DEF IInv, TypeOK
  <2>2. \A s \in Sessions : ~ Fails(s) /\ ~ Dies(s)
    BY <2>1 DEF Fails, Dies
  <2>. QED
    BY <2>2 DEF Next, vars, CreateOrder, GatewaySends, Webhook, Verify, Update,
                Lock, Commit, DeadlockVictim
<1>3. PICK a : a = e.attempt
  OBVIOUS
<1>4. e \in acked => Safe(a)
  BY <1>2, <1>3 DEF IInv, AnsweredIsCredited, BeingCredited
<1>5. ASSUME NEW s \in Sessions, session[s].pc # "idle", Credits(s), Attempt(s) = a,
             session'[s].event = session[s].event, session'[s].pc # "idle"
      PROVE  Safe(a)'
  BY <1>5 DEF Credits, Attempt, Kind
<1>6. ASSUME Credited(a) PROVE Safe(a)'
  BY <1>1, <1>6 DEF Credited
<1>7. ASSUME Environment \/ UNCHANGED vars PROVE Safe(a)'
  BY <1>4, <1>5, <1>6, <1>7 DEF Environment, CreateOrder, GatewaySends, vars
<1>8. ASSUME NEW s \in Sessions,
             \/ \E d \in Event : Webhook(s, d)
             \/ \E b \in Attempts : Verify(s, b)
             \/ Update(s) \/ Lock(s)
      PROVE  Safe(a)'
  <2>1. acked' = acked
    BY <1>8 DEF Webhook, Verify, Update, Lock
  <2>2. /\ OnlyMoves(s)
        /\ \/ session[s].pc = "idle"
           \/ session'[s].event = session[s].event /\ session'[s].pc # "idle"
    BY <1>8, Effects DEF Goes
  <2>3. \A t \in Sessions : session[t].pc # "idle" =>
          session'[t].event = session[t].event /\ session'[t].pc # "idle"
    BY <2>2 DEF OnlyMoves
  <2>. QED
    BY <1>4, <1>5, <1>6, <2>1, <2>3
<1>9. ASSUME NEW s \in Sessions, Commit(s)
      PROVE  Safe(a)'
  <2>1. OnlyMoves(s) /\ session[s].pc # "idle"
    BY <1>9, Effects DEF Ends
  <2>2. \A d \in acked' : d \in acked \/ (Credits(s) /\ d.attempt = Attempt(s))
    BY <1>9, <2>1, AcknowledgeStep DEF Commit
  <2>3. ASSUME Credits(s), Attempt(s) = a PROVE Safe(a)'
    <3>1. a \in Attempts
      BY <2>1, <2>3, EventNames
    <3>. QED
      BY <1>9, <2>3, <3>1, CommitPosts
  <2>4. ASSUME NEW t \in Sessions, t # s, session[t].pc # "idle", Credits(t), Attempt(t) = a
        PROVE  Safe(a)'
    BY <1>5, <2>1, <2>4 DEF OnlyMoves
  <2>. QED
    BY <1>3, <1>4, <1>6, <2>1, <2>2, <2>3, <2>4
<1>10. ASSUME NEW s \in Sessions, DeadlockVictim(s)
       PROVE  Safe(a)'
  <2>1. PICK t \in Sessions : WaitsFor(s, t) /\ WaitsFor(t, s)
    BY <1>10 DEF DeadlockVictim
  <2>2. /\ s # t /\ session[s].pc # "idle" /\ session[t].pc # "idle"
        /\ Credits(t) /\ Attempt(s) = Attempt(t)
    BY <2>1, CycleSharesAttempt
  <2>3. OnlyMoves(s)
    BY <1>10, Effects DEF Undone, Ends
  <2>4. \A d \in acked' : d \in acked \/ (Credits(s) /\ d.attempt = Attempt(s))
    BY <1>10, <2>2, AcknowledgeStep DEF DeadlockVictim, Error, Undo
  <2>5. Attempt(s) = a => Safe(a)'
    BY <1>5, <2>2, <2>3 DEF OnlyMoves
  <2>6. ASSUME NEW x \in Sessions, x # s, session[x].pc # "idle", Credits(x), Attempt(x) = a
        PROVE  Safe(a)'
    BY <1>5, <2>3, <2>6 DEF OnlyMoves
  <2>. QED
    BY <1>3, <1>4, <1>6, <2>4, <2>5, <2>6
<1>11. Safe(a)'
  BY <1>2, <1>7, <1>8, <1>9, <1>10 DEF Next, Environment
<1>. QED
  BY <1>3, <1>11

-----------------------------------------------------------------------------
(* The theorems *)

(* No session has begun and no event was sent. *)
LEMMA PaymentsBegin ==
  Init => IInv
<1>. SUFFICES ASSUME Init PROVE IInv
  OBVIOUS
<1>1. WalletTypeOK /\ rows = {}
  BY WalletEmpty DEF Init, WalletInit
<1>2. Absent \in PaymentRow /\ Absent.status = "absent"
  BY DEF Absent, PaymentRow, Raw
<1>3. Resting \in Request /\ Resting.pc = "idle"
  BY <1>2 DEF Resting, Request, Raw
<1>4. 0 \in 0 .. MaxFaults
  BY FaultsAssumption
<1>5. TypeOK
  BY <1>1, <1>2, <1>3, <1>4 DEF Init, TypeOK, Request
<1>6. SessionsFit
  BY <1>3 DEF Init, SessionsFit, SessionFits
<1>7. LocksFit
  BY NoneAssumption DEF Init, LocksFit, HeldBy, RowFits, UserFits
<1>8. CapturedOnce /\ RowsAreCaptures /\ PaidIsCredited /\ AnsweredIsCredited
  BY <1>1, <1>2
     DEF Init, CapturedOnce, Captured, RowsAreCaptures,
         PaidIsCredited, AnsweredIsCredited
<1>. QED
  BY <1>5, <1>6, <1>7, <1>8 DEF IInv

(* Every step keeps the invariant. *)
LEMMA StepKeeps ==
  IInv /\ [Next]_vars => IInv'
<1>. SUFFICES ASSUME IInv, [Next]_vars PROVE IInv'
  OBVIOUS
<1>1. TypeOK'
  BY TypeStep
<1>2. SessionsFit' /\ CapturedOnce' /\ RowsAreCaptures' /\ PaidIsCredited'
  BY SessionsStep, CapturedStep, LedgerStep, PaidStep
<1>3. LocksFit' /\ AnsweredIsCredited'
  BY <1>1, LocksStep, AnsweredStep
<1>. QED
  BY <1>1, <1>2, <1>3 DEF IInv

(* The inductive invariant holds, for any number of concurrent requests.   *)
THEOREM Invariant ==
  Spec => []IInv
BY PaymentsBegin, StepKeeps, PTL DEF Spec

(* Every variable of the payments keeps its type. *)
THEOREM TypeCorrect ==
  Spec => []TypeOK
<1>1. IInv => TypeOK
  BY DEF IInv
<1>. QED
  BY <1>1, Invariant, PTL

(* _handle_captured, verify_payment: a row shown as paid has its credit,   *)
(* whatever the order of events, repeats, errors and deadlocks.            *)
THEOREM PaymentsAreCredited ==
  Spec => []PaidIsCredited
<1>1. IInv => PaidIsCredited
  BY DEF IInv
<1>. QED
  BY <1>1, Invariant, PTL

(* A webhook that is answered with 200 because it lost a deadlock loses no *)
(* money: the session it lost to credits the same attempt.                 *)
THEOREM AnswersAreCredited ==
  Spec => []AnsweredIsCredited
<1>1. IInv => AnsweredIsCredited
  BY DEF IInv
<1>. QED
  BY <1>1, Invariant, PTL

(* At most one row of the ledger for each payment. *)
CreditedOnce ==
  /\ RowsAreCaptures
  /\ \A a, b \in Attempts :
       Credited(a) /\ Credited(b) /\ PaymentOf[a] = PaymentOf[b] => a = b
  /\ \A q, r \in rows : q.key = r.key => q = r

(* A payment has at most one row in the ledger, of its own user and amount *)
(* and for a captured attempt: webhook, repeats and verify_payment credit  *)
(* it once, and an event without a capture credits nothing.                *)
THEOREM PaymentsAreCreditedOnce ==
  Spec => []CreditedOnce
<1>1. ASSUME IInv PROVE CreditedOnce
  <2>1. \A a \in Attempts : Credited(a) => Captured(a)
    BY <1>1 DEF IInv, RowsAreCaptures, Credited, HasKey, CreditKey
  <2>2. \A q, r \in rows : q.key = r.key => q = r
    BY <1>1 DEF IInv, RowsAreCaptures, CreditKey
  <2>. QED
    BY <1>1, <2>1, <2>2 DEF IInv, CapturedOnce, CreditedOnce
<1>. QED
  BY <1>1, Invariant, PTL

(* _handle_failed: a paid row becomes failed only by a session that read   *)
(* it before it was paid.                                                  *)
THEOREM OnlyStaleCopiesLosePaid ==
  Spec => PaidLostOnlyToStaleCopy
<1>1. ASSUME IInv, [Next]_vars, NEW p \in Payments,
             payment[p].status = "paid", payment'[p].status # "paid"
      PROVE  \E s \in Sessions : rowLock[p] = s /\ Seen(s).status # "paid"
  <2>1. ASSUME NEW q \in Payments, CreateOrder(q) PROVE FALSE
    BY <1>1, <2>1 DEF CreateOrder, IInv, TypeOK, PaymentRow
  <2>2. PICK s \in Sessions : Commit(s)
    BY <1>1, <2>1 DEF Next, vars, GatewaySends, Webhook, Verify, Update, Lock,
                      Fails, Dies, DeadlockVictim, Error, Undo
  <2>3. /\ session[s].pc # "idle" /\ p = Pay(s) /\ rowLock[p] = s
        /\ payment'[p] = Flushed(s)
    BY <1>1, <2>2 DEF Commit, IInv, TypeOK
  <2>4. Assigned(s).status # Seen(s).status /\ Status(Kind(s)) # "paid"
    BY <1>1, <2>3, FlushedFits
  <2>5. Kind(s) = "failed"
    BY <2>4 DEF Status
  <2>6. Seen(s).status # "paid"
    BY <1>1, <2>3, <2>5 DEF IInv, SessionsFit, SessionFits
  <2>. QED
    BY <2>3, <2>6
<1>2. IInv /\ [Next]_vars =>
        [\A p \in Payments :
           payment[p].status = "paid" /\ payment'[p].status # "paid" =>
             \E s \in Sessions : rowLock[p] = s /\ Seen(s).status # "paid"]_vars
  BY <1>1
<1>. QED
  BY <1>2, Invariant, PTL DEF Spec, PaidLostOnlyToStaleCopy

(* Whenever some sessions all wait for one of them, two of them wait for   *)
(* each other.                                                             *)
CyclesArePairs ==
  \A C \in SUBSET Sessions :
    C # {} /\ (\A s \in C : \E t \in C : WaitsFor(s, t)) =>
      \E s, t \in C : WaitsFor(s, t) /\ WaitsFor(t, s)

(* However many sessions wait for rows and advisory locks, and whatever    *)
(* payments they share, a deadlock is one of verify_payment and the        *)
(* webhook of the same payment: the victim that DeadlockVictim takes ends  *)
(* it.                                                                     *)
THEOREM DeadlocksArePairs ==
  Spec => []CyclesArePairs
<1>1. ASSUME IInv PROVE CyclesArePairs
  <2>. SUFFICES ASSUME NEW C \in SUBSET Sessions, NEW c \in C,
                       \A s \in C : \E t \in C : WaitsFor(s, t)
                PROVE  \E s, t \in C : WaitsFor(s, t) /\ WaitsFor(t, s)
    BY DEF CyclesArePairs
  <2>1. ASSUME NEW s \in C, session[s].pc = "lock"
        PROVE  \E x, y \in C : WaitsFor(x, y) /\ WaitsFor(y, x)
    <3>1. PICK t \in C : WaitsFor(s, t)
      OBVIOUS
    <3>2. PICK u \in C : WaitsFor(t, u)
      OBVIOUS
    <3>3. PICK v \in C : WaitsFor(u, v)
      OBVIOUS
    <3>4. userLock[User(s)] = t
      BY <2>1, <3>1 DEF WaitsFor
    <3>5. session[t].pc = "update" /\ User(t) = User(s)
      BY <1>1, <2>1, <3>2, <3>4, EventNames
         DEF IInv, LocksFit, HeldBy, UserFits, WaitsFor
    <3>6. rowLock[Pay(t)] = u
      BY <3>2, <3>5 DEF WaitsFor
    <3>7. session[u].pc = "lock" /\ Pay(u) = Pay(t)
      BY <1>1, <3>3, <3>5, <3>6, EventNames
         DEF IInv, LocksFit, HeldBy, RowFits, WaitsFor
    <3>8. userLock[User(u)] = v /\ User(u) = User(s)
      BY <3>3, <3>5, <3>7 DEF WaitsFor, User
    <3>9. WaitsFor(u, t)
      BY <3>3, <3>4, <3>8
    <3>. QED
      BY <3>2, <3>9
  <2>2. CASE session[c].pc = "update"
    <3>1. PICK t \in C : WaitsFor(c, t)
      OBVIOUS
    <3>2. rowLock[Pay(c)] = t
      BY <2>2, <3>1 DEF WaitsFor
    <3>3. session[t].pc # "update"
      BY <1>1, <2>2, <3>2, EventNames DEF IInv, LocksFit, HeldBy, RowFits
    <3>4. session[t].pc = "lock"
      BY <3>3 DEF WaitsFor
    <3>. QED
      BY <2>1, <3>4
  <2>. QED
    BY <2>1, <2>2 DEF WaitsFor
<1>. QED
  BY <1>1, Invariant, PTL

(* Payments move money through the wallet only, one row in a commit: what  *)
(* WalletIsSound says of the wallet holds with webhooks, verifications,    *)
(* their errors and deadlocks.                                             *)
THEOREM UsesWallet == Spec => WalletSpec
<1>1. Init => WalletInit
  BY DEF Init
<1>2. IInv /\ [Next]_vars => [WalletNext]_walletVars
  <2>. SUFFICES ASSUME IInv, [Next]_vars PROVE [WalletNext]_walletVars
    OBVIOUS
  <2>1. ASSUME NEW s \in Sessions, Commit(s) PROVE [WalletNext]_walletVars
    <3>1. CASE Credits(s)
      <4>1. Attempt(s) \in Attempts /\ Pay(s) \in Payments /\ User(s) \in Users
        BY <2>1, EventNames DEF Commit
      <4>2. Key(s) \in Keys /\ Amount[Pay(s)] \in Deltas
        BY <4>1, CreditKeyAssumption, AmountAssumption DEF Key
      <4>. QED
        BY <2>1, <3>1, <4>1, <4>2, PostOnceIsStep DEF Commit, Credit
    <3>2. CASE ~ Credits(s)
      BY <2>1, <3>2 DEF Commit
    <3>. QED
      BY <3>1, <3>2
  <2>2. ASSUME \A s \in Sessions : ~ Commit(s) PROVE UNCHANGED walletVars
    BY <2>2 DEF Next, vars, walletVars, CreateOrder, GatewaySends, Webhook, Verify, Update,
                Lock, Fails, Dies, DeadlockVictim, Error, Undo
  <2>. QED
    BY <2>1, <2>2
<1>. QED
  BY <1>1, <1>2, Invariant, PTL DEF Spec, WalletSpec

-----------------------------------------------------------------------------
(* The balance is what was captured. *)

(* The payment that a row of the ledger credits. *)
PaymentOfRow == [r \in rows |-> PaymentOf[r.key[2]]]

(* The payments of a user whose capture has been credited. *)
CreditedPayments(u) ==
  {p \in Payments :
     /\ UserOf[p] = u
     /\ \E a \in Attempts : PaymentOf[a] = p /\ Captured(a) /\ Credited(a)}

SumOfAmounts(S) == MapThenSumSet(LAMBDA p : Amount[p], S)

(* The sum over payments as the lemmas on sums have it. *)
LEMMA AmountsTotal ==
  ASSUME NEW S, IsFiniteSet(S)
  PROVE  SumOfAmounts(S) = Total(Amount, S)
  BY DEF SumOfAmounts, MapThenSumSet, MapThenFoldSet, Total, IsFold, Pick

(* Each row of a user is the credit of one payment of that user, no other  *)
(* row is, and its delta is the amount of that payment.                    *)
LEMMA RowsArePayments ==
  ASSUME IInv, CreditedOnce, NEW u \in Users
  PROVE  /\ Image(PaymentOfRow, RowsOf(u)) = CreditedPayments(u)
         /\ \A q, r \in RowsOf(u) : PaymentOfRow[q] = PaymentOfRow[r] => q = r
         /\ \A r \in RowsOf(u) : /\ DeltaOf[r] \in Int
                                 /\ DeltaOf[r] = Amount[PaymentOfRow[r]]
<1>1. ASSUME NEW r \in rows
      PROVE  \E a \in Attempts :
               /\ Captured(a) /\ Credited(a)
               /\ r = [key |-> CreditKey(a), user |-> UserOf[PaymentOf[a]],
                       delta |-> Amount[PaymentOf[a]]]
               /\ PaymentOfRow[r] = PaymentOf[a]
  BY <1>1 DEF CreditedOnce, RowsAreCaptures, PaymentOfRow, CreditKey, Credited, HasKey
<1>2. \A q, r \in rows : PaymentOfRow[q] = PaymentOfRow[r] => q = r
  BY <1>1 DEF CreditedOnce
<1>3. \A r \in rows : DeltaOf[r] \in Int /\ DeltaOf[r] = Amount[PaymentOfRow[r]]
  <2>. SUFFICES ASSUME NEW r \in rows
                PROVE  DeltaOf[r] \in Int /\ DeltaOf[r] = Amount[PaymentOfRow[r]]
    OBVIOUS
  <2>1. r \in Row /\ r.delta \in Int
    BY DeltasAssumption DEF IInv, TypeOK, WalletTypeOK, Row
  <2>2. r.delta = Amount[PaymentOfRow[r]]
    BY <1>1
  <2>. QED
    BY <2>1, <2>2 DEF DeltaOf
<1>4. ASSUME NEW r \in RowsOf(u) PROVE PaymentOfRow[r] \in CreditedPayments(u)
  <2>1. r \in rows /\ r.user = u
    BY DEF RowsOf
  <2>2. PICK a \in Attempts :
               /\ Captured(a) /\ Credited(a)
               /\ r = [key |-> CreditKey(a), user |-> UserOf[PaymentOf[a]],
                       delta |-> Amount[PaymentOf[a]]]
               /\ PaymentOfRow[r] = PaymentOf[a]
    BY <1>1, <2>1
  <2>3. UserOf[PaymentOf[a]] = u /\ PaymentOf[a] \in Payments
    BY <2>1, <2>2, PaymentOfAssumption
  <2>. QED
    BY <2>2, <2>3 DEF CreditedPayments
<1>5. ASSUME NEW p \in CreditedPayments(u)
      PROVE  \E r \in RowsOf(u) : PaymentOfRow[r] = p
  <2>1. PICK a \in Attempts : PaymentOf[a] = p /\ UserOf[p] = u /\ Credited(a)
    BY DEF CreditedPayments
  <2>2. PICK r \in rows : r.key = CreditKey(a)
    BY <2>1 DEF Credited, HasKey
  <2>3. PICK b \in Attempts :
               /\ r = [key |-> CreditKey(b), user |-> UserOf[PaymentOf[b]],
                       delta |-> Amount[PaymentOf[b]]]
               /\ PaymentOfRow[r] = PaymentOf[b]
    BY <1>1
  <2>4. a = b
    BY <2>2, <2>3 DEF CreditKey
  <2>. QED
    BY <2>1, <2>3, <2>4 DEF RowsOf
<1>6. Image(PaymentOfRow, RowsOf(u)) = CreditedPayments(u)
  BY <1>4, <1>5 DEF Image
<1>. QED
  BY <1>2, <1>3, <1>6 DEF RowsOf

(* A user's balance is the sum of the user's payments that were captured   *)
(* and credited: not one of them counts twice, none is left out, and no    *)
(* other event, attempt or user adds to it.                                *)
THEOREM BalanceIsTheCaptured == Spec => []BalanceIsCaptured
<1>1. ASSUME IInv, CreditedOnce, WalletIsSum PROVE BalanceIsCaptured
  <2>. SUFFICES ASSUME NEW u \in Users
                PROVE  balance[u] = SumOfAmounts(CreditedPayments(u))
    BY DEF BalanceIsCaptured, SumOfAmounts, CreditedPayments
  <2>1. IsFiniteSet(RowsOf(u)) /\ RowsOf(u) \subseteq Row
    BY <1>1, FS_Subset DEF WalletIsSum, RowsOf, IInv, TypeOK, WalletTypeOK
  <2>2. balance[u] = Total(DeltaOf, RowsOf(u))
    BY <1>1, <2>1, SumIsTotal DEF WalletIsSum
  <2>3. /\ IsFiniteSet(CreditedPayments(u))
        /\ Total(DeltaOf, RowsOf(u)) = Total(Amount, CreditedPayments(u))
    BY <1>1, <2>1, RowsArePayments, TotalRenamed
  <2>4. SumOfAmounts(CreditedPayments(u)) = Total(Amount, CreditedPayments(u))
    BY <2>3, AmountsTotal
  <2>. QED
    BY <2>2, <2>3, <2>4
<1>. QED
  BY <1>1, Invariant, PaymentsAreCreditedOnce, UsesWallet, WalletBalanced, PTL

=============================================================================
