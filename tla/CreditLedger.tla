---------------------------- MODULE CreditLedger ----------------------------
(***************************************************************************)
(* The credit ledger as CreditsService and LedgerRepository run it: every  *)
(* database session is a process whose transaction takes the user's        *)
(* advisory lock, looks its idempotency key up, guards the balance, inserts *)
(* one row and leaves the commit to the caller.  Statements of different   *)
(* sessions interleave; a session reads what is committed when the         *)
(* statement runs (READ COMMITTED).                                        *)
(*                                                                         *)
(* A caller composes the mutation with one write of its own (the order     *)
(* row, payment.status, orders.status): its "rider".  Some callers write   *)
(* it before the mutation (create_order, _handle_captured, run_upload),    *)
(* others after (run_moderation).                                          *)
(*                                                                         *)
(* As in the code, a balance is no column: it is the sum over the user's   *)
(* committed rows, taken when a statement asks for it.  An operator's      *)
(* script inserts rows of any amount past the lock and the balance guard.  *)
(***************************************************************************)
EXTENDS Integers, FiniteSetsExt

CONSTANTS
  Users,       \* user ids
  Keys,        \* idempotency keys the application composes
  ManualKeys,  \* the fresh uuid keys of scripts/add_credits.py
  Amounts,     \* the delta_paise arguments callers pass, valid or not
  Sessions,    \* database sessions: one per request or worker job
  NoSession,   \* "nobody holds the lock"
  NoRow,       \* "nothing inserted yet"
  NoCall       \* "no call made yet"

ASSUME AmountsAssumption == Amounts \subseteq Int
ASSUME ManualKeysAssumption == Keys \cap ManualKeys = {}

VARIABLES
  rows,      \* committed rows of credit_ledger
  lock,      \* [Users -> Sessions \cup {NoSession}]: pg_advisory_xact_lock
  pc,        \* [Sessions -> Steps]: the next statement of the session
  op,        \* [Sessions -> Calls]: the credit()/debit() call it runs
  pending,   \* [Sessions -> rows it inserted and did not commit]
  rider      \* [Sessions -> RiderStates]: the caller's own write

vars == <<rows, lock, pc, op, pending, rider>>

(* The signed amounts a row may hold: credit() and debit() both refuse a   *)
(* delta_paise that is not positive.                                       *)
Deltas == {a \in Amounts : a > 0} \cup {-a : a \in {b \in Amounts : b > 0}}

(* Rows of the service, and rows of the script, which checks no amount. *)
Row == [key : Keys, user : Users, delta : Deltas] \cup
       [key : ManualKeys, user : Users, delta : Amounts]

ASSUME SentinelAssumption == NoSession \notin Sessions /\ NoRow \notin Row

Calls == [user : Users, key : Keys, delta : Deltas,
          riderFirst : BOOLEAN]

Steps == {"idle", "lock", "check_key", "check_balance", "insert", "reread",
          "caller", "done", "raised"}

RiderStates == {"none", "written", "durable"}

HasKey(k) == \E r \in rows : r.key = k

SumOfDeltas(S) == MapThenSumSet(LAMBDA r : r.delta, S)

(* get_balance: SUM(delta_paise) over the user's committed rows. *)
Balance(u) == SumOfDeltas({r \in rows : r.user = u})

(* The row the session's call asks for. *)
RowOf(s) ==
  [key |-> op[s].key, user |-> op[s].user, delta |-> op[s].delta]

(* Another transaction has inserted this key and not ended yet: the unique *)
(* index makes a second insert wait for it.                                *)
KeyInFlight(k, s) ==
  \E t \in Sessions \ {s} : pending[t] # NoRow /\ pending[t].key = k

Open == Steps \ {"idle", "done", "raised"}

TypeOK ==
  /\ rows \subseteq Row
  /\ lock \in [Users -> Sessions \cup {NoSession}]
  /\ pc \in [Sessions -> Steps]
  /\ op \in [Sessions -> Calls \cup {NoCall}]
  /\ pending \in [Sessions -> Row \cup {NoRow}]
  /\ rider \in [Sessions -> RiderStates]

-----------------------------------------------------------------------------

Init ==
  /\ rows = {}
  /\ lock = [u \in Users |-> NoSession]
  /\ pc = [s \in Sessions |-> "idle"]
  /\ op = [s \in Sessions |-> NoCall]
  /\ pending = [s \in Sessions |-> NoRow]
  /\ rider = [s \in Sessions |-> "none"]

(* The definitions named "...Mutant" are the code with one plausible       *)
(* mistake; each stands before the definition it would replace, and no     *)
(* specification of this module uses it.                                   *)

(* mutant: a session-level lock, which the end of a transaction keeps. *)
ReleaseLockMutant(s) == lock' = lock

(* What every transaction end does with the session's advisory lock. *)
ReleaseLock(s) ==
  lock' = [u \in Users |-> IF lock[u] = s THEN NoSession ELSE lock[u]]

(* ROLLBACK: the inserted row, the caller's earlier write and the lock go. *)
Rollback(s) ==
  /\ pending' = [pending EXCEPT ![s] = NoRow]
  /\ rider' = [rider EXCEPT ![s] = "none"]
  /\ ReleaseLock(s)

(* mutant: no ValueError. *)
ValidAmountMutant(a) == TRUE

(* What credit() and debit() accept, and the sign they store. *)
ValidAmount(a) == a > 0

SignedAmount(kind, a) == IF kind = "debit" THEN -a ELSE a

(* A caller opens a transaction and calls credit() or debit(), with or     *)
(* without an uncommitted write of its own; an invalid amount raises       *)
(* ValueError before anything happens.                                     *)
Begin(s) ==
  /\ pc[s] \in {"idle", "done", "raised"}
  /\ \E u \in Users, k \in Keys, kind \in {"credit", "debit"},
        a \in Amounts, first \in BOOLEAN :
       /\ ValidAmount(a)
       /\ op' = [op EXCEPT ![s] =
                   [user |-> u, key |-> k, delta |-> SignedAmount(kind, a),
                    riderFirst |-> first]]
       /\ rider' = [rider EXCEPT ![s] = IF first THEN "written" ELSE "none"]
  /\ pc' = [pc EXCEPT ![s] = "lock"]
  /\ UNCHANGED <<rows, lock, pending>>

(* mutant: pg_try_advisory_xact_lock, its answer ignored. *)
LockIsFreeMutant(s) == TRUE

LockIsFree(s) == lock[op[s].user] = NoSession

(* Step 1 of _mutate: block until no other transaction holds the lock. *)
AcquireUserLock(s) ==
  /\ pc[s] = "lock"
  /\ LockIsFree(s)
  /\ lock' = [lock EXCEPT ![op[s].user] = s]
  /\ pc' = [pc EXCEPT ![s] = "check_key"]
  /\ UNCHANGED <<rows, op, pending, rider>>

(* Where a call whose key is new goes: only debits look at the balance. *)
AfterKeyCheck(s) == IF op[s].delta < 0 THEN "check_balance" ELSE "insert"

(* mutant: the lookup sees a row that is not committed. *)
KeyFoundMutant(s) == HasKey(op[s].key) \/ KeyInFlight(op[s].key, s)

KeyFound(s) == HasKey(op[s].key)

(* Step 2: a row under the key is returned as it is; otherwise the call    *)
(* goes on.                                                                *)
CheckKey(s) ==
  /\ pc[s] = "check_key"
  /\ pc' = [pc EXCEPT ![s] =
             IF KeyFound(s) THEN "caller" ELSE AfterKeyCheck(s)]
  /\ UNCHANGED <<rows, lock, op, pending, rider>>

(* mutant: the guard of debit() is gone. *)
CoveredMutant(s) == TRUE

(* Step 3: the balance, as committed now, must cover the debit. *)
Covered(s) == Balance(op[s].user) >= -op[s].delta

CheckBalance(s) ==
  /\ pc[s] = "check_balance"
  /\ Covered(s)
  /\ pc' = [pc EXCEPT ![s] = "insert"]
  /\ UNCHANGED <<rows, lock, op, pending, rider>>

(* ... or InsufficientBalanceError leaves _mutate; no caller commits after *)
(* it, and closing the session rolls back.                                 *)
RaiseInsufficient(s) ==
  /\ pc[s] = "check_balance"
  /\ ~ Covered(s)
  /\ pc' = [pc EXCEPT ![s] = "raised"]
  /\ Rollback(s)
  /\ UNCHANGED <<rows, op>>

(* mutant: the table has no unique constraint. *)
InsertSucceedsMutant(s) == TRUE

InsertSucceeds(s) == ~ KeyInFlight(op[s].key, s) /\ ~ HasKey(op[s].key)

InsertConflicts(s) == ~ KeyInFlight(op[s].key, s) /\ HasKey(op[s].key)

(* Step 4: INSERT and flush.  While another open transaction has inserted  *)
(* the key the statement waits.                                            *)
InsertEntry(s) ==
  /\ pc[s] = "insert"
  /\ InsertSucceeds(s)
  /\ pending' = [pending EXCEPT ![s] = RowOf(s)]
  /\ pc' = [pc EXCEPT ![s] = "caller"]
  /\ UNCHANGED <<rows, lock, op, rider>>

(* ... or the unique constraint fires: the session rolls back, which ends  *)
(* the transaction, lock included, and undoes the caller's earlier write.  *)
InsertConflict(s) ==
  /\ pc[s] = "insert"
  /\ InsertConflicts(s)
  /\ pc' = [pc EXCEPT ![s] = "reread"]
  /\ Rollback(s)
  /\ UNCHANGED <<rows, op>>

(* ... and the winner's row is read again, in a new transaction.  The      *)
(* assert that it is there is the property RereadFindsRow.                 *)
Reread(s) ==
  /\ pc[s] = "reread"
  /\ HasKey(op[s].key)
  /\ pc' = [pc EXCEPT ![s] = "caller"]
  /\ UNCHANGED <<rows, lock, op, pending, rider>>

(* The caller writes what it writes after the mutation and commits: row    *)
(* and rider land together, and the lock is free.                          *)
Commit(s) ==
  /\ pc[s] = "caller"
  /\ rows' = rows \cup ({pending[s]} \ {NoRow})
  /\ rider' = [rider EXCEPT ![s] =
                IF op[s].riderFirst /\ @ = "none" THEN "none" ELSE "durable"]
  /\ pending' = [pending EXCEPT ![s] = NoRow]
  /\ ReleaseLock(s)
  /\ pc' = [pc EXCEPT ![s] = "done"]
  /\ UNCHANGED op

(* The process dies, the connection drops or the caller raises: whatever   *)
(* the open transaction did is undone.                                     *)
Crash(s) ==
  /\ pc[s] \in Open
  /\ pc' = [pc EXCEPT ![s] = "raised"]
  /\ Rollback(s)
  /\ UNCHANGED <<rows, op>>

(* scripts/add_credits.py: a committed purchase row under a fresh uuid     *)
(* key, without the advisory lock, whatever --amount says.                 *)
ScriptAddCredits(u, k, a) ==
  /\ ~ HasKey(k)
  /\ rows' = rows \cup {[key |-> k, user |-> u, delta |-> a]}
  /\ UNCHANGED <<lock, pc, op, pending, rider>>

Step(s) ==
  \/ AcquireUserLock(s)
  \/ CheckKey(s)
  \/ CheckBalance(s)
  \/ RaiseInsufficient(s)
  \/ InsertEntry(s)
  \/ InsertConflict(s)
  \/ Reread(s)
  \/ Commit(s)

Next ==
  \/ \E s \in Sessions : Begin(s) \/ Step(s) \/ Crash(s)
  \/ \E u \in Users, k \in ManualKeys, a \in Amounts : ScriptAddCredits(u, k, a)

Spec == Init /\ [][Next]_vars

(* PostgreSQL grants a contended advisory lock and a contended unique key  *)
(* in the order of the waiters, so a waiting statement is not overtaken    *)
(* for ever; the event loop runs every statement that can run.  Nothing    *)
(* obliges a caller to call, or a process to crash.                        *)
Fairness ==
  \A s \in Sessions :
    /\ WF_vars(Step(s))
    /\ SF_vars(AcquireUserLock(s))
    /\ SF_vars(InsertEntry(s) \/ InsertConflict(s))

FairSpec == Spec /\ Fairness

-----------------------------------------------------------------------------
(* Properties *)

(* The rows the script inserted to take money, or to move none. *)
TakenByScript == {r \in rows : r.key \in ManualKeys /\ r.delta <= 0}

(* The balance if it had not. *)
EarnedBalance(u) == SumOfDeltas({r \in rows \ TakenByScript : r.user = u})

(* "All negative deltas (spends) are written inside a DB transaction that  *)
(* first checks": no interleaving of debits, with the script's rows        *)
(* landing at any time, takes more than the user has.  What is missing     *)
(* below zero is what the script took, and no more.                        *)
NoNegativeBalance == \A u \in Users : EarnedBalance(u) >= 0

(* models/ledger.py: "retried writes don't double-count".  No two rows     *)
(* share an idempotency key, whoever races.                                *)
KeysUnique == \A r1, r2 \in rows : r1.key = r2.key => r1 = r2

(* services/credits.py: the call either inserts the row or returns the     *)
(* existing one, so a caller that committed without an error can rely on   *)
(* a committed row under its key: nobody acts on a row that was undone.    *)
SuccessIsDurable == \A s \in Sessions : pc[s] = "done" => HasKey(op[s].key)

(* services/credits.py: "lets callers compose this with other writes in    *)
(* one atomic unit".  A call that ends well keeps the caller's own write,  *)
(* except when the key collided with a row of another user: the rollback   *)
(* in the conflict path then takes an earlier write with it.               *)
RiderLostOnlyToForeignKey ==
  \A s \in Sessions :
    pc[s] = "done" /\ rider[s] # "durable" =>
      \E r \in rows : r.key = op[s].key /\ r.user # op[s].user

(* services/credits.py: "assert existing is not None".  The unique         *)
(* constraint fires only against a committed row, which stays.             *)
RereadFindsRow == \A s \in Sessions : pc[s] = "reread" => HasKey(op[s].key)

(* services/order.py: "the balance cannot change between the check and the *)
(* debit".  While a session keeps a user's lock, no row of that user is    *)
(* committed but the script's, which takes no lock.                        *)
BalanceKeptUnderLock ==
  [][\A u \in Users :
       lock[u] # NoSession /\ lock'[u] = lock[u] =>
         \A r \in rows' \ rows : r.user = u => r.key \in ManualKeys]_vars

(* Every call returns or raises: the locks are held by transactions that   *)
(* end, and no two of them wait for each other ("Callers ... simply block  *)
(* until the lock is free").                                               *)
EveryCallReturns ==
  \A s \in Sessions : pc[s] = "lock" ~> pc[s] \in {"done", "raised"}

(* The interleaved transactions implement the atomic wallet.  What the     *)
(* script takes it takes past the wallet's guard, so those rows are not    *)
(* the wallet's: it promises what holds without them.                      *)
W == INSTANCE Wallet WITH
       Keys <- Keys \cup ManualKeys,
       rows <- rows \ TakenByScript,
       balance <- [u \in Users |-> EarnedBalance(u)]

ImplementsWallet == W!WalletSpec

=============================================================================
