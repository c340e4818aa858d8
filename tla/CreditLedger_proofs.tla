------------------------ MODULE CreditLedger_proofs -------------------------
(***************************************************************************)
(* Proofs about CreditLedger, for any users, keys, amounts and sessions.   *)
(*                                                                         *)
(* The invariant the properties follow from, IInv, says what a session     *)
(* that holds the user's lock may rely on: nobody else holds it, nobody    *)
(* else has an uncommitted row of that user, the key it found missing is   *)
(* still missing among that user's rows, and a balance that covered the    *)
(* debit still covers it, if what the script took is put back.             *)
(***************************************************************************)
EXTENDS CreditLedger, FiniteSetTheorems, TLAPS

WP == INSTANCE Wallet_proofs WITH
        Keys <- Keys \cup ManualKeys,
        rows <- rows \ TakenByScript,
        balance <- [u \in Users |-> EarnedBalance(u)]

(* A session past its first call knows its call. *)
CallKnown == \A s \in Sessions : pc[s] # "idle" => op[s] \in Calls

(* A session between the lock and the insert holds the lock of its user. *)
LockHeld ==
  \A s \in Sessions :
    pc[s] \in {"check_key", "check_balance", "insert"} => lock[op[s].user] = s

(* A held lock belongs to an open transaction of that user. *)
LockOwned ==
  \A u \in Users, s \in Sessions :
    lock[u] = s =>
      pc[s] \in {"check_key", "check_balance", "insert", "caller"} /\ op[s].user = u

(* An uncommitted row waits for the caller's commit under the user's lock, *)
(* and its key is not committed.                                           *)
PendingOwned ==
  \A s \in Sessions :
    pending[s] # NoRow =>
      /\ pc[s] = "caller"
      /\ pending[s] = RowOf(s)
      /\ lock[op[s].user] = s
      /\ ~ HasKey(op[s].key)

(* No two uncommitted rows share a key. *)
PendingKeysDiffer ==
  \A s, t \in Sessions :
    s # t /\ pending[s] # NoRow /\ pending[t] # NoRow => op[s].key # op[t].key

(* The balance that was found to cover a debit covers it until the commit, *)
(* unless the script takes from it.                                        *)
StillCovered ==
  \A s \in Sessions, u \in Users :
    (pc[s] = "insert" \/ pending[s] # NoRow) /\ op[s].user = u =>
      EarnedBalance(u) + op[s].delta >= 0

(* The script takes from a balance, never the other way round. *)
EarnedIsMore ==
  IsFiniteSet(rows) /\ \A u \in Users : Balance(u) <= EarnedBalance(u)

(* The key that was found missing stays missing among the user's own rows. *)
OwnKeyMissing ==
  \A s \in Sessions :
    pc[s] \in {"check_balance", "insert"} =>
      \A r \in rows : r.key = op[s].key => r.user # op[s].user

(* A call about to return has its row, committed or its own. *)
CallerHasRow ==
  \A s \in Sessions :
    pc[s] = "caller" => pending[s] # NoRow \/ HasKey(op[s].key)

(* An earlier write of the caller is lost only in the conflict path, and   *)
(* then the key belongs to another user.                                   *)
RiderKept ==
  \A s \in Sessions :
    pc[s] \in Open \cup {"done"} /\ op[s].riderFirst /\ rider[s] = "none" =>
      /\ pc[s] \in {"reread", "caller", "done"}
      /\ \E r \in rows : r.key = op[s].key /\ r.user # op[s].user

(* After the commit, a write made after the mutation is durable. *)
DoneRider ==
  \A s \in Sessions :
    pc[s] = "done" => rider[s] = "durable" \/ (op[s].riderFirst /\ rider[s] = "none")

IInv ==
  /\ TypeOK
  /\ CallKnown
  /\ LockHeld
  /\ LockOwned
  /\ PendingOwned
  /\ PendingKeysDiffer
  /\ StillCovered
  /\ EarnedIsMore
  /\ OwnKeyMissing
  /\ CallerHasRow
  /\ RiderKept
  /\ DoneRider
  /\ NoNegativeBalance
  /\ KeysUnique
  /\ SuccessIsDurable
  /\ RereadFindsRow

-----------------------------------------------------------------------------

(* The deltas are the integers that credit and debit may store. *)
LEMMA DeltasAreInts == Deltas \subseteq Int \ {0}
<1>. SUFFICES ASSUME NEW d \in Deltas PROVE d \in Int \ {0}
  OBVIOUS
<1>1. CASE d \in {a \in Amounts : a > 0}
  BY <1>1, AmountsAssumption
<1>2. CASE d \in {-a : a \in {b \in Amounts : b > 0}}
  <2>. PICK a \in Amounts : a > 0 /\ d = -a
    BY <1>2
  <2>. QED
    BY AmountsAssumption
<1>. QED
  BY <1>1, <1>2 DEF Deltas

(* What Begin composes is a call. *)
LEMMA ValidCall ==
  ASSUME NEW kind \in {"credit", "debit"}, NEW a \in Amounts, ValidAmount(a)
  PROVE  SignedAmount(kind, a) \in Deltas
  BY AmountsAssumption DEF ValidAmount, SignedAmount, Deltas

(* A session past its first call has a user, a key and a signed amount. *)
LEMMA CallFields ==
  ASSUME IInv, NEW s \in Sessions, pc[s] # "idle"
  PROVE  /\ op[s] \in Calls
         /\ op[s].user \in Users
         /\ op[s].key \in Keys
         /\ op[s].delta \in Deltas
         /\ op[s].delta \in Int
  BY DeltasAreInts DEF IInv, CallKnown, Calls

(* The row it asks for is a row, and not the sentinel. *)
LEMMA RowOfIsRow ==
  ASSUME IInv, NEW s \in Sessions, pc[s] # "idle"
  PROVE  RowOf(s) \in Row /\ RowOf(s) # NoRow
  BY CallFields, SentinelAssumption DEF Row, RowOf

-----------------------------------------------------------------------------
(* What rows add up to *)

(* The sum of this module is the one Wallet_proofs speaks of. *)
LEMMA SameSum ==
  ASSUME NEW S
  PROVE  SumOfDeltas(S) = WP!SumOfDeltas(S)
  BY DEF SumOfDeltas, MapThenSumSet, MapThenFoldSet, WP!SumOfDeltas,
    WP!MapThenSumSet, WP!MapThenFoldSet

(* ... and of the same finite sets. *)
LEMMA SameFinite ==
  ASSUME NEW S
  PROVE  IsFiniteSet(S) <=> WP!IsFiniteSet(S)
  BY DEF IsFiniteSet, WP!IsFiniteSet

(* Deltas add up to an integer, and one more row adds its delta. *)
LEMMA OneMoreDelta ==
  ASSUME NEW S, IsFiniteSet(S), NEW row, row \notin S,
         \A r \in S \cup {row} : r.delta \in Int
  PROVE  /\ SumOfDeltas(S) \in Int
         /\ SumOfDeltas(S \cup {row}) = SumOfDeltas(S) + row.delta
  BY SameSum, SameFinite, DeltasAreInts, WP!SumAddsRow

(* What a row holds. *)
LEMMA RowFields ==
  ASSUME NEW r \in Row
  PROVE  r.delta \in Int /\ r.user \in Users /\ r.key \in Keys \cup ManualKeys
  BY DeltasAreInts, AmountsAssumption DEF Row

(* A row that lands moves the balance of its user by its delta; what the   *)
(* script takes does not move what was earned.                             *)
LEMMA OneMoreRow ==
  ASSUME rows \subseteq Row, IsFiniteSet(rows), NEW r \in Row, r \notin rows,
         rows' = rows \cup {r}, NEW u \in Users
  PROVE  /\ IsFiniteSet(rows')
         /\ Balance(u) \in Int /\ EarnedBalance(u) \in Int
         /\ r.user # u =>
              Balance(u)' = Balance(u) /\ EarnedBalance(u)' = EarnedBalance(u)
         /\ r.user = u => Balance(u)' = Balance(u) + r.delta
         /\ r.user = u /\ ~ (r.key \in ManualKeys /\ r.delta <= 0) =>
              EarnedBalance(u)' = EarnedBalance(u) + r.delta
         /\ r.key \in ManualKeys /\ r.delta <= 0 =>
              EarnedBalance(u)' = EarnedBalance(u)
<1>. DEFINE S == {q \in rows : q.user = u}
            T == {q \in rows \ TakenByScript : q.user = u}
            S1 == {q \in rows' : q.user = u}
            T1 == {q \in rows' \ TakenByScript' : q.user = u}
<1>1. /\ S \subseteq rows /\ T \subseteq rows /\ r \notin S /\ r \notin T
  OBVIOUS
<1>2. /\ r.user # u => S1 = S /\ T1 = T
      /\ r.user = u => S1 = S \cup {r}
      /\ r.user = u /\ ~ (r.key \in ManualKeys /\ r.delta <= 0) => T1 = T \cup {r}
      /\ r.key \in ManualKeys /\ r.delta <= 0 => T1 = T
  BY DEF TakenByScript
<1>3. /\ Balance(u) = SumOfDeltas(S) /\ EarnedBalance(u) = SumOfDeltas(T)
      /\ Balance(u)' = SumOfDeltas(S1) /\ EarnedBalance(u)' = SumOfDeltas(T1)
  BY DEF Balance, EarnedBalance, SumOfDeltas, MapThenSumSet, MapThenFoldSet
<1>4. IsFiniteSet(S) /\ IsFiniteSet(T) /\ IsFiniteSet(rows')
  BY <1>1, FS_Subset, FS_AddElement
<1>5. \A q \in S \cup T \cup {r} : q.delta \in Int
  BY <1>1, RowFields
<1>. HIDE DEF S, T, S1, T1
<1>6. SumOfDeltas(S) \in Int /\ SumOfDeltas(S \cup {r}) = SumOfDeltas(S) + r.delta
  BY <1>1, <1>4, <1>5, OneMoreDelta
<1>7. SumOfDeltas(T) \in Int /\ SumOfDeltas(T \cup {r}) = SumOfDeltas(T) + r.delta
  BY <1>1, <1>4, <1>5, OneMoreDelta
<1>. QED
  BY <1>2, <1>3, <1>4, <1>6, <1>7

(* A step that commits nothing moves no balance. *)
LEMMA SameRows ==
  ASSUME rows' = rows
  PROVE  /\ \A u \in Users : Balance(u)' = Balance(u)
         /\ \A u \in Users : EarnedBalance(u)' = EarnedBalance(u)
         /\ NoNegativeBalance => NoNegativeBalance'
         /\ EarnedIsMore => EarnedIsMore'
<1>1. \A u \in Users : Balance(u)' = Balance(u)
  BY DEF Balance
<1>2. \A u \in Users : EarnedBalance(u)' = EarnedBalance(u)
  BY DEF EarnedBalance, TakenByScript
<1>. QED
  BY <1>1, <1>2 DEF NoNegativeBalance, EarnedIsMore

(* Balances are integers. *)
LEMMA BalancesAreInts ==
  ASSUME IInv, NEW u \in Users
  PROVE  Balance(u) \in Int /\ EarnedBalance(u) \in Int
<1>1. rows \subseteq Row /\ IsFiniteSet(rows)
  BY DEF IInv, TypeOK, EarnedIsMore
<1>2. ASSUME NEW S, S \subseteq rows
      PROVE  SumOfDeltas(S) \in Int
  <2>1. IsFiniteSet(S) /\ \A r \in S : r.delta \in Int
    BY <1>1, <1>2, RowFields, FS_Subset
  <2>. QED
    BY <2>1, SameSum, SameFinite, DeltasAreInts, WP!SumIsInt
<1>. QED
  BY <1>2 DEF Balance, EarnedBalance

-----------------------------------------------------------------------------
(* The steps *)

(* A new call starts outside every lock, with nothing uncommitted. *)
LEMMA BeginKeeps ==
  ASSUME IInv, NEW s \in Sessions, Begin(s)
  PROVE  IInv'
<1>1. TypeOK'
  BY ValidCall DEF IInv, TypeOK, Begin, Steps, RiderStates, Calls
<1>2. CallKnown'
  BY ValidCall DEF IInv, TypeOK, CallKnown, Begin, Calls
<1>3. LockHeld'
  BY DEF IInv, TypeOK, LockHeld, Begin
<1>4. LockOwned'
  BY DEF IInv, TypeOK, LockOwned, Begin
<1>5. PendingOwned'
  BY DEF IInv, TypeOK, PendingOwned, RowOf, HasKey, Begin
<1>6. PendingKeysDiffer'
  BY DEF IInv, TypeOK, PendingKeysDiffer, Begin, PendingOwned
<1>7. StillCovered'
  BY SameRows, BalancesAreInts DEF IInv, TypeOK, StillCovered, Begin, PendingOwned
<1>8. OwnKeyMissing'
  BY DEF IInv, TypeOK, OwnKeyMissing, Begin
<1>9. CallerHasRow'
  BY DEF IInv, TypeOK, CallerHasRow, HasKey, Begin
<1>10. RiderKept'
  BY DEF IInv, TypeOK, RiderKept, Open, Steps, Begin, Calls
<1>11. DoneRider'
  BY DEF IInv, TypeOK, DoneRider, Begin
<1>12. NoNegativeBalance'
  BY SameRows DEF IInv, Begin
<1>13. KeysUnique'
  BY DEF IInv, KeysUnique, Begin
<1>14. SuccessIsDurable'
  BY DEF IInv, TypeOK, SuccessIsDurable, HasKey, Begin
<1>15. RereadFindsRow'
  BY DEF IInv, TypeOK, RereadFindsRow, HasKey, Begin
<1>16. EarnedIsMore'
  BY SameRows DEF IInv, Begin
<1>. QED
  BY <1>1, <1>2, <1>3, <1>4, <1>5, <1>6, <1>7, <1>8, <1>9, <1>10, <1>11,
    <1>12, <1>13, <1>14, <1>15, <1>16 DEF IInv

(* The lock was free, so no open transaction of the user has it. *)
LEMMA AcquireUserLockKeeps ==
  ASSUME IInv, NEW s \in Sessions, AcquireUserLock(s)
  PROVE  IInv'
<1>1. TypeOK'
  BY CallFields DEF IInv, TypeOK, AcquireUserLock, Steps
<1>2. CallKnown'
  BY DEF IInv, TypeOK, CallKnown, AcquireUserLock
<1>3. LockHeld'
  BY SentinelAssumption, CallFields DEF IInv, TypeOK, LockHeld,
    AcquireUserLock, LockIsFree
<1>4. LockOwned'
  BY SentinelAssumption, CallFields DEF IInv, TypeOK, LockOwned,
    AcquireUserLock, LockIsFree
<1>5. PendingOwned'
  BY SentinelAssumption, CallFields DEF IInv, TypeOK, PendingOwned, RowOf,
    HasKey, AcquireUserLock, LockIsFree
<1>6. PendingKeysDiffer'
  BY DEF IInv, TypeOK, PendingKeysDiffer, AcquireUserLock
<1>7. StillCovered'
  BY SameRows, BalancesAreInts DEF IInv, TypeOK, StillCovered, AcquireUserLock
<1>8. OwnKeyMissing'
  BY DEF IInv, TypeOK, OwnKeyMissing, AcquireUserLock
<1>9. CallerHasRow'
  BY DEF IInv, TypeOK, CallerHasRow, HasKey, AcquireUserLock
<1>10. RiderKept'
  BY DEF IInv, TypeOK, RiderKept, Open, Steps, AcquireUserLock
<1>11. DoneRider'
  BY DEF IInv, TypeOK, DoneRider, AcquireUserLock
<1>12. NoNegativeBalance'
  BY SameRows DEF IInv, AcquireUserLock
<1>13. KeysUnique'
  BY DEF IInv, KeysUnique, AcquireUserLock
<1>14. SuccessIsDurable'
  BY DEF IInv, TypeOK, SuccessIsDurable, HasKey, AcquireUserLock
<1>15. RereadFindsRow'
  BY DEF IInv, TypeOK, RereadFindsRow, HasKey, AcquireUserLock
<1>16. EarnedIsMore'
  BY SameRows DEF IInv, AcquireUserLock
<1>. QED
  BY <1>1, <1>2, <1>3, <1>4, <1>5, <1>6, <1>7, <1>8, <1>9, <1>10, <1>11,
    <1>12, <1>13, <1>14, <1>15, <1>16 DEF IInv

(* A missing key is missing among the user's rows; a credit needs no cover. *)
LEMMA CheckKeyKeeps ==
  ASSUME IInv, NEW s \in Sessions, CheckKey(s)
  PROVE  IInv'
<1>1. TypeOK'
  BY DEF IInv, TypeOK, CheckKey, KeyFound, AfterKeyCheck, Steps
<1>2. CallKnown'
  BY DEF IInv, TypeOK, CallKnown, CheckKey, KeyFound, AfterKeyCheck
<1>3. LockHeld'
  BY DEF IInv, TypeOK, LockHeld, CheckKey, KeyFound, AfterKeyCheck
<1>4. LockOwned'
  BY DEF IInv, TypeOK, LockOwned, CheckKey, KeyFound, AfterKeyCheck
<1>5. PendingOwned'
  BY DEF IInv, TypeOK, PendingOwned, RowOf, HasKey, CheckKey, KeyFound,
    AfterKeyCheck
<1>6. PendingKeysDiffer'
  BY DEF IInv, TypeOK, PendingKeysDiffer, CheckKey, KeyFound, AfterKeyCheck
<1>7. StillCovered'
  BY SameRows, CallFields, BalancesAreInts DEF IInv, TypeOK, StillCovered, CheckKey, KeyFound,
    AfterKeyCheck, NoNegativeBalance
<1>8. OwnKeyMissing'
  BY DEF IInv, TypeOK, OwnKeyMissing, CheckKey, KeyFound, AfterKeyCheck,
    HasKey
<1>9. CallerHasRow'
  BY DEF IInv, TypeOK, CallerHasRow, HasKey, CheckKey, KeyFound,
    AfterKeyCheck
<1>10. RiderKept'
  BY DEF IInv, TypeOK, RiderKept, Open, Steps, CheckKey, KeyFound,
    AfterKeyCheck
<1>11. DoneRider'
  BY DEF IInv, TypeOK, DoneRider, CheckKey, KeyFound, AfterKeyCheck
<1>12. NoNegativeBalance'
  BY SameRows DEF IInv, CheckKey, KeyFound, AfterKeyCheck
<1>13. KeysUnique'
  BY DEF IInv, KeysUnique, CheckKey, KeyFound, AfterKeyCheck
<1>14. SuccessIsDurable'
  BY DEF IInv, TypeOK, SuccessIsDurable, HasKey, CheckKey, KeyFound,
    AfterKeyCheck
<1>15. RereadFindsRow'
  BY DEF IInv, TypeOK, RereadFindsRow, HasKey, CheckKey, KeyFound,
    AfterKeyCheck
<1>16. EarnedIsMore'
  BY SameRows DEF IInv, CheckKey
<1>. QED
  BY <1>1, <1>2, <1>3, <1>4, <1>5, <1>6, <1>7, <1>8, <1>9, <1>10, <1>11,
    <1>12, <1>13, <1>14, <1>15, <1>16 DEF IInv

(* The debit that passes the guard is covered by the committed balance. *)
LEMMA CheckBalanceKeeps ==
  ASSUME IInv, NEW s \in Sessions, CheckBalance(s)
  PROVE  IInv'
<1>1. TypeOK'
  BY DEF IInv, TypeOK, CheckBalance, Steps
<1>2. CallKnown'
  BY DEF IInv, TypeOK, CallKnown, CheckBalance
<1>3. LockHeld'
  BY DEF IInv, TypeOK, LockHeld, CheckBalance
<1>4. LockOwned'
  BY DEF IInv, TypeOK, LockOwned, CheckBalance
<1>5. PendingOwned'
  BY DEF IInv, TypeOK, PendingOwned, RowOf, HasKey, CheckBalance
<1>6. PendingKeysDiffer'
  BY DEF IInv, TypeOK, PendingKeysDiffer, CheckBalance
<1>7. StillCovered'
  BY SameRows, CallFields, BalancesAreInts
  DEF IInv, TypeOK, StillCovered, CheckBalance, Covered, EarnedIsMore
<1>8. OwnKeyMissing'
  BY DEF IInv, TypeOK, OwnKeyMissing, CheckBalance
<1>9. CallerHasRow'
  BY DEF IInv, TypeOK, CallerHasRow, HasKey, CheckBalance
<1>10. RiderKept'
  BY DEF IInv, TypeOK, RiderKept, Open, Steps, CheckBalance
<1>11. DoneRider'
  BY DEF IInv, TypeOK, DoneRider, CheckBalance
<1>12. NoNegativeBalance'
  BY SameRows DEF IInv, CheckBalance
<1>13. KeysUnique'
  BY DEF IInv, KeysUnique, CheckBalance
<1>14. SuccessIsDurable'
  BY DEF IInv, TypeOK, SuccessIsDurable, HasKey, CheckBalance
<1>15. RereadFindsRow'
  BY DEF IInv, TypeOK, RereadFindsRow, HasKey, CheckBalance
<1>16. EarnedIsMore'
  BY SameRows DEF IInv, CheckBalance
<1>. QED
  BY <1>1, <1>2, <1>3, <1>4, <1>5, <1>6, <1>7, <1>8, <1>9, <1>10, <1>11,
    <1>12, <1>13, <1>14, <1>15, <1>16 DEF IInv

(* A refused debit leaves nothing behind. *)
LEMMA RaiseInsufficientKeeps ==
  ASSUME IInv, NEW s \in Sessions, RaiseInsufficient(s)
  PROVE  IInv'
<1>1. TypeOK'
  BY DEF IInv, TypeOK, RaiseInsufficient, Rollback, ReleaseLock, Steps,
    RiderStates
<1>2. CallKnown'
  BY DEF IInv, TypeOK, CallKnown, RaiseInsufficient, Rollback, ReleaseLock
<1>3. LockHeld'
  BY CallFields DEF IInv, TypeOK, LockHeld, RaiseInsufficient, Rollback,
    ReleaseLock
<1>4. LockOwned'
  BY SentinelAssumption DEF IInv, TypeOK, LockOwned, RaiseInsufficient,
    Rollback, ReleaseLock
<1>5. PendingOwned'
  BY CallFields DEF IInv, TypeOK, PendingOwned, RowOf, HasKey,
    RaiseInsufficient, Rollback, ReleaseLock
<1>6. PendingKeysDiffer'
  BY DEF IInv, TypeOK, PendingKeysDiffer, RaiseInsufficient, Rollback,
    ReleaseLock
<1>7. StillCovered'
  BY SameRows, BalancesAreInts DEF IInv, TypeOK, StillCovered, RaiseInsufficient, Rollback, ReleaseLock
<1>8. OwnKeyMissing'
  BY DEF IInv, TypeOK, OwnKeyMissing, RaiseInsufficient, Rollback,
    ReleaseLock
<1>9. CallerHasRow'
  BY DEF IInv, TypeOK, CallerHasRow, HasKey, RaiseInsufficient, Rollback,
    ReleaseLock
<1>10. RiderKept'
  BY DEF IInv, TypeOK, RiderKept, Open, Steps, RaiseInsufficient, Rollback,
    ReleaseLock
<1>11. DoneRider'
  BY DEF IInv, TypeOK, DoneRider, RaiseInsufficient, Rollback, ReleaseLock
<1>12. NoNegativeBalance'
  BY SameRows DEF IInv, RaiseInsufficient, Rollback, ReleaseLock
<1>13. KeysUnique'
  BY DEF IInv, KeysUnique, RaiseInsufficient, Rollback, ReleaseLock
<1>14. SuccessIsDurable'
  BY DEF IInv, TypeOK, SuccessIsDurable, HasKey, RaiseInsufficient, Rollback,
    ReleaseLock
<1>15. RereadFindsRow'
  BY DEF IInv, TypeOK, RereadFindsRow, HasKey, RaiseInsufficient, Rollback,
    ReleaseLock
<1>16. EarnedIsMore'
  BY SameRows DEF IInv, RaiseInsufficient
<1>. QED
  BY <1>1, <1>2, <1>3, <1>4, <1>5, <1>6, <1>7, <1>8, <1>9, <1>10, <1>11,
    <1>12, <1>13, <1>14, <1>15, <1>16 DEF IInv

(* The inserted row's key is neither committed nor in flight. *)
LEMMA InsertEntryKeeps ==
  ASSUME IInv, NEW s \in Sessions, InsertEntry(s)
  PROVE  IInv'
<1>1. TypeOK'
  BY RowOfIsRow DEF IInv, TypeOK, InsertEntry, Steps
<1>2. CallKnown'
  BY DEF IInv, TypeOK, CallKnown, InsertEntry
<1>3. LockHeld'
  BY DEF IInv, TypeOK, LockHeld, InsertEntry
<1>4. LockOwned'
  BY DEF IInv, TypeOK, LockOwned, InsertEntry, LockHeld
<1>5. PendingOwned'
  BY DEF IInv, TypeOK, PendingOwned, RowOf, HasKey, InsertEntry, LockHeld,
    InsertSucceeds
<1>6. PendingKeysDiffer'
  BY DEF IInv, TypeOK, PendingKeysDiffer, InsertEntry, PendingOwned,
    InsertSucceeds, KeyInFlight, RowOf
<1>7. StillCovered'
  BY SameRows, BalancesAreInts DEF IInv, TypeOK, StillCovered, InsertEntry
<1>8. OwnKeyMissing'
  BY DEF IInv, TypeOK, OwnKeyMissing, InsertEntry
<1>9. CallerHasRow'
  BY RowOfIsRow, SentinelAssumption DEF IInv, TypeOK, CallerHasRow, HasKey,
    InsertEntry
<1>10. RiderKept'
  BY DEF IInv, TypeOK, RiderKept, Open, Steps, InsertEntry
<1>11. DoneRider'
  BY DEF IInv, TypeOK, DoneRider, InsertEntry
<1>12. NoNegativeBalance'
  BY SameRows DEF IInv, InsertEntry
<1>13. KeysUnique'
  BY DEF IInv, KeysUnique, InsertEntry
<1>14. SuccessIsDurable'
  BY DEF IInv, TypeOK, SuccessIsDurable, HasKey, InsertEntry
<1>15. RereadFindsRow'
  BY DEF IInv, TypeOK, RereadFindsRow, HasKey, InsertEntry
<1>16. EarnedIsMore'
  BY SameRows DEF IInv, InsertEntry
<1>. QED
  BY <1>1, <1>2, <1>3, <1>4, <1>5, <1>6, <1>7, <1>8, <1>9, <1>10, <1>11,
    <1>12, <1>13, <1>14, <1>15, <1>16 DEF IInv

(* The row that wins the conflict belongs to another user (OwnKeyMissing). *)
LEMMA InsertConflictKeeps ==
  ASSUME IInv, NEW s \in Sessions, InsertConflict(s)
  PROVE  IInv'
<1>1. TypeOK'
  BY DEF IInv, TypeOK, InsertConflict, Rollback, ReleaseLock, Steps,
    RiderStates
<1>2. CallKnown'
  BY DEF IInv, TypeOK, CallKnown, InsertConflict, Rollback, ReleaseLock
<1>3. LockHeld'
  BY CallFields DEF IInv, TypeOK, LockHeld, InsertConflict, Rollback,
    ReleaseLock
<1>4. LockOwned'
  BY SentinelAssumption DEF IInv, TypeOK, LockOwned, InsertConflict,
    Rollback, ReleaseLock
<1>5. PendingOwned'
  BY CallFields DEF IInv, TypeOK, PendingOwned, RowOf, HasKey,
    InsertConflict, Rollback, ReleaseLock
<1>6. PendingKeysDiffer'
  BY DEF IInv, TypeOK, PendingKeysDiffer, InsertConflict, Rollback,
    ReleaseLock
<1>7. StillCovered'
  BY SameRows, BalancesAreInts DEF IInv, TypeOK, StillCovered, InsertConflict, Rollback, ReleaseLock
<1>8. OwnKeyMissing'
  BY DEF IInv, TypeOK, OwnKeyMissing, InsertConflict, Rollback, ReleaseLock
<1>9. CallerHasRow'
  BY DEF IInv, TypeOK, CallerHasRow, HasKey, InsertConflict, Rollback,
    ReleaseLock
<1>10. RiderKept'
  BY DEF IInv, TypeOK, RiderKept, Open, Steps, InsertConflict, Rollback,
    ReleaseLock, OwnKeyMissing, InsertConflicts, HasKey
<1>11. DoneRider'
  BY DEF IInv, TypeOK, DoneRider, InsertConflict, Rollback, ReleaseLock
<1>12. NoNegativeBalance'
  BY SameRows DEF IInv, InsertConflict, Rollback, ReleaseLock
<1>13. KeysUnique'
  BY DEF IInv, KeysUnique, InsertConflict, Rollback, ReleaseLock
<1>14. SuccessIsDurable'
  BY DEF IInv, TypeOK, SuccessIsDurable, HasKey, InsertConflict, Rollback,
    ReleaseLock
<1>15. RereadFindsRow'
  BY DEF IInv, TypeOK, RereadFindsRow, HasKey, InsertConflict, Rollback,
    ReleaseLock, InsertConflicts
<1>16. EarnedIsMore'
  BY SameRows DEF IInv, InsertConflict
<1>. QED
  BY <1>1, <1>2, <1>3, <1>4, <1>5, <1>6, <1>7, <1>8, <1>9, <1>10, <1>11,
    <1>12, <1>13, <1>14, <1>15, <1>16 DEF IInv

(* The winner's row is there. *)
LEMMA RereadKeeps ==
  ASSUME IInv, NEW s \in Sessions, Reread(s)
  PROVE  IInv'
<1>1. TypeOK'
  BY DEF IInv, TypeOK, Reread, Steps
<1>2. CallKnown'
  BY DEF IInv, TypeOK, CallKnown, Reread
<1>3. LockHeld'
  BY DEF IInv, TypeOK, LockHeld, Reread
<1>4. LockOwned'
  BY DEF IInv, TypeOK, LockOwned, Reread
<1>5. PendingOwned'
  BY DEF IInv, TypeOK, PendingOwned, RowOf, HasKey, Reread
<1>6. PendingKeysDiffer'
  BY DEF IInv, TypeOK, PendingKeysDiffer, Reread
<1>7. StillCovered'
  BY SameRows, BalancesAreInts DEF IInv, TypeOK, StillCovered, Reread
<1>8. OwnKeyMissing'
  BY DEF IInv, TypeOK, OwnKeyMissing, Reread
<1>9. CallerHasRow'
  BY DEF IInv, TypeOK, CallerHasRow, HasKey, Reread
<1>10. RiderKept'
  BY DEF IInv, TypeOK, RiderKept, Open, Steps, Reread
<1>11. DoneRider'
  BY DEF IInv, TypeOK, DoneRider, Reread
<1>12. NoNegativeBalance'
  BY SameRows DEF IInv, Reread
<1>13. KeysUnique'
  BY DEF IInv, KeysUnique, Reread
<1>14. SuccessIsDurable'
  BY DEF IInv, TypeOK, SuccessIsDurable, HasKey, Reread
<1>15. RereadFindsRow'
  BY DEF IInv, TypeOK, RereadFindsRow, HasKey, Reread
<1>16. EarnedIsMore'
  BY SameRows DEF IInv, Reread
<1>. QED
  BY <1>1, <1>2, <1>3, <1>4, <1>5, <1>6, <1>7, <1>8, <1>9, <1>10, <1>11,
    <1>12, <1>13, <1>14, <1>15, <1>16 DEF IInv

(* A commit moves the balance of the call's user by the row it adds. *)
LEMMA CommitMoves ==
  ASSUME IInv, NEW s \in Sessions, Commit(s), NEW u \in Users
  PROVE  /\ Balance(u) \in Int /\ EarnedBalance(u) \in Int
         /\ pending[s] # NoRow /\ op[s].user = u =>
              /\ Balance(u)' = Balance(u) + op[s].delta
              /\ EarnedBalance(u)' = EarnedBalance(u) + op[s].delta
         /\ ~ (pending[s] # NoRow /\ op[s].user = u) =>
              /\ Balance(u)' = Balance(u)
              /\ EarnedBalance(u)' = EarnedBalance(u)
<1>1. CASE pending[s] = NoRow
  <2>1. rows' = rows
    BY <1>1 DEF Commit
  <2>. QED
    BY <1>1, <2>1, SameRows, BalancesAreInts
<1>2. CASE pending[s] # NoRow
  <2>1. /\ pending[s] = RowOf(s) /\ ~ HasKey(op[s].key)
        /\ op[s].key \in Keys /\ pc[s] = "caller"
    BY <1>2, CallFields DEF IInv, PendingOwned
  <2>2. RowOf(s) \in Row /\ RowOf(s).key \notin ManualKeys
    BY <2>1, RowOfIsRow, ManualKeysAssumption DEF RowOf
  <2>3. RowOf(s) \notin rows /\ rows' = rows \cup {RowOf(s)}
    BY <1>2, <2>1 DEF Commit, HasKey, RowOf
  <2>4. RowOf(s).user = op[s].user /\ RowOf(s).delta = op[s].delta
    BY DEF RowOf
  <2>5. rows \subseteq Row /\ IsFiniteSet(rows)
    BY DEF IInv, TypeOK, EarnedIsMore
  <2>. QED
    BY <1>2, <2>2, <2>3, <2>4, <2>5, OneMoreRow
<1>. QED
  BY <1>1, <1>2

(* The lock excludes a second open transaction of the same user. *)
LEMMA CommitKeeps ==
  ASSUME IInv, NEW s \in Sessions, Commit(s)
  PROVE  IInv'
<1>1. TypeOK'
  BY RowOfIsRow, CallFields DEF IInv, TypeOK, Commit, ReleaseLock, Steps,
    RiderStates, PendingOwned, RowOf
<1>2. CallKnown'
  BY DEF IInv, TypeOK, CallKnown, Commit, ReleaseLock
<1>3. LockHeld'
  BY CallFields DEF IInv, TypeOK, LockHeld, Commit, ReleaseLock
<1>4. LockOwned'
  BY SentinelAssumption DEF IInv, TypeOK, LockOwned, Commit, ReleaseLock
<1>5. PendingOwned'
  BY CallFields DEF IInv, TypeOK, PendingOwned, RowOf, HasKey, Commit,
    ReleaseLock, PendingKeysDiffer
<1>6. PendingKeysDiffer'
  BY DEF IInv, TypeOK, PendingKeysDiffer, Commit, ReleaseLock
<1>7. StillCovered'
  <2>. SUFFICES ASSUME NEW t \in Sessions, NEW u \in Users, op'[t].user = u,
                       pc'[t] = "insert" \/ pending'[t] # NoRow
                PROVE  EarnedBalance(u)' + op'[t].delta >= 0
    BY DEF StillCovered
  <2>1. /\ t # s /\ op' = op /\ pc[t] = pc'[t] /\ pending'[t] = pending[t]
    BY DEF IInv, TypeOK, Commit
  <2>2. EarnedBalance(u) + op[t].delta >= 0 /\ lock[u] = t
    BY <2>1 DEF IInv, StillCovered, LockHeld, PendingOwned
  <2>3. ~ (pending[s] # NoRow /\ op[s].user = u)
    BY <2>1, <2>2 DEF IInv, PendingOwned
  <2>. QED
    BY <2>1, <2>2, <2>3, CommitMoves
<1>8. OwnKeyMissing'
  BY CallFields DEF IInv, TypeOK, OwnKeyMissing, Commit, ReleaseLock,
    LockHeld, PendingOwned, RowOf
<1>9. CallerHasRow'
  BY DEF IInv, TypeOK, CallerHasRow, HasKey, Commit, ReleaseLock
<1>10. RiderKept'
  BY DEF IInv, TypeOK, RiderKept, Open, Steps, Commit, ReleaseLock
<1>11. DoneRider'
  BY DEF IInv, TypeOK, DoneRider, Commit, ReleaseLock, RiderStates,
    RiderKept, Open, Steps
<1>12. NoNegativeBalance'
  <2>. SUFFICES ASSUME NEW u \in Users PROVE EarnedBalance(u)' >= 0
    BY DEF NoNegativeBalance
  <2>1. EarnedBalance(u) >= 0
    BY DEF IInv, NoNegativeBalance
  <2>2. pending[s] # NoRow /\ op[s].user = u => EarnedBalance(u) + op[s].delta >= 0
    BY DEF IInv, StillCovered
  <2>. QED
    BY <2>1, <2>2, CommitMoves
<1>13. KeysUnique'
  BY DEF IInv, KeysUnique, Commit, ReleaseLock, PendingOwned, RowOf, HasKey,
    TypeOK
<1>14. SuccessIsDurable'
  BY DEF IInv, TypeOK, SuccessIsDurable, HasKey, Commit, ReleaseLock,
    CallerHasRow, PendingOwned, RowOf
<1>15. RereadFindsRow'
  BY DEF IInv, TypeOK, RereadFindsRow, HasKey, Commit, ReleaseLock
<1>16. EarnedIsMore'
  <2>1. IsFiniteSet(rows')
    <3>1. CASE pending[s] = NoRow
      BY <3>1 DEF IInv, EarnedIsMore, Commit
    <3>2. CASE pending[s] # NoRow
      <4>1. rows' = rows \cup {pending[s]}
        BY <3>2 DEF Commit
      <4>. QED
        BY <4>1, FS_AddElement DEF IInv, EarnedIsMore
    <3>. QED
      BY <3>1, <3>2
  <2>2. ASSUME NEW u \in Users PROVE Balance(u)' <= EarnedBalance(u)'
    <3>1. Balance(u) <= EarnedBalance(u)
      BY DEF IInv, EarnedIsMore
    <3>2. pending[s] # NoRow => op[s].delta \in Int
      BY CallFields DEF Commit
    <3>. QED
      BY <3>1, <3>2, CommitMoves
  <2>. QED
    BY <2>1, <2>2 DEF EarnedIsMore
<1>. QED
  BY <1>1, <1>2, <1>3, <1>4, <1>5, <1>6, <1>7, <1>8, <1>9, <1>10, <1>11,
    <1>12, <1>13, <1>14, <1>15, <1>16 DEF IInv

(* A rollback takes the row, the lock and the caller's write together. *)
LEMMA CrashKeeps ==
  ASSUME IInv, NEW s \in Sessions, Crash(s)
  PROVE  IInv'
<1>1. TypeOK'
  BY DEF IInv, TypeOK, Crash, Rollback, ReleaseLock, Open, Steps, RiderStates
<1>2. CallKnown'
  BY DEF IInv, TypeOK, CallKnown, Crash, Rollback, ReleaseLock, Open
<1>3. LockHeld'
  BY CallFields DEF IInv, TypeOK, LockHeld, Crash, Rollback, ReleaseLock,
    Open
<1>4. LockOwned'
  BY SentinelAssumption DEF IInv, TypeOK, LockOwned, Crash, Rollback,
    ReleaseLock, Open
<1>5. PendingOwned'
  BY CallFields DEF IInv, TypeOK, PendingOwned, RowOf, HasKey, Crash,
    Rollback, ReleaseLock, Open
<1>6. PendingKeysDiffer'
  BY DEF IInv, TypeOK, PendingKeysDiffer, Crash, Rollback, ReleaseLock, Open
<1>7. StillCovered'
  BY SameRows, BalancesAreInts DEF IInv, TypeOK, StillCovered, Crash, Rollback, ReleaseLock, Open
<1>8. OwnKeyMissing'
  BY DEF IInv, TypeOK, OwnKeyMissing, Crash, Rollback, ReleaseLock, Open
<1>9. CallerHasRow'
  BY DEF IInv, TypeOK, CallerHasRow, HasKey, Crash, Rollback, ReleaseLock,
    Open
<1>10. RiderKept'
  BY DEF IInv, TypeOK, RiderKept, Open, Steps, Crash, Rollback, ReleaseLock
<1>11. DoneRider'
  BY DEF IInv, TypeOK, DoneRider, Crash, Rollback, ReleaseLock, Open
<1>12. NoNegativeBalance'
  BY SameRows DEF IInv, Crash, Rollback, ReleaseLock, Open
<1>13. KeysUnique'
  BY DEF IInv, KeysUnique, Crash, Rollback, ReleaseLock, Open
<1>14. SuccessIsDurable'
  BY DEF IInv, TypeOK, SuccessIsDurable, HasKey, Crash, Rollback,
    ReleaseLock, Open
<1>15. RereadFindsRow'
  BY DEF IInv, TypeOK, RereadFindsRow, HasKey, Crash, Rollback, ReleaseLock,
    Open
<1>16. EarnedIsMore'
  BY SameRows DEF IInv, Crash
<1>. QED
  BY <1>1, <1>2, <1>3, <1>4, <1>5, <1>6, <1>7, <1>8, <1>9, <1>10, <1>11,
    <1>12, <1>13, <1>14, <1>15, <1>16 DEF IInv

(* The script's row is a row, under a key no call has. *)
LEMMA ManualRow ==
  ASSUME NEW u \in Users, NEW k \in ManualKeys, NEW a \in Amounts
  PROVE  [key |-> k, user |-> u, delta |-> a] \in Row
  BY DEF Row

(* It gives to the balance of one user, or takes from it past what was     *)
(* earned.                                                                 *)
LEMMA ScriptMoves ==
  ASSUME IInv, NEW u \in Users, NEW k \in ManualKeys, NEW a \in Amounts,
         ScriptAddCredits(u, k, a), NEW v \in Users
  PROVE  /\ IsFiniteSet(rows')
         /\ Balance(v) \in Int /\ EarnedBalance(v) \in Int /\ a \in Int
         /\ v # u => Balance(v)' = Balance(v)
         /\ v = u => Balance(v)' = Balance(v) + a
         /\ v = u /\ a > 0 => EarnedBalance(v)' = EarnedBalance(v) + a
         /\ ~ (v = u /\ a > 0) => EarnedBalance(v)' = EarnedBalance(v)
<1>. DEFINE row == [key |-> k, user |-> u, delta |-> a]
<1>1. row \in Row /\ row \notin rows /\ rows' = rows \cup {row}
  BY ManualRow DEF ScriptAddCredits, HasKey
<1>2. row.user = u /\ row.delta = a /\ row.key \in ManualKeys /\ a \in Int
  BY AmountsAssumption
<1>3. rows \subseteq Row /\ IsFiniteSet(rows)
  BY DEF IInv, TypeOK, EarnedIsMore
<1>. HIDE DEF row
<1>4. /\ IsFiniteSet(rows')
      /\ Balance(v) \in Int /\ EarnedBalance(v) \in Int
      /\ row.user # v =>
           Balance(v)' = Balance(v) /\ EarnedBalance(v)' = EarnedBalance(v)
      /\ row.user = v => Balance(v)' = Balance(v) + row.delta
      /\ row.user = v /\ ~ (row.key \in ManualKeys /\ row.delta <= 0) =>
           EarnedBalance(v)' = EarnedBalance(v) + row.delta
      /\ row.key \in ManualKeys /\ row.delta <= 0 =>
           EarnedBalance(v)' = EarnedBalance(v)
  BY <1>1, <1>3, OneMoreRow
<1>. QED
  BY <1>2, <1>4

(* The script takes no lock, and takes from nobody what was earned. *)
LEMMA ScriptAddCreditsKeeps ==
  ASSUME IInv, NEW u \in Users, NEW k \in ManualKeys, NEW a \in Amounts,
         ScriptAddCredits(u, k, a)
  PROVE  IInv'
<1>1. TypeOK'
  BY ManualRow, AmountsAssumption DEF IInv, TypeOK, ScriptAddCredits
<1>2. CallKnown'
  BY DEF IInv, CallKnown, ScriptAddCredits
<1>3. LockHeld'
  BY DEF IInv, LockHeld, ScriptAddCredits
<1>4. LockOwned'
  BY DEF IInv, LockOwned, ScriptAddCredits
<1>5. PendingOwned'
  BY CallFields, ManualKeysAssumption DEF IInv, PendingOwned, RowOf, HasKey,
    ScriptAddCredits
<1>6. PendingKeysDiffer'
  BY DEF IInv, PendingKeysDiffer, ScriptAddCredits
<1>7. StillCovered'
  <2>. SUFFICES ASSUME NEW t \in Sessions, NEW v \in Users, op'[t].user = v,
                       pc'[t] = "insert" \/ pending'[t] # NoRow
                PROVE  EarnedBalance(v)' + op'[t].delta >= 0
    BY DEF StillCovered
  <2>1. op' = op /\ pc[t] = pc'[t] /\ pending'[t] = pending[t]
    BY DEF ScriptAddCredits
  <2>2. EarnedBalance(v) + op[t].delta >= 0 /\ op[t].delta \in Int
    BY <2>1, CallFields DEF IInv, StillCovered, PendingOwned
  <2>. QED
    BY <2>1, <2>2, ScriptMoves
<1>8. OwnKeyMissing'
  BY CallFields, ManualKeysAssumption DEF IInv, OwnKeyMissing,
    ScriptAddCredits
<1>9. CallerHasRow'
  BY DEF IInv, CallerHasRow, HasKey, ScriptAddCredits
<1>10. RiderKept'
  BY DEF IInv, RiderKept, Open, Steps, ScriptAddCredits
<1>11. DoneRider'
  BY DEF IInv, DoneRider, ScriptAddCredits
<1>12. NoNegativeBalance'
  BY ScriptMoves DEF IInv, NoNegativeBalance
<1>13. KeysUnique'
  BY DEF IInv, KeysUnique, HasKey, ScriptAddCredits
<1>14. SuccessIsDurable'
  BY DEF IInv, SuccessIsDurable, HasKey, ScriptAddCredits
<1>15. RereadFindsRow'
  BY DEF IInv, RereadFindsRow, HasKey, ScriptAddCredits
<1>16. EarnedIsMore'
  BY ScriptMoves DEF IInv, EarnedIsMore
<1>. QED
  BY <1>1, <1>2, <1>3, <1>4, <1>5, <1>6, <1>7, <1>8, <1>9, <1>10, <1>11,
    <1>12, <1>13, <1>14, <1>15, <1>16 DEF IInv

(* The initial state satisfies the invariant. *)
LEMMA InitEstablishes == Init => IInv
<1>. SUFFICES ASSUME Init PROVE IInv
  OBVIOUS
<1>1. /\ TypeOK /\ CallKnown /\ LockHeld /\ LockOwned /\ PendingOwned
      /\ PendingKeysDiffer /\ StillCovered /\ OwnKeyMissing /\ CallerHasRow
      /\ RiderKept /\ DoneRider /\ KeysUnique /\ SuccessIsDurable
      /\ RereadFindsRow
  BY SentinelAssumption
  DEF Init, TypeOK, CallKnown, LockHeld, LockOwned, PendingOwned,
      PendingKeysDiffer, StillCovered, OwnKeyMissing, CallerHasRow, RiderKept,
      DoneRider, KeysUnique, SuccessIsDurable, RereadFindsRow, Steps,
      RiderStates, Open
<1>2. EarnedIsMore /\ NoNegativeBalance
  <2>1. SumOfDeltas({}) = 0
    BY SameSum, DeltasAreInts, WP!SumEmpty
  <2>2. \A u \in Users : {r \in rows : r.user = u} = {}
                      /\ {r \in rows \ TakenByScript : r.user = u} = {}
    BY DEF Init
  <2>3. \A u \in Users : Balance(u) = 0 /\ EarnedBalance(u) = 0
    BY <2>1, <2>2 DEF Balance, EarnedBalance
  <2>. QED
    BY <2>3, FS_EmptySet DEF Init, EarnedIsMore, NoNegativeBalance
<1>. QED
  BY <1>1, <1>2 DEF IInv

(* ... and a step that changes nothing keeps it. *)
LEMMA StutterKeeps == IInv /\ UNCHANGED vars => IInv'
<1>. SUFFICES ASSUME IInv, UNCHANGED vars PROVE IInv'
  OBVIOUS
<1>1. EarnedIsMore' /\ NoNegativeBalance' /\ StillCovered'
  BY SameRows DEF vars, IInv, StillCovered
<1>. QED
  BY <1>1 DEF vars, IInv, TypeOK, CallKnown, LockHeld, LockOwned,
      PendingOwned, PendingKeysDiffer, OwnKeyMissing, CallerHasRow, RiderKept,
      DoneRider, KeysUnique, SuccessIsDurable, RereadFindsRow, HasKey, RowOf

-----------------------------------------------------------------------------

(* Every reachable state satisfies the inductive invariant. *)
THEOREM Inductive == Spec => []IInv
<1>1. IInv /\ [Next]_vars => IInv'
  <2>. SUFFICES ASSUME IInv, [Next]_vars PROVE IInv'
    OBVIOUS
  <2>1. ASSUME NEW s \in Sessions, Begin(s) PROVE IInv'
    BY <2>1, BeginKeeps
  <2>2. ASSUME NEW s \in Sessions, Step(s) PROVE IInv'
    BY <2>2, AcquireUserLockKeeps, CheckKeyKeeps, CheckBalanceKeeps,
       RaiseInsufficientKeeps, InsertEntryKeeps, InsertConflictKeeps,
       RereadKeeps, CommitKeeps DEF Step
  <2>3. ASSUME NEW s \in Sessions, Crash(s) PROVE IInv'
    BY <2>3, CrashKeeps
  <2>4. ASSUME NEW u \in Users, NEW k \in ManualKeys, NEW a \in Amounts,
               ScriptAddCredits(u, k, a)
        PROVE  IInv'
    BY <2>4, ScriptAddCreditsKeeps
  <2>5. CASE UNCHANGED vars
    BY <2>5, StutterKeeps
  <2>. QED
    BY <2>1, <2>2, <2>3, <2>4, <2>5 DEF Next
<1>. QED
  BY <1>1, InitEstablishes, PTL DEF Spec

(* Type correctness. *)
THEOREM TypeCorrect == Spec => []TypeOK
  BY Inductive, PTL DEF IInv

(* No interleaving of debits, credits, replays, conflicts, crashes and the *)
(* lock-free script takes a balance below zero by more than the script     *)
(* itself took.                                                            *)
THEOREM BalanceNeverNegative == Spec => []NoNegativeBalance
  BY Inductive, PTL DEF IInv

(* One row per idempotency key. *)
THEOREM OneRowPerKey == Spec => []KeysUnique
  BY Inductive, PTL DEF IInv

(* A call that returned and was committed has a committed row, and the     *)
(* assertion in the conflict path holds.                                   *)
THEOREM SuccessDurable == Spec => [](SuccessIsDurable /\ RereadFindsRow)
  BY Inductive, PTL DEF IInv

(* The caller's own write goes down with the rollback of the conflict path *)
(* only if the key belongs to a row of another user.                       *)
THEOREM CallerWriteKept == Spec => []RiderLostOnlyToForeignKey
<1>1. IInv => RiderLostOnlyToForeignKey
  BY DEF IInv, RiderLostOnlyToForeignKey, RiderKept, DoneRider
<1>. QED
  BY <1>1, Inductive, PTL

(* While a session keeps a user's lock, no step commits a row of that      *)
(* user, but for the script.                                               *)
THEOREM LockProtectsBalance == Spec => BalanceKeptUnderLock
<1>1. ASSUME IInv, [Next]_vars, NEW u \in Users,
             lock[u] # NoSession, lock'[u] = lock[u],
             NEW r \in rows' \ rows, r.user = u
      PROVE  r.key \in ManualKeys
  <2>1. ASSUME NEW s \in Sessions, Commit(s) PROVE FALSE
    <3>1. r = pending[s] /\ pending[s] # NoRow
      BY <1>1, <2>1 DEF Commit
    <3>2. pending[s] = RowOf(s) /\ lock[op[s].user] = s
      BY <1>1, <3>1 DEF IInv, PendingOwned
    <3>3. op[s].user = u /\ lock[u] = s
      BY <1>1, <3>1, <3>2 DEF RowOf
    <3>4. lock'[u] = NoSession
      BY <2>1, <3>3 DEF Commit, ReleaseLock
    <3>. QED
      BY <1>1, <3>4
  <2>2. ASSUME NEW v \in Users, NEW k \in ManualKeys, NEW a \in Amounts,
               ScriptAddCredits(v, k, a)
        PROVE  r.key \in ManualKeys
    BY <1>1, <2>2 DEF ScriptAddCredits
  <2>3. CASE UNCHANGED rows
    BY <1>1, <2>3
  <2>. QED
    BY <1>1, <2>1, <2>2, <2>3
    DEF Next, Step, vars, Begin, AcquireUserLock, CheckKey, CheckBalance,
        RaiseInsufficient, InsertEntry, InsertConflict, Reread, Crash
<1>2. IInv /\ [Next]_vars =>
        [\A u \in Users : lock[u] # NoSession /\ lock'[u] = lock[u] =>
           \A r \in rows' \ rows : r.user = u => r.key \in ManualKeys]_vars
  BY <1>1
<1>. QED
  BY <1>2, Inductive, PTL DEF Spec, BalanceKeptUnderLock

(* A row that counts as earned is a posting of the wallet. *)
LEMMA WalletPosts ==
  ASSUME IInv, NEW k \in Keys \cup ManualKeys, NEW u \in Users, NEW d \in Deltas,
         ~ HasKey(k), EarnedBalance(u) + d >= 0,
         rows' = rows \cup {[key |-> k, user |-> u, delta |-> d]},
         ~ (k \in ManualKeys /\ d <= 0),
         EarnedBalance(u)' = EarnedBalance(u) + d,
         \A v \in Users \ {u} : EarnedBalance(v)' = EarnedBalance(v)
  PROVE  W!WalletNext
<1>. DEFINE row == [key |-> k, user |-> u, delta |-> d]
<1>1. ~ W!HasKey(k)
  BY DEF W!HasKey, HasKey
<1>2. W!CanAfford(u, d)
  BY DEF W!CanAfford
<1>3. (rows \ TakenByScript)' = (rows \ TakenByScript) \cup {row}
  <2>1. row \notin rows /\ row.key = k /\ row.delta = d
    BY DEF HasKey
  <2>. HIDE DEF row
  <2>2. rows' = rows \cup {row}
    BY DEF row
  <2>. QED
    BY <2>1, <2>2 DEF TakenByScript
<1>4. [v \in Users |-> EarnedBalance(v)]' =
        [[v \in Users |-> EarnedBalance(v)] EXCEPT ![u] = @ + d]
  OBVIOUS
<1>5. W!Post(k, u, d)
  BY <1>1, <1>2, <1>3, <1>4 DEF W!Post
<1>. QED
  BY <1>5 DEF W!WalletNext

(* The transactions implement the atomic wallet: a commit that adds a row, *)
(* or the script that gives, is one Post; every other step leaves what was *)
(* earned as it is.                                                        *)
THEOREM Implementation == Spec => ImplementsWallet
<1>1. Init => W!WalletInit
  <2>. SUFFICES ASSUME Init PROVE W!WalletInit
    OBVIOUS
  <2>1. SumOfDeltas({}) = 0
    BY SameSum, DeltasAreInts, WP!SumEmpty
  <2>2. \A u \in Users : {r \in rows \ TakenByScript : r.user = u} = {}
    BY DEF Init
  <2>3. \A u \in Users : EarnedBalance(u) = 0
    BY <2>1, <2>2 DEF EarnedBalance
  <2>. QED
    BY <2>3 DEF Init, W!WalletInit
<1>2. IInv /\ [Next]_vars => [W!WalletNext]_(W!walletVars)
  <2>. SUFFICES ASSUME IInv, [Next]_vars PROVE [W!WalletNext]_(W!walletVars)
    OBVIOUS
  <2>1. CASE UNCHANGED rows
    BY <2>1, SameRows DEF W!walletVars, TakenByScript
  <2>2. ASSUME NEW s \in Sessions, Commit(s), pending[s] # NoRow
        PROVE  W!WalletNext
    <3>1. /\ pc[s] = "caller"
          /\ pending[s] = RowOf(s)
          /\ ~ HasKey(op[s].key)
      BY <2>2 DEF IInv, PendingOwned
    <3>2. PICK u \in Users, k \in Keys, d \in Deltas :
            op[s].user = u /\ op[s].key = k /\ op[s].delta = d
      BY <3>1, CallFields
    <3>3. EarnedBalance(u) + d >= 0
      BY <2>2, <3>2 DEF IInv, StillCovered
    <3>4. rows' = rows \cup {[key |-> k, user |-> u, delta |-> d]}
      BY <2>2, <3>1, <3>2 DEF Commit, RowOf
    <3>5. EarnedBalance(u)' = EarnedBalance(u) + d
      BY <2>2, <3>2, CommitMoves
    <3>6. \A v \in Users \ {u} : EarnedBalance(v)' = EarnedBalance(v)
      BY <2>2, <3>2, CommitMoves
    <3>7. k \notin ManualKeys
      BY ManualKeysAssumption
    <3>8. ~ HasKey(k) /\ k \in Keys \cup ManualKeys
      BY <3>1, <3>2
    <3>. QED
      BY <3>3, <3>4, <3>5, <3>6, <3>7, <3>8, WalletPosts
  <2>3. ASSUME NEW u \in Users, NEW k \in ManualKeys, NEW a \in Amounts,
               ScriptAddCredits(u, k, a)
        PROVE  [W!WalletNext]_(W!walletVars)
    <3>. DEFINE row == [key |-> k, user |-> u, delta |-> a]
    <3>1. ~ HasKey(k) /\ rows' = rows \cup {row}
      BY <2>3 DEF ScriptAddCredits
    <3>2. CASE a > 0
      <4>1. a \in Deltas /\ a \in Int
        BY <3>2, AmountsAssumption DEF Deltas
      <4>2. /\ EarnedBalance(u) + a >= 0 /\ EarnedBalance(u)' = EarnedBalance(u) + a
        BY <2>3, <3>2, ScriptMoves DEF IInv, NoNegativeBalance
      <4>3. \A v \in Users \ {u} : EarnedBalance(v)' = EarnedBalance(v)
        BY <2>3, ScriptMoves
      <4>. QED
        BY <3>1, <3>2, <4>1, <4>2, <4>3, WalletPosts
    <3>3. CASE ~ (a > 0)
      <4>1. row.key \in ManualKeys /\ row.delta <= 0
        BY <3>3, AmountsAssumption
      <4>2. \A v \in Users : EarnedBalance(v)' = EarnedBalance(v)
        BY <2>3, <3>3, ScriptMoves
      <4>. HIDE DEF row
      <4>3. rows' \ TakenByScript' = rows \ TakenByScript
        BY <3>1, <4>1 DEF TakenByScript
      <4>. QED
        BY <4>2, <4>3 DEF W!walletVars
    <3>. QED
      BY <3>2, <3>3
  <2>4. ASSUME NEW s \in Sessions, Commit(s), pending[s] = NoRow
        PROVE  UNCHANGED rows
    BY <2>4 DEF Commit
  <2>. QED
    BY <2>1, <2>2, <2>3, <2>4
    DEF Next, Step, vars, Begin, AcquireUserLock, CheckKey, CheckBalance,
        RaiseInsufficient, InsertEntry, InsertConflict, Reread, Crash
<1>. QED
  BY <1>1, <1>2, Inductive, PTL DEF Spec, ImplementsWallet, W!WalletSpec

=============================================================================
