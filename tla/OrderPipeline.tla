--------------------------- MODULE OrderPipeline ----------------------------
(***************************************************************************)
(* An order from POST /orders to its terminal status: OrderService places  *)
(* and enqueues it, arq delivers the message to the worker,                *)
(* generate_content moderates, generates, uploads and pays commission, and *)
(* a worker start reconciles what an earlier worker left behind.           *)
(*                                                                         *)
(* Every action is one database transaction or one external call, so that  *)
(* requests, worker jobs and crashes interleave between them.  Ledger      *)
(* operations are the atomic ones of Wallet, which CreditLedger implements *)
(* with locks and transactions.                                            *)
(*                                                                         *)
(* arq and Redis are modelled from how app/ uses them: a message stays in  *)
(* the queue until its job has ended, a job that raises or times out has   *)
(* ended, and the messages of a worker that dies or shuts down are         *)
(* delivered again.  enqueue_job is never given a job id, so two messages  *)
(* for one order are two jobs.                                             *)
(***************************************************************************)
EXTENDS OrderLedger, Sequences

CONSTANTS
  Clients,      \* concurrent POST /orders requests
  Messages,     \* messages that can be in the arq queue at once
  NoMessage,
  MaxCrashes    \* bound on worker deaths (arq gives a message up after five)

ASSUME NoMessageAssumption == NoMessage \notin Messages
ASSUME CrashAssumption == MaxCrashes \in Nat

VARIABLES
  status,    \* [Orders -> OrderStatus \cup {"absent"}]: orders.status
  jobs,      \* [Orders -> Seq(JobStatus)]: the order's generation_jobs rows
  stored,    \* orders whose output object is in the bucket
  client,    \* [Clients -> request in progress]
  message,   \* [Messages -> what the queue and the worker know of it]
  rowLock,   \* [Orders -> holder of the lock on the order's job row]
  worker,    \* "up", "down" or "starting"
  stuck,     \* orders the starting worker reset and has still to enqueue
  crashes    \* worker deaths so far

pipelineVars ==
  <<status, jobs, stored, client, message, rowLock, worker, stuck, crashes>>

vars == <<rows, balance, pipelineVars>>

(* created and refunded are members of the enum that no code sets. *)
OrderStatus == {"queued", "moderating", "generating", "done", "rejected", "failed"}

JobStatus == {"pending", "moderating", "generating", "done", "rejected", "failed"}

(* What generate_content and its callees are about to do. *)
Running == {"create_job", "begin_moderation", "moderate", "prompt", "generate",
            "upload", "finish"}

MessageStates == Running \cup {"none", "waiting"}

(* Every variable has its type: statuses are those of the two enums, and   *)
(* queue, requests and worker are in a state the code can tell apart.      *)
TypeOK ==
  /\ WalletTypeOK
  /\ status \in [Orders -> OrderStatus \cup {"absent"}]
  /\ jobs \in [Orders -> Seq(JobStatus)]
  /\ stored \subseteq Orders
  /\ client \in [Clients -> [pc : {"idle", "place", "enqueue"}, order : Orders]]
  /\ message \in [Messages -> [pc : MessageStates, order : Orders, job : Nat]]
  /\ rowLock \in [Orders -> Messages \cup {NoMessage}]
  /\ worker \in {"up", "down", "starting"}
  /\ stuck \subseteq Orders
  /\ crashes \in 0 .. MaxCrashes
-----------------------------------------------------------------------------

AnyOrder == CHOOSE o \in Orders : TRUE

Idle == [pc |-> "idle", order |-> AnyOrder]
NoMsg == [pc |-> "none", order |-> AnyOrder, job |-> 0]

Init ==
  /\ WalletInit
  /\ status = [o \in Orders |-> "absent"]
  /\ jobs = [o \in Orders |-> <<>>]
  /\ stored = {}
  /\ client = [c \in Clients |-> Idle]
  /\ message = [m \in Messages |-> NoMsg]
  /\ rowLock = [o \in Orders |-> NoMessage]
  /\ worker = "up"
  /\ stuck = {}
  /\ crashes = 0

(* A captured payment credits the user. *)
TopUp(u) ==
  /\ Purchase(u)
  /\ UNCHANGED pipelineVars

-----------------------------------------------------------------------------
(* OrderService.create_order *)

Exists(o) == status[o] # "absent"

(* Replay: an order under the idempotency key is returned as it is.        *)
(* (An unknown template is refused here too; that changes nothing.)        *)
LookUpOrder(c) ==
  /\ client[c].pc = "idle"
  /\ \E o \in Orders :
       /\ ~ Exists(o)
       /\ client' = [client EXCEPT ![c] = [pc |-> "place", order |-> o]]
  /\ UNCHANGED <<rows, balance, status, jobs, stored, message, rowLock, worker,
                 stuck, crashes>>

(* Under the user's lock: the balance covers the price, the order row goes *)
(* in as queued, the debit goes in, one commit.                            *)
PlaceOrder(c) ==
  LET o == client[c].order IN
  /\ client[c].pc = "place"
  /\ CanAfford(OwnerOf[o], -Price)
  /\ ~ Exists(o)
  /\ status' = [status EXCEPT ![o] = "queued"]
  /\ Charge(o)
  /\ client' = [client EXCEPT ![c].pc = "enqueue"]
  /\ UNCHANGED <<jobs, stored, message, rowLock, worker, stuck, crashes>>

(* Mutant: the order row is inserted before the balance check and stays.   *)
RefuseOrderMutant(c) ==
  LET o == client[c].order IN
  /\ client[c].pc = "place"
  /\ ~ CanAfford(OwnerOf[o], -Price) \/ Exists(o)
  /\ status' = [status EXCEPT ![o] = IF Exists(o) THEN @ ELSE "queued"]
  /\ client' = [client EXCEPT ![c] = Idle]
  /\ UNCHANGED <<rows, balance, jobs, stored, message, rowLock, worker, stuck,
                 crashes>>

(* Mutant: the error path falls through to the enqueue. *)
FallThroughMutant(c) ==
  LET o == client[c].order IN
  /\ client[c].pc = "place"
  /\ ~ CanAfford(OwnerOf[o], -Price) \/ Exists(o)
  /\ client' = [client EXCEPT ![c].pc = "enqueue"]
  /\ UNCHANGED <<rows, balance, status, jobs, stored, message, rowLock, worker,
                 stuck, crashes>>

(* InsufficientBalanceError, or the unique idempotency key fires because a *)
(* concurrent request won: rollback, nothing is written or enqueued.       *)
RefuseOrder(c) ==
  LET o == client[c].order IN
  /\ client[c].pc = "place"
  /\ ~ CanAfford(OwnerOf[o], -Price) \/ Exists(o)
  /\ client' = [client EXCEPT ![c] = Idle]
  /\ UNCHANGED <<rows, balance, status, jobs, stored, message, rowLock, worker,
                 stuck, crashes>>

(* A message of its own for the order; free slots are interchangeable. *)
Enqueue(o) ==
  \E m \in Messages :
    /\ message[m].pc = "none"
    /\ message' = [message EXCEPT ![m] =
                     [pc |-> "waiting", order |-> o, job |-> 0]]

(* After the commit, best effort. *)
EnqueueOrder(c) ==
  /\ client[c].pc = "enqueue"
  /\ Enqueue(client[c].order)
  /\ client' = [client EXCEPT ![c] = Idle]
  /\ UNCHANGED <<rows, balance, status, jobs, stored, rowLock, worker, stuck,
                 crashes>>

(* Redis is unreachable, and the exception is logged and swallowed; or the *)
(* API process dies between the commit and the call.                       *)
EnqueueFails(c) ==
  /\ client[c].pc = "enqueue"
  /\ client' = [client EXCEPT ![c] = Idle]
  /\ UNCHANGED <<rows, balance, status, jobs, stored, message, rowLock, worker,
                 stuck, crashes>>

-----------------------------------------------------------------------------
(* generate_content *)

(* Mutant: rejected orders are not skipped. *)
TerminalGuardMutant == {"done", "failed"}

TerminalGuard == {"done", "rejected", "failed"}

(* The session of message m can update the job row: nobody else has it     *)
(* locked by an uncommitted update.                                        *)
RowFree(m) == rowLock[message[m].order] \in {NoMessage, m}

Goto(m, step) == message' = [message EXCEPT ![m].pc = step]

(* The job function has returned or raised; arq drops the message. *)
Ended(m) == message' = [message EXCEPT ![m] = NoMsg]

(* What the order and job rows say when the run begins: finished orders    *)
(* are skipped; without a job row one is created; get_by_order_id raises   *)
(* on a second row, outside the try, and the run is over.                  *)
Pickup(m) ==
  LET o == message[m].order IN
  /\ worker = "up"
  /\ message[m].pc = "waiting"
  /\ IF status[o] \in TerminalGuard \/ Len(jobs[o]) > 1
       THEN Ended(m)
       ELSE IF Len(jobs[o]) = 0
              THEN Goto(m, "create_job")
              ELSE message' = [message EXCEPT ![m].pc = "begin_moderation",
                                              ![m].job = 1]
  /\ UNCHANGED <<rows, balance, status, jobs, stored, client, rowLock, worker,
                 stuck, crashes>>

CreateJob(m) ==
  LET o == message[m].order IN
  /\ message[m].pc = "create_job"
  /\ jobs' = [jobs EXCEPT ![o] = Append(@, "pending")]
  /\ message' = [message EXCEPT ![m].pc = "begin_moderation",
                                ![m].job = Len(jobs[o]) + 1]
  /\ UNCHANGED <<rows, balance, status, stored, client, rowLock, worker, stuck,
                 crashes>>

(* Both rows of the run get their status in one commit; the UPDATEs are    *)
(* unconditional.                                                          *)
SetStatuses(m, job, order) ==
  LET o == message[m].order IN
  /\ jobs' = [jobs EXCEPT ![o][message[m].job] = job]
  /\ status' = [status EXCEPT ![o] = order]

BeginModeration(m) ==
  /\ message[m].pc = "begin_moderation"
  /\ RowFree(m)
  /\ SetStatuses(m, "moderating", "moderating")
  /\ Goto(m, "moderate")
  /\ UNCHANGED <<rows, balance, stored, client, rowLock, worker, stuck, crashes>>

(* The verdict is written but not committed: the run keeps the job row     *)
(* locked while the prompt is built.                                       *)
Allow(m) ==
  /\ message[m].pc = "moderate"
  /\ RowFree(m)
  /\ rowLock' = [rowLock EXCEPT ![message[m].order] = m]
  /\ Goto(m, "prompt")
  /\ UNCHANGED <<rows, balance, status, jobs, stored, client, worker, stuck,
                 crashes>>

(* Blocked: refund, job and order rejected, one commit. *)
Block(m) ==
  LET o == message[m].order IN
  /\ message[m].pc = "moderate"
  /\ RowFree(m)
  /\ Refund(o)
  /\ SetStatuses(m, "rejected", "rejected")
  /\ Ended(m)
  /\ UNCHANGED <<stored, client, rowLock, worker, stuck, crashes>>

(* Mutant: the session outlives its job. *)
FreeRowMutant(m) == UNCHANGED rowLock

FreeRow(m) ==
  rowLock' = [rowLock EXCEPT ![message[m].order] = IF @ = m THEN NoMessage ELSE @]

(* The prompt is there; run_generate commits the statuses. *)
BeginGenerating(m) ==
  /\ message[m].pc = "prompt"
  /\ SetStatuses(m, "generating", "generating")
  /\ FreeRow(m)
  /\ Goto(m, "generate")
  /\ UNCHANGED <<rows, balance, stored, client, worker, stuck, crashes>>

(* The provider has answered; its name and cost are committed on the job   *)
(* row, whose status is written again.                                     *)
RecordOutput(m) ==
  LET o == message[m].order IN
  /\ message[m].pc = "generate"
  /\ RowFree(m)
  /\ jobs' = [jobs EXCEPT ![o][message[m].job] = "generating"]
  /\ Goto(m, "upload")
  /\ UNCHANGED <<rows, balance, status, stored, client, rowLock, worker, stuck,
                 crashes>>

(* The object is stored before any row says so. *)
Upload(m) ==
  /\ message[m].pc = "upload"
  /\ stored' = stored \cup {message[m].order}
  /\ Goto(m, "finish")
  /\ UNCHANGED <<rows, balance, status, jobs, client, rowLock, worker, stuck,
                 crashes>>

(* Done and commission land in one commit. *)
Finish(m) ==
  /\ message[m].pc = "finish"
  /\ RowFree(m)
  /\ SetStatuses(m, "done", "done")
  /\ PayCommission(message[m].order)
  /\ Ended(m)
  /\ UNCHANGED <<stored, client, rowLock, worker, stuck, crashes>>

(* Where an exception finds no transaction open: the moderation call, the  *)
(* provider, the watermark and the upload.                                 *)
FailSteps == {"moderate", "generate", "upload"}

(* An exception there: job and order failed, the ledger is not touched.    *)
(* Anywhere else session.rollback() ends a transaction and so expires the  *)
(* job object (expire_on_commit is no help), reading job.id in the handler *)
(* raises MissingGreenlet, and the run ends as in Abandon.                 *)
Fail(m) ==
  /\ message[m].pc \in FailSteps
  /\ RowFree(m)
  /\ SetStatuses(m, "failed", "failed")
  /\ Ended(m)
  /\ UNCHANGED <<rows, balance, stored, client, rowLock, worker, stuck, crashes>>

(* The run ends without a word: arq's job_timeout cancels it (a            *)
(* CancelledError is no Exception), an error strikes before the try, or    *)
(* the error handler itself fails, as it does when build_prompt raises.    *)
Abandon(m) ==
  /\ message[m].pc \in Running
  /\ FreeRow(m)
  /\ Ended(m)
  /\ UNCHANGED <<rows, balance, status, jobs, stored, client, worker, stuck,
                 crashes>>

-----------------------------------------------------------------------------
(* The worker process *)

(* The worker dies or is shut down: open transactions roll back, the       *)
(* messages it was running wait for delivery again.                        *)
WorkerCrash ==
  /\ worker # "down"
  /\ crashes < MaxCrashes
  /\ worker' = "down"
  /\ crashes' = crashes + 1
  /\ message' = [m \in Messages |->
                   IF message[m].pc \in Running
                     THEN [message[m] EXCEPT !.pc = "waiting", !.job = 0]
                     ELSE message[m]]
  /\ rowLock' = [o \in Orders |-> NoMessage]
  /\ stuck' = {}
  /\ UNCHANGED <<rows, balance, status, jobs, stored, client>>

(* Mutants: queued orders are swept up as well, moderating ones are not. *)
SweepQueuedMutant == {"queued", "generating", "moderating"}
SweepGeneratingMutant == {"generating"}

StuckStatus == {"generating", "moderating"}

(* Mutant: the two enums are mixed up. *)
ResetOrderMutant == "pending"

ResetOrder == "queued"
ResetJob == "pending"

(* on_startup, _reconcile_stuck_orders: one commit resets what is stuck. *)
WorkerStart ==
  LET found == {o \in Orders : status[o] \in StuckStatus} IN
  /\ worker = "down"
  /\ worker' = "starting"
  /\ status' = [o \in Orders |-> IF o \in found THEN ResetOrder ELSE status[o]]
  /\ jobs' = [o \in Orders |->
                IF o \in found THEN [i \in DOMAIN jobs[o] |-> ResetJob] ELSE jobs[o]]
  /\ stuck' = found
  /\ UNCHANGED <<rows, balance, stored, client, message, rowLock, crashes>>

(* ... and every one of them gets a message, beside the one that may still *)
(* be in the queue.                                                        *)
ReEnqueue ==
  /\ worker = "starting"
  /\ \E o \in stuck : Enqueue(o) /\ stuck' = stuck \ {o}
  /\ UNCHANGED <<rows, balance, status, jobs, stored, client, rowLock, worker,
                 crashes>>

WorkerReady ==
  /\ worker = "starting"
  /\ stuck = {}
  /\ worker' = "up"
  /\ UNCHANGED <<rows, balance, status, jobs, stored, client, message, rowLock,
                 stuck, crashes>>

-----------------------------------------------------------------------------

Request(c) == PlaceOrder(c) \/ RefuseOrder(c) \/ EnqueueOrder(c) \/ EnqueueFails(c)

Run(m) ==
  \/ Pickup(m) \/ CreateJob(m) \/ BeginModeration(m) \/ Allow(m) \/ Block(m)
  \/ BeginGenerating(m) \/ RecordOutput(m) \/ Upload(m) \/ Finish(m)

Restart == WorkerStart \/ ReEnqueue \/ WorkerReady

Next ==
  \/ \E u \in Users : TopUp(u)
  \/ \E c \in Clients : LookUpOrder(c) \/ Request(c)
  \/ \E m \in Messages : Run(m) \/ Fail(m) \/ Abandon(m)
  \/ WorkerCrash
  \/ Restart

Spec == Init /\ [][Next]_vars

(* A request that was accepted runs to its end, a started job takes its    *)
(* next step (external calls carry timeouts), and the platform restarts a  *)
(* dead worker (restart policy on_failure, three retries: MaxCrashes <= 3).*)
(* Purchases, requests, errors, timeouts and crashes need never happen.    *)
Fairness ==
  /\ \A c \in Clients : WF_vars(Request(c))
  /\ \A m \in Messages : WF_vars(Run(m))
  /\ WF_vars(Restart)

FairSpec == Spec /\ Fairness

-----------------------------------------------------------------------------
(* Properties *)

Finished == {"done", "rejected", "failed"}

LiveRun(o) == \E m \in Messages : message[m].pc \in Running /\ message[m].order = o

(* create_order: no order without its debit and no debit without its       *)
(* order, whatever is in flight.                                           *)
OrderIffCharged == \A o \in Orders : Exists(o) <=> Charged(o)

(* An order and its debit are one, and nothing is queued or run for an     *)
(* order that did not commit with its debit: neither is money taken for    *)
(* nothing nor generation given away.                                      *)
NoUnpaidWork ==
  /\ OrderIffCharged
  /\ \A m \in Messages : message[m].pc # "none" => Charged(message[m].order)

(* generation_jobs.order_id has no unique constraint, yet two runs never   *)
(* create two rows (get_by_order_id would raise on every later run).       *)
OneJobRow == \A o \in Orders : Len(jobs[o]) <= 1

(* run_moderation: an order shown as rejected has its price back.          *)
RejectedIsRefunded ==
  \A o \in Orders : status[o] = "rejected" => Refunded(o)

(* generate_content: done and commission land together, and neither is     *)
(* ever there before the output is in the bucket.                          *)
PaidForDelivery ==
  \A o \in Orders :
    /\ status[o] = "done" => o \in stored
    /\ status[o] = "done" /\ EarnsCommission(o) => CommissionPaid(o)
    /\ CommissionPaid(o) => o \in stored

(* A balance is what the user bought, less the price of every order of the *)
(* user, with the price of every refunded one back, and the commission of  *)
(* every order that the user was paid for as its agent: redelivered and    *)
(* repeated runs post nothing twice and nothing to somebody else.          *)
BalanceIsOrders ==
  \A u \in Users :
    balance[u] = Bought(u)
                 - Price * Cardinality({o \in Orders : OwnerOf[o] = u /\ Exists(o)})
                 + Price * Cardinality(RefundsOf(u))
                 + Commission * Cardinality(EarningsOf(u))

(* An order that is finished and that no run is working on is at rest ...  *)
AtRest(o) == status[o] \in Finished /\ ~ LiveRun(o)

(* ... and stays so: redelivered messages and duplicates of the            *)
(* reconciliation are skipped, and a worker start does not revive it.      *)
RestIsFinal ==
  [][\A o \in Orders : AtRest(o) => AtRest(o)' /\ status'[o] = status[o]]_vars

(* The order as its customer sees it. *)
Life ==
  INSTANCE OrderLife WITH
    outcome <- [o \in Orders |->
                  IF status[o] \in {"queued", "moderating", "generating"}
                    THEN "open" ELSE status[o]]

(* As long as no worker has died, the pipeline is OrderLife: an order ends *)
(* once and money moves with it - the commission of a delivery, the refund *)
(* of a rejection, and nothing for an order that failed.                   *)
ImplementsOrderLife ==
  /\ Life!LifeInit
  /\ [][Life!LifeNext \/ crashes > 0]_(Life!lifeVars)

(* The ledger says what became of an order.  Whatever dies, a rejected     *)
(* order has its refund, and a delivered one its output and its            *)
(* commission, which nothing but an output earns.  Until a worker dies     *)
(* there is a debit if and only if there is an order, a refund if and only *)
(* if it is rejected, a commission if and only if it is done.              *)
MoneyFollowsStatus ==
  /\ RejectedIsRefunded
  /\ PaidForDelivery
  /\ crashes = 0 => Life!MoneyFollowsOutcome

(* A delivered message is run to an end: the job function never waits for  *)
(* a row lock for good.                                                    *)
EveryMessageEnds ==
  \A m \in Messages : message[m].pc # "none" ~> message[m].pc = "none"

(* _reconcile_stuck_orders: an order that a dying worker left in moderating *)
(* or generating is worked on again or finished, also when its message was *)
(* lost before, unless the start that rescues it is killed as well.        *)
StuckOrderIsRunAgain ==
  \A o \in Orders :
    (worker = "down" /\ status[o] \in {"moderating", "generating"})
      ~> \/ LiveRun(o)
         \/ status[o] \in Finished
         \/ worker = "down" /\ status[o] = "queued"

-----------------------------------------------------------------------------
(* What comments say of the program, and the program does not do *)

(* OrderService: an order left in queued by a failed enqueue is picked up  *)
(* by the reconciliation cron.                                             *)
QueuedOrderIsPickedUp ==
  \A o \in Orders : status[o] = "queued" ~> LiveRun(o) \/ status[o] \in Finished

(* _reconcile_stuck_orders: it is safe to run many times, deduplication    *)
(* and the terminal-status guard prevent double-processing.  So no order   *)
(* comes to two ends, its price back and its output delivered as well.     *)
RefundedNotDelivered == \A o \in Orders : ~ (Refunded(o) /\ status[o] = "done")

=============================================================================
