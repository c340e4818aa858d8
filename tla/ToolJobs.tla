------------------------------ MODULE ToolJobs ------------------------------
(***************************************************************************)
(* A photo tool from POST /tools/<name> to the result: the endpoint        *)
(* charges, enqueues an arq job and records it in the user's history; the  *)
(* worker's run_tool calls the provider, stores the output, publishes a    *)
(* status record in Redis, and refunds a job that raised.                  *)
(*                                                                         *)
(* Database, queue, history and status record are four stores, written one *)
(* after the other; every action is one write or one external call.        *)
(* Ledger operations are the atomic ones of Wallet.                        *)
(*                                                                         *)
(* arq is modelled from how app/ uses it: a job that returned, raised or   *)
(* ran into job_timeout has ended once arq has noted so; the jobs of a     *)
(* worker that dies or shuts down are delivered again.                     *)
(***************************************************************************)
EXTENDS Wallet

CONSTANTS
  Requests,    \* POST bodies that pass their endpoint's checks
  Clients,     \* concurrent POSTs
  NoRequest,   \* "no POST between its charge and its enqueue"
  Jobs,        \* job ids: every enqueue draws a fresh uuid
  UserOf,      \* [Requests -> Users]
  InputKey,    \* [Requests -> what the charge key keeps of the request]
  Cost,        \* [Requests -> cost_paise]
  PackPrice,   \* a top-up
  MaxCrashes,  \* bound on worker deaths
  MaxFaults    \* bound on failed Redis, database and API steps

ASSUME UserOfAssumption == UserOf \in [Requests -> Users]
ASSUME CostAssumption == Cost \in [Requests -> Nat \ {0}]
ASSUME PackAssumption == PackPrice \in Nat \ {0}
ASSUME RequestsAssumption == Requests # {} /\ NoRequest \notin Requests
ASSUME BoundsAssumption == MaxCrashes \in Nat /\ MaxFaults \in Nat

ChargeKey(r) == <<"tool", InputKey[r]>>
RefundKey(j) == <<"refund:tool", j>>
PurchaseKey(u) == <<"purchase", u>>

ASSUME KeysAssumption ==
  /\ \A r \in Requests : ChargeKey(r) \in Keys
  /\ \A j \in Jobs : RefundKey(j) \in Keys
  /\ \A u \in Users : PurchaseKey(u) \in Keys

(* The user's id is part of the charge key. *)
ASSUME KeyNamesUser ==
  \A r, q \in Requests : InputKey[r] = InputKey[q] => UserOf[r] = UserOf[q]

(* So is the tool, and with it the cost. *)
ASSUME KeyNamesCost ==
  \A r, q \in Requests : InputKey[r] = InputKey[q] => Cost[r] = Cost[q]

ASSUME AmountsAssumption ==
  /\ PackPrice \in Deltas
  /\ \A r \in Requests : Cost[r] \in Deltas /\ -Cost[r] \in Deltas

VARIABLES
  client,    \* [Clients -> the request that is charged and not enqueued]
  job,       \* [Jobs -> what the queue and the worker know of the job]
  record,    \* [Jobs -> the status under tool:job:<id>, or "none"]
  stored,    \* jobs with an output in the bucket
  logged,    \* jobs reported as "needs manual reconciliation"
  lost,      \* requests whose enqueue failed after the charge
  crashes,   \* worker deaths so far
  faults     \* failed steps so far

jobVars ==
  <<client, job, record, stored, logged, lost, crashes, faults>>

vars == <<rows, balance, jobVars>>

(* What run_tool is about to do. *)
Running == {"call", "upload", "publish", "refund", "report"}

(* The job function is over and arq has not noted it: "cancelled" is an    *)
(* end without the handler.                                                *)
Over == {"returned", "raised", "cancelled"}

Ended == {"succeeded", "failed", "dropped"}

JobSteps == {"unused", "waiting"} \cup Running \cup Over \cup Ended

(* Every variable has its type. *)
TypeOK ==
  /\ WalletTypeOK
  /\ client \in [Clients -> Requests \cup {NoRequest}]
  /\ job \in [Jobs -> [pc : JobSteps, req : Requests]]
  /\ record \in [Jobs -> {"none", "processing", "done", "failed"}]
  /\ stored \subseteq Jobs
  /\ logged \subseteq Jobs
  /\ lost \subseteq Requests
  /\ crashes \in 0 .. MaxCrashes
  /\ faults \in 0 .. MaxFaults

-----------------------------------------------------------------------------

AnyRequest == CHOOSE r \in Requests : TRUE

Init ==
  /\ WalletInit
  /\ client = [c \in Clients |-> NoRequest]
  /\ job = [j \in Jobs |-> [pc |-> "unused", req |-> AnyRequest]]
  /\ record = [j \in Jobs |-> "none"]
  /\ stored = {}
  /\ logged = {}
  /\ lost = {}
  /\ crashes = 0
  /\ faults = 0

(* A captured payment credits the user. *)
TopUp(u) ==
  /\ Post(PurchaseKey(u), u, PackPrice)
  /\ UNCHANGED jobVars

Fault == faults < MaxFaults /\ faults' = faults + 1

-----------------------------------------------------------------------------
(* The endpoint *)

Charged(r) == HasKey(ChargeKey(r))

(* Mutant: the 402 is logged, as with bypass_payments, and not raised. *)
ChargeMutant(c) ==
  /\ client[c] = NoRequest
  /\ \E r \in Requests :
       /\ client' = [client EXCEPT ![c] = r]
       /\ IF Charged(r) \/ ~ CanAfford(UserOf[r], -Cost[r])
            THEN UNCHANGED walletVars
            ELSE Post(ChargeKey(r), UserOf[r], -Cost[r])
  /\ UNCHANGED <<job, record, stored, logged, lost, crashes, faults>>

(* _charge: debit and commit.  A request under a key that was charged      *)
(* before is not charged again and goes on like any other; one that the    *)
(* balance does not cover gets a 402, and nothing happens.                 *)
Charge(c) ==
  /\ client[c] = NoRequest
  /\ \E r \in Requests :
       /\ Charged(r) \/ CanAfford(UserOf[r], -Cost[r])
       /\ PostOnce(ChargeKey(r), UserOf[r], -Cost[r])
       /\ client' = [client EXCEPT ![c] = r]
  /\ UNCHANGED <<job, record, stored, logged, lost, crashes, faults>>

(* uuid4: an id that was never used. *)
FreshJob == CHOOSE j \in Jobs : job[j].pc = "unused"

HasFreshJob == \E j \in Jobs : job[j].pc = "unused"

Queue(r) == job' = [job EXCEPT ![FreshJob] = [pc |-> "waiting", req |-> r]]

(* _enqueue: a job under a fresh id, an entry in the user's history (which *)
(* names jobs and holds no state of them), the answer.                     *)
Enqueue(c) ==
  /\ client[c] # NoRequest
  /\ HasFreshJob
  /\ Queue(client[c])
  /\ client' = [client EXCEPT ![c] = NoRequest]
  /\ UNCHANGED <<rows, balance, record, stored, logged, lost, crashes, faults>>

(* Redis is unreachable, or the API process dies after the charge: a 500,  *)
(* and nothing takes the charge back.  The job may be queued all the same, *)
(* its answer or its history entry lost.                                   *)
EnqueueFails(c) ==
  /\ client[c] # NoRequest
  /\ Fault
  /\ client' = [client EXCEPT ![c] = NoRequest]
  /\ lost' = lost \cup {client[c]}
  /\ UNCHANGED job \/ (HasFreshJob /\ Queue(client[c]))
  /\ UNCHANGED <<rows, balance, record, stored, logged, crashes>>

-----------------------------------------------------------------------------
(* run_tool *)

Goto(j, step) == job' = [job EXCEPT ![j].pc = step]

(* arq delivers the job; before the try the status becomes processing,     *)
(* whatever it was.                                                        *)
Start(j) ==
  /\ job[j].pc = "waiting"
  /\ record' = [record EXCEPT ![j] = "processing"]
  /\ Goto(j, "call")
  /\ UNCHANGED <<rows, balance, client, stored, logged, lost, crashes,
                 faults>>

(* That write fails: the exception leaves run_tool, nothing is refunded    *)
(* and nothing is logged by the application.                               *)
StartFails(j) ==
  /\ job[j].pc = "waiting"
  /\ Fault
  /\ Goto(j, "cancelled")
  /\ UNCHANGED <<rows, balance, client, record, stored, logged, lost,
                 crashes>>

(* _dispatch_tool and the watermark. *)
CallReturns(j) ==
  /\ job[j].pc = "call"
  /\ Goto(j, "upload")
  /\ UNCHANGED <<rows, balance, client, record, stored, logged, lost,
                 crashes, faults>>

(* The provider, the watermark or the upload raises: the handler begins. *)
CallRaises(j) ==
  /\ job[j].pc \in {"call", "upload"}
  /\ Goto(j, "refund")
  /\ UNCHANGED <<rows, balance, client, record, stored, logged, lost,
                 crashes, faults>>

Upload(j) ==
  /\ job[j].pc = "upload"
  /\ stored' = stored \cup {j}
  /\ Goto(j, "publish")
  /\ UNCHANGED <<rows, balance, client, record, logged, lost, crashes,
                 faults>>

(* Mutant: the refund is in a finally block. *)
PublishThenRefundMutant(j) ==
  /\ job[j].pc = "publish"
  /\ record' = [record EXCEPT ![j] = "done"]
  /\ IF HasKey(RefundKey(j))
       THEN UNCHANGED walletVars
       ELSE Post(RefundKey(j), UserOf[job[j].req], Cost[job[j].req])
  /\ Goto(j, "returned")
  /\ UNCHANGED <<client, stored, logged, lost, crashes, faults>>

Publish(j) ==
  /\ job[j].pc = "publish"
  /\ record' = [record EXCEPT ![j] = "done"]
  /\ Goto(j, "returned")
  /\ UNCHANGED <<rows, balance, client, stored, logged, lost, crashes,
                 faults>>

(* The write of the status fails, or only its answer is lost. *)
PublishFails(j) ==
  /\ job[j].pc = "publish"
  /\ Fault
  /\ record' \in {record, [record EXCEPT ![j] = "done"]}
  /\ Goto(j, "refund")
  /\ UNCHANGED <<rows, balance, client, stored, logged, lost, crashes>>

Refunded(j) == HasKey(RefundKey(j))

(* Mutant: no commit after the credit. *)
RefundMutant(j) ==
  /\ job[j].pc = "refund"
  /\ Goto(j, "report")
  /\ UNCHANGED <<rows, balance, client, record, stored, logged, lost,
                 crashes, faults>>

(* The handler's credit and its commit, once per job id. *)
Refund(j) ==
  /\ job[j].pc = "refund"
  /\ PostOnce(RefundKey(j), UserOf[job[j].req], Cost[job[j].req])
  /\ Goto(j, "report")
  /\ UNCHANGED <<client, record, stored, logged, lost, crashes, faults>>

(* The credit raises; the inner handler logs the job. *)
RefundFails(j) ==
  /\ job[j].pc = "refund"
  /\ Fault
  /\ logged' = logged \cup {j}
  /\ Goto(j, "report")
  /\ UNCHANGED <<rows, balance, client, record, stored, lost, crashes>>

(* Mutant: the handler re-raises without a status. *)
ReportMutant(j) ==
  /\ job[j].pc = "report"
  /\ Goto(j, "raised")
  /\ UNCHANGED <<rows, balance, client, record, stored, logged, lost,
                 crashes, faults>>

(* The status becomes failed, the exception goes on to arq. *)
Report(j) ==
  /\ job[j].pc = "report"
  /\ record' = [record EXCEPT ![j] = "failed"]
  /\ Goto(j, "raised")
  /\ UNCHANGED <<rows, balance, client, stored, logged, lost, crashes,
                 faults>>

ReportFails(j) ==
  /\ job[j].pc = "report"
  /\ Fault
  /\ Goto(j, "raised")
  /\ UNCHANGED <<rows, balance, client, record, stored, logged, lost,
                 crashes>>

(* arq's job_timeout throws a CancelledError, which is no Exception, into  *)
(* whatever call run_tool waits for.                                       *)
Cancel(j) ==
  /\ job[j].pc \in Running
  /\ Goto(j, "cancelled")
  /\ UNCHANGED <<rows, balance, client, record, stored, logged, lost,
                 crashes, faults>>

-----------------------------------------------------------------------------
(* arq *)

(* Mutant: arq's end is mixed up with the status of the record. *)
EndOfMutant == [returned |-> "done", raised |-> "failed", cancelled |-> "dropped"]

EndOf == [returned |-> "succeeded", raised |-> "failed", cancelled |-> "dropped"]

(* arq writes the result and removes the job. *)
NoteEnd(j) ==
  /\ job[j].pc \in Over
  /\ Goto(j, EndOf[job[j].pc])
  /\ UNCHANGED <<rows, balance, client, record, stored, logged, lost,
                 crashes, faults>>

(* The worker dies or shuts down; a new one finds its jobs in the queue. *)
WorkerDies ==
  /\ crashes < MaxCrashes
  /\ crashes' = crashes + 1
  /\ job' = [j \in Jobs |->
               IF job[j].pc \in Running \cup Over
                 THEN [job[j] EXCEPT !.pc = "waiting"] ELSE job[j]]
  /\ UNCHANGED <<rows, balance, client, record, stored, logged, lost,
                 faults>>

-----------------------------------------------------------------------------

Run(j) ==
  \/ Start(j) \/ CallReturns(j) \/ CallRaises(j) \/ Upload(j)
  \/ Publish(j) \/ Refund(j) \/ Report(j) \/ NoteEnd(j)

Next ==
  \/ \E u \in Users : TopUp(u)
  \/ \E c \in Clients : Charge(c) \/ Enqueue(c) \/ EnqueueFails(c)
  \/ \E j \in Jobs :
       \/ Run(j) \/ StartFails(j) \/ PublishFails(j) \/ RefundFails(j)
       \/ ReportFails(j) \/ Cancel(j)
  \/ WorkerDies

Spec == Init /\ [][Next]_vars

(* A handler goes on to its enqueue; a delivered job takes its next step,   *)
(* because every external call of run_tool has a timeout; arq delivers and *)
(* notes ends.  Requests, errors, timeouts and deaths need never happen.   *)
Fairness ==
  /\ \A c \in Clients : WF_vars(Enqueue(c))
  /\ \A j \in Jobs : WF_vars(Run(j))

FairSpec == Spec /\ Fairness

-----------------------------------------------------------------------------
(* Properties *)

Queued(j) == job[j].pc # "unused"

(* Requests the endpoint charges under one key. *)
SameKey(r, q) == InputKey[r] = InputKey[q]

(* "deduct credits BEFORE enqueuing": no job without a charge under its    *)
(* request's key; and no charge without a job, except while the handler is *)
(* between the two or when one of its enqueues failed.                     *)
ChargeBuysJob ==
  /\ \A j \in Jobs : Queued(j) => Charged(job[j].req)
  /\ \A r \in Requests :
       Charged(r) =>
         \/ \E j \in Jobs : Queued(j) /\ SameKey(job[j].req, r)
         \/ \E c \in Clients : client[c] # NoRequest /\ SameKey(client[c], r)
         \/ \E q \in lost : SameKey(q, r)

(* run_tool's handler: "the user should not be left out of pocket".  A job *)
(* that arq or the customer sees as failed has its cost back, or is in the *)
(* log for an operator - also when an earlier worker wrote the status.     *)
FailureIsSettled ==
  \A j \in Jobs :
    (record[j] = "failed" \/ job[j].pc \in {"report", "raised", "failed"})
      => Refunded(j) \/ j \in logged

(* A status done has its output in the bucket, and the job's cost is not   *)
(* returned as well: that takes a worker that dies after the refund and a  *)
(* second run that succeeds, or a status write whose answer is lost and,   *)
(* in the handler that then refunds, a second failure or arq's timeout.    *)
(* (While that handler runs, both are there.)                              *)
DoneIsDelivered ==
  \A j \in Jobs :
    record[j] = "done" =>
      /\ j \in stored
      /\ Refunded(j) => \/ crashes > 0 \/ faults > 1
                        \/ job[j].pc \in {"report", "cancelled", "dropped"}

(* A job gets back what a charge under its request's key took, from the    *)
(* same user: a resubmission is free work that can be refunded on its own, *)
(* never with more than was paid, and nothing comes back unpaid.           *)
RefundReturnsCharge ==
  \A j \in Jobs :
    Refunded(j) =>
      \E back, paid \in rows :
        /\ back.key = RefundKey(j)
        /\ paid.key = ChargeKey(job[j].req)
        /\ back.user = paid.user
        /\ back.delta = -paid.delta

(* What GET /tools/status/<id> and GET /tools/jobs show: a job without a   *)
(* record is a 404 and "expired".                                          *)
StatusShown(j) == IF record[j] = "none" THEN "expired" ELSE record[j]

(* Whoever polls a queued job learns its end, unless it ended without the  *)
(* handler (arq's timeout, or a first status write that failed) and stays  *)
(* as it was, or a write failed and arq alone knows that the job failed.   *)
EveryJobIsReported ==
  \A j \in Jobs :
    Queued(j) ~> \/ job[j].pc \in Ended /\ StatusShown(j) \in {"done", "failed"}
                 \/ job[j].pc = "dropped"
                 \/ job[j].pc = "failed" /\ faults > 0

=============================================================================
