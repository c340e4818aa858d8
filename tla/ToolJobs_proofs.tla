-------------------------- MODULE ToolJobs_proofs ---------------------------
(***************************************************************************)
(* Proofs about ToolJobs, for any requests, keys, costs, clients and jobs. *)
(*                                                                         *)
(* The invariant the properties follow from, IInv, says what the endpoint  *)
(* knows between its charge and its enqueue, and, as long as no worker     *)
(* died, where a job may be once its cost is back or its record is done.   *)
(***************************************************************************)
EXTENDS ToolJobs, Wallet_proofs

(* A handler past its charge has charged its request's key. *)
ClientCharged ==
  \A c \in Clients : client[c] # NoRequest => Charged(client[c])

(* A job about to publish has its output, and so has a published one. *)
PublishedIsStored ==
  \A j \in Jobs :
    job[j].pc = "publish" \/ record[j] = "done" => j \in stored

(* Without a death a job is refunded in its only run, which ends there. *)
RefundEndsRun ==
  \A j \in Jobs :
    Refunded(j) =>
      \/ crashes > 0
      \/ job[j].pc \in {"report", "raised", "cancelled", "failed", "dropped"}

(* Without a death a job is published at the end of its only run, unless   *)
(* the answer of that write is lost: then the handler follows, and leaves  *)
(* the record only if it fails as well.                                    *)
DoneEndsRun ==
  \A j \in Jobs :
    record[j] = "done" =>
      \/ crashes > 0
      \/ job[j].pc \in {"returned", "succeeded"}
      \/ faults > 0 /\ job[j].pc \in {"refund", "report", "cancelled", "dropped"}
      \/ faults > 1

IInv ==
  /\ TypeOK
  /\ ClientCharged
  /\ ChargeBuysJob
  /\ FailureIsSettled
  /\ PublishedIsStored
  /\ RefundEndsRun
  /\ DoneEndsRun

-----------------------------------------------------------------------------
(* Lemmas about the keys and the queue *)

(* The amounts that charges, refunds and top-ups post, and their keys. *)
LEMMA Postings ==
  /\ \A r \in Requests : /\ ChargeKey(r) \in Keys
                         /\ UserOf[r] \in Users
                         /\ -Cost[r] \in Deltas
                         /\ Cost[r] \in Deltas
  /\ \A j \in Jobs : RefundKey(j) \in Keys
  /\ \A u \in Users : PurchaseKey(u) \in Keys
  /\ PackPrice \in Deltas
  BY KeysAssumption, UserOfAssumption, AmountsAssumption

(* The keys of charges, refunds and top-ups are apart, as are those of two *)
(* refunds.                                                                *)
LEMMA KeysApart ==
  /\ \A r \in Requests, j \in Jobs : ChargeKey(r) # RefundKey(j)
  /\ \A r \in Requests, u \in Users : ChargeKey(r) # PurchaseKey(u)
  /\ \A j \in Jobs, u \in Users : RefundKey(j) # PurchaseKey(u)
  /\ \A i, j \in Jobs : RefundKey(i) = RefundKey(j) => i = j
  BY DEF ChargeKey, RefundKey, PurchaseKey

(* A step of a queued job moves that job and nothing else in the queue. *)
LEMMA GotoMoves ==
  ASSUME TypeOK, NEW j \in Jobs, NEW step \in JobSteps, Goto(j, step)
  PROVE  /\ job' \in [Jobs -> [pc : JobSteps, req : Requests]]
         /\ job'[j].pc = step
         /\ \A i \in Jobs : i # j => job'[i] = job[i]
         /\ \A i \in Jobs : job'[i].req = job[i].req
  BY DEF TypeOK, Goto

(* What the endpoint promises survives a step of a queued job that keeps   *)
(* the charges, the handlers and the lost requests.                        *)
LEMMA EndpointKept ==
  ASSUME IInv,
         NEW j \in Jobs, NEW step \in JobSteps \ {"unused"},
         job[j].pc # "unused", Goto(j, step),
         UNCHANGED <<client, lost>>,
         \A r \in Requests : Charged(r)' <=> Charged(r)
  PROVE  ClientCharged' /\ ChargeBuysJob'
<1>1. \A i \in Jobs : (Queued(i)' <=> Queued(i)) /\ job'[i].req = job[i].req
  BY GotoMoves DEF IInv, Queued
<1>2. \A i \in Jobs : job[i].req \in Requests
  BY DEF IInv, TypeOK
<1>3. ClientCharged'
  BY DEF IInv, ClientCharged, TypeOK
<1>4. (\A i \in Jobs : Queued(i) => Charged(job[i].req))'
  BY <1>1, <1>2 DEF IInv, ChargeBuysJob
<1>5. ASSUME NEW r \in Requests, Charged(r)'
      PROVE  (\/ \E i \in Jobs : Queued(i) /\ SameKey(job[i].req, r)
              \/ \E c \in Clients : client[c] # NoRequest /\ SameKey(client[c], r)
              \/ \E q \in lost : SameKey(q, r))'
  BY <1>1, <1>5 DEF IInv, ChargeBuysJob, SameKey
<1>. QED
  BY <1>3, <1>4, <1>5 DEF ChargeBuysJob

-----------------------------------------------------------------------------
(* Every action keeps IInv: the steps of run_tool that leave the wallet    *)
(* alone                                                                   *)

(* run_tool begins and has promised nothing. *)
LEMMA StartKeeps ==
  ASSUME IInv, NEW j \in Jobs, Start(j)
  PROVE  IInv'
<1>1. Goto(j, "call") /\ job[j].pc # "unused"
  BY DEF Start
<1>2. "call" \in JobSteps \ {"unused"}
  BY DEF JobSteps, Running, Over, Ended
<1>3. /\ job' \in [Jobs -> [pc : JobSteps, req : Requests]]
      /\ job'[j].pc = "call"
      /\ \A i \in Jobs : i # j => job'[i] = job[i]
  BY <1>1, <1>2, GotoMoves DEF IInv
<1>4. (\A i : HasKey(i)' <=> HasKey(i)) /\ WalletTypeOK'
  BY WalletKept DEF IInv, TypeOK, Start, walletVars
<1>5. TypeOK'
  BY <1>3, <1>4, BoundsAssumption DEF IInv, TypeOK, Start
<1>6. ClientCharged' /\ ChargeBuysJob'
  BY <1>1, <1>2, <1>4, EndpointKept DEF Start, Charged
<1>7. FailureIsSettled'
  BY <1>3, <1>4 DEF IInv, TypeOK, FailureIsSettled, Start, Refunded
<1>8. PublishedIsStored'
  BY <1>3 DEF IInv, TypeOK, PublishedIsStored, Start
<1>9. RefundEndsRun'
  BY <1>3, <1>4 DEF IInv, TypeOK, RefundEndsRun, Start, Refunded
<1>10. DoneEndsRun'
  BY <1>3, BoundsAssumption DEF IInv, TypeOK, DoneEndsRun, Start
<1>. QED
  BY <1>5, <1>6, <1>7, <1>8, <1>9, <1>10 DEF IInv

(* The write before the try fails: the job is over, and not yet failed. *)
LEMMA StartFailsKeeps ==
  ASSUME IInv, NEW j \in Jobs, StartFails(j)
  PROVE  IInv'
<1>1. Goto(j, "cancelled") /\ job[j].pc # "unused"
  BY DEF StartFails
<1>2. "cancelled" \in JobSteps \ {"unused"}
  BY DEF JobSteps, Running, Over, Ended
<1>3. /\ job' \in [Jobs -> [pc : JobSteps, req : Requests]]
      /\ job'[j].pc = "cancelled"
      /\ \A i \in Jobs : i # j => job'[i] = job[i]
  BY <1>1, <1>2, GotoMoves DEF IInv
<1>4. (\A i : HasKey(i)' <=> HasKey(i)) /\ WalletTypeOK'
  BY WalletKept DEF IInv, TypeOK, StartFails, walletVars
<1>5. TypeOK'
  BY <1>3, <1>4, BoundsAssumption DEF IInv, TypeOK, StartFails, Fault
<1>6. ClientCharged' /\ ChargeBuysJob'
  BY <1>1, <1>2, <1>4, EndpointKept DEF StartFails, Charged
<1>7. FailureIsSettled'
  BY <1>3, <1>4 DEF IInv, TypeOK, FailureIsSettled, StartFails, Refunded
<1>8. PublishedIsStored'
  BY <1>3 DEF IInv, TypeOK, PublishedIsStored, StartFails
<1>9. RefundEndsRun'
  BY <1>3, <1>4 DEF IInv, TypeOK, RefundEndsRun, StartFails, Refunded
<1>10. DoneEndsRun'
  BY <1>3, BoundsAssumption DEF IInv, TypeOK, DoneEndsRun, StartFails, Fault
<1>. QED
  BY <1>5, <1>6, <1>7, <1>8, <1>9, <1>10 DEF IInv

(* The provider answered; nothing is written. *)
LEMMA CallReturnsKeeps ==
  ASSUME IInv, NEW j \in Jobs, CallReturns(j)
  PROVE  IInv'
<1>1. Goto(j, "upload") /\ job[j].pc # "unused"
  BY DEF CallReturns
<1>2. "upload" \in JobSteps \ {"unused"}
  BY DEF JobSteps, Running, Over, Ended
<1>3. /\ job' \in [Jobs -> [pc : JobSteps, req : Requests]]
      /\ job'[j].pc = "upload"
      /\ \A i \in Jobs : i # j => job'[i] = job[i]
  BY <1>1, <1>2, GotoMoves DEF IInv
<1>4. (\A i : HasKey(i)' <=> HasKey(i)) /\ WalletTypeOK'
  BY WalletKept DEF IInv, TypeOK, CallReturns, walletVars
<1>5. TypeOK'
  BY <1>3, <1>4, BoundsAssumption DEF IInv, TypeOK, CallReturns
<1>6. ClientCharged' /\ ChargeBuysJob'
  BY <1>1, <1>2, <1>4, EndpointKept DEF CallReturns, Charged
<1>7. FailureIsSettled'
  BY <1>3, <1>4 DEF IInv, TypeOK, FailureIsSettled, CallReturns, Refunded
<1>8. PublishedIsStored'
  BY <1>3 DEF IInv, TypeOK, PublishedIsStored, CallReturns
<1>9. RefundEndsRun'
  BY <1>3, <1>4 DEF IInv, TypeOK, RefundEndsRun, CallReturns, Refunded
<1>10. DoneEndsRun'
  BY <1>3, BoundsAssumption DEF IInv, TypeOK, DoneEndsRun, CallReturns
<1>. QED
  BY <1>5, <1>6, <1>7, <1>8, <1>9, <1>10 DEF IInv

(* The provider raised; the handler will refund. *)
LEMMA CallRaisesKeeps ==
  ASSUME IInv, NEW j \in Jobs, CallRaises(j)
  PROVE  IInv'
<1>1. Goto(j, "refund") /\ job[j].pc # "unused"
  BY DEF CallRaises
<1>2. "refund" \in JobSteps \ {"unused"}
  BY DEF JobSteps, Running, Over, Ended
<1>3. /\ job' \in [Jobs -> [pc : JobSteps, req : Requests]]
      /\ job'[j].pc = "refund"
      /\ \A i \in Jobs : i # j => job'[i] = job[i]
  BY <1>1, <1>2, GotoMoves DEF IInv
<1>4. (\A i : HasKey(i)' <=> HasKey(i)) /\ WalletTypeOK'
  BY WalletKept DEF IInv, TypeOK, CallRaises, walletVars
<1>5. TypeOK'
  BY <1>3, <1>4, BoundsAssumption DEF IInv, TypeOK, CallRaises
<1>6. ClientCharged' /\ ChargeBuysJob'
  BY <1>1, <1>2, <1>4, EndpointKept DEF CallRaises, Charged
<1>7. FailureIsSettled'
  BY <1>3, <1>4 DEF IInv, TypeOK, FailureIsSettled, CallRaises, Refunded
<1>8. PublishedIsStored'
  BY <1>3 DEF IInv, TypeOK, PublishedIsStored, CallRaises
<1>9. RefundEndsRun'
  BY <1>3, <1>4 DEF IInv, TypeOK, RefundEndsRun, CallRaises, Refunded
<1>10. DoneEndsRun'
  BY <1>3, BoundsAssumption DEF IInv, TypeOK, DoneEndsRun, CallRaises
<1>. QED
  BY <1>5, <1>6, <1>7, <1>8, <1>9, <1>10 DEF IInv

(* The output is stored before any record says so. *)
LEMMA UploadKeeps ==
  ASSUME IInv, NEW j \in Jobs, Upload(j)
  PROVE  IInv'
<1>1. Goto(j, "publish") /\ job[j].pc # "unused"
  BY DEF Upload
<1>2. "publish" \in JobSteps \ {"unused"}
  BY DEF JobSteps, Running, Over, Ended
<1>3. /\ job' \in [Jobs -> [pc : JobSteps, req : Requests]]
      /\ job'[j].pc = "publish"
      /\ \A i \in Jobs : i # j => job'[i] = job[i]
  BY <1>1, <1>2, GotoMoves DEF IInv
<1>4. (\A i : HasKey(i)' <=> HasKey(i)) /\ WalletTypeOK'
  BY WalletKept DEF IInv, TypeOK, Upload, walletVars
<1>5. TypeOK'
  BY <1>3, <1>4, BoundsAssumption DEF IInv, TypeOK, Upload
<1>6. ClientCharged' /\ ChargeBuysJob'
  BY <1>1, <1>2, <1>4, EndpointKept DEF Upload, Charged
<1>7. FailureIsSettled'
  BY <1>3, <1>4 DEF IInv, TypeOK, FailureIsSettled, Upload, Refunded
<1>8. PublishedIsStored'
  BY <1>3 DEF IInv, TypeOK, PublishedIsStored, Upload
<1>9. RefundEndsRun'
  BY <1>3, <1>4 DEF IInv, TypeOK, RefundEndsRun, Upload, Refunded
<1>10. DoneEndsRun'
  BY <1>3, BoundsAssumption DEF IInv, TypeOK, DoneEndsRun, Upload
<1>. QED
  BY <1>5, <1>6, <1>7, <1>8, <1>9, <1>10 DEF IInv

(* Only a job with a stored output is shown as done. *)
LEMMA PublishKeeps ==
  ASSUME IInv, NEW j \in Jobs, Publish(j)
  PROVE  IInv'
<1>1. Goto(j, "returned") /\ job[j].pc # "unused"
  BY DEF Publish
<1>2. "returned" \in JobSteps \ {"unused"}
  BY DEF JobSteps, Running, Over, Ended
<1>3. /\ job' \in [Jobs -> [pc : JobSteps, req : Requests]]
      /\ job'[j].pc = "returned"
      /\ \A i \in Jobs : i # j => job'[i] = job[i]
  BY <1>1, <1>2, GotoMoves DEF IInv
<1>4. (\A i : HasKey(i)' <=> HasKey(i)) /\ WalletTypeOK'
  BY WalletKept DEF IInv, TypeOK, Publish, walletVars
<1>5. TypeOK'
  BY <1>3, <1>4, BoundsAssumption DEF IInv, TypeOK, Publish
<1>6. ClientCharged' /\ ChargeBuysJob'
  BY <1>1, <1>2, <1>4, EndpointKept DEF Publish, Charged
<1>7. FailureIsSettled'
  BY <1>3, <1>4 DEF IInv, TypeOK, FailureIsSettled, Publish, Refunded
<1>8. PublishedIsStored'
  BY <1>3 DEF IInv, TypeOK, PublishedIsStored, Publish
<1>9. RefundEndsRun'
  BY <1>3, <1>4 DEF IInv, TypeOK, RefundEndsRun, Publish, Refunded
<1>10. DoneEndsRun'
  BY <1>3, BoundsAssumption DEF IInv, TypeOK, DoneEndsRun, Publish
<1>. QED
  BY <1>5, <1>6, <1>7, <1>8, <1>9, <1>10 DEF IInv

(* Written or not, the record is followed by a refund, after a fault. *)
LEMMA PublishFailsKeeps ==
  ASSUME IInv, NEW j \in Jobs, PublishFails(j)
  PROVE  IInv'
<1>1. Goto(j, "refund") /\ job[j].pc # "unused"
  BY DEF PublishFails
<1>2. "refund" \in JobSteps \ {"unused"}
  BY DEF JobSteps, Running, Over, Ended
<1>3. /\ job' \in [Jobs -> [pc : JobSteps, req : Requests]]
      /\ job'[j].pc = "refund"
      /\ \A i \in Jobs : i # j => job'[i] = job[i]
  BY <1>1, <1>2, GotoMoves DEF IInv
<1>4. (\A i : HasKey(i)' <=> HasKey(i)) /\ WalletTypeOK'
  BY WalletKept DEF IInv, TypeOK, PublishFails, walletVars
<1>5. TypeOK'
  BY <1>3, <1>4, BoundsAssumption DEF IInv, TypeOK, PublishFails, Fault
<1>6. ClientCharged' /\ ChargeBuysJob'
  BY <1>1, <1>2, <1>4, EndpointKept DEF PublishFails, Charged
<1>7. FailureIsSettled'
  BY <1>3, <1>4 DEF IInv, TypeOK, FailureIsSettled, PublishFails, Refunded
<1>8. PublishedIsStored'
  BY <1>3 DEF IInv, TypeOK, PublishedIsStored, PublishFails
<1>9. RefundEndsRun'
  BY <1>3, <1>4 DEF IInv, TypeOK, RefundEndsRun, PublishFails, Refunded
<1>10. DoneEndsRun'
  BY <1>3, BoundsAssumption DEF IInv, TypeOK, DoneEndsRun, PublishFails, Fault
<1>. QED
  BY <1>5, <1>6, <1>7, <1>8, <1>9, <1>10 DEF IInv

(* A refund that fails is logged. *)
LEMMA RefundFailsKeeps ==
  ASSUME IInv, NEW j \in Jobs, RefundFails(j)
  PROVE  IInv'
<1>1. Goto(j, "report") /\ job[j].pc # "unused"
  BY DEF RefundFails
<1>2. "report" \in JobSteps \ {"unused"}
  BY DEF JobSteps, Running, Over, Ended
<1>3. /\ job' \in [Jobs -> [pc : JobSteps, req : Requests]]
      /\ job'[j].pc = "report"
      /\ \A i \in Jobs : i # j => job'[i] = job[i]
  BY <1>1, <1>2, GotoMoves DEF IInv
<1>4. (\A i : HasKey(i)' <=> HasKey(i)) /\ WalletTypeOK'
  BY WalletKept DEF IInv, TypeOK, RefundFails, walletVars
<1>5. TypeOK'
  BY <1>3, <1>4, BoundsAssumption DEF IInv, TypeOK, RefundFails, Fault
<1>6. ClientCharged' /\ ChargeBuysJob'
  BY <1>1, <1>2, <1>4, EndpointKept DEF RefundFails, Charged
<1>7. FailureIsSettled'
  BY <1>3, <1>4 DEF IInv, TypeOK, FailureIsSettled, RefundFails, Refunded
<1>8. PublishedIsStored'
  BY <1>3 DEF IInv, TypeOK, PublishedIsStored, RefundFails
<1>9. RefundEndsRun'
  BY <1>3, <1>4 DEF IInv, TypeOK, RefundEndsRun, RefundFails, Refunded
<1>10. DoneEndsRun'
  BY <1>3, BoundsAssumption DEF IInv, TypeOK, DoneEndsRun, RefundFails, Fault
<1>. QED
  BY <1>5, <1>6, <1>7, <1>8, <1>9, <1>10 DEF IInv

(* A job is shown as failed after its refund or its log entry. *)
LEMMA ReportKeeps ==
  ASSUME IInv, NEW j \in Jobs, Report(j)
  PROVE  IInv'
<1>1. Goto(j, "raised") /\ job[j].pc # "unused"
  BY DEF Report
<1>2. "raised" \in JobSteps \ {"unused"}
  BY DEF JobSteps, Running, Over, Ended
<1>3. /\ job' \in [Jobs -> [pc : JobSteps, req : Requests]]
      /\ job'[j].pc = "raised"
      /\ \A i \in Jobs : i # j => job'[i] = job[i]
  BY <1>1, <1>2, GotoMoves DEF IInv
<1>4. (\A i : HasKey(i)' <=> HasKey(i)) /\ WalletTypeOK'
  BY WalletKept DEF IInv, TypeOK, Report, walletVars
<1>5. TypeOK'
  BY <1>3, <1>4, BoundsAssumption DEF IInv, TypeOK, Report
<1>6. ClientCharged' /\ ChargeBuysJob'
  BY <1>1, <1>2, <1>4, EndpointKept DEF Report, Charged
<1>7. FailureIsSettled'
  BY <1>3, <1>4 DEF IInv, TypeOK, FailureIsSettled, Report, Refunded
<1>8. PublishedIsStored'
  BY <1>3 DEF IInv, TypeOK, PublishedIsStored, Report
<1>9. RefundEndsRun'
  BY <1>3, <1>4 DEF IInv, TypeOK, RefundEndsRun, Report, Refunded
<1>10. DoneEndsRun'
  BY <1>3, BoundsAssumption DEF IInv, TypeOK, DoneEndsRun, Report
<1>. QED
  BY <1>5, <1>6, <1>7, <1>8, <1>9, <1>10 DEF IInv

(* A failure that is not shown needs no settlement. *)
LEMMA ReportFailsKeeps ==
  ASSUME IInv, NEW j \in Jobs, ReportFails(j)
  PROVE  IInv'
<1>1. Goto(j, "raised") /\ job[j].pc # "unused"
  BY DEF ReportFails
<1>2. "raised" \in JobSteps \ {"unused"}
  BY DEF JobSteps, Running, Over, Ended
<1>3. /\ job' \in [Jobs -> [pc : JobSteps, req : Requests]]
      /\ job'[j].pc = "raised"
      /\ \A i \in Jobs : i # j => job'[i] = job[i]
  BY <1>1, <1>2, GotoMoves DEF IInv
<1>4. (\A i : HasKey(i)' <=> HasKey(i)) /\ WalletTypeOK'
  BY WalletKept DEF IInv, TypeOK, ReportFails, walletVars
<1>5. TypeOK'
  BY <1>3, <1>4, BoundsAssumption DEF IInv, TypeOK, ReportFails, Fault
<1>6. ClientCharged' /\ ChargeBuysJob'
  BY <1>1, <1>2, <1>4, EndpointKept DEF ReportFails, Charged
<1>7. FailureIsSettled'
  BY <1>3, <1>4 DEF IInv, TypeOK, FailureIsSettled, ReportFails, Refunded
<1>8. PublishedIsStored'
  BY <1>3 DEF IInv, TypeOK, PublishedIsStored, ReportFails
<1>9. RefundEndsRun'
  BY <1>3, <1>4 DEF IInv, TypeOK, RefundEndsRun, ReportFails, Refunded
<1>10. DoneEndsRun'
  BY <1>3, BoundsAssumption DEF IInv, TypeOK, DoneEndsRun, ReportFails, Fault
<1>. QED
  BY <1>5, <1>6, <1>7, <1>8, <1>9, <1>10 DEF IInv

(* job_timeout ends a job without its handler. *)
LEMMA CancelKeeps ==
  ASSUME IInv, NEW j \in Jobs, Cancel(j)
  PROVE  IInv'
<1>1. Goto(j, "cancelled") /\ job[j].pc # "unused"
  BY DEF Cancel, Running
<1>2. "cancelled" \in JobSteps \ {"unused"}
  BY DEF JobSteps, Running, Over, Ended
<1>3. /\ job' \in [Jobs -> [pc : JobSteps, req : Requests]]
      /\ job'[j].pc = "cancelled"
      /\ \A i \in Jobs : i # j => job'[i] = job[i]
  BY <1>1, <1>2, GotoMoves DEF IInv
<1>4. (\A i : HasKey(i)' <=> HasKey(i)) /\ WalletTypeOK'
  BY WalletKept DEF IInv, TypeOK, Cancel, walletVars
<1>5. TypeOK'
  BY <1>3, <1>4, BoundsAssumption DEF IInv, TypeOK, Cancel
<1>6. ClientCharged' /\ ChargeBuysJob'
  BY <1>1, <1>2, <1>4, EndpointKept DEF Cancel, Charged
<1>7. FailureIsSettled'
  BY <1>3, <1>4 DEF IInv, TypeOK, FailureIsSettled, Cancel, Refunded, Running
<1>8. PublishedIsStored'
  BY <1>3 DEF IInv, TypeOK, PublishedIsStored, Cancel, Running
<1>9. RefundEndsRun'
  BY <1>3, <1>4 DEF IInv, TypeOK, RefundEndsRun, Cancel, Refunded, Running
<1>10. DoneEndsRun'
  BY <1>3, BoundsAssumption DEF IInv, TypeOK, DoneEndsRun, Cancel, Running
<1>. QED
  BY <1>5, <1>6, <1>7, <1>8, <1>9, <1>10 DEF IInv

-----------------------------------------------------------------------------
(* The refund, the end of a job, the death of a worker *)

(* The refund takes its own key, once per job. *)
LEMMA RefundKeeps ==
  ASSUME IInv, NEW j \in Jobs, Refund(j)
  PROVE  IInv'
<1>1. Goto(j, "report") /\ job[j].pc = "refund"
  BY DEF Refund
<1>2. "report" \in JobSteps \ {"unused"}
  BY DEF JobSteps, Running, Over, Ended
<1>3. /\ job' \in [Jobs -> [pc : JobSteps, req : Requests]]
      /\ job'[j].pc = "report"
      /\ \A i \in Jobs : i # j => job'[i] = job[i]
  BY <1>1, <1>2, GotoMoves DEF IInv
<1>4. job[j].req \in Requests
  BY DEF IInv, TypeOK
<1>5. PostOnce(RefundKey(j), UserOf[job[j].req], Cost[job[j].req])
  BY DEF Refund
<1>6. /\ WalletTypeOK'
      /\ HasKey(RefundKey(j))'
      /\ \A i : HasKey(i) => HasKey(i)'
      /\ \A i : HasKey(i)' => HasKey(i) \/ i = RefundKey(j)
  <2>1. /\ RefundKey(j) \in Keys
        /\ UserOf[job[j].req] \in Users
        /\ Cost[job[j].req] \in Deltas
        /\ WalletTypeOK
    BY <1>4, Postings DEF IInv, TypeOK
  <2>. QED
    BY <1>5, <2>1, PostOnceTakesKey
<1>7. TypeOK'
  BY <1>3, <1>6 DEF IInv, TypeOK, Refund
<1>8. ClientCharged' /\ ChargeBuysJob'
  <2>1. \A r \in Requests : Charged(r)' <=> Charged(r)
    BY <1>6, KeysApart DEF Charged
  <2>. QED
    BY <1>1, <1>2, <2>1, EndpointKept DEF Refund
<1>9. FailureIsSettled'
  BY <1>3, <1>6 DEF IInv, TypeOK, FailureIsSettled, Refund, Refunded
<1>10. PublishedIsStored'
  BY <1>3 DEF IInv, TypeOK, PublishedIsStored, Refund
<1>11. RefundEndsRun'
  BY <1>3, <1>6, KeysApart DEF IInv, TypeOK, RefundEndsRun, Refund, Refunded
<1>12. DoneEndsRun'
  BY <1>3 DEF IInv, TypeOK, DoneEndsRun, Refund
<1>. QED
  BY <1>7, <1>8, <1>9, <1>10, <1>11, <1>12 DEF IInv

(* arq notes the end of a job. *)
LEMMA NoteEndKeeps ==
  ASSUME IInv, NEW j \in Jobs, NoteEnd(j)
  PROVE  IInv'
<1>. DEFINE end == EndOf[job[j].pc]
<1>1. Goto(j, end) /\ job[j].pc \in Over
  BY DEF NoteEnd
<1>2. /\ job[j].pc = "returned" => end = "succeeded"
      /\ job[j].pc = "raised" => end = "failed"
      /\ job[j].pc = "cancelled" => end = "dropped"
  BY DEF EndOf
<1>3. end \in JobSteps \ {"unused"} /\ job[j].pc # "unused"
  BY <1>1, <1>2 DEF Over, JobSteps, Ended
<1>. HIDE DEF end
<1>4. /\ job' \in [Jobs -> [pc : JobSteps, req : Requests]]
      /\ job'[j].pc = end
      /\ \A i \in Jobs : i # j => job'[i] = job[i]
  BY <1>1, <1>3, GotoMoves DEF IInv
<1>5. (\A i : HasKey(i)' <=> HasKey(i)) /\ WalletTypeOK'
  BY WalletKept DEF IInv, TypeOK, NoteEnd, walletVars
<1>6. TypeOK'
  BY <1>4, <1>5 DEF IInv, TypeOK, NoteEnd
<1>7. ClientCharged' /\ ChargeBuysJob'
  BY <1>1, <1>3, <1>5, EndpointKept DEF NoteEnd, Charged
<1>8. FailureIsSettled'
  BY <1>1, <1>2, <1>4, <1>5
     DEF IInv, TypeOK, FailureIsSettled, NoteEnd, Refunded, Over
<1>9. PublishedIsStored'
  BY <1>1, <1>2, <1>4 DEF IInv, TypeOK, PublishedIsStored, NoteEnd, Over
<1>10. RefundEndsRun'
  BY <1>1, <1>2, <1>4, <1>5
     DEF IInv, TypeOK, RefundEndsRun, NoteEnd, Refunded, Over
<1>11. DoneEndsRun'
  BY <1>1, <1>2, <1>4 DEF IInv, TypeOK, DoneEndsRun, NoteEnd, Over
<1>. QED
  BY <1>6, <1>7, <1>8, <1>9, <1>10, <1>11 DEF IInv

(* Jobs wait again, with their outputs, and the death is counted. *)
LEMMA WorkerDiesKeeps ==
  ASSUME IInv, WorkerDies
  PROVE  IInv'
<1>1. "waiting" \in JobSteps
  BY DEF JobSteps
<1>2. \A i \in Jobs :
        job'[i] = IF job[i].pc \in Running \cup Over
                    THEN [job[i] EXCEPT !.pc = "waiting"] ELSE job[i]
  BY DEF WorkerDies
<1>3. \A i \in Jobs : job[i] \in [pc : JobSteps, req : Requests]
  BY DEF IInv, TypeOK
<1>4. \A i \in Jobs :
        /\ job'[i].req = job[i].req
        /\ job'[i].pc \in {job[i].pc, "waiting"}
        /\ Queued(i)' <=> Queued(i)
  BY <1>2, <1>3 DEF Queued, Running, Over
<1>5. job' \in [Jobs -> [pc : JobSteps, req : Requests]]
  BY <1>1, <1>3 DEF WorkerDies
<1>6. (\A i : HasKey(i)' <=> HasKey(i)) /\ WalletTypeOK'
  BY WalletKept DEF IInv, TypeOK, WorkerDies, walletVars
<1>7. crashes' \in 0 .. MaxCrashes /\ crashes' > 0
  BY BoundsAssumption DEF IInv, TypeOK, WorkerDies
<1>8. TypeOK'
  BY <1>5, <1>6, <1>7 DEF IInv, TypeOK, WorkerDies
<1>9. ClientCharged'
  BY <1>6 DEF IInv, ClientCharged, WorkerDies, Charged
<1>10. ChargeBuysJob'
  <2>1. (\A i \in Jobs : Queued(i) => Charged(job[i].req))'
    BY <1>4, <1>6 DEF IInv, ChargeBuysJob, Charged
  <2>2. ASSUME NEW r \in Requests, Charged(r)'
        PROVE  (\/ \E i \in Jobs : Queued(i) /\ SameKey(job[i].req, r)
                \/ \E c \in Clients : client[c] # NoRequest /\ SameKey(client[c], r)
                \/ \E q \in lost : SameKey(q, r))'
    BY <1>4, <1>6, <2>2 DEF IInv, ChargeBuysJob, SameKey, WorkerDies, Charged
  <2>. QED
    BY <2>1, <2>2 DEF ChargeBuysJob
<1>11. FailureIsSettled'
  BY <1>4, <1>6 DEF IInv, FailureIsSettled, WorkerDies, Refunded
<1>12. PublishedIsStored'
  BY <1>4 DEF IInv, PublishedIsStored, WorkerDies
<1>13. RefundEndsRun' /\ DoneEndsRun'
  BY <1>7 DEF RefundEndsRun, DoneEndsRun
<1>. QED
  BY <1>8, <1>9, <1>10, <1>11, <1>12, <1>13 DEF IInv

-----------------------------------------------------------------------------
(* The endpoint and the top-up *)

(* What is said of jobs alone survives a step that posts no refund and     *)
(* keeps jobs, records, outputs and the log.                               *)
LEMMA JobsKept ==
  ASSUME IInv,
         UNCHANGED <<job, record, stored, logged, crashes, faults>>,
         \A j \in Jobs : Refunded(j)' <=> Refunded(j)
  PROVE  FailureIsSettled' /\ PublishedIsStored' /\ RefundEndsRun' /\ DoneEndsRun'
<1>1. FailureIsSettled'
  BY DEF IInv, FailureIsSettled
<1>2. PublishedIsStored'
  BY DEF IInv, PublishedIsStored
<1>3. RefundEndsRun'
  BY DEF IInv, RefundEndsRun
<1>4. DoneEndsRun'
  BY DEF IInv, DoneEndsRun
<1>. QED
  BY <1>1, <1>2, <1>3, <1>4

(* A purchase touches no request and no job. *)
LEMMA TopUpKeeps ==
  ASSUME IInv, NEW u \in Users, TopUp(u)
  PROVE  IInv'
<1>1. PostOnce(PurchaseKey(u), u, PackPrice)
  BY DEF TopUp, PostOnce, Post
<1>2. PurchaseKey(u) \in Keys /\ PackPrice \in Deltas /\ WalletTypeOK
  BY Postings DEF IInv, TypeOK
<1>3. /\ WalletTypeOK'
      /\ \A i : HasKey(i) => HasKey(i)'
      /\ \A i : HasKey(i)' => HasKey(i) \/ i = PurchaseKey(u)
  BY <1>1, <1>2, PostOnceTakesKey
<1>4. UNCHANGED jobVars
  BY DEF TopUp
<1>5. \A r \in Requests : Charged(r)' <=> Charged(r)
  BY <1>3, KeysApart DEF Charged
<1>6. \A j \in Jobs : Refunded(j)' <=> Refunded(j)
  BY <1>3, KeysApart DEF Refunded
<1>7. TypeOK'
  BY <1>3, <1>4 DEF IInv, TypeOK, jobVars
<1>8. ClientCharged'
  BY <1>4, <1>5 DEF IInv, TypeOK, ClientCharged, jobVars
<1>9. ChargeBuysJob'
  BY <1>4, <1>5 DEF IInv, TypeOK, ChargeBuysJob, Queued, SameKey, jobVars
<1>10. FailureIsSettled' /\ PublishedIsStored' /\ RefundEndsRun' /\ DoneEndsRun'
  BY <1>4, <1>6, JobsKept DEF jobVars
<1>. QED
  BY <1>7, <1>8, <1>9, <1>10 DEF IInv

(* The handler is past its charge with the charge in the ledger. *)
LEMMA ChargeKeeps ==
  ASSUME IInv, NEW c \in Clients, Charge(c)
  PROVE  IInv'
<1>. PICK r \in Requests :
       /\ PostOnce(ChargeKey(r), UserOf[r], -Cost[r])
       /\ client' = [client EXCEPT ![c] = r]
  BY DEF Charge
<1>1. ChargeKey(r) \in Keys /\ UserOf[r] \in Users /\ -Cost[r] \in Deltas
  BY Postings
<1>2. WalletTypeOK
  BY DEF IInv, TypeOK
<1>3. /\ WalletTypeOK'
      /\ HasKey(ChargeKey(r))'
      /\ \A i : HasKey(i) => HasKey(i)'
      /\ \A i : HasKey(i)' => HasKey(i) \/ i = ChargeKey(r)
  BY <1>1, <1>2, PostOnceTakesKey
<1>4. UNCHANGED <<job, record, stored, logged, lost, crashes, faults>>
  BY DEF Charge
<1>5. client \in [Clients -> Requests \cup {NoRequest}] /\ client[c] = NoRequest
  BY DEF IInv, TypeOK, Charge
<1>6. client' \in [Clients -> Requests \cup {NoRequest}]
  BY <1>5
<1>7. client'[c] = r /\ \A d \in Clients : d # c => client'[d] = client[d]
  BY <1>5
<1>8. TypeOK'
  BY <1>3, <1>4, <1>6 DEF IInv, TypeOK
<1>9. ClientCharged'
  BY <1>3, <1>7 DEF IInv, ClientCharged, Charged
<1>10. ChargeBuysJob'
  <2>1. (\A j \in Jobs : Queued(j) => Charged(job[j].req))'
    BY <1>3, <1>4 DEF IInv, ChargeBuysJob, Queued, Charged
  <2>2. ASSUME NEW q \in Requests, Charged(q)'
        PROVE  (\/ \E j \in Jobs : Queued(j) /\ SameKey(job[j].req, q)
                \/ \E d \in Clients : client[d] # NoRequest /\ SameKey(client[d], q)
                \/ \E p \in lost : SameKey(p, q))'
    <3>1. CASE Charged(q)
      <4>1. CASE \E d \in Clients : client[d] # NoRequest /\ SameKey(client[d], q)
        BY <1>5, <1>7, <4>1 DEF SameKey
      <4>2. CASE \E j \in Jobs : Queued(j) /\ SameKey(job[j].req, q)
        BY <1>4, <4>2 DEF Queued, SameKey
      <4>3. CASE \E p \in lost : SameKey(p, q)
        BY <1>4, <4>3 DEF SameKey
      <4>. QED
        BY <3>1, <4>1, <4>2, <4>3 DEF IInv, ChargeBuysJob
    <3>2. CASE ~ Charged(q)
      <4>1. ChargeKey(q) = ChargeKey(r)
        BY <1>3, <2>2, <3>2 DEF Charged
      <4>2. SameKey(r, q)
        BY <4>1 DEF ChargeKey, SameKey
      <4>3. r # NoRequest
        BY RequestsAssumption
      <4>. QED
        BY <1>7, <4>2, <4>3 DEF SameKey
    <3>. QED
      BY <3>1, <3>2
  <2>. QED
    BY <2>1, <2>2 DEF ChargeBuysJob
<1>11. \A j \in Jobs : Refunded(j)' <=> Refunded(j)
  BY <1>3, KeysApart DEF Refunded
<1>12. FailureIsSettled' /\ PublishedIsStored' /\ RefundEndsRun' /\ DoneEndsRun'
  BY <1>4, <1>11, JobsKept
<1>. QED
  BY <1>8, <1>9, <1>10, <1>12 DEF IInv

(* Queue gives an unused id to a request and leaves the other jobs alone. *)
LEMMA QueueAddsJob ==
  ASSUME TypeOK, HasFreshJob, NEW r \in Requests, Queue(r)
  PROVE  /\ FreshJob \in Jobs /\ job[FreshJob].pc = "unused"
         /\ job' \in [Jobs -> [pc : JobSteps, req : Requests]]
         /\ job'[FreshJob].pc = "waiting" /\ job'[FreshJob].req = r
         /\ \A i \in Jobs : i # FreshJob => job'[i] = job[i]
<1>1. FreshJob \in Jobs /\ job[FreshJob].pc = "unused"
  BY DEF HasFreshJob, FreshJob
<1>2. "waiting" \in JobSteps
  BY DEF JobSteps
<1>3. job' = [job EXCEPT ![FreshJob] = [pc |-> "waiting", req |-> r]]
  BY DEF Queue
<1>. QED
  BY <1>1, <1>2, <1>3 DEF TypeOK

(* A handler that leaves for good, its job queued, lost or both. *)
LEMMA HandOver ==
  ASSUME IInv, NEW c \in Clients, client[c] # NoRequest,
         UNCHANGED job \/ (HasFreshJob /\ Queue(client[c])),
         UNCHANGED job => client[c] \in lost',
         lost \subseteq lost' /\ lost' \subseteq Requests,
         client' = [client EXCEPT ![c] = NoRequest],
         faults' \in 0 .. MaxFaults /\ faults' >= faults,
         UNCHANGED <<rows, balance, record, stored, logged, crashes>>
  PROVE  IInv'
<1>. DEFINE r == client[c]
<1>1. r \in Requests /\ client \in [Clients -> Requests \cup {NoRequest}]
  BY DEF IInv, TypeOK
<1>2. /\ client'[c] = NoRequest
      /\ \A d \in Clients : d # c => client'[d] = client[d]
      /\ client' \in [Clients -> Requests \cup {NoRequest}]
  BY <1>1
<1>. HIDE DEF r
<1>3. (\A i : HasKey(i)' <=> HasKey(i)) /\ WalletTypeOK'
  BY WalletKept DEF IInv, TypeOK, walletVars
<1>4. /\ job' \in [Jobs -> [pc : JobSteps, req : Requests]]
      /\ \A i \in Jobs :
           \/ job'[i] = job[i]
           \/ job[i].pc = "unused" /\ job'[i].pc = "waiting" /\ job'[i].req = r
      /\ r \in lost' \/ \E i \in Jobs : job'[i].pc = "waiting" /\ job'[i].req = r
  <2>1. CASE UNCHANGED job
    BY <2>1 DEF IInv, TypeOK, r
  <2>2. CASE HasFreshJob /\ Queue(r)
    BY <1>1, <2>2, QueueAddsJob DEF IInv
  <2>. QED
    BY <2>1, <2>2 DEF r
<1>5. TypeOK'
  BY <1>2, <1>3, <1>4 DEF IInv, TypeOK
<1>6. ClientCharged'
  BY <1>2, <1>3 DEF IInv, ClientCharged, Charged
<1>7. ChargeBuysJob'
  <2>1. Charged(r)
    BY DEF IInv, ClientCharged, r
  <2>2. (\A i \in Jobs : Queued(i) => Charged(job[i].req))'
    BY <1>3, <1>4, <2>1 DEF IInv, ChargeBuysJob, Queued, Charged
  <2>3. ASSUME NEW q \in Requests, Charged(q)'
        PROVE  (\/ \E i \in Jobs : Queued(i) /\ SameKey(job[i].req, q)
                \/ \E d \in Clients : client[d] # NoRequest /\ SameKey(client[d], q)
                \/ \E p \in lost : SameKey(p, q))'
    <3>1. Charged(q)
      BY <1>3, <2>3 DEF Charged
    <3>2. CASE \E i \in Jobs : Queued(i) /\ SameKey(job[i].req, q)
      BY <1>4, <3>2 DEF Queued
    <3>3. CASE \E d \in Clients : client[d] # NoRequest /\ SameKey(client[d], q)
      <4>. PICK d \in Clients : client[d] # NoRequest /\ SameKey(client[d], q)
        BY <3>3
      <4>1. CASE d # c
        BY <1>2, <4>1
      <4>2. CASE d = c
        BY <1>4, <4>2 DEF Queued, r
      <4>. QED
        BY <4>1, <4>2
    <3>4. CASE \E p \in lost : SameKey(p, q)
      BY <3>4
    <3>. QED
      BY <3>1, <3>2, <3>3, <3>4 DEF IInv, ChargeBuysJob
  <2>. QED
    BY <2>2, <2>3 DEF ChargeBuysJob
<1>8. FailureIsSettled'
  BY <1>3, <1>4 DEF IInv, FailureIsSettled, Refunded
<1>9. PublishedIsStored'
  BY <1>4 DEF IInv, PublishedIsStored
<1>10. RefundEndsRun'
  BY <1>3, <1>4 DEF IInv, RefundEndsRun, Refunded
<1>11. DoneEndsRun'
  BY <1>4, BoundsAssumption DEF IInv, TypeOK, DoneEndsRun
<1>. QED
  BY <1>5, <1>6, <1>7, <1>8, <1>9, <1>10, <1>11 DEF IInv

(* The charged request gets its job. *)
LEMMA EnqueueKeeps ==
  ASSUME IInv, NEW c \in Clients, Enqueue(c)
  PROVE  IInv'
<1>1. client[c] \in Requests
  BY DEF IInv, TypeOK, Enqueue
<1>2. ~ UNCHANGED job
  BY <1>1, QueueAddsJob DEF IInv, Enqueue
<1>3. /\ faults' \in 0 .. MaxFaults /\ faults' >= faults
      /\ lost \subseteq lost' /\ lost' \subseteq Requests
  BY BoundsAssumption DEF IInv, TypeOK, Enqueue
<1>. QED
  BY <1>2, <1>3, HandOver DEF Enqueue

(* The charged request may have no job, which is remembered. *)
LEMMA EnqueueFailsKeeps ==
  ASSUME IInv, NEW c \in Clients, EnqueueFails(c)
  PROVE  IInv'
<1>1. client[c] \in Requests
  BY DEF IInv, TypeOK, EnqueueFails
<1>2. faults' \in 0 .. MaxFaults /\ faults' >= faults
  BY BoundsAssumption DEF IInv, TypeOK, EnqueueFails, Fault
<1>3. lost \subseteq lost' /\ lost' \subseteq Requests /\ client[c] \in lost'
  BY <1>1 DEF IInv, TypeOK, EnqueueFails
<1>. QED
  BY <1>2, <1>3, HandOver DEF EnqueueFails

-----------------------------------------------------------------------------

(* The invariant holds initially. *)
LEMMA InitEstablishes == Init => IInv
<1>. SUFFICES ASSUME Init PROVE IInv
  OBVIOUS
<1>1. \A i : ~ HasKey(i)
  BY DEF Init, WalletInit, HasKey
<1>2. AnyRequest \in Requests
  BY RequestsAssumption DEF AnyRequest
<1>3. TypeOK
  BY <1>2, BoundsAssumption
     DEF Init, WalletInit, TypeOK, WalletTypeOK, JobSteps
<1>4. ClientCharged /\ ChargeBuysJob
  BY <1>1 DEF Init, ClientCharged, ChargeBuysJob, Queued, Charged
<1>5. FailureIsSettled /\ PublishedIsStored /\ RefundEndsRun /\ DoneEndsRun
  BY <1>1 DEF Init, FailureIsSettled, PublishedIsStored, RefundEndsRun,
              DoneEndsRun, Refunded
<1>. QED
  BY <1>3, <1>4, <1>5 DEF IInv

(* A step of somebody else keeps the invariant. *)
LEMMA StutterKeeps == IInv /\ UNCHANGED vars => IInv'
<1>. SUFFICES ASSUME IInv, UNCHANGED vars PROVE IInv'
  OBVIOUS
<1>1. \A i : HasKey(i)' <=> HasKey(i)
  BY DEF vars, HasKey
<1>2. UNCHANGED jobVars
  BY DEF vars
<1>3. TypeOK'
  BY DEF IInv, TypeOK, WalletTypeOK, vars, jobVars
<1>4. ClientCharged' /\ ChargeBuysJob'
  BY <1>1, <1>2 DEF IInv, ClientCharged, ChargeBuysJob, Queued, Charged,
                    SameKey, jobVars
<1>5. FailureIsSettled' /\ PublishedIsStored' /\ RefundEndsRun' /\ DoneEndsRun'
  BY <1>1, <1>2, JobsKept DEF Refunded, jobVars
<1>. QED
  BY <1>3, <1>4, <1>5 DEF IInv

(* The invariant holds in every reachable state: what _charge, _enqueue    *)
(* and run_tool leave behind in the ledger, the queue and the record.      *)
THEOREM Inductive == Spec => []IInv
<1>1. IInv /\ [Next]_vars => IInv'
  <2>. SUFFICES ASSUME IInv, [Next]_vars PROVE IInv'
    OBVIOUS
  <2>1. ASSUME NEW u \in Users, TopUp(u) PROVE IInv'
    BY <2>1, TopUpKeeps
  <2>2. ASSUME NEW c \in Clients, Charge(c) \/ Enqueue(c) \/ EnqueueFails(c)
        PROVE  IInv'
    BY <2>2, ChargeKeeps, EnqueueKeeps, EnqueueFailsKeeps
  <2>3. ASSUME NEW j \in Jobs, Run(j) PROVE IInv'
    BY <2>3, StartKeeps, CallReturnsKeeps, CallRaisesKeeps, UploadKeeps,
       PublishKeeps, RefundKeeps, ReportKeeps, NoteEndKeeps DEF Run
  <2>4. ASSUME NEW j \in Jobs,
               \/ StartFails(j) \/ PublishFails(j) \/ RefundFails(j)
               \/ ReportFails(j) \/ Cancel(j)
        PROVE  IInv'
    BY <2>4, StartFailsKeeps, PublishFailsKeeps, RefundFailsKeeps,
       ReportFailsKeeps, CancelKeeps
  <2>5. CASE WorkerDies
    BY <2>5, WorkerDiesKeeps
  <2>6. CASE UNCHANGED vars
    BY <2>6, StutterKeeps
  <2>. QED
    BY <2>1, <2>2, <2>3, <2>4, <2>5, <2>6 DEF Next
<1>. QED
  BY <1>1, InitEstablishes, PTL DEF Spec

-----------------------------------------------------------------------------
(* The theorems *)

(* Wallet, queue, records and counters keep their types in every step of   *)
(* the endpoint and of run_tool.                                           *)
THEOREM TypeCorrect == Spec => []TypeOK
<1>. IInv => TypeOK
  BY DEF IInv
<1>. QED
  BY Inductive, PTL

(* _charge comes before _enqueue: no job without a charge, and no charge   *)
(* without a job but in the middle of the handler or after a failed        *)
(* enqueue.                                                                *)
THEOREM ChargesAndJobs == Spec => []ChargeBuysJob
<1>. IInv => ChargeBuysJob
  BY DEF IInv
<1>. QED
  BY Inductive, PTL

(* The handler of run_tool: a job seen as failed has its cost back or is   *)
(* in the log, however many deaths and failed writes there are.            *)
THEOREM FailuresSettled == Spec => []FailureIsSettled
<1>. IInv => FailureIsSettled
  BY DEF IInv
<1>. QED
  BY Inductive, PTL

(* A status done (run_tool's last write) has its output, and its cost back *)
(* only after a worker's death or two failed writes.                       *)
THEOREM DoneDelivered == Spec => []DoneIsDelivered
<1>1. IInv => DoneIsDelivered
  <2>. SUFFICES ASSUME IInv, NEW j \in Jobs, record[j] = "done"
                PROVE  /\ j \in stored
                       /\ Refunded(j) =>
                            \/ crashes > 0 \/ faults > 1
                            \/ job[j].pc \in {"report", "cancelled", "dropped"}
    BY DEF DoneIsDelivered
  <2>1. j \in stored
    BY DEF IInv, PublishedIsStored
  <2>2. ASSUME Refunded(j), ~ (crashes > 0), ~ (faults > 1)
        PROVE  job[j].pc \in {"report", "cancelled", "dropped"}
    BY <2>2 DEF IInv, RefundEndsRun, DoneEndsRun
  <2>. QED
    BY <2>1, <2>2
<1>. QED
  BY <1>1, Inductive, PTL

(* Tool jobs move money through the wallet only: a charge, a refund and a  *)
(* purchase are steps of it, one in a commit.                              *)
THEOREM UsesWallet == Spec => WalletSpec
<1>1. Init => WalletInit
  BY DEF Init
<1>2. IInv /\ [Next]_vars => [WalletNext]_walletVars
  <2>. SUFFICES ASSUME IInv, [Next]_vars PROVE [WalletNext]_walletVars
    OBVIOUS
  <2>1. ASSUME NEW u \in Users, TopUp(u) PROVE [WalletNext]_walletVars
    <3>1. PostOnce(PurchaseKey(u), u, PackPrice)
      BY <2>1 DEF TopUp, PostOnce, Post
    <3>. QED
      BY <3>1, Postings, PostOnceIsStep
  <2>2. ASSUME NEW c \in Clients, Charge(c) PROVE [WalletNext]_walletVars
    <3>1. PICK r \in Requests : PostOnce(ChargeKey(r), UserOf[r], -Cost[r])
      BY <2>2 DEF Charge
    <3>2. ChargeKey(r) \in Keys /\ UserOf[r] \in Users /\ -Cost[r] \in Deltas
      BY Postings
    <3>. QED
      BY <3>1, <3>2, PostOnceIsStep
  <2>3. ASSUME NEW j \in Jobs, Refund(j) PROVE [WalletNext]_walletVars
    <3>1. job[j].req \in Requests
      BY DEF IInv, TypeOK
    <3>2. /\ RefundKey(j) \in Keys /\ UserOf[job[j].req] \in Users
          /\ Cost[job[j].req] \in Deltas
      BY <3>1, Postings
    <3>. QED
      BY <2>3, <3>2, PostOnceIsStep DEF Refund
  <2>4. \/ UNCHANGED walletVars
        \/ \E u \in Users : TopUp(u)
        \/ \E c \in Clients : Charge(c)
        \/ \E j \in Jobs : Refund(j)
    BY DEF Next, Run, vars, walletVars, Enqueue, EnqueueFails, Start, StartFails,
           CallReturns, CallRaises, Upload, Publish, PublishFails, RefundFails, Report,
           ReportFails, Cancel, NoteEnd, WorkerDies
  <2>. QED
    BY <2>1, <2>2, <2>3, <2>4
<1>. QED
  BY <1>1, <1>2, Inductive, PTL DEF Spec, WalletSpec

-----------------------------------------------------------------------------
(* What refunds give back *)

(* The rows under charge keys and refund keys: whose they are and how      *)
(* much.                                                                   *)
ChargeRowsFit ==
  \A x \in rows, r \in Requests :
    x.key = ChargeKey(r) => x.user = UserOf[r] /\ x.delta = -Cost[r]

RefundRowsFit ==
  \A x \in rows, j \in Jobs :
    x.key = RefundKey(j) => /\ Queued(j)
                            /\ x.user = UserOf[job[j].req]
                            /\ x.delta = Cost[job[j].req]

(* A queued job stays queued, for the request it was queued for.           *)
LEMMA RequestKept ==
  ASSUME IInv, [Next]_vars, NEW j \in Jobs, Queued(j)
  PROVE  Queued(j)' /\ job'[j].req = job[j].req
<1>1. CASE UNCHANGED job
  BY <1>1 DEF Queued
<1>2. ASSUME NEW i \in Jobs, NEW step \in JobSteps \ {"unused"}, Goto(i, step)
      PROVE  Queued(j)' /\ job'[j].req = job[j].req
  BY <1>2, GotoMoves DEF IInv, Queued
<1>3. ASSUME NEW r \in Requests, HasFreshJob, Queue(r)
      PROVE  Queued(j)' /\ job'[j].req = job[j].req
  BY <1>3, QueueAddsJob DEF IInv, Queued
<1>4. CASE WorkerDies
  BY <1>4 DEF WorkerDies, Queued
<1>5. /\ {"call", "cancelled", "upload", "refund", "publish", "returned",
          "report", "raised"} \subseteq JobSteps \ {"unused"}
      /\ \A i \in Jobs : job[i].pc \in Over => EndOf[job[i].pc] \in JobSteps \ {"unused"}
  BY DEF JobSteps, Running, Over, Ended, EndOf
<1>6. ASSUME NEW i \in Jobs, Run(i) PROVE \E step \in JobSteps \ {"unused"} : Goto(i, step)
  BY <1>5, <1>6 DEF Run, Start, CallReturns, CallRaises, Upload, Publish, Refund,
                    Report, NoteEnd
<1>7. ASSUME NEW i \in Jobs, \/ StartFails(i) \/ PublishFails(i) \/ RefundFails(i)
                             \/ ReportFails(i) \/ Cancel(i)
      PROVE  \E step \in JobSteps \ {"unused"} : Goto(i, step)
  BY <1>5, <1>7 DEF StartFails, PublishFails, RefundFails, ReportFails, Cancel
<1>8. ASSUME NEW c \in Clients, Enqueue(c) \/ EnqueueFails(c)
      PROVE  UNCHANGED job \/ \E r \in Requests : HasFreshJob /\ Queue(r)
  BY <1>8 DEF Enqueue, EnqueueFails, IInv, TypeOK
<1>9. ASSUME \/ \E u \in Users : TopUp(u)
             \/ \E c \in Clients : Charge(c)
             \/ UNCHANGED vars
      PROVE  UNCHANGED job
  BY <1>9 DEF TopUp, Charge, vars, jobVars
<1>. QED
  BY <1>1, <1>2, <1>3, <1>4, <1>6, <1>7, <1>8, <1>9 DEF Next

(* A posting adds at most its own row. *)
LEMMA PostOnceAddsRow ==
  ASSUME NEW k, NEW u, NEW d, PostOnce(k, u, d), NEW x \in rows'
  PROVE  x \in rows \/ x = [key |-> k, user |-> u, delta |-> d]
  BY DEF PostOnce, Post, walletVars

(* Rows appear under three kinds of keys, with the amounts of the code. *)
LEMMA NewRows ==
  ASSUME IInv, [Next]_vars, NEW x \in rows', x \notin rows
  PROVE  \/ \E u \in Users : x.key = PurchaseKey(u)
         \/ \E r \in Requests : x = [key |-> ChargeKey(r), user |-> UserOf[r],
                                     delta |-> -Cost[r]]
         \/ \E j \in Jobs : /\ Queued(j)
                            /\ x = [key |-> RefundKey(j), user |-> UserOf[job[j].req],
                                    delta |-> Cost[job[j].req]]
<1>1. ASSUME NEW u \in Users, TopUp(u) PROVE x.key = PurchaseKey(u)
  BY <1>1 DEF TopUp, Post
<1>2. ASSUME NEW c \in Clients, Charge(c)
      PROVE  \E r \in Requests : x = [key |-> ChargeKey(r), user |-> UserOf[r],
                                      delta |-> -Cost[r]]
  <2>1. PICK r \in Requests : PostOnce(ChargeKey(r), UserOf[r], -Cost[r])
    BY <1>2 DEF Charge
  <2>. QED
    BY <2>1, PostOnceAddsRow
<1>3. ASSUME NEW j \in Jobs, Refund(j)
      PROVE  /\ Queued(j)
             /\ x = [key |-> RefundKey(j), user |-> UserOf[job[j].req],
                     delta |-> Cost[job[j].req]]
  BY <1>3, PostOnceAddsRow DEF Refund, Queued
<1>4. \/ UNCHANGED rows
      \/ \E u \in Users : TopUp(u)
      \/ \E c \in Clients : Charge(c)
      \/ \E j \in Jobs : Refund(j)
  BY DEF Next, Run, vars, Enqueue, EnqueueFails, Start, StartFails, CallReturns,
         CallRaises, Upload, Publish, PublishFails, RefundFails, Report,
         ReportFails, Cancel, NoteEnd, WorkerDies
<1>. QED
  BY <1>1, <1>2, <1>3, <1>4

(* Whatever the handler of run_tool gives back was charged: a refund is of *)
(* the amount and for the user of a charge under its job's key, however    *)
(* many requests share that key and however often jobs are redelivered.    *)
THEOREM RefundsReturnCharges == Spec => []RefundReturnsCharge
<1>. DEFINE Fit == ChargeRowsFit /\ RefundRowsFit
<1>1. Init => Fit
  BY DEF Init, WalletInit, ChargeRowsFit, RefundRowsFit
<1>2. IInv /\ Fit /\ [Next]_vars => Fit'
  <2>. SUFFICES ASSUME IInv, Fit, [Next]_vars PROVE Fit'
    OBVIOUS
  <2>1. ChargeRowsFit'
    <3>. SUFFICES ASSUME NEW x \in rows', NEW r \in Requests, x.key = ChargeKey(r)
                  PROVE  x.user = UserOf[r] /\ x.delta = -Cost[r]
      BY DEF ChargeRowsFit
    <3>1. CASE x \in rows
      BY <3>1 DEF ChargeRowsFit
    <3>2. ASSUME NEW q \in Requests, x = [key |-> ChargeKey(q), user |-> UserOf[q],
                                          delta |-> -Cost[q]]
          PROVE  x.user = UserOf[r] /\ x.delta = -Cost[r]
      <4>1. InputKey[q] = InputKey[r]
        BY <3>2 DEF ChargeKey
      <4>2. UserOf[q] = UserOf[r] /\ Cost[q] = Cost[r]
        BY <4>1, KeyNamesUser, KeyNamesCost
      <4>. QED
        BY <3>2, <4>2
    <3>. QED
      BY <3>1, <3>2, NewRows, KeysApart
  <2>2. RefundRowsFit'
    <3>. SUFFICES ASSUME NEW x \in rows', NEW j \in Jobs, x.key = RefundKey(j)
                  PROVE  /\ Queued(j)'
                         /\ x.user = UserOf[job'[j].req]
                         /\ x.delta = Cost[job'[j].req]
      BY DEF RefundRowsFit
    <3>1. /\ Queued(j)
          /\ x.user = UserOf[job[j].req]
          /\ x.delta = Cost[job[j].req]
      <4>1. CASE x \in rows
        BY <4>1 DEF RefundRowsFit
      <4>2. ASSUME NEW i \in Jobs, Queued(i),
                   x = [key |-> RefundKey(i), user |-> UserOf[job[i].req],
                        delta |-> Cost[job[i].req]]
            PROVE  /\ Queued(j)
                   /\ x.user = UserOf[job[j].req]
                   /\ x.delta = Cost[job[j].req]
        BY <4>2, KeysApart
      <4>. QED
        BY <4>1, <4>2, NewRows, KeysApart
    <3>. QED
      BY <3>1, RequestKept
  <2>. QED
    BY <2>1, <2>2
<1>3. IInv /\ Fit => RefundReturnsCharge
  <2>. SUFFICES ASSUME IInv, Fit, NEW j \in Jobs, Refunded(j)
                PROVE  \E back, paid \in rows :
                         /\ back.key = RefundKey(j)
                         /\ paid.key = ChargeKey(job[j].req)
                         /\ back.user = paid.user
                         /\ back.delta = -paid.delta
    BY DEF RefundReturnsCharge
  <2>1. PICK back \in rows : back.key = RefundKey(j)
    BY DEF Refunded, HasKey
  <2>2. /\ Queued(j)
        /\ back.user = UserOf[job[j].req]
        /\ back.delta = Cost[job[j].req]
    BY <2>1 DEF RefundRowsFit
  <2>3. job[j].req \in Requests /\ Cost[job[j].req] \in Int
    BY CostAssumption DEF IInv, TypeOK
  <2>4. PICK paid \in rows : paid.key = ChargeKey(job[j].req)
    BY <2>2 DEF IInv, ChargeBuysJob, Charged, HasKey
  <2>5. paid.user = UserOf[job[j].req] /\ paid.delta = -Cost[job[j].req]
    BY <2>3, <2>4 DEF ChargeRowsFit
  <2>. QED
    BY <2>1, <2>2, <2>3, <2>4, <2>5
<1>. QED
  BY <1>1, <1>2, <1>3, Inductive, PTL DEF Spec

=============================================================================
