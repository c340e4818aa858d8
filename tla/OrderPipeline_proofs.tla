------------------------ MODULE OrderPipeline_proofs ------------------------
(***************************************************************************)
(* Proofs about OrderPipeline, for any orders, customers, agents, amounts, *)
(* requests, messages and worker deaths.                                   *)
(*                                                                         *)
(* The invariant the properties follow from, IInv, is about tickets: what  *)
(* may still cause work for an order, namely a request before its enqueue, *)
(* a message, and an entry of the reconciliation.  An order without a job  *)
(* row has one ticket, which is why two runs never create two rows; as     *)
(* long as no worker died every order has one, which is why it ends once.  *)
(***************************************************************************)
EXTENDS OrderPipeline, OrderLedger_proofs

NoRow(o) == Len(jobs[o]) = 0

OneRow(o) == Len(jobs[o]) = 1

Queued(m, o) == message[m].pc # "none" /\ message[m].order = o

Enqueueing(c, o) == client[c].pc = "enqueue" /\ client[c].order = o

(* Whatever may cause work for an order, and a job row, came after the     *)
(* order's own row.                                                        *)
WorkIsForOrders ==
  /\ \A m \in Messages : message[m].pc # "none" => Exists(message[m].order)
  /\ \A c \in Clients : client[c].pc = "enqueue" => Exists(client[c].order)
  /\ \A o \in Orders : OneRow(o) => Exists(o)

(* An order that has no job row, or any order before the first death, has  *)
(* at most one ticket.                                                     *)
Fresh(o) == crashes = 0 \/ NoRow(o)

OneTicket ==
  \A o \in Orders :
    Fresh(o) =>
      /\ o \notin stuck
      /\ \A m, n \in Messages : Queued(m, o) /\ Queued(n, o) => m = n
      /\ \A c, d \in Clients : Enqueueing(c, o) /\ Enqueueing(d, o) => c = d
      /\ \A m \in Messages, c \in Clients : ~ (Queued(m, o) /\ Enqueueing(c, o))

(* An order has no job row or one: OneJobRow, in the terms of the above. *)
RowsCounted == \A o \in Orders : ~ NoRow(o) <=> OneRow(o)

(* A run past the creation of the job row works on the first and only row; *)
(* a run that is about to create one finds none.                           *)
RunHasRow ==
  \A m \in Messages :
    /\ message[m].pc = "create_job" => NoRow(message[m].order)
    /\ message[m].pc \in Running \ {"create_job"} =>
         OneRow(message[m].order) /\ message[m].job = 1

(* Work leaves a job row: without one the order is as it was placed. *)
NoRowNoProgress ==
  \A o \in Orders : NoRow(o) => status[o] \in {"absent", "queued"}

(* The output is in the bucket before the last commit of a run. *)
StoredBeforeFinish ==
  \A m \in Messages : message[m].pc = "finish" => message[m].order \in stored

OpenStatus == {"queued", "moderating", "generating"}

(* Before the first death the worker is up, and what has a ticket is open. *)
OpenBeforeDeath ==
  crashes = 0 =>
    /\ worker = "up"
    /\ \A m \in Messages :
         message[m].pc # "none" => status[message[m].order] \in OpenStatus
    /\ \A c \in Clients :
         client[c].pc = "enqueue" => status[client[c].order] \in OpenStatus

IInv ==
  /\ TypeOK
  /\ OrderIffCharged
  /\ WorkIsForOrders
  /\ OneTicket
  /\ RowsCounted
  /\ RunHasRow
  /\ NoRowNoProgress
  /\ StoredBeforeFinish
  /\ OpenBeforeDeath
  /\ RejectedIsRefunded
  /\ PaidForDelivery

-----------------------------------------------------------------------------
(* Lemmas about rows and messages *)

(* Replacing an element keeps a sequence of statuses and its length. *)
LEMMA ReplaceKeepsLength ==
  ASSUME NEW S, NEW q \in Seq(S), NEW i \in 1 .. Len(q), NEW x \in S
  PROVE  /\ [q EXCEPT ![i] = x] \in Seq(S)
         /\ Len([q EXCEPT ![i] = x]) = Len(q)
  OBVIOUS

(* A run's step moves its own message and nothing else in the queue. *)
OnlyMoves(m) ==
  /\ message' \in [Messages -> [pc : MessageStates, order : Orders, job : Nat]]
  /\ \A n \in Messages : n # m => message'[n] = message[n]

(* A run goes to another step of the same order and job row. *)
LEMMA GotoMoves ==
  ASSUME TypeOK, NEW m \in Messages, NEW step \in MessageStates, Goto(m, step)
  PROVE  /\ OnlyMoves(m)
         /\ message'[m].pc = step
         /\ message'[m].order = message[m].order
         /\ message'[m].job = message[m].job
<1>1. message[m] \in [pc : MessageStates, order : Orders, job : Nat]
  BY DEF TypeOK
<1>2. message' = [message EXCEPT ![m] = [message[m] EXCEPT !.pc = step]]
  BY DEF Goto
<1>3. message' \in [Messages -> [pc : MessageStates, order : Orders, job : Nat]]
  BY <1>1, <1>2 DEF TypeOK
<1>. QED
  BY <1>1, <1>2, <1>3 DEF TypeOK, OnlyMoves

(* The empty slot is one of the queue's states. *)
LEMMA NoMsgTyped ==
  /\ AnyOrder \in Orders
  /\ NoMsg \in [pc : MessageStates, order : Orders, job : Nat]
  /\ NoMsg.pc = "none"
<1>1. AnyOrder \in Orders
  BY OrdersAssumption DEF AnyOrder
<1>. QED
  BY <1>1 DEF NoMsg, MessageStates

(* A job that has ended leaves its slot empty. *)
LEMMA EndedMoves ==
  ASSUME TypeOK, NEW m \in Messages, Ended(m)
  PROVE  OnlyMoves(m) /\ message'[m].pc = "none"
  BY NoMsgTyped DEF Ended, TypeOK, OnlyMoves

(* No order gains or loses a job row. *)
RowsKept ==
  \A o \in Orders : (NoRow(o)' <=> NoRow(o)) /\ (OneRow(o)' <=> OneRow(o))

(* A commit that writes the job row of order o and sets the order's status *)
(* to os.                                                                  *)
Turns(o, os) ==
  /\ jobs' \in [Orders -> Seq(JobStatus)]
  /\ status' \in [Orders -> OrderStatus \cup {"absent"}]
  /\ RowsKept
  /\ status'[o] = os
  /\ \A p \in Orders : p # o => status'[p] = status[p]

(* Writing the only job row of an order keeps the number of its rows. *)
LEMMA RowWritten ==
  ASSUME TypeOK, RunHasRow,
         NEW m \in Messages, message[m].pc \in Running \ {"create_job"},
         NEW o \in Orders, message[m].order = o,
         NEW js \in JobStatus,
         jobs' = [jobs EXCEPT ![o][message[m].job] = js]
  PROVE  jobs' \in [Orders -> Seq(JobStatus)] /\ RowsKept
<1>. DEFINE row == [jobs[o] EXCEPT ![message[m].job] = js]
<1>1. Len(jobs[o]) = 1 /\ message[m].job = 1
  BY DEF RunHasRow, OneRow
<1>2. jobs[o] \in Seq(JobStatus) /\ message[m].job \in 1 .. Len(jobs[o])
  BY <1>1 DEF TypeOK
<1>3. jobs' = [jobs EXCEPT ![o] = row]
  OBVIOUS
<1>4. row \in Seq(JobStatus) /\ Len(row) = Len(jobs[o])
  BY <1>2, ReplaceKeepsLength
<1>. HIDE DEF row
<1>5. \A p \in Orders : Len(jobs'[p]) = Len(jobs[p])
  BY <1>3, <1>4 DEF TypeOK
<1>6. RowsKept
  BY <1>5 DEF RowsKept, NoRow, OneRow
<1>7. jobs' \in [Orders -> Seq(JobStatus)]
  BY <1>3, <1>4 DEF TypeOK
<1>. QED
  BY <1>6, <1>7

(* A run's commit of two statuses. *)
LEMMA StatusesSet ==
  ASSUME TypeOK, RunHasRow,
         NEW m \in Messages, message[m].pc \in Running \ {"create_job"},
         NEW o \in Orders, message[m].order = o,
         NEW js \in JobStatus, NEW os \in OrderStatus,
         SetStatuses(m, js, os)
  PROVE  Turns(o, os)
<1>1. /\ jobs' = [jobs EXCEPT ![o][message[m].job] = js]
      /\ status' = [status EXCEPT ![o] = os]
  BY DEF SetStatuses
<1>2. jobs' \in [Orders -> Seq(JobStatus)] /\ RowsKept
  BY <1>1, RowWritten
<1>. QED
  BY <1>1, <1>2 DEF Turns, TypeOK

-----------------------------------------------------------------------------
(* Tickets *)

(* Tickets only go: no step below but an enqueue makes one. *)
LEMMA TicketsKept ==
  ASSUME IInv,
         stuck' \subseteq stuck,
         \A m \in Messages, o \in Orders : Queued(m, o)' => Queued(m, o),
         \A c \in Clients, o \in Orders : Enqueueing(c, o)' => Enqueueing(c, o),
         \A o \in Orders : Fresh(o)' => Fresh(o)
  PROVE  OneTicket'
  BY DEF IInv, OneTicket

(* ... and they stay those of orders. *)
LEMMA WorkKept ==
  ASSUME IInv, TypeOK',
         \A m \in Messages, o \in Orders : Queued(m, o)' => Queued(m, o),
         \A c \in Clients, o \in Orders : Enqueueing(c, o)' => Enqueueing(c, o),
         \A o \in Orders : Exists(o) => Exists(o)',
         \A o \in Orders : OneRow(o)' => Exists(o)
  PROVE  WorkIsForOrders'
<1>1. ASSUME NEW m \in Messages, message'[m].pc # "none"
      PROVE  Exists(message[m].order)'
  BY <1>1 DEF IInv, TypeOK, WorkIsForOrders, Queued
<1>2. ASSUME NEW c \in Clients, client'[c].pc = "enqueue"
      PROVE  Exists(client[c].order)'
  BY <1>2 DEF IInv, TypeOK, WorkIsForOrders, Enqueueing
<1>. QED
  BY <1>1, <1>2 DEF WorkIsForOrders

-----------------------------------------------------------------------------
(* The steps of a run *)

(* What a step of message m, which is for order o, may do to the queue and *)
(* the rows: it moves its own message, writes the order it works on,       *)
(* creates the first job row if there is none, and charges nobody.         *)
RunStep(m, o) ==
  /\ message[m].order = o
  /\ message[m].pc # "none"
  /\ \A n \in Messages : n # m => message'[n] = message[n]
  /\ \/ message'[m].pc = "none"
     \/ /\ message'[m].order = o
        /\ message'[m].pc = "create_job" => NoRow(o)'
        /\ message'[m].pc \in Running \ {"create_job"} =>
             OneRow(o)' /\ message'[m].job = 1
        /\ status'[o] \in OpenStatus \/ status'[o] = status[o]
  /\ \A p \in Orders :
       p # o => status'[p] = status[p] /\ (NoRow(p)' <=> NoRow(p))
  /\ status'[o] # "absent"
  /\ NoRow(o)' => NoRow(o) /\ status'[o] = status[o]
  /\ RowsCounted'
  /\ UNCHANGED <<client, stuck, worker, crashes>>
  /\ \A p \in Orders : Charged(p)' <=> Charged(p)

(* A step of that form keeps what IInv says of tickets and rows.           *)
LEMMA RunStepKeeps ==
  ASSUME IInv, TypeOK', NEW m \in Messages, NEW o \in Orders, RunStep(m, o)
  PROVE  /\ OrderIffCharged' /\ WorkIsForOrders' /\ OneTicket' /\ RowsCounted'
         /\ RunHasRow' /\ NoRowNoProgress' /\ OpenBeforeDeath'
<1>1. Exists(o) /\ Queued(m, o)
  BY DEF IInv, TypeOK, WorkIsForOrders, RunStep, Queued
<1>2. \A p \in Orders : NoRow(p)' => NoRow(p)
  BY DEF RunStep
<1>3. \A p \in Orders : OneRow(p)' => Exists(p)
  <2>. SUFFICES ASSUME NEW p \in Orders, OneRow(p)', p # o PROVE Exists(p)
    BY <1>1
  <2>1. ~ NoRow(p)' /\ (NoRow(p)' <=> NoRow(p))
    BY DEF RunStep, RowsCounted
  <2>. QED
    BY <2>1 DEF IInv, RowsCounted, WorkIsForOrders
<1>4. /\ \A n \in Messages, p \in Orders : Queued(n, p)' => Queued(n, p)
      /\ \A c \in Clients, p \in Orders : Enqueueing(c, p)' => Enqueueing(c, p)
      /\ stuck' \subseteq stuck
  BY DEF RunStep, Queued, Enqueueing
<1>5. \A p \in Orders : Fresh(p)' => Fresh(p)
  BY <1>2 DEF RunStep, Fresh
<1>6. \A p \in Orders : Exists(p)' <=> Exists(p)
  BY <1>1 DEF RunStep, Exists
<1>7. OrderIffCharged'
  BY <1>6 DEF IInv, OrderIffCharged, RunStep
<1>8. WorkIsForOrders'
  BY <1>3, <1>4, <1>6, WorkKept
<1>9. OneTicket'
  BY <1>4, <1>5, TicketsKept
<1>10. RowsCounted'
  BY DEF RunStep
<1>11. Fresh(o) => \A n \in Messages : n # m => ~ Queued(n, o)
  BY <1>1 DEF IInv, OneTicket
<1>12. RunHasRow'
  <2>. SUFFICES ASSUME NEW n \in Messages, NEW p \in Orders, message'[n].order = p
                PROVE  /\ message'[n].pc = "create_job" => NoRow(p)'
                       /\ message'[n].pc \in Running \ {"create_job"} =>
                            OneRow(p)' /\ message'[n].job = 1
    BY DEF RunHasRow, TypeOK, NoRow, OneRow
  <2>1. CASE n = m
    BY <2>1 DEF RunStep, Running
  <2>2. CASE n # m
    <3>1. message'[n] = message[n]
      BY <2>2 DEF RunStep
    <3>2. /\ message[n].pc = "create_job" => NoRow(p)
          /\ message[n].pc \in Running \ {"create_job"} =>
               OneRow(p) /\ message[n].job = 1
      BY <3>1 DEF IInv, RunHasRow
    <3>3. CASE p # o
      <4>1. NoRow(p)' <=> NoRow(p)
        BY <3>3 DEF RunStep
      <4>2. OneRow(p) => OneRow(p)'
        BY <4>1, <1>10 DEF IInv, RowsCounted
      <4>. QED
        BY <3>1, <3>2, <4>1, <4>2
    <3>4. CASE p = o /\ message[n].pc # "none"
      <4>1. ~ Fresh(o)
        BY <1>11, <2>2, <3>1, <3>4 DEF Queued
      <4>2. ~ NoRow(o) /\ ~ NoRow(o)'
        BY <1>2, <4>1 DEF Fresh
      <4>3. OneRow(o)'
        BY <1>10, <4>2 DEF RowsCounted
      <4>. QED
        BY <3>1, <3>2, <3>4, <4>2, <4>3
    <3>5. CASE message[n].pc = "none"
      BY <3>1, <3>5 DEF Running
    <3>. QED
      BY <3>3, <3>4, <3>5
  <2>. QED
    BY <2>1, <2>2
<1>13. NoRowNoProgress'
  <2>. SUFFICES ASSUME NEW p \in Orders, NoRow(p)'
                PROVE  status'[p] \in {"absent", "queued"}
    BY DEF NoRowNoProgress
  <2>1. NoRow(p) /\ status'[p] = status[p]
    BY DEF RunStep
  <2>. QED
    BY <2>1 DEF IInv, NoRowNoProgress
<1>14. OpenBeforeDeath'
  <2>. SUFFICES ASSUME crashes' = 0 PROVE OpenBeforeDeath'
    BY DEF OpenBeforeDeath
  <2>1. crashes = 0 /\ Fresh(o) /\ worker' = "up"
    BY DEF IInv, OpenBeforeDeath, RunStep, Fresh
  <2>2. ASSUME NEW n \in Messages, message'[n].pc # "none"
        PROVE  status'[message'[n].order] \in OpenStatus
    <3>1. CASE n = m
      BY <2>1, <2>2, <3>1 DEF IInv, OpenBeforeDeath, RunStep
    <3>2. CASE n # m
      <4>1. message'[n] = message[n] /\ message[n].order \in Orders
        BY <3>2 DEF IInv, TypeOK, RunStep
      <4>2. message[n].order # o
        BY <1>11, <2>1, <2>2, <3>2, <4>1 DEF Queued
      <4>. QED
        BY <2>1, <2>2, <4>1, <4>2 DEF IInv, OpenBeforeDeath, RunStep
    <3>. QED
      BY <3>1, <3>2
  <2>3. ASSUME NEW c \in Clients, client'[c].pc = "enqueue"
        PROVE  status'[client'[c].order] \in OpenStatus
    <3>1. client'[c] = client[c] /\ client[c].order \in Orders
      BY DEF IInv, TypeOK, RunStep
    <3>2. client[c].order # o
      BY <1>1, <2>1, <2>3, <3>1 DEF IInv, OneTicket, Enqueueing
    <3>. QED
      BY <2>1, <2>3, <3>1, <3>2 DEF IInv, OpenBeforeDeath, RunStep
  <2>. QED
    BY <2>1, <2>2, <2>3 DEF OpenBeforeDeath
<1>. QED
  BY <1>7, <1>8, <1>9, <1>10, <1>12, <1>13, <1>14

(* A step of a run that moves no money and delivers or rejects nothing     *)
(* keeps the rest of IInv.                                                 *)
LEMMA QuietStepKeeps ==
  ASSUME IInv, TypeOK', NEW m \in Messages, NEW o \in Orders, RunStep(m, o),
         MoneyKept,
         stored \subseteq stored',
         status'[o] \notin {"done", "rejected"} \/ status'[o] = status[o],
         message'[m].pc = "finish" => o \in stored'
  PROVE  IInv'
<1>1. \A p \in Orders : status'[p] \in {"done", "rejected"} => status'[p] = status[p]
  BY DEF RunStep
<1>2. StoredBeforeFinish'
  BY DEF IInv, StoredBeforeFinish, RunStep
<1>3. RejectedIsRefunded'
  BY <1>1 DEF IInv, RejectedIsRefunded, MoneyKept
<1>4. PaidForDelivery'
  BY <1>1 DEF IInv, PaidForDelivery, MoneyKept, EarnsCommission
<1>. QED
  BY <1>2, <1>3, <1>4, RunStepKeeps DEF IInv

(* A run past the creation of the job row: its step is a RunStep if it     *)
(* moves the message on or drops it and adds no row.                       *)
LEMMA LateStep ==
  ASSUME IInv, NEW m \in Messages, NEW o \in Orders, message[m].order = o,
         message[m].pc \in Running \ {"create_job"},
         OnlyMoves(m),
         \/ message'[m].pc = "none"
         \/ /\ message'[m].order = o
            /\ message'[m].job = message[m].job
            /\ message'[m].pc # "create_job"
            /\ status'[o] \in OpenStatus \/ status'[o] = status[o],
         RowsKept,
         \A p \in Orders : p # o => status'[p] = status[p],
         status'[o] # "absent",
         UNCHANGED <<client, stuck, worker, crashes>>,
         \A p \in Orders : Charged(p)' <=> Charged(p)
  PROVE  RunStep(m, o)
<1>1. OneRow(o) /\ ~ NoRow(o) /\ message[m].job = 1 /\ message[m].pc # "none"
  BY DEF IInv, RunHasRow, RowsCounted, Running
<1>2. RowsCounted'
  BY DEF IInv, RowsCounted, RowsKept
<1>. QED
  BY <1>1, <1>2 DEF RunStep, OnlyMoves, RowsKept

(* Both rows turn to moderating. *)
LEMMA BeginModerationKeeps ==
  ASSUME IInv, NEW m \in Messages, NEW o \in Orders, message[m].order = o,
         BeginModeration(m)
  PROVE  IInv' /\ RunStep(m, o)
<1>1. MoneyKept /\ WalletTypeOK'
  BY NoMoneyMoves DEF IInv, TypeOK, walletVars, BeginModeration
<1>2. message[m].pc \in Running \ {"create_job"}
  BY DEF BeginModeration, Running
<1>3. /\ OnlyMoves(m)
      /\ message'[m].pc = "moderate"
      /\ message'[m].order = o
      /\ message'[m].job = message[m].job
  BY GotoMoves DEF IInv, BeginModeration, MessageStates, Running
<1>4. Turns(o, "moderating")
  BY <1>2, StatusesSet DEF IInv, BeginModeration, JobStatus, OrderStatus
<1>5. TypeOK'
  BY <1>1, <1>3, <1>4 DEF IInv, TypeOK, BeginModeration, OnlyMoves, Turns
<1>6. RunStep(m, o)
  BY <1>1, <1>2, <1>3, <1>4, LateStep
     DEF BeginModeration, Turns, MoneyKept, OpenStatus
<1>. QED
  BY <1>1, <1>3, <1>4, <1>5, <1>6, QuietStepKeeps DEF BeginModeration, Turns

(* The verdict is written and the job row stays locked. *)
LEMMA AllowKeeps ==
  ASSUME IInv, NEW m \in Messages, NEW o \in Orders, message[m].order = o,
         Allow(m)
  PROVE  IInv' /\ RunStep(m, o)
<1>1. MoneyKept /\ WalletTypeOK'
  BY NoMoneyMoves DEF IInv, TypeOK, walletVars, Allow
<1>2. message[m].pc \in Running \ {"create_job"} /\ Exists(o)
  BY DEF Allow, Running, IInv, WorkIsForOrders
<1>3. /\ OnlyMoves(m)
      /\ message'[m].pc = "prompt"
      /\ message'[m].order = o
      /\ message'[m].job = message[m].job
  BY GotoMoves DEF IInv, Allow, MessageStates, Running
<1>4. RowsKept /\ status' = status
  BY DEF Allow, RowsKept, NoRow, OneRow
<1>5. TypeOK'
  BY <1>1, <1>3 DEF IInv, TypeOK, Allow, OnlyMoves
<1>6. RunStep(m, o)
  BY <1>1, <1>2, <1>3, <1>4, LateStep DEF Allow, MoneyKept, Exists
<1>. QED
  BY <1>1, <1>3, <1>4, <1>5, <1>6, QuietStepKeeps DEF Allow

(* Both rows turn to generating. *)
LEMMA BeginGeneratingKeeps ==
  ASSUME IInv, NEW m \in Messages, NEW o \in Orders, message[m].order = o,
         BeginGenerating(m)
  PROVE  IInv' /\ RunStep(m, o)
<1>1. MoneyKept /\ WalletTypeOK'
  BY NoMoneyMoves DEF IInv, TypeOK, walletVars, BeginGenerating
<1>2. message[m].pc \in Running \ {"create_job"}
  BY DEF BeginGenerating, Running
<1>3. /\ OnlyMoves(m)
      /\ message'[m].pc = "generate"
      /\ message'[m].order = o
      /\ message'[m].job = message[m].job
  BY GotoMoves DEF IInv, BeginGenerating, MessageStates, Running
<1>4. Turns(o, "generating")
  BY <1>2, StatusesSet DEF IInv, BeginGenerating, JobStatus, OrderStatus
<1>5. TypeOK'
  BY <1>1, <1>3, <1>4
     DEF IInv, TypeOK, BeginGenerating, FreeRow, OnlyMoves, Turns
<1>6. RunStep(m, o)
  BY <1>1, <1>2, <1>3, <1>4, LateStep
     DEF BeginGenerating, Turns, MoneyKept, OpenStatus
<1>. QED
  BY <1>1, <1>3, <1>4, <1>5, <1>6, QuietStepKeeps DEF BeginGenerating, Turns

(* The provider's answer is written to the job row. *)
LEMMA RecordOutputKeeps ==
  ASSUME IInv, NEW m \in Messages, NEW o \in Orders, message[m].order = o,
         RecordOutput(m)
  PROVE  IInv' /\ RunStep(m, o)
<1>1. MoneyKept /\ WalletTypeOK'
  BY NoMoneyMoves DEF IInv, TypeOK, walletVars, RecordOutput
<1>2. message[m].pc \in Running \ {"create_job"} /\ Exists(o)
  BY DEF RecordOutput, Running, IInv, WorkIsForOrders
<1>3. /\ OnlyMoves(m)
      /\ message'[m].pc = "upload"
      /\ message'[m].order = o
      /\ message'[m].job = message[m].job
  BY GotoMoves DEF IInv, RecordOutput, MessageStates, Running
<1>4. jobs' \in [Orders -> Seq(JobStatus)] /\ RowsKept
  BY <1>2, RowWritten DEF IInv, RecordOutput, JobStatus
<1>5. TypeOK'
  BY <1>1, <1>3, <1>4 DEF IInv, TypeOK, RecordOutput, OnlyMoves
<1>6. RunStep(m, o)
  BY <1>1, <1>2, <1>3, <1>4, LateStep DEF RecordOutput, MoneyKept, Exists
<1>. QED
  BY <1>1, <1>3, <1>5, <1>6, QuietStepKeeps DEF RecordOutput

(* The output is in the bucket before a row says so. *)
LEMMA UploadKeeps ==
  ASSUME IInv, NEW m \in Messages, NEW o \in Orders, message[m].order = o,
         Upload(m)
  PROVE  IInv' /\ RunStep(m, o)
<1>1. MoneyKept /\ WalletTypeOK'
  BY NoMoneyMoves DEF IInv, TypeOK, walletVars, Upload
<1>2. message[m].pc \in Running \ {"create_job"} /\ Exists(o)
  BY DEF Upload, Running, IInv, WorkIsForOrders
<1>3. /\ OnlyMoves(m)
      /\ message'[m].pc = "finish"
      /\ message'[m].order = o
      /\ message'[m].job = message[m].job
  BY GotoMoves DEF IInv, Upload, MessageStates, Running
<1>4. RowsKept /\ status' = status /\ stored' = stored \cup {o}
  BY DEF Upload, RowsKept, NoRow, OneRow
<1>5. TypeOK'
  BY <1>1, <1>3, <1>4 DEF IInv, TypeOK, Upload, OnlyMoves
<1>6. RunStep(m, o)
  BY <1>1, <1>2, <1>3, <1>4, LateStep DEF Upload, MoneyKept, Exists
<1>. QED
  BY <1>1, <1>3, <1>4, <1>5, <1>6, QuietStepKeeps

(* The error path: both rows failed, no money moves. *)
LEMMA FailKeeps ==
  ASSUME IInv, NEW m \in Messages, NEW o \in Orders, message[m].order = o,
         Fail(m)
  PROVE  IInv' /\ RunStep(m, o)
<1>1. MoneyKept /\ WalletTypeOK'
  BY NoMoneyMoves DEF IInv, TypeOK, walletVars, Fail
<1>2. message[m].pc \in Running \ {"create_job"}
  BY DEF Fail, FailSteps, Running
<1>3. OnlyMoves(m) /\ message'[m].pc = "none"
  BY EndedMoves DEF IInv, Fail
<1>4. Turns(o, "failed")
  BY <1>2, StatusesSet DEF IInv, Fail, JobStatus, OrderStatus
<1>5. TypeOK'
  BY <1>1, <1>3, <1>4 DEF IInv, TypeOK, Fail, OnlyMoves, Turns
<1>6. RunStep(m, o)
  BY <1>1, <1>2, <1>3, <1>4, LateStep DEF Fail, Turns, MoneyKept
<1>. QED
  BY <1>1, <1>3, <1>4, <1>5, <1>6, QuietStepKeeps DEF Fail, Turns

(* The error path before any row is touched, job_timeout, or a second      *)
(* job row: the run ends and writes nothing.                               *)
LEMMA AbandonKeeps ==
  ASSUME IInv, NEW m \in Messages, NEW o \in Orders, message[m].order = o,
         Abandon(m)
  PROVE  IInv' /\ RunStep(m, o)
<1>1. MoneyKept /\ WalletTypeOK'
  BY NoMoneyMoves DEF IInv, TypeOK, walletVars, Abandon
<1>2. message[m].pc # "none" /\ Exists(o)
  BY DEF Abandon, Running, IInv, WorkIsForOrders
<1>3. OnlyMoves(m) /\ message'[m].pc = "none"
  BY EndedMoves DEF IInv, Abandon
<1>4. RowsKept /\ status' = status
  BY DEF Abandon, RowsKept, NoRow, OneRow
<1>5. TypeOK'
  BY <1>1, <1>3 DEF IInv, TypeOK, Abandon, FreeRow, OnlyMoves
<1>6. RunStep(m, o)
  BY <1>1, <1>2, <1>3, <1>4
     DEF IInv, RowsCounted, Abandon, RunStep, RowsKept, OnlyMoves, MoneyKept, Exists
<1>. QED
  BY <1>1, <1>3, <1>4, <1>5, <1>6, QuietStepKeeps DEF Abandon

(* The run begins by what the rows say: finished orders are skipped. *)
LEMMA PickupKeeps ==
  ASSUME IInv, NEW m \in Messages, NEW o \in Orders, message[m].order = o,
         Pickup(m)
  PROVE  IInv' /\ RunStep(m, o)
<1>1. MoneyKept /\ WalletTypeOK'
  BY NoMoneyMoves DEF IInv, TypeOK, walletVars, Pickup
<1>2. message[m].pc # "none" /\ Exists(o)
  BY DEF Pickup, IInv, WorkIsForOrders
<1>3. /\ OnlyMoves(m)
      /\ \/ message'[m].pc = "none"
         \/ message'[m].pc = "create_job" /\ message'[m].order = o /\ NoRow(o)
         \/ /\ message'[m].pc = "begin_moderation" /\ message'[m].order = o
            /\ message'[m].job = 1 /\ OneRow(o)
  <2>1. CASE Ended(m)
    BY <2>1, EndedMoves DEF IInv
  <2>2. CASE NoRow(o) /\ Goto(m, "create_job")
    BY <2>2, GotoMoves DEF IInv, MessageStates, Running
  <2>3. CASE ~ NoRow(o) /\ message' = [message EXCEPT ![m].pc = "begin_moderation",
                                                      ![m].job = 1]
    <3>1. message[m] \in [pc : MessageStates, order : Orders, job : Nat]
      BY DEF IInv, TypeOK
    <3>2. message' = [message EXCEPT ![m] = [message[m] EXCEPT !.pc = "begin_moderation",
                                                               !.job = 1]]
      BY <2>3
    <3>3. OneRow(o)
      BY <2>3 DEF IInv, RowsCounted
    <3>4. OnlyMoves(m)
      BY <3>1, <3>2 DEF IInv, TypeOK, OnlyMoves, MessageStates, Running
    <3>. QED
      BY <3>1, <3>2, <3>3, <3>4 DEF IInv, TypeOK
  <2>. QED
    BY <2>1, <2>2, <2>3 DEF Pickup, NoRow
<1>4. RowsKept /\ status' = status
  BY DEF Pickup, RowsKept, NoRow, OneRow
<1>5. TypeOK'
  BY <1>1, <1>3 DEF IInv, TypeOK, Pickup, OnlyMoves
<1>6. RunStep(m, o)
  BY <1>1, <1>2, <1>3, <1>4
     DEF IInv, RowsCounted, Pickup, RunStep, RowsKept, OnlyMoves, MoneyKept,
         Exists, Running
<1>. QED
  BY <1>1, <1>3, <1>4, <1>5, <1>6, QuietStepKeeps DEF Pickup

(* The first job row: the run is the order's only ticket. *)
LEMMA CreateJobKeeps ==
  ASSUME IInv, NEW m \in Messages, NEW o \in Orders, message[m].order = o,
         CreateJob(m)
  PROVE  IInv' /\ RunStep(m, o)
<1>1. MoneyKept /\ WalletTypeOK'
  BY NoMoneyMoves DEF IInv, TypeOK, walletVars, CreateJob
<1>2. message[m].pc # "none" /\ Exists(o) /\ Len(jobs[o]) = 0
  BY DEF CreateJob, IInv, WorkIsForOrders, RunHasRow, NoRow
<1>3. /\ OnlyMoves(m)
      /\ message'[m].pc = "begin_moderation"
      /\ message'[m].order = o
      /\ message'[m].job = 1
  <2>1. message[m] \in [pc : MessageStates, order : Orders, job : Nat]
    BY DEF IInv, TypeOK
  <2>. DEFINE k == Len(jobs[o]) + 1
  <2>2. k = 1
    BY <1>2
  <2>. HIDE DEF k
  <2>3. message' = [message EXCEPT ![m].pc = "begin_moderation", ![m].job = k]
    BY DEF CreateJob, k
  <2>4. message' = [message EXCEPT ![m] = [message[m] EXCEPT !.pc = "begin_moderation",
                                                             !.job = 1]]
    BY <2>2, <2>3
  <2>5. OnlyMoves(m)
    BY <2>1, <2>4 DEF IInv, TypeOK, OnlyMoves, MessageStates, Running
  <2>. QED
    BY <2>1, <2>4, <2>5 DEF IInv, TypeOK
<1>4. /\ jobs' \in [Orders -> Seq(JobStatus)]
      /\ OneRow(o)' /\ ~ NoRow(o)'
      /\ \A p \in Orders : p # o => (NoRow(p)' <=> NoRow(p)) /\ (OneRow(p)' <=> OneRow(p))
  <2>. DEFINE row == Append(jobs[o], "pending")
  <2>1. jobs' = [jobs EXCEPT ![o] = row] /\ jobs[o] \in Seq(JobStatus)
    BY DEF IInv, TypeOK, CreateJob
  <2>2. row \in Seq(JobStatus) /\ Len(row) = 1
    BY <1>2, <2>1 DEF JobStatus
  <2>. HIDE DEF row
  <2>3. jobs' \in [Orders -> Seq(JobStatus)]
    BY <2>1, <2>2 DEF IInv, TypeOK
  <2>4. jobs'[o] = row /\ \A p \in Orders : p # o => jobs'[p] = jobs[p]
    BY <2>1 DEF IInv, TypeOK
  <2>5. Len(jobs'[o]) = 1
    BY <2>2, <2>4
  <2>6. OneRow(o)' /\ ~ NoRow(o)'
    BY <2>5 DEF NoRow, OneRow
  <2>7. \A p \in Orders : p # o => (NoRow(p)' <=> NoRow(p)) /\ (OneRow(p)' <=> OneRow(p))
    BY <2>4 DEF NoRow, OneRow
  <2>. QED
    BY <2>3, <2>6, <2>7
<1>5. TypeOK'
  BY <1>1, <1>3, <1>4 DEF IInv, TypeOK, CreateJob, OnlyMoves
<1>6. RunStep(m, o)
  BY <1>1, <1>2, <1>3, <1>4
     DEF IInv, RowsCounted, CreateJob, RunStep, OnlyMoves, MoneyKept, Exists, Running
<1>. QED
  BY <1>1, <1>3, <1>5, <1>6, QuietStepKeeps DEF CreateJob

(* Blocked: the refund lands with the rejection. *)
LEMMA BlockKeeps ==
  ASSUME IInv, NEW m \in Messages, NEW o \in Orders, message[m].order = o,
         Block(m)
  PROVE  IInv' /\ RunStep(m, o)
<1>1. /\ WalletTypeOK'
      /\ \A p \in Orders : /\ Charged(p)' <=> Charged(p)
                           /\ CommissionPaid(p)' <=> CommissionPaid(p)
                           /\ Refunded(p) => Refunded(p)'
      /\ Refunded(o)'
  BY RefundMoves DEF IInv, TypeOK, Block
<1>2. message[m].pc \in Running \ {"create_job"}
  BY DEF Block, Running
<1>3. OnlyMoves(m) /\ message'[m].pc = "none"
  BY EndedMoves DEF IInv, Block
<1>4. Turns(o, "rejected")
  BY <1>2, StatusesSet DEF IInv, Block, JobStatus, OrderStatus
<1>5. TypeOK'
  BY <1>1, <1>3, <1>4 DEF IInv, TypeOK, Block, OnlyMoves, Turns
<1>6. RunStep(m, o)
  BY <1>1, <1>2, <1>3, <1>4, LateStep DEF Block, Turns
<1>7. StoredBeforeFinish'
  BY <1>3 DEF IInv, StoredBeforeFinish, Block, OnlyMoves
<1>8. RejectedIsRefunded'
  BY <1>1, <1>4 DEF IInv, RejectedIsRefunded, Turns
<1>9. PaidForDelivery'
  BY <1>1, <1>4 DEF IInv, PaidForDelivery, Turns, EarnsCommission, Block
<1>. QED
  BY <1>5, <1>6, <1>7, <1>8, <1>9, RunStepKeeps DEF IInv

(* Delivered: the commission lands with the status. *)
LEMMA FinishKeeps ==
  ASSUME IInv, NEW m \in Messages, NEW o \in Orders, message[m].order = o,
         Finish(m)
  PROVE  IInv' /\ RunStep(m, o)
<1>1. /\ WalletTypeOK'
      /\ \A p \in Orders : /\ Charged(p)' <=> Charged(p)
                           /\ Refunded(p)' <=> Refunded(p)
                           /\ CommissionPaid(p) => CommissionPaid(p)'
                           /\ CommissionPaid(p)' => CommissionPaid(p) \/ p = o
      /\ EarnsCommission(o) => CommissionPaid(o)'
  BY CommissionMoves DEF IInv, TypeOK, Finish
<1>2. message[m].pc \in Running \ {"create_job"} /\ o \in stored
  BY DEF Finish, Running, IInv, StoredBeforeFinish
<1>3. OnlyMoves(m) /\ message'[m].pc = "none"
  BY EndedMoves DEF IInv, Finish
<1>4. Turns(o, "done")
  BY <1>2, StatusesSet DEF IInv, Finish, JobStatus, OrderStatus
<1>5. TypeOK'
  BY <1>1, <1>3, <1>4 DEF IInv, TypeOK, Finish, OnlyMoves, Turns
<1>6. RunStep(m, o)
  BY <1>1, <1>2, <1>3, <1>4, LateStep DEF Finish, Turns
<1>7. StoredBeforeFinish'
  BY <1>3 DEF IInv, StoredBeforeFinish, Finish, OnlyMoves
<1>8. RejectedIsRefunded'
  BY <1>1, <1>4 DEF IInv, RejectedIsRefunded, Turns
<1>9. PaidForDelivery'
  BY <1>1, <1>2, <1>4 DEF IInv, PaidForDelivery, Turns, EarnsCommission, Finish
<1>. QED
  BY <1>5, <1>6, <1>7, <1>8, <1>9, RunStepKeeps DEF IInv

-----------------------------------------------------------------------------
(* Purchases, requests and the worker process *)

(* Steps that touch no order row, no job row, no object and no order's     *)
(* money keep what IInv says of those.                                     *)
LEMMA RowsStill ==
  ASSUME IInv, MoneyKept, UNCHANGED <<status, jobs, stored>>
  PROVE  /\ OrderIffCharged' /\ RowsCounted' /\ NoRowNoProgress'
         /\ RejectedIsRefunded' /\ PaidForDelivery'
         /\ RowsKept /\ \A o \in Orders : Exists(o)' <=> Exists(o)
<1>1. RowsKept /\ \A o \in Orders : Exists(o)' <=> Exists(o)
  BY DEF RowsKept, NoRow, OneRow, Exists
<1>2. OrderIffCharged' /\ RejectedIsRefunded'
  BY <1>1 DEF IInv, OrderIffCharged, RejectedIsRefunded, MoneyKept
<1>3. RowsCounted' /\ NoRowNoProgress'
  BY <1>1 DEF IInv, RowsCounted, NoRowNoProgress, RowsKept
<1>4. PaidForDelivery'
  BY DEF IInv, PaidForDelivery, MoneyKept, EarnsCommission
<1>. QED
  BY <1>1, <1>2, <1>3, <1>4

(* A step that leaves the queue and the stored objects alone keeps what    *)
(* IInv says of runs.                                                      *)
LEMMA RunsStill ==
  ASSUME IInv, TypeOK', RowsKept, UNCHANGED <<message, stored>>
  PROVE  RunHasRow' /\ StoredBeforeFinish'
<1>1. StoredBeforeFinish'
  BY DEF IInv, StoredBeforeFinish
<1>2. \A m \in Messages : message[m].order \in Orders
  BY DEF IInv, TypeOK
<1>3. RunHasRow'
  <2>. SUFFICES ASSUME NEW m \in Messages, NEW p \in Orders, message[m].order = p
                PROVE  /\ message'[m].pc = "create_job" => NoRow(p)'
                       /\ message'[m].pc \in Running \ {"create_job"} =>
                            OneRow(p)' /\ message'[m].job = 1
    BY <1>2 DEF RunHasRow, NoRow, OneRow
  <2>. QED
    BY DEF IInv, RunHasRow, RowsKept
<1>. QED
  BY <1>1, <1>3

(* A captured payment. *)
LEMMA TopUpKeeps ==
  ASSUME IInv, NEW u \in Users, TopUp(u)
  PROVE  IInv'
<1>1. MoneyKept /\ WalletTypeOK'
  BY PurchaseMoves DEF IInv, TypeOK, TopUp
<1>2. TypeOK'
  BY <1>1 DEF IInv, TypeOK, TopUp, pipelineVars
<1>3. /\ OrderIffCharged' /\ RowsCounted' /\ NoRowNoProgress'
      /\ RejectedIsRefunded' /\ PaidForDelivery'
      /\ RowsKept /\ \A o \in Orders : Exists(o)' <=> Exists(o)
  BY <1>1, RowsStill DEF TopUp, pipelineVars
<1>4. RunHasRow' /\ StoredBeforeFinish'
  BY <1>2, <1>3, RunsStill DEF TopUp, pipelineVars
<1>5. /\ \A m \in Messages, o \in Orders : Queued(m, o)' => Queued(m, o)
      /\ \A c \in Clients, o \in Orders : Enqueueing(c, o)' => Enqueueing(c, o)
      /\ \A o \in Orders : Fresh(o)' => Fresh(o)
  BY <1>3 DEF TopUp, pipelineVars, Queued, Enqueueing, Fresh, RowsKept
<1>6. OneTicket'
  BY <1>5, TicketsKept DEF TopUp, pipelineVars
<1>7. WorkIsForOrders'
  BY <1>2, <1>3, <1>5, WorkKept DEF IInv, WorkIsForOrders, RowsKept
<1>8. OpenBeforeDeath'
  BY DEF IInv, OpenBeforeDeath, TopUp, pipelineVars
<1>. QED
  BY <1>2, <1>3, <1>4, <1>6, <1>7, <1>8 DEF IInv

(* The idle request is one of the request's states. *)
LEMMA IdleTyped ==
  Idle \in [pc : {"idle", "place", "enqueue"}, order : Orders] /\ Idle.pc = "idle"
  BY NoMsgTyped DEF Idle

(* A request moves between its steps and writes nothing: the lookup, the   *)
(* refusal, and the enqueue that failed.                                   *)
LEMMA RequestStepKeeps ==
  ASSUME IInv, NEW c \in Clients,
         client' \in [Clients -> [pc : {"idle", "place", "enqueue"}, order : Orders]],
         client'[c].pc # "enqueue",
         \A d \in Clients : d # c => client'[d] = client[d],
         UNCHANGED <<rows, balance, status, jobs, stored, message, rowLock,
                     worker, stuck, crashes>>
  PROVE  IInv'
<1>1. MoneyKept /\ WalletTypeOK'
  BY NoMoneyMoves DEF IInv, TypeOK, walletVars
<1>2. TypeOK'
  BY <1>1 DEF IInv, TypeOK
<1>3. /\ OrderIffCharged' /\ RowsCounted' /\ NoRowNoProgress'
      /\ RejectedIsRefunded' /\ PaidForDelivery'
      /\ RowsKept /\ \A o \in Orders : Exists(o)' <=> Exists(o)
  BY <1>1, RowsStill
<1>4. RunHasRow' /\ StoredBeforeFinish'
  BY <1>2, <1>3, RunsStill
<1>5. /\ \A m \in Messages, o \in Orders : Queued(m, o)' => Queued(m, o)
      /\ \A d \in Clients, o \in Orders : Enqueueing(d, o)' => Enqueueing(d, o)
      /\ \A o \in Orders : Fresh(o)' => Fresh(o)
  BY <1>3 DEF Queued, Enqueueing, Fresh, RowsKept
<1>6. OneTicket'
  BY <1>5, TicketsKept
<1>7. WorkIsForOrders'
  BY <1>2, <1>3, <1>5, WorkKept DEF IInv, WorkIsForOrders, RowsKept
<1>8. OpenBeforeDeath'
  <2>1. \A d \in Clients : client'[d].pc = "enqueue" => client'[d] = client[d]
    OBVIOUS
  <2>. QED
    BY <2>1 DEF IInv, OpenBeforeDeath
<1>. QED
  BY <1>2, <1>3, <1>4, <1>6, <1>7, <1>8 DEF IInv

(* No order under the key yet: the request goes on to place one. *)
LEMMA LookUpOrderKeeps ==
  ASSUME IInv, NEW c \in Clients, LookUpOrder(c)
  PROVE  IInv'
<1>1. PICK o \in Orders : client' = [client EXCEPT ![c] = [pc |-> "place", order |-> o]]
  BY DEF LookUpOrder
<1>2. /\ client' \in [Clients -> [pc : {"idle", "place", "enqueue"}, order : Orders]]
      /\ client'[c].pc = "place"
      /\ \A d \in Clients : d # c => client'[d] = client[d]
  BY <1>1 DEF IInv, TypeOK
<1>. QED
  BY <1>2, RequestStepKeeps DEF LookUpOrder

(* A request that is over. *)
LEMMA RequestOver ==
  ASSUME IInv, NEW c \in Clients, client' = [client EXCEPT ![c] = Idle]
  PROVE  /\ client' \in [Clients -> [pc : {"idle", "place", "enqueue"}, order : Orders]]
         /\ client'[c].pc = "idle"
         /\ \A d \in Clients : d # c => client'[d] = client[d]
  BY IdleTyped DEF IInv, TypeOK

(* The balance is short or the key is taken: nothing is written. *)
LEMMA RefuseOrderKeeps ==
  ASSUME IInv, NEW c \in Clients, RefuseOrder(c)
  PROVE  IInv'
<1>1. client' = [client EXCEPT ![c] = Idle]
  BY DEF RefuseOrder
<1>2. /\ client' \in [Clients -> [pc : {"idle", "place", "enqueue"}, order : Orders]]
      /\ client'[c].pc = "idle"
      /\ \A d \in Clients : d # c => client'[d] = client[d]
  BY <1>1, RequestOver
<1>. QED
  BY <1>2, RequestStepKeeps DEF RefuseOrder

(* The best-effort enqueue fails: the order's only ticket is lost. *)
LEMMA EnqueueFailsKeeps ==
  ASSUME IInv, NEW c \in Clients, EnqueueFails(c)
  PROVE  IInv'
<1>1. client' = [client EXCEPT ![c] = Idle]
  BY DEF EnqueueFails
<1>2. /\ client' \in [Clients -> [pc : {"idle", "place", "enqueue"}, order : Orders]]
      /\ client'[c].pc = "idle"
      /\ \A d \in Clients : d # c => client'[d] = client[d]
  BY <1>1, RequestOver
<1>. QED
  BY <1>2, RequestStepKeeps DEF EnqueueFails

(* An order that does not exist has no job row and no ticket. *)
LEMMA AbsentHasNoWork ==
  ASSUME IInv, NEW o \in Orders, ~ Exists(o)
  PROVE  /\ NoRow(o) /\ o \notin stuck
         /\ \A m \in Messages : ~ Queued(m, o)
         /\ \A c \in Clients : ~ Enqueueing(c, o)
<1>1. NoRow(o)
  BY DEF IInv, WorkIsForOrders, RowsCounted
<1>2. o \notin stuck
  BY <1>1 DEF IInv, OneTicket, Fresh
<1>. QED
  BY <1>1, <1>2 DEF IInv, WorkIsForOrders, Queued, Enqueueing

(* The order row and its debit, one commit: the order's first ticket is    *)
(* the request itself.                                                     *)
LEMMA PlaceOrderKeeps ==
  ASSUME IInv, NEW c \in Clients, PlaceOrder(c)
  PROVE  IInv'
<1>1. PICK o \in Orders : client[c].order = o
  BY DEF IInv, TypeOK
<1>2. /\ ~ Exists(o)
      /\ status' = [status EXCEPT ![o] = "queued"]
      /\ Charge(o)
      /\ client' = [client EXCEPT ![c].pc = "enqueue"]
      /\ UNCHANGED <<jobs, stored, message, rowLock, worker, stuck, crashes>>
  BY <1>1 DEF PlaceOrder
<1>3. /\ WalletTypeOK'
      /\ Charged(o)'
      /\ \A p \in Orders : /\ p # o => (Charged(p)' <=> Charged(p))
                           /\ Refunded(p)' <=> Refunded(p)
                           /\ CommissionPaid(p)' <=> CommissionPaid(p)
  BY <1>2, ChargeMoves DEF IInv, TypeOK
<1>4. /\ status' \in [Orders -> OrderStatus \cup {"absent"}]
      /\ status'[o] = "queued"
      /\ \A p \in Orders : p # o => status'[p] = status[p]
  BY <1>2 DEF IInv, TypeOK, OrderStatus
<1>5. /\ client' \in [Clients -> [pc : {"idle", "place", "enqueue"}, order : Orders]]
      /\ client'[c].pc = "enqueue" /\ client'[c].order = o
      /\ \A d \in Clients : d # c => client'[d] = client[d]
  <2>1. client[c] \in [pc : {"idle", "place", "enqueue"}, order : Orders]
    BY DEF IInv, TypeOK
  <2>2. client' = [client EXCEPT ![c] = [client[c] EXCEPT !.pc = "enqueue"]]
    BY <1>2
  <2>. QED
    BY <1>1, <2>1, <2>2 DEF IInv, TypeOK
<1>6. TypeOK'
  BY <1>2, <1>3, <1>4, <1>5 DEF IInv, TypeOK
<1>7. RowsKept /\ \A p \in Orders : Fresh(p)' <=> Fresh(p)
  BY <1>2 DEF RowsKept, NoRow, OneRow, Fresh
<1>8. /\ NoRow(o) /\ o \notin stuck
      /\ \A m \in Messages : ~ Queued(m, o)
      /\ \A d \in Clients : ~ Enqueueing(d, o)
  BY <1>2, AbsentHasNoWork
<1>9. /\ \A m \in Messages, p \in Orders : Queued(m, p)' <=> Queued(m, p)
      /\ \A d \in Clients, p \in Orders :
           Enqueueing(d, p)' => Enqueueing(d, p) \/ (d = c /\ p = o)
  BY <1>2, <1>5 DEF Queued, Enqueueing
<1>10. \A p \in Orders : Exists(p)' <=> Exists(p) \/ p = o
  BY <1>2, <1>4 DEF Exists
<1>11. OrderIffCharged'
  BY <1>3, <1>10 DEF IInv, OrderIffCharged
<1>12. WorkIsForOrders'
  <2>1. ASSUME NEW m \in Messages, message'[m].pc # "none"
        PROVE  Exists(message[m].order)'
    BY <1>2, <1>4, <2>1 DEF IInv, TypeOK, WorkIsForOrders, Exists
  <2>2. ASSUME NEW d \in Clients, client'[d].pc = "enqueue"
        PROVE  Exists(client[d].order)'
    BY <1>4, <1>5, <2>2 DEF IInv, TypeOK, WorkIsForOrders, Exists
  <2>3. ASSUME NEW p \in Orders, OneRow(p)' PROVE Exists(p)'
    BY <1>7, <1>10, <2>3 DEF IInv, WorkIsForOrders, RowsKept
  <2>. QED
    BY <2>1, <2>2, <2>3 DEF WorkIsForOrders
<1>13. OneTicket'
  <2>. SUFFICES ASSUME NEW p \in Orders, Fresh(p)'
                PROVE  /\ p \notin stuck'
                       /\ \A m, n \in Messages : Queued(m, p)' /\ Queued(n, p)' => m = n
                       /\ \A d, e \in Clients :
                            Enqueueing(d, p)' /\ Enqueueing(e, p)' => d = e
                       /\ \A m \in Messages, d \in Clients :
                            ~ (Queued(m, p)' /\ Enqueueing(d, p)')
    BY DEF OneTicket
  <2>1. CASE p = o
    BY <1>2, <1>8, <1>9, <2>1
  <2>2. CASE p # o
    BY <1>2, <1>7, <1>9, <2>2 DEF IInv, OneTicket
  <2>. QED
    BY <2>1, <2>2
<1>14. RowsCounted' /\ NoRowNoProgress'
  BY <1>4, <1>7 DEF IInv, RowsCounted, NoRowNoProgress, RowsKept
<1>15. RunHasRow' /\ StoredBeforeFinish'
  BY <1>2, <1>6, <1>7, RunsStill
<1>16. OpenBeforeDeath'
  <2>1. \A p \in Orders : status[p] \in OpenStatus => status'[p] \in OpenStatus
    BY <1>4 DEF OpenStatus
  <2>2. ASSUME NEW m \in Messages, message'[m].pc # "none", crashes' = 0
        PROVE  status'[message'[m].order] \in OpenStatus
    BY <1>2, <2>1, <2>2 DEF IInv, TypeOK, OpenBeforeDeath
  <2>3. ASSUME NEW d \in Clients, client'[d].pc = "enqueue", crashes' = 0
        PROVE  status'[client'[d].order] \in OpenStatus
    <3>1. CASE d = c
      BY <1>4, <1>5, <3>1 DEF OpenStatus
    <3>2. CASE d # c
      BY <1>2, <1>5, <2>1, <2>3, <3>2 DEF IInv, TypeOK, OpenBeforeDeath
    <3>. QED
      BY <3>1, <3>2
  <2>. QED
    BY <1>2, <2>2, <2>3 DEF IInv, OpenBeforeDeath
<1>17. RejectedIsRefunded'
  BY <1>3, <1>4 DEF IInv, RejectedIsRefunded
<1>18. PaidForDelivery'
  BY <1>2, <1>3, <1>4 DEF IInv, PaidForDelivery, EarnsCommission
<1>. QED
  BY <1>6, <1>11, <1>12, <1>13, <1>14, <1>15, <1>16, <1>17, <1>18 DEF IInv

(* A message for order o in a slot that was free. *)
LEMMA Enqueued ==
  ASSUME TypeOK, NEW o \in Orders, Enqueue(o)
  PROVE  \E m \in Messages :
           /\ message[m].pc = "none"
           /\ OnlyMoves(m)
           /\ message'[m].pc = "waiting" /\ message'[m].order = o
<1>1. PICK m \in Messages :
        /\ message[m].pc = "none"
        /\ message' = [message EXCEPT ![m] =
                         [pc |-> "waiting", order |-> o, job |-> 0]]
  BY DEF Enqueue
<1>2. [pc |-> "waiting", order |-> o, job |-> 0]
        \in [pc : MessageStates, order : Orders, job : Nat]
  BY DEF MessageStates
<1>. QED
  BY <1>1, <1>2 DEF TypeOK, OnlyMoves

(* A new message runs nothing yet. *)
LEMMA EnqueueKeepsRuns ==
  ASSUME IInv, TypeOK', RowsKept, stored' = stored, NEW m \in Messages,
         OnlyMoves(m), message'[m].pc = "waiting"
  PROVE  RunHasRow' /\ StoredBeforeFinish'
<1>1. \A n \in Messages : message'[n].pc \in Running => message'[n] = message[n]
  BY DEF OnlyMoves, Running
<1>2. StoredBeforeFinish'
  BY <1>1 DEF IInv, StoredBeforeFinish, Running
<1>3. \A n \in Messages : message'[n].order \in Orders
  BY DEF TypeOK
<1>4. RunHasRow'
  <2>. SUFFICES ASSUME NEW n \in Messages, NEW p \in Orders, message'[n].order = p
                PROVE  /\ message'[n].pc = "create_job" => NoRow(p)'
                       /\ message'[n].pc \in Running \ {"create_job"} =>
                            OneRow(p)' /\ message'[n].job = 1
    BY <1>3 DEF RunHasRow, NoRow, OneRow
  <2>. QED
    BY <1>1 DEF IInv, RunHasRow, RowsKept, Running
<1>. QED
  BY <1>2, <1>4

(* The order's ticket passes from the request to a message. *)
LEMMA EnqueueOrderKeeps ==
  ASSUME IInv, NEW c \in Clients, EnqueueOrder(c)
  PROVE  IInv'
<1>1. PICK o \in Orders : client[c].order = o
  BY DEF IInv, TypeOK
<1>2. PICK m \in Messages :
        /\ message[m].pc = "none"
        /\ OnlyMoves(m)
        /\ message'[m].pc = "waiting" /\ message'[m].order = o
  BY <1>1, Enqueued DEF IInv, EnqueueOrder
<1>3. /\ client[c].pc = "enqueue"
      /\ client' \in [Clients -> [pc : {"idle", "place", "enqueue"}, order : Orders]]
      /\ client'[c].pc = "idle"
      /\ \A d \in Clients : d # c => client'[d] = client[d]
  BY RequestOver DEF EnqueueOrder
<1>4. MoneyKept /\ WalletTypeOK'
  BY NoMoneyMoves DEF IInv, TypeOK, walletVars, EnqueueOrder
<1>5. TypeOK'
  BY <1>2, <1>3, <1>4 DEF IInv, TypeOK, OnlyMoves, EnqueueOrder
<1>6. /\ OrderIffCharged' /\ RowsCounted' /\ NoRowNoProgress'
      /\ RejectedIsRefunded' /\ PaidForDelivery'
      /\ RowsKept /\ \A p \in Orders : Exists(p)' <=> Exists(p)
  BY <1>4, RowsStill DEF EnqueueOrder
<1>7. RunHasRow' /\ StoredBeforeFinish'
  BY <1>2, <1>5, <1>6, EnqueueKeepsRuns DEF EnqueueOrder
<1>8. /\ \A n \in Messages, p \in Orders :
           Queued(n, p)' => Queued(n, p) \/ (n = m /\ p = o)
      /\ \A d \in Clients, p \in Orders :
           Enqueueing(d, p)' => Enqueueing(d, p) /\ d # c
      /\ \A p \in Orders : Fresh(p)' <=> Fresh(p)
      /\ Enqueueing(c, o) /\ Exists(o)
  BY <1>1, <1>2, <1>3, <1>6
     DEF Queued, Enqueueing, OnlyMoves, Fresh, RowsKept, EnqueueOrder,
         IInv, WorkIsForOrders
<1>9. OneTicket'
  <2>. SUFFICES ASSUME NEW p \in Orders, Fresh(p)'
                PROVE  /\ p \notin stuck'
                       /\ \A n, k \in Messages : Queued(n, p)' /\ Queued(k, p)' => n = k
                       /\ \A d, e \in Clients :
                            Enqueueing(d, p)' /\ Enqueueing(e, p)' => d = e
                       /\ \A n \in Messages, d \in Clients :
                            ~ (Queued(n, p)' /\ Enqueueing(d, p)')
    BY DEF OneTicket
  <2>1. /\ p \notin stuck
        /\ \A n, k \in Messages : Queued(n, p) /\ Queued(k, p) => n = k
        /\ \A d, e \in Clients : Enqueueing(d, p) /\ Enqueueing(e, p) => d = e
        /\ \A n \in Messages, d \in Clients : ~ (Queued(n, p) /\ Enqueueing(d, p))
    BY <1>8 DEF IInv, OneTicket
  <2>2. p \notin stuck'
    BY <2>1 DEF EnqueueOrder
  <2>3. CASE p = o
    BY <1>8, <2>1, <2>2, <2>3
  <2>4. CASE p # o
    BY <1>8, <2>1, <2>2, <2>4
  <2>. QED
    BY <2>3, <2>4
<1>10. WorkIsForOrders'
  <2>1. ASSUME NEW n \in Messages, message'[n].pc # "none"
        PROVE  Exists(message[n].order)'
    BY <1>2, <1>8, <2>1
       DEF IInv, TypeOK, WorkIsForOrders, OnlyMoves, Exists, EnqueueOrder
  <2>2. ASSUME NEW d \in Clients, client'[d].pc = "enqueue"
        PROVE  Exists(client[d].order)'
    BY <1>3, <2>2 DEF IInv, TypeOK, WorkIsForOrders, Exists, EnqueueOrder
  <2>3. ASSUME NEW p \in Orders, OneRow(p)' PROVE Exists(p)'
    BY <1>6, <2>3 DEF IInv, WorkIsForOrders, RowsKept
  <2>. QED
    BY <2>1, <2>2, <2>3 DEF WorkIsForOrders
<1>11. OpenBeforeDeath'
  BY <1>1, <1>2, <1>3 DEF IInv, OpenBeforeDeath, OnlyMoves, EnqueueOrder
<1>. QED
  BY <1>5, <1>6, <1>7, <1>9, <1>10, <1>11 DEF IInv

(* The starting worker enqueues an order it has reset: that order has a    *)
(* job row and a death behind it, and may have as many tickets as it will. *)
LEMMA ReEnqueueKeeps ==
  ASSUME IInv, ReEnqueue
  PROVE  IInv'
<1>1. PICK o \in stuck : Enqueue(o) /\ stuck' = stuck \ {o}
  BY DEF ReEnqueue
<1>2. o \in Orders /\ ~ Fresh(o) /\ Exists(o)
  <2>1. o \in Orders /\ ~ Fresh(o)
    BY DEF IInv, TypeOK, OneTicket
  <2>. QED
    BY <2>1 DEF Fresh, IInv, RowsCounted, WorkIsForOrders
<1>3. PICK m \in Messages :
        /\ message[m].pc = "none"
        /\ OnlyMoves(m)
        /\ message'[m].pc = "waiting" /\ message'[m].order = o
  BY <1>1, <1>2, Enqueued DEF IInv
<1>4. MoneyKept /\ WalletTypeOK'
  BY NoMoneyMoves DEF IInv, TypeOK, walletVars, ReEnqueue
<1>5. TypeOK'
  BY <1>1, <1>3, <1>4 DEF IInv, TypeOK, OnlyMoves, ReEnqueue
<1>6. /\ OrderIffCharged' /\ RowsCounted' /\ NoRowNoProgress'
      /\ RejectedIsRefunded' /\ PaidForDelivery'
      /\ RowsKept /\ \A p \in Orders : Exists(p)' <=> Exists(p)
  BY <1>4, RowsStill DEF ReEnqueue
<1>7. RunHasRow' /\ StoredBeforeFinish'
  BY <1>3, <1>5, <1>6, EnqueueKeepsRuns DEF ReEnqueue
<1>8. /\ \A n \in Messages, p \in Orders : p # o /\ Queued(n, p)' => Queued(n, p)
      /\ \A d \in Clients, p \in Orders : Enqueueing(d, p)' => Enqueueing(d, p)
      /\ \A p \in Orders : Fresh(p)' <=> Fresh(p)
  BY <1>3, <1>6 DEF Queued, Enqueueing, OnlyMoves, Fresh, RowsKept, ReEnqueue
<1>9. OneTicket'
  BY <1>1, <1>2, <1>8 DEF IInv, OneTicket
<1>10. WorkIsForOrders'
  <2>1. ASSUME NEW n \in Messages, message'[n].pc # "none"
        PROVE  Exists(message[n].order)'
    BY <1>2, <1>3, <2>1
       DEF IInv, TypeOK, WorkIsForOrders, OnlyMoves, Exists, ReEnqueue
  <2>2. ASSUME NEW d \in Clients, client'[d].pc = "enqueue"
        PROVE  Exists(client[d].order)'
    BY <2>2 DEF IInv, TypeOK, WorkIsForOrders, Exists, ReEnqueue
  <2>3. ASSUME NEW p \in Orders, OneRow(p)' PROVE Exists(p)'
    BY <1>6, <2>3 DEF IInv, WorkIsForOrders, RowsKept
  <2>. QED
    BY <2>1, <2>2, <2>3 DEF WorkIsForOrders
<1>11. OpenBeforeDeath'
  BY DEF IInv, OpenBeforeDeath, ReEnqueue
<1>. QED
  BY <1>5, <1>6, <1>7, <1>9, <1>10, <1>11 DEF IInv

(* The reconciliation is over and the worker takes messages again. *)
LEMMA WorkerReadyKeeps ==
  ASSUME IInv, WorkerReady
  PROVE  IInv'
<1>1. MoneyKept /\ WalletTypeOK'
  BY NoMoneyMoves DEF IInv, TypeOK, walletVars, WorkerReady
<1>2. TypeOK'
  BY <1>1 DEF IInv, TypeOK, WorkerReady
<1>3. /\ OrderIffCharged' /\ RowsCounted' /\ NoRowNoProgress'
      /\ RejectedIsRefunded' /\ PaidForDelivery'
      /\ RowsKept /\ \A o \in Orders : Exists(o)' <=> Exists(o)
  BY <1>1, RowsStill DEF WorkerReady
<1>4. RunHasRow' /\ StoredBeforeFinish'
  BY <1>2, <1>3, RunsStill DEF WorkerReady
<1>5. /\ \A m \in Messages, o \in Orders : Queued(m, o)' => Queued(m, o)
      /\ \A d \in Clients, o \in Orders : Enqueueing(d, o)' => Enqueueing(d, o)
      /\ \A o \in Orders : Fresh(o)' => Fresh(o)
  BY <1>3 DEF Queued, Enqueueing, Fresh, RowsKept, WorkerReady
<1>6. OneTicket'
  BY <1>5, TicketsKept DEF WorkerReady
<1>7. WorkIsForOrders'
  BY <1>2, <1>3, <1>5, WorkKept DEF IInv, WorkIsForOrders, RowsKept
<1>8. OpenBeforeDeath'
  BY DEF IInv, OpenBeforeDeath, WorkerReady
<1>. QED
  BY <1>2, <1>3, <1>4, <1>6, <1>7, <1>8 DEF IInv

(* A message that waits for delivery again. *)
LEMMA Redelivered ==
  ASSUME NEW r \in [pc : MessageStates, order : Orders, job : Nat]
  PROVE  LET again == [r EXCEPT !.pc = "waiting", !.job = 0]
         IN  /\ again \in [pc : MessageStates, order : Orders, job : Nat]
             /\ again.pc = "waiting" /\ again.order = r.order
<1>. DEFINE q == [r EXCEPT !.pc = "waiting"]
            again == [q EXCEPT !.job = 0]
<1>1. "waiting" \in MessageStates
  BY DEF MessageStates
<1>2. /\ q \in [pc : MessageStates, order : Orders, job : Nat]
      /\ q.pc = "waiting" /\ q.order = r.order
  BY <1>1
<1>. HIDE DEF q
<1>3. /\ again \in [pc : MessageStates, order : Orders, job : Nat]
      /\ again.pc = "waiting" /\ again.order = r.order
  BY <1>2
<1>. QED
  BY <1>3 DEF q

(* A death: running messages wait again, and the reconciliation that was   *)
(* under way is forgotten.                                                 *)
LEMMA WorkerCrashKeeps ==
  ASSUME IInv, WorkerCrash
  PROVE  IInv'
<1>1. MoneyKept /\ WalletTypeOK'
  BY NoMoneyMoves DEF IInv, TypeOK, walletVars, WorkerCrash
<1>2. /\ message' \in [Messages -> [pc : MessageStates, order : Orders, job : Nat]]
      /\ \A m \in Messages : /\ message'[m].pc \notin Running
                             /\ message'[m].order = message[m].order
                             /\ message'[m].pc # "none" => message[m].pc # "none"
  <2>. SUFFICES ASSUME NEW m \in Messages
                PROVE  /\ message'[m] \in [pc : MessageStates, order : Orders, job : Nat]
                       /\ message'[m].pc \notin Running
                       /\ message'[m].order = message[m].order
                       /\ message'[m].pc # "none" => message[m].pc # "none"
    BY DEF WorkerCrash
  <2>1. message[m] \in [pc : MessageStates, order : Orders, job : Nat]
    BY DEF IInv, TypeOK
  <2>2. CASE message[m].pc \in Running
    <3>1. message'[m] = [message[m] EXCEPT !.pc = "waiting", !.job = 0]
      BY <2>2 DEF WorkerCrash
    <3>2. /\ message'[m].pc = "waiting" /\ message'[m].order = message[m].order
          /\ message'[m] \in [pc : MessageStates, order : Orders, job : Nat]
      BY <2>1, <3>1, Redelivered
    <3>. QED
      BY <2>2, <3>2 DEF Running
  <2>3. CASE message[m].pc \notin Running
    BY <2>1, <2>3 DEF WorkerCrash
  <2>. QED
    BY <2>2, <2>3
<1>3. crashes' \in 0 .. MaxCrashes /\ crashes' # 0
  <2>1. crashes \in 0 .. MaxCrashes /\ crashes < MaxCrashes /\ crashes' = crashes + 1
    BY DEF IInv, TypeOK, WorkerCrash
  <2>. QED
    BY <2>1, CrashAssumption
<1>4. TypeOK'
  BY <1>1, <1>2, <1>3 DEF IInv, TypeOK, WorkerCrash
<1>5. /\ OrderIffCharged' /\ RowsCounted' /\ NoRowNoProgress'
      /\ RejectedIsRefunded' /\ PaidForDelivery'
      /\ RowsKept /\ \A o \in Orders : Exists(o)' <=> Exists(o)
  BY <1>1, RowsStill DEF WorkerCrash
<1>6. RunHasRow' /\ StoredBeforeFinish'
  BY <1>2 DEF RunHasRow, StoredBeforeFinish, Running
<1>7. /\ \A m \in Messages, o \in Orders : Queued(m, o)' => Queued(m, o)
      /\ \A d \in Clients, o \in Orders : Enqueueing(d, o)' => Enqueueing(d, o)
      /\ \A o \in Orders : Fresh(o)' => Fresh(o)
  BY <1>2, <1>3, <1>5 DEF Queued, Enqueueing, Fresh, RowsKept, WorkerCrash
<1>8. OneTicket'
  BY <1>7, TicketsKept DEF WorkerCrash
<1>9. WorkIsForOrders'
  BY <1>4, <1>5, <1>7, WorkKept DEF IInv, WorkIsForOrders, RowsKept
<1>10. OpenBeforeDeath'
  BY <1>3 DEF OpenBeforeDeath
<1>. QED
  BY <1>4, <1>5, <1>6, <1>8, <1>9, <1>10 DEF IInv

(* The reconciliation's commit: what is stuck has a job row, and keeps it. *)
LEMMA WorkerStartKeeps ==
  ASSUME IInv, WorkerStart
  PROVE  IInv'
<1>. DEFINE found == {o \in Orders : status[o] \in StuckStatus}
<1>1. MoneyKept /\ WalletTypeOK'
  BY NoMoneyMoves DEF IInv, TypeOK, walletVars, WorkerStart
<1>2. /\ status' \in [Orders -> OrderStatus \cup {"absent"}]
      /\ \A o \in Orders : o \in found => status'[o] = "queued"
      /\ \A o \in Orders : o \notin found => status'[o] = status[o]
  BY DEF IInv, TypeOK, WorkerStart, ResetOrder, OrderStatus
<1>3. jobs' \in [Orders -> Seq(JobStatus)] /\ RowsKept
  <2>1. \A o \in Orders : jobs'[o] = IF o \in found
                                       THEN [i \in DOMAIN jobs[o] |-> ResetJob]
                                       ELSE jobs[o]
    BY DEF WorkerStart
  <2>2. ASSUME NEW o \in Orders
        PROVE  jobs'[o] \in Seq(JobStatus) /\ Len(jobs'[o]) = Len(jobs[o])
    <3>1. jobs[o] \in Seq(JobStatus)
      BY DEF IInv, TypeOK
    <3>2. /\ [i \in DOMAIN jobs[o] |-> ResetJob] \in Seq(JobStatus)
          /\ Len([i \in DOMAIN jobs[o] |-> ResetJob]) = Len(jobs[o])
      BY <3>1 DEF ResetJob, JobStatus
    <3>. QED
      BY <2>1, <3>1, <3>2
  <2>3. DOMAIN jobs' = Orders /\ jobs' = [o \in Orders |-> jobs'[o]]
    BY DEF WorkerStart
  <2>4. RowsKept
    BY <2>2 DEF RowsKept, NoRow, OneRow
  <2>. QED
    BY <2>2, <2>3, <2>4
<1>4. TypeOK'
  BY <1>1, <1>2, <1>3 DEF IInv, TypeOK, WorkerStart
<1>5. \A o \in found : ~ NoRow(o) /\ Exists(o)
  BY DEF IInv, NoRowNoProgress, Exists, StuckStatus
<1>6. crashes # 0 /\ crashes' = crashes /\ stuck' = found
  BY DEF IInv, OpenBeforeDeath, WorkerStart
<1>7. \A o \in Orders : Exists(o)' <=> Exists(o)
  BY <1>2, <1>5 DEF Exists
<1>8. OrderIffCharged' /\ WorkIsForOrders'
  <2>1. OrderIffCharged'
    BY <1>1, <1>7 DEF IInv, OrderIffCharged, MoneyKept
  <2>2. /\ \A m \in Messages, o \in Orders : Queued(m, o)' => Queued(m, o)
        /\ \A d \in Clients, o \in Orders : Enqueueing(d, o)' => Enqueueing(d, o)
    BY DEF Queued, Enqueueing, WorkerStart
  <2>3. WorkIsForOrders'
    BY <1>3, <1>4, <1>7, <2>2, WorkKept DEF IInv, WorkIsForOrders, RowsKept
  <2>. QED
    BY <2>1, <2>3
<1>9. OneTicket'
  <2>. SUFFICES ASSUME NEW o \in Orders, Fresh(o)'
                PROVE  /\ o \notin stuck'
                       /\ \A m, n \in Messages : Queued(m, o)' /\ Queued(n, o)' => m = n
                       /\ \A c, d \in Clients :
                            Enqueueing(c, o)' /\ Enqueueing(d, o)' => c = d
                       /\ \A m \in Messages, c \in Clients :
                            ~ (Queued(m, o)' /\ Enqueueing(c, o)')
    BY DEF OneTicket
  <2>1. NoRow(o) /\ o \notin found /\ Fresh(o)
    BY <1>3, <1>5, <1>6 DEF Fresh, RowsKept
  <2>2. /\ \A m \in Messages : Queued(m, o)' <=> Queued(m, o)
        /\ \A c \in Clients : Enqueueing(c, o)' <=> Enqueueing(c, o)
    BY DEF Queued, Enqueueing, WorkerStart
  <2>. QED
    BY <1>6, <2>1, <2>2 DEF IInv, OneTicket
<1>10. RowsCounted' /\ NoRowNoProgress'
  BY <1>2, <1>3 DEF IInv, RowsCounted, NoRowNoProgress, RowsKept
<1>11. RunHasRow' /\ StoredBeforeFinish'
  BY <1>3, <1>4, RunsStill DEF WorkerStart
<1>12. OpenBeforeDeath'
  BY <1>6 DEF OpenBeforeDeath
<1>13. RejectedIsRefunded'
  BY <1>1, <1>2 DEF IInv, RejectedIsRefunded, MoneyKept
<1>14. PaidForDelivery'
  BY <1>1, <1>2 DEF IInv, PaidForDelivery, MoneyKept, EarnsCommission, WorkerStart
<1>. QED
  BY <1>4, <1>8, <1>9, <1>10, <1>11, <1>12, <1>13, <1>14 DEF IInv

-----------------------------------------------------------------------------
(* The invariant is inductive *)

(* Before the first request there is nothing to keep. *)
LEMMA Begins ==
  ASSUME Init
  PROVE  IInv
<1>1. WalletTypeOK /\ \A i : ~ HasKey(i)
  BY WalletEmpty DEF Init
<1>2. \A o \in Orders : /\ status[o] = "absent" /\ jobs[o] = <<>>
                        /\ NoRow(o) /\ ~ OneRow(o) /\ ~ Exists(o)
  BY DEF Init, NoRow, OneRow, Exists
<1>3. /\ \A m \in Messages : message[m] = NoMsg /\ message[m].pc = "none"
      /\ \A c \in Clients : client[c] = Idle /\ client[c].pc = "idle"
  BY NoMsgTyped, IdleTyped DEF Init
<1>4. TypeOK
  BY <1>1, NoMsgTyped, IdleTyped, CrashAssumption DEF Init, TypeOK, OrderStatus
<1>5. OrderIffCharged /\ RejectedIsRefunded /\ PaidForDelivery
  BY <1>1, <1>2 DEF OrderIffCharged, RejectedIsRefunded, PaidForDelivery,
                    Charged, Refunded, CommissionPaid
<1>6. WorkIsForOrders /\ RowsCounted /\ NoRowNoProgress
  BY <1>2, <1>3 DEF WorkIsForOrders, RowsCounted, NoRowNoProgress
<1>7. OneTicket
  BY <1>3 DEF Init, OneTicket, Queued, Enqueueing
<1>8. RunHasRow /\ StoredBeforeFinish
  BY <1>3 DEF RunHasRow, StoredBeforeFinish, Running
<1>9. OpenBeforeDeath
  BY <1>3 DEF Init, OpenBeforeDeath
<1>. QED
  BY <1>4, <1>5, <1>6, <1>7, <1>8, <1>9 DEF IInv

(* A step that changes nothing. *)
LEMMA Stutters ==
  ASSUME IInv, UNCHANGED vars
  PROVE  IInv'
<1>1. MoneyKept /\ WalletTypeOK'
  BY NoMoneyMoves DEF IInv, TypeOK, walletVars, vars
<1>2. TypeOK'
  BY <1>1 DEF IInv, TypeOK, vars, pipelineVars
<1>3. /\ OrderIffCharged' /\ RowsCounted' /\ NoRowNoProgress'
      /\ RejectedIsRefunded' /\ PaidForDelivery'
      /\ RowsKept /\ \A o \in Orders : Exists(o)' <=> Exists(o)
  BY <1>1, RowsStill DEF vars, pipelineVars
<1>4. RunHasRow' /\ StoredBeforeFinish'
  BY <1>2, <1>3, RunsStill DEF vars, pipelineVars
<1>5. /\ \A m \in Messages, o \in Orders : Queued(m, o)' => Queued(m, o)
      /\ \A d \in Clients, o \in Orders : Enqueueing(d, o)' => Enqueueing(d, o)
      /\ \A o \in Orders : Fresh(o)' => Fresh(o)
  BY <1>3 DEF Queued, Enqueueing, Fresh, RowsKept, vars, pipelineVars
<1>6. OneTicket'
  BY <1>5, TicketsKept DEF vars, pipelineVars
<1>7. WorkIsForOrders'
  BY <1>2, <1>3, <1>5, WorkKept DEF IInv, WorkIsForOrders, RowsKept
<1>8. OpenBeforeDeath'
  BY DEF IInv, OpenBeforeDeath, vars, pipelineVars
<1>. QED
  BY <1>2, <1>3, <1>4, <1>6, <1>7, <1>8 DEF IInv

(* Whatever step of the pipeline is taken. *)
LEMMA StepKeeps ==
  ASSUME IInv, [Next]_vars
  PROVE  IInv'
<1>1. CASE \E u \in Users : TopUp(u)
  BY <1>1, TopUpKeeps
<1>2. ASSUME NEW c \in Clients, LookUpOrder(c) \/ Request(c) PROVE IInv'
  BY <1>2, LookUpOrderKeeps, PlaceOrderKeeps, RefuseOrderKeeps, EnqueueOrderKeeps,
     EnqueueFailsKeeps DEF Request
<1>3. ASSUME NEW m \in Messages, Run(m) \/ Fail(m) \/ Abandon(m) PROVE IInv'
  <2>1. PICK o \in Orders : message[m].order = o
    BY DEF IInv, TypeOK
  <2>. QED
    BY <1>3, <2>1, PickupKeeps, CreateJobKeeps, BeginModerationKeeps, AllowKeeps,
       BlockKeeps, BeginGeneratingKeeps, RecordOutputKeeps, UploadKeeps,
       FinishKeeps, FailKeeps, AbandonKeeps DEF Run
<1>4. CASE WorkerCrash
  BY <1>4, WorkerCrashKeeps
<1>5. CASE Restart
  BY <1>5, WorkerStartKeeps, ReEnqueueKeeps, WorkerReadyKeeps DEF Restart
<1>6. CASE UNCHANGED vars
  BY <1>6, Stutters
<1>. QED
  BY <1>1, <1>2, <1>3, <1>4, <1>5, <1>6 DEF Next

(* The pipeline keeps its books and its queue in order in every reachable  *)
(* state: tickets, job rows, statuses and the ledger agree.                *)
THEOREM Invariant == Spec => []IInv
<1>1. Init => IInv
  BY Begins
<1>2. IInv /\ [Next]_vars => IInv'
  BY StepKeeps
<1>. QED
  BY <1>1, <1>2, PTL DEF Spec

(* Every variable has its type. *)
THEOREM TypeCorrect == Spec => []TypeOK
<1>1. IInv => TypeOK
  BY DEF IInv
<1>. QED
  BY <1>1, Invariant, PTL

(* create_order: an order exists exactly when its debit does, whatever     *)
(* requests, runs and deaths interleave.                                   *)
THEOREM OrdersAreCharged == Spec => []OrderIffCharged
<1>1. IInv => OrderIffCharged
  BY DEF IInv
<1>. QED
  BY <1>1, Invariant, PTL

(* Nothing is ever queued or run for an order that was not paid for. *)
THEOREM WorkIsPaid == Spec => []NoUnpaidWork
<1>1. IInv => NoUnpaidWork
  BY DEF IInv, TypeOK, WorkIsForOrders, OrderIffCharged, NoUnpaidWork
<1>. QED
  BY <1>1, Invariant, PTL

(* No order ever has a second generation_jobs row, although nothing in the *)
(* schema forbids it: get_by_order_id never raises.                        *)
THEOREM JobRowIsUnique == Spec => []OneJobRow
<1>1. IInv => OneJobRow
  <2>. SUFFICES ASSUME IInv, NEW o \in Orders PROVE Len(jobs[o]) <= 1
    BY DEF OneJobRow
  <2>. DEFINE n == Len(jobs[o])
  <2>1. n = 0 \/ n = 1
    BY DEF IInv, RowsCounted, NoRow, OneRow
  <2>. HIDE DEF n
  <2>2. n <= 1
    BY <2>1
  <2>. QED
    BY <2>2 DEF n
<1>. QED
  BY <1>1, Invariant, PTL

(* run_moderation: an order shown as rejected has its price back. *)
THEOREM RejectionsAreRefunded == Spec => []RejectedIsRefunded
<1>1. IInv => RejectedIsRefunded
  BY DEF IInv
<1>. QED
  BY <1>1, Invariant, PTL

(* generate_content: an order shown as done has its output and its agent's *)
(* commission, and no commission is paid for an output that is not there.  *)
THEOREM DeliveriesArePaid == Spec => []PaidForDelivery
<1>1. IInv => PaidForDelivery
  BY DEF IInv
<1>. QED
  BY <1>1, Invariant, PTL

-----------------------------------------------------------------------------
(* Finished orders stay finished *)

Working(m, o) == message[m].pc \in Running /\ message[m].order = o

(* A step that leaves the status of an order at rest alone, and puts no    *)
(* new run to work on it, leaves it at rest.                               *)
LEMMA RestKept ==
  ASSUME NEW o \in Orders, AtRest(o), status'[o] = status[o],
         \A m \in Messages : Working(m, o)' => Working(m, o)
  PROVE  AtRest(o)' /\ status'[o] = status[o]
  BY DEF AtRest, LiveRun, Working, Finished

(* Whatever step is taken, what is at rest stays so: a run of the order    *)
(* would have to be under way already, and the pickup of a redelivered or  *)
(* duplicate message ends at the terminal-status guard.                    *)
LEMMA RestSteps ==
  ASSUME IInv, [Next]_vars, NEW o \in Orders, AtRest(o)
  PROVE  AtRest(o)' /\ status'[o] = status[o]
<1>1. status[o] \in Finished /\ \A m \in Messages : ~ Working(m, o)
  BY DEF AtRest, LiveRun, Working
<1>2. ASSUME status' = status, message' = message
      PROVE  AtRest(o)' /\ status'[o] = status[o]
  BY <1>2, RestKept DEF Working
<1>3. CASE \E u \in Users : TopUp(u)
  BY <1>2, <1>3 DEF TopUp, pipelineVars
<1>4. ASSUME NEW c \in Clients, LookUpOrder(c) \/ Request(c)
      PROVE  AtRest(o)' /\ status'[o] = status[o]
  <2>1. CASE LookUpOrder(c) \/ RefuseOrder(c) \/ EnqueueFails(c)
    BY <1>2, <2>1 DEF LookUpOrder, RefuseOrder, EnqueueFails
  <2>2. CASE PlaceOrder(c)
    <3>1. status'[o] = status[o] /\ message' = message
      BY <1>1, <2>2 DEF PlaceOrder, Exists, Finished, IInv, TypeOK
    <3>. QED
      BY <3>1, RestKept DEF Working
  <2>3. CASE EnqueueOrder(c)
    <3>1. PICK p \in Orders : client[c].order = p
      BY DEF IInv, TypeOK
    <3>2. PICK m \in Messages : OnlyMoves(m) /\ message'[m].pc = "waiting"
      BY <2>3, <3>1, Enqueued DEF IInv, EnqueueOrder
    <3>3. \A n \in Messages : Working(n, o)' => Working(n, o)
      BY <3>2 DEF Working, OnlyMoves, Running
    <3>. QED
      BY <2>3, <3>3, RestKept DEF EnqueueOrder
  <2>. QED
    BY <1>4, <2>1, <2>2, <2>3 DEF Request
<1>5. ASSUME NEW m \in Messages, Run(m) \/ Fail(m) \/ Abandon(m)
      PROVE  AtRest(o)' /\ status'[o] = status[o]
  <2>1. PICK p \in Orders : message[m].order = p
    BY DEF IInv, TypeOK
  <2>2. RunStep(m, p)
    BY <1>5, <2>1, PickupKeeps, CreateJobKeeps, BeginModerationKeeps, AllowKeeps,
       BlockKeeps, BeginGeneratingKeeps, RecordOutputKeeps, UploadKeeps,
       FinishKeeps, FailKeeps, AbandonKeeps DEF Run
  <2>3. CASE p # o
    <3>1. status'[o] = status[o] /\ \A n \in Messages : Working(n, o)' => Working(n, o)
      BY <2>2, <2>3 DEF RunStep, Working, Running
    <3>. QED
      BY <3>1, RestKept
  <2>4. CASE p = o
    <3>1. message[m].pc \notin Running
      BY <1>1, <2>1, <2>4 DEF Working
    <3>2. Pickup(m)
      BY <1>5, <3>1
         DEF Run, CreateJob, BeginModeration, Allow, Block, BeginGenerating,
             RecordOutput, Upload, Finish, Fail, FailSteps, Abandon, Running
    <3>3. Ended(m) /\ status' = status
      BY <1>1, <2>1, <2>4, <3>2 DEF Pickup, Finished, TerminalGuard
    <3>4. OnlyMoves(m) /\ message'[m].pc = "none"
      BY <3>3, EndedMoves DEF IInv
    <3>5. \A n \in Messages : Working(n, o)' => Working(n, o)
      BY <3>4 DEF Working, OnlyMoves, Running
    <3>. QED
      BY <3>3, <3>5, RestKept
  <2>. QED
    BY <2>3, <2>4
<1>6. CASE WorkerCrash
  <2>1. \A m \in Messages : message'[m].pc \in Running => message'[m] = message[m]
    <3>. SUFFICES ASSUME NEW m \in Messages, message[m].pc \in Running
                  PROVE  message'[m].pc \notin Running
      BY <1>6 DEF WorkerCrash
    <3>1. message[m] \in [pc : MessageStates, order : Orders, job : Nat]
      BY DEF IInv, TypeOK
    <3>2. message'[m].pc = "waiting"
      BY <1>6, <3>1, Redelivered DEF WorkerCrash
    <3>. QED
      BY <3>2 DEF Running
  <2>. QED
    BY <1>6, <2>1, RestKept DEF WorkerCrash, Working
<1>7. CASE Restart
  <2>1. CASE WorkerStart
    <3>1. status'[o] = status[o] /\ message' = message
      BY <1>1, <2>1 DEF WorkerStart, StuckStatus, Finished
    <3>. QED
      BY <3>1, RestKept DEF Working
  <2>2. CASE ReEnqueue
    <3>1. PICK p \in Orders : Enqueue(p)
      BY <2>2 DEF ReEnqueue, IInv, TypeOK
    <3>2. PICK m \in Messages : OnlyMoves(m) /\ message'[m].pc = "waiting"
      BY <3>1, Enqueued DEF IInv
    <3>3. \A n \in Messages : Working(n, o)' => Working(n, o)
      BY <3>2 DEF Working, OnlyMoves, Running
    <3>. QED
      BY <2>2, <3>3, RestKept DEF ReEnqueue
  <2>3. CASE WorkerReady
    BY <1>2, <2>3 DEF WorkerReady
  <2>. QED
    BY <1>7, <2>1, <2>2, <2>3 DEF Restart
<1>8. CASE UNCHANGED vars
  BY <1>2, <1>8 DEF vars, pipelineVars
<1>. QED
  BY <1>3, <1>4, <1>5, <1>6, <1>7, <1>8 DEF Next

(* An order that is finished and that no run works on stays as it is:      *)
(* redelivered messages, the duplicates of the reconciliation and worker   *)
(* starts do not revive it.                                                *)
THEOREM FinishedStaysFinished == Spec => RestIsFinal
<1>1. IInv /\ [Next]_vars =>
        [\A o \in Orders : AtRest(o) => AtRest(o)' /\ status'[o] = status[o]]_vars
  BY RestSteps
<1>. QED
  BY <1>1, Invariant, PTL DEF Spec, RestIsFinal

-----------------------------------------------------------------------------
(* The pipeline implements OrderLife *)

(* What a customer sees of the statuses. *)
Shown(s) == IF s \in {"queued", "moderating", "generating"} THEN "open" ELSE s

(* A step that shows no customer anything and moves no money. *)
LEMMA Unseen ==
  ASSUME UNCHANGED <<rows, balance>>,
         \A o \in Orders : Shown(status'[o]) = Shown(status[o])
  PROVE  UNCHANGED Life!lifeVars
  BY DEF Life!lifeVars, Shown

(* A step that turns one order from one outcome to another. *)
LEMMA Seen ==
  ASSUME TypeOK, NEW o \in Orders, NEW from, NEW to,
         Shown(status[o]) = from, Shown(status'[o]) = to,
         \A p \in Orders : p # o => status'[p] = status[p]
  PROVE  Life!Turn(o, from, to)
  BY DEF Life!Turn, Shown

(* The ledger operations that both specifications name are the same. *)
LEMMA SamePostings ==
  /\ \A o \in Orders : /\ Life!Charge(o) <=> Charge(o)
                       /\ Life!Refund(o) <=> Refund(o)
                       /\ Life!PayCommission(o) <=> PayCommission(o)
  /\ \A u \in Users : Life!Purchase(u) <=> Purchase(u)
<1>1. \A k, v, d : Life!Post(k, v, d) <=> Post(k, v, d)
  BY DEF Life!Post, Post, Life!HasKey, HasKey, Life!CanAfford, CanAfford
<1>2. \A k, v, d : Life!PostOnce(k, v, d) <=> PostOnce(k, v, d)
  BY <1>1 DEF Life!PostOnce, PostOnce, Life!HasKey, HasKey, Life!walletVars, walletVars
<1>3. \A u \in Users : Life!Purchase(u) <=> Purchase(u)
  BY <1>1 DEF Life!Purchase, Purchase, Life!PurchaseKey, PurchaseKey
<1>4. ASSUME NEW o \in Orders
      PROVE  /\ Life!Charge(o) <=> Charge(o)
             /\ Life!Refund(o) <=> Refund(o)
             /\ Life!PayCommission(o) <=> PayCommission(o)
  <2>1. /\ Life!DebitKey(o) = DebitKey(o)
        /\ Life!RefundKey(o) = RefundKey(o)
        /\ Life!CommissionKey(o) = CommissionKey(o)
        /\ Life!Commission = Commission
        /\ Life!EarnsCommission(o) <=> EarnsCommission(o)
    BY DEF Life!DebitKey, Life!RefundKey, Life!CommissionKey,
           Life!Commission, Life!EarnsCommission, DebitKey, RefundKey,
           CommissionKey, Commission, EarnsCommission
  <2>2. (Life!Charge(o) <=> Charge(o)) /\ (Life!Refund(o) <=> Refund(o))
    BY <1>2, <2>1 DEF Life!Charge, Charge, Life!Refund, Refund
  <2>3. Life!PayCommission(o) <=> PayCommission(o)
    BY <1>2, <2>1
       DEF Life!PayCommission, PayCommission, Life!walletVars, walletVars
  <2>. QED
    BY <2>2, <2>3
<1>. QED
  BY <1>3, <1>4

(* A run's step shows its customer at most the end of its order. *)
LEMMA RunIsLife ==
  ASSUME IInv, crashes = 0, NEW m \in Messages, Run(m) \/ Fail(m) \/ Abandon(m)
  PROVE  Life!LifeNext \/ UNCHANGED Life!lifeVars
<1>1. PICK o \in Orders : message[m].order = o
  BY DEF IInv, TypeOK
<1>2. RunStep(m, o)
  BY <1>1, PickupKeeps, CreateJobKeeps, BeginModerationKeeps, AllowKeeps,
     BlockKeeps, BeginGeneratingKeeps, RecordOutputKeeps, UploadKeeps,
     FinishKeeps, FailKeeps, AbandonKeeps DEF Run
<1>3. Shown(status[o]) = "open" /\ \A p \in Orders : p # o => status'[p] = status[p]
  BY <1>1, <1>2 DEF RunStep, IInv, OpenBeforeDeath, OpenStatus, Shown
<1>4. CASE \/ Pickup(m) \/ CreateJob(m) \/ Allow(m) \/ RecordOutput(m) \/ Upload(m)
           \/ Abandon(m)
  BY <1>4, Unseen DEF Pickup, CreateJob, Allow, RecordOutput, Upload, Abandon
<1>5. ASSUME NEW js, NEW os, SetStatuses(m, js, os)
      PROVE  status'[o] = os
  BY <1>1, <1>5 DEF SetStatuses, IInv, TypeOK
<1>6. CASE BeginModeration(m) \/ BeginGenerating(m)
  <2>1. Shown(status'[o]) = "open"
    BY <1>5, <1>6 DEF BeginModeration, BeginGenerating, Shown
  <2>2. UNCHANGED <<rows, balance>>
    BY <1>6 DEF BeginModeration, BeginGenerating
  <2>. QED
    BY <1>3, <2>1, <2>2, Unseen
<1>7. CASE Block(m)
  <2>1. Shown(status'[o]) = "rejected"
    BY <1>5, <1>7 DEF Block, Shown
  <2>2. Life!Turn(o, "open", "rejected")
    BY <1>3, <2>1, Seen DEF IInv
  <2>3. Life!Refund(o)
    BY <1>1, <1>7, SamePostings DEF Block
  <2>. QED
    BY <2>2, <2>3 DEF Life!LifeNext, Life!Reject
<1>8. CASE Finish(m)
  <2>1. Shown(status'[o]) = "done"
    BY <1>5, <1>8 DEF Finish, Shown
  <2>2. Life!Turn(o, "open", "done")
    BY <1>3, <2>1, Seen DEF IInv
  <2>3. Life!PayCommission(o)
    BY <1>1, <1>8, SamePostings DEF Finish
  <2>. QED
    BY <2>2, <2>3 DEF Life!LifeNext, Life!Deliver
<1>9. CASE Fail(m)
  <2>1. Shown(status'[o]) = "failed"
    BY <1>5, <1>9 DEF Fail, Shown
  <2>2. Life!Turn(o, "open", "failed")
    BY <1>3, <2>1, Seen DEF IInv
  <2>3. UNCHANGED Life!walletVars
    BY <1>9 DEF Fail, Life!walletVars
  <2>. QED
    BY <2>2, <2>3 DEF Life!LifeNext, Life!GiveUp
<1>. QED
  BY <1>4, <1>6, <1>7, <1>8, <1>9 DEF Run

(* Whatever step is taken before the first death. *)
LEMMA StepIsLife ==
  ASSUME IInv, [Next]_vars, crashes = 0
  PROVE  Life!LifeNext \/ UNCHANGED Life!lifeVars
<1>1. ASSUME NEW u \in Users, TopUp(u)
      PROVE  Life!LifeNext
  <2>1. Purchase(u) /\ UNCHANGED status
    BY <1>1 DEF TopUp, pipelineVars
  <2>2. Life!Purchase(u)
    BY <2>1, SamePostings
  <2>. QED
    BY <2>1, <2>2 DEF Life!LifeNext
<1>2. ASSUME NEW c \in Clients, LookUpOrder(c) \/ Request(c)
      PROVE  Life!LifeNext \/ UNCHANGED Life!lifeVars
  <2>1. CASE LookUpOrder(c) \/ RefuseOrder(c) \/ EnqueueOrder(c) \/ EnqueueFails(c)
    BY <2>1, Unseen DEF LookUpOrder, RefuseOrder, EnqueueOrder, EnqueueFails
  <2>2. CASE PlaceOrder(c)
    <3>1. PICK o \in Orders : client[c].order = o
      BY DEF IInv, TypeOK
    <3>2. /\ status[o] = "absent" /\ status'[o] = "queued" /\ Charge(o)
          /\ \A p \in Orders : p # o => status'[p] = status[p]
      BY <2>2, <3>1 DEF PlaceOrder, Exists, IInv, TypeOK
    <3>3. Life!Turn(o, "absent", "open")
      BY <3>2, Seen DEF IInv, Shown
    <3>4. Life!Charge(o)
      BY <3>2, SamePostings
    <3>. QED
      BY <3>3, <3>4 DEF Life!LifeNext, Life!Accept
  <2>. QED
    BY <1>2, <2>1, <2>2 DEF Request
<1>3. ASSUME NEW m \in Messages, Run(m) \/ Fail(m) \/ Abandon(m)
      PROVE  Life!LifeNext \/ UNCHANGED Life!lifeVars
  BY <1>3, RunIsLife
<1>4. CASE WorkerCrash
  BY <1>4, Unseen DEF WorkerCrash
<1>5. CASE Restart
  <2>1. worker = "up"
    BY DEF IInv, OpenBeforeDeath
  <2>. QED
    BY <1>5, <2>1 DEF Restart, WorkerStart, ReEnqueue, WorkerReady
<1>6. CASE UNCHANGED vars
  BY <1>6, Unseen DEF vars, pipelineVars
<1>. QED
  BY <1>1, <1>2, <1>3, <1>4, <1>5, <1>6 DEF Next

(* As long as no worker dies the pipeline does what OrderLife promises: an *)
(* order is charged when it is accepted, ends at most once, and its money  *)
(* moves in the step that ends it.                                         *)
THEOREM Implementation == Spec => ImplementsOrderLife
<1>1. Init => Life!LifeInit
  BY DEF Init, Life!LifeInit, Life!WalletInit, WalletInit
<1>2. IInv /\ [Next]_vars => [Life!LifeNext \/ crashes > 0]_(Life!lifeVars)
  <2>. SUFFICES ASSUME IInv, [Next]_vars, ~ (crashes > 0)
                PROVE  Life!LifeNext \/ UNCHANGED Life!lifeVars
    OBVIOUS
  <2>1. crashes \in 0 .. MaxCrashes
    BY DEF IInv, TypeOK
  <2>2. crashes = 0
    BY <2>1, CrashAssumption
  <2>. QED
    BY <2>2, StepIsLife
<1>. QED
  BY <1>1, <1>2, Invariant, PTL DEF Spec, ImplementsOrderLife

(* The pipeline moves money as orders and purchases may, also when workers *)
(* die and orders run twice: a commit makes at most one posting, a charge, *)
(* a refund or a commission.                                               *)
THEOREM UsesLedger == Spec => LedgerSpec
<1>1. Init => WalletInit
  BY DEF Init
<1>2. IInv /\ [Next]_vars => [LedgerNext]_walletVars
  <2>. SUFFICES ASSUME IInv, [Next]_vars PROVE [LedgerNext]_walletVars
    OBVIOUS
  <2>1. /\ \A c \in Clients : client[c].order \in Orders
        /\ \A m \in Messages : message[m].order \in Orders
    BY DEF IInv, TypeOK
  <2>2. ASSUME NEW u \in Users, TopUp(u) PROVE LedgerNext
    BY <2>2 DEF TopUp, LedgerNext
  <2>3. ASSUME NEW c \in Clients, PlaceOrder(c) PROVE LedgerNext
    BY <2>1, <2>3 DEF PlaceOrder, LedgerNext
  <2>4. ASSUME NEW m \in Messages, Block(m) \/ Finish(m) PROVE LedgerNext
    BY <2>1, <2>4 DEF Block, Finish, LedgerNext
  <2>5. \/ UNCHANGED walletVars
        \/ \E u \in Users : TopUp(u)
        \/ \E c \in Clients : PlaceOrder(c)
        \/ \E m \in Messages : Block(m) \/ Finish(m)
    BY DEF Next, Request, Run, Restart, vars, walletVars, LookUpOrder, RefuseOrder,
           EnqueueOrder, EnqueueFails, Pickup, CreateJob, BeginModeration, Allow,
           BeginGenerating, RecordOutput, Upload, Fail, Abandon, WorkerCrash,
           WorkerStart, ReEnqueue, WorkerReady
  <2>. QED
    BY <2>2, <2>3, <2>4, <2>5
<1>. QED
  BY <1>1, <1>2, Invariant, PTL DEF Spec, LedgerSpec

(* In particular it moves money through the wallet only. *)
THEOREM UsesWallet == Spec => WalletSpec
  BY UsesLedger, LedgerUsesWallet, PTL

(* A balance is what was bought, less the price of the user's orders, with *)
(* the price of the refunded ones back, plus the commissions of the orders *)
(* the user was the agent of: whatever died, was redelivered or ran twice. *)
THEOREM BalanceIsOrdersMoney == Spec => []BalanceIsOrders
<1>1. ASSUME OrderIffCharged, \A u \in Users : Balanced(u) PROVE BalanceIsOrders
  <2>. SUFFICES ASSUME NEW u \in Users
                PROVE  balance[u] = Bought(u)
                         - Price * Cardinality({o \in Orders : OwnerOf[o] = u /\ Exists(o)})
                         + Price * Cardinality(RefundsOf(u))
                         + Commission * Cardinality(EarningsOf(u))
    BY DEF BalanceIsOrders
  <2>1. {o \in Orders : OwnerOf[o] = u /\ Exists(o)} = ChargesOf(u)
    BY <1>1 DEF OrderIffCharged, ChargesOf
  <2>. QED
    BY <1>1, <2>1 DEF Balanced
<1>. QED
  BY <1>1, OrdersAreCharged, UsesLedger, OrdersBalance, PTL

(* What the step of OrderLife that a step of the pipeline is does to the   *)
(* outcomes and the ledger.                                                *)
LEMMA LifeTurns ==
  ASSUME Life!LifeNext \/ UNCHANGED Life!lifeVars,
         NEW out, out = [o \in Orders |-> Shown(status[o])],
         NEW new, new = [o \in Orders |-> Shown(status'[o])]
  PROVE  \/ new = out /\ (UNCHANGED walletVars \/ \E u \in Users : Purchase(u))
         \/ \E o \in Orders : /\ TurnsWith(o, out[o], new[o])
                              /\ \A p \in Orders : p # o => new[p] = out[p]
<1>1. ASSUME NEW o \in Orders, NEW from, NEW to, Life!Turn(o, from, to)
      PROVE  /\ out[o] = from
             /\ new[o] = to
             /\ \A p \in Orders : p # o => new[p] = out[p]
  BY <1>1 DEF Life!Turn, Shown
<1>2. ASSUME NEW o \in Orders,
             Life!Accept(o) \/ Life!Deliver(o) \/ Life!Reject(o) \/ Life!GiveUp(o)
      PROVE  /\ TurnsWith(o, out[o], new[o])
             /\ \A p \in Orders : p # o => new[p] = out[p]
  <2>1. CASE Life!Accept(o)
    <3>1. Life!Turn(o, "absent", "open") /\ Charge(o)
      BY <2>1, SamePostings DEF Life!Accept
    <3>. QED
      BY <3>1, <1>1 DEF TurnsWith
  <2>2. CASE Life!Deliver(o)
    <3>1. Life!Turn(o, "open", "done") /\ PayCommission(o)
      BY <2>2, SamePostings DEF Life!Deliver
    <3>. QED
      BY <3>1, <1>1 DEF TurnsWith
  <2>3. CASE Life!Reject(o)
    <3>1. Life!Turn(o, "open", "rejected") /\ Refund(o)
      BY <2>3, SamePostings DEF Life!Reject
    <3>. QED
      BY <3>1, <1>1 DEF TurnsWith
  <2>4. CASE Life!GiveUp(o)
    <3>1. Life!Turn(o, "open", "failed") /\ UNCHANGED walletVars
      BY <2>4 DEF Life!GiveUp, Life!walletVars, walletVars
    <3>. QED
      BY <3>1, <1>1 DEF TurnsWith
  <2>. QED
    BY <1>2, <2>1, <2>2, <2>3, <2>4
<1>3. CASE UNCHANGED Life!lifeVars
  BY <1>3 DEF Life!lifeVars, walletVars, Shown
<1>4. ASSUME NEW u \in Users, Life!Purchase(u),
             UNCHANGED [o \in Orders |-> Shown(status[o])]
      PROVE  new = out /\ Purchase(u)
  BY <1>4, SamePostings DEF Shown
<1>. QED
  BY <1>2, <1>3, <1>4 DEF Life!LifeNext, Shown

(* No step takes a death back. *)
LEMMA DeathsStay ==
  ASSUME IInv, [Next]_vars, crashes' = 0
  PROVE  crashes = 0
<1>1. \/ UNCHANGED crashes
      \/ crashes' = crashes + 1
  BY DEF Next, Request, Run, Restart, vars, pipelineVars, TopUp, LookUpOrder,
         PlaceOrder, RefuseOrder, EnqueueOrder, EnqueueFails, Pickup, CreateJob,
         BeginModeration, Allow, Block, BeginGenerating, RecordOutput, Upload,
         Finish, Fail, Abandon, WorkerCrash, WorkerStart, ReEnqueue, WorkerReady
<1>2. crashes \in Nat
  BY CrashAssumption DEF IInv, TypeOK
<1>. QED
  BY <1>1, <1>2

(* Until a worker dies, an order has its debit if and only if it exists,   *)
(* its refund if and only if it is rejected and its commission if and only *)
(* if it is done.                                                          *)
THEOREM OutcomesAreSettled == Spec => [](crashes = 0 => Life!MoneyFollowsOutcome)
<1>. DEFINE Settled == crashes = 0 => Life!MoneyFollowsOutcome
<1>1. ASSUME NEW out, out = [o \in Orders |-> Shown(status[o])]
      PROVE  Life!MoneyFollowsOutcome <=> Matches(out)
  BY <1>1 DEF Life!MoneyFollowsOutcome, Matches, Shown, Life!Charged,
     Life!Refunded, Life!CommissionPaid, Charged, Refunded, CommissionPaid,
     Life!HasKey, HasKey, Life!DebitKey, DebitKey, Life!RefundKey, RefundKey,
     Life!CommissionKey, CommissionKey, Life!EarnsCommission, EarnsCommission,
     Life!Commission, Commission
<1>2. ASSUME NEW new, new = [o \in Orders |-> Shown(status'[o])]
      PROVE  Life!MoneyFollowsOutcome' <=> Matches(new)'
  BY <1>2 DEF Life!MoneyFollowsOutcome, Matches, Shown, Life!Charged,
     Life!Refunded, Life!CommissionPaid, Charged, Refunded, CommissionPaid,
     Life!HasKey, HasKey, Life!DebitKey, DebitKey, Life!RefundKey, RefundKey,
     Life!CommissionKey, CommissionKey, Life!EarnsCommission, EarnsCommission,
     Life!Commission, Commission
<1>3. Init => Settled
  <2>. SUFFICES ASSUME Init PROVE Life!MoneyFollowsOutcome
    OBVIOUS
  <2>1. PICK out : out = [o \in Orders |-> Shown(status[o])]
    OBVIOUS
  <2>2. /\ \A o \in Orders : status[o] = "absent"
        /\ rows = {}
    BY DEF Init, WalletInit
  <2>3. Matches(out)
    BY <2>1, <2>2 DEF Matches, Shown, Charged, Refunded, CommissionPaid, HasKey
  <2>. QED
    BY <1>1, <2>1, <2>3
<1>4. IInv /\ Settled /\ [Next]_vars => Settled'
  <2>. SUFFICES ASSUME IInv, Settled, [Next]_vars, crashes' = 0
                PROVE  Life!MoneyFollowsOutcome'
    OBVIOUS
  <2>1. crashes = 0
    BY DeathsStay
  <2>2. PICK out : out = [o \in Orders |-> Shown(status[o])]
    OBVIOUS
  <2>3. PICK new : new = [o \in Orders |-> Shown(status'[o])]
    OBVIOUS
  <2>4. Matches(out)
    BY <1>1, <2>1, <2>2
  <2>5. \/ new = out /\ (UNCHANGED walletVars \/ \E u \in Users : Purchase(u))
        \/ \E o \in Orders : /\ TurnsWith(o, out[o], new[o])
                             /\ \A p \in Orders : p # o => new[p] = out[p]
    BY <2>1, <2>2, <2>3, StepIsLife, LifeTurns
  <2>6. Matches(new)'
    BY <2>4, <2>5, NoTurnMatches, TurnMatches DEF IInv, TypeOK
  <2>. QED
    BY <1>2, <2>3, <2>6
<1>. QED
  BY <1>3, <1>4, Invariant, PTL DEF Spec

(* The ledger says what became of an order: a rejected one is refunded and *)
(* a delivered one paid for, whatever dies, and nothing else is until a    *)
(* worker dies.                                                            *)
THEOREM MoneyIsTheOrders == Spec => []MoneyFollowsStatus
<1>1. /\ RejectedIsRefunded
      /\ PaidForDelivery
      /\ crashes = 0 => Life!MoneyFollowsOutcome
      => MoneyFollowsStatus
  BY DEF MoneyFollowsStatus
<1>. QED
  BY <1>1, RejectionsAreRefunded, DeliveriesArePaid, OutcomesAreSettled, PTL

(* So no order is delivered and refunded as long as no worker dies.        *)
THEOREM OneEndBeforeDeath == Spec => [](crashes = 0 => RefundedNotDelivered)
<1>1. MoneyFollowsStatus => (crashes = 0 => RefundedNotDelivered)
  BY DEF MoneyFollowsStatus, RefundedNotDelivered, Life!MoneyFollowsOutcome,
         Refunded, Life!Refunded, RefundKey, Life!RefundKey, HasKey, Life!HasKey
<1>. QED
  BY <1>1, MoneyIsTheOrders, PTL

=============================================================================
