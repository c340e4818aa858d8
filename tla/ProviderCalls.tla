--------------------------- MODULE ProviderCalls ----------------------------
(***************************************************************************)
(* One run of one worker job in time: the external calls of its work, one  *)
(* after the other, each with its budget, its attempts and its errors,     *)
(* under the job_timeout that arq puts around them all.                    *)
(*                                                                         *)
(* Database writes between the calls and the watermark take no time here;  *)
(* OrderPipeline and ToolJobs model what they do and what a death of the   *)
(* worker does to a run.                                                   *)
(***************************************************************************)
EXTENDS Providers

CONSTANT TransferTicks   \* what a transfer without a budget is meant to take

ASSUME TransferAssumption == TransferTicks \in Nat \ {0}

VARIABLES
  work,       \* the job: an element of Work
  at,         \* the call it makes: an index into work.calls
  attempt,    \* the attempt of that call
  step,       \* the step of that attempt
  phase,      \* "calling" or, between two attempts, "backoff"
  spent,      \* ticks this call has taken
  clock,      \* ticks the job has taken
  verdict,    \* what the moderation model said
  submitted,  \* paid generations the provider was asked for
  overrun,    \* a transfer took longer than TransferTicks
  outcome     \* "running", or how the job ended

vars == <<work, at, attempt, step, phase, spent, clock, verdict, submitted,
          overrun, outcome>>

(* Mutant: the default of arq, 300 seconds. *)
JobTimeoutMutant == Seconds(300)

(* WorkerSettings.job_timeout *)
JobTimeout == Seconds(900)

(* The model's answer.  "text" is JSON whose allowed is a non-empty string, *)
(* also "false": bool() of it is True.  "garbled" is no JSON object.       *)
Verdicts == {"none", "yes", "no", "text", "garbled"}

(* Mutant: an answer that does not parse lets the order through. *)
AllowedMutant(v) == v # "no"

Allowed(v) == v \in {"yes", "text"}

Outcomes == {"running", "delivered", "rejected", "failed", "cancelled"}

ThisCall == work.calls[at]
ThisStep == ThisCall.steps[step]
Calling == outcome = "running" /\ phase = "calling"

(* Every variable has its type. *)
TypeOK ==
  /\ work \in Work
  /\ at \in DOMAIN work.calls
  /\ attempt \in 1 .. ThisCall.tries
  /\ step \in DOMAIN ThisCall.steps
  /\ phase \in {"calling", "backoff"}
  /\ spent \in 0 .. JobTimeout
  /\ clock \in 0 .. JobTimeout
  /\ verdict \in Verdicts
  /\ submitted \in Nat
  /\ overrun \in BOOLEAN
  /\ outcome \in Outcomes

Init ==
  /\ work \in Work
  /\ at = 1 /\ attempt = 1 /\ step = 1
  /\ phase = "calling"
  /\ spent = 0 /\ clock = 0
  /\ verdict = "none"
  /\ submitted = 0
  /\ overrun = FALSE
  /\ outcome = "running"

-----------------------------------------------------------------------------
(* Steps of a call *)

End(how) ==
  /\ outcome' = how
  /\ UNCHANGED <<at, attempt, step, phase, spent>>

(* The attempt goes on, or the job to its next call, or it is delivered. *)
Advance ==
  IF step < Len(ThisCall.steps)
    THEN step' = step + 1 /\ UNCHANGED <<at, attempt, phase, spent, outcome>>
    ELSE IF at < Len(work.calls)
           THEN /\ at' = at + 1
                /\ attempt' = 1 /\ step' = 1 /\ spent' = 0
                /\ UNCHANGED <<phase, outcome>>
           ELSE End("delivered")

(* The generation request reaches the provider. *)
Submit ==
  /\ Calling /\ ThisStep = "submit"
  /\ submitted' = submitted + 1
  /\ Advance
  /\ UNCHANGED <<work, clock, verdict, overrun>>

(* The moderation model answers; what does not parse blocks.               *)
Moderate ==
  /\ Calling /\ ThisStep = "moderate"
  /\ verdict' \in Verdicts \ {"none"}
  /\ IF Allowed(verdict') THEN Advance ELSE End("rejected")
  /\ UNCHANGED <<work, clock, submitted, overrun>>

(* Any other step gets its answer.  A prompt that does not parse is used   *)
(* as it is.                                                               *)
Answer ==
  /\ Calling /\ ThisStep \notin {"submit", "moderate", "refuse"}
  /\ Advance
  /\ UNCHANGED <<work, clock, verdict, submitted, overrun>>

(* Mutant: the last attempt is retried as well. *)
TransientErrorMutant ==
  /\ Calling
  /\ IF attempt <= ThisCall.tries
       THEN phase' = "backoff" /\ UNCHANGED <<at, attempt, step, spent, outcome>>
       ELSE End("failed")
  /\ UNCHANGED <<work, clock, verdict, submitted, overrun>>

(* A connection error, a 5xx or 529: the next attempt follows a random     *)
(* delay of at most the rest of the budget; the last one surfaces as       *)
(* RetryExhaustedError, which fails the job.                               *)
TransientError ==
  /\ Calling
  /\ IF attempt < ThisCall.tries
       THEN phase' = "backoff" /\ UNCHANGED <<at, attempt, step, spent, outcome>>
       ELSE End("failed")
  /\ UNCHANGED <<work, clock, verdict, submitted, overrun>>

Retry ==
  /\ outcome = "running" /\ phase = "backoff"
  /\ phase' = "calling"
  /\ attempt' = attempt + 1
  /\ step' = 1
  /\ UNCHANGED <<work, at, spent, clock, verdict, submitted, overrun,
                 outcome>>

(* A 4xx, an answer without an image, a ValueError: no second attempt. *)
TerminalError ==
  /\ Calling
  /\ End("failed")
  /\ UNCHANGED <<work, clock, verdict, submitted, overrun>>

-----------------------------------------------------------------------------
(* Time *)

HasBudget == ThisCall.budget # NoBudget

(* 30 seconds pass in the call, in its backoff too. *)
Tick ==
  /\ outcome = "running"
  /\ clock < JobTimeout
  /\ HasBudget => spent < ThisCall.budget
  /\ clock' = clock + 1
  /\ spent' = spent + 1
  /\ overrun' = (overrun \/ (~ HasBudget /\ spent' > TransferTicks))
  /\ UNCHANGED <<work, at, attempt, step, phase, verdict, submitted,
                 outcome>>

(* with_timeout: the whole retried call is over.  A moderation that runs   *)
(* out of time blocks, anything else fails the job.                        *)
HardTimeout ==
  /\ outcome = "running"
  /\ HasBudget /\ spent = ThisCall.budget
  /\ End(IF ThisStep = "moderate" THEN "rejected" ELSE "failed")
  /\ UNCHANGED <<work, clock, verdict, submitted, overrun>>

(* Mutant: the timeout is only looked at between two calls. *)
JobTimesOutMutant ==
  /\ outcome = "running"
  /\ clock = JobTimeout
  /\ spent = 0
  /\ End("cancelled")
  /\ UNCHANGED <<work, clock, verdict, submitted, overrun>>

(* arq cancels the job; no handler of the application runs. *)
JobTimesOut ==
  /\ outcome = "running"
  /\ clock = JobTimeout
  /\ End("cancelled")
  /\ UNCHANGED <<work, clock, verdict, submitted, overrun>>

-----------------------------------------------------------------------------

Next ==
  \/ Submit \/ Moderate \/ Answer
  \/ TransientError \/ Retry \/ TerminalError
  \/ Tick \/ HardTimeout \/ JobTimesOut

Spec == Init /\ [][Next]_vars

(* Time passes, and a timer that has run out fires.  No server need ever   *)
(* answer and no transfer need ever end.                                   *)
FairSpec == Spec /\ WF_vars(Tick) /\ WF_vars(HardTimeout) /\ WF_vars(JobTimesOut)

-----------------------------------------------------------------------------
(* Properties *)

(* The safety gate of an order: nothing is generated before the model      *)
(* answered something that counts as allowed - a timeout, an error, an     *)
(* answer that is not understood and a retry never open it.                *)
GateIsClosed ==
  work.job = "order" /\ submitted > 0 => verdict \in {"yes", "text"}

(* A run of a job pays for at most one generation, whatever fails while    *)
(* the result is waited for or downloaded.                                 *)
GeneratedOnce == submitted <= 1

(* "Give real headroom above the slowest adapter call": arq never cancels  *)
(* a job whose calls all run to their limits, for any tool, any number of  *)
(* photos and any provider; only a transfer outside every budget can do it.*)
OnlyTransfersOverrun == outcome = "cancelled" => overrun

(* Every job ends, also when nobody ever answers. *)
EveryJobEnds == <>(outcome # "running")

=============================================================================
