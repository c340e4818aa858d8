-------------------------------- MODULE Login --------------------------------
(***************************************************************************)
(* The account of one customer: codes sent to her phone and verified       *)
(* (services/auth.py), registration with e-mail and mobile, the signup     *)
(* bonus, and links that reset her password (api/auth.py).                 *)
(*                                                                         *)
(* Every action is one Redis command, one MULTI/EXEC pipeline or one       *)
(* database transaction, so that concurrent requests interleave between    *)
(* them.  The customers share nothing: every key and every unique column   *)
(* is hers.  Codes and links are drawn at random and taken to differ.      *)
(* What a password is does not matter: only how often a link set one.      *)
(***************************************************************************)
EXTENDS Wallet, FiniteSets

CONSTANTS
  Sessions,      \* concurrent requests
  Customer,
  SignupBonus,   \* signup_bonus_paise
  AttemptLimit,  \* _OTP_ATTEMPT_LIMIT
  MaxCodes,      \* bound on codes that are requested
  Links,         \* tokens of password links
  MaxCalls,      \* bound on verifications and registrations
  MaxFaults      \* bound on requests that die or fail half way

SignupKey == <<"signup_bonus", Customer>>

ASSUME SessionsAssumption == IsFiniteSet(Sessions)
ASSUME CustomerAssumption == Customer \in Users
ASSUME BonusAssumption ==
  SignupBonus \in Nat \ {0} /\ SignupBonus \in Deltas /\ SignupKey \in Keys
ASSUME LimitAssumption == AttemptLimit \in Nat \ {0}
ASSUME LoginBoundsAssumption ==
  MaxCodes \in Nat /\ MaxCalls \in Nat /\ MaxFaults \in Nat

Codes == 1 .. MaxCodes

NoCode == 0   \* no key otp:<phone>; a guess that is none of the codes

ASSUME LinksAssumption == Links \cap (Codes \cup {NoCode}) = {}

Secrets == Codes \cup Links

VARIABLES
  code,       \* otp:<phone>
  attempts,   \* otp_attempts:<phone>, 0 when there is no such key
  expiring,   \* that key has a TTL
  issued,     \* codes requested so far
  links,      \* links with a key pwd_reset:<token>
  sent,       \* links that were ever drawn
  account,    \* the row of users: "none", "phone" or, with e-mail, "full"
  session,    \* [Sessions -> request in progress]
  compared,   \* [Codes -> how often a guess was compared with it]
  carried,    \* [Codes -> verifications counted before it was issued]
  uses,       \* [Secrets -> logins with a code, passwords set with a link]
  contested,  \* secrets that two requests held at a time
  calls,      \* verifications and registrations so far
  faults,     \* requests cut off so far
  cut         \* those of them that were cut off before a step OnItsOwn

loginVars ==
  <<code, attempts, expiring, issued, links, sent, account, session, compared,
    carried, uses, contested, calls, faults, cut>>

vars == <<rows, balance, loginVars>>

(* What a request is about to do: the steps of verify_otp, of register and *)
(* of reset_password.                                                      *)
Steps == {"idle", "expire", "get", "delete", "lookup", "create", "insert",
          "bonus", "password", "forget"}

(* A request: its next step and the code or link it came with. *)
Request == [pc : Steps, secret : Secrets \cup {NoCode}]

(* Requests at a step that nobody makes up for when it is left out. *)
OnItsOwn ==
  [pc : {"expire", "bonus", "forget"}, secret : Secrets \cup {NoCode}]

(* Every variable has its type. *)
TypeOK ==
  /\ WalletTypeOK
  /\ code \in Codes \cup {NoCode}
  /\ attempts \in 0 .. MaxCalls
  /\ expiring \in BOOLEAN
  /\ issued \in 0 .. MaxCodes
  /\ links \subseteq sent
  /\ sent \subseteq Links
  /\ account \in {"none", "phone", "full"}
  /\ session \in [Sessions -> Request]
  /\ compared \in [Codes -> 0 .. MaxCalls]
  /\ carried \in [Codes -> 0 .. Cardinality(Sessions)]
  /\ uses \in [Secrets -> Nat]
  /\ contested \subseteq Secrets
  /\ calls \in 0 .. MaxCalls
  /\ faults \in 0 .. MaxFaults
  /\ cut \subseteq OnItsOwn

-----------------------------------------------------------------------------

Idle == [pc |-> "idle", secret |-> NoCode]

Init ==
  /\ WalletInit
  /\ code = NoCode
  /\ attempts = 0
  /\ expiring = FALSE
  /\ issued = 0
  /\ links = {}
  /\ sent = {}
  /\ account = "none"
  /\ session = [s \in Sessions |-> Idle]
  /\ compared = [c \in Codes |-> 0]
  /\ carried = [c \in Codes |-> 0]
  /\ uses = [x \in Secrets |-> 0]
  /\ contested = {}
  /\ calls = 0
  /\ faults = 0
  /\ cut = {}

At(s, step) == session[s].pc = step
Secret(s) == session[s].secret

Goto(s, step) == session' = [session EXCEPT ![s].pc = step]
Answer(s) == session' = [session EXCEPT ![s] = Idle]

(* A request begins: one more of the bounded number. *)
Begins(s, step, secret) ==
  /\ At(s, "idle")
  /\ session' = [session EXCEPT ![s] = [pc |-> step, secret |-> secret]]

Call == calls < MaxCalls /\ calls' = calls + 1

(* Sessions other than s that hold secret x at one of the steps. *)
Contest(s, x, steps) ==
  contested' = contested \cup
    {y \in {x} : \E t \in Sessions \ {s} :
                   session[t].pc \in steps /\ Secret(t) = x}

-----------------------------------------------------------------------------
(* AuthService.request_otp *)

(* Verifications that were counted and have not read the code yet. *)
Underway == {s \in Sessions : session[s].pc \in {"expire", "get"}}

(* One pipeline: a new code with its TTL, the attempts are forgotten.  The *)
(* text message follows; a failure to send it is a 500 and leaves the code *)
(* where it is.                                                            *)
RequestOtp ==
  /\ issued < MaxCodes
  /\ issued' = issued + 1
  /\ code' = issued'
  /\ attempts' = 0
  /\ expiring' = FALSE
  /\ carried' = [carried EXCEPT ![issued'] = Cardinality(Underway)]
  /\ UNCHANGED <<rows, balance, links, sent, account, session, compared, uses,
                 contested, calls, faults, cut>>

(* The TTL of the code. *)
CodeExpires ==
  /\ code # NoCode
  /\ code' = NoCode
  /\ UNCHANGED <<rows, balance, attempts, expiring, issued, links, sent,
                 account, session, compared, carried, uses, contested, calls,
                 faults, cut>>

(* The TTL of the attempts: it began with the first verification after the *)
(* code was issued, and so ends after the code's.                          *)
AttemptsExpire ==
  /\ expiring /\ code = NoCode
  /\ attempts' = 0
  /\ expiring' = FALSE
  /\ UNCHANGED <<rows, balance, code, issued, links, sent, account, session,
                 compared, carried, uses, contested, calls, faults, cut>>

-----------------------------------------------------------------------------
(* AuthService.verify_otp *)

(* Mutant: the number before the increment is compared. *)
TooManyMutant(n) == n - 1 > AttemptLimit

TooMany(n) == n > AttemptLimit

(* Mutant: the counter is taken to start at zero. *)
FirstAttemptMutant(n) == n = 0

FirstAttempt(n) == n = 1

(* INCR, with a guess in hand; the attempts above the limit are refused    *)
(* with a 429, and counted all the same.                                   *)
CountAttempt(s, guess) ==
  /\ At(s, "idle")
  /\ Call
  /\ attempts' = attempts + 1
  /\ IF FirstAttempt(attempts') THEN Begins(s, "expire", guess)
     ELSE IF TooMany(attempts') THEN UNCHANGED session
     ELSE Begins(s, "get", guess)
  /\ UNCHANGED <<rows, balance, code, expiring, issued, links, sent, account,
                 compared, carried, uses, contested, faults, cut>>

(* EXPIRE, a command of its own; a key that is gone stays gone. *)
ExpireAttempts(s) ==
  /\ At(s, "expire")
  /\ expiring' = (attempts > 0)
  /\ Goto(s, "get")
  /\ UNCHANGED <<rows, balance, code, attempts, issued, links, sent, account,
                 compared, carried, uses, contested, calls, faults, cut>>

(* GET and the comparison: no code and a wrong code are a 400. *)
CompareCode(s) ==
  /\ At(s, "get")
  /\ IF code # NoCode /\ Secret(s) = code THEN Goto(s, "delete") ELSE Answer(s)
  /\ compared' = [c \in Codes |-> compared[c] + (IF c = code THEN 1 ELSE 0)]
  /\ Contest(s, code, IF Secret(s) = code THEN {"delete"} ELSE {})
  /\ UNCHANGED <<rows, balance, code, attempts, expiring, issued, links, sent,
                 account, carried, uses, calls, faults, cut>>

(* Mutant: only the attempts are forgotten. *)
DeleteKeysMutant(s) ==
  /\ At(s, "delete")
  /\ attempts' = 0
  /\ expiring' = FALSE
  /\ Goto(s, "lookup")
  /\ UNCHANGED <<rows, balance, code, issued, links, sent, account, compared,
                 carried, uses, contested, calls, faults, cut>>

(* One pipeline deletes both keys, also those of a newer code. *)
DeleteKeys(s) ==
  /\ At(s, "delete")
  /\ code' = NoCode
  /\ attempts' = 0
  /\ expiring' = FALSE
  /\ Goto(s, "lookup")
  /\ UNCHANGED <<rows, balance, issued, links, sent, account, compared,
                 carried, uses, contested, calls, faults, cut>>

Used(s) ==
  uses' = [x \in Secrets |-> uses[x] + (IF x = Secret(s) THEN 1 ELSE 0)]

(* get_by_phone: a known customer has her token, a new one needs a row. *)
LookUpUser(s) ==
  /\ At(s, "lookup")
  /\ IF account = "none"
       THEN Goto(s, "create") /\ UNCHANGED uses
       ELSE Answer(s) /\ Used(s)
  /\ UNCHANGED <<rows, balance, code, attempts, expiring, issued, links, sent,
                 account, compared, carried, contested, calls, faults, cut>>

(* INSERT and commit.  A row that a concurrent request inserted in between *)
(* is an IntegrityError that nobody catches: a 500, and the code is gone.  *)
CreateUser(s) ==
  /\ At(s, "create")
  /\ IF account = "none"
       THEN account' = "phone" /\ Goto(s, "bonus")
       ELSE Answer(s) /\ UNCHANGED account
  /\ UNCHANGED <<rows, balance, code, attempts, expiring, issued, links, sent,
                 compared, carried, uses, contested, calls, faults, cut>>

(* Mutant: _grant_signup_bonus leaves the commit to its callers. *)
GrantBonusMutant(s) ==
  /\ At(s, "bonus")
  /\ Used(s)
  /\ Answer(s)
  /\ UNCHANGED <<rows, balance, code, attempts, expiring, issued, links, sent,
                 account, compared, carried, contested, calls, faults, cut>>

(* _grant_signup_bonus: credit and commit, after the commit of the row;    *)
(* then the token is answered.                                             *)
GrantBonus(s) ==
  /\ At(s, "bonus")
  /\ PostOnce(SignupKey, Customer, SignupBonus)
  /\ Used(s)
  /\ Answer(s)
  /\ UNCHANGED <<code, attempts, expiring, issued, links, sent, account,
                 compared, carried, contested, calls, faults, cut>>

-----------------------------------------------------------------------------
(* register *)

(* The lookups; a known e-mail or mobile is a 409. *)
Register(s) ==
  /\ account = "none"
  /\ Begins(s, "insert", NoCode)
  /\ Call
  /\ UNCHANGED <<rows, balance, code, attempts, expiring, issued, links, sent,
                 account, compared, carried, uses, contested, faults, cut>>

(* Mutant: the mobile number is not handed on to the row. *)
InsertUserMutant(s) ==
  /\ At(s, "insert")
  /\ IF account = "none"
       THEN account' = "email" /\ Goto(s, "bonus")
       ELSE Answer(s) /\ UNCHANGED account
  /\ UNCHANGED <<rows, balance, code, attempts, expiring, issued, links, sent,
                 compared, carried, uses, contested, calls, faults, cut>>

(* INSERT and commit, or the unique column of a concurrent request: a 500. *)
InsertUser(s) ==
  /\ At(s, "insert")
  /\ IF account = "none"
       THEN account' = "full" /\ Goto(s, "bonus")
       ELSE Answer(s) /\ UNCHANGED account
  /\ UNCHANGED <<rows, balance, code, attempts, expiring, issued, links, sent,
                 compared, carried, uses, contested, calls, faults, cut>>

-----------------------------------------------------------------------------
(* forgot_password and reset_password *)

(* SET with a TTL, for a known e-mail; the mail follows, and an error of   *)
(* it is logged and swallowed.                                             *)
ForgotPassword(l) ==
  /\ account = "full"
  /\ l \notin sent
  /\ sent' = sent \cup {l}
  /\ links' = links \cup {l}
  /\ UNCHANGED <<rows, balance, code, attempts, expiring, issued, account,
                 session, compared, carried, uses, contested, calls, faults,
                 cut>>

LinkExpires(l) ==
  /\ l \in links
  /\ links' = links \ {l}
  /\ UNCHANGED <<rows, balance, code, attempts, expiring, issued, sent,
                 account, session, compared, carried, uses, contested, calls,
                 faults, cut>>

(* GET: an unknown token is a 400. *)
ResetPassword(s, l) ==
  /\ l \in links
  /\ Begins(s, "password", l)
  /\ Contest(s, l, {"password", "forget"})
  /\ UNCHANGED <<rows, balance, code, attempts, expiring, issued, links, sent,
                 account, compared, carried, uses, calls, faults, cut>>

(* The new hash and its commit. *)
SetPassword(s) ==
  /\ At(s, "password")
  /\ Used(s)
  /\ Goto(s, "forget")
  /\ UNCHANGED <<rows, balance, code, attempts, expiring, issued, links, sent,
                 account, compared, carried, contested, calls, faults, cut>>

(* DEL, "so it can only be used once". *)
ForgetLink(s) ==
  /\ At(s, "forget")
  /\ links' = links \ {Secret(s)}
  /\ Answer(s)
  /\ UNCHANGED <<rows, balance, code, attempts, expiring, issued, sent,
                 account, compared, carried, uses, contested, calls, faults,
                 cut>>

-----------------------------------------------------------------------------

(* The process dies, Redis or the database fails: the rest of the request  *)
(* is not done.  What nobody else will do is noted.                        *)
CutOff(s) ==
  /\ ~ At(s, "idle")
  /\ faults < MaxFaults
  /\ faults' = faults + 1
  /\ cut' = cut \cup ({session[s]} \cap OnItsOwn)
  /\ Answer(s)
  /\ UNCHANGED <<rows, balance, code, attempts, expiring, issued, links, sent,
                 account, compared, carried, uses, contested, calls>>

Step(s) ==
  \/ ExpireAttempts(s) \/ CompareCode(s) \/ DeleteKeys(s) \/ LookUpUser(s)
  \/ CreateUser(s) \/ GrantBonus(s) \/ InsertUser(s)
  \/ SetPassword(s) \/ ForgetLink(s)

Next ==
  \/ RequestOtp \/ CodeExpires \/ AttemptsExpire
  \/ \E s \in Sessions :
       \/ \E guess \in 0 .. issued : CountAttempt(s, guess)
       \/ Register(s)
       \/ \E l \in Links : ResetPassword(s, l)
       \/ Step(s) \/ CutOff(s)
  \/ \E l \in Links : ForgotPassword(l) \/ LinkExpires(l)

Spec == Init /\ [][Next]_vars

(* Redis keeps its TTLs and every request takes its next step.  Nobody has *)
(* to ask for a code, to verify one or to fail.                            *)
Fairness ==
  /\ WF_vars(CodeExpires)
  /\ WF_vars(AttemptsExpire)
  /\ \A s \in Sessions : WF_vars(Step(s))

FairSpec == Spec /\ Fairness

-----------------------------------------------------------------------------
(* Properties *)

(* "Attempt counting uses Redis INCR so it is atomic even under concurrent *)
(* verification requests": a code is compared with at most AttemptLimit    *)
(* guesses, and with those of verifications that were counted before it    *)
(* was issued and read it after.                                           *)
GuessesBounded ==
  \A c \in Codes : compared[c] <= AttemptLimit + carried[c]

(* Some request was cut off when this was its next step. *)
CutOffAt(step) == \E r \in cut : r.pc = step

(* The DEL of this link was cut off. *)
NotForgotten(l) == [pc |-> "forget", secret |-> l] \in cut

(* "so the code cannot be reused", "so it can only be used once": a code   *)
(* logs in twice, or a link sets two passwords, only if two requests held  *)
(* it at the same time, or for a link if its own removal was cut off.      *)
ReusedOnlyByOverlap ==
  \A x \in Secrets : uses[x] > 1 => x \in contested \/ NotForgotten(x)

(* A new account has its signup bonus, whichever way and however often it  *)
(* was created at a time, or the request that created it is about to grant *)
(* it or was cut off at just that; and nobody else has one.                *)
AccountHasBonus ==
  IF account = "none"
    THEN ~ HasKey(SignupKey)
    ELSE \/ HasKey(SignupKey)
         \/ \E s \in Sessions : At(s, "bonus")
         \/ CutOffAt("bonus")

LockedOut == TooMany(attempts + 1)

(* "a lockout is automatically lifted": a customer who is locked out and   *)
(* does nothing can verify again some time.  The exception is a counter    *)
(* without a TTL, and only after a request was cut off between INCR and    *)
(* EXPIRE.                                                                 *)
LockoutEnds ==
  LockedOut ~> ~ LockedOut \/ (~ expiring /\ CutOffAt("expire"))

=============================================================================
