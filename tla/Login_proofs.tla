---------------------------- MODULE Login_proofs -----------------------------
(***************************************************************************)
(* Proofs about Login, for any number of requests, codes, links, calls and *)
(* faults.                                                                 *)
(*                                                                         *)
(* The inductive invariant says what a counted verification may still do:  *)
(* the guesses a code has seen and those under way are covered by its      *)
(* attempts; and who holds a code or a link: as long as no two requests    *)
(* held it at a time, one request holds it or it was used, never both,     *)
(* and the removal of a link is due until it is done or cut off.           *)
(***************************************************************************)
EXTENDS Login, Wallet_proofs, FiniteSetTheorems

(* Requests of verify_otp and register hold a code or nothing, those of    *)
(* reset_password a link; what is held was issued or sent.                 *)
SecretFits(s) ==
  /\ session[s].pc \in {"delete", "lookup", "create"} => Secret(s) \in Codes
  /\ session[s].pc \in {"password", "forget"} <=> Secret(s) \in Links
  /\ session[s].pc = "insert" => Secret(s) = NoCode
  /\ Secret(s) \in Codes => Secret(s) <= issued
  /\ Secret(s) \in Links => Secret(s) \in sent

SecretsFit == \A s \in Sessions : SecretFits(s)

(* What was not issued or sent was not compared or used. *)
NewSecrets ==
  /\ code <= issued
  /\ \A c \in Codes : c > issued => compared[c] = 0 /\ uses[c] = 0
  /\ \A l \in Links : l \notin sent => uses[l] = 0

(* How many counted verifications have not read the code yet. *)
Load == Cardinality(Underway)

(* Every attempt and every comparison is one of the counted calls. *)
CallsCounted ==
  /\ attempts <= calls
  /\ \A c \in Codes : compared[c] + Load <= calls

(* The guesses a code has seen and those under way were counted since it   *)
(* was issued, within the limit, or were carried over.                     *)
GuessesCounted ==
  code # NoCode =>
    /\ compared[code] + Load <= AttemptLimit + carried[code]
    /\ compared[code] + Load <= attempts + carried[code]

HoldsCode(s, x) ==
  session[s].pc \in {"delete", "lookup", "create", "bonus"} /\ Secret(s) = x

(* A code that no two requests held at a time is with one request or was   *)
(* used once, and the key is gone before the request goes on.              *)
UsedOnce(x) ==
  /\ uses[x] <= 1
  /\ \A s, t \in Sessions : HoldsCode(s, x) /\ HoldsCode(t, x) => s = t
  /\ \A s \in Sessions : HoldsCode(s, x) => uses[x] = 0
  /\ code = x => uses[x] = 0
  /\ code = x => \A s \in Sessions : HoldsCode(s, x) => session[s].pc = "delete"

CodeOnce == \A x \in Codes \ contested : UsedOnce(x)

HoldsLink(s, x) == session[s].pc \in {"password", "forget"} /\ Secret(s) = x

(* The same of a link whose removal was not cut off: its key may outlive   *)
(* the password it set, but only in the hands of one request.              *)
SetOnce(x) ==
  /\ uses[x] <= 1
  /\ \A s, t \in Sessions : HoldsLink(s, x) /\ HoldsLink(t, x) => s = t
  /\ \A s \in Sessions : HoldsLink(s, x) /\ session[s].pc = "password" => uses[x] = 0
  /\ x \in links /\ uses[x] # 0 => \E s \in Sessions : HoldsLink(s, x)

LinkOnce ==
  \A x \in Links \ contested : ~ NotForgotten(x) => SetOnce(x)

(* The bonus is due after the account is there. *)
BonusAfterAccount == account = "none" => \A s \in Sessions : ~ At(s, "bonus")

IInv ==
  /\ TypeOK
  /\ SecretsFit
  /\ NewSecrets
  /\ CallsCounted
  /\ GuessesCounted
  /\ GuessesBounded
  /\ CodeOnce
  /\ LinkOnce
  /\ BonusAfterAccount
  /\ AccountHasBonus

-----------------------------------------------------------------------------
(* Lemmas about sessions *)

(* A request takes a step and the others do not. *)
OnlyMoves(s) ==
  /\ session' \in [Sessions -> Request]
  /\ \A t \in Sessions : t # s => session'[t] = session[t]

(* A request goes on and keeps what it holds. *)
LEMMA GotoMoves ==
  ASSUME TypeOK, NEW s \in Sessions, NEW step \in Steps, Goto(s, step)
  PROVE  OnlyMoves(s) /\ session'[s].pc = step /\ session'[s].secret = session[s].secret
<1>1. session[s] \in Request
  BY DEF TypeOK, Request
<1>2. session' = [session EXCEPT ![s] = [session[s] EXCEPT !.pc = step]]
  BY DEF Goto
<1>. QED
  BY <1>1, <1>2 DEF TypeOK, OnlyMoves, Request

(* A request that is answered holds nothing. *)
LEMMA AnswerMoves ==
  ASSUME TypeOK, NEW s \in Sessions, Answer(s)
  PROVE  OnlyMoves(s) /\ session'[s].pc = "idle" /\ session'[s].secret = NoCode
<1>1. Idle \in Request /\ Idle.pc = "idle" /\ Idle.secret = NoCode
  BY DEF Idle, Request, Steps
<1>. QED
  BY <1>1 DEF TypeOK, OnlyMoves, Answer, Request

(* A request that begins. *)
LEMMA BeginsMoves ==
  ASSUME TypeOK, NEW s \in Sessions, NEW step \in Steps,
         NEW x \in Secrets \cup {NoCode}, Begins(s, step, x)
  PROVE  /\ OnlyMoves(s) /\ session[s].pc = "idle"
         /\ session'[s].pc = step /\ session'[s].secret = x
<1>1. [pc |-> step, secret |-> x] \in Request
  BY DEF Request
<1>. QED
  BY <1>1 DEF TypeOK, OnlyMoves, Begins, At, Request

(* Codes, links and "none" are apart. *)
LEMMA SecretsApart ==
  /\ Codes \subseteq Nat /\ NoCode \notin Codes /\ NoCode \notin Links
  /\ \A x \in Codes : x \notin Links
  /\ Secrets = Codes \cup Links
  BY LinksAssumption, LoginBoundsAssumption DEF Codes, NoCode, Secrets

(* No more attempts are under way than there are requests. *)
LEMMA LoadIsFinite ==
  IsFiniteSet(Underway) /\ Load \in Nat /\ Load <= Cardinality(Sessions)
<1>1. Underway \subseteq Sessions
  BY DEF Underway
<1>. QED
  BY <1>1, SessionsAssumption, FS_Subset, FS_CardinalityType DEF Load

(* A request that begins to wait for the code, or no longer does, counts   *)
(* one.                                                                    *)
LEMMA LoadMoves ==
  ASSUME NEW s \in Sessions,
         \A t \in Sessions : t # s => session'[t] = session[t]
  PROVE  /\ Load \in Nat /\ Load' \in Nat
         /\ (s \in Underway <=> s \in Underway') => Load' = Load
         /\ s \in Underway /\ s \notin Underway' => Load' = Load - 1
         /\ s \notin Underway /\ s \in Underway' => Load' = Load + 1
<1>1. Underway' = {t \in Sessions : session'[t].pc \in {"expire", "get"}}
  BY DEF Underway
<1>2. \A t \in Sessions : t # s => (t \in Underway' <=> t \in Underway)
  BY <1>1 DEF Underway
<1>3. Underway \subseteq Sessions /\ Underway' \subseteq Sessions
  BY <1>1 DEF Underway
<1>4. IsFiniteSet(Underway) /\ Load \in Nat
  BY LoadIsFinite
<1>5. IsFiniteSet(Underway') /\ Load' \in Nat
  BY <1>3, SessionsAssumption, FS_Subset, FS_CardinalityType DEF Load
<1>6. CASE s \in Underway <=> s \in Underway'
  <2>1. Underway' = Underway
    BY <1>2, <1>3, <1>6
  <2>. QED
    BY <1>4, <1>5, <1>6, <2>1 DEF Load
<1>7. CASE s \in Underway /\ s \notin Underway'
  <2>1. Underway' = Underway \ {s}
    BY <1>2, <1>3, <1>7
  <2>. QED
    BY <1>4, <1>5, <1>7, <2>1, FS_RemoveElement DEF Load
<1>8. CASE s \notin Underway /\ s \in Underway'
  <2>1. Underway' = Underway \cup {s}
    BY <1>2, <1>3, <1>8
  <2>. QED
    BY <1>4, <1>5, <1>8, <2>1, FS_AddElement DEF Load
<1>. QED
  BY <1>6, <1>7, <1>8

-----------------------------------------------------------------------------
(* The steps *)

(* The steps of Redis and of the mail, which move no request. *)
Environment ==
  \/ RequestOtp \/ CodeExpires \/ AttemptsExpire
  \/ \E l \in Links : ForgotPassword(l) \/ LinkExpires(l)

(* What request s may do, other than being cut off. *)
Serve(s) ==
  \/ \E guess \in 0 .. issued : CountAttempt(s, guess)
  \/ Register(s)
  \/ \E l \in Links : ResetPassword(s, l)
  \/ Step(s)

(* The steps of a request that leave the wallet alone. *)
LEMMA WalletStep ==
  ASSUME IInv, [Next]_vars
  PROVE  /\ WalletTypeOK'
         /\ HasKey(SignupKey) => HasKey(SignupKey)'
         /\ HasKey(SignupKey)' =>
              HasKey(SignupKey) \/ \E s \in Sessions : GrantBonus(s)
<1>1. CASE UNCHANGED walletVars
  BY <1>1, WalletKept DEF IInv, TypeOK
<1>2. ASSUME NEW s \in Sessions, GrantBonus(s)
      PROVE  WalletTypeOK' /\ HasKey(SignupKey)'
  BY <1>2, PostOnceTakesKey, CustomerAssumption, BonusAssumption
     DEF IInv, TypeOK, GrantBonus
<1>3. UNCHANGED walletVars \/ \E s \in Sessions : GrantBonus(s)
  BY DEF Next, vars, walletVars, RequestOtp, CodeExpires, AttemptsExpire,
         CountAttempt, Register, ResetPassword, Step, ExpireAttempts, CompareCode,
         DeleteKeys, LookUpUser, CreateUser, InsertUser, SetPassword, ForgetLink,
         CutOff, ForgotPassword, LinkExpires
<1>. QED
  BY <1>1, <1>2, <1>3

(* What a step of request s does to its session. *)
LEMMA ServeMoves ==
  ASSUME IInv, NEW s \in Sessions, Serve(s) \/ CutOff(s)
  PROVE  OnlyMoves(s)
<1>1. ASSUME NEW guess \in 0 .. issued, CountAttempt(s, guess)
      PROVE  OnlyMoves(s)
  <2>1. guess \in Secrets \cup {NoCode} /\ {"expire", "get"} \subseteq Steps
    BY LoginBoundsAssumption DEF IInv, TypeOK, Secrets, Codes, NoCode, Steps
  <2>2. CASE UNCHANGED session
    BY <2>2 DEF IInv, TypeOK, OnlyMoves, Request
  <2>. QED
    BY <1>1, <2>1, <2>2, BeginsMoves DEF CountAttempt, IInv
<1>2. CASE Register(s)
  BY <1>2, BeginsMoves DEF Register, IInv, Steps
<1>3. ASSUME NEW l \in Links, ResetPassword(s, l)
      PROVE  OnlyMoves(s)
  BY <1>3, BeginsMoves, SecretsApart DEF ResetPassword, IInv, Steps
<1>4. ASSUME NEW step \in Steps, Goto(s, step) PROVE OnlyMoves(s)
  BY <1>4, GotoMoves DEF IInv
<1>5. ASSUME Answer(s) PROVE OnlyMoves(s)
  BY <1>5, AnswerMoves DEF IInv
<1>6. CASE Step(s) \/ CutOff(s)
  BY <1>4, <1>5, <1>6
     DEF Step, ExpireAttempts, CompareCode, DeleteKeys, LookUpUser, CreateUser,
         GrantBonus, InsertUser, SetPassword, ForgetLink, CutOff, Steps
<1>. QED
  BY <1>1, <1>2, <1>3, <1>6 DEF Serve

(* A verification that is about to read the code is one of the load, and   *)
(* the comparison takes it out.                                            *)
LEMMA CompareUnloads ==
  ASSUME IInv, NEW s \in Sessions, CompareCode(s)
  PROVE  Load \in Nat /\ Load' \in Nat /\ Load' = Load - 1
<1>1. OnlyMoves(s)
  BY ServeMoves DEF Serve, Step
<1>2. session'[s].pc \in {"delete", "idle"}
  BY GotoMoves, AnswerMoves DEF IInv, CompareCode, Steps
<1>3. s \in Underway /\ s \notin Underway'
  BY <1>2 DEF Underway, CompareCode, At
<1>. QED
  BY <1>1, <1>3, LoadMoves DEF OnlyMoves

(* Every step keeps the type of every variable. *)
LEMMA TypeStep ==
  ASSUME IInv, [Next]_vars
  PROVE  TypeOK'
<1>1. WalletTypeOK'
  BY WalletStep
<1>2. session' \in [Sessions -> Request]
  BY ServeMoves
     DEF Next, Serve, vars, loginVars, IInv, TypeOK, OnlyMoves, RequestOtp,
         CodeExpires, AttemptsExpire, ForgotPassword, LinkExpires
<1>3. /\ code \in Codes \cup {NoCode} /\ issued \in Nat /\ issued <= MaxCodes
      /\ calls \in Nat /\ calls <= MaxCalls /\ attempts \in Nat /\ attempts <= calls
      /\ faults \in Nat /\ faults <= MaxFaults
      /\ MaxCalls \in Nat /\ MaxCodes \in Nat /\ MaxFaults \in Nat
  BY LoginBoundsAssumption DEF IInv, TypeOK, CallsCounted
<1>4. CASE RequestOtp
  <2>1. issued' \in Codes /\ issued' \in 0 .. MaxCodes
    BY <1>3, <1>4 DEF RequestOtp, Codes
  <2>2. Cardinality(Underway) \in 0 .. Cardinality(Sessions)
    BY LoadIsFinite, SessionsAssumption, FS_CardinalityType DEF Load
  <2>3. carried' \in [Codes -> 0 .. Cardinality(Sessions)]
    BY <1>4, <2>1, <2>2 DEF RequestOtp, IInv, TypeOK
  <2>4. code' \in Codes /\ attempts' = 0 /\ expiring' = FALSE /\ 0 \in 0 .. MaxCalls
    BY <1>3, <1>4, <2>1 DEF RequestOtp
  <2>5. UNCHANGED <<links, sent, account, session, compared, uses, contested, calls,
                  faults, cut>>
    BY <1>4 DEF RequestOtp
  <2>. QED
    BY <1>1, <1>2, <2>1, <2>3, <2>4, <2>5 DEF IInv, TypeOK
<1>5. CASE CodeExpires \/ AttemptsExpire
  <2>1. 0 \in 0 .. MaxCalls
    BY <1>3
  <2>. QED
    BY <1>1, <1>2, <1>5, <2>1 DEF CodeExpires, AttemptsExpire, IInv, TypeOK
<1>6. ASSUME NEW l \in Links, ForgotPassword(l) \/ LinkExpires(l)
      PROVE  TypeOK'
  BY <1>1, <1>2, <1>6 DEF ForgotPassword, LinkExpires, IInv, TypeOK
<1>7. ASSUME NEW s \in Sessions, NEW guess \in 0 .. issued, CountAttempt(s, guess)
      PROVE  TypeOK'
  <2>1. attempts' \in 0 .. MaxCalls /\ calls' \in 0 .. MaxCalls
    BY <1>3, <1>7 DEF CountAttempt, Call
  <2>. QED
    BY <1>1, <1>2, <1>7, <2>1 DEF CountAttempt, IInv, TypeOK
<1>8. ASSUME NEW s \in Sessions, Register(s)
      PROVE  TypeOK'
  <2>1. calls' \in 0 .. MaxCalls
    BY <1>3, <1>8 DEF Register, Call
  <2>. QED
    BY <1>1, <1>2, <1>8, <2>1 DEF Register, IInv, TypeOK
<1>9. ASSUME NEW s \in Sessions, NEW l \in Links, ResetPassword(s, l)
      PROVE  TypeOK'
  BY <1>1, <1>2, <1>9, SecretsApart DEF ResetPassword, Contest, IInv, TypeOK
<1>10. ASSUME NEW s \in Sessions, CompareCode(s)
       PROVE  TypeOK'
  <2>1. \A c \in Codes : compared[c] + 1 \in 0 .. MaxCalls
    <3>. SUFFICES ASSUME NEW c \in Codes PROVE compared[c] + 1 \in 0 .. MaxCalls
      OBVIOUS
    <3>1. Load \in Nat /\ Load >= 1
      BY <1>10, CompareUnloads
    <3>2. compared[c] \in Nat /\ compared[c] + Load <= calls
      BY DEF IInv, TypeOK, CallsCounted
    <3>. QED
      BY <1>3, <3>1, <3>2
  <2>2. compared' \in [Codes -> 0 .. MaxCalls]
    <3>. SUFFICES ASSUME NEW c \in Codes
                  PROVE  compared[c] + (IF c = code THEN 1 ELSE 0) \in 0 .. MaxCalls
      BY <1>10 DEF CompareCode
    <3>1. compared[c] \in 0 .. MaxCalls
      BY DEF IInv, TypeOK
    <3>. QED
      BY <2>1, <3>1
  <2>3. contested' \subseteq Secrets
    <3>1. \A t \in Sessions : session[t].pc = "delete" => Secret(t) \in Secrets
      BY SecretsApart DEF IInv, SecretsFit, SecretFits
    <3>. QED
      BY <1>10, <3>1 DEF CompareCode, Contest, IInv, TypeOK
  <2>. QED
    BY <1>1, <1>2, <1>10, <2>2, <2>3 DEF CompareCode, IInv, TypeOK
<1>11. ASSUME NEW s \in Sessions,
              ExpireAttempts(s) \/ DeleteKeys(s) \/ CreateUser(s) \/ InsertUser(s)
                \/ ForgetLink(s)
       PROVE  TypeOK'
  <2>1. 0 \in 0 .. MaxCalls
    BY <1>3
  <2>2. CASE ExpireAttempts(s)
    <3>1. expiring' \in BOOLEAN
      BY <2>2 DEF ExpireAttempts
    <3>. QED
      BY <1>1, <1>2, <2>2, <3>1 DEF ExpireAttempts, IInv, TypeOK
  <2>3. CASE DeleteKeys(s)
    BY <1>1, <1>2, <2>1, <2>3 DEF DeleteKeys, IInv, TypeOK
  <2>4. CASE CreateUser(s) \/ InsertUser(s) \/ ForgetLink(s)
    BY <1>1, <1>2, <2>4 DEF CreateUser, InsertUser, ForgetLink, IInv, TypeOK
  <2>. QED
    BY <1>11, <2>2, <2>3, <2>4
<1>12. ASSUME NEW s \in Sessions, LookUpUser(s) \/ GrantBonus(s) \/ SetPassword(s)
       PROVE  TypeOK'
  <2>1. uses' \in [Secrets -> Nat]
    BY <1>12 DEF LookUpUser, GrantBonus, SetPassword, Used, IInv, TypeOK
  <2>. QED
    BY <1>1, <1>2, <1>12, <2>1
       DEF LookUpUser, GrantBonus, SetPassword, IInv, TypeOK
<1>13. ASSUME NEW s \in Sessions, CutOff(s)
       PROVE  TypeOK'
  <2>1. faults' \in 0 .. MaxFaults
    BY <1>3, <1>13 DEF CutOff
  <2>2. session[s] \in Request
    BY DEF IInv, TypeOK
  <2>. QED
    BY <1>1, <1>2, <1>13, <2>1, <2>2 DEF CutOff, IInv, TypeOK
<1>14. CASE UNCHANGED vars
  BY <1>1, <1>14 DEF vars, loginVars, IInv, TypeOK
<1>. QED
  BY <1>4, <1>5, <1>6, <1>7, <1>8, <1>9, <1>10, <1>11, <1>12, <1>13, <1>14
     DEF Next, Step

(* Request s goes from one step to another and keeps what it holds. *)
Goes(s, from, to) ==
  /\ session[s].pc = from /\ session'[s].pc = to
  /\ session'[s].secret = session[s].secret

(* It is over, or begins and holds x. *)
Over(s) == session'[s].pc = "idle" /\ session'[s].secret = NoCode

Starts(s, steps, x) ==
  session[s].pc = "idle" /\ session'[s].pc \in steps /\ session'[s].secret = x

(* Where the steps of a request lead. *)
LEMMA Effects ==
  ASSUME IInv, NEW s \in Sessions
  PROVE  /\ \A guess \in 0 .. issued :
              CountAttempt(s, guess) =>
                session' = session \/ Starts(s, {"expire", "get"}, guess)
         /\ Register(s) => Starts(s, {"insert"}, NoCode)
         /\ \A l \in Links : ResetPassword(s, l) => Starts(s, {"password"}, l)
         /\ ExpireAttempts(s) => Goes(s, "expire", "get")
         /\ CompareCode(s) =>
              /\ session[s].pc = "get"
              /\ \/ code \in Codes /\ Secret(s) = code /\ Goes(s, "get", "delete")
                 \/ ~ (code \in Codes /\ Secret(s) = code) /\ Over(s)
         /\ DeleteKeys(s) => Goes(s, "delete", "lookup")
         /\ LookUpUser(s) =>
              \/ Goes(s, "lookup", "create") /\ uses' = uses
              \/ session[s].pc = "lookup" /\ Over(s) /\ Used(s)
         /\ CreateUser(s) =>
              \/ Goes(s, "create", "bonus") /\ account = "none" /\ account' = "phone"
              \/ session[s].pc = "create" /\ Over(s) /\ account # "none" /\ account' = account
         /\ InsertUser(s) =>
              \/ Goes(s, "insert", "bonus") /\ account = "none" /\ account' = "full"
              \/ session[s].pc = "insert" /\ Over(s) /\ account # "none" /\ account' = account
         /\ GrantBonus(s) => session[s].pc = "bonus" /\ Over(s) /\ Used(s)
         /\ SetPassword(s) => Goes(s, "password", "forget") /\ Used(s)
         /\ ForgetLink(s) => session[s].pc = "forget" /\ Over(s)
         /\ CutOff(s) => Over(s)
<1>1. ASSUME NEW from, NEW to \in Steps, At(s, from), Goto(s, to)
      PROVE  Goes(s, from, to)
  BY <1>1, GotoMoves DEF IInv, Goes, At
<1>2. Answer(s) => Over(s)
  BY AnswerMoves DEF IInv, Over
<1>3. ASSUME NEW guess \in 0 .. issued, CountAttempt(s, guess)
      PROVE  session' = session \/ Starts(s, {"expire", "get"}, guess)
  <2>1. guess \in Secrets \cup {NoCode} /\ "expire" \in Steps /\ "get" \in Steps
    BY LoginBoundsAssumption DEF IInv, TypeOK, Secrets, Codes, NoCode, Steps
  <2>. QED
    BY <1>3, <2>1, BeginsMoves DEF CountAttempt, IInv, Starts
<1>4. Register(s) => Starts(s, {"insert"}, NoCode)
  BY BeginsMoves DEF Register, IInv, Steps, Starts
<1>5. \A l \in Links : ResetPassword(s, l) => Starts(s, {"password"}, l)
  BY BeginsMoves, SecretsApart DEF ResetPassword, IInv, Steps, Starts
<1>6. ExpireAttempts(s) => Goes(s, "expire", "get")
  BY <1>1 DEF ExpireAttempts, Steps
<1>7. CompareCode(s) =>
        /\ session[s].pc = "get"
        /\ \/ code \in Codes /\ Secret(s) = code /\ Goes(s, "get", "delete")
           \/ ~ (code \in Codes /\ Secret(s) = code) /\ Over(s)
  BY <1>1, <1>2, SecretsApart DEF CompareCode, Steps, At, IInv, TypeOK
<1>8. DeleteKeys(s) => Goes(s, "delete", "lookup")
  BY <1>1 DEF DeleteKeys, Steps
<1>9. LookUpUser(s) =>
        \/ Goes(s, "lookup", "create") /\ uses' = uses
        \/ session[s].pc = "lookup" /\ Over(s) /\ Used(s)
  BY <1>1, <1>2 DEF LookUpUser, Steps, At
<1>10. CreateUser(s) =>
         \/ Goes(s, "create", "bonus") /\ account = "none" /\ account' = "phone"
         \/ session[s].pc = "create" /\ Over(s) /\ account # "none" /\ account' = account
  BY <1>1, <1>2 DEF CreateUser, Steps, At
<1>11. InsertUser(s) =>
         \/ Goes(s, "insert", "bonus") /\ account = "none" /\ account' = "full"
         \/ session[s].pc = "insert" /\ Over(s) /\ account # "none" /\ account' = account
  BY <1>1, <1>2 DEF InsertUser, Steps, At
<1>12. GrantBonus(s) => session[s].pc = "bonus" /\ Over(s) /\ Used(s)
  BY <1>2 DEF GrantBonus, At
<1>13. SetPassword(s) => Goes(s, "password", "forget") /\ Used(s)
  BY <1>1 DEF SetPassword, Steps
<1>14. ForgetLink(s) => session[s].pc = "forget" /\ Over(s)
  BY <1>2 DEF ForgetLink, At
<1>15. CutOff(s) => Over(s)
  BY <1>2 DEF CutOff
<1>. QED
  BY <1>3, <1>4, <1>5, <1>6, <1>7, <1>8, <1>9, <1>10, <1>11, <1>12, <1>13, <1>14, <1>15

(* Request s holds what fits its step if it did before and is over, goes   *)
(* on within the same handler, or begins with a guess or a known link.     *)
LEMMA FitsAfter ==
  ASSUME IInv, NEW s \in Sessions,
         issued <= issued', issued' \in Nat, sent \subseteq sent',
         \/ Over(s)
         \/ \E from, to \in Steps :
              /\ Goes(s, from, to)
              /\ from \in {"password", "forget"} <=> to \in {"password", "forget"}
              /\ to \in {"delete", "lookup", "create"} => Secret(s) \in Codes
              /\ to # "insert"
         \/ \E guess \in 0 .. issued : Starts(s, {"expire", "get"}, guess)
         \/ Starts(s, {"insert"}, NoCode)
         \/ \E l \in links : Starts(s, {"password"}, l)
  PROVE  SecretFits(s)'
<1>. USE DEF SecretFits, Secret
<1>0. SecretFits(s) /\ issued \in Nat
  BY DEF IInv, SecretsFit, TypeOK
<1>1. CASE Over(s)
  BY <1>1, SecretsApart DEF Over
<1>2. ASSUME NEW from \in Steps, NEW to \in Steps, Goes(s, from, to),
             from \in {"password", "forget"} <=> to \in {"password", "forget"},
             to \in {"delete", "lookup", "create"} => Secret(s) \in Codes,
             to # "insert"
      PROVE  SecretFits(s)'
  <2>1. session[s].secret \in Codes => session[s].secret \in Nat
    BY SecretsApart
  <2>. QED
    BY <1>0, <1>2, <2>1 DEF Goes
<1>3. ASSUME NEW guess \in 0 .. issued, Starts(s, {"expire", "get"}, guess)
      PROVE  SecretFits(s)'
  <2>1. guess \in Codes \cup {NoCode} /\ guess <= issued /\ guess <= issued'
    BY <1>0, LoginBoundsAssumption DEF IInv, TypeOK, Codes, NoCode
  <2>. QED
    BY <1>3, <2>1, SecretsApart DEF Starts
<1>4. CASE Starts(s, {"insert"}, NoCode)
  BY <1>4, SecretsApart DEF Starts
<1>5. ASSUME NEW l \in links, Starts(s, {"password"}, l)
      PROVE  SecretFits(s)'
  BY <1>5, SecretsApart DEF Starts, IInv, TypeOK
<1>. QED
  BY <1>1, <1>2, <1>3, <1>4, <1>5

(* What requests hold fits their step, and was issued or sent before. *)
LEMMA SecretsStep ==
  ASSUME IInv, TypeOK', [Next]_vars
  PROVE  SecretsFit'
<1>1. issued <= issued' /\ issued' \in Nat /\ sent \subseteq sent'
  <2>1. issued \in Nat /\ issued' \in Nat
    BY LoginBoundsAssumption DEF IInv, TypeOK
  <2>2. issued' = issued \/ issued' = issued + 1
    BY DEF Next, vars, loginVars, RequestOtp, CodeExpires, AttemptsExpire,
           CountAttempt, Register, ResetPassword, Step, ExpireAttempts, CompareCode,
           DeleteKeys, LookUpUser, CreateUser, GrantBonus, InsertUser, SetPassword,
           ForgetLink, CutOff, ForgotPassword, LinkExpires
  <2>3. sent \subseteq sent'
    BY DEF Next, vars, loginVars, RequestOtp, CodeExpires, AttemptsExpire,
           CountAttempt, Register, ResetPassword, Step, ExpireAttempts, CompareCode,
           DeleteKeys, LookUpUser, CreateUser, GrantBonus, InsertUser, SetPassword,
           ForgetLink, CutOff, ForgotPassword, LinkExpires
  <2>. QED
    BY <2>1, <2>2, <2>3
<1>2. ASSUME NEW s \in Sessions, session'[s] = session[s]
      PROVE  SecretFits(s)'
  <2>1. issued \in Nat
    BY LoginBoundsAssumption DEF IInv, TypeOK
  <2>2. session[s].secret \in Codes => session[s].secret \in Nat
    BY SecretsApart
  <2>. QED
    BY <1>1, <1>2, <2>1, <2>2 DEF IInv, SecretsFit, SecretFits, Secret
<1>3. CASE UNCHANGED session
  BY <1>2, <1>3 DEF SecretsFit
<1>4. ASSUME NEW s \in Sessions, Serve(s) \/ CutOff(s), session' # session
      PROVE  SecretsFit'
  <2>1. SecretFits(s)'
    <3>1. Secret(s) \in Codes \/ ~ (session[s].pc \in {"delete", "lookup", "create"})
      BY DEF IInv, SecretsFit, SecretFits
    <3>. QED
      BY <1>1, <1>4, <3>1, Effects, FitsAfter
         DEF Serve, Step, ResetPassword, Steps, Goes, Secret
  <2>2. OnlyMoves(s)
    BY <1>4, ServeMoves
  <2>. QED
    BY <1>2, <2>1, <2>2 DEF OnlyMoves, SecretsFit
<1>. QED
  BY <1>3, <1>4
     DEF Next, Serve, vars, loginVars, RequestOtp, CodeExpires, AttemptsExpire,
         ForgotPassword, LinkExpires

(* What was not issued and sent before a step was not compared or used by  *)
(* it.                                                                     *)
LEMMA NewStep ==
  ASSUME IInv, TypeOK', [Next]_vars
  PROVE  NewSecrets'
<1>1. issued \in Nat /\ issued' \in Nat /\ code \in Nat /\ code <= issued
  BY LoginBoundsAssumption, SecretsApart DEF IInv, TypeOK, NewSecrets, NoCode
<1>2. \A s \in Sessions : SecretFits(s)
  BY DEF IInv, SecretsFit
<1>3. ASSUME issued' = issued, code' \in {code, NoCode}, sent \subseteq sent',
             \A c \in Codes : c > issued => compared'[c] = compared[c],
             uses' = uses \/ \E s \in Sessions : Used(s)
      PROVE  NewSecrets'
  <2>1. NewSecrets
    BY DEF IInv
  <2>2. ASSUME NEW x \in Secrets, uses[x] = 0, x \in Codes => x > issued,
               x \in Links => x \notin sent
        PROVE  uses'[x] = 0
    <3>1. CASE uses' = uses
      BY <2>2, <3>1
    <3>2. ASSUME NEW s \in Sessions, Used(s) PROVE uses'[x] = 0
      <4>1. x # Secret(s)
        BY <1>1, <1>2, <2>2, SecretsApart DEF SecretFits
      <4>. QED
        BY <2>2, <3>2, <4>1 DEF Used
    <3>. QED
      BY <1>3, <3>1, <3>2
  <2>3. \A c \in Codes : c > issued => compared'[c] = 0 /\ uses'[c] = 0
    BY <1>3, <2>1, <2>2, SecretsApart DEF NewSecrets
  <2>4. \A l \in Links : l \notin sent => uses'[l] = 0
    BY <2>1, <2>2, SecretsApart DEF NewSecrets
  <2>5. code' <= issued'
    BY <1>1, <1>3 DEF NoCode
  <2>. QED
    BY <1>3, <2>3, <2>4, <2>5 DEF NewSecrets
<1>4. CASE RequestOtp
  <2>1. /\ issued' = issued + 1 /\ code' = issued'
        /\ UNCHANGED <<sent, compared, uses>>
    BY <1>4 DEF RequestOtp
  <2>2. \A c \in Codes : c > issued' => c > issued
    BY <1>1, <2>1, SecretsApart
  <2>. QED
    BY <1>1, <2>1, <2>2 DEF IInv, NewSecrets
<1>5. CASE CodeExpires \/ AttemptsExpire
  BY <1>3, <1>5 DEF CodeExpires, AttemptsExpire
<1>6. ASSUME NEW l \in Links, ForgotPassword(l) \/ LinkExpires(l)
      PROVE  NewSecrets'
  BY <1>3, <1>6 DEF ForgotPassword, LinkExpires
<1>7. ASSUME NEW s \in Sessions, CompareCode(s)
      PROVE  NewSecrets'
  <2>1. \A c \in Codes : c > issued => compared'[c] = compared[c]
    <3>. SUFFICES ASSUME NEW c \in Codes, c > issued PROVE compared'[c] = compared[c]
      OBVIOUS
    <3>1. c # code /\ compared[c] \in Nat
      BY <1>1, SecretsApart DEF IInv, TypeOK
    <3>. QED
      BY <1>7, <3>1 DEF CompareCode
  <2>2. issued' = issued /\ code' = code /\ sent' = sent /\ uses' = uses
    BY <1>7 DEF CompareCode
  <2>. QED
    BY <1>3, <2>1, <2>2
<1>8. ASSUME NEW s \in Sessions, LookUpUser(s) \/ GrantBonus(s) \/ SetPassword(s)
      PROVE  NewSecrets'
  BY <1>3, <1>8 DEF LookUpUser, GrantBonus, SetPassword
<1>9. ASSUME NEW s \in Sessions,
             \/ \E guess \in 0 .. issued : CountAttempt(s, guess)
             \/ Register(s)
             \/ \E l \in Links : ResetPassword(s, l)
             \/ ExpireAttempts(s) \/ DeleteKeys(s) \/ CreateUser(s)
             \/ InsertUser(s) \/ ForgetLink(s) \/ CutOff(s)
      PROVE  NewSecrets'
  BY <1>3, <1>9
     DEF CountAttempt, Register, ResetPassword, ExpireAttempts, DeleteKeys,
         CreateUser, InsertUser, ForgetLink, CutOff
<1>10. CASE UNCHANGED vars
  BY <1>3, <1>10 DEF vars, loginVars
<1>. QED
  BY <1>4, <1>5, <1>6, <1>7, <1>8, <1>9, <1>10 DEF Next, Step

(* What a request does beside counting a verification and comparing. *)
OtherStep(s) ==
  \/ Register(s)
  \/ \E l \in Links : ResetPassword(s, l)
  \/ ExpireAttempts(s) \/ DeleteKeys(s) \/ LookUpUser(s) \/ CreateUser(s)
  \/ GrantBonus(s) \/ InsertUser(s) \/ SetPassword(s) \/ ForgetLink(s)
  \/ CutOff(s)

(* Only counting a verification adds to the load. *)
LEMMA LoadStep ==
  ASSUME IInv, NEW s \in Sessions, Serve(s) \/ CutOff(s)
  PROVE  /\ Load \in Nat /\ Load' \in Nat
         /\ Load' <= Load + 1
         /\ OtherStep(s) => Load' <= Load
<1>1. OnlyMoves(s)
  BY ServeMoves
<1>2. /\ Load \in Nat /\ Load' \in Nat
      /\ (s \in Underway <=> s \in Underway') => Load' = Load
      /\ s \in Underway /\ s \notin Underway' => Load' = Load - 1
      /\ s \notin Underway /\ s \in Underway' => Load' = Load + 1
  BY <1>1, LoadMoves DEF OnlyMoves
<1>3. OtherStep(s) => (s \in Underway' => s \in Underway)
  BY Effects DEF OtherStep, Starts, Goes, Over, Underway
<1>. QED
  BY <1>2, <1>3

(* A step that compares nothing, issues nothing and adds nothing to the    *)
(* load keeps the bounds on guesses.                                       *)
LEMMA GuessesKept ==
  ASSUME IInv, TypeOK', code' \in {code, NoCode}, compared' = compared,
         carried' = carried, calls <= calls',
         attempts' <= attempts, code' # NoCode => attempts' = attempts,
         Load' \in Nat, Load' <= Load
  PROVE  CallsCounted' /\ GuessesCounted' /\ GuessesBounded'
<1>1. /\ Load \in Nat /\ calls \in Nat /\ calls' \in Nat
      /\ attempts \in Nat /\ attempts' \in Nat /\ AttemptLimit \in Nat
      /\ \A c \in Codes : compared[c] \in Nat /\ carried[c] \in Nat
  BY LoadIsFinite, LimitAssumption, LoginBoundsAssumption, SessionsAssumption,
     FS_CardinalityType DEF IInv, TypeOK
<1>2. CallsCounted'
  BY <1>1 DEF IInv, CallsCounted
<1>3. GuessesCounted'
  <2>. SUFFICES ASSUME code' # NoCode
                PROVE  /\ compared[code] + Load' <= AttemptLimit + carried[code]
                       /\ compared[code] + Load' <= attempts' + carried[code]
    BY DEF GuessesCounted
  <2>1. /\ code \in Codes /\ attempts' = attempts
        /\ compared[code] + Load <= AttemptLimit + carried[code]
        /\ compared[code] + Load <= attempts + carried[code]
    BY DEF IInv, TypeOK, GuessesCounted
  <2>. QED
    BY <1>1, <2>1
<1>4. GuessesBounded'
  BY DEF IInv, GuessesBounded
<1>. QED
  BY <1>2, <1>3, <1>4

(* The bounds on guesses hold after every step: a new code carries over    *)
(* the load, a counted verification adds one to both sides, and a          *)
(* comparison turns one of the load into a guess.                          *)
LEMMA GuessStep ==
  ASSUME IInv, TypeOK', [Next]_vars
  PROVE  CallsCounted' /\ GuessesCounted' /\ GuessesBounded'
<1>1. /\ Load \in Nat /\ calls \in Nat /\ attempts \in Nat /\ issued \in Nat
      /\ AttemptLimit \in Nat /\ AttemptLimit >= 1
      /\ \A c \in Codes : compared[c] \in Nat /\ carried[c] \in Nat
  BY LoadIsFinite, LimitAssumption, LoginBoundsAssumption, SessionsAssumption,
     FS_CardinalityType DEF IInv, TypeOK
<1>2. CallsCounted /\ GuessesCounted /\ GuessesBounded
  BY DEF IInv
<1>3. ASSUME session' = session PROVE Load' = Load
  BY <1>3 DEF Load, Underway
<1>4. CASE RequestOtp
  <2>1. /\ issued' = issued + 1 /\ code' = issued' /\ attempts' = 0
        /\ UNCHANGED <<session, compared, calls>>
        /\ carried' = [carried EXCEPT ![issued'] = Load]
    BY <1>4 DEF RequestOtp, Load
  <2>2. code' \in Codes /\ code' > issued
    BY <1>1, <1>4, <2>1, LoginBoundsAssumption DEF RequestOtp, IInv, TypeOK, Codes
  <2>3. /\ carried'[code'] = Load /\ compared[code'] = 0
        /\ \A c \in Codes : c # code' => carried'[c] = carried[c]
    BY <2>1, <2>2 DEF IInv, TypeOK, NewSecrets
  <2>4. Load' = Load
    BY <1>3, <2>1
  <2>5. CallsCounted'
    BY <1>1, <1>2, <2>1, <2>4 DEF CallsCounted
  <2>6. GuessesCounted'
    BY <1>1, <2>1, <2>3, <2>4 DEF GuessesCounted
  <2>7. GuessesBounded'
    <3>. SUFFICES ASSUME NEW c \in Codes
                  PROVE  compared[c] <= AttemptLimit + carried'[c]
      BY <2>1 DEF GuessesBounded
    <3>. QED
      BY <1>1, <1>2, <2>3 DEF GuessesBounded
  <2>. QED
    BY <2>5, <2>6, <2>7
<1>5. CASE CodeExpires
  BY <1>1, <1>3, <1>5, GuessesKept DEF CodeExpires
<1>6. CASE AttemptsExpire
  BY <1>1, <1>3, <1>6, GuessesKept DEF AttemptsExpire
<1>7. ASSUME NEW l \in Links, ForgotPassword(l) \/ LinkExpires(l)
      PROVE  CallsCounted' /\ GuessesCounted' /\ GuessesBounded'
  BY <1>1, <1>3, <1>7, GuessesKept DEF ForgotPassword, LinkExpires
<1>8. ASSUME NEW s \in Sessions, NEW guess \in 0 .. issued, CountAttempt(s, guess)
      PROVE  CallsCounted' /\ GuessesCounted' /\ GuessesBounded'
  <2>1. /\ attempts' = attempts + 1 /\ calls' = calls + 1
        /\ UNCHANGED <<code, compared, carried>>
    BY <1>8 DEF CountAttempt, Call
  <2>2. Load' \in Nat /\ Load' <= Load + 1
    BY <1>8, LoadStep DEF Serve
  <2>3. attempts' <= AttemptLimit \/ Load' = Load
    BY <1>1, <1>3, <1>8, <2>1 DEF CountAttempt, FirstAttempt, TooMany
  <2>4. CallsCounted'
    BY <1>1, <1>2, <2>1, <2>2 DEF CallsCounted
  <2>5. GuessesCounted'
    <3>. SUFFICES ASSUME code # NoCode
                  PROVE  /\ compared[code] + Load' <= AttemptLimit + carried[code]
                         /\ compared[code] + Load' <= attempts' + carried[code]
      BY <2>1 DEF GuessesCounted
    <3>1. /\ code \in Codes
          /\ compared[code] + Load <= AttemptLimit + carried[code]
          /\ compared[code] + Load <= attempts + carried[code]
      BY <1>2 DEF IInv, TypeOK, GuessesCounted
    <3>. QED
      BY <1>1, <2>1, <2>2, <2>3, <3>1
  <2>6. GuessesBounded'
    BY <1>2, <2>1 DEF GuessesBounded
  <2>. QED
    BY <2>4, <2>5, <2>6
<1>9. ASSUME NEW s \in Sessions, CompareCode(s)
      PROVE  CallsCounted' /\ GuessesCounted' /\ GuessesBounded'
  <2>1. Load' \in Nat /\ Load' = Load - 1
    BY <1>9, CompareUnloads
  <2>2. /\ \A c \in Codes : compared'[c] = compared[c] + (IF c = code THEN 1 ELSE 0)
        /\ UNCHANGED <<code, attempts, calls, carried>>
    BY <1>9 DEF CompareCode
  <2>3. CallsCounted'
    BY <1>1, <1>2, <2>1, <2>2 DEF CallsCounted
  <2>4. code # NoCode =>
          /\ code \in Codes
          /\ compared'[code] = compared[code] + 1
          /\ compared[code] + Load <= AttemptLimit + carried[code]
          /\ compared[code] + Load <= attempts + carried[code]
    BY <1>2, <2>2 DEF IInv, TypeOK, GuessesCounted
  <2>5. GuessesCounted'
    BY <1>1, <2>1, <2>2, <2>4 DEF GuessesCounted
  <2>6. GuessesBounded'
    <3>. SUFFICES ASSUME NEW c \in Codes
                  PROVE  compared'[c] <= AttemptLimit + carried[c]
      BY <2>2 DEF GuessesBounded
    <3>1. CASE c = code
      BY <1>1, <2>1, <2>4, <3>1, SecretsApart
    <3>2. CASE c # code
      BY <1>1, <1>2, <2>2, <3>2 DEF GuessesBounded
    <3>. QED
      BY <3>1, <3>2
  <2>. QED
    BY <2>3, <2>5, <2>6
<1>10. ASSUME NEW s \in Sessions, OtherStep(s)
       PROVE  CallsCounted' /\ GuessesCounted' /\ GuessesBounded'
  <2>1. /\ code' \in {code, NoCode} /\ compared' = compared /\ carried' = carried
        /\ calls' \in {calls, calls + 1} /\ attempts' \in {attempts, 0}
        /\ code' # NoCode => attempts' = attempts
    BY <1>10 DEF OtherStep, Register, Call, ResetPassword, ExpireAttempts, DeleteKeys, LookUpUser,
                 CreateUser, GrantBonus, InsertUser, SetPassword, ForgetLink, CutOff
  <2>2. Load' \in Nat /\ Load' <= Load
    BY <1>10, LoadStep DEF OtherStep, Serve, Step
  <2>3. calls <= calls' /\ attempts' <= attempts
    BY <1>1, <2>1
  <2>. QED
    BY <2>1, <2>2, <2>3, GuessesKept
<1>11. CASE UNCHANGED vars
  BY <1>1, <1>3, <1>11, GuessesKept DEF vars, loginVars
<1>. QED
  BY <1>4, <1>5, <1>6, <1>7, <1>8, <1>9, <1>10, <1>11 DEF Next, Step, OtherStep

(* The bonus follows the account: the request that created it is about to  *)
(* grant it, has granted it, or was cut off at just that.                  *)
LEMMA BonusStep ==
  ASSUME IInv, TypeOK', [Next]_vars
  PROVE  BonusAfterAccount' /\ AccountHasBonus'
<1>1. /\ HasKey(SignupKey) => HasKey(SignupKey)'
      /\ HasKey(SignupKey)' => HasKey(SignupKey) \/ \E s \in Sessions : GrantBonus(s)
  BY WalletStep
<1>2. /\ account = "none" => \A s \in Sessions : session[s].pc # "bonus"
      /\ account = "none" => ~ HasKey(SignupKey)
      /\ account # "none" => \/ HasKey(SignupKey)
                             \/ \E s \in Sessions : session[s].pc = "bonus"
                             \/ \E r \in cut : r.pc = "bonus"
  BY DEF IInv, BonusAfterAccount, AccountHasBonus, At, CutOffAt
<1>3. account = "none" => ~ HasKey(SignupKey)'
  BY <1>1, <1>2, Effects
<1>. SUFFICES /\ account' = "none" => \A s \in Sessions : session'[s].pc # "bonus"
              /\ account' = "none" => account = "none"
              /\ account' # "none" => \/ HasKey(SignupKey)'
                                      \/ \E s \in Sessions : session'[s].pc = "bonus"
                                      \/ \E r \in cut' : r.pc = "bonus"
  BY <1>3 DEF BonusAfterAccount, AccountHasBonus, At, CutOffAt
<1>4. CASE UNCHANGED <<account, session, cut>>
  BY <1>1, <1>2, <1>4
<1>5. CASE Environment \/ UNCHANGED vars
  BY <1>4, <1>5
     DEF Environment, RequestOtp, CodeExpires, AttemptsExpire, ForgotPassword,
         LinkExpires, vars, loginVars
<1>6. ASSUME NEW s \in Sessions, OnlyMoves(s), UNCHANGED <<account, cut>>,
             session[s].pc # "bonus", session'[s].pc # "bonus"
      PROVE  /\ account' = "none" => \A t \in Sessions : session'[t].pc # "bonus"
             /\ account' = "none" => account = "none"
             /\ account' # "none" => \/ HasKey(SignupKey)'
                                     \/ \E t \in Sessions : session'[t].pc = "bonus"
                                     \/ \E r \in cut' : r.pc = "bonus"
  BY <1>1, <1>2, <1>6 DEF OnlyMoves
<1>7. ASSUME NEW s \in Sessions, CreateUser(s) \/ InsertUser(s)
      PROVE  /\ account' = "none" => \A t \in Sessions : session'[t].pc # "bonus"
             /\ account' = "none" => account = "none"
             /\ account' # "none" => \/ HasKey(SignupKey)'
                                     \/ \E t \in Sessions : session'[t].pc = "bonus"
                                     \/ \E r \in cut' : r.pc = "bonus"
  <2>1. OnlyMoves(s) /\ cut' = cut
    BY <1>7, ServeMoves DEF Serve, Step, CreateUser, InsertUser
  <2>2. \/ account' # "none" /\ session'[s].pc = "bonus"
        \/ /\ account' = account /\ account # "none"
           /\ session[s].pc # "bonus" /\ session'[s].pc # "bonus"
    BY <1>7, Effects DEF Goes, Over
  <2>. QED
    BY <1>6, <2>1, <2>2
<1>8. ASSUME NEW s \in Sessions, GrantBonus(s)
      PROVE  account' # "none" /\ HasKey(SignupKey)'
  <2>1. account' = account /\ account # "none"
    BY <1>2, <1>8, Effects DEF GrantBonus
  <2>2. HasKey(SignupKey)'
    BY <1>8, PostOnceTakesKey, CustomerAssumption, BonusAssumption
       DEF IInv, TypeOK, GrantBonus
  <2>. QED
    BY <2>1, <2>2
<1>9. ASSUME NEW s \in Sessions, CutOff(s)
      PROVE  /\ account' = "none" => \A t \in Sessions : session'[t].pc # "bonus"
             /\ account' = "none" => account = "none"
             /\ account' # "none" => \/ HasKey(SignupKey)'
                                     \/ \E t \in Sessions : session'[t].pc = "bonus"
                                     \/ \E r \in cut' : r.pc = "bonus"
  <2>1. OnlyMoves(s) /\ session'[s].pc = "idle"
    BY <1>9, ServeMoves, Effects DEF Over
  <2>2. /\ account' = account /\ cut \subseteq cut'
        /\ session[s].pc = "bonus" => session[s] \in cut'
    BY <1>9 DEF CutOff, OnItsOwn, Request, IInv, TypeOK
  <2>. QED
    BY <1>1, <1>2, <2>1, <2>2 DEF OnlyMoves
<1>10. ASSUME NEW s \in Sessions,
              \/ \E guess \in 0 .. issued : CountAttempt(s, guess)
              \/ Register(s)
              \/ \E l \in Links : ResetPassword(s, l)
              \/ ExpireAttempts(s) \/ CompareCode(s) \/ DeleteKeys(s)
              \/ LookUpUser(s) \/ SetPassword(s) \/ ForgetLink(s)
       PROVE  /\ account' = "none" => \A t \in Sessions : session'[t].pc # "bonus"
              /\ account' = "none" => account = "none"
              /\ account' # "none" => \/ HasKey(SignupKey)'
                                      \/ \E t \in Sessions : session'[t].pc = "bonus"
                                      \/ \E r \in cut' : r.pc = "bonus"
  <2>1. OnlyMoves(s)
    BY <1>10, ServeMoves DEF Serve, Step
  <2>2. UNCHANGED <<account, cut>>
    BY <1>10 DEF CountAttempt, Register, ResetPassword, ExpireAttempts, CompareCode,
                 DeleteKeys, LookUpUser, SetPassword, ForgetLink
  <2>3. session' = session \/ (session[s].pc # "bonus" /\ session'[s].pc # "bonus")
    BY <1>10, Effects DEF Starts, Goes, Over
  <2>. QED
    BY <1>4, <1>6, <2>1, <2>2, <2>3
<1>. QED
  BY <1>5, <1>7, <1>8, <1>9, <1>10 DEF Next, Step, Environment

(* A request past the deletion of the key that logs in with its code.      *)
LEMMA CodeSpent ==
  ASSUME IInv, NEW x \in Codes, UsedOnce(x), code' = code,
         NEW s \in Sessions, OnlyMoves(s), HoldsCode(s, x),
         session[s].pc # "delete", Over(s), uses'[x] = uses[x] + 1
  PROVE  UsedOnce(x)'
<1>1. uses[x] = 0 /\ uses'[x] = 1 /\ code # x
  BY DEF UsedOnce
<1>2. \A t \in Sessions : ~ HoldsCode(t, x)'
  BY DEF UsedOnce, HoldsCode, OnlyMoves, Over, Secret
<1>. QED
  BY <1>1, <1>2 DEF UsedOnce

(* Whatever step is taken: a code is given to a second request only at the *)
(* comparison, which contests it, and used where its key is gone.          *)
LEMMA CodeStep ==
  ASSUME IInv, TypeOK', [Next]_vars
  PROVE  CodeOnce'
<1>. SUFFICES ASSUME NEW x \in Codes, x \notin contested'
              PROVE  UsedOnce(x)'
  BY DEF CodeOnce
<1>1. x \notin contested
  BY DEF Next, vars, loginVars, RequestOtp, CodeExpires, AttemptsExpire,
         CountAttempt, Register, ResetPassword, Step, ExpireAttempts, CompareCode,
         DeleteKeys, LookUpUser, CreateUser, GrantBonus, InsertUser, SetPassword,
         ForgetLink, CutOff, ForgotPassword, LinkExpires, Contest
<1>2. /\ UsedOnce(x) /\ x # NoCode /\ x \in Secrets /\ x \notin Links
      /\ uses[x] \in Nat
      /\ \A s \in Sessions : SecretFits(s)
  BY <1>1, SecretsApart DEF IInv, CodeOnce, SecretsFit, TypeOK
<1>3. ASSUME session' = session, uses' = uses, code' \in {code, NoCode}
      PROVE  UsedOnce(x)'
  BY <1>2, <1>3 DEF UsedOnce, HoldsCode, Secret
<1>4. CASE RequestOtp
  <2>1. session' = session /\ uses' = uses /\ code' = issued + 1 /\ issued \in Nat
    BY <1>4, LoginBoundsAssumption DEF RequestOtp, IInv, TypeOK
  <2>2. CASE code' # x
    BY <1>2, <2>1, <2>2 DEF UsedOnce, HoldsCode, Secret
  <2>3. CASE code' = x
    <3>1. x > issued /\ uses[x] = 0
      BY <2>1, <2>3 DEF IInv, NewSecrets
    <3>2. \A s \in Sessions : session[s].secret # x
      BY <1>2, <2>1, <3>1, SecretsApart DEF SecretFits, Secret
    <3>. QED
      BY <2>1, <3>1, <3>2 DEF UsedOnce, HoldsCode, Secret
  <2>. QED
    BY <2>2, <2>3
<1>5. CASE CodeExpires \/ AttemptsExpire
  BY <1>3, <1>5 DEF CodeExpires, AttemptsExpire
<1>6. ASSUME NEW l \in Links, ForgotPassword(l) \/ LinkExpires(l)
      PROVE  UsedOnce(x)'
  BY <1>3, <1>6 DEF ForgotPassword, LinkExpires
<1>7. ASSUME NEW s \in Sessions, OnlyMoves(s), uses' = uses, code' \in {code, NoCode},
             \/ session' = session \/ Over(s) \/ session'[s].pc \in {"expire", "get", "insert", "password", "forget"}
             \/ /\ session'[s].secret = session[s].secret
                /\ session[s].pc \in {"delete", "lookup", "create", "bonus"}
                /\ session'[s].pc \in {"lookup", "create", "bonus"}
                /\ code' # x \/ session[s].pc # "delete"
      PROVE  UsedOnce(x)'
  BY <1>2, <1>7 DEF UsedOnce, HoldsCode, Secret, OnlyMoves, Over
<1>8. ASSUME NEW s \in Sessions,
             \/ \E guess \in 0 .. issued : CountAttempt(s, guess)
             \/ Register(s)
             \/ \E l \in Links : ResetPassword(s, l)
             \/ ExpireAttempts(s) \/ ForgetLink(s) \/ CutOff(s)
      PROVE  UsedOnce(x)'
  <2>1. OnlyMoves(s)
    BY <1>8, ServeMoves DEF Serve, Step
  <2>2. UNCHANGED <<uses, code>>
    BY <1>8 DEF CountAttempt, Register, ResetPassword, ExpireAttempts, ForgetLink, CutOff
  <2>3. session' = session \/ Over(s)
          \/ session'[s].pc \in {"expire", "get", "insert", "password", "forget"}
    BY <1>8, Effects DEF Starts, Goes
  <2>. QED
    BY <1>7, <2>1, <2>2, <2>3
<1>9. ASSUME NEW s \in Sessions, CompareCode(s)
      PROVE  UsedOnce(x)'
  <2>1. OnlyMoves(s) /\ uses' = uses /\ code' = code /\ session[s].pc = "get"
    BY <1>9, ServeMoves, Effects DEF Serve, Step, CompareCode
  <2>2. CASE Over(s)
    BY <1>7, <2>1, <2>2
  <2>3. CASE code = Secret(s) /\ Goes(s, "get", "delete") /\ code # x
    BY <1>2, <2>1, <2>3 DEF UsedOnce, HoldsCode, Secret, OnlyMoves, Goes
  <2>4. CASE code = Secret(s) /\ Goes(s, "get", "delete") /\ code = x
    <3>1. \A t \in Sessions \ {s} : ~ (session[t].pc = "delete" /\ Secret(t) = x)
      BY <1>9, <2>4 DEF CompareCode, Contest
    <3>2. \A t \in Sessions : ~ HoldsCode(t, x)
      BY <1>2, <2>1, <2>4, <3>1 DEF UsedOnce, HoldsCode
    <3>3. uses'[x] = 0 /\ session'[s].pc = "delete"
      BY <1>2, <2>1, <2>4 DEF UsedOnce, Goes
    <3>4. \A t \in Sessions : HoldsCode(t, x)' => t = s
      BY <2>1, <3>2 DEF HoldsCode, OnlyMoves, Secret
    <3>. QED
      BY <3>3, <3>4 DEF UsedOnce
  <2>. QED
    BY <1>9, <2>2, <2>3, <2>4, Effects
<1>10. ASSUME NEW s \in Sessions, DeleteKeys(s)
       PROVE  UsedOnce(x)'
  BY <1>2, <1>7, <1>10, ServeMoves, Effects DEF Serve, Step, DeleteKeys, Goes
<1>11. ASSUME NEW s \in Sessions, CreateUser(s) \/ InsertUser(s)
       PROVE  UsedOnce(x)'
  <2>1. OnlyMoves(s) /\ uses' = uses /\ code' = code
    BY <1>11, ServeMoves DEF Serve, Step, CreateUser, InsertUser
  <2>2. CASE Over(s)
    BY <1>7, <2>1, <2>2
  <2>3. CASE Goes(s, "create", "bonus")
    BY <1>7, <2>1, <2>3 DEF Goes
  <2>4. CASE Goes(s, "insert", "bonus")
    <3>1. session'[s].secret # x
      BY <1>2, <2>4 DEF Goes, SecretFits, Secret
    <3>. QED
      BY <1>2, <2>1, <3>1 DEF UsedOnce, HoldsCode, OnlyMoves, Secret
  <2>. QED
    BY <1>11, <2>2, <2>3, <2>4, Effects
<1>12. ASSUME NEW s \in Sessions, LookUpUser(s) \/ GrantBonus(s)
       PROVE  UsedOnce(x)'
  <2>1. OnlyMoves(s) /\ code' = code
    BY <1>12, ServeMoves DEF Serve, Step, LookUpUser, GrantBonus
  <2>2. CASE Goes(s, "lookup", "create") /\ uses' = uses
    BY <1>7, <2>1, <2>2 DEF Goes
  <2>3. CASE session[s].pc \in {"lookup", "bonus"} /\ Over(s) /\ Used(s)
    <3>1. CASE Secret(s) = x
      <4>1. HoldsCode(s, x) /\ session[s].pc # "delete" /\ uses'[x] = uses[x] + 1
        BY <1>2, <2>3, <3>1 DEF HoldsCode, Used
      <4>. QED
        BY <1>2, <2>1, <2>3, <4>1, CodeSpent
    <3>2. CASE Secret(s) # x
      <4>1. uses'[x] = uses[x]
        BY <1>2, <2>3, <3>2 DEF Used
      <4>. QED
        BY <1>2, <2>1, <2>3, <4>1 DEF UsedOnce, HoldsCode, OnlyMoves, Over, Secret
    <3>. QED
      BY <3>1, <3>2
  <2>. QED
    BY <1>12, <2>2, <2>3, Effects
<1>13. ASSUME NEW s \in Sessions, SetPassword(s)
       PROVE  UsedOnce(x)'
  <2>1. /\ OnlyMoves(s) /\ code' = code /\ Goes(s, "password", "forget") /\ Used(s)
    BY <1>13, ServeMoves, Effects DEF Serve, Step, SetPassword
  <2>2. Secret(s) # x
    BY <1>2, <2>1 DEF SecretFits, Goes
  <2>3. uses'[x] = uses[x]
    BY <1>2, <2>1, <2>2 DEF Used
  <2>. QED
    BY <1>2, <2>1, <2>3 DEF UsedOnce, HoldsCode, OnlyMoves, Goes, Secret
<1>14. CASE UNCHANGED vars
  BY <1>3, <1>14 DEF vars, loginVars
<1>. QED
  BY <1>4, <1>5, <1>6, <1>8, <1>9, <1>10, <1>11, <1>12, <1>13, <1>14 DEF Next, Step

(* Whatever step is taken: a link is given to a second request only where  *)
(* it is read, which contests it, and the request that set a password with *)
(* it removes it, unless it is cut off just then.                          *)
LEMMA LinkStep ==
  ASSUME IInv, TypeOK', [Next]_vars
  PROVE  LinkOnce'
<1>. SUFFICES ASSUME NEW x \in Links, x \notin contested',
                     [pc |-> "forget", secret |-> x] \notin cut'
              PROVE  SetOnce(x)'
  BY DEF LinkOnce, NotForgotten
<1>1. ~ NotForgotten(x)
  <2>1. cut \subseteq cut'
    BY DEF Next, vars, loginVars, RequestOtp, CodeExpires, AttemptsExpire,
           CountAttempt, Register, ResetPassword, Step, ExpireAttempts, CompareCode,
           DeleteKeys, LookUpUser, CreateUser, GrantBonus, InsertUser, SetPassword,
           ForgetLink, CutOff, ForgotPassword, LinkExpires
  <2>. QED
    BY <2>1 DEF NotForgotten
<1>2. x \notin contested
  BY DEF Next, vars, loginVars, RequestOtp, CodeExpires, AttemptsExpire,
         CountAttempt, Register, ResetPassword, Step, ExpireAttempts, CompareCode,
         DeleteKeys, LookUpUser, CreateUser, GrantBonus, InsertUser, SetPassword,
         ForgetLink, CutOff, ForgotPassword, LinkExpires, Contest
<1>3. /\ SetOnce(x) /\ x # NoCode /\ x \in Secrets /\ x \notin Codes
      /\ uses[x] \in Nat
      /\ \A s \in Sessions : SecretFits(s)
  BY <1>1, <1>2, SecretsApart DEF IInv, LinkOnce, SecretsFit, TypeOK
<1>4. ASSUME session' = session, uses' = uses, x \in links' => x \in links
      PROVE  SetOnce(x)'
  BY <1>3, <1>4 DEF SetOnce, HoldsLink, Secret
<1>5. CASE RequestOtp \/ CodeExpires \/ AttemptsExpire \/ UNCHANGED vars
  BY <1>4, <1>5 DEF RequestOtp, CodeExpires, AttemptsExpire, vars, loginVars
<1>6. ASSUME NEW l \in Links, ForgotPassword(l) \/ LinkExpires(l)
      PROVE  SetOnce(x)'
  <2>1. CASE ForgotPassword(l) /\ l = x
    <3>1. session' = session /\ uses' = uses /\ uses[x] = 0
      BY <2>1 DEF ForgotPassword, IInv, NewSecrets
    <3>. QED
      BY <1>3, <3>1 DEF SetOnce, HoldsLink, Secret
  <2>2. CASE ~ (ForgotPassword(l) /\ l = x)
    BY <1>4, <1>6, <2>2 DEF ForgotPassword, LinkExpires
  <2>. QED
    BY <2>1, <2>2
<1>7. ASSUME NEW s \in Sessions, OnlyMoves(s), uses'[x] = uses[x],
             x \in links' => x \in links,
             session[s].pc \notin {"password", "forget"},
             session'[s].pc \notin {"password", "forget"}
      PROVE  SetOnce(x)'
  BY <1>3, <1>7 DEF SetOnce, HoldsLink, OnlyMoves, Secret
<1>8. ASSUME NEW s \in Sessions,
             \/ \E guess \in 0 .. issued : CountAttempt(s, guess)
             \/ Register(s)
             \/ ExpireAttempts(s) \/ CompareCode(s) \/ DeleteKeys(s)
             \/ CreateUser(s) \/ InsertUser(s)
      PROVE  SetOnce(x)'
  <2>1. OnlyMoves(s)
    BY <1>8, ServeMoves DEF Serve, Step
  <2>2. UNCHANGED <<uses, links>>
    BY <1>8 DEF CountAttempt, Register, ExpireAttempts, CompareCode, DeleteKeys,
                CreateUser, InsertUser
  <2>3. \/ session' = session
        \/ /\ session[s].pc \notin {"password", "forget"}
           /\ session'[s].pc \notin {"password", "forget"}
    BY <1>8, Effects DEF Starts, Goes, Over
  <2>. QED
    BY <1>4, <1>7, <2>1, <2>2, <2>3
<1>9. ASSUME NEW s \in Sessions, LookUpUser(s) \/ GrantBonus(s)
      PROVE  SetOnce(x)'
  <2>1. OnlyMoves(s) /\ links' = links
    BY <1>9, ServeMoves DEF Serve, Step, LookUpUser, GrantBonus
  <2>2. /\ session[s].pc \notin {"password", "forget"}
        /\ session'[s].pc \notin {"password", "forget"}
        /\ uses' = uses \/ Used(s)
    BY <1>9, Effects DEF Goes, Over
  <2>3. Secret(s) # x
    BY <1>3, <2>2 DEF SecretFits
  <2>4. uses'[x] = uses[x]
    BY <1>3, <2>2, <2>3 DEF Used
  <2>. QED
    BY <1>7, <2>1, <2>2, <2>4
<1>10. ASSUME NEW s \in Sessions, NEW l \in Links, ResetPassword(s, l)
       PROVE  SetOnce(x)'
  <2>1. /\ OnlyMoves(s) /\ uses' = uses /\ links' = links /\ l \in links
        /\ session[s].pc = "idle" /\ session'[s].pc = "password"
        /\ session'[s].secret = l
    BY <1>10, ServeMoves, Effects DEF Serve, ResetPassword, Starts
  <2>2. CASE l # x
    BY <1>3, <2>1, <2>2 DEF SetOnce, HoldsLink, OnlyMoves, Secret
  <2>3. CASE l = x
    <3>1. \A t \in Sessions \ {s} : ~ HoldsLink(t, x)
      BY <1>10, <2>3 DEF ResetPassword, Contest, HoldsLink
    <3>2. \A t \in Sessions : ~ HoldsLink(t, x)
      BY <2>1, <3>1 DEF HoldsLink
    <3>3. uses'[x] = 0
      BY <1>3, <2>1, <2>3, <3>2 DEF SetOnce
    <3>4. \A t \in Sessions : HoldsLink(t, x)' => t = s
      BY <2>1, <3>2 DEF HoldsLink, OnlyMoves, Secret
    <3>. QED
      BY <3>3, <3>4 DEF SetOnce
  <2>. QED
    BY <2>2, <2>3
<1>11. ASSUME NEW s \in Sessions, SetPassword(s)
       PROVE  SetOnce(x)'
  <2>1. /\ OnlyMoves(s) /\ links' = links /\ Goes(s, "password", "forget") /\ Used(s)
    BY <1>11, ServeMoves, Effects DEF Serve, Step, SetPassword
  <2>2. CASE Secret(s) = x
    <3>1. HoldsLink(s, x) /\ uses[x] = 0
      BY <1>3, <2>1, <2>2 DEF SetOnce, HoldsLink, Goes
    <3>2. uses'[x] = 1
      BY <1>3, <2>1, <2>2, <3>1 DEF Used
    <3>3. \A t \in Sessions : HoldsLink(t, x)' <=> t = s
      BY <1>3, <2>1, <2>2, <3>1 DEF SetOnce, HoldsLink, OnlyMoves, Goes, Secret
    <3>4. session'[s].pc = "forget"
      BY <2>1 DEF Goes
    <3>. QED
      BY <3>2, <3>3, <3>4 DEF SetOnce
  <2>3. CASE Secret(s) # x
    <3>1. uses'[x] = uses[x]
      BY <1>3, <2>1, <2>3 DEF Used
    <3>2. \A t \in Sessions : HoldsLink(t, x)' <=> HoldsLink(t, x)
      BY <2>1, <2>3 DEF HoldsLink, OnlyMoves, Goes, Secret
    <3>3. ~ HoldsLink(s, x) /\ ~ HoldsLink(s, x)'
      BY <2>1, <2>3 DEF HoldsLink, Goes, Secret
    <3>4. \A t \in Sessions : HoldsLink(t, x)' => session'[t] = session[t]
      BY <2>1, <3>3 DEF OnlyMoves
    <3>. QED
      BY <1>3, <2>1, <3>1, <3>2, <3>4 DEF SetOnce
  <2>. QED
    BY <2>2, <2>3
<1>12. ASSUME NEW s \in Sessions, ForgetLink(s)
       PROVE  SetOnce(x)'
  <2>1. /\ OnlyMoves(s) /\ uses' = uses /\ links' = links \ {Secret(s)}
        /\ Over(s) /\ session[s].pc = "forget"
    BY <1>12, ServeMoves, Effects DEF Serve, Step, ForgetLink
  <2>2. /\ ~ HoldsLink(s, x)'
        /\ \A t \in Sessions : t # s => (HoldsLink(t, x)' <=> HoldsLink(t, x))
        /\ \A t \in Sessions : t # s => session'[t] = session[t]
    BY <2>1 DEF HoldsLink, OnlyMoves, Over, Secret
  <2>3. x \in links' => x \in links /\ ~ HoldsLink(s, x)
    BY <2>1 DEF HoldsLink
  <2>. QED
    BY <1>3, <2>1, <2>2, <2>3 DEF SetOnce
<1>13. ASSUME NEW s \in Sessions, CutOff(s)
       PROVE  SetOnce(x)'
  <2>1. /\ OnlyMoves(s) /\ uses' = uses /\ links' = links /\ Over(s)
        /\ cut' = cut \cup ({session[s]} \cap OnItsOwn) /\ session[s] \in Request
    BY <1>13, ServeMoves, Effects DEF CutOff, IInv, TypeOK
  <2>2. ~ (session[s].pc = "forget" /\ Secret(s) = x)
    <3>. SUFFICES ASSUME session[s].pc = "forget", session[s].secret = x
                  PROVE  FALSE
      BY DEF Secret
    <3>1. /\ session[s] = [pc |-> "forget", secret |-> x]
          /\ session[s] \in OnItsOwn
      BY <2>1 DEF Request, OnItsOwn
    <3>. QED
      BY <2>1, <3>1
  <2>3. /\ ~ HoldsLink(s, x)'
        /\ \A t \in Sessions : t # s => (HoldsLink(t, x)' <=> HoldsLink(t, x))
        /\ \A t \in Sessions : t # s => session'[t] = session[t]
    BY <2>1 DEF HoldsLink, OnlyMoves, Over, Secret
  <2>4. HoldsLink(s, x) => uses[x] = 0
    BY <1>3, <2>2 DEF SetOnce, HoldsLink
  <2>. QED
    BY <1>3, <2>1, <2>3, <2>4 DEF SetOnce
<1>. QED
  BY <1>5, <1>6, <1>8, <1>9, <1>10, <1>11, <1>12, <1>13 DEF Next, Step

-----------------------------------------------------------------------------
(* The theorems *)

(* Nothing was asked for yet. *)
LEMMA LoginBegins ==
  Init => IInv
<1>. SUFFICES ASSUME Init PROVE IInv
  OBVIOUS
<1>1. WalletTypeOK /\ ~ HasKey(SignupKey)
  BY WalletEmpty DEF Init
<1>2. Idle \in Request /\ Idle.pc = "idle" /\ Idle.secret = NoCode
  BY DEF Idle, Request, Steps
<1>3. \A s \in Sessions : session[s] = Idle
  BY DEF Init
<1>4. /\ 0 \in 0 .. MaxCalls /\ 0 \in 0 .. MaxCodes /\ 0 \in 0 .. MaxFaults
      /\ Cardinality(Sessions) \in Nat /\ 0 \in 0 .. Cardinality(Sessions)
  BY LoginBoundsAssumption, SessionsAssumption, FS_CardinalityType
<1>5. TypeOK
  BY <1>1, <1>2, <1>4 DEF Init, TypeOK
<1>6. Underway = {}
  BY <1>2, <1>3 DEF Underway
<1>7. Load = 0
  BY <1>6, FS_EmptySet DEF Load
<1>8. SecretsFit
  BY <1>2, <1>3, SecretsApart DEF SecretsFit, SecretFits, Secret
<1>9. NewSecrets /\ CallsCounted /\ GuessesCounted /\ GuessesBounded
  <2>1. AttemptLimit \in Nat /\ Codes \subseteq Secrets /\ Links \subseteq Secrets
    BY LimitAssumption, SecretsApart
  <2>. QED
    BY <1>7, <2>1, SecretsApart
       DEF Init, NewSecrets, CallsCounted, GuessesCounted, GuessesBounded, NoCode
<1>10. CodeOnce /\ LinkOnce
  <2>1. \A s \in Sessions : \A x : ~ HoldsCode(s, x) /\ ~ HoldsLink(s, x)
    BY <1>2, <1>3 DEF HoldsCode, HoldsLink
  <2>2. \A x \in Secrets : uses[x] = 0
    BY DEF Init
  <2>3. \A x \in Codes : UsedOnce(x)
    BY <2>1, <2>2, SecretsApart DEF Init, UsedOnce
  <2>4. \A x \in Links : SetOnce(x)
    BY <2>1, <2>2, SecretsApart DEF Init, SetOnce
  <2>. QED
    BY <2>3, <2>4 DEF CodeOnce, LinkOnce
<1>11. BonusAfterAccount /\ AccountHasBonus
  BY <1>1, <1>2, <1>3 DEF Init, BonusAfterAccount, AccountHasBonus, At
<1>. QED
  BY <1>5, <1>8, <1>9, <1>10, <1>11 DEF IInv

(* Every step keeps the invariant. *)
LEMMA StepKeeps ==
  IInv /\ [Next]_vars => IInv'
<1>. SUFFICES ASSUME IInv, [Next]_vars PROVE IInv'
  OBVIOUS
<1>1. TypeOK'
  BY TypeStep
<1>2. SecretsFit' /\ NewSecrets'
  BY <1>1, SecretsStep, NewStep
<1>3. CallsCounted' /\ GuessesCounted' /\ GuessesBounded'
  BY <1>1, GuessStep
<1>4. CodeOnce' /\ LinkOnce'
  BY <1>1, CodeStep, LinkStep
<1>5. BonusAfterAccount' /\ AccountHasBonus'
  BY <1>1, BonusStep
<1>. QED
  BY <1>1, <1>2, <1>3, <1>4, <1>5 DEF IInv

(* The inductive invariant holds, for any number of concurrent requests.   *)
THEOREM Invariant ==
  Spec => []IInv
BY LoginBegins, StepKeeps, PTL DEF Spec

(* Every variable of the login keeps its type. *)
THEOREM TypeCorrect ==
  Spec => []TypeOK
<1>1. IInv => TypeOK
  BY DEF IInv
<1>. QED
  BY <1>1, Invariant, PTL

(* verify_otp counts before it reads: a code is compared with at most      *)
(* _OTP_ATTEMPT_LIMIT guesses, and with those that were counted before the *)
(* code was issued and read it after.                                      *)
THEOREM GuessesAreBounded ==
  Spec => []GuessesBounded
<1>1. IInv => GuessesBounded
  BY DEF IInv
<1>. QED
  BY <1>1, Invariant, PTL

(* "so the code cannot be reused", "so it can only be used once": only     *)
(* requests that held a code or a link at the same time use it twice, or   *)
(* one that finds a link whose own removal was cut off.                    *)
THEOREM ReuseNeedsOverlap ==
  Spec => []ReusedOnlyByOverlap
<1>1. ASSUME IInv PROVE ReusedOnlyByOverlap
  <2>. SUFFICES ASSUME NEW x \in Secrets, uses[x] > 1, x \notin contested,
                       ~ NotForgotten(x)
                PROVE  FALSE
    BY DEF ReusedOnlyByOverlap
  <2>1. uses[x] \in Nat
    BY <1>1 DEF IInv, TypeOK
  <2>2. CASE x \in Codes
    BY <1>1, <2>1, <2>2 DEF IInv, CodeOnce, UsedOnce
  <2>3. CASE x \in Links
    BY <1>1, <2>1, <2>3 DEF IInv, LinkOnce, SetOnce
  <2>. QED
    BY <2>2, <2>3 DEF Secrets
<1>. QED
  BY <1>1, Invariant, PTL

(* verify_otp and register both end with _grant_signup_bonus: an account   *)
(* has its bonus, or the request that made it is about to grant it or was  *)
(* cut off at just that.                                                   *)
THEOREM AccountsHaveBonus ==
  Spec => []AccountHasBonus
<1>1. IInv => AccountHasBonus
  BY DEF IInv
<1>. QED
  BY <1>1, Invariant, PTL

(* Login moves money through the wallet only: the signup bonus is a step   *)
(* of it, however many requests grant it.                                  *)
THEOREM UsesWallet == Spec => WalletSpec
<1>1. Init => WalletInit
  BY DEF Init
<1>2. IInv /\ [Next]_vars => [WalletNext]_walletVars
  <2>. SUFFICES ASSUME IInv, [Next]_vars PROVE [WalletNext]_walletVars
    OBVIOUS
  <2>1. ASSUME NEW s \in Sessions, GrantBonus(s) PROVE [WalletNext]_walletVars
    BY <2>1, PostOnceIsStep, CustomerAssumption, BonusAssumption DEF GrantBonus
  <2>2. UNCHANGED walletVars \/ \E s \in Sessions : GrantBonus(s)
    BY DEF Next, vars, walletVars, RequestOtp, CodeExpires, AttemptsExpire,
           CountAttempt, Register, ResetPassword, Step, ExpireAttempts, CompareCode,
           DeleteKeys, LookUpUser, CreateUser, InsertUser, SetPassword, ForgetLink,
           CutOff, ForgotPassword, LinkExpires
  <2>. QED
    BY <2>1, <2>2
<1>. QED
  BY <1>1, <1>2, Invariant, PTL DEF Spec, WalletSpec

=============================================================================
