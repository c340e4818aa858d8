------------------------ MODULE ProviderCalls_proofs ------------------------
(***************************************************************************)
(* Proofs about ProviderCalls, for any length of a transfer and every job  *)
(* of the two job functions.                                               *)
(*                                                                         *)
(* The first half is about the jobs themselves: whatever tool, provider    *)
(* and number of photos, the calls of a job are laid out in one way, from  *)
(* which follow where it submits, where it asks the moderation model, and  *)
(* a schedule of its calls that ends before arq cancels it.  The second    *)
(* half is about their run: an inductive invariant that keeps the paid     *)
(* request, the gate and the clock in step with that layout.               *)
(***************************************************************************)
EXTENDS ProviderCalls, SequenceTheorems, TLAPS

StepNames ==
  {"submit", "result", "download", "moderate", "prompt", "fetch", "upload", "refuse"}

(* A call: its budget in ticks, its attempts and the steps of each. *)
CallType == [budget : Nat, tries : Nat \ {0}, steps : Seq(StepNames)]

(* A generation: paid for first, under a budget and without a retry, or a  *)
(* refusal.                                                                *)
Generations ==
  {g \in CallType :
     /\ g.tries = 1
     /\ \/ /\ g.budget \in 1 .. 20
           /\ g.steps \in {<<"submit", "result", "download">>, <<"submit", "result">>}
        \/ g.budget = NoBudget /\ g.steps = <<"refuse">>}

(* What a job calls between its beginning and its upload: nothing, or a    *)
(* generation after up to five photos, of which a video has none.          *)
BodyFits(body) ==
  \/ body = <<>>
  \/ \E n \in 0 .. 5, g \in Generations :
       /\ n > 0 => g.budget <= 10
       /\ body = Fetches(n) \o <<g>>

(* The budgets of the adapters, in ticks. *)
LEMMA Budgets ==
  /\ JobTimeout = 30
  /\ Seconds(30) = 1 /\ Seconds(60) = 2 /\ Seconds(90) = 3 /\ Seconds(120) = 4 /\ Seconds(150) = 5
  /\ Seconds(ImageSeconds) = 10 /\ Seconds(VideoSeconds) = 20
BY DEF Seconds, ImageSeconds, VideoSeconds, JobTimeout

(* A generation that is submitted, awaited and downloaded. *)
LEMMA GenerateFits ==
  ASSUME NEW seconds, Seconds(seconds) \in 1 .. 20
  PROVE  Generate(seconds) \in Generations /\ Generate(seconds).budget = Seconds(seconds)
<1>. DEFINE whole == <<"submit", "result", "download">>
            last == <<"download">>
            cat == Generation \o last
<1>1. Generation \in Seq(StepNames) /\ last \in Seq(StepNames) /\ whole \in Seq(StepNames)
  BY DEF Generation, StepNames
<1>2. /\ Len(Generation) = 2 /\ Generation[1] = "submit" /\ Generation[2] = "result"
      /\ Len(last) = 1 /\ last[1] = "download"
      /\ Len(whole) = 3 /\ whole[1] = "submit" /\ whole[2] = "result" /\ whole[3] = "download"
  BY DEF Generation
<1>. HIDE DEF whole, last
<1>3. /\ cat \in Seq(StepNames) /\ Len(cat) = 3
      /\ \A i \in 1 .. 3 : cat[i] = whole[i]
  BY <1>1, <1>2, ConcatProperties
<1>. HIDE DEF cat
<1>4. cat = whole
  BY <1>1, <1>2, <1>3, SeqEqual
<1>5. Generate(seconds) = [budget |-> Seconds(seconds), tries |-> 1, steps |-> whole]
  BY <1>4 DEF cat, last, Generate, Call
<1>6. Seconds(seconds) \in Nat /\ 1 \in Nat \ {0}
  OBVIOUS
<1>. QED
  BY <1>1, <1>5, <1>6 DEF whole, Generations, CallType

(* Each adapter of a generation makes one attempt under a budget of at     *)
(* most ten minutes, or refuses.                                           *)
LEMMA AdapterFits ==
  /\ {OpenAIGenerate, OpenAIEdit, FalImage, FalVideo, InstantID, Together, Fireworks,
      Pollinations, StyleTransfer, VirtualTryOn, FalHairSalon, BgReplace, FalRemix,
      FalTextToImage, UpscaleCall, Refusal} \subseteq Generations
  /\ OpenAIEdit.budget = 10
<1>1. \A x \in {30, 60, 90, 120, 150, ImageSeconds, VideoSeconds} : Seconds(x) \in 1 .. 20
  BY Budgets
<1>2. \A x \in {30, 60, 90, 120, 150, ImageSeconds, VideoSeconds} : Generate(x) \in Generations
  BY <1>1, GenerateFits
<1>3. Pollinations \in Generations
  <2>1. <<"submit", "result">> \in Seq(StepNames)
    BY DEF StepNames
  <2>. QED
    BY <2>1, Budgets DEF Pollinations, Call, Generation, Generations, CallType
<1>4. Refusal \in Generations
  <2>1. <<"refuse">> \in Seq(StepNames)
    BY DEF StepNames
  <2>. QED
    BY <2>1 DEF Refusal, Call, NoBudget, Generations, CallType
<1>5. OpenAIEdit.budget = 10
  BY <1>1, GenerateFits, Budgets DEF OpenAIEdit
<1>. QED
  BY <1>2, <1>3, <1>4, <1>5
     DEF OpenAIGenerate, OpenAIEdit, FalImage, FalVideo, InstantID, Together, Fireworks,
         StyleTransfer, VirtualTryOn, FalHairSalon, BgReplace, FalRemix,
         FalTextToImage, UpscaleCall

(* The photos of a job are fetched one after the other. *)
LEMMA FetchesFit ==
  ASSUME NEW n \in 0 .. 5
  PROVE  /\ Fetches(n) \in Seq(CallType) /\ Len(Fetches(n)) = n
         /\ \A i \in 1 .. n : Fetches(n)[i] = FetchBytes
         /\ n = 0 => Fetches(n) = <<>>
<1>1. FetchBytes \in CallType
  BY DEF FetchBytes, Call, CallType, StepNames, NoBudget
<1>. QED
  BY <1>1 DEF Fetches

(* A job with a generation and no photo. *)
LEMMA OneCallFits ==
  ASSUME NEW g \in Generations PROVE BodyFits(<<g>>)
<1>. DEFINE one == <<g>>
            none == Fetches(0)
<1>1. none = <<>> /\ 0 \in 0 .. 5 /\ one \in Seq(Generations)
  BY FetchesFit
<1>. HIDE DEF one
<1>2. <<>> \o one = one
  BY <1>1, ConcatEmptySeq
<1>3. one = none \o one
  BY <1>1, <1>2
<1>4. one = Fetches(0) \o <<g>>
  BY <1>3 DEF one
<1>5. \E n \in 0 .. 5, h \in Generations :
        (n > 0 => h.budget <= 10) /\ one = Fetches(n) \o <<h>>
  <2>1. ~ (0 > 0)
    OBVIOUS
  <2>. QED
    BY <1>1, <1>4, <2>1
<1>6. BodyFits(one)
  BY <1>5 DEF BodyFits
<1>. QED
  BY <1>6 DEF one

(* A job that fetches its photos for OpenAI's edit, or leaves them to fal. *)
LEMMA EditFits ==
  ASSUME NEW openai, NEW n \in 0 .. 5, NEW fal \in Generations
  PROVE  BodyFits(EditOr(openai, n, fal)) /\ BodyFits(Fetches(n) \o <<OpenAIEdit>>)
<1>1. BodyFits(Fetches(n) \o <<OpenAIEdit>>)
  <2>1. OpenAIEdit \in Generations /\ OpenAIEdit.budget <= 10
    BY AdapterFits
  <2>. QED
    BY <2>1 DEF BodyFits
<1>. QED
  BY <1>1, OneCallFits DEF EditOr

(* Every job of both functions, the order's calls of Claude and the upload *)
(* aside, is such a body.                                                  *)
LEMMA WorkBodies ==
  ASSUME NEW w \in Work
  PROVE  \E body :
           /\ BodyFits(body)
           /\ \/ w = [job |-> "tool", calls |-> body \o <<S3Upload>>]
              \/ w = [job |-> "order",
                      calls |-> <<ClaudeModeration, ClaudePrompt>> \o body \o <<S3Upload>>]
<1>. USE AdapterFits, OneCallFits
<1>1. ASSUME NEW openai \in BOOLEAN PROVE \A body \in ToolWork(openai) : BodyFits(body)
  <2>1. BodyFits(FilterCalls(openai)) /\ BodyFits(BackgroundCalls(openai)) /\ BodyFits(OutfitCalls(openai))
    BY EditFits DEF FilterCalls, BackgroundCalls, OutfitCalls
  <2>2. BodyFits(TextToImageCalls(openai)) /\ BodyFits(UpscaleCalls) /\ BodyFits(VideoCalls)
    BY DEF TextToImageCalls, UpscaleCalls, VideoCalls
  <2>3. \A d \in BOOLEAN : BodyFits(HairCalls(openai, d))
    BY EditFits DEF HairCalls
  <2>4. \A n \in 1 .. 3 : BodyFits(RemixCalls(openai, n))
    BY EditFits DEF RemixCalls
  <2>5. \A n \in 2 .. 4 : BodyFits(MergeCalls(openai, n))
    BY EditFits DEF MergeCalls
  <2>. QED
    BY <2>1, <2>2, <2>3, <2>4, <2>5 DEF ToolWork
<1>2. ASSUME NEW p \in GenProviders, NEW body \in ImageCalls(p) \cup VideoOrderCalls(p)
      PROVE  BodyFits(body)
  <2>1. BodyFits(<<>>)
    BY DEF BodyFits
  <2>2. \A n \in 0 .. 5 : BodyFits(OpenAIContext(n))
    BY EditFits DEF OpenAIContext
  <2>3. ASSUME body \in ImageCalls(p) PROVE BodyFits(body)
    BY <2>1, <2>2, <2>3 DEF ImageCalls, GenProviders
  <2>4. ASSUME body \in VideoOrderCalls(p) PROVE BodyFits(body)
    BY <2>1, <2>4 DEF VideoOrderCalls, GenProviders
  <2>. QED
    BY <2>3, <2>4
<1>3. ASSUME w \in ToolJobWork
      PROVE  \E body : BodyFits(body) /\ w = [job |-> "tool", calls |-> body \o <<S3Upload>>]
  BY <1>1, <1>3 DEF ToolJobWork
<1>4. ASSUME w \in OrderJobWork
      PROVE  \E body : BodyFits(body) /\
               w = [job |-> "order",
                    calls |-> <<ClaudeModeration, ClaudePrompt>> \o body \o <<S3Upload>>]
  BY <1>2, <1>4 DEF OrderJobWork
<1>. QED
  BY <1>3, <1>4 DEF Work

(* A call is over when its budget is, one without a budget when it takes   *)
(* no longer than a transfer should.                                       *)
Limit(c) == IF c.budget = NoBudget THEN TransferTicks ELSE c.budget

(* When the calls of a job begin at the latest, and when it ends: before   *)
(* arq cancels it.                                                         *)
Schedules(w) ==
  {b \in [1 .. Len(w.calls) + 1 -> 0 .. JobTimeout - 1] :
     \A i \in 1 .. Len(w.calls) : b[i] + Limit(w.calls[i]) <= b[i + 1]}

Submits(c, k) == k \in DOMAIN c.steps /\ c.steps[k] = "submit"

(* No call of a job but one submits a generation, and that one only once   *)
(* and in its only attempt.                                                *)
SubmitsOnce(w) ==
  \A i, j \in DOMAIN w.calls : \A k, l \in Nat :
    Submits(w.calls[i], k) /\ Submits(w.calls[j], l) =>
      i = j /\ k = l /\ w.calls[i].tries = 1

(* An order asks the moderation model first, and does not ask it again.    *)
AsksFirst(w) ==
  \A i \in DOMAIN w.calls : \A k \in DOMAIN w.calls[i].steps :
    w.calls[i].steps[k] = "moderate" <=> i = 1

WorkFits(w) ==
  /\ w.calls \in Seq(CallType) /\ Len(w.calls) \in Nat \ {0}
  /\ \A i \in DOMAIN w.calls : Len(w.calls[i].steps) \in Nat \ {0}
  /\ SubmitsOnce(w)
  /\ w.job = "order" => AsksFirst(w)
  /\ TransferTicks <= 2 => Schedules(w) # {}

(* The calls of a job in their order: m calls of Claude, the photos, the   *)
(* generation at h, if there is one, and the upload.                       *)
Layout(w, m, h) ==
  /\ m = IF w.job = "order" THEN 2 ELSE 0
  /\ w.calls \in Seq(CallType) /\ Len(w.calls) = h + 1
  /\ m >= 1 => w.calls[1] = ClaudeModeration
  /\ m >= 2 => w.calls[2] = ClaudePrompt
  /\ \A i \in m + 1 .. h - 1 : w.calls[i] = FetchBytes
  /\ h > m => w.calls[h] \in Generations
  /\ h > m + 1 => w.calls[h].budget <= 10
  /\ w.calls[h + 1] = S3Upload

(* The calls that are not paid for. *)
LEMMA PlainCalls ==
  /\ ClaudeModeration.budget = 1 /\ ClaudeModeration.steps = <<"moderate">>
  /\ ClaudePrompt.budget = 2 /\ ClaudePrompt.steps = <<"prompt">>
  /\ FetchBytes.budget = NoBudget /\ FetchBytes.steps = <<"fetch">>
  /\ S3Upload.budget = NoBudget /\ S3Upload.steps = <<"upload">>
  /\ {ClaudeModeration, ClaudePrompt, FetchBytes, S3Upload} \subseteq CallType
<1>1. \A x \in StepNames : <<x>> \in Seq(StepNames)
  OBVIOUS
<1>. QED
  BY <1>1, Budgets
     DEF ClaudeModeration, ClaudePrompt, FetchBytes, S3Upload, Call, CallType, StepNames, NoBudget

(* Two sequences of calls one behind the other. *)
IsJoin(s, t, u) ==
  /\ u \in Seq(CallType) /\ Len(u) = Len(s) + Len(t)
  /\ \A i \in 1 .. Len(s) : u[i] = s[i]
  /\ \A i \in 1 .. Len(t) : u[Len(s) + i] = t[i]

(* Where the calls of the two are. *)
LEMMA Joined ==
  ASSUME NEW s \in Seq(CallType), NEW t \in Seq(CallType)
  PROVE  IsJoin(s, t, s \o t)
<1>. DEFINE cat == s \o t
<1>1. Len(s) \in Nat /\ Len(t) \in Nat
  OBVIOUS
<1>2. /\ cat \in Seq(CallType) /\ Len(cat) = Len(s) + Len(t)
      /\ \A i \in 1 .. Len(s) + Len(t) : cat[i] = IF i <= Len(s) THEN s[i] ELSE t[i - Len(s)]
  BY ConcatProperties
<1>. HIDE DEF cat
<1>3. \A i \in 1 .. Len(s) : cat[i] = s[i]
  BY <1>1, <1>2
<1>4. ASSUME NEW i \in 1 .. Len(t) PROVE cat[Len(s) + i] = t[i]
  <2>1. Len(s) + i \in 1 .. Len(s) + Len(t) /\ ~ (Len(s) + i <= Len(s)) /\ (Len(s) + i) - Len(s) = i
    BY <1>1
  <2>. QED
    BY <1>2, <2>1
<1>5. IsJoin(s, t, cat)
  BY <1>2, <1>3, <1>4 DEF IsJoin
<1>. QED
  BY <1>5 DEF cat

(* The body of a job has its photos first and its generation last. *)
LEMMA BodyLayout ==
  ASSUME NEW body, BodyFits(body)
  PROVE  \E z \in 0 .. 6 :
           /\ body \in Seq(CallType) /\ Len(body) = z
           /\ \A i \in 1 .. z - 1 : body[i] = FetchBytes
           /\ z > 0 => body[z] \in Generations
           /\ z > 1 => body[z].budget <= 10
<1>1. CASE body = <<>>
  <2>1. body \in Seq(CallType) /\ Len(body) = 0 /\ 0 \in 0 .. 6
    BY <1>1
  <2>. QED
    BY <2>1
<1>2. ASSUME NEW n \in 0 .. 5, NEW g \in Generations, n > 0 => g.budget <= 10,
             body = Fetches(n) \o <<g>>
      PROVE  \E z \in 0 .. 6 :
               /\ body \in Seq(CallType) /\ Len(body) = z
               /\ \A i \in 1 .. z - 1 : body[i] = FetchBytes
               /\ z > 0 => body[z] \in Generations
               /\ z > 1 => body[z].budget <= 10
  <2>. DEFINE photos == Fetches(n)
              one == <<g>>
  <2>1. /\ photos \in Seq(CallType) /\ Len(photos) = n
        /\ \A i \in 1 .. n : photos[i] = FetchBytes
    BY FetchesFit
  <2>2. g \in CallType
    BY DEF Generations
  <2>3. one \in Seq(CallType) /\ Len(one) = 1 /\ one[1] = g
    BY <2>2
  <2>. HIDE DEF photos, one
  <2>4. IsJoin(photos, one, photos \o one)
    BY <2>1, <2>3, Joined
  <2>5. body = photos \o one
    BY <1>2 DEF photos, one
  <2>6. IsJoin(photos, one, body)
    BY <2>4, <2>5
  <2>7. /\ body \in Seq(CallType) /\ Len(body) = n + 1
        /\ body[n + 1] = g /\ \A i \in 1 .. n : body[i] = FetchBytes
    BY <2>1, <2>3, <2>6 DEF IsJoin
  <2>. QED
    BY <1>2, <2>7
<1>. QED
  BY <1>1, <1>2 DEF BodyFits

(* Every job has such a layout. *)
LEMMA WorkLayout ==
  ASSUME NEW w \in Work
  PROVE  \E m \in 0 .. 2, h \in 0 .. 8 : h \in m .. m + 6 /\ Layout(w, m, h)
<1>1. PICK body :
        /\ BodyFits(body)
        /\ \/ w = [job |-> "tool", calls |-> body \o <<S3Upload>>]
           \/ w = [job |-> "order",
                   calls |-> <<ClaudeModeration, ClaudePrompt>> \o body \o <<S3Upload>>]
  BY WorkBodies
<1>2. PICK z \in 0 .. 6 :
           /\ body \in Seq(CallType) /\ Len(body) = z
           /\ \A i \in 1 .. z - 1 : body[i] = FetchBytes
           /\ z > 0 => body[z] \in Generations
           /\ z > 1 => body[z].budget <= 10
  BY <1>1, BodyLayout
<1>. DEFINE lead == <<ClaudeModeration, ClaudePrompt>>
            last == <<S3Upload>>
<1>3. /\ lead \in Seq(CallType) /\ Len(lead) = 2
      /\ lead[1] = ClaudeModeration /\ lead[2] = ClaudePrompt
      /\ last \in Seq(CallType) /\ Len(last) = 1 /\ last[1] = S3Upload
  BY PlainCalls
<1>. HIDE DEF lead, last
<1>4. CASE w = [job |-> "tool", calls |-> body \o last]
  <2>. DEFINE calls == body \o last
  <2>1. IsJoin(body, last, calls)
    BY <1>2, <1>3, Joined
  <2>2. w.job = "tool" /\ w.calls = calls
    BY <1>4
  <2>. HIDE DEF calls
  <2>3. /\ Len(calls) = z + 1 /\ calls[z + 1] = S3Upload
        /\ \A i \in 1 .. z : calls[i] = body[i]
    BY <1>2, <1>3, <2>1 DEF IsJoin
  <2>4. /\ \A i \in 1 .. z - 1 : calls[i] = FetchBytes
        /\ z > 0 => calls[z] = body[z]
    BY <1>2, <2>3
  <2>5. Layout(w, 0, z)
    BY <1>2, <2>1, <2>2, <2>3, <2>4 DEF Layout, IsJoin
  <2>. QED
    BY <2>5
<1>5. CASE w = [job |-> "order", calls |-> (lead \o body) \o last]
  <2>. DEFINE front == lead \o body
              calls == front \o last
  <2>1. IsJoin(lead, body, front)
    BY <1>2, <1>3, Joined
  <2>2. w.job = "order" /\ w.calls = calls
    BY <1>5
  <2>. HIDE DEF front
  <2>3. front \in Seq(CallType)
    BY <2>1 DEF IsJoin
  <2>11. IsJoin(front, last, calls)
    BY <1>3, <2>3, Joined
  <2>. HIDE DEF calls
  <2>4. /\ Len(front) = z + 2 /\ front[1] = lead[1] /\ front[2] = lead[2]
        /\ \A i \in 1 .. z : front[2 + i] = body[i]
    BY <1>2, <1>3, <2>1 DEF IsJoin
  <2>5. /\ Len(calls) = z + 3 /\ calls[z + 3] = S3Upload
        /\ \A i \in 1 .. z + 2 : calls[i] = front[i]
    BY <1>3, <2>11, <2>4 DEF IsJoin
  <2>6. calls[1] = ClaudeModeration /\ calls[2] = ClaudePrompt
    BY <1>3, <2>4, <2>5
  <2>7. \A i \in 1 .. z : calls[2 + i] = body[i]
    BY <2>4, <2>5
  <2>8. ASSUME NEW i \in 3 .. z + 1 PROVE calls[i] = FetchBytes
    <3>1. i - 2 \in 1 .. z - 1 /\ i - 2 \in 1 .. z /\ 2 + (i - 2) = i
      OBVIOUS
    <3>. QED
      BY <1>2, <2>7, <3>1
  <2>9. z > 0 => calls[z + 2] = body[z]
    BY <2>7
  <2>10. Layout(w, 2, z + 2)
    BY <1>2, <2>2, <2>11, <2>5, <2>6, <2>8, <2>9 DEF Layout, IsJoin
  <2>. QED
    BY <2>10
<1>. QED
  BY <1>1, <1>4, <1>5 DEF lead, last

(* What the steps of the calls are. *)
LEMMA CallSteps ==
  /\ \A c \in {ClaudePrompt, FetchBytes, S3Upload} :
       /\ Len(c.steps) = 1
       /\ \A k \in DOMAIN c.steps : c.steps[k] # "submit" /\ c.steps[k] # "moderate"
  /\ Len(ClaudeModeration.steps) = 1
  /\ \A k \in DOMAIN ClaudeModeration.steps : ClaudeModeration.steps[k] = "moderate"
  /\ \A g \in Generations :
       /\ Len(g.steps) \in Nat \ {0}
       /\ \A k \in DOMAIN g.steps :
            g.steps[k] # "moderate" /\ (g.steps[k] = "submit" => k = 1)
<1>1. ASSUME NEW c, NEW x \in StepNames, c.steps = <<x>>
      PROVE  Len(c.steps) = 1 /\ DOMAIN c.steps = {1} /\ c.steps[1] = x
  BY <1>1
<1>2. \A x \in {"prompt", "fetch", "upload", "moderate", "refuse"} : x \in StepNames
  BY DEF StepNames
<1>3. ASSUME NEW c \in {ClaudePrompt, FetchBytes, S3Upload}
      PROVE  /\ Len(c.steps) = 1
             /\ \A k \in DOMAIN c.steps : c.steps[k] # "submit" /\ c.steps[k] # "moderate"
  <2>1. c.steps = <<"prompt">> \/ c.steps = <<"fetch">> \/ c.steps = <<"upload">>
    BY PlainCalls
  <2>. QED
    BY <1>1, <1>2, <2>1
<1>4. /\ Len(ClaudeModeration.steps) = 1
      /\ \A k \in DOMAIN ClaudeModeration.steps : ClaudeModeration.steps[k] = "moderate"
  BY <1>1, <1>2, PlainCalls
<1>5. ASSUME NEW g \in Generations
      PROVE  /\ Len(g.steps) \in Nat \ {0}
             /\ \A k \in DOMAIN g.steps :
                  g.steps[k] # "moderate" /\ (g.steps[k] = "submit" => k = 1)
  <2>1. CASE g.steps = <<"refuse">>
    BY <1>1, <1>2, <2>1
  <2>2. CASE g.steps = <<"submit", "result">>
    <3>1. /\ Len(g.steps) = 2 /\ DOMAIN g.steps = 1 .. 2
          /\ g.steps[1] = "submit" /\ g.steps[2] = "result"
      BY <2>2
    <3>. QED
      BY <3>1
  <2>3. CASE g.steps = <<"submit", "result", "download">>
    <3>1. /\ Len(g.steps) = 3 /\ DOMAIN g.steps = 1 .. 3
          /\ g.steps[1] = "submit" /\ g.steps[2] = "result" /\ g.steps[3] = "download"
      BY <2>3
    <3>. QED
      BY <3>1
  <2>. QED
    BY <2>1, <2>2, <2>3 DEF Generations
<1>. QED
  BY <1>3, <1>4, <1>5

(* An order may take 3 ticks up to its photos and 20 up to its upload,     *)
(* which leaves 7 of the 30 ticks before arq cancels it.                   *)
LEMMA ScheduleExists ==
  ASSUME NEW w, NEW m \in {0, 2}, NEW h \in m .. m + 6, Layout(w, m, h),
         TransferTicks <= 2
  PROVE  Schedules(w) # {}
<1>. DEFINE claude == IF m = 0 THEN 0 ELSE 3
            time(i) == IF i > h THEN 27 + 2 * (i - h - 1)
                       ELSE IF i <= m THEN i - 1 ELSE claude + 2 * (i - m - 1)
            b == [i \in 1 .. h + 2 |-> time(i)]
<1>1. /\ m \in Nat /\ h \in Nat /\ m <= h /\ h <= m + 6 /\ Len(w.calls) = h + 1
      /\ TransferTicks \in Nat /\ TransferTicks <= 2 /\ JobTimeout = 30 /\ NoBudget = 0
  BY TransferAssumption, Budgets DEF Layout, NoBudget
<1>2. ASSUME NEW i \in 1 .. h + 2 PROVE time(i) \in 0 .. JobTimeout - 1
  BY <1>1
<1>3. ASSUME NEW i \in 1 .. h + 1 PROVE time(i) + Limit(w.calls[i]) <= time(i + 1)
  <2>. SUFFICES ASSUME NEW c, c = w.calls[i]
                PROVE  time(i) + Limit(c) <= time(i + 1)
    OBVIOUS
  <2>1. CASE i <= m
    <3>1. m = 2 /\ (i = 1 \/ i = 2)
      BY <1>1, <2>1
    <3>2. Limit(c) = i
      BY <1>1, <3>1, PlainCalls DEF Layout, Limit
    <3>3. time(i) = i - 1 /\ time(i + 1) >= (IF i = 1 THEN 1 ELSE 3)
      BY <1>1, <3>1
    <3>. QED
      BY <1>1, <3>1, <3>2, <3>3
  <2>2. CASE m < i /\ i < h
    <3>1. c = FetchBytes
      BY <1>1, <2>2 DEF Layout
    <3>2. Limit(c) = TransferTicks
      BY <1>1, <3>1, PlainCalls DEF Limit
    <3>3. time(i + 1) = time(i) + 2
      BY <1>1, <2>2
    <3>4. time(i) \in Nat
      BY <1>1, <2>2
    <3>. HIDE DEF time
    <3>. QED
      BY <1>1, <3>2, <3>3, <3>4
  <2>3. CASE m < i /\ i = h
    <3>1. c \in Generations /\ (h > m + 1 => c.budget <= 10)
      BY <1>1, <2>3 DEF Layout
    <3>2. time(i) = claude + 2 * (h - m - 1) /\ time(i + 1) = 27
      BY <1>1, <2>3
    <3>3. /\ Limit(c) \in Nat /\ Limit(c) <= 20
          /\ h > m + 1 => Limit(c) <= 10
      <4>1. c.budget \in 1 .. 20 \/ c.budget = 0
        BY <1>1, <3>1 DEF Generations
      <4>2. ASSUME c.budget = 0 PROVE Limit(c) = TransferTicks
        BY <1>1, <4>2 DEF Limit
      <4>3. ASSUME c.budget \in 1 .. 20
            PROVE  Limit(c) = c.budget /\ c.budget \in Nat /\ c.budget <= 20
        <5>1. \A x \in 1 .. 20 : x \in Nat /\ x <= 20 /\ x # 0
          OBVIOUS
        <5>2. c.budget \in Nat /\ c.budget <= 20 /\ c.budget # NoBudget
          BY <1>1, <4>3, <5>1
        <5>. QED
          BY <5>2 DEF Limit
      <4>4. CASE c.budget = 0
        BY <1>1, <4>2, <4>4
      <4>5. CASE c.budget \in 1 .. 20
        BY <3>1, <4>3, <4>5
      <4>. QED
        BY <4>1, <4>4, <4>5
    <3>4. claude \in {0, 3} /\ h - m - 1 \in 0 .. 5
      <4>1. claude \in {0, 3}
        OBVIOUS
      <4>2. m < h
        BY <2>3
      <4>. HIDE DEF time, claude
      <4>3. h - m - 1 \in 0 .. 5
        BY <1>1, <4>2
      <4>. QED
        BY <4>1, <4>3
    <3>. HIDE DEF time, claude
    <3>5. CASE h = m + 1
      <4>1. h - m - 1 = 0
        BY <1>1, <3>5
      <4>2. time(i) = claude
        BY <3>2, <3>4, <4>1
      <4>. QED
        BY <3>2, <3>3, <3>4, <4>2
    <3>6. CASE h > m + 1
      <4>1. Limit(c) \in Nat /\ Limit(c) <= 10
        BY <3>3, <3>6
      <4>2. PICK n \in 0 .. 5 : n = h - m - 1
        BY <3>4
      <4>3. time(i) = claude + 2 * n
        BY <3>2, <4>2
      <4>. QED
        BY <3>2, <3>4, <4>1, <4>3
    <3>. QED
      BY <1>1, <2>3, <3>5, <3>6
  <2>4. CASE i > h
    <3>1. i = h + 1 /\ c = S3Upload
      BY <1>1, <2>4 DEF Layout
    <3>2. Limit(c) = TransferTicks
      BY <1>1, <3>1, PlainCalls DEF Limit
    <3>3. time(i) = 27 /\ time(i + 1) = 29
      BY <1>1, <3>1
    <3>. HIDE DEF time
    <3>. QED
      BY <1>1, <3>2, <3>3
  <2>. QED
    BY <1>1, <2>1, <2>2, <2>3, <2>4
<1>. HIDE DEF time
<1>4. b \in [1 .. Len(w.calls) + 1 -> 0 .. JobTimeout - 1]
  BY <1>1, <1>2
<1>5. ASSUME NEW i \in 1 .. Len(w.calls)
      PROVE  b[i] + Limit(w.calls[i]) <= b[i + 1]
  BY <1>1, <1>3
<1>. HIDE DEF b
<1>6. b \in Schedules(w)
  BY <1>4, <1>5 DEF Schedules
<1>. QED
  BY <1>6

(* Every job a worker runs: one generation in one attempt, the safety gate *)
(* of an order first, and an end in time.                                  *)
LEMMA EveryWorkFits ==
  ASSUME NEW w \in Work
  PROVE  WorkFits(w)
<1>1. PICK m \in 0 .. 2, h \in 0 .. 8 : h \in m .. m + 6 /\ Layout(w, m, h)
  BY WorkLayout
<1>2. /\ m \in {0, 2} /\ (w.job = "order" => m = 2)
      /\ w.calls \in Seq(CallType) /\ Len(w.calls) = h + 1 /\ DOMAIN w.calls = 1 .. h + 1
      /\ m <= h
  BY <1>1 DEF Layout
<1>3. ASSUME NEW i \in DOMAIN w.calls
      PROVE  \/ m = 2 /\ i = 1 /\ w.calls[i] = ClaudeModeration
             \/ i # 1 /\ w.calls[i] = ClaudePrompt
             \/ i > m /\ w.calls[i] \in {FetchBytes, S3Upload}
             \/ i > m /\ i = h /\ w.calls[i] \in Generations
  <2>1. CASE i <= m
    BY <1>1, <1>2, <2>1 DEF Layout
  <2>2. CASE m < i /\ i < h
    BY <1>1, <1>2, <2>2 DEF Layout
  <2>3. CASE m < i /\ i = h
    BY <1>1, <1>2, <2>3 DEF Layout
  <2>4. CASE i > h
    BY <1>1, <1>2, <2>4 DEF Layout
  <2>. QED
    BY <1>1, <1>2, <2>1, <2>2, <2>3, <2>4
<1>4. \A i \in DOMAIN w.calls : Len(w.calls[i].steps) \in Nat \ {0}
  BY <1>3, CallSteps
<1>5. SubmitsOnce(w)
  <2>1. ASSUME NEW i \in DOMAIN w.calls, NEW k \in Nat, Submits(w.calls[i], k)
        PROVE  i = h /\ k = 1 /\ w.calls[i].tries = 1
    BY <1>3, <2>1, CallSteps DEF Submits, Generations
  <2>. QED
    BY <2>1 DEF SubmitsOnce
<1>6. w.job = "order" => AsksFirst(w)
  <2>. SUFFICES ASSUME m = 2, NEW i \in DOMAIN w.calls, NEW k \in DOMAIN w.calls[i].steps
                PROVE  w.calls[i].steps[k] = "moderate" <=> i = 1
    BY <1>2 DEF AsksFirst
  <2>. QED
    BY <1>3, CallSteps
<1>7. TransferTicks <= 2 => Schedules(w) # {}
  BY <1>1, <1>2, ScheduleExists
<1>. QED
  BY <1>2, <1>4, <1>5, <1>6, <1>7 DEF WorkFits

-----------------------------------------------------------------------------
(* The inductive invariant *)

(* Only an attempt that is not the last one is followed by a delay. *)
BackoffFits == phase = "backoff" => attempt < ThisCall.tries

(* One generation was submitted at most, and once it was, no step that     *)
(* submits one is ahead.                                                   *)
SubmittedFits ==
  /\ submitted \in {0, 1}
  /\ submitted = 1 /\ outcome = "running" =>
       \A i \in DOMAIN work.calls : \A k \in DOMAIN work.calls[i].steps :
         work.calls[i].steps[k] = "submit" => i < at \/ (i = at /\ k < step)

(* An order leaves its first call only with an answer that allows it. *)
GateFits == work.job = "order" => IF at = 1 THEN submitted = 0 ELSE Allowed(verdict)

(* As long as no transfer has overrun, the call began in time. *)
OnSchedule ==
  TransferTicks <= 2 /\ ~ overrun =>
    \A w \in Work : w = work => \E b \in Schedules(w) : clock <= b[at] + spent

TimeFits ==
  /\ spent <= clock
  /\ HasBudget => spent <= ThisCall.budget
  /\ overrun \/ HasBudget \/ spent <= TransferTicks
  /\ OnSchedule
  /\ TransferTicks <= 2 => OnlyTransfersOverrun

IInv == TypeOK /\ BackoffFits /\ SubmittedFits /\ GateFits /\ TimeFits

(* The call a job is at is one of EveryWorkFits. *)
LEMMA ThisCallFits ==
  ASSUME TypeOK
  PROVE  /\ WorkFits(work)
         /\ Len(work.calls) \in Nat \ {0} /\ DOMAIN work.calls = 1 .. Len(work.calls)
         /\ \A i \in DOMAIN work.calls :
              /\ work.calls[i] \in CallType
              /\ Len(work.calls[i].steps) \in Nat \ {0}
              /\ DOMAIN work.calls[i].steps = 1 .. Len(work.calls[i].steps)
         /\ ThisCall.budget \in Nat /\ ThisCall.tries \in Nat \ {0}
         /\ at \in Nat \ {0} /\ at <= Len(work.calls)
         /\ attempt \in Nat \ {0} /\ attempt <= ThisCall.tries
         /\ step \in Nat \ {0} /\ step <= Len(ThisCall.steps)
<1>1. WorkFits(work)
  BY EveryWorkFits DEF TypeOK
<1>2. Len(work.calls) \in Nat \ {0} /\ DOMAIN work.calls = 1 .. Len(work.calls)
  BY <1>1 DEF WorkFits
<1>3. ASSUME NEW i \in DOMAIN work.calls
      PROVE  /\ work.calls[i] \in CallType
             /\ Len(work.calls[i].steps) \in Nat \ {0}
             /\ DOMAIN work.calls[i].steps = 1 .. Len(work.calls[i].steps)
  <2>1. work.calls[i] \in CallType /\ Len(work.calls[i].steps) \in Nat \ {0}
    BY <1>1, <1>2 DEF WorkFits
  <2>. QED
    BY <2>1 DEF CallType
<1>4. at \in DOMAIN work.calls /\ attempt \in 1 .. ThisCall.tries /\ step \in DOMAIN ThisCall.steps
  BY DEF TypeOK
<1>5. ThisCall \in CallType /\ Len(ThisCall.steps) \in Nat
      /\ DOMAIN ThisCall.steps = 1 .. Len(ThisCall.steps)
  BY <1>3, <1>4 DEF ThisCall
<1>6. ThisCall.budget \in Nat /\ ThisCall.tries \in Nat \ {0}
  BY <1>5 DEF CallType
<1>. QED
  BY <1>1, <1>2, <1>3, <1>4, <1>5, <1>6

(* The three ways on: the next step of the attempt, the next call of the   *)
(* job, and its end.                                                       *)
NextStep ==
  /\ step < Len(ThisCall.steps)
  /\ step' = step + 1
  /\ UNCHANGED <<at, attempt, phase, spent, outcome>>

NextCall ==
  /\ step = Len(ThisCall.steps) /\ at < Len(work.calls)
  /\ at' = at + 1 /\ attempt' = 1 /\ step' = 1 /\ spent' = 0
  /\ UNCHANGED <<phase, outcome>>

(* Advance takes one of these ways. *)
LEMMA AdvanceCases ==
  ASSUME TypeOK, Advance
  PROVE  NextStep \/ NextCall \/ End("delivered")
BY ThisCallFits DEF Advance, NextStep, NextCall

(* What an action does to the place of the job in its calls.               *)
LEMMA Ways ==
  ASSUME IInv, Next
  PROVE  \/ Calling /\ NextStep
         \/ Calling /\ NextCall
         \/ outcome = "running" /\ \E how \in Outcomes \ {"running"} : End(how)
         \/ Calling /\ phase' = "backoff" /\ attempt < ThisCall.tries
            /\ UNCHANGED <<at, attempt, step, spent, outcome>>
         \/ Retry
         \/ Tick
<1>. USE DEF IInv
<1>1. \A how \in {"delivered", "rejected", "failed", "cancelled"} : how \in Outcomes \ {"running"}
  BY DEF Outcomes
<1>2. CASE Submit \/ Moderate \/ Answer
  <2>1. Calling /\ outcome = "running" /\ (Advance \/ End("rejected"))
    BY <1>2 DEF Submit, Moderate, Answer, Calling
  <2>. QED
    BY <1>1, <2>1, AdvanceCases
<1>3. CASE TransientError
  BY <1>1, <1>3 DEF TransientError, Calling
<1>4. CASE TerminalError
  BY <1>1, <1>4 DEF TerminalError, Calling
<1>5. CASE HardTimeout
  <2>1. outcome = "running" /\ (End("rejected") \/ End("failed"))
    BY <1>5 DEF HardTimeout
  <2>. QED
    BY <1>1, <2>1
<1>6. CASE JobTimesOut
  BY <1>1, <1>6 DEF JobTimesOut
<1>. QED
  BY <1>2, <1>3, <1>4, <1>5, <1>6 DEF Next

(* The job stays the same, and the clock moves with Tick only. *)
LEMMA Kept ==
  ASSUME IInv, Next
  PROVE  /\ work' = work
         /\ \/ Tick
            \/ UNCHANGED <<clock, overrun>>
         /\ \/ Submit
            \/ Moderate /\ submitted' = submitted
            \/ UNCHANGED <<submitted, verdict>>
BY DEF Next, Submit, Moderate, Answer, TransientError, Retry, TerminalError, Tick,
       HardTimeout, JobTimesOut

(* Every step keeps the types, and a delay follows no last attempt. *)
LEMMA TypeKept ==
  ASSUME IInv, Next
  PROVE  TypeOK' /\ BackoffFits'
<1>. USE DEF IInv
<1>1. work' = work /\ work \in Work
  BY Kept DEF TypeOK
<1>2. clock' \in 0 .. JobTimeout /\ overrun' \in BOOLEAN /\ spent' \in 0 .. JobTimeout
  <2>1. JobTimeout \in Nat
    BY Budgets
  <2>2. CASE Tick
    BY <2>1, <2>2 DEF Tick, TypeOK, TimeFits
  <2>3. CASE ~ Tick
    <3>1. UNCHANGED <<clock, overrun>>
      BY <2>3, Kept
    <3>2. spent' = spent \/ spent' = 0
      BY <2>3, Ways DEF NextStep, NextCall, End, Retry
    <3>. QED
      BY <2>1, <3>1, <3>2 DEF TypeOK
  <2>. QED
    BY <2>2, <2>3
<1>3. verdict' \in Verdicts
  BY Kept DEF Submit, Moderate, TypeOK
<1>4. submitted' \in Nat
  BY Kept DEF Submit, TypeOK
<1>5. /\ at' \in DOMAIN work.calls
      /\ attempt' \in 1 .. work.calls[at'].tries
      /\ step' \in DOMAIN work.calls[at'].steps
      /\ phase' \in {"calling", "backoff"}
      /\ phase' = "backoff" => attempt' < work.calls[at'].tries
      /\ outcome' \in Outcomes
  <2>1. CASE Calling /\ NextStep
    BY <2>1, ThisCallFits DEF NextStep, Calling, ThisCall, TypeOK
  <2>2. CASE Calling /\ NextCall
    <3>1. at' \in DOMAIN work.calls
      BY <2>2, ThisCallFits DEF NextCall
    <3>2. work.calls[at'].tries \in Nat \ {0} /\ Len(work.calls[at'].steps) \in Nat \ {0}
          /\ DOMAIN work.calls[at'].steps = 1 .. Len(work.calls[at'].steps)
      BY <3>1, ThisCallFits DEF CallType
    <3>. QED
      BY <2>2, <3>1, <3>2 DEF NextCall, Calling, TypeOK
  <2>3. CASE \E how \in Outcomes \ {"running"} : End(how)
    BY <2>3 DEF End, TypeOK, BackoffFits, ThisCall
  <2>4. CASE Calling /\ phase' = "backoff" /\ attempt < ThisCall.tries
             /\ UNCHANGED <<at, attempt, step, spent, outcome>>
    BY <2>4 DEF TypeOK, ThisCall
  <2>5. CASE Retry
    <3>1. attempt < ThisCall.tries /\ at' = at /\ attempt' = attempt + 1 /\ step' = 1
          /\ phase' = "calling" /\ outcome' = outcome
      BY <2>5 DEF Retry, BackoffFits
    <3>2. /\ at \in DOMAIN work.calls /\ outcome \in Outcomes
          /\ 1 \in DOMAIN ThisCall.steps /\ attempt + 1 \in 1 .. ThisCall.tries
      BY <3>1, ThisCallFits DEF TypeOK, ThisCall
    <3>. QED
      BY <3>1, <3>2 DEF ThisCall
  <2>6. CASE Tick
    BY <2>6 DEF Tick, TypeOK, BackoffFits, ThisCall
  <2>. QED
    BY <2>1, <2>2, <2>3, <2>4, <2>5, <2>6, Ways
<1>. QED
  BY <1>1, <1>2, <1>3, <1>4, <1>5 DEF TypeOK, BackoffFits, ThisCall

(* A generation has one attempt, so a retry never comes back to its        *)
(* request.                                                                *)
LEMMA SubmittedKept ==
  ASSUME IInv, Next
  PROVE  SubmittedFits'
<1>. USE DEF IInv
<1>1. work' = work /\ SubmitsOnce(work)
  BY Kept, ThisCallFits DEF WorkFits
<1>2. \A i \in DOMAIN work.calls : \A k \in DOMAIN work.calls[i].steps : i \in Nat /\ k \in Nat
  BY ThisCallFits
<1>3. ASSUME NEW i \in DOMAIN work.calls, NEW k \in DOMAIN work.calls[i].steps,
             work.calls[i].steps[k] = "submit",
             NEW j \in DOMAIN work.calls, NEW l \in DOMAIN work.calls[j].steps,
             work.calls[j].steps[l] = "submit"
      PROVE  i = j /\ k = l /\ work.calls[i].tries = 1
  <2>1. k \in Nat /\ l \in Nat
    BY <1>2
  <2>. QED
    BY <1>1, <1>3, <2>1 DEF SubmitsOnce, Submits
<1>4. CASE Submit
  <2>1. at \in DOMAIN work.calls /\ step \in DOMAIN work.calls[at].steps
        /\ work.calls[at].steps[step] = "submit" /\ outcome = "running"
    BY <1>4 DEF Submit, Calling, TypeOK, ThisCall, ThisStep
  <2>2. submitted = 0
    BY <1>2, <2>1 DEF SubmittedFits
  <2>3. submitted' = 1
    BY <1>4, <2>2 DEF Submit
  <2>4. ASSUME NEW i \in DOMAIN work.calls, NEW k \in DOMAIN work.calls[i].steps,
               work.calls[i].steps[k] = "submit", outcome' = "running"
        PROVE  i < at' \/ (i = at' /\ k < step')
    <3>1. i = at /\ k = step
      BY <1>3, <2>1, <2>4
    <3>2. NextStep \/ NextCall
      BY <1>4, <2>4, AdvanceCases DEF Submit, End
    <3>. QED
      BY <3>1, <3>2, ThisCallFits DEF NextStep, NextCall
  <2>. QED
    BY <1>1, <2>3, <2>4 DEF SubmittedFits
<1>5. CASE ~ Submit
  <2>1. submitted' = submitted
    BY <1>5, Kept
  <2>2. ASSUME NEW i \in DOMAIN work.calls, NEW k \in DOMAIN work.calls[i].steps,
               work.calls[i].steps[k] = "submit", outcome' = "running", submitted = 1
        PROVE  i < at' \/ (i = at' /\ k < step')
    <3>1. outcome = "running"
      BY <2>2, Ways DEF Calling, Retry, Tick
    <3>2. i < at \/ (i = at /\ k < step)
      BY <2>2, <3>1 DEF SubmittedFits
    <3>3. CASE Retry
      <4>1. attempt < work.calls[at].tries /\ at' = at
        BY <3>3 DEF Retry, BackoffFits, ThisCall
      <4>2. i # at
        BY <1>3, <2>2, <4>1, ThisCallFits DEF ThisCall
      <4>. QED
        BY <3>2, <4>1, <4>2
    <3>4. CASE ~ Retry
      <4>1. (at' = at /\ step' = step) \/ NextStep \/ NextCall
        BY <2>2, <3>4, Ways DEF End, Tick
      <4>2. i \in Nat /\ k \in Nat
        BY <1>2
      <4>. QED
        BY <3>2, <4>1, <4>2, ThisCallFits DEF NextStep, NextCall
    <3>. QED
      BY <3>3, <3>4
  <2>. QED
    BY <1>1, <2>1, <2>2 DEF SubmittedFits
<1>. QED
  BY <1>4, <1>5

(* An order comes to its second call with an answer that allows it, and    *)
(* no later call asks again.                                               *)
LEMMA GateKept ==
  ASSUME IInv, Next
  PROVE  GateFits'
<1>. USE DEF IInv
<1>1. work' = work
  BY Kept
<1>. SUFFICES ASSUME work.job = "order"
              PROVE  IF at' = 1 THEN submitted' = 0 ELSE Allowed(verdict')
  BY <1>1 DEF GateFits
<1>2. IF at = 1 THEN submitted = 0 ELSE Allowed(verdict)
  BY DEF GateFits
<1>3. ThisStep = "moderate" <=> at = 1
  BY ThisCallFits DEF WorkFits, AsksFirst, TypeOK, ThisCall, ThisStep
<1>4. at' = at \/ (NextCall /\ at' # 1)
  BY Ways, ThisCallFits DEF NextStep, NextCall, End, Retry, Tick
<1>5. CASE Submit
  <2>1. at # 1 /\ verdict' = verdict
    BY <1>3, <1>5 DEF Submit
  <2>. QED
    BY <1>2, <1>4, <2>1
<1>6. CASE Moderate
  <2>1. at = 1 /\ submitted' = submitted
    BY <1>3, <1>6 DEF Moderate
  <2>2. at' # 1 => Allowed(verdict')
    BY <1>6, <2>1 DEF Moderate, End
  <2>. QED
    BY <1>2, <2>1, <2>2
<1>7. CASE ~ Submit /\ ~ Moderate
  <2>1. submitted' = submitted /\ verdict' = verdict
    BY <1>7, Kept
  <2>2. at' # at => at # 1
    <3>1. ASSUME at' # at PROVE Answer
      BY <1>7, <3>1 DEF Next, TransientError, Retry, TerminalError, Tick, HardTimeout,
                        JobTimesOut, End
    <3>. QED
      BY <1>3, <3>1 DEF Answer
  <2>. QED
    BY <1>2, <1>4, <2>1, <2>2
<1>. QED
  BY <1>5, <1>6, <1>7

(* A call that ran in time is followed by one that begins in time, and no  *)
(* call of a schedule lasts to the end of job_timeout.                     *)
LEMMA TimeKept ==
  ASSUME IInv, Next
  PROVE  TimeFits'
<1>. USE DEF IInv
<1>1. work' = work /\ work \in Work
  BY Kept DEF TypeOK
<1>2. /\ spent \in Nat /\ clock \in Nat /\ TransferTicks \in Nat
      /\ JobTimeout = 30 /\ NoBudget = 0
  BY TransferAssumption, Budgets DEF TypeOK, NoBudget
<1>3. ~ overrun => spent <= Limit(ThisCall)
  BY DEF TimeFits, Limit, HasBudget
<1>4. \A i \in 1 .. Len(work.calls) : Limit(work.calls[i]) \in Nat
  BY <1>2, ThisCallFits DEF Limit, CallType
<1>5. ASSUME NEW b \in Schedules(work)
      PROVE  /\ b[at] \in 0 .. 29 /\ b[at + 1] \in 0 .. 29
             /\ b[at] + Limit(ThisCall) <= b[at + 1]
  <2>1. at \in 1 .. Len(work.calls) /\ at \in 1 .. Len(work.calls) + 1 /\ at + 1 \in 1 .. Len(work.calls) + 1
    BY ThisCallFits
  <2>2. b \in [1 .. Len(work.calls) + 1 -> 0 .. JobTimeout - 1]
        /\ \A i \in 1 .. Len(work.calls) : b[i] + Limit(work.calls[i]) <= b[i + 1]
    BY DEF Schedules
  <2>3. JobTimeout - 1 = 29
    BY <1>2
  <2>4. b[at] \in 0 .. 29 /\ b[at + 1] \in 0 .. 29
    BY <2>1, <2>2, <2>3
  <2>5. b[at] + Limit(work.calls[at]) <= b[at + 1]
    BY <2>1, <2>2
  <2>. QED
    BY <2>4, <2>5 DEF ThisCall
<1>6. ASSUME TransferTicks <= 2, ~ overrun
      PROVE  \E b \in Schedules(work) : clock <= b[at] + spent
  BY <1>1, <1>6 DEF TimeFits, OnSchedule
<1>7. CASE Tick
  <2>1. /\ at' = at /\ spent' = spent + 1 /\ clock' = clock + 1 /\ outcome' = "running"
        /\ HasBudget => spent < ThisCall.budget
        /\ overrun' = (overrun \/ (~ HasBudget /\ spent + 1 > TransferTicks))
    BY <1>7 DEF Tick
  <2>2. ThisCall' = ThisCall /\ (HasBudget' <=> HasBudget)
    BY <1>1, <2>1 DEF ThisCall, HasBudget
  <2>3. spent' <= clock' /\ (HasBudget => spent' <= ThisCall.budget)
    BY <1>2, <2>1, ThisCallFits DEF TimeFits
  <2>4. overrun' \/ HasBudget \/ spent' <= TransferTicks
    <3>. SUFFICES ASSUME ~ overrun', ~ HasBudget
                  PROVE  spent' <= TransferTicks
      OBVIOUS
    <3>1. ~ (spent + 1 > TransferTicks)
      BY <2>1
    <3>. QED
      BY <1>2, <2>1, <3>1
  <2>5. ASSUME TransferTicks <= 2, ~ overrun'
        PROVE  \E b \in Schedules(work) : clock' <= b[at'] + spent'
    <3>1. PICK b \in Schedules(work) : clock <= b[at] + spent
      BY <1>6, <2>1, <2>5
    <3>2. clock' <= b[at'] + spent'
      BY <1>2, <1>5, <2>1, <3>1
    <3>. QED
      BY <3>2
  <2>. QED
    BY <1>1, <2>1, <2>2, <2>3, <2>4, <2>5 DEF TimeFits, OnSchedule, OnlyTransfersOverrun
<1>8. CASE ~ Tick
  <2>1. clock' = clock /\ overrun' = overrun
    BY <1>8, Kept
  <2>2. CASE NextCall
    <3>1. at' = at + 1 /\ spent' = 0 /\ outcome' = outcome
      BY <2>2 DEF NextCall
    <3>2. ThisCall'.budget \in Nat
      <4>1. at' \in DOMAIN work.calls
        BY <2>2, ThisCallFits DEF NextCall
      <4>. QED
        BY <1>1, <4>1, ThisCallFits DEF CallType, ThisCall
    <3>3. ASSUME TransferTicks <= 2, ~ overrun'
          PROVE  \E b \in Schedules(work) : clock' <= b[at'] + spent'
      <4>1. PICK b \in Schedules(work) : clock <= b[at] + spent
        BY <1>6, <2>1, <3>3
      <4>2. at \in 1 .. Len(work.calls)
        BY ThisCallFits
      <4>3. Limit(ThisCall) \in Nat
        BY <1>4, <4>2 DEF ThisCall
      <4>4. clock' <= b[at'] + spent'
        BY <1>2, <1>3, <1>5, <2>1, <3>1, <3>3, <4>1, <4>3
      <4>. QED
        BY <4>4
    <3>. QED
      BY <1>1, <1>2, <2>1, <3>1, <3>2, <3>3
         DEF TimeFits, OnSchedule, OnlyTransfersOverrun, HasBudget
  <2>3. CASE ~ NextCall
    <3>1. at' = at /\ spent' = spent
      BY <1>8, <2>3, Ways DEF NextStep, End, Retry
    <3>2. ThisCall' = ThisCall /\ (HasBudget' <=> HasBudget)
      BY <1>1, <3>1 DEF ThisCall, HasBudget
    <3>3. ASSUME TransferTicks <= 2, outcome' = "cancelled", outcome # "cancelled"
          PROVE  overrun
      <4>1. JobTimesOut
        <5>1. ASSUME Submit \/ Moderate \/ Answer PROVE outcome' # "cancelled"
          <6>1. outcome = "running" /\ (Advance \/ End("rejected"))
            BY <5>1 DEF Submit, Moderate, Answer, Calling
          <6>. QED
            BY <6>1, AdvanceCases DEF NextStep, NextCall, End
        <5>. QED
          BY <1>8, <3>3, <5>1
             DEF Next, TransientError, Retry, TerminalError, HardTimeout, End
      <4>2. clock = 30
        BY <1>2, <4>1 DEF JobTimesOut
      <4>3. SUFFICES ASSUME ~ overrun PROVE FALSE
        OBVIOUS
      <4>4. PICK b \in Schedules(work) : clock <= b[at] + spent
        BY <1>6, <3>3, <4>3
      <4>5. at \in 1 .. Len(work.calls)
        BY ThisCallFits
      <4>6. Limit(ThisCall) \in Nat
        BY <1>4, <4>5 DEF ThisCall
      <4>. QED
        BY <1>2, <1>3, <1>5, <4>2, <4>3, <4>4, <4>6
    <3>4. TransferTicks <= 2 => (outcome' = "cancelled" => overrun)
      BY <3>3 DEF TimeFits, OnlyTransfersOverrun
    <3>. QED
      BY <1>1, <2>1, <3>1, <3>2, <3>4 DEF TimeFits, OnSchedule, OnlyTransfersOverrun
  <2>. QED
    BY <2>2, <2>3
<1>. QED
  BY <1>7, <1>8

-----------------------------------------------------------------------------
(* The theorems *)

(* A job that begins is of its type, in time, and has submitted nothing. *)
LEMMA InitHolds == ASSUME Init PROVE IInv
<1>. USE DEF Init
<1>1. work \in Work /\ WorkFits(work)
  BY EveryWorkFits
<1>2. 1 \in DOMAIN work.calls /\ ThisCall \in CallType
      /\ Len(ThisCall.steps) \in Nat \ {0}
  BY <1>1 DEF WorkFits, ThisCall
<1>3. /\ ThisCall.budget \in Nat /\ ThisCall.tries \in Nat \ {0}
      /\ 1 \in DOMAIN ThisCall.steps
      /\ TransferTicks \in Nat /\ JobTimeout = 30
  BY <1>2, TransferAssumption, Budgets DEF CallType
<1>4. TypeOK
  <2>1. at \in DOMAIN work.calls /\ step \in DOMAIN ThisCall.steps
    BY <1>2, <1>3
  <2>2. attempt \in 1 .. ThisCall.tries /\ spent \in 0 .. JobTimeout /\ clock \in 0 .. JobTimeout
    BY <1>3
  <2>3. phase \in {"calling", "backoff"} /\ verdict \in Verdicts /\ outcome \in Outcomes
    BY DEF Verdicts, Outcomes
  <2>. QED
    BY <1>1, <2>1, <2>2, <2>3 DEF TypeOK
<1>5. ASSUME TransferTicks <= 2
      PROVE  \E b \in Schedules(work) : clock <= b[at] + spent
  <2>1. PICK b \in Schedules(work) : TRUE
    BY <1>1, <1>5 DEF WorkFits
  <2>2. 1 \in 1 .. Len(work.calls) + 1
    BY <1>1 DEF WorkFits
  <2>3. b[1] \in 0 .. JobTimeout - 1
    BY <2>2 DEF Schedules
  <2>4. clock <= b[at] + spent
    BY <1>3, <2>3
  <2>. QED
    BY <2>4
<1>6. TimeFits
  BY <1>1, <1>3, <1>5 DEF TimeFits, OnSchedule, OnlyTransfersOverrun, HasBudget
<1>. QED
  BY <1>4, <1>6 DEF IInv, BackoffFits, SubmittedFits, GateFits

(* The inductive invariant holds in every run. *)
THEOREM Invariant == Spec => []IInv
<1>1. Init => IInv
  BY InitHolds
<1>2. IInv /\ [Next]_vars => IInv'
  <2>1. CASE Next
    BY <2>1, TypeKept, SubmittedKept, GateKept, TimeKept DEF IInv
  <2>2. CASE UNCHANGED vars
    BY <2>2 DEF vars, IInv, TypeOK, BackoffFits, SubmittedFits, GateFits, TimeFits,
                OnSchedule, OnlyTransfersOverrun, ThisCall, HasBudget
  <2>. QED
    BY <2>1, <2>2
<1>. QED
  BY <1>1, <1>2, PTL DEF Spec

(* Every variable has its type, in every job of the two functions. *)
THEOREM TypeCorrect == Spec => []TypeOK
<1>1. IInv => TypeOK
  BY DEF IInv
<1>. QED
  BY <1>1, Invariant, PTL

(* No order submits a generation before the moderation model answered      *)
(* something that counts as allowed, however its attempts fail.            *)
THEOREM GateStaysClosed == Spec => []GateIsClosed
<1>1. IInv => GateIsClosed
  BY DEF IInv, GateFits, SubmittedFits, GateIsClosed, Allowed
<1>. QED
  BY <1>1, Invariant, PTL

(* No run of a job submits a second generation: the call that pays has one *)
(* attempt, and no later call pays.                                        *)
THEOREM GeneratesOnce == Spec => []GeneratedOnce
<1>1. IInv => GeneratedOnce
  BY DEF IInv, SubmittedFits, GeneratedOnce
<1>. QED
  BY <1>1, Invariant, PTL

(* With transfers meant to take up to a minute, arq cancels no job whose   *)
(* transfers keep to that, whatever its calls and however they fail: the   *)
(* budgets of any job leave room below job_timeout.                        *)
THEOREM JobsEndInTime ==
  ASSUME TransferTicks <= 2
  PROVE  Spec => []OnlyTransfersOverrun
<1>1. IInv => OnlyTransfersOverrun
  BY DEF IInv, TimeFits
<1>. QED
  BY <1>1, Invariant, PTL

=============================================================================
