----------------------------- MODULE Providers ------------------------------
(***************************************************************************)
(* Which external calls a worker job makes, in which order, and how long   *)
(* each may take: the adapters as data, the branches of _dispatch_tool and *)
(* the generation steps of an order as sequences of calls.                 *)
(*                                                                         *)
(* A call is what one with_timeout wraps: a time budget, a number of       *)
(* attempts, and the steps that one attempt takes inside that budget.      *)
(* httpx's own timeouts bound a single read, not a transfer: a call that   *)
(* no with_timeout wraps has no budget.  Time is counted in ticks of 30 s, *)
(* the greatest common divisor of the budgets.                             *)
(***************************************************************************)
EXTENDS Integers, Sequences

Seconds(s) == s \div 30

NoBudget == 0

Call(budget, tries, steps) ==
  [budget |-> budget, tries |-> tries, steps |-> steps]

(* What is paid for: the request goes out, the result is waited for.       *)
Generation == <<"submit", "result">>

(* Mutant: the generation is wrapped in the retry loop that retry.py       *)
(* offers "all external-API adapters".                                     *)
GenerateMutant(seconds) == Call(Seconds(seconds), 3, Generation \o <<"download">>)

(* Submit, wait, take the URL out of the result and download it, under one *)
(* wall-clock budget and without a retry.                                  *)
Generate(seconds) == Call(Seconds(seconds), 1, Generation \o <<"download">>)

-----------------------------------------------------------------------------
(* The adapters *)

ClaudeModeration == Call(Seconds(30), 3, <<"moderate">>)
ClaudePrompt == Call(Seconds(60), 3, <<"prompt">>)

FetchBytes == Call(NoBudget, 1, <<"fetch">>)
S3Upload == Call(NoBudget, 1, <<"upload">>)

(* gen_image_timeout_seconds and gen_video_timeout_seconds *)
ImageSeconds == 300
VideoSeconds == 600

(* The answer holds the image itself or a URL to download. *)
OpenAIGenerate == Generate(ImageSeconds)
OpenAIEdit == Generate(ImageSeconds)

FalImage == Generate(ImageSeconds)
FalVideo == Generate(VideoSeconds)
InstantID == Generate(ImageSeconds)
Together == Generate(ImageSeconds)
Fireworks == Generate(ImageSeconds)
Pollinations == Call(Seconds(ImageSeconds), 1, Generation)

StyleTransfer == Generate(120)
VirtualTryOn == Generate(150)
FalHairSalon == Generate(90)
BgReplace == Generate(90)
FalRemix == Generate(150)
FalTextToImage == Generate(60)
UpscaleCall == Generate(120)

(* A branch that raises ValueError before it calls anything. *)
Refusal == Call(NoBudget, 1, <<"refuse">>)

-----------------------------------------------------------------------------
(* _dispatch_tool *)

Fetches(n) == [i \in 1 .. n |-> FetchBytes]

(* With an OpenAI key the worker fetches the photos itself, one after the  *)
(* other, and sends them along; fal.ai gets their URLs.                    *)
EditOr(openai, photos, fal) ==
  IF openai THEN Fetches(photos) \o <<OpenAIEdit>> ELSE <<fal>>

FilterCalls(openai) == EditOr(openai, 1, StyleTransfer)
BackgroundCalls(openai) == EditOr(openai, 1, BgReplace)
OutfitCalls(openai) == EditOr(openai, 2, VirtualTryOn)

(* A style image without a description goes to fal.ai in any case. *)
HairCalls(openai, described) == EditOr(openai /\ described, 1, FalHairSalon)

(* The person, and up to two reference images. *)
RemixCalls(openai, photos) == EditOr(openai, photos, FalRemix)

MergeCalls(openai, photos) == EditOr(openai, photos, Refusal)

TextToImageCalls(openai) ==
  IF openai THEN <<OpenAIGenerate>> ELSE <<FalTextToImage>>

UpscaleCalls == <<UpscaleCall>>
VideoCalls == <<FalVideo>>

ToolWork(openai) ==
  {FilterCalls(openai), BackgroundCalls(openai), OutfitCalls(openai),
   TextToImageCalls(openai), UpscaleCalls, VideoCalls}
    \cup {HairCalls(openai, d) : d \in BOOLEAN}
    \cup {RemixCalls(openai, n) : n \in 1 .. 3}
    \cup {MergeCalls(openai, n) : n \in 2 .. 4}

(* run_tool: the branch, then the upload. *)
ToolJobWork ==
  {[job |-> "tool", calls |-> calls \o <<S3Upload>>] :
     calls \in ToolWork(TRUE) \cup ToolWork(FALSE)}

-----------------------------------------------------------------------------
(* _normalize_duration *)

(* A duration is a number, with an "s" behind it or without; Text is none. *)
Duration(n, s) == [n |-> n, s |-> s]
Text == [text |-> TRUE]

Durations(numbers, s) == {Duration(n, s) : n \in numbers}

AllowedDurations ==
  [kling |-> Durations({5, 10}, FALSE), seedance |-> Durations(2 .. 12, FALSE),
   wan |-> Durations({5}, FALSE), veo |-> Durations({4, 6, 8}, TRUE)]

DefaultDuration ==
  [kling |-> Duration(5, FALSE), seedance |-> Duration(5, FALSE),
   wan |-> Duration(5, FALSE), veo |-> Duration(4, TRUE)]

Distance(m, n) == IF m > n THEN m - n ELSE n - m

(* An allowed value is taken as it is, else its number in the form of the  *)
(* model, else the first of the sorted allowed numbers that is nearest.    *)
NormalizeDuration(tool, raw) ==
  LET allowed == AllowedDurations[tool]
      form == tool = "veo"
      numbers == {d.n : d \in allowed}
      nearest == {m \in numbers : \A k \in numbers :
                                     Distance(m, raw.n) <= Distance(k, raw.n)}
  IN  IF raw \in allowed THEN raw
      ELSE IF raw = Text THEN DefaultDuration[tool]
      ELSE IF Duration(raw.n, form) \in allowed THEN Duration(raw.n, form)
      ELSE Duration(CHOOSE m \in nearest : \A k \in nearest : m <= k, form)

(* "Coerce an incoming duration value to one this tool's fal.ai model      *)
(* accepts": whatever comes in, the model accepts what it gets; a value it *)
(* accepts is kept, and a longer wish never makes a shorter clip.          *)
ASSUME DurationsAccepted ==
  \A tool \in DOMAIN AllowedDurations :
    LET raws == {Text} \cup Durations(-1 .. 15, TRUE) \cup Durations(-1 .. 15, FALSE)
        sent(raw) == NormalizeDuration(tool, raw)
    IN  /\ \A raw \in raws : sent(raw) \in AllowedDurations[tool]
        /\ \A raw \in AllowedDurations[tool] : sent(raw) = raw
        /\ \A a, b \in raws \ {Text} : a.n <= b.n => sent(a).n <= sent(b).n

-----------------------------------------------------------------------------
(* generate_content *)

(* The template and up to four faces are fetched outside the budget of the *)
(* edit; without any image the prompt alone is used.                       *)
OpenAIContext(images) ==
  IF images = 0 THEN <<OpenAIGenerate>> ELSE Fetches(images) \o <<OpenAIEdit>>

(* What _build_generation_providers puts behind an image order ... *)
ImageCalls(provider) ==
  CASE provider = "openai" -> {OpenAIContext(n) : n \in 0 .. 5}
    [] provider = "fal" -> {<<FalImage>>}
    [] provider = "instantid" -> {<<InstantID>>, <<FalImage>>}
    [] provider = "pollinations" -> {<<Pollinations>>}
    [] provider = "together" -> {<<Together>>}
    [] provider = "fireworks" -> {<<Fireworks>>}
    [] provider \in {"composite", "stub"} -> {<<>>}

(* ... and behind a video order: everyone but fal.ai fakes it in process,  *)
(* and instantid does so where the adapter for fal.ai cannot be built.     *)
VideoOrderCalls(provider) ==
  CASE provider = "fal" -> {<<FalVideo>>}
    [] provider = "instantid" -> {<<FalVideo>>, <<>>}
    [] OTHER -> {<<>>}

GenProviders == {"openai", "fal", "instantid", "pollinations", "together",
                 "fireworks", "composite", "stub"}

(* The safety gate, the prompt, the generation, the upload; the gate and   *)
(* the prompt are real calls wherever an Anthropic key is configured.      *)
OrderJobWork ==
  {[job |-> "order",
    calls |-> <<ClaudeModeration, ClaudePrompt>> \o calls \o <<S3Upload>>] :
     calls \in UNION {ImageCalls(p) \cup VideoOrderCalls(p) : p \in GenProviders}}

Work == ToolJobWork \cup OrderJobWork

=============================================================================
