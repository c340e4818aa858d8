---------------------------- MODULE ToolCatalog -----------------------------
(***************************************************************************)
(* The endpoints of the photo tools as data: what each costs, which inputs *)
(* it needs, which of them make up the key it charges under and which of   *)
(* them reach the worker.                                                  *)
(*                                                                         *)
(* A request is a function from the inputs it gives to their values.  An   *)
(* endpoint that falls back from one input to the next names them in that  *)
(* order: <<"photo", "prompt_head">> is body.photo_key or body.prompt[:64].*)
(* A text a key takes a slice of comes in two inputs: the head that fits   *)
(* the slice, and the tail.  Keyword tags are part of the prompt they are  *)
(* appended to.  A field of another name that AiOutfit or Remix takes for  *)
(* the photo or the garment counts as the one it is taken for.             *)
(***************************************************************************)
EXTENDS Integers, Sequences

CONSTANT NotGiven   \* None: the value of an input that is not there

Only(names) == {<<n>> : n \in names}

(* The first of the alternatives that is given. *)
FirstGiven(alternatives, inputs) ==
  LET given == SelectSeq(alternatives, LAMBDA n : n \in DOMAIN inputs)
  IN  IF given = <<>> THEN NotGiven ELSE inputs[Head(given)]

Values(fields, inputs) == [f \in fields |-> FirstGiven(f, inputs)]

(* What the request model or the endpoint answers 422 without. *)
Accepts(tool, inputs) == \A alternatives \in tool.need :
                            alternatives \cap DOMAIN inputs # {}

(* A long key is replaced by its hash, which keeps different keys apart. *)
ChargeKeyOf(tool, user, inputs) ==
  <<tool.id, user, Values(tool.key, inputs)>>

(* What the worker gets; the endpoint and its cost go along. *)
WorkOf(tool, inputs) == <<tool.id, Values(tool.params, inputs)>>

Prompt == {"prompt_head", "prompt_tail"}

-----------------------------------------------------------------------------
(* One definition per endpoint *)

(* The key keeps the style as it was written, the worker gets the name an  *)
(* alias stands for.                                                       *)
AiFilter ==
  [id |-> "ai-filter", cost |-> 700,
   need |-> {{"photo"}, {"style"}},
   key |-> Only({"photo", "style"}),
   params |-> Only({"photo", "style_name", "strength"})]

Person == <<"person_photo", "photo", "user_photo">>
GarmentKey == <<"garment_photo", "outfit_photo", "clothing_photo">>

AiOutfit ==
  [id |-> "ai-outfit", cost |-> 900,
   need |-> {{Person[i] : i \in 1 .. 3},
             {"garment_url"} \cup {GarmentKey[i] : i \in 1 .. 3}},
   key |-> {Person, <<"garment_url">> \o GarmentKey},
   params |-> {Person, GarmentKey \o Person}
                \cup Only({"garment_url", "garment_url_tail", "category"})]

HairDesc == <<"hair_colour", "hair_color", "hair_style">>

HairSalon ==
  [id |-> "hair-salon", cost |-> 700,
   need |-> {{"photo"}, {"style_url"} \cup {HairDesc[i] : i \in 1 .. 3}},
   key |-> Only({"photo", "hair_colour", "style_url"}),
   params |-> {<<"photo">>, HairDesc, <<"style_url">>}]

AiBackground ==
  [id |-> "ai-background", cost |-> 700,
   need |-> {{"photo"}, {"prompt_head"}},
   key |-> Only({"photo", "prompt_head"}),
   params |-> Only({"photo"} \cup Prompt)]

(* The prompt falls back to the style texts and to "creative remix". *)
Remix ==
  [id |-> "remix", cost |-> 1000,
   need |-> {{"person_photo", "photo"}},
   key |-> {<<"person_photo", "photo">>, <<"prompt_head", "style">>},
   params |-> {<<"person_photo", "photo">>, <<"prompt_head", "style">>}
                \cup Only({"prompt_tail", "style_url", "accessory_url",
                           "strength"})]

TextToImage ==
  [id |-> "text-to-image", cost |-> 700,
   need |-> {{"prompt_head"}},
   key |-> Only({"prompt_head", "aspect_ratio"}),
   params |-> Only(Prompt \cup {"aspect_ratio"})]

(* The two to four photos and the keywords are a set in the key, which     *)
(* sorts them, and a list for the worker.  The free text of the scene is   *)
(* no part of the key.                                                     *)
PhotoMerge ==
  [id |-> "photo-merge", cost |-> 1100,
   need |-> {{"photos"}},
   key |-> Only({"photos", "keywords"}),
   params |-> Only({"photos", "photo_order", "keywords", "keyword_order"}
                    \cup Prompt)]

UpscaleCost == [hd |-> 2500, ultra |-> 9000, max |-> 18000]

(* A tier outside the table is a 422; the tier is part of the key and      *)
(* decides the scale.                                                      *)
PhotoUpscale(tier) ==
  [id |-> "photo-upscale/" \o tier, cost |-> UpscaleCost[tier],
   need |-> {{"photo"}},
   key |-> Only({"photo"}),
   params |-> Only({"photo"})]

VideoIds == {"kling-video", "wan-video", "seedance-video", "veo-video"}

VideoCost ==
  [x \in VideoIds |-> CASE x = "kling-video" -> 4300
                       [] x = "wan-video" -> 2200
                       [] x = "seedance-video" -> 2000
                       [] x = "veo-video" -> 4900]

(* _run_video_tool; animate-photo is kling-video under its old name.  The  *)
(* prompt has a default, and counts in the key only without a photo.       *)
VideoTool(id) ==
  [id |-> id, cost |-> VideoCost[id],
   need |-> {{"photo", "prompt_head"}},
   key |-> {<<"photo", "prompt_head">>, <<"duration">>},
   params |-> Only({"photo", "duration", "aspect_ratio"} \cup Prompt)]

Tools ==
  {AiFilter, AiOutfit, HairSalon, AiBackground, Remix, TextToImage, PhotoMerge}
    \cup {PhotoUpscale(t) : t \in DOMAIN UpscaleCost}
    \cup {VideoTool(v) : v \in VideoIds}

(* The prices GET /tools shows. *)
ListedPrice ==
  {<<"ai-filter", 700>>, <<"ai-background", 700>>, <<"ai-outfit", 900>>,
   <<"hair-salon", 700>>, <<"remix", 1000>>, <<"text-to-image", 700>>,
   <<"photo-merge", 1100>>, <<"photo-upscale/hd", 2500>>,
   <<"photo-upscale/ultra", 9000>>, <<"photo-upscale/max", 18000>>,
   <<"kling-video", 4300>>, <<"wan-video", 2200>>, <<"seedance-video", 2000>>,
   <<"veo-video", 4900>>}

(* "kept in sync with _TOOL_CATALOG above": the price shown is charged. *)
ASSUME PricesInSync == ListedPrice = {<<t.id, t.cost>> : t \in Tools}

=============================================================================
