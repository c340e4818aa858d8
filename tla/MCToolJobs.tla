----------------------------- MODULE MCToolJobs -----------------------------
(***************************************************************************)
(* ToolJobs on real endpoints of ToolCatalog: three requests of one user.  *)
(* The first two differ in an input that is not part of the charge key, so *)
(* that the second is free work; the third has a key of its own.  Costs    *)
(* are scaled to one unit; a top-up covers one charge.                     *)
(***************************************************************************)
EXTENDS ToolJobs, ToolCatalog, TLC

CONSTANTS u1, remix1, remix2, filter1, c1, j1, j2

MCUsers == {u1}
MCRequests == {remix1, remix2, filter1}
MCClients == {c1}
MCJobs == {j1, j2}

Body(r) ==
  CASE r = remix1 -> [person_photo |-> "p", prompt_head |-> "sari",
                      accessory_url |-> "hat"]
    [] r = remix2 -> [person_photo |-> "p", prompt_head |-> "sari",
                      accessory_url |-> "crown"]
    [] r = filter1 -> [photo |-> "p", style |-> "cartoon", style_name |-> "anime"]

ToolOf(r) == IF r = filter1 THEN AiFilter ELSE Remix

MCUserOf == [r \in Requests |-> u1]

(* The real key of a request, and the first request that has it: a short   *)
(* name for the key.                                                       *)
FullKey(r) == ChargeKeyOf(ToolOf(r), u1, Body(r))
MCInputKey ==
  [r \in Requests |-> CHOOSE q \in Requests : FullKey(q) = FullKey(r)]
MCCost == [r \in Requests |-> 1]

MCKeys ==
  {ChargeKey(r) : r \in Requests} \cup {RefundKey(j) : j \in Jobs}
    \cup {PurchaseKey(u) : u \in Users}
MCDeltas == {-1, 1}

ASSUME RequestsAccepted == \A r \in Requests : Accepts(ToolOf(r), Body(r))

(* The hazard the instance is built for: one key, two pieces of work. *)
ASSUME KeyCoversLess ==
  /\ SameKey(remix1, remix2)
  /\ WorkOf(Remix, Body(remix1)) # WorkOf(Remix, Body(remix2))

=============================================================================
