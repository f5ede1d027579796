--------------------------- MODULE MCGatewayRouting ---------------------------
(***************************************************************************)
(* Instances of GatewayRouting for TLC: two revisions of a small coder and *)
(* a large reasoner with tools, with a replica of the first.               *)
(***************************************************************************)
EXTENDS GatewayRouting, TLC

Plain == [marks |-> {}, context |-> 32768, output |-> 8192, vlm |-> FALSE, allowAuto |-> TRUE,
          priority |-> 0, privacy |-> 0, templates |-> {}]

MCKeys == {<<1, 1>>, <<1, 2>>, <<2, 1>>}
MCCatalog ==
  [k \in MCKeys |->
     IF k[1] = 1 THEN [Plain EXCEPT !.marks = {"coding", "small"}]
     ELSE [Plain EXCEPT !.marks = {"large", "reasoning", "tools"}]]

Same == Permutations(Requests)

MCFleet == << <<1, 1>>, <<1, 1>>, <<2, 1>>, <<1, 2>> >>

Question ==
  [kind |-> "auto", target |-> 0, session |-> 0, limited |-> FALSE, allowed |-> {},
   policy |-> "balanced", category |-> "none", tokens |-> 10, maxTokens |-> 100,
   longDocument |-> 8192, needs |-> {}, text |-> {}, models |-> {}, privacy |-> 0,
   parameters |-> {}, templates |-> {}, lockSession |-> FALSE, lockModel |-> 0,
   topicChanged |-> FALSE, default |-> 0]

MCAsks ==
  { [Question EXCEPT !.text = {"code"}, !.session = 1, !.lockSession = TRUE],
    [Question EXCEPT !.limited = TRUE, !.allowed = {1, 3}, !.models = {1}],
    [Question EXCEPT !.needs = {"tools"}, !.session = 1, !.policy = "fast"],
    [Question EXCEPT !.kind = "alias", !.target = 1],
    [Question EXCEPT !.kind = "exact", !.target = 2] }
=============================================================================
