------------------------------ MODULE AutoRouter ------------------------------
(***************************************************************************)
(* The choice of a model for a request that leaves it open                 *)
(* ("tokenity-auto"): control/routing.py, with the profile that the agent  *)
(* infers of a model and the context it derives from a request             *)
(* (node_agent/agent.py).                                                  *)
(*                                                                         *)
(* A key is <<model, revision>>, both numbered in the order in which the   *)
(* code sorts their names; 0 stands for no model and for any revision.     *)
(* What the code finds in names, files and texts by regular expressions is *)
(* a set of marks.  Scores are integers in units of 1e-5, which the        *)
(* weights and qualities of the code are multiples of; that floating-point *)
(* sums may fall on the other side of a tie is left out.                   *)
(***************************************************************************)
EXTENDS Integers, FiniteSets

CONSTANT Catalog     \* what there is to know of each key's files and name

Keys == DOMAIN Catalog
Models == {k[1] : k \in Keys}

ASSUME CatalogAssumption ==
  \A k \in Keys : k[1] \in Nat \ {0} /\ k[2] \in Nat \ {0} /\ k = <<k[1], k[2]>>

Before(j, k) == j[1] < k[1] \/ (j[1] = k[1] /\ j[2] < k[2])

AtLeast(a, b) == IF a > b THEN a ELSE b

-----------------------------------------------------------------------------
(* The profile of a key (_infer_gateway_model_profile).                    *)

Marked(k, marks) == Catalog[k].marks \cap marks # {}

Tags(k) ==
  {"general"}
    \cup (Catalog[k].marks \cap {"coding", "reasoning", "tool-use", "fast-chat", "long-context"})
    \cup (IF Catalog[k].context >= 65536 THEN {"long-context"} ELSE {})

Large(k) == Marked(k, {"large"})
Fast(k) == Marked(k, {"fast-chat", "small"})
BaseQuality(k) == IF Large(k) THEN 92 ELSE IF Fast(k) THEN 72 ELSE 82
PredictedTTFT(k) == IF Large(k) THEN 1200 ELSE IF Fast(k) THEN 120 ELSE 450

\* task_quality, in hundredths.
Quality(k, category) ==
  CASE category = "general" -> BaseQuality(k)
    [] category = "fast-chat" -> AtLeast(65, BaseQuality(k) - (IF Large(k) THEN 8 ELSE 0))
    [] category \in {"coding", "reasoning"} ->
         IF category \in Tags(k) THEN 96 ELSE AtLeast(50, BaseQuality(k) - 12)
    [] category \in {"long-context", "tool-use"} ->
         IF category \in Tags(k) THEN 94 ELSE AtLeast(45, BaseQuality(k) - 18)

SupportsThinking(k) == "reasoning" \in Tags(k) \/ Marked(k, {"qwen3", "glm"})
SupportsTools(k) ==
  ~Catalog[k].vlm /\ ("tool-use" \in Tags(k) \/ Marked(k, {"qwen", "qwen3", "tools"}))
SupportsJson(k) == ~Catalog[k].vlm /\ (SupportsTools(k) \/ Marked(k, {"json"}))

\* The parameters a key supports beyond those that every model does.
RuntimeParameters(k) ==
  LET t == Catalog[k]
      tools == {"tools", "tool_choice", "parallel_tool_calls"}
      inferred == (IF SupportsTools(k) THEN tools ELSE {})
                    \cup (IF SupportsJson(k) THEN {"response_format"} ELSE {})
                    \cup (IF Marked(k, {"qwen3"}) \/ t.templates # {}
                          THEN {"chat_template_kwargs"} ELSE {})
  IN  IF t.vlm THEN (inferred \ (tools \cup {"response_format", "logprobs"}))
                      \cup {"chat_template_kwargs"}
      ELSE inferred

-----------------------------------------------------------------------------
(* The context of a request (_derive_gateway_route_context).  A session    *)
(* that was served before has a route, which a lock keeps it on.           *)

Locked(ask, route) == IF ask.lockSession THEN route ELSE <<ask.lockModel, 0>>

Context(ask, route) ==
  LET lock == Locked(ask, route)
  IN  [ask |-> ask,
       models |-> IF lock[1] = 0 THEN ask.models
                  ELSE IF ask.models # {} /\ lock[1] \notin ask.models THEN {0}
                  ELSE {lock[1]},
       sticky |-> IF lock[1] # 0 THEN lock ELSE route,
       changed |-> ask.topicChanged /\ lock[1] = 0]

\* infer_task_category
Category(ctx) ==
  LET ask == ctx.ask IN
  CASE ask.category # "none" -> ask.category
    [] ask.category = "none" /\ "tools" \in ask.needs -> "tool-use"
    [] ask.category = "none" /\ "tools" \notin ask.needs ->
         IF ask.tokens >= ask.longDocument THEN "long-context"
         ELSE IF ask.text \cap {"code", "compiler_error", "diff"} # {} THEN "coding"
         ELSE IF "steps" \in ask.text THEN "reasoning"
         ELSE IF ask.text \cap {"translation", "rewrite"} # {} THEN "fast-chat"
         ELSE "general"

\* _hard_constraint_reasons, but the one that depends on the runtime.  The
\* languages of an inferred profile are those that a text can have, its
\* modalities only text.
Unfit(k, ctx) ==
  LET t == Catalog[k]  ask == ctx.ask IN
  \/ ~t.allowAuto
  \/ ctx.models # {} /\ k[1] \notin ctx.models
  \/ ask.tokens + ask.maxTokens > t.context
  \/ ask.maxTokens > t.output
  \/ "tools" \in ask.needs /\ ~SupportsTools(k)
  \/ "json" \in ask.needs /\ ~SupportsJson(k)
  \/ "thinking" \in ask.needs /\ ~SupportsThinking(k)
  \/ "image" \in ask.needs
  \/ t.privacy < ask.privacy
  \/ ~(ask.parameters \subseteq RuntimeParameters(k))
  \/ ~(ask.templates \subseteq t.templates)

-----------------------------------------------------------------------------
(* The decision (AutoRouter.decide).  load[k] is what is known of the      *)
(* runtime of a key: [routable, queued, active, failed].                   *)

Policy == [ fast     |-> [quality |-> 10, latency |-> 150, queue |-> 22, failure |-> 150000,
                          affinity |-> 15000, priority |-> 4000],
            balanced |-> [quality |-> 15, latency |-> 100, queue |-> 16, failure |-> 200000,
                          affinity |-> 22000, priority |-> 6000],
            quality  |-> [quality |-> 30, latency |-> 15,  queue |-> 6,  failure |-> 250000,
                          affinity |-> 25000, priority |-> 8000] ]

LowConfidenceMargin == 4000

Score(k, ctx, load) ==
  LET w == Policy[ctx.ask.policy]
  IN  100 * w.quality * Quality(k, Category(ctx))
      - w.latency * PredictedTTFT(k)
      - 10 * w.queue * (175 * load[k].queued + 35 * load[k].active)
      - (IF load[k].failed THEN w.failure ELSE 0)
      + w.priority * Catalog[k].priority
      + (IF ctx.sticky[1] = k[1] THEN w.affinity ELSE 0)

Eligible(candidates, ctx, load) ==
  {k \in candidates : load[k].routable /\ ~Unfit(k, ctx)}

Ahead(score, j, k) == score[j] > score[k] \/ (score[j] = score[k] /\ Before(j, k))

\* The first of keys in order of score, as a set of one, or none.
Leading(score, keys) == {k \in keys : \A j \in keys \ {k} : Ahead(score, k, j)}
BestOf(score, keys, model) == Leading(score, {k \in keys : k[1] = model})

Sticky(ctx, score, keys) ==
  IF ctx.changed \/ ctx.sticky[1] = 0 THEN {}
  ELSE IF ctx.sticky[2] # 0 THEN keys \cap {ctx.sticky}
  ELSE BestOf(score, keys, ctx.sticky[1])

Close(score, keys) ==
  LET top == Leading(score, keys)
  IN  \E first \in top : \E second \in Leading(score, keys \ top) :
        score[first] - score[second] < LowConfidenceMargin

\* _default_gateway_model_id
Preferred(j, k) ==
  LET a == Catalog[j]  b == Catalog[k] IN
  \/ a.priority > b.priority
  \/ a.priority = b.priority /\ BaseQuality(j) > BaseQuality(k)
  \/ a.priority = b.priority /\ BaseQuality(j) = BaseQuality(k) /\ a.context > b.context
  \/ a.priority = b.priority /\ BaseQuality(j) = BaseQuality(k) /\ a.context = b.context
       /\ j[1] > k[1]

DefaultModels(ask, candidates) ==
  IF ask.default # 0 THEN {ask.default}
  ELSE {k[1] : k \in {c \in candidates : \A j \in candidates : ~Preferred(j, c)}}

Defaults(ask, candidates, score, keys) ==
  UNION {BestOf(score, keys, m) : m \in DefaultModels(ask, candidates)}

\* What is chosen among the eligible keys, as a set of one, or none.
Choice(ctx, candidates, score, keys) ==
  LET sticky == Sticky(ctx, score, keys)
      default == Defaults(ctx.ask, candidates, score, keys)
  IN  IF sticky # {} THEN sticky
      ELSE IF Close(score, keys) /\ default # {} THEN default
      ELSE Leading(score, keys)

\* fallback_targets: the chosen key; then other models with the wanted
\* capability, in order of score; the default model last.
Capable(chosen, ctx, candidates, keys) ==
  {k \in keys : k[1] # chosen[1] /\ Category(ctx) \in Tags(k)}

(* Broken variant: the default model, eligible or not.                     *)
TargetsOrDefault(chosen, ctx, candidates, score, keys) ==
  {chosen} \cup Capable(chosen, ctx, candidates, keys)
           \cup Defaults(ctx.ask, candidates, score, candidates)

Targets(chosen, ctx, candidates, score, keys) ==
  {chosen} \cup Capable(chosen, ctx, candidates, keys)
           \cup Defaults(ctx.ask, candidates, score, keys)

TargetRank(chosen, ctx, candidates, score, keys) ==
  [k \in Keys |->
     IF k = chosen THEN 0
     ELSE IF k \in Capable(chosen, ctx, candidates, keys)
          THEN 1 + Cardinality({j \in keys : Ahead(score, j, k)})
     ELSE 1 + Cardinality(keys)]
=============================================================================
