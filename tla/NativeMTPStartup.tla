--------------------------- MODULE NativeMTPStartup ---------------------------
(***************************************************************************)
(* How the ranks of a distributed runtime decide together whether they     *)
(* decode with the model's own draft head, and patch mlx-lm for it         *)
(* (inference/native_mtp: config.py, detector.py, runtime.py, and the      *)
(* installs of cache.py, qwen.py and generation.py; the load wrappers of   *)
(* serving/distributed_openai.py).                                         *)
(*                                                                         *)
(* Each rank is a process.  A collective (all_sum) completes when every    *)
(* rank has joined it; what a rank reads of it then is what all put in.    *)
(* A rank that meets the others in a different collective reads rubbish,   *)
(* or nothing, ever.                                                       *)
(***************************************************************************)
EXTENDS Integers, Sequences, FiniteSets

CONSTANTS Ranks,
          Checkpoints,   \* what the directory of the model may hold on a node
          Patches        \* the attributes of mlx-lm that the installs set, in order

Modes == {"off", "auto", "required"}

\* How a launch may configure the ranks: mlx.launch gives all the same
\* arguments.
Launches == [mode : Modes, concurrency : {1, 2}, pipeline : BOOLEAN]

ASSUME StartupAssumption ==
  /\ IsFiniteSet(Ranks) /\ Ranks # {}
  /\ Patches \in Seq({Patches[i] : i \in DOMAIN Patches})
  /\ \A i, j \in DOMAIN Patches : Patches[i] = Patches[j] => i = j

-----------------------------------------------------------------------------
(* What a checkpoint can do (_capability).  A tensor is <<layer, name>>,   *)
(* with layer 0 for the tensors of the head that are of no layer.          *)

Nothing == <<>>    \* no value; a value is a sequence of one

OfHead == {"pre_fc_norm_hidden", "pre_fc_norm_embedding", "fc", "norm"}
OfLayer == {"input_layernorm", "post_attention_layernorm",
            "q_proj", "k_proj", "v_proj", "o_proj", "q_norm", "k_norm"}
Projections == {"gate_proj", "up_proj", "down_proj"}

\* _checkpoint_tensor_keys: an index that can be read names the tensors, whatever
\* files there are; without one the headers of the files do, those that are
\* whole.
Tensors(c) ==
  IF c.index # Nothing THEN c.index[1] ELSE UNION {h[1] : h \in c.headers \ {Nothing}}

Has(c, layer, names) == \A n \in names : <<layer, n>> \in Tensors(c)

\* _has_complete_mlp
CompleteMlp(c, layer) ==
  \/ Has(c, layer, Projections)
  \/ /\ Has(c, layer, {"gate", "shared_gate_proj", "shared_up_proj", "shared_down_proj",
                       "shared_gate"})
     /\ \/ Has(c, layer, {"switch_gate_proj", "switch_up_proj", "switch_down_proj"})
        \/ Has(c, layer, {"experts_gate_up_proj", "experts_down_proj"})
        \/ c.experts > 0 /\ \A e \in 1..c.experts, p \in Projections :
                              <<layer, <<e, p>>>> \in Tensors(c)

\* _missing_required_groups finds none
Complete(c) ==
  /\ Has(c, 0, OfHead)
  /\ \A layer \in 1..c.layers : Has(c, layer, OfLayer) /\ CompleteMlp(c, layer)

Obstacle(c) ==
  IF c.type = "none" THEN "unknown"
  ELSE IF c.type # "qwen3_5" THEN "unsupported_model_type"
  ELSE IF c.layers = 0 THEN "model_does_not_declare_mtp"
  ELSE IF Tensors(c) = {} THEN "checkpoint_missing_mtp_weights"
  ELSE IF ~Complete(c) THEN "checkpoint_incomplete_mtp_weights"
  ELSE "none"

\* inspect_native_mtp
Decision(mode, c) ==
  [enabled |-> mode # "off" /\ Obstacle(c) = "none",
   reason |-> IF mode = "off" THEN "disabled_by_user" ELSE Obstacle(c)]

\* The hash of a decision: of the files, the tensors and what follows.
Fingerprint(d, c) == <<d, c>>

-----------------------------------------------------------------------------
VARIABLES
  launch,      \* the arguments of the ranks
  files,       \* the checkpoint on each node
  shape,       \* the ranks whose mlx-lm has the internals the patches need
  rank,        \* where each rank is
  decision,    \* NativeMTPRuntimeController.decision
  sent,        \* what each rank has put into each collective
  namespace,   \* the attributes of mlx-lm in each rank
  changes      \* PatchTransaction._changes: what each set attribute was before

startupVars == <<launch, files, shape, rank, decision, sent, namespace, changes>>

Attributes == {Patches[i] : i \in DOMAIN Patches}
Original == [a \in Attributes |-> "original"]
AllPatched == [a \in Attributes |-> "patched"]
NoChanges == [a \in {} |-> "original"]
StartupInit ==
  /\ launch \in Launches
  /\ files \in [Ranks -> Checkpoints]
  /\ shape \in SUBSET Ranks
  /\ rank = [r \in Ranks |-> "new"]
  /\ decision = [r \in Ranks |-> Decision(launch.mode, files[r])]
  /\ sent = [c \in {"agree", "final", "status"} |-> [r \in Ranks |-> Nothing]]
  /\ namespace = [r \in Ranks |-> Original]
  /\ changes = [r \in Ranks |-> NoChanges]

-----------------------------------------------------------------------------
Goes(r, to) == rank' = [rank EXCEPT ![r] = to]
Puts(c, r, value) == sent' = [sent EXCEPT ![c][r] = <<value>>]
Joined(c) == \A s \in Ranks : sent[c][s] # Nothing

\* _rank_fingerprints_match: every row of the sum has all ranks in one column.
Match(c) == \A s, t \in Ranks : sent[c][s] = sent[c][t]

\* _fallback_or_raise
FallBack(r, reason) ==
  /\ decision' = [decision EXCEPT ![r] = [enabled |-> FALSE, reason |-> reason]]
  /\ Goes(r, IF launch.mode = "required" THEN "failed" ELSE "prepared")

JoinAgree(r) ==
  /\ rank[r] = "new"
  /\ Goes(r, "agree") /\ Puts("agree", r, Fingerprint(decision[r], files[r]))
  /\ UNCHANGED <<launch, files, shape, decision, namespace, changes>>

\* runtime_shape_supported
Supported(r) == r \in shape

\* The first agreement; then what each rank finds out about itself.
Agreed(r) ==
  /\ rank[r] = "agree" /\ Joined("agree")
  /\ IF ~Match("agree") THEN FallBack(r, "rank_decision_mismatch") /\ UNCHANGED sent
     ELSE IF ~decision[r].enabled
     THEN /\ Goes(r, IF launch.mode = "required" THEN "failed" ELSE "prepared")
          /\ UNCHANGED <<decision, sent>>
     ELSE IF launch.concurrency # 1
     THEN FallBack(r, "unsupported_decode_concurrency") /\ UNCHANGED sent
     ELSE IF launch.pipeline THEN FallBack(r, "unsupported_topology") /\ UNCHANGED sent
     ELSE IF ~Supported(r)
     THEN FallBack(r, "unsupported_mlx_lm_runtime_shape") /\ UNCHANGED sent
     ELSE /\ Goes(r, "final") /\ Puts("final", r, Fingerprint(decision[r], files[r]))
          /\ UNCHANGED decision
  /\ UNCHANGED <<launch, files, shape, namespace, changes>>

Final(r) ==
  /\ rank[r] = "final" /\ Joined("final")
  /\ IF Match("final") THEN Goes(r, "installing") /\ UNCHANGED decision
     ELSE FallBack(r, "rank_decision_mismatch")
  /\ UNCHANGED <<launch, files, shape, sent, namespace, changes>>

\* A rank that fell back after the first agreement is at its first collective
\* after the load, and meets the ranks at the second agreement there.
Garbled(r) ==
  /\ rank[r] = "final" /\ \E s \in Ranks : rank[s] \in {"barrier", "serving"}
  /\ FallBack(r, "rank_decision_mismatch")
  /\ UNCHANGED <<launch, files, shape, sent, namespace, changes>>

-----------------------------------------------------------------------------
(* The patches.                                                            *)

NextPatch(r) == Cardinality(DOMAIN changes[r]) + 1

\* PatchTransaction.set
Install(r) ==
  /\ rank[r] = "installing" /\ NextPatch(r) <= Len(Patches)
  /\ LET a == Patches[NextPatch(r)] IN
       /\ changes' = [changes EXCEPT ![r] =
                        [b \in DOMAIN @ \cup {a} |-> IF b = a THEN namespace[r][a] ELSE @[b]]]
       /\ namespace' = [namespace EXCEPT ![r][a] = "patched"]
  /\ UNCHANGED <<launch, files, shape, rank, decision, sent>>

\* The installs are through, or one of them raised.
Report(r) ==
  /\ rank[r] = "installing"
  /\ \E success \in BOOLEAN :
       /\ success => NextPatch(r) > Len(Patches)
       /\ Puts("status", r, IF success THEN "success" ELSE "error")
  /\ Goes(r, "status")
  /\ UNCHANGED <<launch, files, shape, decision, namespace, changes>>

\* PatchTransaction.rollback
RolledBack(r) ==
  [a \in Attributes |-> IF a \in DOMAIN changes[r] THEN changes[r][a] ELSE namespace[r][a]]

(* Broken variant: a rank looks at its own install alone.                  *)
SettleAlone(r) ==
  /\ rank[r] = "status" /\ Joined("status")
  /\ IF sent["status"][r] = <<"success">>
     THEN Goes(r, "prepared") /\ UNCHANGED namespace
     ELSE Goes(r, "failed") /\ namespace' = [namespace EXCEPT ![r] = RolledBack(r)]
  /\ changes' = [changes EXCEPT ![r] = NoChanges]
  /\ UNCHANGED <<launch, files, shape, decision, sent>>

\* _all_ranks_succeeded, and commit or rollback: a rank whose own or
\* another's install failed starts no server, in any mode.
Settle(r) ==
  /\ rank[r] = "status" /\ Joined("status")
  /\ IF \A s \in Ranks : sent["status"][s] = <<"success">>
     THEN Goes(r, "prepared") /\ UNCHANGED namespace
     ELSE Goes(r, "failed") /\ namespace' = [namespace EXCEPT ![r] = RolledBack(r)]
  /\ changes' = [changes EXCEPT ![r] = NoChanges]
  /\ UNCHANGED <<launch, files, shape, decision, sent>>

-----------------------------------------------------------------------------
(* The load.                                                               *)

\* A head of two layers is refused when the model is made (TextModel.__init__).
HeadFits(c) == c.layers = 1

\* native_mtp_construction_scope: only an enabled rank makes the head.
Constructs(r) == decision[r].enabled => HeadFits(files[r])

\* tokenity_load, tokenity_sharded_load: the model is made and its weights
\* come in.
Load(r) ==
  /\ rank[r] = "prepared"
  /\ \/ Goes(r, "failed")
     \/ Constructs(r) /\ Goes(r, "loaded")
  /\ UNCHANGED <<launch, files, shape, decision, sent, namespace, changes>>

\* validate_loaded_model: the head may turn out not to be there, or not to
\* have been loaded.
Validate(r) ==
  /\ rank[r] = "loaded"
  /\ \/ Goes(r, "barrier")
     \/ decision[r].enabled /\ Goes(r, "failed")
  /\ UNCHANGED <<launch, files, shape, decision, sent, namespace, changes>>

\* The first collective after the load, the barrier of tokenity_sharded_load
\* or the readiness warmup: all ranks, or rubbish of the second agreement.
Barrier(r) ==
  /\ rank[r] = "barrier"
  /\ \/ \A s \in Ranks : rank[s] \in {"barrier", "serving"}
     \/ \E s \in Ranks : rank[s] = "final"
  /\ Goes(r, "serving")
  /\ UNCHANGED <<launch, files, shape, decision, sent, namespace, changes>>

\* mlx.launch ends the other ranks when one has ended.
Ended(r) ==
  /\ rank[r] # "failed" /\ \E s \in Ranks : rank[s] = "failed"
  /\ Goes(r, "failed")
  /\ UNCHANGED <<launch, files, shape, decision, sent, namespace, changes>>

StartupNext ==
  \E r \in Ranks :
    \/ JoinAgree(r) \/ Agreed(r) \/ Final(r) \/ Garbled(r)
    \/ Install(r) \/ Report(r) \/ Settle(r)
    \/ Load(r) \/ Validate(r) \/ Barrier(r) \/ Ended(r)

-----------------------------------------------------------------------------
(* Properties.                                                             *)

Past(r) == rank[r] \in {"prepared", "loaded", "barrier", "serving"}

(* Ranks that go on to load the model decode alike, and where they use the *)
(* draft head every living rank has all the patches, although each finds   *)
(* out about its files, its mlx-lm and its install by itself; a rank that  *)
(* fell back has left mlx-lm as it was (NativeMTPRuntimeController.        *)
(* prepare).                                                               *)
RanksAgree ==
  \A r \in Ranks : Past(r) =>
    /\ \A s \in Ranks : Past(s) => decision[s].enabled = decision[r].enabled
    /\ decision[r].enabled =>
         \A s \in Ranks : rank[s] # "failed" => namespace[s] = AllPatched
    /\ ~decision[r].enabled => namespace[r] = Original

(* Heterogeneous ranks stop: where one falls back on its own, none waits   *)
(* for it.  Violated in mode auto: a rank without the needed internals     *)
(* falls back before the second agreement, and the others wait in it.      *)
NoneLeftWaiting ==
  \A r, s \in Ranks : ~(rank[r] = "final" /\ rank[s] = "barrier")
=============================================================================
