----------------------------- MODULE TypedProgram -----------------------------
(* The typed programs that four importers write beside a model                 *)
(* (build_qwen_, build_deepseek_, build_gemma_ and build_phi_typed_program.py): *)
(* which tensor each weight of an operation is, and which operations, states   *)
(* and positions the program has.  An importer builds the program, validates   *)
(* it with checks of its own, and only then writes it.                         *)
(*                                                                             *)
(* A weight is named by its layer and the tensor's name in the model.  A      *)
(* program is [bindings, ops, aliases, states, positions, counts, written]:    *)
(* a binding is [weight, storage, view], view being <<start, length>> in rows  *)
(* or Whole; an operation is [weights, members, states, positions].            *)
EXTENDS Integers, Sequences, FiniteSets

Whole == <<>>
Global == -1       \* the layer of a tensor that is in no layer

Refused == [written |-> FALSE]

Bind(weight) == [weight |-> weight, storage |-> weight, view |-> Whole]

Op(weights, members, states, positions) ==
  [weights |-> weights, members |-> members, states |-> states, positions |-> positions]

Of(layer, names) == {<<layer, n>> : n \in names}

-----------------------------------------------------------------------------
(* What the validations share.                                                 *)

Unique(bindings) ==
  \A b, c \in bindings : b.weight = c.weight => b = c

Weights(program) == {b.weight : b \in program.bindings}

\* The members of alternatives are not looked at, and neither is the router.
WeightsBound(program) ==
  \A op \in program.ops : op.weights \subseteq Weights(program)

Checked(program, valid) == IF valid THEN program ELSE Refused

-----------------------------------------------------------------------------
(* Qwen: one attention layer, one state-space layer and one layer of experts.  *)
(* A source is [arch, names, experts]; names are <<layer, name>>, of tensors   *)
(* whose size is known: one of another is refused like a missing one.          *)

QwenAttention == Of(3, {"attn_norm", "attn_q", "attn_k", "attn_v", "attn_output"})
QwenSsm == Of(0, {"ssm_alpha", "ssm_beta", "ssm_conv1d", "ssm_out"})
QwenRouter == <<0, "ffn_gate_inp">>
QwenExperts == Of(0, {"ffn_gate_exps", "ffn_up_exps", "ffn_down_exps"})
QwenCardinality == 256      \* constant in operation and alternatives

QwenProgram ==
  [bindings |-> {Bind(w) : w \in QwenAttention \cup QwenSsm \cup {QwenRouter} \cup QwenExperts},
   ops |-> {Op(QwenAttention, {}, {}, {"position"}),
            Op(QwenSsm, {}, {}, {"position"}),
            Op({}, QwenExperts \cup {QwenRouter}, {}, {})},
   aliases |-> {}, states |-> {"kv", "ssm"}, positions |-> {"position"},
   counts |-> <<QwenCardinality, QwenCardinality>>, written |-> TRUE]

QwenSidecar(model) ==
  IF model.arch # "qwen35moe" \/ ~ Weights(QwenProgram) \subseteq model.names
  THEN Refused
  ELSE Checked(QwenProgram, /\ Unique(QwenProgram.bindings) /\ WeightsBound(QwenProgram)
                            /\ QwenProgram.counts[1] = QwenProgram.counts[2])

-----------------------------------------------------------------------------
(* DeepSeek: built from the manifest's tensor plans.                           *)

DeepseekAttention ==
  Of(0, {"attn_norm", "attn_q", "attn_kv_a_mqa", "attn_kv_a_norm", "attn_kv_b", "attn_output"})
DeepseekMlp == Of(0, {"ffn_norm", "ffn_gate", "ffn_up", "ffn_down"})
DeepseekShared == Of(1, {"ffn_gate_inp", "ffn_gate_shexp", "ffn_up_shexp", "ffn_down_shexp"})
DeepseekRouted == Of(1, {"ffn_gate_exps", "ffn_up_exps", "ffn_down_exps"})
TokenTable == <<Global, "token_embd">>
OutputHead == Of(Global, {"output_norm", "output"})

DeepseekProgram(experts) ==
  [bindings |-> {Bind(w) : w \in {TokenTable} \cup OutputHead \cup DeepseekAttention
                                          \cup DeepseekMlp \cup DeepseekShared \cup DeepseekRouted},
   ops |-> {Op({TokenTable}, {}, {}, {}),
            Op(DeepseekAttention, {}, {"compressed", "decoupled"}, {"rope"}),
            Op(DeepseekShared \cup DeepseekRouted, DeepseekRouted, {}, {}),
            Op(OutputHead, {}, {}, {})},
   aliases |-> {}, states |-> {"compressed", "decoupled"}, positions |-> {},
   counts |-> <<experts, experts>>, written |-> TRUE]

DeepseekSidecar(model) ==
  LET p == DeepseekProgram(model.experts)
  IN  IF model.arch # "deepseek2" \/ ~ Weights(p) \subseteq model.names THEN Refused
      ELSE Checked(p, Unique(p.bindings) /\ WeightsBound(p) /\ p.counts[1] = p.counts[2])

-----------------------------------------------------------------------------
(* Gemma: a template for all layers, whose attention is local but in every     *)
(* sixth layer, and an output head that is the embedding.                      *)

Layers == 18
Pattern == 6
Window == 512

Scopes(layer) == IF (layer + 1) % Pattern # 0 THEN "sliding" ELSE "full"

AttentionPattern ==
  [layer \in 0..(Layers - 1) |->
     [scope |-> Scopes(layer),
      window |-> IF Scopes(layer) = "sliding" THEN Window ELSE 0,
      position |-> IF Scopes(layer) = "sliding" THEN "local" ELSE "global"]]

GemmaWeights ==
  Of(Global, {"token_embd", "q", "k", "v", "q_norm", "k_norm", "o", "gate", "up", "down"})

GemmaProgram ==
  [bindings |-> {Bind(w) : w \in GemmaWeights},
   ops |-> {Op({}, GemmaWeights \ {TokenTable}, {},
               {AttentionPattern[l].position : l \in DOMAIN AttentionPattern})},
   aliases |-> {TokenTable}, states |-> {"key", "value"}, positions |-> {"local", "global"},
   counts |-> <<Layers, Cardinality(DOMAIN AttentionPattern)>>, written |-> TRUE]

GemmaSidecar ==
  Checked(GemmaProgram, /\ GemmaProgram.counts[1] = GemmaProgram.counts[2]
                        /\ \A l \in DOMAIN AttentionPattern : AttentionPattern[l].scope = Scopes(l)
                        /\ GemmaProgram.aliases # {})

-----------------------------------------------------------------------------
(* Phi: fused tensors, of which three and two weights are views, and a tied    *)
(* head.                                                                       *)

Rows == [embed |-> 200064, input_norm |-> 3072, qkv |-> 5120, o |-> 3072,
         post_norm |-> 3072, gate_up |-> 16384, down |-> 3072]

View(name, storage, start, length) ==
  [weight |-> <<0, name>>, storage |-> storage, view |-> <<start, length>>]

\* Mutant: v begins where k does.
PhiBindingsOverlap ==
  {[weight |-> TokenTable, storage |-> "embed", view |-> Whole],
    [weight |-> <<0, "input_norm">>, storage |-> "input_norm", view |-> Whole],
    View("q", "qkv", 0, 3072), View("k", "qkv", 3072, 1024), View("v", "qkv", 3072, 1024),
    [weight |-> <<0, "o">>, storage |-> "o", view |-> Whole],
    [weight |-> <<0, "post_norm">>, storage |-> "post_norm", view |-> Whole],
    View("gate", "gate_up", 0, 8192), View("up", "gate_up", 8192, 8192),
    [weight |-> <<0, "down">>, storage |-> "down", view |-> Whole]}

PhiBindings ==
  {[weight |-> TokenTable, storage |-> "embed", view |-> Whole],
    [weight |-> <<0, "input_norm">>, storage |-> "input_norm", view |-> Whole],
    View("q", "qkv", 0, 3072), View("k", "qkv", 3072, 1024), View("v", "qkv", 4096, 1024),
    [weight |-> <<0, "o">>, storage |-> "o", view |-> Whole],
    [weight |-> <<0, "post_norm">>, storage |-> "post_norm", view |-> Whole],
    View("gate", "gate_up", 0, 8192), View("up", "gate_up", 8192, 8192),
    [weight |-> <<0, "down">>, storage |-> "down", view |-> Whole]}

PhiProgram ==
  [bindings |-> PhiBindings,
   ops |-> {Op({TokenTable}, {}, {}, {}),
            Op(Of(0, {"input_norm", "q", "k", "v", "o"}), {}, {}, {"longrope"}),
            Op(Of(0, {"post_norm", "gate", "up", "down"}), {}, {}, {})},
   aliases |-> {TokenTable}, states |-> {"key", "value"}, positions |-> {"longrope"},
   counts |-> <<96, 96>>, written |-> TRUE]

PhiSidecar ==
  Checked(PhiProgram,
    /\ Unique(PhiBindings)
    /\ \A b \in PhiBindings :
         /\ b.storage \in DOMAIN Rows
         /\ b.view # Whole => /\ b.view[1] >= 0 /\ b.view[2] > 0
                              /\ b.view[1] + b.view[2] <= Rows[b.storage]
    /\ PhiProgram.aliases \subseteq Weights(PhiProgram)
    /\ Cardinality({b.storage : b \in PhiBindings}) = 7)

-----------------------------------------------------------------------------
(* Properties.                                                                 *)

\* Whatever is named in a program is in it, also where its importer's own checks
\* do not look: members of alternatives, routers, states, and positions where the
\* program declares any (DeepSeek's rope is declared nowhere).
Closed(p) ==
  /\ p.written
  /\ p.aliases \subseteq Weights(p)
  /\ \A op \in p.ops : /\ op.weights \cup op.members \subseteq Weights(p)
                       /\ op.states \subseteq p.states
                       /\ p.positions # {} => op.positions \subseteq p.positions
=============================================================================
