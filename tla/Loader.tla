------------------------------- MODULE Loader -------------------------------
(***************************************************************************)
(* load_model of simple_quant_moe_infer_with_mtp.py: the configuration     *)
(* with its overrides, the merged checkpoint, and the constructor that     *)
(* takes one tensor after the other out of the store.  A tensor is its     *)
(* name, whether its shape is the expected one, and what has been done to  *)
(* it; anything that is missing or refused ends the load with nothing kept.*)
(***************************************************************************)
EXTENDS Integers, Sequences, SequencesExt

CONSTANTS
  Requests  \* what may be asked for: a configuration, the overrides, a checkpoint

\* ModelConfig, as far as it decides about tensors.  act_quant_method is a
\* string; "none" stands for the None of a projection that is not quantised.  A
\* headDim, crossHead or embeddingDim that is None has got its value (validate).
Configurations ==
  [dModel : Int, embeddingDim : Int, head : Int, crossHead : Int, kvHead : Int,
   crossKvHead : Int, headDim : Int, layers : Int, crossLayers : Int,
   mtpN : Int, denseLayers : Int, moe : BOOLEAN, experts : Int, topK : Int, sharedDim : Int,
   latentDim : Int, latentNorm : BOOLEAN, expertBit : BOOLEAN, grouped : BOOLEAN,
   ternary : BOOLEAN, act : STRING \ {"none"}, bitLinear : SUBSET STRING, attnLevel : Int,
   ffnLevel : Int, diffV2 : BOOLEAN, diffV3 : BOOLEAN, headwiseGlu : BOOLEAN,
   qkNorm : BOOLEAN, qkRmsClip : BOOLEAN, qkRmsGamma : BOOLEAN, weightTying : BOOLEAN,
   embproj : BOOLEAN, embProjNorm : BOOLEAN, int8Embedding : BOOLEAN, int8Head : BOOLEAN,
   embeddingBlock : Int, headBlock : Int, maxSeqLen : Int, loops : Int]

ASSUME LoaderAssumption == \A r \in Requests : r.config \in Configurations

VARIABLES
  loading,     \* args, state, tensors; loaded or refused
  asked,       \* the request
  config,
  plan,        \* what is left of the constructor
  store,       \* the names left in the store
  model        \* the attributes set so far, and what they were made of

loadVars == <<loading, asked, config, plan, store, model>>

\* Where a tensor belongs: a layer, the MTP block, or neither.
Top == -1
Mtp == -2

Name(at, mod, part) == [at |-> at, mod |-> mod, part |-> part]

LoadInit ==
  /\ asked \in Requests
  /\ loading = "args" /\ config = asked.config
  /\ plan = <<>> /\ store = {} /\ model = <<>>

-----------------------------------------------------------------------------
(* The configuration. *)

AllTargets == {"attn_qkv", "attn_out", "attn_gate", "yoco_kv", "ffn"}

Known(c) == c.bitLinear \in {{"off"}, {"all"}} \/ c.bitLinear \subseteq AllTargets

Bit(level, b) == (level \div 2 ^ b) % 2 = 1

\* bit_linear_targets; an empty list and "off" alone stand for none.
Targets(c) ==
  (CASE c.bitLinear = {"off"} -> {} [] c.bitLinear = {"all"} -> AllTargets
     [] OTHER -> c.bitLinear)
  \cup {t \in {"attn_qkv", "attn_out", "yoco_kv"} :
          Bit(c.attnLevel, CASE t = "attn_qkv" -> 0 [] t = "attn_out" -> 1 [] OTHER -> 2)}
  \cup {t \in {"ffn"} : Bit(c.ffnLevel, 0)}

Gated(c) == c.diffV2 \/ c.diffV3 \/ c.headwiseGlu

HeadsFit(c) ==
  /\ \A n \in {c.headDim, c.crossHead, c.kvHead, c.crossKvHead} : n > 0
  /\ c.head % c.kvHead = 0 /\ c.crossHead % c.crossKvHead = 0

\* Mutant: MTP does not need the cross-decoder.
ValidApart(c) ==
  /\ HeadsFit(c)
  /\ ~(c.diffV2 /\ c.diffV3)
  /\ Known(c)
  /\ "yoco_kv" \in Targets(c) => c.crossLayers # 0
  /\ c.bitLinear # {"all"} /\ "attn_gate" \in Targets(c) => Gated(c)
  /\ c.crossLayers \in 0 .. c.layers
  /\ c.mtpN >= 0
  /\ c.moe => c.topK \in 1 .. c.experts
  /\ c.embeddingDim # c.dModel => c.embproj
  /\ c.expertBit => c.grouped /\ c.ternary

\* validate.  grouped: the experts' widths are divisible by GROUP_SIZE;
\* ternary: weight_quant_method is TernarySEQ.
Valid(c) ==
  /\ HeadsFit(c)
  /\ ~(c.diffV2 /\ c.diffV3)
  /\ Known(c)
  /\ "yoco_kv" \in Targets(c) => c.crossLayers # 0
  /\ c.bitLinear # {"all"} /\ "attn_gate" \in Targets(c) => Gated(c)
  /\ c.crossLayers \in 0 .. c.layers
  /\ c.mtpN >= 0 /\ (c.mtpN > 0 => c.crossLayers > 0)
  /\ c.moe => c.topK \in 1 .. c.experts
  /\ c.embeddingDim # c.dModel => c.embproj
  /\ c.expertBit => c.grouped /\ c.ternary

\* apply_inference_quant_overrides, without its closing validate; an override
\* that is not given is not in the domain of o.
Overridden(c, o) ==
  LET given(field, otherwise) == IF field \in DOMAIN o THEN o[field] ELSE otherwise
      quantMoe == given("quantMoe", FALSE)
  IN [c EXCEPT !.expertBit = given("quantMoe", @),
               !.act = IF quantMoe THEN "adp_8bits" ELSE @,
               !.ternary = quantMoe \/ @,
               !.int8Embedding = given("int8Embedding", @),
               !.int8Head = given("int8Head", @),
               !.mtpN = given("mtpN", @)]

RefuseLoad == loading' = "refused" /\ store' = {} /\ model' = <<>> /\ plan' = <<>>

\* load_model_args and the overrides; the dataclass validates itself.
LoadArgs ==
  /\ loading = "args"
  /\ config' = Overridden(config, asked.overrides)
  /\ IF Valid(config) /\ Valid(config')
     THEN loading' = "state" /\ UNCHANGED <<plan, store, model>>
     ELSE RefuseLoad
  /\ UNCHANGED asked

-----------------------------------------------------------------------------
(* The order in which the constructor asks for tensors. *)

Step(fn, at, mod, quantized) == [fn |-> fn, at |-> at, mod |-> mod, quantized |-> quantized]

Norm(at, mod) == Step("norm", at, mod, FALSE)
Linear(at, mod, quantized) == Step("linear", at, mod, quantized)
HeadLinear(at, mod, quantized) == Step("head_linear", at, mod, quantized)

When(condition, steps) == IF condition THEN steps ELSE <<>>

\* _load_attention; self-decoder layers only have keys and values of their own.
AttentionSteps(c, at, isSelf) ==
  LET qkv == "attn_qkv" \in Targets(c)
      enabled == c.qkRmsClip \/ (c.qkNorm /\ isSelf)
  IN <<HeadLinear(at, "self_attn.q_proj", qkv)>>
     \o When(isSelf, <<HeadLinear(at, "self_attn.k_proj", qkv),
                       HeadLinear(at, "self_attn.v_proj", qkv)>>)
     \o When(enabled, <<Step("qk_norm", at, "self_attn.q_norm", FALSE)>>)
     \o When(enabled /\ isSelf, <<Step("qk_norm", at, "self_attn.k_norm", FALSE)>>)
     \o <<Linear(at, "self_attn.o_proj", "attn_out" \in Targets(c))>>
     \o When(Gated(c), <<Linear(at, "self_attn.gate_proj", "attn_gate" \in Targets(c))>>)

\* _load_ffn
FfnSteps(c, at, up, gate, down) ==
  LET quantized == "ffn" \in Targets(c) IN
  <<Linear(at, up, quantized), Linear(at, gate, quantized), Linear(at, down, quantized)>>

\* _load_moe
MoeSteps(c, at) ==
  <<Step("experts", at, "mlp", c.expertBit)>>
  \o When(c.latentDim > 0,
       <<Linear(at, "mlp.fc1_latent_proj", FALSE), Linear(at, "mlp.fc2_latent_proj", FALSE)>>
       \o When(c.latentNorm,
            <<Norm(at, "mlp.fc1_latent_norm"), Norm(at, "mlp.fc2_latent_norm")>>))
  \o When(c.sharedDim > 0,
       FfnSteps(c, at, "mlp.shared.up_proj", "mlp.shared.gate_proj", "mlp.shared.down_proj")
       \o <<Linear(at, "mlp.shared_gate", FALSE)>>)

MlpSteps(c, index) ==
  IF c.moe /\ index >= c.denseLayers THEN MoeSteps(c, index)
  ELSE FfnSteps(c, index, "mlp.up_proj", "mlp.gate_proj", "mlp.down_proj")

\* _load_mtp_block
MtpSteps(c) ==
  <<Norm(Mtp, "embedding_norm"), Norm(Mtp, "hidden_norm"), Linear(Mtp, "proj", FALSE),
    Norm(Mtp, "input_norm")>>
  \o AttentionSteps(c, Mtp, FALSE)
  \o <<Norm(Mtp, "post_attn_norm")>>
  \o FfnSteps(c, Mtp, "ffn.up_proj", "ffn.gate_proj", "ffn.down_proj")

\* QuantMoEInferenceModel.__init__
Plan(c) ==
  <<Step("embedding", Top, "tok_embeddings", c.int8Embedding)>>
  \o When(c.embproj,
       <<Linear(Top, "emb_proj_in", FALSE), Linear(Top, "emb_proj_out", FALSE)>>
       \o When(c.embProjNorm, <<Norm(Top, "emb_in_norm"), Norm(Top, "emb_out_norm")>>))
  \o FlattenSeq([l \in 1 .. c.layers |->
       AttentionSteps(c, l - 1, l - 1 < c.layers - c.crossLayers)
       \o MlpSteps(c, l - 1)
       \o <<Norm(l - 1, "input_layernorm"), Norm(l - 1, "post_attention_layernorm")>>])
  \o <<Norm(Top, "norm")>>
  \o When(c.crossLayers > 0,
       <<Norm(Top, "yoco_norm"),
         HeadLinear(Top, "k_proj", "yoco_kv" \in Targets(c)),
         HeadLinear(Top, "v_proj", "yoco_kv" \in Targets(c))>>
       \o When(c.qkRmsClip, <<Step("qk_norm", Top, "k_norm", FALSE)>>))
  \o <<Step("output", Top, "output", c.int8Head)>>
  \o When(c.mtpN > 0,
       <<Step("mtp_embedding", Mtp, "embedding", c.int8Embedding)>>
       \o MtpSteps(c) \o <<Norm(Top, "mtp_norm")>>)
  \o <<Step("cache", Top, "cache", FALSE)>>

\* load_model_state: the wrappers are stripped, and something must be a layer's.
LoadState ==
  /\ loading = "state"
  /\ IF \E n \in asked.tensors : n.at = 0
     THEN /\ loading' = "tensors" /\ store' = asked.tensors /\ plan' = Plan(config)
          /\ UNCHANGED model
     ELSE RefuseLoad
  /\ UNCHANGED <<asked, config>>

-----------------------------------------------------------------------------
(* Taking tensors. *)

\* A tensor, and what has been done to it since.
Made(name, steps) == [of |-> name, steps |-> steps]

Nothing == Made(Name(Top, "none", "none"), <<>>)

Stored(name, steps) == IF name \in store THEN Made(name, steps) ELSE Nothing

Doing(fn) == loading = "tensors" /\ Head(plan).fn = fn

\* The step has set these attributes from these names.
Set(attributes, names) ==
  /\ model' = [a \in DOMAIN model \cup DOMAIN attributes |->
                 IF a \in DOMAIN attributes THEN attributes[a] ELSE model[a]]
  /\ store' = store \ names
  /\ plan' = Tail(plan)
  /\ UNCHANGED loading

Misshapen(name) == name \in asked.misshapen

\* What computing with a tensor of a wrong shape does is left open where the
\* code does not look at the shape: this is whether it raises.
MayRaise(names) == {FALSE} \cup {TRUE : n \in names \cap asked.misshapen}

\* A projection under the prefix mod: its weight, and whatever of the rest is
\* there.  Without a stored clip the clip is computed, without stored scales
\* they are ones and zeros: Nothing stands for both.
Projection(at, mod, quantized, adp8) ==
  [weight |-> Made(Name(at, mod, "weight"),
                   IF quantized THEN <<"bf16", "ternary">> ELSE <<"bf16">>),
   bias |-> Stored(Name(at, mod, "bias"), <<"bf16">>),
   clip |-> IF quantized THEN Stored(Name(at, mod, "weight_clip_val"), <<"float32">>) ELSE Nothing,
   scale |-> IF quantized /\ adp8 THEN Stored(Name(at, mod, "act_scale"), <<"float32">>) ELSE Nothing,
   offset |-> IF quantized /\ adp8 THEN Stored(Name(at, mod, "act_bias"), <<"float32">>) ELSE Nothing,
   act |-> IF ~quantized THEN "none" ELSE IF adp8 THEN "adp_8bits" ELSE config.act]

NamesOf(projection) ==
  {projection.weight.of, projection.bias.of, projection.clip.of,
   projection.scale.of, projection.offset.of}

Attribute(at, mod) == [at |-> at, mod |-> mod]

\* The tensor alone: a norm's weight, None if it is not there.
LoadNorm ==
  LET s == Head(plan)
      name == Name(s.at, s.mod, "weight") IN
  /\ Doing("norm") \/ Doing("qk_norm")
  /\ IF name \notin store /\ (s.fn = "norm" \/ config.qkRmsGamma)
     THEN RefuseLoad
     ELSE Set([a \in {Attribute(s.at, s.mod)} |-> Stored(name, <<"bf16">>)], {name})
  /\ UNCHANGED <<asked, config>>

\* The other name of a module in the checkpoint, which only the gate has.
Alias(mod) == IF mod = "self_attn.gate_proj" THEN "self_attn.diff_gate_proj" ELSE mod

\* _load_linear; the width of a gate and the shape of a clip are looked at.
LoadLinear ==
  LET s == Head(plan)
      selected == IF Name(s.at, s.mod, "weight") \in store THEN s.mod ELSE Alias(s.mod)
      p == Projection(s.at, selected, s.quantized, config.act = "adp_8bits") IN
  /\ Doing("linear")
  /\ \E unfit \in MayRaise(IF s.quantized THEN {p.weight.of} ELSE {}) :
       IF \/ p.weight.of \notin store \/ unfit
          \/ Misshapen(p.weight.of) /\ s.mod = "self_attn.gate_proj"
          \/ Misshapen(p.clip.of)
       THEN RefuseLoad
       ELSE Set([a \in {Attribute(s.at, s.mod)} |-> p], NamesOf(p))
  /\ UNCHANGED <<asked, config>>

\* _load_head_linear
LoadHeadLinear ==
  LET s == Head(plan)
      p == Projection(s.at, s.mod, s.quantized, config.act = "adp_8bits") IN
  /\ Doing("head_linear")
  /\ IF p.weight.of \notin store \/ Misshapen(p.weight.of) \/ Misshapen(p.clip.of)
     THEN RefuseLoad
     ELSE Set([a \in {Attribute(s.at, s.mod)} |-> p], NamesOf(p))
  /\ UNCHANGED <<asked, config>>

\* _load_moe: the router, normalised, and the packed experts, which have no
\* bias and quantise their inputs whatever act_quant_method is.
LoadExperts ==
  LET s == Head(plan)
      router == Name(s.at, "mlp.gate", "weight")
      packed(mod) == [Projection(s.at, mod, s.quantized, TRUE) EXCEPT !.bias = Nothing]
      w13 == packed("mlp.w13")
      w2 == packed("mlp.w2") IN
  /\ Doing("experts")
  /\ \E unfit \in MayRaise({router}) :
       IF \/ {router, w13.weight.of, w2.weight.of} \ store # {} \/ unfit
          \/ \E n \in {w13.weight.of, w2.weight.of, w13.clip.of, w2.clip.of} : Misshapen(n)
       THEN RefuseLoad
       ELSE Set([a \in {Attribute(s.at, m) : m \in {"mlp.gate", "mlp.w13", "mlp.w2"}} |->
                   CASE a.mod = "mlp.gate" -> Made(router, <<"float32", "normalised">>)
                     [] a.mod = "mlp.w13" -> w13
                     [] OTHER -> w2],
                {router} \cup NamesOf(w13) \cup NamesOf(w2))
  /\ UNCHANGED <<asked, config>>

\* _blockwise_int8_weight, if wanted; the tensor is in bf16.
Int8(tensor, wanted) ==
  Made(tensor.of, IF wanted THEN Append(tensor.steps, "int8") ELSE tensor.steps)

\* It refuses a block size that validate has not looked at.
NoBlocks(wanted, blockSize) == wanted /\ blockSize <= 0

\* The local embedding_bf16 stays beside the attribute.
LoadEmbedding ==
  LET s == Head(plan)
      name == Name(Top, "tok_embeddings", "weight")
      bf16 == Made(name, <<"bf16">>) IN
  /\ Doing("embedding")
  /\ \E unfit \in MayRaise(IF s.quantized THEN {name} ELSE {}) :
       IF name \notin store \/ NoBlocks(s.quantized, config.embeddingBlock) \/ unfit
       THEN RefuseLoad
       ELSE Set([a \in {Attribute(Top, m) : m \in {"tok_embeddings", "embedding_bf16"}} |->
                   IF a.mod = "tok_embeddings" THEN Int8(bf16, s.quantized) ELSE bf16],
                {name})
  /\ UNCHANGED <<asked, config>>

\* Mutant: the tied head is made of the embedding as the model keeps it.
LoadOutputOfEmbedding ==
  LET s == Head(plan)
      name == Name(Top, "output", "weight")
      source == IF name \in store THEN Made(name, <<"bf16">>)
                ELSE model[Attribute(Top, "tok_embeddings")] IN
  /\ Doing("output")
  /\ \E unfit \in MayRaise(IF s.quantized THEN {source.of} ELSE {}) :
       IF \/ name \notin store /\ ~config.weightTying
          \/ NoBlocks(s.quantized, config.headBlock) \/ unfit
       THEN RefuseLoad
       ELSE Set([a \in {Attribute(Top, m) : m \in {"output", "output_source"}} |->
                   IF a.mod = "output" THEN Int8(source, s.quantized) ELSE source],
                {name})
  /\ UNCHANGED <<asked, config>>

\* A checkpoint without a head may share the embedding.
LoadOutput ==
  LET s == Head(plan)
      name == Name(Top, "output", "weight")
      source == IF name \in store THEN Made(name, <<"bf16">>)
                ELSE model[Attribute(Top, "embedding_bf16")] IN
  /\ Doing("output")
  /\ \E unfit \in MayRaise(IF s.quantized THEN {source.of} ELSE {}) :
       IF \/ name \notin store /\ ~config.weightTying
          \/ NoBlocks(s.quantized, config.headBlock) \/ unfit
       THEN RefuseLoad
       ELSE Set([a \in {Attribute(Top, m) : m \in {"output", "output_source"}} |->
                   IF a.mod = "output" THEN Int8(source, s.quantized) ELSE source],
                {name})
  /\ UNCHANGED <<asked, config>>

\* The MTP tokens are embedded with the head, quantised like the embedding.
LoadMtpEmbedding ==
  LET s == Head(plan)
      source == model[Attribute(Top, "output_source")] IN
  /\ Doing("mtp_embedding")
  /\ \E unfit \in MayRaise(IF s.quantized THEN {source.of} ELSE {}) :
       IF NoBlocks(s.quantized, config.embeddingBlock) \/ unfit
       THEN RefuseLoad
       ELSE Set([a \in {Attribute(Mtp, "embedding")} |-> Int8(source, s.quantized)], {})
  /\ UNCHANGED <<asked, config>>

\* _KVCache makes a tensor: for the cross-decoder or for a pass of a self-decoder layer.
HasCache(c) == c.crossLayers > 0 \/ (c.layers - c.crossLayers) * c.loops > 0

\* The KV cache, whose length validate has not looked at; then the store is cleared.
Finish ==
  /\ Doing("cache")
  /\ IF HasCache(config) /\ config.maxSeqLen < 0
     THEN RefuseLoad
     ELSE /\ model' = [a \in DOMAIN model \cup
                            IF config.crossLayers > 0 THEN {Attribute(Top, "cache.yoco")} ELSE {} |->
                        IF a \in DOMAIN model THEN model[a] ELSE Nothing]
          /\ loading' = "loaded" /\ store' = {} /\ plan' = <<>>
  /\ UNCHANGED <<asked, config>>

LoadNext ==
  \/ LoadArgs \/ LoadState
  \/ LoadEmbedding \/ LoadNorm \/ LoadLinear \/ LoadHeadLinear \/ LoadExperts
  \/ LoadOutput \/ LoadMtpEmbedding \/ Finish

LoadSpec == LoadInit /\ [][LoadNext]_loadVars

-----------------------------------------------------------------------------
(* What the calls of a loaded model dereference. *)

\* _Attention.__call__
AttentionUses(c, at, isSelf) ==
  {Attribute(at, m) : m \in {"self_attn.q_proj", "self_attn.o_proj"}
     \cup (IF isSelf THEN {"self_attn.k_proj", "self_attn.v_proj"} ELSE {})
     \cup (IF c.qkRmsClip \/ (c.qkNorm /\ isSelf) THEN {"self_attn.q_norm"} ELSE {})
     \cup (IF (c.qkRmsClip \/ c.qkNorm) /\ isSelf THEN {"self_attn.k_norm"} ELSE {})
     \cup (IF Gated(c) THEN {"self_attn.gate_proj"} ELSE {})}

\* _FeedForward.__call__ and _MoE.__call__
MlpUses(c, at) ==
  {Attribute(at, m) : m \in
     IF ~c.moe \/ at < c.denseLayers THEN {"mlp.up_proj", "mlp.gate_proj", "mlp.down_proj"}
     ELSE {"mlp.gate", "mlp.w13", "mlp.w2"}
          \cup (IF c.latentDim > 0 THEN {"mlp.fc1_latent_proj", "mlp.fc2_latent_proj"} ELSE {})
          \cup (IF c.latentDim > 0 /\ c.latentNorm
                THEN {"mlp.fc1_latent_norm", "mlp.fc2_latent_norm"} ELSE {})
          \cup (IF c.sharedDim > 0
                THEN {"mlp.shared.up_proj", "mlp.shared.gate_proj", "mlp.shared.down_proj",
                      "mlp.shared_gate"}
                ELSE {})}

\* _MTPBlock.__call__, _embed_mtp and _run_mtp
MtpUses(c) ==
  {Attribute(Mtp, m) : m \in {"embedding", "embedding_norm", "hidden_norm", "proj",
     "input_norm", "post_attn_norm", "ffn.up_proj", "ffn.gate_proj", "ffn.down_proj"}}
  \cup AttentionUses(c, Mtp, FALSE)
  \cup {Attribute(Top, "mtp_norm"), Attribute(Top, "cache.yoco")}

\* _forward_tokens and the embedding projections
Uses(c) ==
  {Attribute(Top, m) : m \in {"tok_embeddings", "norm", "output"}
     \cup (IF c.embproj THEN {"emb_proj_in", "emb_proj_out"} ELSE {})
     \cup (IF c.crossLayers > 0 THEN {"yoco_norm", "k_proj", "v_proj", "cache.yoco"} ELSE {})
     \cup (IF c.crossLayers > 0 /\ c.qkRmsClip THEN {"k_norm"} ELSE {})
     \cup (IF c.embproj /\ c.embProjNorm THEN {"emb_in_norm", "emb_out_norm"} ELSE {})}
  \cup (UNION {AttentionUses(c, l, l < c.layers - c.crossLayers) \cup MlpUses(c, l)
               \cup {Attribute(l, "input_layernorm"), Attribute(l, "post_attention_layernorm")} :
               l \in 0 .. c.layers - 1})
  \cup (IF c.mtpN > 0 THEN MtpUses(c) ELSE {})

-----------------------------------------------------------------------------
(* Properties. *)

\* The attributes that are not read from the checkpoint.
Computed == {Attribute(Top, "cache.yoco"), Attribute(Mtp, "embedding")}

\* What may be absent: norms without a gain, and a head that is tied.
MayLack(c, a) ==
  \/ a.mod \in {"self_attn.q_norm", "self_attn.k_norm", "k_norm"} /\ ~c.qkRmsGamma
  \/ a = Attribute(Top, "output") /\ c.weightTying

Lacking(c) ==
  {a \in Uses(c) \ Computed :
     /\ ~MayLack(c, a)
     /\ \A m \in {a.mod, Alias(a.mod)} : Name(a.at, m, "weight") \notin asked.tensors}

\* The sizes that validate lets pass and no tensor can have.
BadSizes(c) ==
  \/ c.int8Embedding /\ c.embeddingBlock <= 0
  \/ c.int8Head /\ c.headBlock <= 0
  \/ HasCache(c) /\ c.maxSeqLen < 0

\* A load gives everything the calls of the model will dereference, so that no
\* assertion of the forward pass can fail for a tensor, whatever configuration,
\* overrides and checkpoint meet; and it refuses only what lacks a tensor that
\* is used, has a wrong shape, asks for blocks or a cache of no size, or is not a
\* configuration (an unreadable file, a device and its memory apart).
LoadedIsComplete ==
  /\ loading = "loaded" =>
       /\ Uses(config) \subseteq DOMAIN model
       /\ Lacking(config) = {}
  /\ loading = "refused" =>
       \/ ~Valid(asked.config) \/ ~Valid(config)
       \/ \A n \in asked.tensors : n.at # 0
       \/ Lacking(config) # {}
       \/ asked.misshapen # {}
       \/ BadSizes(config)

Projections == {a \in DOMAIN model : "weight" \in DOMAIN model[a]}

\* Projection p of attribute a has all its parts from under one name, any of
\* them that is there, and its weight is quantised at most once.
MadeOnce(a, p) ==
  LET prefix(part) == Name(a.at, p.weight.of.mod, part) IN
  /\ p.weight.of.at = a.at
  /\ NamesOf(p) \subseteq
       {prefix(part) : part \in {"weight", "bias", "weight_clip_val", "act_scale", "act_bias"}}
       \cup {Nothing.of}
  /\ p.act # "none" /\ prefix("weight_clip_val") \in asked.tensors =>
       p.clip.of = prefix("weight_clip_val")
  /\ p.act = "adp_8bits" /\ prefix("act_scale") \in asked.tensors =>
       p.scale.of = prefix("act_scale")
  /\ p.clip.of \notin asked.misshapen
  /\ p.weight.steps = IF p.act = "none" THEN <<"bf16">> ELSE <<"bf16", "ternary">>

\* Every attribute of a loaded model is made of its own tensors, and once: no
\* weight serves two projections, shapes that are looked at are right, and the
\* embeddings and the head are quantised from the stored values, the tied head
\* and the MTP embedding included (they share the embedding, not its int8 form).
ProvenanceSound ==
  loading = "loaded" =>
    /\ \A a \in Projections : MadeOnce(a, model[a])
    /\ \A a, b \in Projections : a # b => model[a].weight.of # model[b].weight.of
    /\ LET embedding == model[Attribute(Top, "tok_embeddings")]
           head == model[Attribute(Top, "output")]
           bf16(int8) == <<"bf16">> \o IF int8 THEN <<"int8">> ELSE <<>> IN
       /\ embedding.steps = bf16(config.int8Embedding)
       /\ head.steps = bf16(config.int8Head)
       /\ head.of \in {Name(Top, "output", "weight"), embedding.of}
       /\ config.mtpN > 0 =>
            model[Attribute(Mtp, "embedding")] = Made(head.of, bf16(config.int8Embedding))
=============================================================================
