----------------------------- MODULE MCInference -----------------------------
(***************************************************************************)
(* Configurations, overrides and checkpoints to load, valid and not, and   *)
(* the first of them small enough to serve.                                *)
(***************************************************************************)
EXTENDS Service, TLC

TokenSymmetry == Permutations(Tokens)

\* YOCO-MoE-30B-A3B-v3, with two layers and with MTP.
V3 ==
  [dModel |-> 3072, embeddingDim |-> 3072, head |-> 32, crossHead |-> 32, kvHead |-> 8,
   crossKvHead |-> 8, headDim |-> 128, layers |-> SelfLayers + CrossLayers,
   crossLayers |-> CrossLayers, mtpN |-> MtpN, denseLayers |-> 0, moe |-> TRUE,
   experts |-> 128, topK |-> 8, sharedDim |-> 1280, latentDim |-> 0, latentNorm |-> FALSE,
   expertBit |-> TRUE, grouped |-> TRUE, ternary |-> TRUE, act |-> "adp_8bits",
   bitLinear |-> AllTargets, attnLevel |-> 0, ffnLevel |-> 0,
   diffV2 |-> FALSE, diffV3 |-> TRUE, headwiseGlu |-> FALSE,
   qkNorm |-> FALSE, qkRmsClip |-> TRUE, qkRmsGamma |-> TRUE, weightTying |-> TRUE,
   embproj |-> TRUE, embProjNorm |-> TRUE, int8Embedding |-> TRUE, int8Head |-> TRUE,
   embeddingBlock |-> 128, headBlock |-> 128, maxSeqLen |-> MaxSeqLen, loops |-> Loops]

\* YOCO-MoE-30B-A3B-L3, with a dense first layer.
L3 ==
  [V3 EXCEPT !.mtpN = 0, !.denseLayers = 1, !.latentDim = 1024, !.latentNorm = TRUE,
             !.expertBit = FALSE, !.act = "per-token", !.bitLinear = {"off"},
             !.weightTying = FALSE, !.embproj = FALSE, !.embProjNorm = FALSE,
             !.int8Embedding = FALSE, !.int8Head = FALSE]

\* No cross-decoder, no experts, the older options.
Plain ==
  [L3 EXCEPT !.crossLayers = 0, !.moe = FALSE, !.diffV3 = FALSE, !.qkRmsClip = FALSE,
             !.qkNorm = TRUE, !.qkRmsGamma = FALSE, !.attnLevel = 3, !.ffnLevel = 1,
             !.int8Head = TRUE]

\* A configuration that names a target it does not have, and one whose heads
\* cannot share the keys.
Ungated == [Plain EXCEPT !.bitLinear = {"attn_gate"}]
Uneven == [V3 EXCEPT !.crossKvHead = 5]

\* Sizes that validate does not look at.
Unsized ==
  {[V3 EXCEPT !.embeddingBlock = 0], [V3 EXCEPT !.headBlock = -1], [Plain EXCEPT !.maxSeqLen = -1],
   [Plain EXCEPT !.maxSeqLen = -1, !.loops = 0]}

MCOverrides ==
  {<<>>, [quantMoe |-> TRUE], [quantMoe |-> FALSE, int8Embedding |-> FALSE],
   [mtpN |-> 1], [mtpN |-> 0, int8Head |-> FALSE]}

\* The weights of a configuration, under the first or the other alias.
Weights(c, alias) ==
  {Name(a.at, IF a.mod = "self_attn.gate_proj" THEN alias ELSE a.mod, "weight") :
     a \in Uses(c) \ Computed}

Optional(c, alias) ==
  {Name(n.at, n.mod, part) : n \in Weights(c, alias),
     part \in {"bias", "weight_clip_val", "act_scale", "act_bias"}}

\* Checkpoints: the weights alone, everything, with what the overrides ask for,
\* the other name of the gate, both names, one tensor missing (the head, say),
\* one with a wrong shape; and the sizes.
MCRequests ==
  UNION {{[config |-> c, overrides |-> o, misshapen |-> {},
           tensors |-> Weights(Overridden(c, o), "self_attn.gate_proj")] : o \in MCOverrides} :
         c \in Unsized}
  \cup
  UNION {LET W == Weights(c, "self_attn.gate_proj")
             D == Weights(c, "self_attn.diff_gate_proj")
             V == Weights(Overridden(c, o), "self_attn.gate_proj")
             O == Optional(c, "self_attn.gate_proj")
             P == Optional(c, "self_attn.diff_gate_proj")
             asks(T, bad) == [config |-> c, overrides |-> o, tensors |-> T, misshapen |-> bad]
         IN {asks(T, {}) : T \in {W, W \cup O, W \cup V, D \cup P, W \cup D \cup P, {}}}
            \cup {asks((W \cup O) \ {n}, {}) : n \in W}
            \cup {asks(W \cup O, {n}) : n \in {m \in W \cup O :
                                              m.part \in {"weight", "weight_clip_val"}}} :
         c \in {V3, L3, Plain, Ungated, Uneven}, o \in MCOverrides}
=============================================================================
