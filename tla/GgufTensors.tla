----------------------------- MODULE GgufTensors -----------------------------
(***************************************************************************)
(* What the scripts of generate_model_script/ put into an F16 GGUF file:   *)
(* the metadata, the tensors they register in their first pass and the     *)
(* tensors they write in the second.  There is one script per family; all  *)
(* follow the MoE script, and a definition is given once where they agree. *)
(*                                                                         *)
(* The values of the tensors are random and left out.  Sizes are counted   *)
(* in units of 256 elements and of 512 bytes, which all of them are        *)
(* multiples of, so that no total leaves 32 bits; the padding to GGUF's    *)
(* alignment is then always empty.                                         *)
(***************************************************************************)
EXTENDS Integers, Sequences, SequencesExt

CONSTANT TokenizerVocab  \* tokenizer.vocab_size() of the downloaded model

Unit == 256

-----------------------------------------------------------------------------
(* The configurations. *)

Moe30B ==
  [hidden |-> 3072, intermediate |-> 9216, self |-> 10, cross |-> 10, iters |-> 1,
   heads |-> 32, crossHeads |-> 32, kvHeads |-> 8, crossKvHeads |-> 8, headDim |-> 128,
   vocab |-> 154880, embproj |-> TRUE,
   moe |-> TRUE, moeFfn |-> 1280, experts |-> 128, topK |-> 8, shared |-> 1280,
   latent |-> 0, latentNorm |-> FALSE]

\* The self-decoder is stored once and run three times.
UMoe30B == [Moe30B EXCEPT !.iters = 3]

Dense3B9216 == [Moe30B EXCEPT !.moe = FALSE]

Dense3B11520 == [Dense3B9216 EXCEPT !.intermediate = 11520]

UDense6B9216 == [Dense3B9216 EXCEPT !.iters = 3]

UDense6B11520 == [UDense6B9216 EXCEPT !.intermediate = 11520]

Config ==
  [moe_30b |-> Moe30B, u_moe_30b |-> UMoe30B,
   dense_3b_9216 |-> Dense3B9216, dense_3b_11520 |-> Dense3B11520,
   u_dense_6b_9216 |-> UDense6B9216, u_dense_6b_11520 |-> UDense6B11520]

Families == DOMAIN Config

-----------------------------------------------------------------------------
(* The templates: suffixes and shapes. *)

Tensor(part, shape) == [part |-> part, kind |-> "weight", shape |-> shape]

\* The scale and the bias of an activation quantiser.
Acts(part, shape) ==
  << [part |-> part, kind |-> "act_scale", shape |-> shape],
     [part |-> part, kind |-> "act_bias", shape |-> shape] >>

SelfAttnTensors(c) ==
  LET q == 2 * c.heads * c.headDim
      kv == c.kvHeads * c.headDim
      o == c.heads * c.headDim IN
  << Tensor("attn_norm", <<c.hidden>>),
     Tensor("attn_q", <<q, c.hidden>>),
     Tensor("attn_k", <<kv, c.hidden>>),
     Tensor("attn_v", <<kv, c.hidden>>),
     Tensor("attn_output", <<c.hidden, o>>),
     Tensor("attn_gate", <<2 * c.heads, c.hidden>>),
     Tensor("attn_q_norm", <<q>>),
     Tensor("attn_k_norm", <<kv>>) >>
  \o Acts("attn_q", <<c.hidden>>) \o Acts("attn_k", <<c.hidden>>)
  \o Acts("attn_v", <<c.hidden>>) \o Acts("attn_out", <<o>>)
  \o Acts("attn_gate", <<c.hidden>>)
  \o << Tensor("ffn_norm", <<c.hidden>>) >>

CrossAttnTensors(c) ==
  LET q == 2 * c.crossHeads * c.headDim
      o == c.crossHeads * c.headDim IN
  << Tensor("attn_norm", <<c.hidden>>),
     Tensor("attn_q", <<q, c.hidden>>),
     Tensor("attn_output", <<c.hidden, o>>),
     Tensor("attn_gate", <<2 * c.crossHeads, c.hidden>>),
     Tensor("attn_q_norm", <<q>>) >>
  \o Acts("attn_q", <<c.hidden>>) \o Acts("attn_out", <<o>>)
  \o Acts("attn_gate", <<c.hidden>>)
  \o << Tensor("ffn_norm", <<c.hidden>>) >>

MoeTensors(c) ==
  LET d == IF c.latent > 0 THEN c.latent ELSE c.hidden IN
  << Tensor("ffn_gate_inp", <<c.experts, c.hidden>>),
     Tensor("ffn_gate_up_exps", <<c.experts, 2 * c.moeFfn, d>>),
     Tensor("ffn_down_exps", <<c.experts, d, c.moeFfn>>) >>
  \o Acts("ffn_gate_up_exps", <<c.experts, d>>)
  \o Acts("ffn_down_exps", <<c.experts, c.moeFfn>>)
  \o (IF c.latent = 0 THEN <<>> ELSE
        << Tensor("ffn_latent_down", <<c.latent, c.hidden>>),
           Tensor("ffn_latent_up", <<c.hidden, c.latent>>) >>
        \o IF ~c.latentNorm THEN <<>> ELSE
             << Tensor("ffn_latent_down_norm", <<c.latent>>),
                Tensor("ffn_latent_up_norm", <<c.latent>>) >>)
  \o (IF c.shared = 0 THEN <<>> ELSE
        << Tensor("ffn_gate_shexp", <<c.shared, c.hidden>>),
           Tensor("ffn_up_shexp", <<c.shared, c.hidden>>),
           Tensor("ffn_down_shexp", <<c.hidden, c.shared>>),
           Tensor("ffn_gate_inp_shexp", <<1, c.hidden>>) >>
        \o Acts("ffn_shexp_gate_up", <<c.hidden>>)
        \o Acts("ffn_shexp_down", <<c.shared>>))

DenseFfnTensors(c) ==
  << Tensor("ffn_gate", <<c.intermediate, c.hidden>>),
     Tensor("ffn_up", <<c.intermediate, c.hidden>>),
     Tensor("ffn_down", <<c.hidden, c.intermediate>>) >>
  \o Acts("ffn_gate_up", <<c.hidden>>) \o Acts("ffn_down", <<c.intermediate>>)

FfnTensors(c) == IF c.moe THEN MoeTensors(c) ELSE DenseFfnTensors(c)

SharedCrossKV(c) ==
  LET kv == c.crossKvHeads * c.headDim IN
  << Tensor("yoco_cross_kv_norm", <<c.hidden>>),
     Tensor("yoco_cross_k", <<kv, c.hidden>>),
     Tensor("yoco_cross_v", <<kv, c.hidden>>),
     Tensor("yoco_cross_k_norm", <<kv>>) >>

EmbprojTensors(c) ==
  << Tensor("emb_proj_in", <<c.hidden, c.hidden>>),
     Tensor("emb_proj_out", <<c.hidden, c.hidden>>),
     Tensor("emb_in_norm", <<c.hidden>>),
     Tensor("emb_out_norm", <<c.hidden>>) >>

-----------------------------------------------------------------------------
(* Sizes. *)

\* int(np.prod(shape))
Elements(shape) ==
  LET product[k \in 0 .. Len(shape)] == IF k = 0 THEN 1 ELSE product[k - 1] * shape[k]
  IN product[Len(shape)]

Units(shape) == Elements(shape) \div Unit

Bytes(shape, dtype) == Units(shape) * IF dtype = "F32" THEN 2 ELSE 1

\* Nothing is lost by counting in units.
ASSUME WholeUnits ==
  \A f \in Families : LET c == Config[f] IN
    \A t \in ToSet(SelfAttnTensors(c) \o CrossAttnTensors(c) \o FfnTensors(c)
                   \o SharedCrossKV(c) \o EmbprojTensors(c)) :
      Elements(t.shape) % Unit = 0

CountParams(ts) == SumFunction([k \in DOMAIN ts |-> Units(ts[k].shape)])

\* total_params, unique_params of main.
TotalParams(c) ==
  (CountParams(SelfAttnTensors(c)) + CountParams(FfnTensors(c))) * c.self
  + (CountParams(CrossAttnTensors(c)) + CountParams(FfnTensors(c))) * c.cross
  + CountParams(SharedCrossKV(c))
  + (IF c.embproj THEN CountParams(EmbprojTensors(c)) ELSE 0)
  + Units(<<c.vocab, c.hidden>>) + Units(<<c.hidden>>)

-----------------------------------------------------------------------------
(* The two passes. *)

NoBlk == -1

\* The tensors ts named blk.i.*, or without a block.
At(i, ts) ==
  [k \in DOMAIN ts |->
     [blk |-> i, part |-> ts[k].part, kind |-> ts[k].kind, shape |-> ts[k].shape]]

\* _iter_all_tensor_names_and_shapes
AllTensors(c) ==
  At(NoBlk, <<Tensor("token_embd", <<c.vocab, c.hidden>>)>>)
  \o FlattenSeq([l \in 1 .. c.self |->
       At(l - 1, SelfAttnTensors(c)) \o At(l - 1, FfnTensors(c))])
  \o FlattenSeq([l \in 1 .. c.cross |->
       At(c.self + l - 1, CrossAttnTensors(c)) \o At(c.self + l - 1, FfnTensors(c))])
  \o At(NoBlk, SharedCrossKV(c))
  \o (IF c.embproj THEN At(NoBlk, EmbprojTensors(c)) ELSE <<>>)
  \o At(NoBlk, <<Tensor("output_norm", <<c.hidden>>)>>)

Stored(t, dtype) ==
  [blk |-> t.blk, part |-> t.part, kind |-> t.kind, shape |-> t.shape,
   dtype |-> dtype, nbytes |-> Bytes(t.shape, dtype)]

\* Mutant: the quantiser scales are registered like any other tensor.
RegisteredInHalf(c) ==
  LET ts == AllTensors(c) IN [k \in DOMAIN ts |-> Stored(ts[k], "F16")]

\* _add_all_tensor_info: the scales and biases are F32, the rest F16.
Registered(c) ==
  LET ts == AllTensors(c) IN
  [k \in DOMAIN ts |->
     Stored(ts[k], IF ts[k].kind \in {"act_scale", "act_bias"} THEN "F32" ELSE "F16")]

\* _finalize(_make_tensor(shape)): whatever the name says.
Plain(i, ts) ==
  LET placed == At(i, ts) IN [k \in DOMAIN placed |-> Stored(placed[k], "F16")]

\* _make_and_finalize(shape, suffix): ones and zeros stay F32.
Finalised(i, ts) ==
  LET placed == At(i, ts) IN
  [k \in DOMAIN placed |->
     Stored(placed[k], IF placed[k].kind = "weight" THEN "F16" ELSE "F32")]

\* _write_all_tensor_data
Written(c) ==
  Plain(NoBlk, <<Tensor("token_embd", <<c.vocab, c.hidden>>)>>)
  \o FlattenSeq([l \in 1 .. c.self |->
       Finalised(l - 1, SelfAttnTensors(c)) \o Finalised(l - 1, FfnTensors(c))])
  \o FlattenSeq([l \in 1 .. c.cross |->
       Finalised(c.self + l - 1, CrossAttnTensors(c))
       \o Finalised(c.self + l - 1, FfnTensors(c))])
  \o Plain(NoBlk, SharedCrossKV(c))
  \o (IF c.embproj THEN Plain(NoBlk, EmbprojTensors(c)) ELSE <<>>)
  \o Plain(NoBlk, <<Tensor("output_norm", <<c.hidden>>)>>)

-----------------------------------------------------------------------------
(* The metadata. *)

\* add_vocab: padding tokens up to the rows of the embedding; a longer
\* tokenizer is not cut.
VocabTokens(c) == IF TokenizerVocab < c.vocab THEN c.vocab ELSE TokenizerVocab

\* Mutant: the blocks are those of the unrolled self-decoder.
MetadataUnrolled(c) ==
  [block_count |-> c.self * c.iters + c.cross,
   embedding_length |-> c.hidden,
   feed_forward_length |-> c.intermediate,
   head_count |-> [i \in 1 .. c.self * c.iters + c.cross |->
                     2 * IF i <= c.self * c.iters THEN c.heads ELSE c.crossHeads],
   head_count_kv |-> [i \in 1 .. c.self * c.iters + c.cross |->
                     IF i <= c.self * c.iters THEN c.kvHeads ELSE c.crossKvHeads],
   key_length |-> c.headDim,
   vocab_size |-> c.vocab,
   tokens |-> VocabTokens(c),
   yoco_u_iters |-> c.iters,
   experts |-> IF c.moe THEN c.experts ELSE 0,
   experts_used |-> IF c.moe THEN c.topK ELSE 0,
   swiglu_clamp |-> [i \in 1 .. c.self * c.iters + c.cross |-> 10]]

\* add_model_params
Metadata(c) ==
  [block_count |-> c.self + c.cross,
   embedding_length |-> c.hidden,
   feed_forward_length |-> c.intermediate,
   head_count |-> [i \in 1 .. c.self + c.cross |->
                     2 * IF i <= c.self THEN c.heads ELSE c.crossHeads],
   head_count_kv |-> [i \in 1 .. c.self + c.cross |->
                     IF i <= c.self THEN c.kvHeads ELSE c.crossKvHeads],
   key_length |-> c.headDim,
   vocab_size |-> c.vocab,
   tokens |-> VocabTokens(c),
   yoco_u_iters |-> c.iters,  \* written by the two-level families only
   experts |-> IF c.moe THEN c.experts ELSE 0,
   experts_used |-> IF c.moe THEN c.topK ELSE 0,
   swiglu_clamp |-> [i \in 1 .. c.self + c.cross |-> 10]]

-----------------------------------------------------------------------------
(* The two sequences of each script; as records, so that TLC computes them once. *)

UMoe30BRegistered == Registered(UMoe30B)
Dense3B9216Registered == Registered(Dense3B9216)
Dense3B11520Registered == Registered(Dense3B11520)
UDense6B9216Registered == Registered(UDense6B9216)
UDense6B11520Registered == Registered(UDense6B11520)

RegisteredOf ==
  [moe_30b |-> Registered(Moe30B),
   u_moe_30b |-> UMoe30BRegistered,
   dense_3b_9216 |-> Dense3B9216Registered,
   dense_3b_11520 |-> Dense3B11520Registered,
   u_dense_6b_9216 |-> UDense6B9216Registered,
   u_dense_6b_11520 |-> UDense6B11520Registered]

UMoe30BWritten == Written(UMoe30B)
Dense3B9216Written == Written(Dense3B9216)
Dense3B11520Written == Written(Dense3B11520)
UDense6B9216Written == Written(UDense6B9216)
UDense6B11520Written == Written(UDense6B11520)

WrittenOf ==
  [moe_30b |-> Written(Moe30B),
   u_moe_30b |-> UMoe30BWritten,
   dense_3b_9216 |-> Dense3B9216Written,
   dense_3b_11520 |-> Dense3B11520Written,
   u_dense_6b_9216 |-> UDense6B9216Written,
   u_dense_6b_11520 |-> UDense6B11520Written]
=============================================================================
