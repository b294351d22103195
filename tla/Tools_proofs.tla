---------------------------- MODULE Tools_proofs ----------------------------
(***************************************************************************)
(* The programs beside the benchmark and the model: the generator scripts, *)
(* the precision verification and the quantiser, each by itself.           *)
(***************************************************************************)
EXTENDS Generator, Verification, Ternary, FoldTheorems, FiniteSetTheorems, TLAPS

-----------------------------------------------------------------------------
(* A generator script that ends with 0 leaves the pair it reports, for any *)
(* number of runs, whatever the tensors are.                               *)

\* What the stages of a run have already seen to: the F16 file that is being
\* written is this run's, behind it that file is complete unless it is reused,
\* and behind llama-quantize the I2_S file is made from it.
PairInv ==
  /\ pc = "write" => f16 = [by |-> run, complete |-> FALSE, of |-> run] /\ ~skip.f16
  /\ pc \in {"i2s", "quantize", "report"} /\ ~skip.f16 => f16.complete /\ f16.by = run
  /\ pc = "quantize" => ~skip.i2s
  /\ pc = "report" /\ ~skip.i2s => i2s = [by |-> run, complete |-> TRUE, of |-> f16.by]
  /\ PairMatches

LEMMA PairInvInit == GenInit => PairInv
BY DEF GenInit, PairInv, PairMatches

LEMMA PairInvNext == PairInv /\ [GenNext]_genVars => PairInv'
<1> SUFFICES ASSUME PairInv, [GenNext]_genVars PROVE PairInv'
  OBVIOUS
<1> USE DEF PairInv, PairMatches, Goto, Exit, files, writing
<1>1. ASSUME NEW f \in Families, NEW s \in [f16 : BOOLEAN, i2s : BOOLEAN], Start(f, s)
      PROVE  PairInv'
  BY <1>1 DEF Start
<1>2. CASE CreateModelDir
  BY <1>2 DEF CreateModelDir
<1>3. CASE ReuseF16
  <2>1. pc' \in {"i2s", "exited"} /\ (pc' = "exited" => exit' = 1) /\ skip'.f16
    BY <1>3 DEF ReuseF16
  <2> QED BY <2>1
<1>4. CASE OpenF16
  BY <1>4 DEF OpenF16
<1>5. CASE WriteTensor
  BY <1>5 DEF WriteTensor
<1>6. CASE CloseF16
  <2>1. f16' = [by |-> run, complete |-> TRUE, of |-> run]
    <3>1. f16 = [by |-> run, complete |-> FALSE, of |-> run]
      BY <1>6 DEF CloseF16
    <3>2. f16' = [f16 EXCEPT !.complete = TRUE]
      BY <1>6 DEF CloseF16
    <3> HIDE DEF PairInv, PairMatches
    <3> QED BY <3>1, <3>2
  <2>2. pc' = "i2s" /\ run' = run /\ skip' = skip
    BY <1>6 DEF CloseF16
  <2> QED BY <2>1, <2>2
<1>7. CASE StartQuantize
  <2>1. pc = "i2s" /\ UNCHANGED <<skip, run, f16, i2s>>
    BY <1>7 DEF StartQuantize
  <2>2. \/ skip.i2s /\ pc' = "report"
        \/ ~skip.i2s /\ pc' = "quantize"
    BY <1>7 DEF StartQuantize
  <2> QED BY <2>1, <2>2
<1>8. CASE Quantize
  <2>1. pc = "quantize" /\ UNCHANGED <<skip, run, f16>>
    BY <1>8 DEF Quantize
  <2>2. \/ i2s' = [by |-> run, complete |-> TRUE, of |-> f16.by] /\ pc' = "report"
        \/ pc' = "exited" /\ exit' = 1
    BY <1>8 DEF Quantize
  <2> QED BY <2>1, <2>2
<1>9. CASE Report
  <2>1. pc = "report" /\ pc' = "exited" /\ UNCHANGED <<skip, run, f16, i2s>>
    BY <1>9 DEF Report
  <2> QED BY <2>1
<1>10. CASE Abort
  <2>1. pc' = "exited" /\ exit' = 1
    BY <1>10 DEF Abort
  <2> QED BY <2>1
<1>11. CASE UNCHANGED genVars
  BY <1>11 DEF genVars
<1> QED BY <1>1, <1>2, <1>3, <1>4, <1>5, <1>6, <1>7, <1>8, <1>9, <1>10, <1>11 DEF GenNext

\* Exit status 0 of a generator means the pair of files it names, in whatever
\* state earlier runs, failures and kills have left the output directory.
THEOREM PairIsMade == GenSpec => []PairMatches
<1>1. PairInv => PairMatches
  BY DEF PairInv
<1> QED BY <1>1, PairInvInit, PairInvNext, PTL DEF GenSpec

-----------------------------------------------------------------------------
(* What the two passes of a generator make of a configuration, for every   *)
(* configuration: any sizes, any number of layers and experts.             *)

Configurations ==
  [hidden : Nat, intermediate : Nat, self : Nat, cross : Nat, iters : Nat,
   heads : Nat, crossHeads : Nat, kvHeads : Nat, crossKvHeads : Nat, headDim : Nat,
   vocab : Nat, embproj : BOOLEAN,
   moe : BOOLEAN, moeFfn : Nat, experts : Nat, topK : Nat, shared : Nat,
   latent : Nat, latentNorm : BOOLEAN]

Kinds == {"weight", "act_scale", "act_bias"}

LayerParts ==
  {"attn_norm", "attn_q", "attn_k", "attn_v", "attn_output", "attn_out", "attn_gate",
   "attn_q_norm", "attn_k_norm", "ffn_norm",
   "ffn_gate_inp", "ffn_gate_up_exps", "ffn_down_exps", "ffn_latent_down", "ffn_latent_up",
   "ffn_latent_down_norm", "ffn_latent_up_norm", "ffn_gate_shexp", "ffn_up_shexp",
   "ffn_down_shexp", "ffn_gate_inp_shexp", "ffn_shexp_gate_up", "ffn_shexp_down",
   "ffn_gate", "ffn_up", "ffn_down", "ffn_gate_up"}

ModelParts ==
  {"token_embd", "output_norm",
   "yoco_cross_kv_norm", "yoco_cross_k", "yoco_cross_v", "yoco_cross_k_norm",
   "emb_proj_in", "emb_proj_out", "emb_in_norm", "emb_out_norm"}

Parts == LayerParts \cup ModelParts

Templates == [part : Parts, kind : Kinds, shape : Seq(Nat)]

Placed == [blk : Int, part : Parts, kind : Kinds, shape : Seq(Nat)]

\* The scripts' configurations are such.
LEMMA ConfigTyped == \A f \in Families : Config[f] \in Configurations
<1>1. Moe30B \in Configurations
  BY DEF Moe30B, Configurations
<1>2. \A c \in Configurations : [c EXCEPT !.iters = 3] \in Configurations
  BY DEF Configurations
<1>3. \A c \in Configurations : [c EXCEPT !.moe = FALSE] \in Configurations
  BY DEF Configurations
<1>4. \A c \in Configurations : [c EXCEPT !.intermediate = 11520] \in Configurations
  BY DEF Configurations
<1>5. UMoe30B \in Configurations /\ Dense3B9216 \in Configurations
  BY <1>1, <1>2, <1>3 DEF UMoe30B, Dense3B9216
<1>6. Dense3B11520 \in Configurations /\ UDense6B9216 \in Configurations
  BY <1>5, <1>2, <1>4 DEF Dense3B11520, UDense6B9216
<1>7. UDense6B11520 \in Configurations
  BY <1>6, <1>4 DEF UDense6B11520
<1> QED BY <1>1, <1>5, <1>6, <1>7 DEF Config, Families

\* g is the table of the products of the first m of shape.
Products(g, shape, m) == g = [k \in 0 .. m |-> IF k = 0 THEN 1 ELSE g[k - 1] * shape[k]]

LEMMA ProductsExist ==
  ASSUME NEW shape, NEW n \in Nat
  PROVE  \E g : Products(g, shape, n)
<1> DEFINE G == {i \in 1 .. n + 1 : \E g : Products(g, shape, i - 1)}
           x == n + 1
<1>1. 1 \in G
  <2> DEFINE g == [k \in 0 .. 0 |-> 1]
  <2>1. Products(g, shape, 0) /\ 1 - 1 = 0 /\ 1 \in 1 .. n + 1
    BY DEF Products
  <2> QED BY <2>1
<1>2. ASSUME NEW i \in 1 .. n, i \in G
      PROVE  i + 1 \in G
  <2>1. PICK g : Products(g, shape, i - 1)
    BY <1>2
  <2> DEFINE h == [k \in 0 .. i |-> IF k = i THEN g[i - 1] * shape[i] ELSE g[k]]
  <2>2. \A k \in 0 .. i - 1 : g[k] = IF k = 0 THEN 1 ELSE g[k - 1] * shape[k]
    BY <2>1, Zenon DEF Products
  <2>3. ASSUME NEW k \in 0 .. i
        PROVE  h[k] = IF k = 0 THEN 1 ELSE h[k - 1] * shape[k]
    <3>1. CASE k = i
      <4>1. h[k] = g[i - 1] * shape[i] /\ h[k - 1] = g[i - 1] /\ k # 0
        BY <3>1
      <4> QED BY <3>1, <4>1
    <3>2. CASE k # i
      <4>1. h[k] = g[k] /\ k \in 0 .. i - 1
        BY <3>2
      <4>2. k # 0 => h[k - 1] = g[k - 1]
        BY <3>2
      <4> QED BY <2>2, <4>1, <4>2
    <3> QED BY <3>1, <3>2
  <2>4. Products(h, shape, i)
    <3>1. h = [k \in 0 .. i |-> h[k]]
      OBVIOUS
    <3> HIDE DEF h
    <3>2. [k \in 0 .. i |-> h[k]] = [k \in 0 .. i |-> IF k = 0 THEN 1 ELSE h[k - 1] * shape[k]]
      BY <2>3
    <3> QED BY <3>1, <3>2 DEF Products
  <2> HIDE DEF h
  <2>5. i + 1 \in 1 .. n + 1 /\ i + 1 - 1 = i
    OBVIOUS
  <2> QED BY <2>4, <2>5
<1>3. x \in Nat /\ x \in 1 .. x /\ x - 1 = n
  OBVIOUS
<1>4. \A i \in G : \E g : Products(g, shape, i - 1)
  OBVIOUS
<1> HIDE DEF G
<1>5. \A i \in 1 .. x - 1 : i \in G => i + 1 \in G
  BY <1>2, <1>3
<1> HIDE DEF x
<1>6. \A i \in 1 .. x : i \in G
  BY ONLY <1>1, <1>3, <1>5, CountUp
<1>7. x \in G
  BY <1>3, <1>6
<1> QED BY ONLY <1>3, <1>4, <1>7

\* The number of elements is one.
LEMMA ElementsIsNat ==
  ASSUME NEW shape \in Seq(Nat)
  PROVE  Elements(shape) \in Nat
<1>1. Len(shape) \in Nat /\ \A k \in 1 .. Len(shape) : shape[k] \in Nat
  OBVIOUS
<1>2. \E g : Products(g, shape, Len(shape))
  BY <1>1, ProductsExist
<1>3. PICK g : Products(g, shape, Len(shape)) /\ Elements(shape) = g[Len(shape)]
  BY <1>2, Zenon DEF Elements, Products
<1> DEFINE n == Len(shape)
           x == n + 1
           G == {i \in 1 .. x : g[i - 1] \in Nat}
<1>4. \A k \in 0 .. n : g[k] = IF k = 0 THEN 1 ELSE g[k - 1] * shape[k]
  BY <1>3, Zenon DEF Products
<1>5. 1 \in G
  <2>1. 1 - 1 = 0 /\ 0 \in 0 .. n /\ 1 \in 1 .. x
    BY <1>1
  <2>2. g[0] = 1
    BY <1>4, <2>1
  <2> QED BY <2>1, <2>2
<1>6. ASSUME NEW i \in 1 .. n, i \in G
      PROVE  i + 1 \in G
  <2>1. i \in 0 .. n /\ i # 0 /\ i + 1 - 1 = i /\ i + 1 \in 1 .. x /\ shape[i] \in Nat
    BY <1>1
  <2>2. g[i] = g[i - 1] * shape[i] /\ g[i - 1] \in Nat
    BY <1>4, <1>6, <2>1
  <2>3. g[i] \in Nat
    BY <2>1, <2>2
  <2> QED BY <2>1, <2>3
<1>7. x \in Nat /\ x \in 1 .. x /\ x - 1 = n
  BY <1>1
<1>8. \A i \in G : g[i - 1] \in Nat
  OBVIOUS
<1> HIDE DEF G, n
<1>9. \A i \in 1 .. x - 1 : i \in G => i + 1 \in G
  BY <1>6, <1>7
<1> HIDE DEF x
<1>10. \A i \in 1 .. x : i \in G
  BY ONLY <1>5, <1>7, <1>9, CountUp
<1>11. g[n] \in Nat
  <2>1. x \in G
    BY <1>7, <1>10
  <2> QED BY ONLY <1>7, <1>8, <2>1
<1> QED BY <1>3, <1>11 DEF n

\* What holds of the tensors of a layer with so many heads, whatever they are ...
LayerTemplates(c, heads, kvHeads) ==
  {t \in Templates :
     /\ t.part \in LayerParts
     /\ t.part = "attn_q" /\ t.kind = "weight" => t.shape[1] = 2 * heads * c.headDim
     /\ t.part = "attn_output" => t.shape[2] = heads * c.headDim
     /\ t.part = "attn_k" /\ t.kind = "weight" => t.shape[1] = kvHeads * c.headDim
     /\ t.part = "ffn_gate_inp" => c.moe /\ t.shape[1] = c.experts}

\* ... and of those outside the layers.
ModelTemplates(c) ==
  {t \in Templates :
     /\ t.kind = "weight"
     /\ t.part \in ModelParts
     /\ t.part = "token_embd" => t.shape = <<c.vocab, c.hidden>>
     /\ t.part = "yoco_cross_k" => t.shape[1] = c.crossKvHeads * c.headDim}

\* A tensor of a layer that nothing is said about, and the scales of one.
LEMMA PlainTensor ==
  ASSUME NEW c, NEW heads, NEW kvHeads, NEW part \in LayerParts, NEW shape \in Seq(Nat),
         part \notin {"attn_output", "ffn_gate_inp"}
  PROVE  /\ part \notin {"attn_q", "attn_k"} =>
              Tensor(part, shape) \in LayerTemplates(c, heads, kvHeads)
         /\ Acts(part, shape) \in Seq(LayerTemplates(c, heads, kvHeads))
<1> DEFINE B == LayerTemplates(c, heads, kvHeads)
<1>0. part \in Parts /\ "weight" \in Kinds /\ "act_scale" \in Kinds /\ "act_bias" \in Kinds
  BY DEF Kinds, Parts
<1>1. part \notin {"attn_q", "attn_k"} => Tensor(part, shape) \in B
  BY <1>0 DEF Tensor, LayerTemplates, Templates
<1>2. /\ [part |-> part, kind |-> "act_scale", shape |-> shape] \in B
      /\ [part |-> part, kind |-> "act_bias", shape |-> shape] \in B
  BY <1>0 DEF LayerTemplates, Templates
<1>3. Acts(part, shape) \in Seq(B)
  <2> HIDE DEF B
  <2> QED BY <1>2 DEF Acts
<1> QED BY <1>1, <1>3

\* The three whose rows or columns are those of the heads.
LEMMA NamedTensor ==
  ASSUME NEW c, NEW heads, NEW kvHeads, NEW n \in Nat
  PROVE  /\ 2 * heads * c.headDim \in Nat =>
              Tensor("attn_q", <<2 * heads * c.headDim, n>>) \in LayerTemplates(c, heads, kvHeads)
         /\ heads * c.headDim \in Nat =>
              Tensor("attn_output", <<n, heads * c.headDim>>)
                \in LayerTemplates(c, heads, kvHeads)
         /\ kvHeads * c.headDim \in Nat =>
              Tensor("attn_k", <<kvHeads * c.headDim, n>>) \in LayerTemplates(c, heads, kvHeads)
<1> DEFINE B == LayerTemplates(c, heads, kvHeads)
           q == 2 * heads * c.headDim
           o == heads * c.headDim
           kv == kvHeads * c.headDim
<1>1. \A t \in Templates :
        t \in B <=>
          /\ t.part \in LayerParts
          /\ t.part = "attn_q" /\ t.kind = "weight" => t.shape[1] = q
          /\ t.part = "attn_output" => t.shape[2] = o
          /\ t.part = "attn_k" /\ t.kind = "weight" => t.shape[1] = kv
          /\ t.part = "ffn_gate_inp" => c.moe /\ t.shape[1] = c.experts
  BY DEF LayerTemplates
<1> HIDE DEF B, q, o, kv
<1>0. /\ "weight" \in Kinds /\ "attn_q" \in LayerParts /\ "attn_output" \in LayerParts
      /\ "attn_k" \in LayerParts /\ LayerParts \subseteq Parts
  BY DEF Kinds, LayerParts, Parts
<1>2. ASSUME q \in Nat
      PROVE  Tensor("attn_q", <<q, n>>) \in B
  <2> DEFINE shape == <<q, n>>
  <2>1. shape \in Seq(Nat) /\ shape[1] = q
    BY <1>2
  <2> HIDE DEF shape
  <2>2. Tensor("attn_q", shape) \in B
    BY <1>0, <1>1, <2>1 DEF Tensor, Templates
  <2> QED BY <2>2 DEF shape
<1>3. ASSUME o \in Nat
      PROVE  Tensor("attn_output", <<n, o>>) \in B
  <2> DEFINE shape == <<n, o>>
  <2>1. shape \in Seq(Nat) /\ shape[2] = o
    BY <1>3
  <2> HIDE DEF shape
  <2>2. Tensor("attn_output", shape) \in B
    BY <1>0, <1>1, <2>1 DEF Tensor, Templates
  <2> QED BY <2>2 DEF shape
<1>4. ASSUME kv \in Nat
      PROVE  Tensor("attn_k", <<kv, n>>) \in B
  <2> DEFINE shape == <<kv, n>>
  <2>1. shape \in Seq(Nat) /\ shape[1] = kv
    BY <1>4
  <2> HIDE DEF shape
  <2>2. Tensor("attn_k", shape) \in B
    BY <1>0, <1>1, <2>1 DEF Tensor, Templates
  <2> QED BY <2>2 DEF shape
<1> QED BY <1>2, <1>3, <1>4 DEF B, q, o, kv

LEMMA SelfAttnTyped ==
  ASSUME NEW c \in Configurations
  PROVE  SelfAttnTensors(c) \in Seq(LayerTemplates(c, c.heads, c.kvHeads))
<1> DEFINE B == LayerTemplates(c, c.heads, c.kvHeads)
           q == 2 * c.heads * c.headDim
           kv == c.kvHeads * c.headDim
           o == c.heads * c.headDim
           ofHidden == <<c.hidden>>
           gate == <<2 * c.heads, c.hidden>>
           values == <<kv, c.hidden>>
           ofQ == <<q>>
           ofKv == <<kv>>
           ofO == <<o>>
           attnQ == Tensor("attn_q", <<q, c.hidden>>)
           attnK == Tensor("attn_k", <<kv, c.hidden>>)
           output == Tensor("attn_output", <<c.hidden, o>>)
<1>1. c.hidden \in Nat /\ q \in Nat /\ kv \in Nat /\ o \in Nat /\ 2 * c.heads \in Nat
  BY DEF Configurations
<1>2. attnQ \in B /\ attnK \in B /\ output \in B
  BY <1>1, NamedTensor
<1>3. /\ ofHidden \in Seq(Nat) /\ gate \in Seq(Nat) /\ values \in Seq(Nat)
      /\ ofQ \in Seq(Nat) /\ ofKv \in Seq(Nat) /\ ofO \in Seq(Nat)
  <2> DEFINE twice == 2 * c.heads
  <2> HIDE DEF q, kv, o, twice
  <2> QED BY <1>1 DEF twice
<1>4. \A shape \in Seq(Nat) :
        /\ Tensor("attn_norm", shape) \in B /\ Tensor("attn_v", shape) \in B
        /\ Tensor("attn_gate", shape) \in B /\ Tensor("attn_q_norm", shape) \in B
        /\ Tensor("attn_k_norm", shape) \in B /\ Tensor("ffn_norm", shape) \in B
  <2>1. {"attn_norm", "attn_v", "attn_gate", "attn_q_norm", "attn_k_norm", "ffn_norm"}
        \subseteq LayerParts
    BY DEF LayerParts
  <2> QED BY <2>1, PlainTensor
<1>5. \A shape \in Seq(Nat) :
        /\ Acts("attn_q", shape) \in Seq(B) /\ Acts("attn_k", shape) \in Seq(B)
        /\ Acts("attn_v", shape) \in Seq(B) /\ Acts("attn_out", shape) \in Seq(B)
        /\ Acts("attn_gate", shape) \in Seq(B)
  <2>1. {"attn_q", "attn_k", "attn_v", "attn_out", "attn_gate"} \subseteq LayerParts
    BY DEF LayerParts
  <2> QED BY <2>1, PlainTensor
<1> HIDE DEF B, q, kv, o, ofHidden, gate, values, ofQ, ofKv, ofO, attnQ, attnK, output
<1> DEFINE norm == <<Tensor("ffn_norm", ofHidden)>>
           weights == << Tensor("attn_norm", ofHidden), attnQ, attnK,
                         Tensor("attn_v", values), output, Tensor("attn_gate", gate),
                         Tensor("attn_q_norm", ofQ), Tensor("attn_k_norm", ofKv) >>
           acts == Acts("attn_q", ofHidden)
           actsK == Acts("attn_k", ofHidden)
           actsV == Acts("attn_v", ofHidden)
           actsO == Acts("attn_out", ofO)
           actsG == Acts("attn_gate", ofHidden)
<1>6. weights \in Seq(B) /\ norm \in Seq(B)
  BY <1>2, <1>3, <1>4
<1>7. /\ acts \in Seq(B) /\ actsK \in Seq(B) /\ actsV \in Seq(B) /\ actsO \in Seq(B)
      /\ actsG \in Seq(B)
  BY <1>3, <1>5
<1> HIDE DEF weights, norm, acts, actsK, actsV, actsO, actsG
<1>8. weights \o acts \o actsK \o actsV \o actsO \o actsG \o norm \in Seq(B)
  BY <1>6, <1>7
<1> QED BY <1>8 DEF SelfAttnTensors, weights, norm, acts, actsK, actsV, actsO, actsG,
                    B, q, kv, o, ofHidden, gate, values, ofQ, ofKv, ofO, attnQ, attnK, output

LEMMA CrossAttnTyped ==
  ASSUME NEW c \in Configurations
  PROVE  CrossAttnTensors(c) \in Seq(LayerTemplates(c, c.crossHeads, c.crossKvHeads))
<1> DEFINE B == LayerTemplates(c, c.crossHeads, c.crossKvHeads)
           q == 2 * c.crossHeads * c.headDim
           o == c.crossHeads * c.headDim
           ofHidden == <<c.hidden>>
           gate == <<2 * c.crossHeads, c.hidden>>
           ofQ == <<q>>
           ofO == <<o>>
           attnQ == Tensor("attn_q", <<q, c.hidden>>)
           output == Tensor("attn_output", <<c.hidden, o>>)
<1>1. c.hidden \in Nat /\ q \in Nat /\ o \in Nat /\ 2 * c.crossHeads \in Nat
  BY DEF Configurations
<1>2. attnQ \in B /\ output \in B
  BY <1>1, NamedTensor
<1>3. ofHidden \in Seq(Nat) /\ gate \in Seq(Nat) /\ ofQ \in Seq(Nat) /\ ofO \in Seq(Nat)
  <2> DEFINE twice == 2 * c.crossHeads
  <2> HIDE DEF q, o, twice
  <2> QED BY <1>1 DEF twice
<1>4. \A shape \in Seq(Nat) :
        /\ Tensor("attn_norm", shape) \in B /\ Tensor("attn_gate", shape) \in B
        /\ Tensor("attn_q_norm", shape) \in B /\ Tensor("ffn_norm", shape) \in B
        /\ Acts("attn_q", shape) \in Seq(B) /\ Acts("attn_out", shape) \in Seq(B)
        /\ Acts("attn_gate", shape) \in Seq(B)
  <2>1. {"attn_norm", "attn_q", "attn_gate", "attn_q_norm", "attn_out", "ffn_norm"}
        \subseteq LayerParts
    BY DEF LayerParts
  <2> QED BY <2>1, PlainTensor
<1> HIDE DEF B, q, o, ofHidden, gate, ofQ, ofO, attnQ, output
<1> DEFINE norm == <<Tensor("ffn_norm", ofHidden)>>
           weights == << Tensor("attn_norm", ofHidden), attnQ, output,
                         Tensor("attn_gate", gate), Tensor("attn_q_norm", ofQ) >>
           acts == Acts("attn_q", ofHidden)
           actsO == Acts("attn_out", ofO)
           actsG == Acts("attn_gate", ofHidden)
<1>5. /\ weights \in Seq(B) /\ norm \in Seq(B) /\ acts \in Seq(B) /\ actsO \in Seq(B)
      /\ actsG \in Seq(B)
  BY <1>2, <1>3, <1>4
<1> HIDE DEF weights, norm, acts, actsO, actsG
<1>6. weights \o acts \o actsO \o actsG \o norm \in Seq(B)
  BY <1>5
<1> QED BY <1>6 DEF CrossAttnTensors, weights, norm, acts, actsO, actsG,
                    B, q, o, ofHidden, gate, ofQ, ofO, attnQ, output

\* The feed-forward part of a layer, dense or of experts, with or without a
\* shared expert and latent projections.
LEMMA FfnTyped ==
  ASSUME NEW c \in Configurations, NEW heads, NEW kvHeads
  PROVE  FfnTensors(c) \in Seq(LayerTemplates(c, heads, kvHeads))
<1> DEFINE B == LayerTemplates(c, heads, kvHeads)
           T(part, shape) == Tensor(part, shape)
<1>1. /\ c.hidden \in Nat /\ c.intermediate \in Nat /\ c.moeFfn \in Nat /\ c.experts \in Nat
      /\ c.shared \in Nat /\ c.latent \in Nat /\ 2 * c.moeFfn \in Nat
  BY DEF Configurations
<1>2. \A shape \in Seq(Nat) :
        /\ T("ffn_gate", shape) \in B /\ T("ffn_up", shape) \in B /\ T("ffn_down", shape) \in B
        /\ T("ffn_gate_up_exps", shape) \in B /\ T("ffn_down_exps", shape) \in B
        /\ T("ffn_latent_down", shape) \in B /\ T("ffn_latent_up", shape) \in B
        /\ T("ffn_latent_down_norm", shape) \in B /\ T("ffn_latent_up_norm", shape) \in B
        /\ T("ffn_gate_shexp", shape) \in B /\ T("ffn_up_shexp", shape) \in B
        /\ T("ffn_down_shexp", shape) \in B /\ T("ffn_gate_inp_shexp", shape) \in B
  <2>1. {"ffn_gate", "ffn_up", "ffn_down", "ffn_gate_up_exps", "ffn_down_exps",
         "ffn_latent_down", "ffn_latent_up", "ffn_latent_down_norm", "ffn_latent_up_norm",
         "ffn_gate_shexp", "ffn_up_shexp", "ffn_down_shexp", "ffn_gate_inp_shexp"}
        \subseteq LayerParts
    BY DEF LayerParts
  <2> QED BY <2>1, PlainTensor
<1>3. \A shape \in Seq(Nat) :
        /\ Acts("ffn_gate_up", shape) \in Seq(B) /\ Acts("ffn_down", shape) \in Seq(B)
        /\ Acts("ffn_gate_up_exps", shape) \in Seq(B) /\ Acts("ffn_down_exps", shape) \in Seq(B)
        /\ Acts("ffn_shexp_gate_up", shape) \in Seq(B) /\ Acts("ffn_shexp_down", shape) \in Seq(B)
  <2>1. {"ffn_gate_up", "ffn_down", "ffn_gate_up_exps", "ffn_down_exps",
         "ffn_shexp_gate_up", "ffn_shexp_down"} \subseteq LayerParts
    BY DEF LayerParts
  <2> QED BY <2>1, PlainTensor
<1>4. \A n, m \in Nat : <<n>> \in Seq(Nat) /\ <<n, m>> \in Seq(Nat)
  OBVIOUS
<1>5. \A n, m, k \in Nat : <<n, m, k>> \in Seq(Nat)
  OBVIOUS
<1>6. c.moe => T("ffn_gate_inp", <<c.experts, c.hidden>>) \in B
  <2> DEFINE shape == <<c.experts, c.hidden>>
  <2>1. shape \in Seq(Nat) /\ shape[1] = c.experts
    BY <1>1
  <2>2. "ffn_gate_inp" \in LayerParts /\ LayerParts \subseteq Parts /\ "weight" \in Kinds
    BY DEF LayerParts, Parts, Kinds
  <2> HIDE DEF shape
  <2>3. c.moe => T("ffn_gate_inp", shape) \in B
    BY <2>1, <2>2 DEF Tensor, LayerTemplates, Templates
  <2> QED BY <2>3 DEF shape
<1>7. DenseFfnTensors(c) \in Seq(B)
  <2> DEFINE gate == T("ffn_gate", <<c.intermediate, c.hidden>>)
             up == T("ffn_up", <<c.intermediate, c.hidden>>)
             down == T("ffn_down", <<c.hidden, c.intermediate>>)
             acts == Acts("ffn_gate_up", <<c.hidden>>)
             actsD == Acts("ffn_down", <<c.intermediate>>)
  <2>1. gate \in B /\ up \in B /\ down \in B
    BY ONLY <1>1, <1>2, <1>4
  <2>2. acts \in Seq(B) /\ actsD \in Seq(B)
    BY ONLY <1>1, <1>3, <1>4
  <2> HIDE DEF B, gate, up, down, acts, actsD
  <2>3. <<gate, up, down>> \o acts \o actsD \in Seq(B)
    BY ONLY <2>1, <2>2
  <2> QED BY <2>3 DEF DenseFfnTensors, gate, up, down, acts, actsD
<1>8. ASSUME c.moe
      PROVE  MoeTensors(c) \in Seq(B)
  <2> DEFINE d == IF c.latent > 0 THEN c.latent ELSE c.hidden
             inp == T("ffn_gate_inp", <<c.experts, c.hidden>>)
             gateUp == T("ffn_gate_up_exps", <<c.experts, 2 * c.moeFfn, d>>)
             down == T("ffn_down_exps", <<c.experts, d, c.moeFfn>>)
             acts == Acts("ffn_gate_up_exps", <<c.experts, d>>)
             actsD == Acts("ffn_down_exps", <<c.experts, c.moeFfn>>)
             norms == IF ~c.latentNorm THEN <<>> ELSE
                        << T("ffn_latent_down_norm", <<c.latent>>),
                           T("ffn_latent_up_norm", <<c.latent>>) >>
             latent == IF c.latent = 0 THEN <<>> ELSE
                         << T("ffn_latent_down", <<c.latent, c.hidden>>),
                            T("ffn_latent_up", <<c.hidden, c.latent>>) >> \o norms
             actsS == Acts("ffn_shexp_gate_up", <<c.hidden>>)
             actsSD == Acts("ffn_shexp_down", <<c.shared>>)
             shared == IF c.shared = 0 THEN <<>> ELSE
                         << T("ffn_gate_shexp", <<c.shared, c.hidden>>),
                            T("ffn_up_shexp", <<c.shared, c.hidden>>),
                            T("ffn_down_shexp", <<c.hidden, c.shared>>),
                            T("ffn_gate_inp_shexp", <<1, c.hidden>>) >> \o actsS \o actsSD
  <2>1. d \in Nat
    BY <1>1
  <2> HIDE DEF d
  <2>2. inp \in B /\ gateUp \in B /\ down \in B
    BY ONLY <1>1, <1>2, <1>5, <1>6, <1>8, <2>1
  <2>3. acts \in Seq(B) /\ actsD \in Seq(B) /\ actsS \in Seq(B) /\ actsSD \in Seq(B)
    BY ONLY <1>1, <1>3, <1>4, <2>1
  <2>4. /\ T("ffn_latent_down_norm", <<c.latent>>) \in B
        /\ T("ffn_latent_up_norm", <<c.latent>>) \in B
        /\ T("ffn_latent_down", <<c.latent, c.hidden>>) \in B
        /\ T("ffn_latent_up", <<c.hidden, c.latent>>) \in B
    BY ONLY <1>1, <1>2, <1>4
  <2>5. /\ T("ffn_gate_shexp", <<c.shared, c.hidden>>) \in B
        /\ T("ffn_up_shexp", <<c.shared, c.hidden>>) \in B
        /\ T("ffn_down_shexp", <<c.hidden, c.shared>>) \in B
        /\ T("ffn_gate_inp_shexp", <<1, c.hidden>>) \in B
    BY ONLY <1>1, <1>2, <1>4
  <2> HIDE DEF B, T, inp, gateUp, down, acts, actsD, actsS, actsSD
  <2>6. norms \in Seq(B)
    BY ONLY <2>4
  <2> HIDE DEF norms
  <2>7. latent \in Seq(B)
    BY ONLY <2>4, <2>6
  <2>8. shared \in Seq(B)
    BY ONLY <2>3, <2>5
  <2> HIDE DEF latent, shared
  <2>9. <<inp, gateUp, down>> \o acts \o actsD \o latent \o shared \in Seq(B)
    BY ONLY <2>2, <2>3, <2>7, <2>8
  <2> QED BY <2>9 DEF MoeTensors, T, d, inp, gateUp, down, acts, actsD, norms, latent, shared,
                      actsS, actsSD
<1> HIDE DEF B
<1>9. FfnTensors(c) \in Seq(B)
  BY <1>7, <1>8 DEF FfnTensors
<1> QED BY <1>9 DEF B

\* The tensors outside the layers.
LEMMA ModelTyped ==
  ASSUME NEW c \in Configurations
  PROVE  /\ <<Tensor("token_embd", <<c.vocab, c.hidden>>)>> \in Seq(ModelTemplates(c))
         /\ <<Tensor("output_norm", <<c.hidden>>)>> \in Seq(ModelTemplates(c))
         /\ SharedCrossKV(c) \in Seq(ModelTemplates(c))
         /\ EmbprojTensors(c) \in Seq(ModelTemplates(c))
<1> DEFINE B == ModelTemplates(c)
           kv == c.crossKvHeads * c.headDim
           ofKv == <<kv>>
           values == <<kv, c.hidden>>
           ofHidden == <<c.hidden>>
           square == <<c.hidden, c.hidden>>
           rows == <<c.vocab, c.hidden>>
<1>1. c.hidden \in Nat /\ c.vocab \in Nat /\ kv \in Nat
  BY DEF Configurations
<1>2. /\ ofKv \in Seq(Nat) /\ values \in Seq(Nat) /\ values[1] = kv
      /\ ofHidden \in Seq(Nat) /\ square \in Seq(Nat) /\ rows \in Seq(Nat)
  <2> HIDE DEF kv
  <2> QED BY <1>1
<1>3. "weight" \in Kinds /\ ModelParts \subseteq Parts
  BY DEF Kinds, Parts
<1> HIDE DEF ofKv, values, ofHidden, square, rows
<1>4. Tensor("token_embd", rows) \in B
  BY <1>2, <1>3 DEF Tensor, ModelTemplates, Templates, ModelParts, rows
<1>5. Tensor("yoco_cross_k", values) \in B
  BY <1>2, <1>3 DEF Tensor, ModelTemplates, Templates, ModelParts
<1>6. ASSUME NEW shape \in Seq(Nat), NEW part \in ModelParts \ {"token_embd", "yoco_cross_k"}
      PROVE  Tensor(part, shape) \in B
  BY <1>3 DEF Tensor, ModelTemplates, Templates
<1>7. {"output_norm", "yoco_cross_kv_norm", "yoco_cross_v", "yoco_cross_k_norm", "emb_proj_in",
       "emb_proj_out", "emb_in_norm", "emb_out_norm"}
      \subseteq ModelParts \ {"token_embd", "yoco_cross_k"}
  BY DEF ModelParts
<1>8. /\ Tensor("output_norm", ofHidden) \in B /\ Tensor("yoco_cross_kv_norm", ofHidden) \in B
      /\ Tensor("yoco_cross_v", values) \in B /\ Tensor("yoco_cross_k_norm", ofKv) \in B
      /\ Tensor("emb_proj_in", square) \in B /\ Tensor("emb_proj_out", square) \in B
      /\ Tensor("emb_in_norm", ofHidden) \in B /\ Tensor("emb_out_norm", ofHidden) \in B
  BY <1>2, <1>6, <1>7
<1> HIDE DEF B
<1>9. <<Tensor("token_embd", rows)>> \in Seq(B) /\ <<Tensor("output_norm", ofHidden)>> \in Seq(B)
  BY <1>4, <1>8
<1>10. SharedCrossKV(c) \in Seq(B)
  <2>1. << Tensor("yoco_cross_kv_norm", ofHidden), Tensor("yoco_cross_k", values),
           Tensor("yoco_cross_v", values), Tensor("yoco_cross_k_norm", ofKv) >> \in Seq(B)
    BY <1>5, <1>8
  <2> QED BY <2>1 DEF SharedCrossKV, ofHidden, values, ofKv
<1>11. EmbprojTensors(c) \in Seq(B)
  <2>1. << Tensor("emb_proj_in", square), Tensor("emb_proj_out", square),
           Tensor("emb_in_norm", ofHidden), Tensor("emb_out_norm", ofHidden) >> \in Seq(B)
    BY <1>8
  <2> QED BY <2>1 DEF EmbprojTensors, ofHidden, square
<1> QED BY <1>9, <1>10, <1>11 DEF B, rows, ofHidden

\* What the first pass registers of a placed tensor, and its size.
Registering ==
  [t \in Placed |-> Stored(t, IF t.kind \in {"act_scale", "act_bias"} THEN "F32" ELSE "F16")]

UnitsIn == [t \in Placed |-> Units(t.shape)]

\* A list of templates at its place: the second pass makes of it what the first
\* registers, and its size is that of the list.
LEMMA PlacedList ==
  ASSUME NEW ts \in Seq(Templates), NEW i \in Int
  PROVE  /\ At(i, ts) \in Seq(Placed) /\ Len(At(i, ts)) = Len(ts)
         /\ \A k \in 1 .. Len(ts) :
              At(i, ts)[k] = [blk |-> i, part |-> ts[k].part, kind |-> ts[k].kind,
                              shape |-> ts[k].shape]
         /\ Finalised(i, ts) = Mapped(Registering, At(i, ts))
         /\ (\A k \in 1 .. Len(ts) : ts[k].kind = "weight") =>
              Plain(i, ts) = Mapped(Registering, At(i, ts))
         /\ Mapped(UnitsIn, At(i, ts)) \in Seq(Int)
         /\ SumFunction(Mapped(UnitsIn, At(i, ts))) = CountParams(ts)
         /\ CountParams(ts) \in Int
<1> DEFINE n == Len(ts)
           p == At(i, ts)
<1>1. /\ n \in Nat /\ DOMAIN ts = 1 .. n
      /\ \A k \in 1 .. n : ts[k].part \in Parts /\ ts[k].kind \in Kinds /\ ts[k].shape \in Seq(Nat)
  <2>1. n \in Nat /\ DOMAIN ts = 1 .. n /\ \A k \in 1 .. n : ts[k] \in Templates
    OBVIOUS
  <2>2. \A t \in Templates : t.part \in Parts /\ t.kind \in Kinds /\ t.shape \in Seq(Nat)
    BY DEF Templates
  <2> HIDE DEF n
  <2> QED BY <2>1, <2>2
<1>2. p = [k \in 1 .. n |-> [blk |-> i, part |-> ts[k].part, kind |-> ts[k].kind,
                             shape |-> ts[k].shape]]
  BY <1>1 DEF At
<1> HIDE DEF n, p
<1>3. p \in Seq(Placed) /\ Len(p) = n /\ DOMAIN p = 1 .. n
  BY <1>1, <1>2 DEF Placed
<1>4. \A k \in 1 .. n : p[k] \in Placed /\ p[k].kind = ts[k].kind /\ p[k].shape = ts[k].shape
  BY <1>1, <1>2, <1>3
<1>5. Finalised(i, ts) = [k \in 1 .. n |->
                            Stored(p[k], IF p[k].kind = "weight" THEN "F16" ELSE "F32")]
  BY <1>3 DEF Finalised, p
<1>6. Plain(i, ts) = [k \in 1 .. n |-> Stored(p[k], "F16")]
  BY <1>3 DEF Plain, p
<1>7. Mapped(Registering, p) =
        [k \in 1 .. n |->
           Stored(p[k], IF p[k].kind \in {"act_scale", "act_bias"} THEN "F32" ELSE "F16")]
  BY <1>3, <1>4 DEF Mapped, Registering
<1>8. Finalised(i, ts) = Mapped(Registering, p)
  <2>1. \A k \in 1 .. n :
          (IF p[k].kind = "weight" THEN "F16" ELSE "F32")
          = (IF p[k].kind \in {"act_scale", "act_bias"} THEN "F32" ELSE "F16")
    BY <1>1, <1>4 DEF Kinds
  <2> QED BY <1>5, <1>7, <2>1
<1>9. (\A k \in 1 .. n : ts[k].kind = "weight") => Plain(i, ts) = Mapped(Registering, p)
  BY <1>4, <1>6, <1>7
<1>10. Mapped(UnitsIn, p) = [k \in 1 .. n |-> Units(ts[k].shape)]
  BY <1>3, <1>4 DEF Mapped, UnitsIn
<1>11. \A k \in 1 .. n : Units(ts[k].shape) \in Int
  <2> SUFFICES ASSUME NEW k \in 1 .. n PROVE Units(ts[k].shape) \in Int
    OBVIOUS
  <2>1. Elements(ts[k].shape) \in Nat
    BY <1>1, ElementsIsNat
  <2> QED BY <2>1 DEF Units, Unit
<1>12. Mapped(UnitsIn, p) \in Seq(Int)
  BY <1>1, <1>10, <1>11
<1>13. SumFunction(Mapped(UnitsIn, p)) = CountParams(ts)
  BY <1>1, <1>10, Zenon DEF CountParams
<1>14. CountParams(ts) \in Int
  BY <1>12, <1>13, SumOfSeq
<1> QED BY <1>1, <1>2, <1>3, <1>8, <1>9, <1>12, <1>13, <1>14 DEF n, p

\* The same of the two lists of a layer.
LEMMA PlacedLayer ==
  ASSUME NEW as \in Seq(Templates), NEW fs \in Seq(Templates), NEW i \in Int
  PROVE  /\ At(i, as) \o At(i, fs) \in Seq(Placed)
         /\ Finalised(i, as) \o Finalised(i, fs) = Mapped(Registering, At(i, as) \o At(i, fs))
         /\ Mapped(UnitsIn, At(i, as) \o At(i, fs)) \in Seq(Int)
         /\ SumFunction(Mapped(UnitsIn, At(i, as) \o At(i, fs)))
            = CountParams(as) + CountParams(fs)
<1> DEFINE p == At(i, as)
           q == At(i, fs)
           u == Mapped(UnitsIn, p)
           v == Mapped(UnitsIn, q)
<1>1. /\ p \in Seq(Placed) /\ Finalised(i, as) = Mapped(Registering, p)
      /\ u \in Seq(Int) /\ SumFunction(u) = CountParams(as)
  BY PlacedList
<1>2. /\ q \in Seq(Placed) /\ Finalised(i, fs) = Mapped(Registering, q)
      /\ v \in Seq(Int) /\ SumFunction(v) = CountParams(fs)
  BY PlacedList
<1> HIDE DEF p, q
<1>3. /\ Mapped(Registering, p \o q) = Mapped(Registering, p) \o Mapped(Registering, q)
      /\ Mapped(UnitsIn, p \o q) = u \o v
  <2>1. p \in Seq(Placed) /\ q \in Seq(Placed)
    BY <1>1, <1>2
  <2>2. Mapped(Registering, p \o q) = Mapped(Registering, p) \o Mapped(Registering, q)
    BY ONLY <2>1, MapConcat, Zenon
  <2>3. Mapped(UnitsIn, p \o q) = Mapped(UnitsIn, p) \o Mapped(UnitsIn, q)
    BY ONLY <2>1, MapConcat, Zenon
  <2> QED BY <2>2, <2>3
<1> HIDE DEF u, v
<1>4. u \o v \in Seq(Int) /\ SumFunction(u \o v) = SumFunction(u) + SumFunction(v)
  BY ONLY <1>1, <1>2, SumConcat
<1>5. p \o q \in Seq(Placed)
  BY <1>1, <1>2
<1>6. /\ Finalised(i, as) \o Finalised(i, fs) = Mapped(Registering, p \o q)
      /\ Mapped(UnitsIn, p \o q) \in Seq(Int)
      /\ SumFunction(Mapped(UnitsIn, p \o q)) = CountParams(as) + CountParams(fs)
  BY ONLY <1>1, <1>2, <1>3, <1>4
<1> QED BY <1>5, <1>6 DEF p, q

\* AllTensors, Registered and Written are the same lists at the same places.
SelfBlocks(c) == [l \in 1 .. c.self |-> At(l - 1, SelfAttnTensors(c)) \o At(l - 1, FfnTensors(c))]

CrossBlocks(c) ==
  [l \in 1 .. c.cross |->
     At(c.self + l - 1, CrossAttnTensors(c)) \o At(c.self + l - 1, FfnTensors(c))]

TokenEmbd(c) == At(NoBlk, <<Tensor("token_embd", <<c.vocab, c.hidden>>)>>)

CrossKV(c) == At(NoBlk, SharedCrossKV(c))

Embproj(c) == IF c.embproj THEN At(NoBlk, EmbprojTensors(c)) ELSE <<>>

OutputNorm(c) == At(NoBlk, <<Tensor("output_norm", <<c.hidden>>)>>)

LEMMA AllTensorsLaidOut ==
  ASSUME NEW c
  PROVE  AllTensors(c) = TokenEmbd(c) \o FlattenSeq(SelfBlocks(c)) \o FlattenSeq(CrossBlocks(c))
                         \o CrossKV(c) \o Embproj(c) \o OutputNorm(c)
BY Zenon DEF AllTensors, TokenEmbd, SelfBlocks, CrossBlocks, CrossKV, Embproj, OutputNorm

\* The lists of a layer are lists of templates.
LEMMA LayerLists ==
  ASSUME NEW c \in Configurations
  PROVE  /\ SelfAttnTensors(c) \in Seq(Templates)
         /\ CrossAttnTensors(c) \in Seq(Templates)
         /\ FfnTensors(c) \in Seq(Templates)
<1>1. \A h, k : LayerTemplates(c, h, k) \subseteq Templates
  BY DEF LayerTemplates
<1>2. \A B : B \subseteq Templates => Seq(B) \subseteq Seq(Templates)
  OBVIOUS
<1> QED BY <1>1, <1>2, SelfAttnTyped, CrossAttnTyped, FfnTyped

LEMMA ModelLists ==
  ASSUME NEW c \in Configurations,
         NEW ts \in {<<Tensor("token_embd", <<c.vocab, c.hidden>>)>>,
                     <<Tensor("output_norm", <<c.hidden>>)>>, SharedCrossKV(c), EmbprojTensors(c)}
  PROVE  ts \in Seq(Templates) /\ \A k \in 1 .. Len(ts) : ts[k].kind = "weight"
<1>1. ts \in Seq(ModelTemplates(c))
  BY ModelTyped
<1>2. ModelTemplates(c) \subseteq Templates /\ \A t \in ModelTemplates(c) : t.kind = "weight"
  BY DEF ModelTemplates
<1> QED BY ONLY <1>1, <1>2

\* The six parts of the layout, placed.
LEMMA PartsTyped ==
  ASSUME NEW c \in Configurations
  PROVE  /\ TokenEmbd(c) \in Seq(Placed) /\ CrossKV(c) \in Seq(Placed)
         /\ Embproj(c) \in Seq(Placed) /\ OutputNorm(c) \in Seq(Placed)
         /\ SelfBlocks(c) \in Seq(Seq(Placed)) /\ CrossBlocks(c) \in Seq(Seq(Placed))
         /\ FlattenSeq(SelfBlocks(c)) \in Seq(Placed)
         /\ FlattenSeq(CrossBlocks(c)) \in Seq(Placed)
         /\ Len(SelfBlocks(c)) = c.self /\ Len(CrossBlocks(c)) = c.cross
<1>1. c.self \in Nat /\ c.cross \in Nat /\ NoBlk \in Int
  BY DEF Configurations, NoBlk
<1>2. /\ TokenEmbd(c) \in Seq(Placed) /\ CrossKV(c) \in Seq(Placed)
      /\ OutputNorm(c) \in Seq(Placed) /\ At(NoBlk, EmbprojTensors(c)) \in Seq(Placed)
  BY <1>1, ModelLists, PlacedList DEF TokenEmbd, CrossKV, OutputNorm
<1>3. Embproj(c) \in Seq(Placed)
  BY <1>2 DEF Embproj
<1>4. \A i \in Int :
        /\ At(i, SelfAttnTensors(c)) \o At(i, FfnTensors(c)) \in Seq(Placed)
        /\ At(i, CrossAttnTensors(c)) \o At(i, FfnTensors(c)) \in Seq(Placed)
  BY LayerLists, PlacedLayer
<1> DEFINE P == Seq(Placed)
<1> HIDE DEF P
<1>5. SelfBlocks(c) \in Seq(P) /\ Len(SelfBlocks(c)) = c.self
  <2> DEFINE F(l) == At(l - 1, SelfAttnTensors(c)) \o At(l - 1, FfnTensors(c))
  <2>1. \A l \in 1 .. c.self : l - 1 \in Int
    BY <1>1
  <2>2. \A l \in 1 .. c.self : F(l) \in P
    BY <1>4, <2>1 DEF P
  <2>3. SelfBlocks(c) = [l \in 1 .. c.self |-> F(l)]
    BY DEF SelfBlocks
  <2> HIDE DEF F
  <2> QED BY <1>1, <2>2, <2>3
<1>6. CrossBlocks(c) \in Seq(P) /\ Len(CrossBlocks(c)) = c.cross
  <2> DEFINE F(l) == At(c.self + l - 1, CrossAttnTensors(c)) \o At(c.self + l - 1, FfnTensors(c))
  <2>1. \A l \in 1 .. c.cross : c.self + l - 1 \in Int
    BY <1>1
  <2>2. \A l \in 1 .. c.cross : F(l) \in P
    BY <1>4, <2>1 DEF P
  <2>3. CrossBlocks(c) = [l \in 1 .. c.cross |-> F(l)]
    BY DEF CrossBlocks
  <2> HIDE DEF F
  <2> QED BY <1>1, <2>2, <2>3
<1> USE DEF P
<1> QED BY <1>2, <1>3, <1>5, <1>6, FlattenElements

\* Mapping the six parts.
LEMMA AllMapped ==
  ASSUME NEW c \in Configurations, NEW f
  PROVE  /\ AllTensors(c) \in Seq(Placed)
         /\ Mapped(f, AllTensors(c))
            = Mapped(f, TokenEmbd(c)) \o Mapped(f, FlattenSeq(SelfBlocks(c)))
              \o Mapped(f, FlattenSeq(CrossBlocks(c))) \o Mapped(f, CrossKV(c))
              \o Mapped(f, Embproj(c)) \o Mapped(f, OutputNorm(c))
<1> DEFINE p1 == TokenEmbd(c)
           p2 == FlattenSeq(SelfBlocks(c))
           p3 == FlattenSeq(CrossBlocks(c))
           p4 == CrossKV(c)
           p5 == Embproj(c)
           p6 == OutputNorm(c)
           q2 == p1 \o p2
           q3 == q2 \o p3
           q4 == q3 \o p4
           q5 == q4 \o p5
<1>1. /\ p1 \in Seq(Placed) /\ p2 \in Seq(Placed) /\ p3 \in Seq(Placed)
      /\ p4 \in Seq(Placed) /\ p5 \in Seq(Placed) /\ p6 \in Seq(Placed)
  BY PartsTyped
<1>2. AllTensors(c) = q5 \o p6
  BY AllTensorsLaidOut, Zenon
<1> HIDE DEF p1, p2, p3, p4, p5, p6
<1>3. /\ q2 \in Seq(Placed) /\ q3 \in Seq(Placed) /\ q4 \in Seq(Placed)
      /\ q5 \in Seq(Placed) /\ q5 \o p6 \in Seq(Placed)
  BY <1>1
<1>4. Mapped(f, q2) = Mapped(f, p1) \o Mapped(f, p2)
  BY <1>1, MapConcat, Zenon
<1>5. Mapped(f, q3) = Mapped(f, q2) \o Mapped(f, p3)
  BY <1>1, <1>3, MapConcat, Zenon
<1>6. Mapped(f, q4) = Mapped(f, q3) \o Mapped(f, p4)
  BY <1>1, <1>3, MapConcat, Zenon
<1>7. Mapped(f, q5) = Mapped(f, q4) \o Mapped(f, p5)
  BY <1>1, <1>3, MapConcat, Zenon
<1>8. Mapped(f, q5 \o p6) = Mapped(f, q5) \o Mapped(f, p6)
  BY <1>1, <1>3, MapConcat, Zenon
<1> HIDE DEF q2, q3, q4, q5
<1>9. Mapped(f, q5 \o p6)
      = Mapped(f, p1) \o Mapped(f, p2) \o Mapped(f, p3) \o Mapped(f, p4)
        \o Mapped(f, p5) \o Mapped(f, p6)
  BY ONLY <1>4, <1>5, <1>6, <1>7, <1>8, Zenon
<1>10. /\ AllTensors(c) \in Seq(Placed)
       /\ Mapped(f, AllTensors(c))
          = Mapped(f, p1) \o Mapped(f, p2) \o Mapped(f, p3) \o Mapped(f, p4)
            \o Mapped(f, p5) \o Mapped(f, p6)
  BY ONLY <1>2, <1>3, <1>9, Zenon
<1> QED BY <1>10, Zenon DEF p1, p2, p3, p4, p5, p6

LEMMA AllTyped ==
  ASSUME NEW c \in Configurations
  PROVE  /\ AllTensors(c) \in Seq(Placed)
         /\ Registered(c) = Mapped(Registering, AllTensors(c))
<1> DEFINE ts == AllTensors(c)
<1>1. ts \in Seq(Placed)
  BY AllMapped, Zenon
<1>2. Registered(c) = [k \in DOMAIN ts |->
         Stored(ts[k], IF ts[k].kind \in {"act_scale", "act_bias"} THEN "F32" ELSE "F16")]
  BY DEF Registered
<1> HIDE DEF ts
<1>3. \A k \in DOMAIN ts : ts[k] \in Placed
  BY <1>1
<1>4. \A k \in DOMAIN ts :
         Registering[ts[k]]
         = Stored(ts[k], IF ts[k].kind \in {"act_scale", "act_bias"} THEN "F32" ELSE "F16")
  BY <1>3 DEF Registering
<1>5. Registered(c) = Mapped(Registering, ts)
  BY <1>2, <1>4 DEF Mapped
<1> QED BY <1>1, <1>5 DEF ts

\* The second pass of every configuration writes exactly what the first has
\* registered, in its order, with its shapes, types and sizes
\* (_write_all_tensor_data against _add_all_tensor_info).
THEOREM PassesAgree == \A c \in Configurations : Written(c) = Registered(c)
<1> SUFFICES ASSUME NEW c \in Configurations PROVE Written(c) = Registered(c)
  OBVIOUS
<1> DEFINE R == Registering
           as == SelfAttnTensors(c)
           cs == CrossAttnTensors(c)
           fs == FfnTensors(c)
           embd == Plain(NoBlk, <<Tensor("token_embd", <<c.vocab, c.hidden>>)>>)
           selves == [l \in 1 .. c.self |-> Finalised(l - 1, as) \o Finalised(l - 1, fs)]
           crosses == [l \in 1 .. c.cross |->
                         Finalised(c.self + l - 1, cs) \o Finalised(c.self + l - 1, fs)]
           kv == Plain(NoBlk, SharedCrossKV(c))
           proj == IF c.embproj THEN Plain(NoBlk, EmbprojTensors(c)) ELSE <<>>
           norm == Plain(NoBlk, <<Tensor("output_norm", <<c.hidden>>)>>)
<1>1. Written(c) = embd \o FlattenSeq(selves) \o FlattenSeq(crosses) \o kv \o proj \o norm
  BY Zenon DEF Written
<1>2. c.self \in Nat /\ c.cross \in Nat /\ NoBlk \in Int
  BY DEF Configurations, NoBlk
<1>3. /\ embd = Mapped(R, TokenEmbd(c)) /\ kv = Mapped(R, CrossKV(c))
      /\ norm = Mapped(R, OutputNorm(c))
      /\ Plain(NoBlk, EmbprojTensors(c)) = Mapped(R, At(NoBlk, EmbprojTensors(c)))
  <2> HIDE DEF R
  <2> QED BY <1>2, ModelLists, PlacedList DEF TokenEmbd, CrossKV, OutputNorm, R
<1>4. proj = Mapped(R, Embproj(c))
  <2>1. Mapped(R, <<>>) = <<>>
    BY DEF Mapped
  <2> QED BY <1>3, <2>1 DEF Embproj
<1>5. /\ as \in Seq(Templates) /\ cs \in Seq(Templates) /\ fs \in Seq(Templates)
  BY LayerLists
<1>6. FlattenSeq(selves) = Mapped(R, FlattenSeq(SelfBlocks(c)))
  <2> DEFINE s == SelfBlocks(c)
             F(l) == At(l - 1, as) \o At(l - 1, fs)
             H(l) == Finalised(l - 1, as) \o Finalised(l - 1, fs)
  <2>1. s \in Seq(Seq(Placed)) /\ s = [l \in 1 .. c.self |-> F(l)]
    BY PartsTyped DEF SelfBlocks
  <2>2. ASSUME NEW l \in 1 .. c.self
        PROVE  H(l) = Mapped(R, F(l))
    <3>1. l - 1 \in Int
      BY <1>2
    <3> HIDE DEF as, fs, R
    <3> QED BY <1>5, <3>1, PlacedLayer DEF R
  <2> HIDE DEF s, F, H, R
  <2>3. [l \in DOMAIN s |-> Mapped(R, s[l])] = [l \in 1 .. c.self |-> H(l)]
    BY <2>1, <2>2
  <2>4. FlattenSeq([l \in DOMAIN s |-> Mapped(R, s[l])]) = Mapped(R, FlattenSeq(s))
    BY ONLY <2>1, FlattenMapped
  <2> QED BY <2>3, <2>4, Zenon DEF H, s
<1>7. FlattenSeq(crosses) = Mapped(R, FlattenSeq(CrossBlocks(c)))
  <2> DEFINE s == CrossBlocks(c)
             F(l) == At(c.self + l - 1, cs) \o At(c.self + l - 1, fs)
             H(l) == Finalised(c.self + l - 1, cs) \o Finalised(c.self + l - 1, fs)
  <2>1. s \in Seq(Seq(Placed)) /\ s = [l \in 1 .. c.cross |-> F(l)]
    BY PartsTyped DEF CrossBlocks
  <2>2. ASSUME NEW l \in 1 .. c.cross
        PROVE  H(l) = Mapped(R, F(l))
    <3>1. c.self + l - 1 \in Int
      BY <1>2
    <3> HIDE DEF cs, fs, R
    <3> QED BY <1>5, <3>1, PlacedLayer DEF R
  <2> HIDE DEF s, F, H, R
  <2>3. [l \in DOMAIN s |-> Mapped(R, s[l])] = [l \in 1 .. c.cross |-> H(l)]
    BY <2>1, <2>2
  <2>4. FlattenSeq([l \in DOMAIN s |-> Mapped(R, s[l])]) = Mapped(R, FlattenSeq(s))
    BY ONLY <2>1, FlattenMapped
  <2> QED BY <2>3, <2>4, Zenon DEF H, s
<1> HIDE DEF R, embd, selves, crosses, kv, proj, norm
<1>8. Mapped(R, AllTensors(c))
      = Mapped(R, TokenEmbd(c)) \o Mapped(R, FlattenSeq(SelfBlocks(c)))
        \o Mapped(R, FlattenSeq(CrossBlocks(c))) \o Mapped(R, CrossKV(c))
        \o Mapped(R, Embproj(c)) \o Mapped(R, OutputNorm(c))
  BY AllMapped, Zenon
<1>9. Written(c) = Mapped(R, AllTensors(c))
  BY ONLY <1>1, <1>3, <1>4, <1>6, <1>7, <1>8, Zenon
<1> QED BY <1>9, AllTyped, Zenon DEF R

\* The stored layers of one kind, however many, are so many times one of them.
LEMMA LayersCounted ==
  ASSUME NEW s \in Seq(Seq(Placed)), NEW u \in Int,
         \A l \in 1 .. Len(s) : /\ Mapped(UnitsIn, s[l]) \in Seq(Int)
                                /\ SumFunction(Mapped(UnitsIn, s[l])) = u
  PROVE  /\ Mapped(UnitsIn, FlattenSeq(s)) \in Seq(Int)
         /\ SumFunction(Mapped(UnitsIn, FlattenSeq(s))) = u * Len(s)
<1> DEFINE n == Len(s)
           t == [l \in DOMAIN s |-> Mapped(UnitsIn, s[l])]
<1>1. n \in Nat /\ DOMAIN s = 1 .. n
  OBVIOUS
<1>2. \A l \in 1 .. n : t[l] = Mapped(UnitsIn, s[l])
  BY <1>1
<1>3. t \in Seq(Seq(Int)) /\ Len(t) = n
  <2> DEFINE S == Seq(Int)
  <2>1. \A l \in 1 .. n : Mapped(UnitsIn, s[l]) \in S
    OBVIOUS
  <2> HIDE DEF S
  <2>2. t \in Seq(S) /\ Len(t) = n
    BY <1>1, <2>1
  <2> QED BY <2>2 DEF S
<1>4. FlattenSeq(t) = Mapped(UnitsIn, FlattenSeq(s))
  BY FlattenMapped, Zenon
<1>5. \A l \in 1 .. Len(t) : SumFunction(t[l]) = u
  <2> HIDE DEF t
  <2> QED BY <1>2, <1>3
<1> HIDE DEF t
<1>6. FlattenSeq(t) \in Seq(Int) /\ SumFunction(FlattenSeq(t)) = u * Len(t)
  BY ONLY u \in Int, <1>3, <1>5, SumFlatten
<1> QED BY <1>3, <1>4, <1>6

\* The parameters the scripts report are those of the tensors they write, for
\* every configuration: each stored layer once (total_params, unique_params of
\* main against _write_all_tensor_data).
THEOREM CountsWhatIsWritten ==
  \A c \in Configurations :
    SumFunction([k \in DOMAIN Written(c) |-> Units(Written(c)[k].shape)]) = TotalParams(c)
<1> SUFFICES ASSUME NEW c \in Configurations
             PROVE  SumFunction([k \in DOMAIN Written(c) |-> Units(Written(c)[k].shape)])
                    = TotalParams(c)
  OBVIOUS
<1> DEFINE ts == AllTensors(c)
           w == Written(c)
           as == SelfAttnTensors(c)
           cs == CrossAttnTensors(c)
           fs == FfnTensors(c)
<1>1. ts \in Seq(Placed) /\ w = Mapped(Registering, ts)
  BY AllTyped, PassesAgree
<1>2. [k \in DOMAIN w |-> Units(w[k].shape)] = Mapped(UnitsIn, ts)
  <2> HIDE DEF ts, w
  <2>1. DOMAIN w = DOMAIN ts /\ \A k \in DOMAIN ts : ts[k] \in Placed /\ w[k] = Registering[ts[k]]
    BY <1>1 DEF Mapped
  <2>2. \A t \in Placed : Registering[t].shape = t.shape
    BY DEF Registering, Stored
  <2>3. \A k \in DOMAIN ts : Units(w[k].shape) = UnitsIn[ts[k]]
    BY <2>1, <2>2 DEF UnitsIn
  <2> QED BY <2>1, <2>3 DEF Mapped
<1>3. c.self \in Nat /\ c.cross \in Nat /\ NoBlk \in Int /\ c.hidden \in Nat /\ c.vocab \in Nat
  BY DEF Configurations, NoBlk
<1>4. as \in Seq(Templates) /\ cs \in Seq(Templates) /\ fs \in Seq(Templates)
  BY LayerLists
<1>5. CountParams(as) \in Int /\ CountParams(cs) \in Int /\ CountParams(fs) \in Int
  BY <1>3, <1>4, PlacedList, Zenon
<1> DEFINE M(q) == Mapped(UnitsIn, q)
           s2 == FlattenSeq(SelfBlocks(c))
           s3 == FlattenSeq(CrossBlocks(c))
<1>6. M(s2) \in Seq(Int) /\ SumFunction(M(s2)) = (CountParams(as) + CountParams(fs)) * c.self
  <2> DEFINE s == SelfBlocks(c)
             u == CountParams(as) + CountParams(fs)
  <2>1. s \in Seq(Seq(Placed)) /\ Len(s) = c.self
    BY PartsTyped
  <2>2. ASSUME NEW l \in 1 .. c.self
        PROVE  M(s[l]) \in Seq(Int) /\ SumFunction(M(s[l])) = u
    <3>1. l - 1 \in Int
      BY <1>3
    <3>2. s[l] = At(l - 1, as) \o At(l - 1, fs)
      BY DEF SelfBlocks
    <3> HIDE DEF s, as, fs
    <3> QED BY <1>4, <3>1, <3>2, PlacedLayer
  <2>3. u \in Int
    BY <1>5
  <2> HIDE DEF s, u
  <2>4. M(FlattenSeq(s)) \in Seq(Int) /\ SumFunction(M(FlattenSeq(s))) = u * Len(s)
    BY ONLY <2>1, <2>2, <2>3, LayersCounted
  <2> QED BY <2>1, <2>4 DEF s, u
<1>7. M(s3) \in Seq(Int) /\ SumFunction(M(s3)) = (CountParams(cs) + CountParams(fs)) * c.cross
  <2> DEFINE s == CrossBlocks(c)
             u == CountParams(cs) + CountParams(fs)
  <2>1. s \in Seq(Seq(Placed)) /\ Len(s) = c.cross
    BY PartsTyped
  <2>2. ASSUME NEW l \in 1 .. c.cross
        PROVE  M(s[l]) \in Seq(Int) /\ SumFunction(M(s[l])) = u
    <3>1. c.self + l - 1 \in Int
      BY <1>3
    <3>2. s[l] = At(c.self + l - 1, cs) \o At(c.self + l - 1, fs)
      BY DEF CrossBlocks
    <3> HIDE DEF s, cs, fs
    <3> QED BY <1>4, <3>1, <3>2, PlacedLayer
  <2>3. u \in Int
    BY <1>5
  <2> HIDE DEF s, u
  <2>4. M(FlattenSeq(s)) \in Seq(Int) /\ SumFunction(M(FlattenSeq(s))) = u * Len(s)
    BY ONLY <2>1, <2>2, <2>3, LayersCounted
  <2> QED BY <2>1, <2>4 DEF s, u
<1>8. ASSUME NEW part, NEW shape \in Seq(Nat),
             <<Tensor(part, shape)>> \in Seq(Templates)
      PROVE  /\ M(At(NoBlk, <<Tensor(part, shape)>>)) \in Seq(Int)
             /\ SumFunction(M(At(NoBlk, <<Tensor(part, shape)>>))) = Units(shape)
  <2> DEFINE one == <<Tensor(part, shape)>>
             F == [k \in DOMAIN one |-> Units(one[k].shape)]
  <2>1. M(At(NoBlk, one)) \in Seq(Int) /\ SumFunction(M(At(NoBlk, one))) = CountParams(one)
    BY <1>3, <1>8, PlacedList, Zenon
  <2>2. DOMAIN one = {1} /\ one[1].shape = shape
    BY DEF Tensor
  <2>3. CountParams(one) = SumFunctionOnSet(F, {1}) /\ F[1] = Units(shape) /\ DOMAIN F = {1}
    <3>1. CountParams(one) = SumFunction(F)
      BY Zenon DEF CountParams
    <3>2. DOMAIN F = {1} /\ F[1] = Units(shape)
      BY <2>2
    <3> QED BY <3>1, <3>2, Zenon DEF SumFunction
  <2>4. Units(shape) \in Int
    BY ElementsIsNat DEF Units, Unit
  <2> HIDE DEF F
  <2>5. SumFunctionOnSet(F, {1}) = F[1]
    <3>1. IsFiniteSet({1}) /\ {1} \ {1} = {}
      BY FS_Singleton
    <3>2. SumFunctionOnSet(F, {1}) = F[1] + SumFunctionOnSet(F, {1} \ {1})
      BY <2>3, <2>4, <3>1, SumRemove
    <3>3. SumFunctionOnSet(F, {}) = 0
      BY SumOfNone
    <3>4. SumFunctionOnSet(F, {1} \ {1}) = 0
      BY <3>1, <3>3, Zenon
    <3> QED BY <2>3, <2>4, <3>2, <3>4
  <2> QED BY <2>1, <2>3, <2>5
<1>9. /\ M(TokenEmbd(c)) \in Seq(Int)
      /\ SumFunction(M(TokenEmbd(c))) = Units(<<c.vocab, c.hidden>>)
  <2> DEFINE shape == <<c.vocab, c.hidden>>
  <2>1. shape \in Seq(Nat)
    BY <1>3
  <2>2. <<Tensor("token_embd", shape)>> \in Seq(Templates)
    BY ModelLists
  <2> HIDE DEF shape, M
  <2>3. /\ M(At(NoBlk, <<Tensor("token_embd", shape)>>)) \in Seq(Int)
        /\ SumFunction(M(At(NoBlk, <<Tensor("token_embd", shape)>>))) = Units(shape)
    BY ONLY <1>8, <2>1, <2>2
  <2> QED BY <2>3, Zenon DEF TokenEmbd, shape
<1>10. M(OutputNorm(c)) \in Seq(Int) /\ SumFunction(M(OutputNorm(c))) = Units(<<c.hidden>>)
  <2> DEFINE shape == <<c.hidden>>
  <2>1. shape \in Seq(Nat)
    BY <1>3
  <2>2. <<Tensor("output_norm", shape)>> \in Seq(Templates)
    BY ModelLists
  <2> HIDE DEF shape, M
  <2>3. /\ M(At(NoBlk, <<Tensor("output_norm", shape)>>)) \in Seq(Int)
        /\ SumFunction(M(At(NoBlk, <<Tensor("output_norm", shape)>>))) = Units(shape)
    BY ONLY <1>8, <2>1, <2>2
  <2> QED BY <2>3, Zenon DEF OutputNorm, shape
<1>11. M(CrossKV(c)) \in Seq(Int) /\ SumFunction(M(CrossKV(c))) = CountParams(SharedCrossKV(c))
  BY <1>3, ModelLists, PlacedList DEF CrossKV
<1>12. /\ M(Embproj(c)) \in Seq(Int)
       /\ SumFunction(M(Embproj(c)))
          = IF c.embproj THEN CountParams(EmbprojTensors(c)) ELSE 0
  <2>1. CASE c.embproj
    BY <1>3, <2>1, ModelLists, PlacedList DEF Embproj
  <2>2. CASE ~c.embproj
    <3>1. M(Embproj(c)) = <<>>
      BY <2>2 DEF Embproj, Mapped
    <3>2. SumFunction(<<>>) = 0
      <4>1. DOMAIN <<>> = {}
        OBVIOUS
      <4> QED BY <4>1, SumOfNone, Zenon DEF SumFunction
    <3> QED BY <2>2, <3>1, <3>2
  <2> QED BY <2>1, <2>2
<1> DEFINE p1 == M(TokenEmbd(c))
           p2 == M(s2)
           p3 == M(s3)
           p4 == M(CrossKV(c))
           p5 == M(Embproj(c))
           p6 == M(OutputNorm(c))
           q2 == p1 \o p2
           q3 == q2 \o p3
           q4 == q3 \o p4
           q5 == q4 \o p5
<1>13. M(ts) = q5 \o p6
  BY AllMapped, Zenon
<1>14. /\ p1 \in Seq(Int) /\ p2 \in Seq(Int) /\ p3 \in Seq(Int)
       /\ p4 \in Seq(Int) /\ p5 \in Seq(Int) /\ p6 \in Seq(Int)
  BY <1>6, <1>7, <1>9, <1>10, <1>11, <1>12, Zenon
<1> HIDE DEF p1, p2, p3, p4, p5, p6
<1>15. q2 \in Seq(Int) /\ SumFunction(q2) = SumFunction(p1) + SumFunction(p2)
  BY ONLY <1>14, SumConcat
<1> HIDE DEF q2
<1>16. q3 \in Seq(Int) /\ SumFunction(q3) = SumFunction(q2) + SumFunction(p3)
  BY ONLY <1>14, <1>15, SumConcat
<1> HIDE DEF q3
<1>17. q4 \in Seq(Int) /\ SumFunction(q4) = SumFunction(q3) + SumFunction(p4)
  BY ONLY <1>14, <1>16, SumConcat
<1> HIDE DEF q4
<1>18. q5 \in Seq(Int) /\ SumFunction(q5) = SumFunction(q4) + SumFunction(p5)
  BY ONLY <1>14, <1>17, SumConcat
<1> HIDE DEF q5
<1>19. SumFunction(q5 \o p6) = SumFunction(q5) + SumFunction(p6)
  BY ONLY <1>14, <1>18, SumConcat
<1> DEFINE n1 == Units(<<c.vocab, c.hidden>>)
           n2 == (CountParams(as) + CountParams(fs)) * c.self
           n3 == (CountParams(cs) + CountParams(fs)) * c.cross
           n4 == CountParams(SharedCrossKV(c))
           n5 == IF c.embproj THEN CountParams(EmbprojTensors(c)) ELSE 0
           n6 == Units(<<c.hidden>>)
<1>20. /\ SumFunction(p1) = n1 /\ SumFunction(p2) = n2 /\ SumFunction(p3) = n3
       /\ SumFunction(p4) = n4 /\ SumFunction(p5) = n5 /\ SumFunction(p6) = n6
  BY <1>6, <1>7, <1>9, <1>10, <1>11, <1>12, Zenon DEF p1, p2, p3, p4, p5, p6
<1>21. TotalParams(c) = n2 + n3 + n4 + n5 + n1 + n6
  BY Zenon DEF TotalParams
<1>22. /\ SumFunction(p1) \in Int /\ SumFunction(p2) \in Int /\ SumFunction(p3) \in Int
       /\ SumFunction(p4) \in Int /\ SumFunction(p5) \in Int /\ SumFunction(p6) \in Int
  BY <1>14, SumOfSeq
<1> HIDE DEF n1, n2, n3, n4, n5, n6, M, ts, w
<1>23. SumFunction(q5 \o p6) = n2 + n3 + n4 + n5 + n1 + n6
  BY ONLY <1>15, <1>16, <1>17, <1>18, <1>19, <1>20, <1>22
<1>24. SumFunction([k \in DOMAIN w |-> Units(w[k].shape)]) = SumFunction(M(ts))
  BY <1>2, Zenon DEF M
<1> QED BY <1>13, <1>21, <1>23, <1>24, Zenon DEF w

\* The placed tensors that metadata m are true of.
TrueOf(m) ==
  {t \in Placed :
     /\ t.blk \in {NoBlk} \cup 0 .. m.block_count - 1
     /\ t.part = "token_embd" => t.shape = <<m.tokens, m.embedding_length>>
     /\ t.part = "attn_q" /\ t.kind = "weight" =>
          t.shape[1] = m.head_count[t.blk + 1] * m.key_length
     /\ t.part = "attn_output" =>
          2 * t.shape[2] = m.head_count[t.blk + 1] * m.key_length
     /\ t.part = "attn_k" /\ t.kind = "weight" =>
          t.shape[1] = m.head_count_kv[t.blk + 1] * m.key_length
     /\ t.part = "yoco_cross_k" =>
          t.shape[1] = m.head_count_kv[m.block_count] * m.key_length
     /\ t.part = "ffn_gate_inp" => t.shape[1] = m.experts}

LEMMA MetadataFields ==
  ASSUME NEW c \in Configurations
  PROVE  LET m == Metadata(c) IN
         /\ m.block_count = c.self + c.cross /\ m.embedding_length = c.hidden
         /\ m.key_length = c.headDim /\ m.tokens = VocabTokens(c)
         /\ c.moe => m.experts = c.experts
         /\ Len(m.swiglu_clamp) = m.block_count
         /\ \A i \in 1 .. c.self + c.cross :
              /\ m.head_count[i] = 2 * IF i <= c.self THEN c.heads ELSE c.crossHeads
              /\ m.head_count_kv[i] = IF i <= c.self THEN c.kvHeads ELSE c.crossKvHeads
<1>1. c.self + c.cross \in Nat
  BY DEF Configurations
<1>2. Len([i \in 1 .. c.self + c.cross |-> 10]) = c.self + c.cross
  BY <1>1
<1> QED BY <1>2 DEF Metadata

\* The tensors of a layer whose heads the metadata give, wherever it is placed.
LEMMA LayerTrue ==
  ASSUME NEW c \in Configurations, NEW heads \in Nat, NEW kvHeads \in Nat,
         NEW i \in 0 .. c.self + c.cross - 1,
         Metadata(c).head_count[i + 1] = 2 * heads,
         Metadata(c).head_count_kv[i + 1] = kvHeads,
         NEW ts \in Seq(LayerTemplates(c, heads, kvHeads))
  PROVE  At(i, ts) \in Seq(TrueOf(Metadata(c)))
<1> DEFINE m == Metadata(c)
           n == Len(ts)
           B == LayerTemplates(c, heads, kvHeads)
<1>1. n \in Nat /\ \A k \in 1 .. n : ts[k] \in B
  OBVIOUS
<1>2. B \subseteq Templates
  BY DEF LayerTemplates
<1>3. ts \in Seq(Templates)
  <2> HIDE DEF B
  <2>1. ts \in Seq(B)
    BY DEF B
  <2> QED BY <1>2, <2>1
<1>4. /\ At(i, ts) \in Seq(Placed) /\ Len(At(i, ts)) = n
      /\ \A k \in 1 .. n :
           At(i, ts)[k] = [blk |-> i, part |-> ts[k].part, kind |-> ts[k].kind,
                           shape |-> ts[k].shape]
  <2>1. i \in Int
    BY DEF Configurations
  <2> QED BY <1>3, <2>1, PlacedList
<1>5. /\ m.block_count = c.self + c.cross /\ m.key_length = c.headDim
      /\ c.moe => m.experts = c.experts
  BY MetadataFields
<1>6. m.head_count[i + 1] = 2 * heads /\ m.head_count_kv[i + 1] = kvHeads
  OBVIOUS
<1>7. c.headDim \in Nat /\ c.self \in Nat /\ c.cross \in Nat
  BY DEF Configurations
<1> HIDE DEF m, n, B
<1>8. ASSUME NEW k \in 1 .. n
      PROVE  At(i, ts)[k] \in TrueOf(m)
  <2> DEFINE x == ts[k]
             t == [blk |-> i, part |-> x.part, kind |-> x.kind, shape |-> x.shape]
  <2>1. x \in B
    BY <1>1
  <2>2. /\ x \in Templates /\ x.part \in LayerParts
        /\ x.part = "attn_q" /\ x.kind = "weight" => x.shape[1] = 2 * heads * c.headDim
        /\ x.part = "attn_output" => x.shape[2] = heads * c.headDim
        /\ x.part = "attn_k" /\ x.kind = "weight" => x.shape[1] = kvHeads * c.headDim
        /\ x.part = "ffn_gate_inp" => c.moe /\ x.shape[1] = c.experts
    BY <2>1 DEF B, LayerTemplates
  <2> HIDE DEF x
  <2>3. t.blk = i /\ t.part = x.part /\ t.kind = x.kind /\ t.shape = x.shape
    OBVIOUS
  <2>4. t \in Placed
    BY <2>2 DEF Templates, Placed
  <2>5. x.part # "token_embd" /\ x.part # "yoco_cross_k"
    BY <2>2 DEF LayerParts
  <2>6. i \in {NoBlk} \cup 0 .. m.block_count - 1
    BY <1>5, <1>7
  <2>7. 2 * (heads * c.headDim) = 2 * heads * c.headDim
    BY <1>7
  <2> HIDE DEF t
  <2>8. t \in TrueOf(m)
    BY <1>5, <1>6, <2>2, <2>3, <2>4, <2>5, <2>6, <2>7 DEF TrueOf
  <2> QED BY <1>4, <2>8 DEF t, x
<1>9. At(i, ts) \in Seq(TrueOf(m))
  <2> DEFINE p == At(i, ts)
             T == TrueOf(m)
  <2>1. p \in Seq(Placed) /\ Len(p) = n /\ \A k \in 1 .. n : p[k] \in T
    BY <1>4, <1>8
  <2> HIDE DEF p, T
  <2>2. p \in Seq(T)
    BY ONLY <2>1
  <2> QED BY <2>2 DEF p, T
<1> QED BY <1>9 DEF m

\* The tensors outside the layers.
LEMMA ModelTrue ==
  ASSUME NEW c \in Configurations, c.cross > 0, TokenizerVocab <= c.vocab,
         NEW ts \in Seq(ModelTemplates(c))
  PROVE  At(NoBlk, ts) \in Seq(TrueOf(Metadata(c)))
<1> DEFINE m == Metadata(c)
           n == Len(ts)
           B == ModelTemplates(c)
<1>1. n \in Nat /\ \A k \in 1 .. n : ts[k] \in B
  OBVIOUS
<1>2. B \subseteq Templates
  BY DEF ModelTemplates
<1>3. ts \in Seq(Templates)
  <2> HIDE DEF B
  <2>1. ts \in Seq(B)
    BY DEF B
  <2> QED BY <1>2, <2>1
<1>4. /\ At(NoBlk, ts) \in Seq(Placed) /\ Len(At(NoBlk, ts)) = n
      /\ \A k \in 1 .. n :
           At(NoBlk, ts)[k] = [blk |-> NoBlk, part |-> ts[k].part, kind |-> ts[k].kind,
                               shape |-> ts[k].shape]
  <2>1. NoBlk \in Int
    BY DEF NoBlk
  <2> QED BY <1>3, <2>1, PlacedList
<1>5. c.headDim \in Nat /\ c.self \in Nat /\ c.cross \in Nat /\ c.vocab \in Nat
  BY DEF Configurations
<1>6. /\ m.block_count = c.self + c.cross /\ m.key_length = c.headDim
      /\ m.embedding_length = c.hidden /\ m.tokens = c.vocab
      /\ m.head_count_kv[m.block_count] = c.crossKvHeads
  <2>0. TokenizerVocab \in Int
    BY ONLY GeneratorAssumption
  <2>1. VocabTokens(c) = c.vocab
    <3>1. c.vocab \in Int /\ TokenizerVocab <= c.vocab
      BY <1>5
    <3> QED BY ONLY <2>0, <3>1 DEF VocabTokens
  <2>2. c.self + c.cross \in 1 .. c.self + c.cross /\ ~(c.self + c.cross <= c.self)
    BY <1>5
  <2> QED BY <2>1, <2>2, MetadataFields
<1> HIDE DEF m, n, B
<1>7. ASSUME NEW k \in 1 .. n
      PROVE  At(NoBlk, ts)[k] \in TrueOf(m)
  <2> DEFINE x == ts[k]
             t == [blk |-> NoBlk, part |-> x.part, kind |-> x.kind, shape |-> x.shape]
  <2>1. x \in B
    BY <1>1
  <2>2. /\ x \in Templates /\ x.part \in ModelParts
        /\ x.part = "token_embd" => x.shape = <<c.vocab, c.hidden>>
        /\ x.part = "yoco_cross_k" => x.shape[1] = c.crossKvHeads * c.headDim
    BY <2>1 DEF B, ModelTemplates
  <2> HIDE DEF x
  <2>3. t.blk = NoBlk /\ t.part = x.part /\ t.kind = x.kind /\ t.shape = x.shape
    OBVIOUS
  <2>4. t \in Placed
    BY <2>2 DEF Templates, Placed, NoBlk
  <2>5. /\ x.part # "attn_q" /\ x.part # "attn_output" /\ x.part # "attn_k"
        /\ x.part # "ffn_gate_inp"
    BY <2>2 DEF ModelParts
  <2> HIDE DEF t
  <2>6. t \in TrueOf(m)
    BY <1>6, <2>2, <2>3, <2>4, <2>5 DEF TrueOf
  <2> QED BY <1>4, <2>6 DEF t, x
<1>8. At(NoBlk, ts) \in Seq(TrueOf(m))
  <2> DEFINE p == At(NoBlk, ts)
             T == TrueOf(m)
  <2>1. p \in Seq(Placed) /\ Len(p) = n /\ \A k \in 1 .. n : p[k] \in T
    BY <1>4, <1>7
  <2> HIDE DEF p, T
  <2>2. p \in Seq(T)
    BY ONLY <2>1
  <2> QED BY <2>2 DEF p, T
<1> QED BY <1>8 DEF m

\* All tensors of a model are what the metadata say ...
LEMMA AllTrue ==
  ASSUME NEW c \in Configurations, c.cross > 0, TokenizerVocab <= c.vocab
  PROVE  AllTensors(c) \in Seq(TrueOf(Metadata(c)))
<1> DEFINE m == Metadata(c)
           T == TrueOf(m)
           as == SelfAttnTensors(c)
           cs == CrossAttnTensors(c)
           fs == FfnTensors(c)
<1>1. /\ c.self \in Nat /\ c.cross \in Nat /\ c.heads \in Nat /\ c.kvHeads \in Nat
      /\ c.crossHeads \in Nat /\ c.crossKvHeads \in Nat
  BY DEF Configurations
<1>2. /\ TokenEmbd(c) \in Seq(T) /\ CrossKV(c) \in Seq(T) /\ OutputNorm(c) \in Seq(T)
      /\ At(NoBlk, EmbprojTensors(c)) \in Seq(T)
  <2> HIDE DEF T
  <2> QED BY ModelTyped, ModelTrue DEF TokenEmbd, CrossKV, OutputNorm, T
<1>3. Embproj(c) \in Seq(T)
  <2> HIDE DEF T
  <2> QED BY <1>2 DEF Embproj
<1>4. ASSUME NEW i \in 0 .. c.self - 1
      PROVE  At(i, as) \o At(i, fs) \in Seq(T)
  <2>1. /\ i \in 0 .. c.self + c.cross - 1 /\ i + 1 \in 1 .. c.self + c.cross
        /\ i + 1 <= c.self
    BY <1>1
  <2>2. m.head_count[i + 1] = 2 * c.heads /\ m.head_count_kv[i + 1] = c.kvHeads
    BY <2>1, MetadataFields
  <2>3. as \in Seq(LayerTemplates(c, c.heads, c.kvHeads))
        /\ fs \in Seq(LayerTemplates(c, c.heads, c.kvHeads))
    BY SelfAttnTyped, FfnTyped
  <2> HIDE DEF as, fs
  <2>4. At(i, as) \in Seq(T) /\ At(i, fs) \in Seq(T)
    BY ONLY c \in Configurations, <1>1, <2>1, <2>2, <2>3, LayerTrue
  <2> HIDE DEF T
  <2>5. \A p, q \in Seq(T) : p \o q \in Seq(T)
    OBVIOUS
  <2> QED BY ONLY <2>4, <2>5
<1>5. ASSUME NEW i \in c.self .. c.self + c.cross - 1
      PROVE  At(i, cs) \o At(i, fs) \in Seq(T)
  <2>1. /\ i \in 0 .. c.self + c.cross - 1 /\ i + 1 \in 1 .. c.self + c.cross
        /\ ~(i + 1 <= c.self)
    BY <1>1
  <2>2. m.head_count[i + 1] = 2 * c.crossHeads /\ m.head_count_kv[i + 1] = c.crossKvHeads
    BY <2>1, MetadataFields
  <2>3. cs \in Seq(LayerTemplates(c, c.crossHeads, c.crossKvHeads))
        /\ fs \in Seq(LayerTemplates(c, c.crossHeads, c.crossKvHeads))
    BY CrossAttnTyped, FfnTyped
  <2> HIDE DEF cs, fs
  <2>4. At(i, cs) \in Seq(T) /\ At(i, fs) \in Seq(T)
    BY ONLY c \in Configurations, <1>1, <2>1, <2>2, <2>3, LayerTrue
  <2> HIDE DEF T
  <2>5. \A p, q \in Seq(T) : p \o q \in Seq(T)
    OBVIOUS
  <2> QED BY ONLY <2>4, <2>5
<1> HIDE DEF T
<1>6. FlattenSeq(SelfBlocks(c)) \in Seq(T)
  <2> DEFINE P == Seq(T)
             F(l) == At(l - 1, as) \o At(l - 1, fs)
  <2>1. \A l \in 1 .. c.self : l - 1 \in 0 .. c.self - 1
    BY <1>1
  <2>2. \A l \in 1 .. c.self : F(l) \in P
    BY <1>4, <2>1
  <2>3. SelfBlocks(c) = [l \in 1 .. c.self |-> F(l)]
    BY DEF SelfBlocks
  <2> HIDE DEF F, P
  <2>4. SelfBlocks(c) \in Seq(P)
    BY <1>1, <2>2, <2>3
  <2> QED BY <2>4, FlattenElements DEF P
<1>7. FlattenSeq(CrossBlocks(c)) \in Seq(T)
  <2> DEFINE P == Seq(T)
             F(l) == At(c.self + l - 1, cs) \o At(c.self + l - 1, fs)
  <2>1. \A l \in 1 .. c.cross : c.self + l - 1 \in c.self .. c.self + c.cross - 1
    BY <1>1
  <2>2. \A l \in 1 .. c.cross : F(l) \in P
    BY <1>5, <2>1
  <2>3. CrossBlocks(c) = [l \in 1 .. c.cross |-> F(l)]
    BY DEF CrossBlocks
  <2> HIDE DEF F, P
  <2>4. CrossBlocks(c) \in Seq(P)
    BY <1>1, <2>2, <2>3
  <2> QED BY <2>4, FlattenElements DEF P
<1>8. AllTensors(c) \in Seq(T)
  <2> DEFINE p1 == TokenEmbd(c)
             p2 == FlattenSeq(SelfBlocks(c))
             p3 == FlattenSeq(CrossBlocks(c))
             p4 == CrossKV(c)
             p5 == Embproj(c)
             p6 == OutputNorm(c)
  <2>1. AllTensors(c) = p1 \o p2 \o p3 \o p4 \o p5 \o p6
    BY AllTensorsLaidOut, Zenon
  <2> HIDE DEF p1, p2, p3, p4, p5, p6
  <2>2. /\ p1 \in Seq(T) /\ p2 \in Seq(T) /\ p3 \in Seq(T)
        /\ p4 \in Seq(T) /\ p5 \in Seq(T) /\ p6 \in Seq(T)
    BY <1>2, <1>3, <1>6, <1>7 DEF p1, p2, p3, p4, p5, p6
  <2>3. p1 \o p2 \o p3 \o p4 \o p5 \o p6 \in Seq(T)
    BY ONLY <2>2
  <2> QED BY <2>1, <2>3
<1> QED BY <1>8 DEF T

\* ... and every part of the layout is there.
LEMMA AllPartsThere ==
  ASSUME NEW c \in Configurations
  PROVE  /\ ToSet(TokenEmbd(c)) \subseteq ToSet(AllTensors(c))
         /\ ToSet(FlattenSeq(SelfBlocks(c))) \subseteq ToSet(AllTensors(c))
         /\ ToSet(FlattenSeq(CrossBlocks(c))) \subseteq ToSet(AllTensors(c))
<1> DEFINE p1 == TokenEmbd(c)
           p2 == FlattenSeq(SelfBlocks(c))
           p3 == FlattenSeq(CrossBlocks(c))
           p4 == CrossKV(c)
           p5 == Embproj(c)
           p6 == OutputNorm(c)
           q2 == p1 \o p2
           q3 == q2 \o p3
           q4 == q3 \o p4
           q5 == q4 \o p5
<1>1. /\ p1 \in Seq(Placed) /\ p2 \in Seq(Placed) /\ p3 \in Seq(Placed)
      /\ p4 \in Seq(Placed) /\ p5 \in Seq(Placed) /\ p6 \in Seq(Placed)
  BY PartsTyped
<1>2. AllTensors(c) = q5 \o p6
  BY AllTensorsLaidOut, Zenon
<1> HIDE DEF p1, p2, p3, p4, p5, p6
<1>3. /\ q2 \in Seq(Placed) /\ q3 \in Seq(Placed) /\ q4 \in Seq(Placed) /\ q5 \in Seq(Placed)
  BY <1>1
<1>4. /\ q2 = p1 \o p2 /\ q3 = q2 \o p3 /\ q4 = q3 \o p4 /\ q5 = q4 \o p5
  OBVIOUS
<1>5. \A a, b \in Seq(Placed) : ToSet(a \o b) = ToSet(a) \cup ToSet(b)
  BY ONLY ToSetConcat
<1> HIDE DEF q2, q3, q4, q5
<1>6. /\ ToSet(p1 \o p2) = ToSet(p1) \cup ToSet(p2)
      /\ ToSet(q2 \o p3) = ToSet(q2) \cup ToSet(p3)
  BY ONLY <1>1, <1>3, <1>5, Zenon
<1>7. /\ ToSet(q3 \o p4) = ToSet(q3) \cup ToSet(p4)
      /\ ToSet(q4 \o p5) = ToSet(q4) \cup ToSet(p5)
  BY ONLY <1>1, <1>3, <1>5, Zenon
<1>8. ToSet(q5 \o p6) = ToSet(q5) \cup ToSet(p6)
  BY ONLY <1>1, <1>3, <1>5, Zenon
<1>9. /\ ToSet(p1) \subseteq ToSet(q5 \o p6) /\ ToSet(p2) \subseteq ToSet(q5 \o p6)
      /\ ToSet(p3) \subseteq ToSet(q5 \o p6)
  BY ONLY <1>4, <1>6, <1>7, <1>8
<1> QED BY <1>2, <1>9 DEF p1, p2, p3

\* A placed list has its block throughout.
LEMMA PlacedBlk ==
  ASSUME NEW ts \in Seq(Templates), NEW i
  PROVE  \A k \in 1 .. Len(ts) : At(i, ts)[k].blk = i
<1>1. DOMAIN ts = 1 .. Len(ts)
  OBVIOUS
<1> QED BY <1>1 DEF At

\* Every block has a tensor, and so has no block.
Blocks(c) == {NoBlk} \cup 0 .. c.self + c.cross - 1

LEMMA BlocksThere ==
  ASSUME NEW c \in Configurations, NEW i \in Blocks(c)
  PROVE  \E t \in ToSet(AllTensors(c)) : t.blk = i
<1>1. c.self \in Nat /\ c.cross \in Nat /\ NoBlk \in Int
  BY DEF Configurations, NoBlk
<1>2. ASSUME NEW ts \in Seq(Templates), NEW j \in Int, Len(ts) > 0, NEW q \in Seq(Placed)
      PROVE  \E t \in ToSet(At(j, ts) \o q) : t.blk = j
  <2> DEFINE p == At(j, ts)
  <2>0. /\ p \in Seq(Placed) /\ Len(p) = Len(ts)
        /\ \A k \in 1 .. Len(ts) : p[k].blk = j
    BY <1>2, PlacedList, PlacedBlk
  <2>1. p \in Seq(Placed) /\ Len(p) = Len(ts) /\ 1 \in 1 .. Len(p) /\ p[1].blk = j
    <3>1. 1 \in 1 .. Len(ts)
      BY <1>2
    <3> HIDE DEF p
    <3> QED BY <2>0, <3>1
  <2> HIDE DEF p
  <2>2. p[1] \in ToSet(p)
    BY ONLY <2>1 DEF ToSet
  <2>3. q \in Seq(Placed)
    OBVIOUS
  <2>4. ToSet(p \o q) = ToSet(p) \cup ToSet(q)
    BY ONLY <2>1, <2>3, ToSetConcat
  <2>5. p[1] \in ToSet(p \o q) /\ p[1].blk = j
    BY ONLY <2>1, <2>2, <2>4
  <2> QED BY <2>5 DEF p
<1>3. CASE i = NoBlk
  <2> DEFINE ts == <<Tensor("token_embd", <<c.vocab, c.hidden>>)>>
  <2>1. ts \in Seq(Templates)
    BY ModelLists
  <2>2. Len(ts) = 1
    OBVIOUS
  <2> HIDE DEF ts
  <2>3. /\ At(NoBlk, ts) \in Seq(Placed) /\ Len(At(NoBlk, ts)) = 1
        /\ At(NoBlk, ts)[1].blk = NoBlk
    <3>1. /\ At(NoBlk, ts) \in Seq(Placed) /\ Len(At(NoBlk, ts)) = Len(ts)
          /\ \A k \in 1 .. Len(ts) : At(NoBlk, ts)[k].blk = NoBlk
      BY <1>1, <2>1, PlacedList, PlacedBlk
    <3>2. 1 \in 1 .. Len(ts)
      BY <2>2
    <3> QED BY <2>2, <3>1, <3>2
  <2>4. At(NoBlk, ts)[1] \in ToSet(At(NoBlk, ts))
    BY <2>3 DEF ToSet
  <2>5. At(NoBlk, ts) = TokenEmbd(c)
    BY DEF TokenEmbd, ts
  <2> QED BY <1>3, <2>3, <2>4, <2>5, AllPartsThere
<1>4. /\ SelfAttnTensors(c) \in Seq(Templates) /\ CrossAttnTensors(c) \in Seq(Templates)
      /\ FfnTensors(c) \in Seq(Templates)
  BY LayerLists
<1>5. \A j \in Int : At(j, FfnTensors(c)) \in Seq(Placed)
  BY <1>4, PlacedList
<1>6. Len(SelfAttnTensors(c)) > 0 /\ Len(CrossAttnTensors(c)) > 0
  <2>1. \A p, q \in Seq(Templates) : Len(q) > 0 => Len(p \o q) > 0
    OBVIOUS
  <2> QED BY DEF SelfAttnTensors, CrossAttnTensors, Acts
<1>7. CASE i \in 0 .. c.self - 1
  <2> DEFINE s == SelfBlocks(c)
             as == SelfAttnTensors(c)
             fs == FfnTensors(c)
             l == i + 1
  <2>1. s \in Seq(Seq(Placed)) /\ Len(s) = c.self
    BY PartsTyped
  <2>2. l \in 1 .. c.self /\ l - 1 = i /\ i \in Int
    BY <1>1, <1>7
  <2>3. s[l] = At(l - 1, as) \o At(l - 1, fs)
    BY <2>2 DEF SelfBlocks
  <2>4. s[l] = At(i, as) \o At(i, fs)
    BY <2>2, <2>3
  <2> HIDE DEF s, as, fs, l
  <2>5. PICK t \in ToSet(s[l]) : t.blk = i
    <3>1. as \in Seq(Templates) /\ Len(as) > 0 /\ At(i, fs) \in Seq(Placed)
      BY <1>4, <1>5, <1>6, <2>2 DEF as, fs
    <3> DEFINE q == At(i, fs)
    <3>2. \E t \in ToSet(At(i, as) \o q) : t.blk = i
      <4> HIDE DEF q
      <4>1. q \in Seq(Placed)
        BY <3>1 DEF q
      <4> QED BY ONLY <1>2, <2>2, <3>1, <4>1, Zenon
    <3> QED BY ONLY <2>4, <3>2, Zenon
  <2>6. ToSet(FlattenSeq(s)) = UNION {ToSet(s[k]) : k \in 1 .. Len(s)}
    BY <2>1, FlattenElements, Zenon
  <2>7. t \in ToSet(FlattenSeq(s))
    BY <2>1, <2>2, <2>5, <2>6
  <2> QED BY <2>5, <2>7, AllPartsThere DEF s
<1>8. CASE i \in c.self .. c.self + c.cross - 1
  <2> DEFINE s == CrossBlocks(c)
             cs == CrossAttnTensors(c)
             fs == FfnTensors(c)
             l == i - c.self + 1
  <2>1. s \in Seq(Seq(Placed)) /\ Len(s) = c.cross
    BY PartsTyped
  <2>2. l \in 1 .. c.cross /\ c.self + l - 1 = i /\ i \in Int
    BY <1>1, <1>8
  <2>3. s[l] = At(c.self + l - 1, cs) \o At(c.self + l - 1, fs)
    BY <2>2 DEF CrossBlocks
  <2>4. s[l] = At(i, cs) \o At(i, fs)
    BY <2>2, <2>3
  <2> HIDE DEF s, cs, fs, l
  <2>5. PICK t \in ToSet(s[l]) : t.blk = i
    <3>1. cs \in Seq(Templates) /\ Len(cs) > 0 /\ At(i, fs) \in Seq(Placed)
      BY <1>4, <1>5, <1>6, <2>2 DEF cs, fs
    <3> QED BY ONLY <1>2, <2>2, <2>4, <3>1
  <2>6. ToSet(FlattenSeq(s)) = UNION {ToSet(s[k]) : k \in 1 .. Len(s)}
    BY <2>1, FlattenElements, Zenon
  <2>7. t \in ToSet(FlattenSeq(s))
    BY <2>1, <2>2, <2>5, <2>6
  <2> QED BY <2>5, <2>7, AllPartsThere DEF s
<1> QED BY <1>1, <1>3, <1>7, <1>8 DEF Blocks

\* What add_model_params and add_vocab announce is true of what is written, for
\* every configuration with a cross-decoder and a row for every token.
THEOREM MetadataDescribe ==
  \A c \in Configurations :
    c.cross > 0 /\ TokenizerVocab <= c.vocab => Describes(Metadata(c), ToSet(Written(c)))
<1> SUFFICES ASSUME NEW c \in Configurations, c.cross > 0, TokenizerVocab <= c.vocab
             PROVE  Describes(Metadata(c), ToSet(Written(c)))
  OBVIOUS
<1> DEFINE m == Metadata(c)
           ts == AllTensors(c)
           w == Written(c)
<1>1. ts \in Seq(TrueOf(m)) /\ ts \in Seq(Placed) /\ w = Mapped(Registering, ts)
  BY AllTrue, AllTyped, PassesAgree
<1>2. /\ {NoBlk} \cup 0 .. m.block_count - 1 = Blocks(c)
      /\ Len(m.swiglu_clamp) = m.block_count
  <2>1. m.block_count = c.self + c.cross /\ Len(m.swiglu_clamp) = m.block_count
    BY MetadataFields
  <2> HIDE DEF m
  <2>2. c.self \in Nat /\ c.cross \in Nat
    BY DEF Configurations
  <2>3. m.block_count - 1 = c.self + c.cross - 1
    BY <2>1, <2>2
  <2> QED BY <2>1, <2>3, Zenon DEF Blocks
<1>3. \A i \in Blocks(c) : \E t \in ToSet(ts) : t.blk = i
  BY BlocksThere
<1> HIDE DEF m, ts, w
<1>4. ToSet(w) = {Registering[t] : t \in ToSet(ts)} /\ ToSet(ts) \subseteq TrueOf(m)
      /\ ToSet(ts) \subseteq Placed
  BY <1>1 DEF ToSet, Mapped
<1>5. \A t \in Placed : /\ Registering[t].blk = t.blk /\ Registering[t].part = t.part
                        /\ Registering[t].kind = t.kind /\ Registering[t].shape = t.shape
  BY DEF Registering, Stored
<1>6. {t.blk : t \in ToSet(w)} = {NoBlk} \cup 0 .. m.block_count - 1
  <2>1. ASSUME NEW t \in ToSet(w)
        PROVE  t.blk \in {NoBlk} \cup 0 .. m.block_count - 1
    <3>1. PICK x \in ToSet(ts) : t = Registering[x]
      BY <1>4
    <3>2. t.blk = x.blk /\ x \in TrueOf(m)
      BY <1>4, <1>5, <3>1
    <3> QED BY <3>2 DEF TrueOf
  <2>2. ASSUME NEW i \in Blocks(c)
        PROVE  \E t \in ToSet(w) : t.blk = i
    <3>1. PICK x \in ToSet(ts) : x.blk = i
      BY <1>3
    <3>2. Registering[x] \in ToSet(w) /\ Registering[x].blk = i
      BY <1>4, <1>5, <3>1
    <3> QED BY <3>2
  <2>3. \A t \in ToSet(w) : t.blk \in Blocks(c)
    BY <1>2, <2>1, Zenon
  <2>4. {t.blk : t \in ToSet(w)} = Blocks(c)
    BY <2>2, <2>3
  <2> QED BY <1>2, <2>4, Zenon
<1>7. ASSUME NEW t \in ToSet(w)
      PROVE  /\ t.part = "token_embd" => t.shape = <<m.tokens, m.embedding_length>>
             /\ t.part = "attn_q" /\ t.kind = "weight" =>
                  t.shape[1] = m.head_count[t.blk + 1] * m.key_length
             /\ t.part = "attn_output" =>
                  2 * t.shape[2] = m.head_count[t.blk + 1] * m.key_length
             /\ t.part = "attn_k" /\ t.kind = "weight" =>
                  t.shape[1] = m.head_count_kv[t.blk + 1] * m.key_length
             /\ t.part = "yoco_cross_k" =>
                  t.shape[1] = m.head_count_kv[m.block_count] * m.key_length
             /\ t.part = "ffn_gate_inp" => t.shape[1] = m.experts
  <2>1. PICK x \in ToSet(ts) : t = Registering[x]
    BY <1>4
  <2>2. /\ t.blk = x.blk /\ t.part = x.part /\ t.kind = x.kind /\ t.shape = x.shape
        /\ x \in TrueOf(m)
    BY <1>4, <1>5, <2>1
  <2> QED BY <2>2 DEF TrueOf
<1>8. Describes(m, ToSet(w))
  BY <1>2, <1>6, <1>7, Zenon DEF Describes
<1> QED BY <1>8 DEF m, w

\* The sequences of each script are those of its configuration, which has a
\* cross-decoder and a row for every token of its tokenizer.
LEMMA FamilySequences ==
  ASSUME NEW f \in Families
  PROVE  /\ WrittenOf[f] = Written(Config[f]) /\ RegisteredOf[f] = Registered(Config[f])
         /\ Config[f].cross = 10 /\ Config[f].vocab = 154880
<1>1. /\ Moe30B.cross = 10 /\ Moe30B.vocab = 154880
      /\ UMoe30B.cross = 10 /\ UMoe30B.vocab = 154880
      /\ Dense3B9216.cross = 10 /\ Dense3B9216.vocab = 154880
      /\ Dense3B11520.cross = 10 /\ Dense3B11520.vocab = 154880
      /\ UDense6B9216.cross = 10 /\ UDense6B9216.vocab = 154880
      /\ UDense6B11520.cross = 10 /\ UDense6B11520.vocab = 154880
  BY DEF Moe30B, UMoe30B, Dense3B9216, Dense3B11520, UDense6B9216, UDense6B11520
<1>2. Families = {"moe_30b", "u_moe_30b", "dense_3b_9216", "dense_3b_11520",
                  "u_dense_6b_9216", "u_dense_6b_11520"}
  BY DEF Families, Config
<1>3. CASE f = "moe_30b"
  BY <1>1, <1>3 DEF Config, WrittenOf, RegisteredOf
<1>4. CASE f = "u_moe_30b"
  BY <1>1, <1>4 DEF Config, WrittenOf, RegisteredOf, UMoe30BWritten, UMoe30BRegistered
<1>5. CASE f = "dense_3b_9216"
  BY <1>1, <1>5 DEF Config, WrittenOf, RegisteredOf, Dense3B9216Written, Dense3B9216Registered
<1>6. CASE f = "dense_3b_11520"
  BY <1>1, <1>6 DEF Config, WrittenOf, RegisteredOf, Dense3B11520Written,
                    Dense3B11520Registered
<1>7. CASE f = "u_dense_6b_9216"
  BY <1>1, <1>7 DEF Config, WrittenOf, RegisteredOf, UDense6B9216Written,
                    UDense6B9216Registered
<1>8. CASE f = "u_dense_6b_11520"
  BY <1>1, <1>8 DEF Config, WrittenOf, RegisteredOf, UDense6B11520Written,
                    UDense6B11520Registered
<1> QED BY <1>2, <1>3, <1>4, <1>5, <1>6, <1>7, <1>8

\* The sizes of a family's tensors, in the order they are written.
SizesOf(f) == [k \in DOMAIN WrittenOf[f] |-> Units(WrittenOf[f][k].shape)]

LEMMA FamilyFacts ==
  ASSUME NEW f \in Families
  PROVE  /\ WrittenOf[f] = RegisteredOf[f]
         /\ Len(WrittenOf[f]) \in Nat /\ SizesOf(f) \in Seq(Int)
         /\ Len(SizesOf(f)) = Len(WrittenOf[f])
         /\ \A k \in 1 .. Len(WrittenOf[f]) : SizesOf(f)[k] = Units(WrittenOf[f][k].shape)
         /\ SumFunction(SizesOf(f)) = TotalParams(Config[f])
         /\ Describes(Metadata(Config[f]), ToSet(WrittenOf[f]))
<1> DEFINE c == Config[f]
           w == WrittenOf[f]
           ts == AllTensors(c)
<1>1. c \in Configurations /\ w = Written(c) /\ RegisteredOf[f] = Registered(c)
  BY ConfigTyped, FamilySequences
<1>2. c.cross > 0 /\ TokenizerVocab <= c.vocab
  BY FamilySequences, GeneratorAssumption
<1> HIDE DEF c
<1>3. w = RegisteredOf[f]
  BY <1>1, PassesAgree
<1>4. ts \in Seq(Placed) /\ w = Mapped(Registering, ts)
  BY <1>1, PassesAgree, AllTyped
<1>5. DOMAIN w = 1 .. Len(ts) /\ Len(w) = Len(ts) /\ Len(w) \in Nat
      /\ \A k \in 1 .. Len(ts) : ts[k] \in Placed /\ w[k] = Registering[ts[k]]
  <2> HIDE DEF ts, w
  <2> QED BY <1>4 DEF Mapped
<1> HIDE DEF w, ts
<1>6. ASSUME NEW k \in 1 .. Len(w)
      PROVE  Units(w[k].shape) \in Int
  <2>0. \A t \in Placed : Registering[t].shape = t.shape
    BY DEF Registering, Stored
  <2>1. ts[k] \in Placed /\ w[k].shape = ts[k].shape
    <3>1. k \in 1 .. Len(ts)
      BY <1>5
    <3>2. ts[k] \in Placed /\ w[k] = Registering[ts[k]]
      BY <1>5, <3>1
    <3> QED BY <2>0, <3>2
  <2>2. ts[k].shape \in Seq(Nat)
    BY <2>1 DEF Placed
  <2>3. Elements(ts[k].shape) \in Nat
    BY <2>2, ElementsIsNat
  <2> QED BY <2>1, <2>3 DEF Units, Unit
<1>7. /\ SizesOf(f) \in Seq(Int) /\ Len(SizesOf(f)) = Len(w)
      /\ \A k \in 1 .. Len(w) : SizesOf(f)[k] = Units(w[k].shape)
  <2>1. SizesOf(f) = [k \in 1 .. Len(w) |-> Units(w[k].shape)]
    BY <1>5 DEF SizesOf, w
  <2> QED BY <1>5, <1>6, <2>1
<1>8. SumFunction(SizesOf(f)) = TotalParams(c)
  BY <1>1, CountsWhatIsWritten, Zenon DEF SizesOf, w
<1>9. Describes(Metadata(c), ToSet(w))
  BY <1>1, <1>2, MetadataDescribe
<1> QED BY <1>3, <1>5, <1>7, <1>8, <1>9 DEF w, c

\* While a file is written, every tensor so far is where the first pass put it
\* and has been counted; a complete file of this run has all of them.
WritingInv ==
  /\ PairInv
  /\ family \in {"none"} \cup Families
  /\ family = "none" => pc = "idle" /\ ~f16.complete
  /\ run \in Nat /\ f16.by \in 0 .. run
  /\ pc \in {"model_dir", "f16"} => f16.by # run /\ elements = 0
  /\ at = declared
  /\ pc = "write" => /\ next \in 1 .. Len(WrittenOf[family]) + 1
                     /\ elements = SumFunctionOnSet(SizesOf(family), 1 .. next - 1)
  /\ f16.complete /\ f16.by = run =>
       /\ next = Len(WrittenOf[family]) + 1
       /\ elements = TotalParams(Config[family])

LEMMA WritingInvInit == GenInit => WritingInv
<1> SUFFICES ASSUME GenInit PROVE WritingInv
  OBVIOUS
<1>1. PairInv
  BY PairInvInit
<1> QED BY <1>1 DEF GenInit, NoFile, WritingInv

LEMMA WritingInvNext == WritingInv /\ [GenNext]_genVars => WritingInv'
<1> SUFFICES ASSUME WritingInv, [GenNext]_genVars PROVE WritingInv'
  OBVIOUS
<1>0. PairInv'
  BY PairInvNext DEF WritingInv
<1>1. ASSUME NEW f \in Families, NEW s \in [f16 : BOOLEAN, i2s : BOOLEAN], Start(f, s)
      PROVE  WritingInv'
  <2>1. /\ pc' = "model_dir" /\ family' = f /\ run' = run + 1 /\ f16' = f16
        /\ at' = 0 /\ declared' = 0 /\ elements' = 0
    BY <1>1 DEF Start, files
  <2>2. run' \in Nat /\ f16'.by \in 0 .. run' /\ f16'.by # run'
    <3>1. run \in Nat /\ f16.by \in 0 .. run
      BY DEF WritingInv
    <3> QED BY <2>1, <3>1
  <2>3. family' \in Families /\ family' # "none"
    BY <2>1 DEF Families, Config
  <2> QED BY <1>0, <2>1, <2>2, <2>3 DEF WritingInv
<1>2. CASE CreateModelDir
  BY <1>0, <1>2 DEF WritingInv, CreateModelDir, Goto, writing
<1>3. CASE ReuseF16
  <2>1. pc' \in {"i2s", "exited"} /\ pc = "f16" /\ UNCHANGED <<family, run, writing, f16>>
    BY <1>3 DEF ReuseF16, Goto, Exit, files
  <2> QED BY <1>0, <2>1 DEF WritingInv, writing
<1>4. CASE OpenF16
  <2>1. /\ pc = "f16" /\ pc' = "write" /\ next' = 1
        /\ f16' = [by |-> run, complete |-> FALSE, of |-> run]
        /\ UNCHANGED <<family, run, at, declared, elements>>
    BY <1>4 DEF OpenF16, Goto
  <2>2. family \in Families /\ elements' = 0 /\ run \in Nat
    BY <2>1 DEF WritingInv
  <2>3. f16'.by = run /\ ~f16'.complete
    BY <2>1
  <2>4. SumFunctionOnSet(SizesOf(family), 1 .. next' - 1) = 0
    <3>1. 1 .. next' - 1 = {}
      BY <2>1
    <3>2. SumFunctionOnSet(SizesOf(family), {}) = 0
      BY SumOfNone
    <3> QED BY <3>1, <3>2, Zenon
  <2>5. next' \in 1 .. Len(WrittenOf[family]) + 1
    BY <2>1, <2>2, FamilyFacts
  <2> QED BY <1>0, <2>1, <2>2, <2>3, <2>4, <2>5 DEF WritingInv
<1>5. CASE WriteTensor
  <2> DEFINE w == WrittenOf[family]
             Z == SizesOf(family)
  <2>1. /\ pc = "write" /\ next <= Len(w) /\ next' = next + 1
        /\ at' = at + w[next].nbytes
        /\ declared' = declared + RegisteredOf[family][next].nbytes
        /\ elements' = elements + Units(w[next].shape)
        /\ UNCHANGED <<family, pc, run, f16>>
    BY <1>5 DEF WriteTensor, files
  <2>2. /\ family \in Families /\ next \in 1 .. Len(w) + 1
        /\ elements = SumFunctionOnSet(Z, 1 .. next - 1) /\ at = declared
    BY <2>1 DEF WritingInv
  <2>3. /\ w = RegisteredOf[family] /\ Len(w) \in Nat /\ Z \in Seq(Int) /\ Len(Z) = Len(w)
        /\ \A k \in 1 .. Len(w) : Z[k] = Units(w[k].shape)
    BY <2>2, FamilyFacts
  <2> HIDE DEF w, Z
  <2>4. at' = declared'
    BY <2>1, <2>2, <2>3
  <2>5. next \in 1 .. Len(w) /\ next \in Nat \ {0} /\ next' \in 1 .. Len(w) + 1
        /\ next' - 1 = next
    BY <2>1, <2>2, <2>3
  <2>6. \A k \in 1 .. next : Z[k] \in Int
    BY <2>3, <2>5
  <2>7. SumFunctionOnSet(Z, 1 .. next) = SumFunctionOnSet(Z, 1 .. next - 1) + Z[next]
    BY ONLY <2>5, <2>6, SumUpTo
  <2>8. elements' = SumFunctionOnSet(Z, 1 .. next)
    BY <2>1, <2>2, <2>3, <2>5, <2>7
  <2>9. elements' = SumFunctionOnSet(Z, 1 .. next' - 1)
    BY <2>5, <2>8, Zenon
  <2>10. ~(f16.complete /\ f16.by = run)
    <3>1. f16 = [by |-> run, complete |-> FALSE, of |-> run]
      BY <2>1 DEF WritingInv, PairInv
    <3> QED BY <3>1
  <2> QED BY <1>0, <2>1, <2>2, <2>4, <2>5, <2>9, <2>10 DEF WritingInv, w, Z
<1>6. CASE CloseF16
  <2> DEFINE w == WrittenOf[family]
             Z == SizesOf(family)
  <2>1. /\ pc = "write" /\ next > Len(w) /\ pc' = "i2s"
        /\ UNCHANGED <<family, run, next, at, declared, elements>>
    BY <1>6 DEF CloseF16, Goto, writing
  <2>2. f16' = [by |-> run, complete |-> TRUE, of |-> run]
    <3>1. f16 = [by |-> run, complete |-> FALSE, of |-> run]
      BY <2>1 DEF WritingInv, PairInv
    <3>2. f16' = [f16 EXCEPT !.complete = TRUE]
      BY <1>6 DEF CloseF16
    <3> QED BY <3>1, <3>2
  <2>3. /\ family \in Families /\ next \in 1 .. Len(w) + 1
        /\ elements = SumFunctionOnSet(Z, 1 .. next - 1)
    BY <2>1 DEF WritingInv
  <2>4. /\ Len(w) \in Nat /\ Z \in Seq(Int) /\ Len(Z) = Len(w)
        /\ SumFunction(Z) = TotalParams(Config[family])
    BY <2>3, FamilyFacts
  <2> HIDE DEF w, Z
  <2>5. next = Len(w) + 1 /\ next - 1 = Len(Z)
    BY <2>1, <2>3, <2>4
  <2>6. SumFunction(Z) = SumFunctionOnSet(Z, 1 .. Len(Z))
    BY <2>4, SumOfSeq
  <2>7. elements = TotalParams(Config[family])
    BY <2>3, <2>4, <2>5, <2>6, Zenon
  <2> QED BY <1>0, <2>1, <2>2, <2>3, <2>5, <2>7 DEF WritingInv, w
<1>7. CASE StartQuantize
  <2>1. pc = "i2s" /\ pc' \in {"report", "quantize"}
        /\ UNCHANGED <<family, run, writing, f16>>
    BY <1>7 DEF StartQuantize, Goto, files
  <2> QED BY <1>0, <2>1 DEF WritingInv, writing
<1>8. CASE Quantize
  <2>1. pc = "quantize" /\ pc' \in {"report", "exited"}
        /\ UNCHANGED <<family, run, writing, f16>>
    BY <1>8 DEF Quantize, Goto, Exit
  <2> QED BY <1>0, <2>1 DEF WritingInv, writing
<1>9. CASE Report
  <2>1. pc = "report" /\ pc' = "exited" /\ UNCHANGED <<family, run, writing, f16>>
    BY <1>9 DEF Report, Exit, files
  <2> QED BY <1>0, <2>1 DEF WritingInv, writing
<1>10. CASE Abort
  <2>1. /\ pc \notin {"idle", "exited"} /\ pc' = "exited"
        /\ f16' \in {f16, [by |-> run, complete |-> FALSE, of |-> run]}
        /\ UNCHANGED <<family, run, writing>>
    BY <1>10 DEF Abort, Exit
  <2>2. CASE f16' = f16
    BY <1>0, <2>1, <2>2 DEF WritingInv, writing
  <2>3. CASE f16' = [by |-> run, complete |-> FALSE, of |-> run]
    <3>1. f16'.by = run /\ ~f16'.complete
      BY <2>3
    <3> QED BY <1>0, <2>1, <3>1 DEF WritingInv, writing
  <2> QED BY <2>1, <2>2, <2>3
<1>11. CASE UNCHANGED genVars
  BY <1>0, <1>11 DEF WritingInv, genVars, files, writing
<1> QED BY <1>1, <1>2, <1>3, <1>4, <1>5, <1>6, <1>7, <1>8, <1>9, <1>10, <1>11 DEF GenNext

\* Whatever runs, fails and is killed in whatever order, every tensor of a file
\* starts where its info says and is what its info says.
THEOREM DataIsAsDeclared == GenSpec => []DataAsDeclared
<1>1. WritingInv => DataAsDeclared
  <2> SUFFICES ASSUME WritingInv, family \in Families PROVE DataAsDeclared
    BY DEF DataAsDeclared
  <2>1. WrittenOf[family] = RegisteredOf[family]
    BY FamilyFacts
  <2> QED BY <2>1 DEF WritingInv, DataAsDeclared
<1> QED BY <1>1, WritingInvInit, WritingInvNext, PTL DEF GenSpec

\* A finished file is described by its own metadata and by the parameter counts
\* its script prints.
THEOREM FileDescribesItself == GenSpec => []SelfDescribed
<1>1. WritingInv => SelfDescribed
  <2> SUFFICES ASSUME WritingInv, f16.complete, f16.by = run PROVE SelfDescribed
    BY DEF SelfDescribed
  <2>1. family \in Families /\ elements = TotalParams(Config[family])
    BY DEF WritingInv
  <2> QED BY <2>1, FamilyFacts DEF SelfDescribed
<1> QED BY <1>1, WritingInvInit, WritingInvNext, PTL DEF GenSpec

-----------------------------------------------------------------------------
(* The exit status of the precision verification is earned, for any number *)
(* of checks, any --chunks and any perplexities.                           *)

PplValues == {Absent, Unverified} \cup {MeasuredAs(m) : m \in Measurements}

VerTypeOK ==
  /\ stage \in {"prepare", "evaluate", "write", "exited"}
  /\ label \in 0 .. 3 /\ check \in 0 .. Checks
  /\ ppl \in [Labels -> PplValues]
  /\ smoke \in [Labels -> [1 .. Checks -> {"absent", "passed", "failed"}]]
  /\ errors \in BOOLEAN /\ disturbed \in BOOLEAN
  /\ exitCode \in 0 .. 3

\* Without an error, no command that was run is without an answer.
Answered ==
  ~errors => \A n \in 0 .. 2, c \in 1 .. Checks :
    n < label \/ (n = label /\ c < check) => smoke[LabelAt(n)][c] # "absent"

\* What Judge decides, seen from the results.
Justified ==
  /\ exitCode = 1 <=> errors
  /\ exitCode = 2 <=> ~errors /\ Regressed
  /\ exitCode = 0 <=> ~errors /\ PassEarned

VerInv ==
  /\ VerTypeOK
  /\ stage = "prepare" => label = 0 /\ check = 0 /\ exitCode = 1
  /\ Answered
  /\ stage # "exited" => recorded = None /\ status = None /\ errors = disturbed
  /\ stage \in {"write", "exited"} => Justified
  /\ stage = "exited" =>
       /\ recorded \in {None, exitCode}
       /\ \/ status = exitCode /\ disturbed = errors
          \/ status = 1 /\ disturbed

\* The fields of what a perplexity run can leave.
LEMMA PplFields ==
  ASSUME VerTypeOK, NEW l \in Labels
  PROVE  /\ ppl[l].status = "measured" =>
              ppl[l].mean \in Nat /\ ppl[l].error \in Nat /\ ppl[l].chunks \in 1 .. Chunks
<1>1. ppl[l] \in PplValues
  BY DEF VerTypeOK
<1>2. CASE ppl[l] \in {Absent, Unverified}
  BY <1>2 DEF Absent, Unverified
<1>3. CASE \E m \in Measurements : ppl[l] = MeasuredAs(m)
  BY <1>3, VerificationAssumption DEF MeasuredAs
<1> QED BY <1>1, <1>2, <1>3 DEF PplValues

\* When every check has an answer, what Judge calls a regression is one.
LEMMA RegressionSeen ==
  ASSUME VerTypeOK, \A c \in 1 .. Checks : smoke["I2_S"][c] # "absent"
  PROVE  Increased \/ Lost # {} <=> Regressed
<1>1. "BF16" \in Labels /\ "Q4_0" \in Labels /\ "I2_S" \in Labels
  BY DEF Labels
<1>2. \A c \in 1 .. Checks : smoke["I2_S"][c] = "failed" <=> smoke["I2_S"][c] # "passed"
  BY <1>1 DEF VerTypeOK
<1>3. Lost # {} <=> \E c \in 1 .. Checks :
                      /\ smoke["I2_S"][c] = "failed"
                      /\ "passed" \in {smoke["BF16"][c], smoke["Q4_0"][c]}
  BY <1>2 DEF Lost, BaselinePasses
<1>4. Increased <=> /\ ppl["BF16"].status = "measured" /\ ppl["I2_S"].status = "measured"
                    /\ ppl["BF16"].chunks = ppl["I2_S"].chunks
                    /\ ppl["I2_S"].mean > ppl["BF16"].mean
  BY <1>1 DEF Increased, Measured
<1> QED BY <1>3, <1>4 DEF Regressed

\* What Judge lets pass is a pass.
LEMMA PassSeen ==
  ASSUME VerTypeOK, ~errors, ~Increased, Lost = {}, ~Insufficient, ~Overlapping
  PROVE  PassEarned
<1>1. "BF16" \in Labels /\ "Q4_0" \in Labels /\ "I2_S" \in Labels
  BY DEF Labels
<1>2. Measured = Labels
  BY DEF Insufficient, Comparable
<1>3. \A l \in Labels : ppl[l].status = "measured"
  BY <1>2 DEF Measured
<1>4. \A l \in Labels : /\ ppl[l].mean \in Nat /\ ppl[l].error \in Nat
                        /\ ppl[l].chunks \in 1 .. Chunks
  BY <1>3, PplFields
<1>5. \A l \in Labels : ppl[l].chunks = Chunks
  <2>1. \A l \in Labels : ~(ppl[l].chunks < Chunks)
    BY <1>2 DEF Insufficient
  <2> QED BY <2>1, <1>4, VerificationAssumption
<1>6. ppl["I2_S"].mean + 2 * ppl["I2_S"].error < ppl["BF16"].mean - 2 * ppl["BF16"].error
  BY <1>1, <1>4 DEF Overlapping
<1>7. \E c \in 1 .. Checks : smoke["BF16"][c] = "passed" \/ smoke["Q4_0"][c] = "passed"
  BY DEF Insufficient, BaselinePasses
<1>8. \A c \in 1 .. Checks :
        smoke["I2_S"][c] = "passed" \/ "passed" \notin {smoke["BF16"][c], smoke["Q4_0"][c]}
  BY DEF Lost, BaselinePasses
<1> QED BY <1>3, <1>5, <1>6, <1>7, <1>8 DEF PassEarned

\* A pass is let pass.
LEMMA PassAllowed ==
  ASSUME VerTypeOK, ~errors, PassEarned
  PROVE  ~Increased /\ Lost = {} /\ ~Insufficient /\ ~Overlapping
<1>1. "BF16" \in Labels /\ "Q4_0" \in Labels /\ "I2_S" \in Labels
  BY DEF Labels
<1>2. \A l \in Labels : ppl[l].status = "measured" /\ ppl[l].chunks = Chunks
  BY DEF PassEarned
<1>3. \A l \in Labels : ppl[l].mean \in Nat /\ ppl[l].error \in Nat
  BY <1>2, PplFields
<1>4. Measured = Labels
  BY <1>2 DEF Measured
<1>5. Comparable
  <2>1. {ppl[l].chunks : l \in Measured} = {Chunks}
    BY <1>1, <1>2, <1>4
  <2>2. Cardinality({Chunks}) = 1
    BY FS_Singleton
  <2> QED BY <1>4, <2>1, <2>2 DEF Comparable
<1>6. ~Increased
  BY <1>1, <1>3 DEF Increased, PassEarned
<1>7. Lost = {}
  BY DEF Lost, BaselinePasses, PassEarned
<1>8. BaselinePasses # {}
  BY DEF BaselinePasses, PassEarned
<1>9. \A l \in Measured : ~(ppl[l].chunks < Chunks)
  BY <1>2, <1>4, VerificationAssumption
<1>10. ~Insufficient
  BY <1>5, <1>8, <1>9 DEF Insufficient
<1>11. ~Overlapping
  BY <1>1, <1>3 DEF Overlapping, PassEarned
<1> QED BY <1>6, <1>7, <1>10, <1>11

LEMMA VerInvInit == VerInit => VerInv
<1> SUFFICES ASSUME VerInit PROVE VerInv
  OBVIOUS
<1>1. VerTypeOK
  <2>1. ppl \in [Labels -> PplValues]
    BY DEF VerInit, PplValues
  <2>2. smoke \in [Labels -> [1 .. Checks -> {"absent", "passed", "failed"}]]
    <3>1. [c \in 1 .. Checks |-> "absent"] \in [1 .. Checks -> {"absent", "passed", "failed"}]
      OBVIOUS
    <3> QED BY <3>1 DEF VerInit
  <2>3. label \in 0 .. 3 /\ check \in 0 .. Checks /\ exitCode \in 0 .. 3
    BY VerificationAssumption DEF VerInit
  <2> QED BY <2>1, <2>2, <2>3 DEF VerInit, VerTypeOK
<1>2. Answered
  BY VerificationAssumption DEF VerInit, Answered
<1> QED BY <1>1, <1>2 DEF VerInit, VerInv

LEMMA VerInvNext == VerInv /\ [VerNext]_verVars => VerInv'
<1> SUFFICES ASSUME VerInv, [VerNext]_verVars PROVE VerInv'
  OBVIOUS
<1> USE DEF VerInv
<1>1. CASE Prepare
  <2>1. VerTypeOK'
    BY <1>1 DEF Prepare, VerTypeOK
  <2>2. Answered'
    BY <1>1, VerificationAssumption DEF Prepare, Answered
  <2>3. stage' = "write" => Justified'
    BY <1>1 DEF Prepare, Justified
  <2> QED BY <1>1, <2>1, <2>2, <2>3 DEF Prepare
<1>2. CASE MeasurePpl
  <2>1. VerTypeOK'
    <3>1. label' \in 0 .. 3 /\ check' \in 0 .. Checks
      BY <1>2, VerificationAssumption DEF MeasurePpl, NextCommand, VerTypeOK
    <3>2. ppl' \in [Labels -> PplValues]
      BY <1>2 DEF MeasurePpl, VerTypeOK, PplValues
    <3> QED BY <1>2, <3>1, <3>2 DEF MeasurePpl, VerTypeOK
  <2>2. Answered'
    <3>1. check = 0 /\ check' = 1 /\ label' = label /\ smoke' = smoke
      BY <1>2, VerificationAssumption DEF MeasurePpl, NextCommand, VerTypeOK
    <3>2. ~errors' => ~errors
      BY <1>2 DEF MeasurePpl, VerTypeOK
    <3> QED BY <3>1, <3>2 DEF Answered, VerTypeOK
  <2> QED BY <1>2, <2>1, <2>2 DEF MeasurePpl, VerTypeOK
<1>3. CASE Ask
  <2>1. VerTypeOK'
    <3>1. label' \in 0 .. 3 /\ check' \in 0 .. Checks
      BY <1>3, VerificationAssumption DEF Ask, NextCommand, VerTypeOK
    <3>2. smoke' \in [Labels -> [1 .. Checks -> {"absent", "passed", "failed"}]]
      <4>1. smoke \in [Labels -> [1 .. Checks -> {"absent", "passed", "failed"}]]
        BY DEF VerTypeOK
      <4>2. CASE smoke' = smoke
        BY <4>1, <4>2
      <4>3. ASSUME NEW answer \in {"passed", "failed"},
                   smoke' = [smoke EXCEPT ![LabelAt(label)][check] = answer]
            PROVE  smoke' \in [Labels -> [1 .. Checks -> {"absent", "passed", "failed"}]]
        <5>1. LabelAt(label) \in Labels
          BY DEF LabelAt, Labels
        <5>2. smoke[LabelAt(label)] \in [1 .. Checks -> {"absent", "passed", "failed"}]
          BY <4>1, <5>1
        <5>3. [smoke[LabelAt(label)] EXCEPT ![check] = answer]
                \in [1 .. Checks -> {"absent", "passed", "failed"}]
          BY <5>2
        <5>4. smoke' = [smoke EXCEPT ![LabelAt(label)] =
                          [smoke[LabelAt(label)] EXCEPT ![check] = answer]]
          BY <4>3
        <5> QED BY <4>1, <5>3, <5>4
      <4> QED BY <1>3, <4>2, <4>3 DEF Ask
    <3> QED BY <1>3, <3>1, <3>2 DEF Ask, VerTypeOK
  <2>2. Answered'
    <3> SUFFICES ASSUME ~errors', NEW n \in 0 .. 2, NEW c \in 1 .. Checks,
                        n < label' \/ (n = label' /\ c < check')
                 PROVE  smoke'[LabelAt(n)][c] # "absent"
      BY DEF Answered
    <3>1. ~errors
      BY <1>3 DEF Ask, VerTypeOK
    <3>2. PICK answer \in {"passed", "failed"} :
            smoke' = [smoke EXCEPT ![LabelAt(label)][check] = answer]
      BY <1>3, <3>1 DEF Ask, VerTypeOK
    <3>3. label \in 0 .. 2 /\ check \in 1 .. Checks
      BY <1>3 DEF Ask, VerTypeOK
    <3>4. LabelAt(n) \in Labels /\ LabelAt(label) \in Labels
      BY DEF LabelAt, Labels
    <3>5. CASE n = label /\ c = check
      BY <3>2, <3>3, <3>4, <3>5 DEF VerTypeOK
    <3>6. CASE ~(n = label /\ c = check)
      <4>1. n < label \/ (n = label /\ c < check)
        <5>1. \/ check < Checks /\ check' = check + 1 /\ label' = label
              \/ ~(check < Checks) /\ check' = 0 /\ label' = label + 1
          BY <1>3 DEF Ask, NextCommand
        <5>2. Checks \in Nat
          BY VerificationAssumption
        <5> QED BY <3>3, <3>6, <5>1, <5>2
      <4>2. smoke[LabelAt(n)][c] # "absent"
        BY <3>1, <4>1 DEF Answered
      <4>3. LabelAt(n) = LabelAt(label) => n = label
        BY <3>3 DEF LabelAt
      <4>4. smoke'[LabelAt(n)][c] = smoke[LabelAt(n)][c]
        BY <3>2, <3>3, <3>4, <3>6, <4>3 DEF VerTypeOK
      <4> QED BY <4>2, <4>4
    <3> QED BY <3>5, <3>6
  <2> QED BY <1>3, <2>1, <2>2 DEF Ask, VerTypeOK
<1>4. CASE Judge
  <2>1. VerTypeOK'
    BY <1>4 DEF Judge, VerTypeOK
  <2>2. Answered'
    BY <1>4 DEF Judge, Answered
  <2>3. Justified'
    <3>1. PassEarned' = PassEarned /\ Regressed' = Regressed /\ errors' = errors
      BY <1>4 DEF Judge, PassEarned, Regressed
    <3>2. CASE errors
      BY <1>4, <3>1, <3>2 DEF Judge, Justified
    <3>3. CASE ~errors
      <4>1. \A c \in 1 .. Checks : smoke["I2_S"][c] # "absent"
        <5>1. label = 3 /\ 2 \in 0 .. 2 /\ LabelAt(2) = "I2_S"
          BY <1>4 DEF Judge, LabelAt
        <5>2. 2 < label
          BY <5>1
        <5> QED BY <3>3, <5>1, <5>2 DEF Answered
      <4>2. Increased \/ Lost # {} <=> Regressed
        BY <4>1, RegressionSeen
      <4>3. CASE Increased \/ Lost # {}
        <5>1. exitCode' = 2
          <6>1. quality' = "not_passed"
            BY <1>4, <4>3 DEF Judge
          <6> QED BY <1>4, <3>3, <6>1 DEF Judge
        <5>2. ~PassEarned
          BY <3>3, <4>3, PassAllowed
        <5> QED BY <3>1, <3>3, <4>2, <4>3, <5>1, <5>2 DEF Justified
      <4>4. CASE ~(Increased \/ Lost # {}) /\ (Insufficient \/ Overlapping)
        <5>1. exitCode' = 3
          <6>1. quality' = "unverified"
            BY <1>4, <4>4 DEF Judge
          <6> QED BY <1>4, <3>3, <6>1 DEF Judge
        <5>2. ~PassEarned
          BY <3>3, <4>4, PassAllowed
        <5> QED BY <3>1, <3>3, <4>2, <4>4, <5>1, <5>2 DEF Justified
      <4>5. CASE ~(Increased \/ Lost # {}) /\ ~(Insufficient \/ Overlapping)
        <5>1. exitCode' = 0
          BY <1>4, <3>3, <4>5 DEF Judge
        <5>2. PassEarned
          BY <3>3, <4>5, PassSeen
        <5> QED BY <3>1, <3>3, <4>2, <4>5, <5>1, <5>2 DEF Justified
      <4> QED BY <4>3, <4>4, <4>5
    <3> QED BY <3>2, <3>3
  <2> QED BY <1>4, <2>1, <2>2, <2>3 DEF Judge
<1>5. CASE Write
  <2>1. VerTypeOK'
    BY <1>5 DEF Write, VerTypeOK
  <2>2. Answered'
    BY <1>5 DEF Write, Answered
  <2>3. Justified'
    BY <1>5 DEF Write, Justified, PassEarned, Regressed
  <2> QED BY <1>5, <2>1, <2>2, <2>3 DEF Write, VerTypeOK
<1>6. CASE UNCHANGED verVars
  BY <1>6 DEF verVars, VerTypeOK, Answered, Justified, PassEarned, Regressed
<1> QED BY <1>1, <1>2, <1>3, <1>4, <1>5, <1>6 DEF VerNext

\* The exit status, and the one metrics.json shows, are earned: 1 exactly when
\* something failed, 2 exactly for a regression, 0 exactly for a pass.
THEOREM VerdictIsEarned == VerSpec => []VerdictEarned
<1>1. VerInv => VerdictEarned
  <2> SUFFICES ASSUME VerInv PROVE VerdictEarned
    OBVIOUS
  <2>1. exitCode \in 0 .. 3 /\ errors \in BOOLEAN /\ disturbed \in BOOLEAN
    BY DEF VerInv, VerTypeOK
  <2>2. CASE stage = "exited"
    <3>1. Justified
      BY <2>2 DEF VerInv
    <3>2. recorded \in {None, exitCode}
      BY <2>2 DEF VerInv
    <3>3. \/ status = exitCode /\ disturbed = errors
          \/ status = 1 /\ disturbed
      BY <2>2 DEF VerInv
    <3>4. recorded = 0 => PassEarned
      BY <3>1, <3>2 DEF Justified, None
    <3>5. recorded = 2 => Regressed
      BY <3>1, <3>2 DEF Justified, None
    <3>6. CASE status = exitCode /\ disturbed = errors
      BY <2>1, <3>1, <3>4, <3>5, <3>6 DEF Justified, VerdictEarned
    <3>7. CASE status = 1 /\ disturbed
      BY <2>1, <3>4, <3>5, <3>7 DEF VerdictEarned
    <3> QED BY <3>3, <3>6, <3>7
  <2>3. CASE stage # "exited"
    BY <2>3 DEF VerInv, VerdictEarned, None
  <2> QED BY <2>2, <2>3
<1> QED BY <1>1, VerInvInit, VerInvNext, PTL DEF VerSpec

-----------------------------------------------------------------------------
(* What TernarySEQ does to any weight and any clip.                        *)

\* Rounding a number between -3/2 and 3/2, both excluded.
LEMMA RoundSmall ==
  ASSUME NEW p \in Int, NEW q \in Nat \ {0}, -3 * q < 2 * p, 2 * p < 3 * q
  PROVE  /\ 2 * p > q => Round(p, q) = 1
         /\ 2 * p < -q => Round(p, q) = -1
         /\ -q <= 2 * p /\ 2 * p <= q => Round(p, q) = 0
<1> DEFINE Nearest(n) == \/ 2 * AbsOf(p - n * q) < q
                         \/ 2 * AbsOf(p - n * q) = q /\ n % 2 = 0
<1>1. /\ Nearest(-2) <=> 2 * AbsOf(p + 2 * q) <= q
      /\ Nearest(-1) <=> 2 * AbsOf(p + q) < q
      /\ Nearest(0) <=> 2 * AbsOf(p) <= q
      /\ Nearest(1) <=> 2 * AbsOf(p - q) < q
      /\ Nearest(2) <=> 2 * AbsOf(p - 2 * q) <= q
  BY DEF AbsOf
<1>2. ~Nearest(-2) /\ ~Nearest(2)
  BY <1>1 DEF AbsOf
<1>3. /\ Nearest(-1) <=> 2 * p < -q
      /\ Nearest(0) <=> -q <= 2 * p /\ 2 * p <= q
      /\ Nearest(1) <=> 2 * p > q
  BY <1>1 DEF AbsOf
<1>4. -2 .. 2 = {-2, -1, 0, 1, 2}
  OBVIOUS
<1>5. Round(p, q) = CHOOSE n \in -2 .. 2 : Nearest(n)
  BY DEF Round
<1> HIDE DEF Nearest
<1>6. ASSUME NEW m \in -2 .. 2, Nearest(m), \A n \in -2 .. 2 : Nearest(n) => n = m
      PROVE  Round(p, q) = m
  BY <1>5, <1>6
<1>7. CASE 2 * p > q
  BY <1>2, <1>3, <1>4, <1>6, <1>7
<1>8. CASE 2 * p < -q
  BY <1>2, <1>3, <1>4, <1>6, <1>8
<1>9. CASE -q <= 2 * p /\ 2 * p <= q
  BY <1>2, <1>3, <1>4, <1>6, <1>9
<1> QED BY <1>7, <1>8, <1>9

\* TernarySEQ is ternary: the level of a weight is 0 up to a third of the clip,
\* and otherwise its sign.  Clamping to 0.99 of the clip is what keeps a weight
\* at the clip, or beyond it, from rounding to 2.
THEOREM LevelsAreSigns ==
  ASSUME NEW w \in Int, NEW alpha \in Nat \ {0}
  PROVE  /\ Level(w, alpha) \in {-1, 0, 1}
         /\ Level(w, alpha) = 1 <=> 3 * w > alpha
         /\ Level(w, alpha) = -1 <=> 3 * w < -alpha
<1> DEFINE p == 3 * Clamped(w, alpha)
           q == 200 * alpha
<1>1. p \in Int /\ q \in Nat \ {0} /\ -3 * q < 2 * p /\ 2 * p < 3 * q
  BY DEF Clamped
<1>2. /\ 2 * p > q <=> 3 * w > alpha
      /\ 2 * p < -q <=> 3 * w < -alpha
  BY DEF Clamped
<1>3. Level(w, alpha) = Round(p, q)
  BY DEF Level
<1> HIDE DEF p, q
<1>4. /\ 2 * p > q => Level(w, alpha) = 1
      /\ 2 * p < -q => Level(w, alpha) = -1
      /\ -q <= 2 * p /\ 2 * p <= q => Level(w, alpha) = 0
  BY <1>1, <1>3, RoundSmall
<1> QED BY <1>1, <1>2, <1>4

\* Every weight becomes the nearest of the three values a level can stand for,
\* whether it is within the clip or not.
THEOREM NearestOfThree ==
  ASSUME NEW w \in Int, NEW alpha \in Nat \ {0}, NEW l \in {-1, 0, 1}
  PROVE  AbsOf(3 * w - ThirdsOf(Level(w, alpha), alpha)) <= AbsOf(3 * w - ThirdsOf(l, alpha))
<1>1. /\ ThirdsOf(1, alpha) = 2 * alpha
      /\ ThirdsOf(-1, alpha) = -(2 * alpha)
      /\ ThirdsOf(0, alpha) = 0
  BY DEF ThirdsOf
<1>2. CASE Level(w, alpha) = 1
  <2>1. 3 * w > alpha
    BY <1>2, LevelsAreSigns
  <2> QED BY <2>1, <1>1, <1>2 DEF AbsOf
<1>3. CASE Level(w, alpha) = -1
  <2>1. 3 * w < -alpha
    BY <1>3, LevelsAreSigns
  <2> QED BY <2>1, <1>1, <1>3 DEF AbsOf
<1>4. CASE Level(w, alpha) = 0
  <2>1. -alpha <= 3 * w /\ 3 * w <= alpha
    BY <1>4, LevelsAreSigns
  <2> QED BY <2>1, <1>1, <1>4 DEF AbsOf
<1> QED BY <1>2, <1>3, <1>4, LevelsAreSigns

\* Quantising twice, as the generators do with yoco_cross_k and yoco_cross_v,
\* which are ternary in the F16 file and quantised again by llama-quantize,
\* keeps the levels and shrinks the values to two thirds: a row that has a
\* non-zero level has 2/3 of its clip as its largest value.  (Weights are
\* counted in thirds the second time.)
THEOREM TwiceKeepsLevels ==
  ASSUME NEW w \in Int, NEW alpha \in Nat \ {0}
  PROVE  /\ Level(ThirdsOf(Level(w, alpha), alpha), ThirdsOf(1, alpha)) = Level(w, alpha)
         /\ 3 * ThirdsOf(Level(w, alpha), ThirdsOf(1, alpha))
              = 2 * (3 * ThirdsOf(Level(w, alpha), alpha))
<1> DEFINE l == Level(w, alpha)
<1>1. l \in {-1, 0, 1}
  BY LevelsAreSigns
<1>2. ThirdsOf(1, alpha) \in Nat \ {0} /\ ThirdsOf(1, alpha) = 2 * alpha
  BY DEF ThirdsOf
<1> HIDE DEF l
<1>3. ASSUME NEW v \in Int
      PROVE  /\ Level(v, ThirdsOf(1, alpha)) \in {-1, 0, 1}
             /\ Level(v, ThirdsOf(1, alpha)) = 1 <=> 3 * v > ThirdsOf(1, alpha)
             /\ Level(v, ThirdsOf(1, alpha)) = -1 <=> 3 * v < -ThirdsOf(1, alpha)
  BY <1>2, LevelsAreSigns
<1>4. ThirdsOf(l, alpha) \in Int
  BY <1>1 DEF ThirdsOf
<1>5. /\ l = 1 => ThirdsOf(l, alpha) = 2 * alpha
      /\ l = -1 => ThirdsOf(l, alpha) = -(2 * alpha)
      /\ l = 0 => ThirdsOf(l, alpha) = 0
  BY DEF ThirdsOf
<1>6. Level(ThirdsOf(l, alpha), ThirdsOf(1, alpha)) = l
  <2>1. CASE l = 1
    BY <2>1, <1>2, <1>3, <1>4, <1>5
  <2>2. CASE l = -1
    BY <2>2, <1>2, <1>3, <1>4, <1>5
  <2>3. CASE l = 0
    BY <2>3, <1>2, <1>3, <1>4, <1>5
  <2> QED BY <1>1, <2>1, <2>2, <2>3
<1>7. 3 * ThirdsOf(l, ThirdsOf(1, alpha)) = 2 * (3 * ThirdsOf(l, alpha))
  BY <1>1 DEF ThirdsOf
<1> QED BY <1>6, <1>7 DEF l

\* The two verification scripts compare copies of TernarySEQ with the largest
\* value of a row as its clip, "as in simple_quant_moe_infer_with_mtp.py".
\* Without a clip in the checkpoint that program takes twice that value, and
\* then the largest weight of every row that is not negligible becomes 4/3 of
\* itself where the copies make it 2/3.
THEOREM DefaultClipDiffers ==
  ASSUME NEW w \in Nat, w > Eps
  PROVE  /\ Quantized(w, RowClip(w)) = 2 * w
         /\ Quantized(w, DefaultClip(w)) = 4 * w
<1>1. w \in Nat \ {0} /\ 2 * w \in Nat \ {0}
  BY EpsAssumption
<1>2. Alpha(RowClip(w)) = w /\ Alpha(DefaultClip(w)) = 2 * w
  BY EpsAssumption DEF Alpha, RowClip, DefaultClip
<1>3. Level(w, w) = 1 /\ Level(w, 2 * w) = 1
  BY <1>1, LevelsAreSigns
<1> QED BY <1>2, <1>3 DEF Quantized, ThirdsOf
=============================================================================
