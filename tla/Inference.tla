------------------------------ MODULE Inference ------------------------------
(***************************************************************************)
(* QuantMoEInferenceModel of simple_quant_moe_infer_with_mtp.py: one       *)
(* request at a time, its KV cache and the calls that fill and read it.    *)
(* The self-decoder layers run universal_loop times, each with a cache     *)
(* slot of its own; the cross-decoder layers and the MTP head share the    *)
(* YOCO cache.  The cache is never erased: prefill only forgets its        *)
(* length, and a call that raises in the middle leaves what it has written *)
(* so far.  Any kernel may raise (out of memory).                          *)
(*                                                                         *)
(* A tensor of one token is abstracted to how many layers made it and      *)
(* which tokens, at which positions, it depends on.                        *)
(***************************************************************************)
EXTENDS Integers, Sequences, SequencesExt

CONSTANTS
  Tokens, None,
  MaxSeqLen,              \* max_seq_len
  SelfLayers, Loops,      \* n_layers - yoco_cross_layers; universal_loop
  CrossLayers,            \* yoco_cross_layers
  Window,                 \* yoco_window_size
  MtpN,                   \* mtp_n
  MaxIds, MaxNew,         \* bounds on the tokens of a call and on max_new_tokens
  MaxRaises               \* bound on the calls that raise half-way

\* ModelConfig.validate, as far as the cache depends on it.
ASSUME InferenceAssumption ==
  /\ None \notin Tokens
  /\ MaxSeqLen \in Nat /\ SelfLayers \in Nat /\ Loops \in Nat \ {0}
  /\ CrossLayers \in Nat /\ SelfLayers + CrossLayers > 0
  /\ Window \in Int /\ MtpN \in Nat
  /\ MtpN > 0 => CrossLayers > 0
  /\ MaxIds \in Nat /\ MaxNew \in Nat /\ MaxRaises \in Nat

VARIABLES
  length,        \* cache.length
  selfKV, yoco,  \* cache.self_key and self_value of each slot; yoco_key and value
  pc,            \* what the current call does next
  call,          \* its tokens, whether it wants MTP logits, where it started
  hidden, slot,  \* hidden, one entry per token; cache_slot
  logits, mtpLogits, \* what the last call computed
  outcome,       \* how the last call ended
  gen,           \* the arguments of generate and generated, or NoGeneration
  history,       \* the tokens the cache stands for
  raises         \* how many calls raised half-way

cache == <<length, selfKV, yoco>>
results == <<logits, mtpLogits>>
vars == <<cache, pc, call, hidden, slot, results, outcome, gen, history, raises>>

Slots == SelfLayers * Loops
Positions == 0 .. MaxSeqLen - 1
IdLists == SeqOf(Tokens, MaxIds)
NoGeneration == [prompt |-> <<>>, max |-> -1, eos |-> None, new |-> <<>>]
NoCall == [ids |-> <<>>, mtp |-> FALSE, start |-> 0]

\* torch.empty, or a key without its value.
Undefined == [depth |-> -1, seen |-> {}]

Values == [depth : -1 .. Slots + CrossLayers, seen : SUBSET (Positions \X Tokens)]

TypeOK ==
  /\ length \in 0 .. MaxSeqLen
  /\ selfKV \in [0 .. Slots - 1 -> [Positions -> Values]]
  /\ yoco \in [Positions -> Values]
  /\ pc \in {"idle", "self", "yoco", "cross", "commit", "head", "mtp", "sample"}
  /\ call.ids \in Seq(Tokens) /\ call.start + Len(call.ids) <= MaxSeqLen
  /\ hidden \in Seq(Values) /\ Len(hidden) = Len(call.ids)
  /\ slot \in 0 .. Slots
  /\ outcome \in {"none", "running", "returned", "stopped", "refused", "raised"}
  /\ gen.new \in Seq(Tokens)
  /\ history \in Seq(Tokens)

Init ==
  /\ length = 0 /\ history = <<>>
  /\ selfKV = [s \in 0 .. Slots - 1 |-> [p \in Positions |-> Undefined]]
  /\ yoco = [p \in Positions |-> Undefined]
  /\ pc = "idle" /\ call = NoCall /\ hidden = <<>> /\ slot = 0
  /\ logits = <<>> /\ mtpLogits = <<>> /\ outcome = "none"
  /\ gen = NoGeneration /\ raises = 0

-----------------------------------------------------------------------------
(* Tensors. *)

\* _embed at positions start, start + 1, ...
Embed(ids, start) ==
  [i \in DOMAIN ids |-> [depth |-> 0, seen |-> {<<start + i - 1, ids[i]>>}]]

\* The key positions a query at position p may attend to (_native_attention).
Visible(p, window) == {q \in 0 .. p : window > 0 => q >= p - window}

\* _load_attention: with YOCO the self-decoder has a window, the cross-decoder none.
SelfWindow == IF CrossLayers > 0 THEN Window ELSE -1

\* A block adds to x what it reads in the entries kv[q], which must come from
\* depth d; anything else makes it undefined.
Attend(x, kv, Q, d) ==
  IF x.depth >= 0 /\ \A q \in Q : kv[q].depth = d
  THEN [depth |-> x.depth + 1, seen |-> x.seen \cup UNION {kv[q].seen : q \in Q}]
  ELSE Undefined

\* append_self, append_yoco.
Appended(kv, start, xs) ==
  [p \in Positions |-> IF p - start + 1 \in DOMAIN xs THEN xs[p - start + 1] ELSE kv[p]]

Spoilt(xs) == [i \in DOMAIN xs |-> Undefined]

-----------------------------------------------------------------------------
(* Calls. *)

End(how) ==
  /\ pc' = "idle" /\ outcome' = how
  /\ call' = NoCall /\ hidden' = <<>> /\ slot' = 0

Stage(s) == IF s < Slots THEN "self" ELSE IF CrossLayers > 0 THEN "yoco" ELSE "commit"

\* Mutant: room for one token too many.
EnterPastEnd(ids, mtp, start) ==
  /\ IF ids = <<>> \/ start + Len(ids) > MaxSeqLen + 1
     THEN End("refused")
     ELSE /\ call' = [ids |-> ids, mtp |-> mtp, start |-> start]
          /\ hidden' = Embed(ids, start)
          /\ slot' = 0 /\ pc' = Stage(0) /\ outcome' = "running"
  /\ logits' = <<>> /\ mtpLogits' = <<>>

\* _forward_tokens up to the first layer.
Enter(ids, mtp, start) ==
  /\ IF ids = <<>> \/ start + Len(ids) > MaxSeqLen
     THEN End("refused")
     ELSE /\ call' = [ids |-> ids, mtp |-> mtp, start |-> start]
          /\ hidden' = Embed(ids, start)
          /\ slot' = 0 /\ pc' = Stage(0) /\ outcome' = "running"
  /\ logits' = <<>> /\ mtpLogits' = <<>>

Forget == length' = 0 /\ history' = <<>>

\* prefill, prefill_with_mtp: the cache is reset before the prompt is looked at.
Prefill(ids, mtp) ==
  /\ pc = "idle" /\ (mtp => MtpN > 0)
  /\ Forget
  /\ Enter(ids, mtp, 0)
  /\ gen' = NoGeneration
  /\ UNCHANGED <<selfKV, yoco, raises>>

\* decode, decode_with_mtp
Decode(ids, mtp) ==
  /\ pc = "idle" /\ (mtp => MtpN > 0)
  /\ Enter(ids, mtp, length)
  /\ gen' = NoGeneration
  /\ UNCHANGED <<cache, history, raises>>

\* _normalize_mtp_input_ids refuses the MTP IDs, or generate its arguments.
Refuse ==
  /\ pc = "idle"
  /\ End("refused")
  /\ logits' = <<>> /\ mtpLogits' = <<>>
  /\ gen' = NoGeneration
  /\ UNCHANGED <<cache, history, raises>>

ResetCache ==
  /\ pc = "idle"
  /\ Forget
  /\ End("returned")
  /\ logits' = <<>> /\ mtpLogits' = <<>>
  /\ gen' = NoGeneration
  /\ UNCHANGED <<selfKV, yoco, raises>>

\* Mutant: the cache of the request before is continued.
GenerateContinuing(prompt, max, eos) ==
  /\ pc = "idle"
  /\ Enter(prompt, FALSE, length)
  /\ gen' = [prompt |-> prompt, max |-> max, eos |-> eos, new |-> <<>>]
  /\ UNCHANGED <<cache, history, raises>>

Generate(prompt, max, eos) ==
  /\ pc = "idle"
  /\ Forget
  /\ Enter(prompt, FALSE, 0)
  /\ gen' = [prompt |-> prompt, max |-> max, eos |-> eos, new |-> <<>>]
  /\ UNCHANGED <<selfKV, yoco, raises>>

-----------------------------------------------------------------------------
(* _forward_tokens. *)

\* Mutant: the loops share the slots of their layers.
SelfLayerSharing ==
  LET s == slot % SelfLayers
      kv == Appended(selfKV[s], call.start, hidden) IN
  /\ pc = "self"
  /\ selfKV' = [selfKV EXCEPT ![s] = kv]
  /\ hidden' = [i \in DOMAIN hidden |->
       Attend(hidden[i], kv, Visible(call.start + i - 1, SelfWindow), hidden[i].depth)]
  /\ slot' = slot + 1
  /\ pc' = Stage(slot')
  /\ UNCHANGED <<length, yoco, call, results, outcome, gen, history, raises>>

\* Mutant: the cache counts the tokens of the layers that ran, whatever follows.
SelfLayerCommitting ==
  LET kv == Appended(selfKV[slot], call.start, hidden) IN
  /\ pc = "self"
  /\ selfKV' = [selfKV EXCEPT ![slot] = kv]
  /\ hidden' = [i \in DOMAIN hidden |->
       Attend(hidden[i], kv, Visible(call.start + i - 1, SelfWindow), hidden[i].depth)]
  /\ slot' = slot + 1
  /\ pc' = Stage(slot')
  /\ length' = call.start + Len(call.ids)
  /\ history' = SubSeq(history, 1, call.start) \o call.ids
  /\ UNCHANGED <<yoco, call, results, outcome, gen, raises>>

\* A self-decoder layer appends its keys and values, then attends to the slot.
SelfLayer ==
  LET kv == Appended(selfKV[slot], call.start, hidden) IN
  /\ pc = "self"
  /\ selfKV' = [selfKV EXCEPT ![slot] = kv]
  /\ hidden' = [i \in DOMAIN hidden |->
       Attend(hidden[i], kv, Visible(call.start + i - 1, SelfWindow), hidden[i].depth)]
  /\ slot' = slot + 1
  /\ pc' = Stage(slot')
  /\ UNCHANGED <<length, yoco, call, results, outcome, gen, history, raises>>

AppendYoco ==
  /\ pc = "yoco"
  /\ yoco' = Appended(yoco, call.start, hidden)
  /\ pc' = "cross"
  /\ UNCHANGED <<length, selfKV, call, hidden, slot, results, outcome, gen, history, raises>>

\* A cross-decoder layer; hidden's depth tells which.
CrossLayer ==
  /\ pc = "cross"
  /\ hidden' = [i \in DOMAIN hidden |->
       Attend(hidden[i], yoco, Visible(call.start + i - 1, -1), Slots)]
  /\ pc' = IF \A i \in DOMAIN hidden : hidden'[i].depth \in {-1, Slots + CrossLayers}
           THEN "commit" ELSE "cross"
  /\ UNCHANGED <<cache, call, slot, results, outcome, gen, history, raises>>

\* cache.length = end
Commit ==
  /\ pc = "commit"
  /\ length' = call.start + Len(call.ids)
  /\ history' = history \o call.ids
  /\ pc' = "head"
  /\ UNCHANGED <<selfKV, yoco, call, hidden, slot, results, outcome, gen, raises>>

\* The logits of every token; generate samples from the last.
OutputHead ==
  /\ pc = "head"
  /\ logits' = hidden
  /\ IF call.mtp THEN pc' = "mtp" /\ UNCHANGED <<call, hidden, slot, outcome>>
     ELSE IF gen # NoGeneration
     THEN pc' = "sample" /\ UNCHANGED <<call, hidden, slot, outcome>>
     ELSE End("returned")
  /\ UNCHANGED <<cache, mtpLogits, gen, history, raises>>

\* What the MTP block makes of x: the YOCO cache within the window, and the
\* MTP tokens of depths D.
Predict(x, p, D) ==
  LET Q == Visible(p, Window) IN
  [seen |-> IF \A q \in Q : yoco[q].depth = Slots
            THEN x.seen \cup UNION {yoco[q].seen : q \in Q} ELSE {},
   depths |-> D]

\* _run_mtp: each depth goes on from the one before.
RunMtp ==
  /\ pc = "mtp"
  /\ mtpLogits' = [k \in 1 .. MtpN |-> [i \in DOMAIN hidden |->
       Predict(hidden[i], call.start + i - 1, 1 .. k)]]
  /\ End("returned")
  /\ UNCHANGED <<cache, logits, gen, history, raises>>

\* The kernels raise: before, between or after the two copies of a slice, and
\* anywhere that writes nothing.
Fail ==
  /\ pc # "idle" /\ raises < MaxRaises
  /\ raises' = raises + 1
  /\ \/ UNCHANGED <<selfKV, yoco>>
     \/ /\ pc = "self"
        /\ \E xs \in {hidden, Spoilt(hidden)} :
             selfKV' = [selfKV EXCEPT ![slot] = Appended(@, call.start, xs)]
        /\ UNCHANGED yoco
     \/ /\ pc = "yoco"
        /\ \E xs \in {hidden, Spoilt(hidden)} : yoco' = Appended(yoco, call.start, xs)
        /\ UNCHANGED selfKV
  /\ End("raised")
  /\ logits' = <<>> /\ mtpLogits' = <<>>
  /\ UNCHANGED <<length, gen, history>>

\* One round of generate's loop: sample, and decode what was sampled unless it
\* is the last.
Sample ==
  /\ pc = "sample"
  /\ \/ /\ Len(gen.new) = gen.max
        /\ End("returned")
        /\ UNCHANGED <<gen, results>>
     \/ /\ Len(gen.new) < gen.max
        /\ \E t \in Tokens :
             IF t = gen.eos THEN End("stopped") /\ UNCHANGED <<gen, results>>
             ELSE /\ gen' = [gen EXCEPT !.new = Append(@, t)]
                  /\ IF Len(gen'.new) < gen.max THEN Enter(<<t>>, FALSE, length)
                     ELSE End("returned") /\ UNCHANGED results
  /\ UNCHANGED <<cache, history, raises>>

Caller ==
  \/ \E ids \in IdLists, mtp \in BOOLEAN : Prefill(ids, mtp) \/ Decode(ids, mtp)
  \/ Refuse \/ ResetCache
  \/ \E ids \in IdLists, max \in 0 .. MaxNew, eos \in Tokens \cup {None} :
       Generate(ids, max, eos)

Next ==
  \/ Caller
  \/ SelfLayer \/ AppendYoco \/ CrossLayer \/ Commit \/ OutputHead \/ RunMtp \/ Sample
  \/ Fail

Spec == Init /\ [][Next]_vars

-----------------------------------------------------------------------------
(* Properties. *)

\* The tokens of a text at positions P.
SeenIn(text, P) == {<<q, text[q + 1]>> : q \in P}
Seen(P) == SeenIn(history, P)

\* The positions that position p's keys depend on after d self-decoder layers:
\* its own at first, then those within d windows before it.
Reach(d, p) ==
  {q \in 0 .. p : IF d = 0 THEN q = p ELSE SelfWindow > 0 => q >= p - d * SelfWindow}

SeenThrough(d, p) == Seen(Reach(d, p))

\* What the cache counts as its contents is, in every slot, what the tokens of
\* the request give, whatever calls were refused or raised half-way and
\* whatever an earlier request left in the same positions.
CacheHoldsHistory ==
  /\ length = Len(history)
  /\ \A p \in 0 .. length - 1 :
       /\ \A s \in 0 .. Slots - 1 :
            selfKV[s][p] = [depth |-> s, seen |-> SeenThrough(s, p)]
       /\ CrossLayers > 0 =>
            yoco[p] = [depth |-> Slots, seen |-> SeenThrough(Slots, p)]

\* Logits, of the base model and of every MTP depth, are those of the whole
\* request up to their position, as if it had been given in one prefill: of
\* nothing older, nothing missing, nothing from another layer or depth.
LogitsSeeHistory ==
  LET position(i) == Len(history) - Len(logits) + i - 1 IN
  /\ \A i \in DOMAIN logits :
       logits[i] = [depth |-> Slots + CrossLayers, seen |-> Seen(0 .. position(i))]
  /\ \A k \in DOMAIN mtpLogits : \A i \in DOMAIN mtpLogits[k] :
       mtpLogits[k][i] = [seen |-> Seen(0 .. position(i)), depths |-> 1 .. k]

\* generate continues its prompt and nothing else, stops where it was told to,
\* and runs out of cache only if prompt and new tokens, less the last one
\* (which is never decoded), do not fit.
GenerateFaithful ==
  gen # NoGeneration =>
    /\ pc = "sample" => history = gen.prompt \o gen.new
    /\ outcome = "returned" =>
         /\ Len(gen.new) = gen.max
         /\ history = IF gen.max = 0 THEN gen.prompt ELSE gen.prompt \o Front(gen.new)
    /\ outcome = "stopped" => history = gen.prompt \o gen.new
    /\ outcome = "refused" =>
         \/ gen.prompt = <<>>
         \/ Len(gen.prompt) > MaxSeqLen
         \/ Len(gen.prompt) + gen.max - 1 > MaxSeqLen
    /\ \A j \in DOMAIN gen.new : gen.new[j] # gen.eos
=============================================================================
