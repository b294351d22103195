--------------------------- MODULE Inference_proofs ---------------------------
(***************************************************************************)
(* Inference for any number of layers, loops, positions, tokens and MTP    *)
(* depths, any window and any number of failures: the cache holds what the *)
(* text so far gives, the logits see all of it and nothing else, and       *)
(* generate continues its prompt.  Before it, the load, for any            *)
(* configurations, overrides and checkpoints: it is complete, and what it  *)
(* makes is made of the right tensors.  At the end both, composed.         *)
(***************************************************************************)
EXTENDS Service, FoldTheorems, SequenceTheorems, TLAPS

\* The calls until the length is advanced, and the text that is then in the cache.
Layers == {"self", "yoco", "cross", "commit"}
Text == IF pc \in Layers THEN history \o call.ids ELSE history

\* The key and value of position p after d self-decoder layers, and a slice of
\* the cache that holds them for the first n positions.
Entry(text, d, p) == [depth |-> d, seen |-> SeenIn(text, Reach(d, p))]
Holds(kv, d, n, text) == \A p \in 0 .. n - 1 : kv[p] = Entry(text, d, p)

\* What a token depends on once the self-decoder is through.
Whole(text, d, p) == [depth |-> d, seen |-> SeenIn(text, 0 .. p)]

\* What stays from call to call: the cache stands for the history and holds it.
StoreOK ==
  /\ length \in 0 .. MaxSeqLen /\ history \in Seq(Tokens) /\ length = Len(history)
  /\ selfKV \in [0 .. Slots - 1 -> [Positions -> Values]]
  /\ yoco \in [Positions -> Values]
  /\ \A s \in 0 .. Slots - 1 : Holds(selfKV[s], s, length, history)
  /\ CrossLayers > 0 => Holds(yoco, Slots, length, history)

GenTypes ==
  gen \in [prompt : Seq(Tokens), max : Nat \cup {-1}, eos : Tokens \cup {None},
           new : Seq(Tokens)]

\* Where a call is, and what it works on.
CallOK ==
  /\ TypeOK
  /\ call \in [ids : Seq(Tokens), mtp : BOOLEAN, start : Nat]
  /\ pc = "idle" <=> outcome # "running"
  /\ pc # "idle" => Len(call.ids) > 0
  /\ pc \in Layers => call.start = length
  /\ pc \in {"head", "mtp", "sample"} => call.start + Len(call.ids) = length
  /\ call.mtp => MtpN > 0
  /\ pc = "mtp" => call.mtp
  /\ pc = "self" => slot < Slots
  /\ pc \in {"yoco", "cross", "commit"} => slot = Slots
  /\ pc \in {"yoco", "cross"} => CrossLayers > 0

\* What a call has written, which is the text up to its last token.
WrittenOK ==
  /\ pc \in Layers => \A s \in 0 .. slot - 1 :
       Holds(selfKV[s], s, length + Len(call.ids), Text)
  /\ pc \in {"cross", "commit"} /\ CrossLayers > 0 =>
       Holds(yoco, Slots, length + Len(call.ids), Text)

\* What each token has seen so far.
HiddenOK ==
  /\ pc \in {"self", "yoco"} => \A i \in DOMAIN hidden :
       hidden[i] = Entry(Text, slot, call.start + i - 1)
  /\ pc = "cross" => \E d \in Slots .. Slots + CrossLayers - 1 :
       /\ \A i \in DOMAIN hidden : hidden[i].depth = d
       /\ \A i \in DOMAIN hidden :
            \/ hidden[i] = Entry(Text, d, call.start + i - 1) /\ d = Slots
            \/ hidden[i] = Whole(Text, d, call.start + i - 1)
  /\ pc \in {"commit", "head", "mtp"} => \A i \in DOMAIN hidden :
       hidden[i] = Whole(Text, Slots + CrossLayers, call.start + i - 1)

\* The logits of the last call; none while one runs.
ResultsOK ==
  /\ LogitsSeeHistory
  /\ pc \in Layers \cup {"head"} => logits = <<>>
  /\ pc \in Layers \cup {"head", "mtp"} => mtpLogits = <<>>
  /\ pc = "mtp" => Len(logits) = Len(call.ids)

\* What generate has of its text.
GenerationOK ==
  gen # NoGeneration =>
    /\ gen.max \in Nat /\ ~call.mtp
    /\ pc \in Layers \cup {"head", "sample"} =>
         /\ Text = gen.prompt \o gen.new
         /\ Len(gen.new) < gen.max \/ gen.new = <<>>
    /\ GenerateFaithful

IInv == StoreOK /\ GenTypes /\ CallOK /\ WrittenOK /\ HiddenOK /\ ResultsOK /\ GenerationOK

-----------------------------------------------------------------------------
(* Texts. *)

LEMMA Counts ==
  /\ Slots \in Nat /\ CrossLayers \in Nat /\ MaxSeqLen \in Nat /\ MtpN \in Nat
  /\ SelfWindow \in Int /\ Window \in Int
  /\ CrossLayers = 0 => Slots > 0 /\ SelfWindow = -1
<1>1. \A m \in Nat, n \in Nat \ {0} : m * n \in Nat /\ (m > 0 => m * n > 0)
  OBVIOUS
<1>2. Slots \in Nat /\ (SelfLayers > 0 => Slots > 0)
  BY <1>1, InferenceAssumption DEF Slots
<1> QED
  BY <1>2, InferenceAssumption DEF SelfWindow

LEMMA Joined ==
  ASSUME NEW S, NEW h \in Seq(S), NEW ids \in Seq(S)
  PROVE  /\ h \o ids \in Seq(S) /\ Len(h \o ids) = Len(h) + Len(ids)
         /\ \A q \in 0 .. Len(h) - 1 : (h \o ids)[q + 1] = h[q + 1]
         /\ \A i \in 1 .. Len(ids) : (h \o ids)[Len(h) + i] = ids[i]
<1>1. /\ h \o ids \in Seq(S) /\ Len(h \o ids) = Len(h) + Len(ids)
      /\ \A i \in 1 .. Len(h) + Len(ids) :
           (h \o ids)[i] = IF i <= Len(h) THEN h[i] ELSE ids[i - Len(h)]
  BY ConcatProperties
<1>2. Len(h) \in Nat /\ Len(ids) \in Nat
  BY LenProperties
<1> QED
  BY <1>1, <1>2

LEMMA SeenInPrefix ==
  ASSUME NEW h \in Seq(Tokens), NEW ids \in Seq(Tokens), NEW P \in SUBSET (0 .. Len(h) - 1)
  PROVE  SeenIn(h \o ids, P) = SeenIn(h, P)
<1> DEFINE t == h \o ids
<1>1. \A q \in P : t[q + 1] = h[q + 1]
  BY Joined
<1> HIDE DEF t
<1>2. SeenIn(t, P) = SeenIn(h, P)
  BY <1>1 DEF SeenIn
<1> QED BY <1>2 DEF t

LEMMA SeenInTypes ==
  ASSUME NEW text \in Seq(Tokens), Len(text) <= MaxSeqLen,
         NEW P \in SUBSET (0 .. Len(text) - 1)
  PROVE  SeenIn(text, P) \subseteq Positions \X Tokens
<1>1. Len(text) \in Nat /\ \A q \in P : q \in 0 .. Len(text) - 1 /\ q + 1 \in 1 .. Len(text)
  BY LenProperties
<1>2. \A q \in P : text[q + 1] \in Tokens
  BY ONLY <1>1, text \in Seq(Tokens), ElementOfSeq
<1>3. \A q \in P : q \in Positions
  BY <1>1, Counts DEF Positions
<1> QED
  BY ONLY <1>2, <1>3 DEF SeenIn

-----------------------------------------------------------------------------
(* Reaching back. *)

LEMMA ReachBounds ==
  ASSUME NEW d \in Nat, NEW p \in Nat
  PROVE  Reach(d, p) \subseteq 0 .. p /\ p \in Reach(d, p)
<1>1. \A a \in Nat, w \in Int : w > 0 => a * w >= 0
  OBVIOUS
<1> QED
  BY <1>1, Counts DEF Reach

LEMMA ReachGrows ==
  ASSUME NEW d \in Nat, NEW p \in Nat
  PROVE  Reach(d, p) \cup UNION {Reach(d, q) : q \in Visible(p, SelfWindow)} = Reach(d + 1, p)
<1> DEFINE W == SelfWindow
           m == d * W
           U == Reach(d, p) \cup UNION {Reach(d, q) : q \in Visible(p, W)}
<1>1. W \in Int /\ m \in Int /\ (d + 1) * W = m + W /\ d + 1 \in Nat \ {0}
  BY Counts
<1>2. W > 0 => m >= 0
  BY ReachBounds, Counts
<1>3. d = 0 => m = 0
  BY Counts
<1>4. \A q \in Nat : \A r : r \in Reach(d, q) <=>
        r \in 0 .. q /\ (IF d = 0 THEN r = q ELSE W > 0 => r >= q - m)
  BY DEF Reach
<1>5. \A r : r \in Reach(d + 1, p) <=> r \in 0 .. p /\ (W > 0 => r >= p - (m + W))
  BY ONLY <1>1, d \in Nat DEF Reach
<1>6. \A q : q \in Visible(p, W) <=> q \in 0 .. p /\ (W > 0 => q >= p - W)
  BY DEF Visible
<1> HIDE DEF W, m
<1>7. p \in Visible(p, W)
  BY <1>6, <1>1
<1>8. \A r \in U : \E q \in Visible(p, W) : r \in Reach(d, q)
  BY <1>7
<1>9. \A r \in U : r \in Reach(d + 1, p)
  <2> TAKE r \in U
  <2>1. PICK q \in Visible(p, W) : r \in Reach(d, q)
    BY <1>8
  <2> QED
    BY ONLY <2>1, <1>1, <1>2, <1>3, <1>4, <1>5, <1>6, d \in Nat, p \in Nat
<1>10. \A r \in Reach(d + 1, p) : \E q \in Visible(p, W) : r \in Reach(d, q)
  <2> TAKE r \in Reach(d + 1, p)
  <2>1. CASE W <= 0 \/ r >= p - W
    <3>1. r \in Visible(p, W) /\ r \in Nat
      BY ONLY <2>1, <1>1, <1>5, <1>6, p \in Nat, r \in Reach(d + 1, p)
    <3>2. r \in Reach(d, r)
      BY ONLY <3>1, <1>2, <1>1, <1>4
    <3> QED
      BY <3>1, <3>2
  <2>2. CASE W > 0 /\ r < p - W
    <3>1. p - W \in Visible(p, W)
      BY ONLY <2>2, <1>1, <1>5, <1>6, p \in Nat, r \in Reach(d + 1, p)
    <3>2. r \in Reach(d, p - W)
      BY ONLY <2>2, <1>1, <1>3, <1>4, <1>5, p \in Nat, d \in Nat, r \in Reach(d + 1, p)
    <3> QED
      BY <3>1, <3>2
  <2> QED
    <3>1. r \in Int
      BY ONLY <1>5, r \in Reach(d + 1, p), p \in Nat
    <3> QED
      BY ONLY <2>1, <2>2, <3>1, <1>1, p \in Nat
<1> QED
  BY <1>9, <1>10 DEF W

LEMMA EntryPrefix ==
  ASSUME NEW h \in Seq(Tokens), NEW ids \in Seq(Tokens), NEW d \in Nat, NEW p \in 0 .. Len(h) - 1
  PROVE  /\ Entry(h \o ids, d, p) = Entry(h, d, p)
         /\ Whole(h \o ids, d, p) = Whole(h, d, p)
<1>1. Len(h) \in Nat /\ p \in Nat
  BY LenProperties
<1>2. 0 .. p \subseteq 0 .. Len(h) - 1
  BY <1>1
<1>3. Reach(d, p) \subseteq 0 .. Len(h) - 1
  BY <1>1, <1>2, ReachBounds
<1> QED
  BY ONLY <1>2, <1>3, SeenInPrefix, h \in Seq(Tokens), ids \in Seq(Tokens) DEF Entry, Whole

LEMMA HoldsPrefix ==
  ASSUME NEW h \in Seq(Tokens), NEW ids \in Seq(Tokens), NEW d \in Nat, NEW kv
  PROVE  Holds(kv, d, Len(h), h) <=> Holds(kv, d, Len(h), h \o ids)
BY EntryPrefix DEF Holds

LEMMA EntryTypes ==
  ASSUME NEW text \in Seq(Tokens), Len(text) <= MaxSeqLen,
         NEW p \in 0 .. Len(text) - 1, NEW d \in 0 .. Slots + CrossLayers
  PROVE  Entry(text, d, p) \in Values /\ Whole(text, d, p) \in Values
<1>1. Len(text) \in Nat /\ p \in Nat /\ d \in Nat /\ d \in -1 .. Slots + CrossLayers
  BY LenProperties, Counts
<1>2. 0 .. p \subseteq 0 .. Len(text) - 1
  BY <1>1
<1>3. Reach(d, p) \subseteq 0 .. Len(text) - 1
  BY <1>1, <1>2, ReachBounds
<1>4. /\ SeenIn(text, Reach(d, p)) \in SUBSET (Positions \X Tokens)
      /\ SeenIn(text, 0 .. p) \in SUBSET (Positions \X Tokens)
  BY <1>2, <1>3, SeenInTypes
<1> QED
  BY ONLY <1>1, <1>4 DEF Entry, Whole, Values

\* Without a cross-decoder nothing is out of sight.
LEMMA EntryIsWhole ==
  ASSUME CrossLayers = 0, NEW text, NEW p \in Nat
  PROVE  Entry(text, Slots, p) = Whole(text, Slots + CrossLayers, p)
<1>1. Reach(Slots, p) = 0 .. p
  BY Counts DEF Reach
<1> QED
  BY <1>1, Counts DEF Entry, Whole

-----------------------------------------------------------------------------
(* Tensors. *)

LEMMA Tokenwise ==
  ASSUME NEW S, NEW n \in Nat, NEW f, f = [i \in 1 .. n |-> f[i]], \A i \in 1 .. n : f[i] \in S
  PROVE  f \in Seq(S) /\ Len(f) = n /\ DOMAIN f = 1 .. n
<1>1. f \in [1 .. n -> S]
  OBVIOUS
<1> QED
  BY ONLY <1>1, n \in Nat

LEMMA EntryParts ==
  ASSUME NEW text, NEW d, NEW p
  PROVE  /\ Entry(text, d, p).depth = d /\ Entry(text, d, p).seen = SeenIn(text, Reach(d, p))
         /\ Whole(text, d, p).depth = d /\ Whole(text, d, p).seen = SeenIn(text, 0 .. p)
BY DEF Entry, Whole

LEMMA EmbedSees ==
  ASSUME NEW h \in Seq(Tokens), NEW ids \in Seq(Tokens),
         NEW i \in DOMAIN Embed(ids, Len(h))
  PROVE  Embed(ids, Len(h))[i] = Entry(h \o ids, 0, Len(h) + i - 1)
<1> DEFINE p == Len(h) + i - 1
<1>1. i \in 1 .. Len(ids) /\ Len(h) \in Nat /\ Len(ids) \in Nat
  BY LenProperties DEF Embed
<1>2. p \in Nat /\ p + 1 = Len(h) + i
  BY <1>1
<1>3. Embed(ids, Len(h))[i] = [depth |-> 0, seen |-> {<<p, ids[i]>>}]
  BY <1>1 DEF Embed
<1>4. (h \o ids)[p + 1] = ids[i]
  <2>1. (h \o ids)[Len(h) + i] = ids[i]
    <3>1. \A j \in 1 .. Len(ids) : (h \o ids)[Len(h) + j] = ids[j]
      BY Joined
    <3> QED
      BY ONLY <1>1, <3>1
  <2> QED
    BY ONLY <1>2, <2>1
<1> HIDE DEF p
<1>5. Reach(0, p) = {p}
  BY <1>2 DEF Reach
<1>6. SeenIn(h \o ids, {p}) = {<<p, ids[i]>>}
  BY <1>4 DEF SeenIn
<1>7. Entry(h \o ids, 0, p) = [depth |-> 0, seen |-> {<<p, ids[i]>>}]
  BY <1>5, <1>6 DEF Entry
<1> QED
  BY <1>3, <1>7 DEF p

LEMMA AppendedTypes ==
  ASSUME NEW kv \in [Positions -> Values], NEW start \in Nat, NEW xs \in Seq(Values)
  PROVE  Appended(kv, start, xs) \in [Positions -> Values]
<1>1. \A p \in Positions : p - start + 1 \in DOMAIN xs => xs[p - start + 1] \in Values
  BY ElementOfSeq, LenProperties
<1> QED
  BY <1>1 DEF Appended

\* What is appended behind the first n positions leaves those alone.
LEMMA AppendedKeeps ==
  ASSUME NEW text, NEW kv, NEW d \in Nat, NEW start \in Nat, start <= MaxSeqLen,
         NEW xs \in Seq(Values), Holds(kv, d, start, text)
  PROVE  Holds(Appended(kv, start, xs), d, start, text)
<1>1. \A p \in 0 .. start - 1 : p \in Positions /\ p - start + 1 \notin DOMAIN xs
  BY Counts, LenProperties DEF Positions
<1> QED
  BY <1>1 DEF Appended, Holds

LEMMA AppendedHolds ==
  ASSUME NEW text, NEW kv, NEW d \in Nat, NEW start \in Nat,
         NEW xs \in Seq(Values), start + Len(xs) <= MaxSeqLen, Holds(kv, d, start, text),
         \A i \in DOMAIN xs : xs[i] = Entry(text, d, start + i - 1)
  PROVE  Holds(Appended(kv, start, xs), d, start + Len(xs), text)
<1>1. Len(xs) \in Nat /\ DOMAIN xs = 1 .. Len(xs)
  BY LenProperties
<1>2. SUFFICES ASSUME NEW p \in 0 .. start + Len(xs) - 1
               PROVE  Appended(kv, start, xs)[p] = Entry(text, d, p)
  BY DEF Holds
<1>3. p \in Positions
  BY <1>1, Counts DEF Positions
<1>4. CASE p < start
  <2>1. p \in 0 .. start - 1 /\ p - start + 1 \notin DOMAIN xs
    BY <1>1, <1>4
  <2> QED
    BY <1>3, <2>1 DEF Holds, Appended
<1>5. CASE p >= start
  <2>1. p - start + 1 \in DOMAIN xs /\ start + (p - start + 1) - 1 = p
    BY <1>1, <1>5
  <2>2. Appended(kv, start, xs)[p] = xs[p - start + 1]
    BY <1>3, <2>1 DEF Appended
  <2>3. xs[p - start + 1] = Entry(text, d, start + (p - start + 1) - 1)
    BY <2>1
  <2> QED
    BY <2>1, <2>2, <2>3
<1> QED
  BY <1>1, <1>4, <1>5

\* A self-decoder layer sees a window more.
LEMMA SelfAttends ==
  ASSUME NEW text, NEW kv, NEW d \in Nat, NEW p \in Nat, NEW n \in Nat, p < n,
         Holds(kv, d, n, text)
  PROVE  Attend(Entry(text, d, p), kv, Visible(p, SelfWindow), d) = Entry(text, d + 1, p)
<1> DEFINE Q == Visible(p, SelfWindow)
<1>1. \A q \in Q : q \in 0 .. n - 1
  BY DEF Visible
<1>2. \A q \in Q : kv[q] = Entry(text, d, q)
  BY <1>1 DEF Holds
<1>3. Reach(d, p) \cup UNION {Reach(d, q) : q \in Q} = Reach(d + 1, p)
  BY ReachGrows
<1> HIDE DEF Q
<1>4. /\ \A q \in Q : kv[q].depth = d /\ kv[q].seen = SeenIn(text, Reach(d, q))
      /\ Entry(text, d, p).depth = d /\ Entry(text, d, p).seen = SeenIn(text, Reach(d, p))
  BY ONLY <1>2, EntryParts
<1>5. SeenIn(text, Reach(d, p)) \cup UNION {SeenIn(text, Reach(d, q)) : q \in Q}
        = SeenIn(text, Reach(d + 1, p))
  BY ONLY <1>3 DEF SeenIn
<1>6. UNION {kv[q].seen : q \in Q} = UNION {SeenIn(text, Reach(d, q)) : q \in Q}
  BY <1>4
<1>7. Attend(Entry(text, d, p), kv, Q, d)
        = [depth |-> d + 1, seen |-> SeenIn(text, Reach(d + 1, p))]
  <2>1. d >= 0
    OBVIOUS
  <2> QED
    BY ONLY <2>1, <1>4, <1>5, <1>6 DEF Attend
<1> QED
  BY <1>7 DEF Entry, Q

\* The YOCO cache up to a position has seen all of the text up to there.
LEMMA AllSeen ==
  ASSUME NEW text, NEW p \in Nat, NEW q \in 0 .. p, NEW e, e = Entry(text, Slots, q)
  PROVE  /\ e.depth = Slots
         /\ e.seen \subseteq SeenIn(text, 0 .. p)
         /\ <<q, text[q + 1]>> \in e.seen
<1>1. e.depth = Slots /\ e.seen = SeenIn(text, Reach(Slots, q))
  BY ONLY EntryParts, e = Entry(text, Slots, q)
<1>2. Reach(Slots, q) \subseteq 0 .. q /\ q \in Reach(Slots, q) /\ 0 .. q \subseteq 0 .. p
  BY ReachBounds, Counts
<1> QED
  BY ONLY <1>1, <1>2 DEF SeenIn

LEMMA CrossAttends ==
  ASSUME NEW text, NEW kv, NEW d \in Nat, NEW p \in Nat, NEW n \in Nat, p < n,
         Holds(kv, Slots, n, text), NEW x, x.depth = d,
         x = Entry(text, d, p) \/ x = Whole(text, d, p)
  PROVE  Attend(x, kv, Visible(p, -1), Slots) = Whole(text, d + 1, p)
<1>1. Visible(p, -1) = 0 .. p
  BY DEF Visible
<1>2. \A q \in 0 .. p : kv[q] = Entry(text, Slots, q)
  BY DEF Holds
<1>3. \A q \in 0 .. p :
        /\ kv[q].depth = Slots /\ kv[q].seen \subseteq SeenIn(text, 0 .. p)
        /\ <<q, text[q + 1]>> \in kv[q].seen
  BY ONLY <1>2, AllSeen, p \in Nat
<1>4. x.seen \in SUBSET SeenIn(text, 0 .. p)
  <2>1. CASE x = Entry(text, d, p)
    BY <2>1, ReachBounds DEF Entry, SeenIn
  <2>2. CASE x = Whole(text, d, p)
    BY <2>2 DEF Whole
  <2> QED
    BY <2>1, <2>2
<1>5. x.seen \cup UNION {kv[q].seen : q \in 0 .. p} = SeenIn(text, 0 .. p)
  <2>1. \A y \in SeenIn(text, 0 .. p) : \E q \in 0 .. p : y = <<q, text[q + 1]>>
    BY DEF SeenIn
  <2>2. \A y \in SeenIn(text, 0 .. p) : \E q \in 0 .. p : y \in kv[q].seen
    BY ONLY <1>3, <2>1
  <2> QED
    BY ONLY <1>3, <1>4, <2>2
<1>6. x.depth >= 0
  OBVIOUS
<1> QED
  BY ONLY <1>1, <1>3, <1>5, <1>6, x.depth = d DEF Attend, Whole

LEMMA MtpPredicts ==
  ASSUME NEW text, NEW p \in Nat, NEW n \in Nat, p < n, NEW d, NEW D,
         Holds(yoco, Slots, n, text)
  PROVE  Predict(Whole(text, d, p), p, D) = [seen |-> SeenIn(text, 0 .. p), depths |-> D]
<1> DEFINE Q == Visible(p, Window)
<1>1. Q \subseteq 0 .. p
  BY DEF Visible
<1>2. \A q \in Q : yoco[q] = Entry(text, Slots, q)
  BY <1>1 DEF Holds
<1>3. \A q \in Q : yoco[q].depth = Slots /\ yoco[q].seen \subseteq SeenIn(text, 0 .. p)
  BY ONLY <1>1, <1>2, AllSeen, p \in Nat
<1>4. SeenIn(text, 0 .. p) \cup UNION {yoco[q].seen : q \in Q} = SeenIn(text, 0 .. p)
  BY ONLY <1>3
<1>5. Whole(text, d, p).seen = SeenIn(text, 0 .. p)
  BY DEF Whole
<1> QED
  BY <1>3, <1>4, <1>5 DEF Predict

-----------------------------------------------------------------------------
(* A call begins or ends. *)

LEMMA Forgets ==
  ASSUME StoreOK, Forget, UNCHANGED <<selfKV, yoco>>
  PROVE  StoreOK'
<1>1. length' = 0 /\ history' = <<>> /\ history' \in Seq(Tokens) /\ Len(history') = 0
  BY DEF Forget
<1>2. 0 \in 0 .. MaxSeqLen
  BY Counts
<1>3. \A kv, d : Holds(kv, d, 0, history')
  BY DEF Holds
<1> QED
  BY <1>1, <1>2, <1>3 DEF StoreOK

LEMMA Ended ==
  ASSUME StoreOK', GenTypes',
         NEW how \in {"returned", "stopped", "refused", "raised"}, End(how)
  PROVE  (CallOK /\ WrittenOK /\ HiddenOK)' /\ pc' = "idle" /\ outcome' = how
<1>1. /\ pc' = "idle" /\ outcome' = how
      /\ call' = [ids |-> <<>>, mtp |-> FALSE, start |-> 0] /\ hidden' = <<>> /\ slot' = 0
  BY DEF End, NoCall
<1>2. /\ <<>> \in Seq(Tokens) /\ <<>> \in Seq(Values) /\ Len(<<>>) = 0
      /\ 0 \in 0 .. Slots /\ 0 + 0 <= MaxSeqLen
  BY Counts
<1>3. /\ call'.ids = <<>> /\ ~call'.mtp /\ call'.start = 0
      /\ call' \in [ids : Seq(Tokens), mtp : BOOLEAN, start : Nat]
  BY <1>1, <1>2
<1>4. gen'.new \in Seq(Tokens)
  BY DEF GenTypes
<1>5. TypeOK'
  BY <1>1, <1>2, <1>3, <1>4 DEF TypeOK, StoreOK
<1>6. CallOK'
  BY <1>1, <1>3, <1>5 DEF CallOK, Layers
<1> QED
  BY <1>1, <1>6 DEF WrittenOK, HiddenOK, Layers

LEMMA Cleared ==
  ASSUME logits' = <<>>, mtpLogits' = <<>>, pc' # "mtp"
  PROVE  ResultsOK'
BY DEF ResultsOK, LogitsSeeHistory, Layers

LEMMA Entered ==
  ASSUME StoreOK', GenTypes', NEW ids \in Seq(Tokens), NEW mtp \in BOOLEAN,
         mtp => MtpN > 0, NEW start, start = length', Enter(ids, mtp, start)
  PROVE  /\ (CallOK /\ WrittenOK /\ HiddenOK /\ ResultsOK)'
         /\ \/ /\ pc' = "idle" /\ outcome' = "refused"
               /\ ids = <<>> \/ start + Len(ids) > MaxSeqLen
            \/ /\ pc' \in Layers /\ outcome' = "running"
               /\ call'.mtp = mtp /\ Text' = history' \o ids
<1>1. logits' = <<>> /\ mtpLogits' = <<>>
  BY DEF Enter
<1>2. CASE ids = <<>> \/ start + Len(ids) > MaxSeqLen
  <2>1. End("refused")
    BY <1>2 DEF Enter
  <2>2. (CallOK /\ WrittenOK /\ HiddenOK)' /\ pc' = "idle" /\ outcome' = "refused"
    BY <2>1, Ended
  <2> QED
    BY <1>1, <1>2, <2>2, Cleared
<1>3. CASE ~(ids = <<>> \/ start + Len(ids) > MaxSeqLen)
  <2> DEFINE n == Len(ids)
  <2>1. /\ call' = [ids |-> ids, mtp |-> mtp, start |-> start]
        /\ hidden' = Embed(ids, start)
        /\ slot' = 0 /\ pc' = Stage(0) /\ outcome' = "running"
    BY <1>3 DEF Enter
  <2>2. pc' = IF 0 < Slots THEN "self" ELSE "yoco"
    BY <2>1, Counts DEF Stage
  <2>3. /\ history' \in Seq(Tokens) /\ start = Len(history') /\ length' = start
        /\ start \in Nat /\ n \in Nat /\ n > 0 /\ start + n <= MaxSeqLen
    <3>1. history' \in Seq(Tokens) /\ start = Len(history') /\ length' \in 0 .. MaxSeqLen
      BY DEF StoreOK
    <3>2. n \in Nat /\ n # 0
      BY <1>3, LenProperties, EmptySeq
    <3> QED
      BY ONLY <1>3, <3>1, <3>2, start = length', Counts
  <2>4. /\ call'.ids = ids /\ call'.mtp = mtp /\ call'.start = start
        /\ call' \in [ids : Seq(Tokens), mtp : BOOLEAN, start : Nat]
    BY <2>1, <2>3
  <2>5. Text' = history' \o ids
    BY <2>2, <2>4 DEF Text, Layers
  <2>6. Text' \in Seq(Tokens) /\ Len(Text') = start + n
    BY ONLY <2>3, <2>5, Joined, ids \in Seq(Tokens)
  <2>7. DOMAIN hidden' = 1 .. n /\ hidden' = [i \in 1 .. n |-> hidden'[i]]
    BY <2>1, LenProperties DEF Embed
  <2>8. \A i \in 1 .. n : hidden'[i] = Entry(Text', 0, start + i - 1)
    BY ONLY <2>1, <2>3, <2>5, <2>7, EmbedSees, ids \in Seq(Tokens)
  <2>9. \A i \in 1 .. n : hidden'[i] \in Values
    <3>1. 0 \in 0 .. Slots + CrossLayers
      BY Counts
    <3>2. \A i \in 1 .. n : start + i - 1 \in 0 .. Len(Text') - 1
      BY ONLY <2>3, <2>6
    <3> QED
      BY ONLY <2>3, <2>6, <2>8, <3>1, <3>2, EntryTypes
  <2>10. hidden' \in Seq(Values) /\ Len(hidden') = n
    BY ONLY <2>3, <2>7, <2>9, Tokenwise
  <2>11. TypeOK'
    <3>1. gen'.new \in Seq(Tokens)
      BY DEF GenTypes
    <3>2. slot' \in 0 .. Slots
      BY <2>1, Counts
    <3> QED
      BY <2>1, <2>2, <2>3, <2>4, <2>10, <3>1, <3>2 DEF TypeOK, StoreOK
  <2> HIDE DEF n
  <2>12. CallOK'
    <3>1. Slots \in Nat /\ CrossLayers \in Nat /\ (Slots = 0 => CrossLayers > 0)
      BY Counts
    <3> QED
      BY <2>1, <2>2, <2>3, <2>4, <2>11, <3>1 DEF CallOK, Layers, n
  <2>13. WrittenOK'
    BY <2>1, <2>2 DEF WrittenOK
  <2>14. HiddenOK'
    BY <2>1, <2>2, <2>4, <2>7, <2>8 DEF HiddenOK
  <2>15. ResultsOK' /\ pc' \in Layers
    BY <1>1, <2>2, Cleared DEF Layers
  <2> QED
    BY <2>1, <2>4, <2>5, <2>12, <2>13, <2>14, <2>15
<1> QED
  BY <1>2, <1>3

-----------------------------------------------------------------------------
(* The layers. *)

LEMMA InCall ==
  ASSUME IInv, pc \in Layers
  PROVE  LET n == Len(call.ids) IN
         /\ n \in Nat \ {0} /\ length \in Nat /\ length = Len(history) /\ call.start = length
         /\ history \in Seq(Tokens) /\ call.ids \in Seq(Tokens)
         /\ Text = history \o call.ids /\ Text \in Seq(Tokens)
         /\ Len(Text) = length + n /\ length + n <= MaxSeqLen
         /\ hidden \in Seq(Values) /\ Len(hidden) = n /\ DOMAIN hidden = 1 .. n
         /\ \A i \in 1 .. n : length + i - 1 \in 0 .. Len(Text) - 1
         /\ outcome = "running" /\ logits = <<>> /\ mtpLogits = <<>>
<1> DEFINE n == Len(call.ids)
<1>1. /\ call.ids \in Seq(Tokens) /\ hidden \in Seq(Values) /\ Len(hidden) = n
      /\ call.start + n <= MaxSeqLen /\ call.start = length /\ n > 0 /\ outcome = "running"
  BY DEF IInv, CallOK, TypeOK, Layers
<1>2. history \in Seq(Tokens) /\ length = Len(history)
  BY DEF IInv, StoreOK
<1>3. Text = history \o call.ids
  BY DEF Text
<1>4. Text \in Seq(Tokens) /\ Len(Text) = Len(history) + n
  BY ONLY <1>1, <1>2, <1>3, Joined
<1>5. n \in Nat /\ length \in Nat /\ DOMAIN hidden = 1 .. n
  BY <1>1, <1>2, LenProperties
<1>6. \A i \in 1 .. n : length + i - 1 \in 0 .. Len(Text) - 1
  BY ONLY <1>2, <1>4, <1>5
<1>7. logits = <<>> /\ mtpLogits = <<>>
  BY DEF IInv, ResultsOK
<1> QED
  BY ONLY <1>1, <1>2, <1>3, <1>4, <1>5, <1>6, <1>7

LEMMA GenerationStays ==
  ASSUME GenerationOK, UNCHANGED <<gen, call, outcome>>, outcome = "running",
         pc \in Layers \cup {"head"}, pc' \in Layers \cup {"head", "sample"}, Text' = Text
  PROVE  GenerationOK'
<1>1. CASE gen = NoGeneration
  <2>1. gen' = NoGeneration
    BY <1>1
  <2> QED
    BY <2>1 DEF GenerationOK
<1>2. CASE gen # NoGeneration
  <2>1. /\ gen.max \in Nat /\ ~call.mtp /\ Text = gen.prompt \o gen.new
        /\ Len(gen.new) < gen.max \/ gen.new = <<>>
        /\ \A j \in DOMAIN gen.new : gen.new[j] # gen.eos
    BY <1>2 DEF GenerationOK, GenerateFaithful
  <2>2. pc' = "sample" => Text' = history'
    BY DEF Text, Layers
  <2>3. gen' = gen /\ call' = call /\ outcome' = "running"
    OBVIOUS
  <2> QED
    BY ONLY <2>1, <2>2, <2>3, Text' = Text DEF GenerationOK, GenerateFaithful
<1> QED
  BY <1>1, <1>2

LEMMA SelfLayerKeeps ==
  ASSUME IInv, SelfLayer
  PROVE  IInv'
<1> DEFINE n == Len(call.ids)
           kv == Appended(selfKV[slot], length, hidden)
<1>1. pc = "self" /\ pc \in Layers
  BY DEF SelfLayer, Layers
<1>2. /\ n \in Nat \ {0} /\ length \in Nat /\ length = Len(history) /\ call.start = length
      /\ history \in Seq(Tokens) /\ call.ids \in Seq(Tokens)
      /\ Text = history \o call.ids /\ Text \in Seq(Tokens)
      /\ Len(Text) = length + n /\ length + n <= MaxSeqLen
      /\ hidden \in Seq(Values) /\ Len(hidden) = n /\ DOMAIN hidden = 1 .. n
      /\ \A i \in 1 .. n : length + i - 1 \in 0 .. Len(Text) - 1
      /\ outcome = "running" /\ logits = <<>> /\ mtpLogits = <<>>
  BY <1>1, InCall
<1>3. slot \in Nat /\ slot < Slots /\ slot \in 0 .. Slots - 1 /\ slot + 1 \in 0 .. Slots
      /\ slot + 1 \in 0 .. Slots + CrossLayers
  BY <1>1, Counts DEF IInv, CallOK, TypeOK
<1>4. /\ selfKV' = [selfKV EXCEPT ![slot] = kv]
      /\ hidden' = [i \in 1 .. n |->
           Attend(hidden[i], kv, Visible(length + i - 1, SelfWindow), hidden[i].depth)]
      /\ slot' = slot + 1 /\ pc' = Stage(slot + 1)
      /\ UNCHANGED <<length, yoco, call, results, outcome, gen, history, raises>>
  BY <1>2 DEF SelfLayer
<1>5. pc' = IF slot + 1 < Slots THEN "self" ELSE IF CrossLayers > 0 THEN "yoco" ELSE "commit"
  BY <1>4 DEF Stage
<1>6. pc' \in Layers /\ Text' = Text
  <2>1. pc' \in Layers
    BY <1>5 DEF Layers
  <2> QED
    BY <1>1, <1>4, <2>1 DEF Text
<1>7. /\ selfKV \in [0 .. Slots - 1 -> [Positions -> Values]]
      /\ \A s \in 0 .. Slots - 1 : Holds(selfKV[s], s, length, history)
  BY DEF IInv, StoreOK
<1>8. \A i \in 1 .. n : hidden[i] = Entry(Text, slot, length + i - 1)
  BY <1>1, <1>2 DEF IInv, HiddenOK
<1>9. Holds(selfKV[slot], slot, length, Text)
  BY ONLY <1>2, <1>3, <1>7, HoldsPrefix
<1>10. kv \in [Positions -> Values]
  BY ONLY <1>2, <1>3, <1>7, AppendedTypes
<1>11. Holds(kv, slot, length + n, Text)
  BY ONLY <1>2, <1>3, <1>8, <1>9, AppendedHolds
<1>12. Holds(kv, slot, length, history)
  <2>1. length <= MaxSeqLen
    BY <1>2, Counts
  <2> QED
    BY ONLY <1>2, <1>3, <1>7, <2>1, AppendedKeeps
<1> HIDE DEF kv
<1>13. \A i \in 1 .. n : hidden'[i] = Entry(Text, slot + 1, length + i - 1)
  <2> TAKE i \in 1 .. n
  <2> DEFINE p == length + i - 1
  <2>1. p \in Nat /\ p < length + n /\ length + n \in Nat
    BY <1>2
  <2>2. hidden[i] = Entry(Text, slot, p) /\ hidden[i].depth = slot
    BY ONLY <1>8, EntryParts, i \in 1 .. n
  <2>3. hidden'[i] = Attend(hidden[i], kv, Visible(p, SelfWindow), hidden[i].depth)
    BY ONLY <1>4, i \in 1 .. n
  <2> HIDE DEF p
  <2>4. Attend(Entry(Text, slot, p), kv, Visible(p, SelfWindow), slot) = Entry(Text, slot + 1, p)
    BY ONLY <1>3, <1>11, <2>1, SelfAttends
  <2> QED
    BY ONLY <2>2, <2>3, <2>4 DEF p
<1>14. hidden' \in Seq(Values) /\ Len(hidden') = n /\ DOMAIN hidden' = 1 .. n
  <2>1. \A i \in 1 .. n : hidden'[i] \in Values
    BY ONLY <1>2, <1>3, <1>13, EntryTypes
  <2>2. hidden' = [i \in 1 .. n |-> hidden'[i]]
    BY <1>4
  <2> QED
    BY ONLY <1>2, <2>1, <2>2, Tokenwise
<1>15. StoreOK'
  <2>1. selfKV' \in [0 .. Slots - 1 -> [Positions -> Values]]
    BY <1>3, <1>4, <1>7, <1>10
  <2>2. \A s \in 0 .. Slots - 1 : Holds(selfKV'[s], s, length, history)
    BY <1>3, <1>4, <1>7, <1>12
  <2> QED
    BY <1>4, <2>1, <2>2 DEF StoreOK, IInv
<1>16. GenTypes'
  BY <1>4 DEF GenTypes, IInv
<1>17. CallOK'
  <2>1. TypeOK'
    <3>1. pc' \in {"self", "yoco", "commit"}
      BY <1>5
    <3>2. gen'.new \in Seq(Tokens) /\ call' = call /\ outcome' = outcome
      BY <1>4 DEF IInv, CallOK, TypeOK
    <3>3. call.ids \in Seq(Tokens) /\ call.start + Len(call.ids) <= MaxSeqLen
      BY ONLY <1>2
    <3> QED
      BY <1>2, <1>3, <1>4, <1>14, <1>15, <3>1, <3>2, <3>3 DEF TypeOK, StoreOK
  <2>2. call' \in [ids : Seq(Tokens), mtp : BOOLEAN, start : Nat] /\ (call'.mtp => MtpN > 0)
    BY <1>4 DEF IInv, CallOK
  <2>3. /\ call'.start = length' /\ Len(call'.ids) > 0 /\ outcome' = "running"
        /\ pc' = "self" => slot' < Slots
        /\ pc' # "self" => slot' = Slots
        /\ pc' = "yoco" => CrossLayers > 0
    <3>1. call'.start = length' /\ Len(call'.ids) > 0 /\ outcome' = "running" /\ slot' = slot + 1
      BY <1>2, <1>4
    <3>2. Slots \in Nat
      BY Counts
    <3> QED
      BY ONLY <1>3, <1>5, <3>1, <3>2
  <2>4. pc' \in {"self", "yoco", "commit"}
    BY <1>5
  <2> QED
    BY ONLY <2>1, <2>2, <2>3, <2>4 DEF CallOK
<1>18. WrittenOK'
  <2>1. \A s \in 0 .. slot - 1 : Holds(selfKV[s], s, length + n, Text)
    BY <1>1 DEF IInv, WrittenOK, Layers
  <2>2. \A s \in 0 .. slot' - 1 : Holds(selfKV'[s], s, length + n, Text)
    <3>1. \A s \in 0 .. slot' - 1 : s \in 0 .. Slots - 1 /\ (s = slot \/ s \in 0 .. slot - 1)
      <4>1. slot' = slot + 1 /\ Slots \in Nat
        BY <1>4, Counts
      <4> QED
        BY ONLY <1>3, <4>1
    <3>2. selfKV'[slot] = kv /\ \A s \in 0 .. slot - 1 : selfKV'[s] = selfKV[s]
      BY <1>3, <1>4, <1>7
    <3> QED
      BY ONLY <1>11, <2>1, <3>1, <3>2
  <2>3. length' = length /\ Len(call'.ids) = n
    BY <1>4
  <2>4. pc' \in {"cross", "commit"} => ~(CrossLayers > 0)
    BY <1>5
  <2> QED
    BY ONLY <1>6, <2>2, <2>3, <2>4 DEF WrittenOK
<1>19. HiddenOK'
  <2>1. call'.start = length /\ slot' = slot + 1
    BY <1>2, <1>4
  <2>2. pc' = "commit" => CrossLayers = 0 /\ slot + 1 = Slots
    BY <1>3, <1>5, Counts
  <2>3. pc' = "commit" => \A i \in 1 .. n :
          Entry(Text, slot + 1, length + i - 1) = Whole(Text, Slots + CrossLayers, length + i - 1)
    <3>1. \A i \in 1 .. n : length + i - 1 \in Nat
      BY <1>2
    <3> QED
      BY ONLY <2>2, <3>1, EntryIsWhole
  <2>4. pc' \in {"self", "yoco", "commit"}
    BY <1>5
  <2> QED
    BY ONLY <1>6, <1>13, <1>14, <2>1, <2>3, <2>4 DEF HiddenOK
<1>20. ResultsOK'
  <2>1. logits' = <<>> /\ mtpLogits' = <<>> /\ pc' # "mtp"
    BY <1>2, <1>4, <1>5 DEF results
  <2> QED
    BY <2>1, Cleared
<1>21. GenerationOK'
  <2>1. GenerationOK /\ pc \in Layers \cup {"head"} /\ pc' \in Layers \cup {"head", "sample"}
    BY <1>1, <1>6 DEF IInv
  <2>2. UNCHANGED <<gen, call, outcome>> /\ outcome = "running"
    BY <1>2, <1>4
  <2> QED
    BY ONLY <1>6, <2>1, <2>2, GenerationStays
<1> QED
  BY <1>15, <1>16, <1>17, <1>18, <1>19, <1>20, <1>21 DEF IInv

LEMMA AppendYocoKeeps ==
  ASSUME IInv, AppendYoco
  PROVE  IInv'
<1> DEFINE n == Len(call.ids)
           kv == Appended(yoco, length, hidden)
<1>1. pc = "yoco" /\ pc \in Layers /\ pc' = "cross" /\ pc' \in Layers
  BY DEF AppendYoco, Layers
<1>2. /\ n \in Nat \ {0} /\ length \in Nat /\ length = Len(history) /\ call.start = length
      /\ history \in Seq(Tokens) /\ call.ids \in Seq(Tokens)
      /\ Text = history \o call.ids /\ Text \in Seq(Tokens)
      /\ Len(Text) = length + n /\ length + n <= MaxSeqLen
      /\ hidden \in Seq(Values) /\ Len(hidden) = n /\ DOMAIN hidden = 1 .. n
      /\ \A i \in 1 .. n : length + i - 1 \in 0 .. Len(Text) - 1
      /\ outcome = "running" /\ logits = <<>> /\ mtpLogits = <<>>
  BY <1>1, InCall
<1>3. slot = Slots /\ CrossLayers > 0 /\ Slots \in Nat /\ CrossLayers \in Nat
  BY <1>1, Counts DEF IInv, CallOK
<1>4. /\ yoco' = kv
      /\ UNCHANGED <<length, selfKV, call, hidden, slot, results, outcome, gen, history, raises>>
  BY <1>2 DEF AppendYoco
<1>5. Text' = Text
  BY <1>1, <1>4 DEF Text
<1>6. yoco \in [Positions -> Values] /\ Holds(yoco, Slots, length, history)
  BY <1>3 DEF IInv, StoreOK
<1>7. \A i \in 1 .. n : hidden[i] = Entry(Text, Slots, length + i - 1)
  BY <1>1, <1>2, <1>3 DEF IInv, HiddenOK
<1>8. kv \in [Positions -> Values]
  BY ONLY <1>2, <1>6, AppendedTypes
<1>9. Holds(kv, Slots, length + n, Text)
  <2>1. Holds(yoco, Slots, length, Text)
    BY ONLY <1>2, <1>3, <1>6, HoldsPrefix
  <2> QED
    BY ONLY <1>2, <1>3, <1>7, <2>1, AppendedHolds
<1>10. Holds(kv, Slots, length, history)
  <2>1. length <= MaxSeqLen
    BY <1>2, Counts
  <2> QED
    BY ONLY <1>2, <1>3, <1>6, <2>1, AppendedKeeps
<1> HIDE DEF kv
<1>11. StoreOK'
  BY <1>4, <1>8, <1>10 DEF StoreOK, IInv
<1>12. GenTypes'
  BY <1>4 DEF GenTypes, IInv
<1>13. CallOK'
  <2>1. TypeOK'
    BY <1>1, <1>4, <1>11 DEF TypeOK, StoreOK, IInv, CallOK
  <2> QED
    BY <1>1, <1>3, <1>4, <2>1 DEF IInv, CallOK, Layers
<1>14. WrittenOK'
  <2>1. \A s \in 0 .. slot - 1 : Holds(selfKV[s], s, length + n, Text)
    BY <1>1 DEF IInv, WrittenOK
  <2> QED
    BY <1>4, <1>5, <1>9, <2>1 DEF WrittenOK
<1>15. HiddenOK'
  <2>1. Slots \in Slots .. Slots + CrossLayers - 1
    BY ONLY <1>3
  <2>2. \A i \in 1 .. n : hidden[i].depth = Slots
    BY ONLY <1>7, EntryParts
  <2>3. hidden' = hidden /\ call'.start = length
    BY <1>2, <1>4
  <2> QED
    BY ONLY <1>1, <1>2, <1>5, <1>7, <2>1, <2>2, <2>3 DEF HiddenOK
<1>16. ResultsOK'
  <2>1. logits' = <<>> /\ mtpLogits' = <<>> /\ pc' # "mtp"
    BY <1>1, <1>2, <1>4 DEF results
  <2> QED
    BY <2>1, Cleared
<1>17. GenerationOK'
  <2>1. GenerationOK /\ pc \in Layers \cup {"head"} /\ pc' \in Layers \cup {"head", "sample"}
    BY <1>1 DEF IInv
  <2>2. UNCHANGED <<gen, call, outcome>> /\ outcome = "running"
    BY <1>2, <1>4
  <2> QED
    BY ONLY <1>5, <2>1, <2>2, GenerationStays
<1> QED
  BY <1>11, <1>12, <1>13, <1>14, <1>15, <1>16, <1>17 DEF IInv

LEMMA CrossLayerKeeps ==
  ASSUME IInv, CrossLayer
  PROVE  IInv'
<1> DEFINE n == Len(call.ids)
<1>1. pc = "cross" /\ pc \in Layers /\ pc' \in {"cross", "commit"} /\ pc' \in Layers
  BY DEF CrossLayer, Layers
<1>2. /\ n \in Nat \ {0} /\ length \in Nat /\ length = Len(history) /\ call.start = length
      /\ history \in Seq(Tokens) /\ call.ids \in Seq(Tokens)
      /\ Text = history \o call.ids /\ Text \in Seq(Tokens)
      /\ Len(Text) = length + n /\ length + n <= MaxSeqLen
      /\ hidden \in Seq(Values) /\ Len(hidden) = n /\ DOMAIN hidden = 1 .. n
      /\ \A i \in 1 .. n : length + i - 1 \in 0 .. Len(Text) - 1
      /\ outcome = "running" /\ logits = <<>> /\ mtpLogits = <<>>
  BY <1>1, InCall
<1>3. slot = Slots /\ CrossLayers > 0 /\ Slots \in Nat /\ CrossLayers \in Nat
  BY <1>1, Counts DEF IInv, CallOK
<1>4. /\ hidden' = [i \in 1 .. n |-> Attend(hidden[i], yoco, Visible(length + i - 1, -1), Slots)]
      /\ pc' = IF \A i \in 1 .. n : hidden'[i].depth \in {-1, Slots + CrossLayers}
               THEN "commit" ELSE "cross"
      /\ UNCHANGED <<length, selfKV, yoco, call, slot, results, outcome, gen, history, raises>>
  BY <1>2 DEF CrossLayer, cache
<1>5. Text' = Text
  BY <1>1, <1>4 DEF Text
<1>6. /\ Holds(yoco, Slots, length + n, Text)
      /\ \A s \in 0 .. slot - 1 : Holds(selfKV[s], s, length + n, Text)
  BY <1>1, <1>3 DEF IInv, WrittenOK
<1>7. PICK d \in Slots .. Slots + CrossLayers - 1 :
        /\ \A i \in 1 .. n : hidden[i].depth = d
        /\ \A i \in 1 .. n : \/ hidden[i] = Entry(Text, d, length + i - 1) /\ d = Slots
                             \/ hidden[i] = Whole(Text, d, length + i - 1)
  BY <1>1, <1>2 DEF IInv, HiddenOK
<1> DEFINE e == d + 1
<1>8. d \in Nat /\ e \in 0 .. Slots + CrossLayers /\ e # -1 /\ e = d + 1
      /\ (e # Slots + CrossLayers => e \in Slots .. Slots + CrossLayers - 1)
  BY ONLY <1>3, d \in Slots .. Slots + CrossLayers - 1
<1> HIDE DEF e
<1>9. \A i \in 1 .. n : hidden'[i] = Whole(Text, e, length + i - 1)
  <2> TAKE i \in 1 .. n
  <2> DEFINE p == length + i - 1
  <2>1. p \in Nat /\ p < length + n /\ length + n \in Nat
    BY <1>2
  <2>2. hidden[i].depth = d /\ (hidden[i] = Entry(Text, d, p) \/ hidden[i] = Whole(Text, d, p))
    BY ONLY <1>7, i \in 1 .. n
  <2>3. hidden'[i] = Attend(hidden[i], yoco, Visible(p, -1), Slots)
    BY ONLY <1>4, i \in 1 .. n
  <2> HIDE DEF p
  <2>4. Attend(hidden[i], yoco, Visible(p, -1), Slots) = Whole(Text, e, p)
    <3>1. \A x : x.depth = d /\ (x = Entry(Text, d, p) \/ x = Whole(Text, d, p))
                => Attend(x, yoco, Visible(p, -1), Slots) = Whole(Text, d + 1, p)
      BY ONLY <1>6, <1>8, <2>1, CrossAttends
    <3> QED
      BY ONLY <1>8, <2>2, <3>1
  <2> QED
    BY ONLY <2>3, <2>4 DEF p
<1>10. \A i \in 1 .. n : hidden'[i].depth = e
  BY ONLY <1>9, EntryParts
<1>11. pc' = "commit" <=> e = Slots + CrossLayers
  <2>1. 1 \in 1 .. n
    BY <1>2
  <2>2. pc' = "commit" <=> \A i \in 1 .. n : hidden'[i].depth \in {-1, Slots + CrossLayers}
    BY <1>4
  <2> QED
    BY ONLY <1>8, <1>10, <2>1, <2>2
<1>12. hidden' \in Seq(Values) /\ Len(hidden') = n /\ DOMAIN hidden' = 1 .. n
  <2>1. \A i \in 1 .. n : hidden'[i] \in Values
    BY ONLY <1>2, <1>8, <1>9, EntryTypes
  <2>2. hidden' = [i \in 1 .. n |-> hidden'[i]]
    BY <1>4
  <2> QED
    BY ONLY <1>2, <2>1, <2>2, Tokenwise
<1>13. StoreOK'
  BY <1>4 DEF StoreOK, IInv
<1>14. GenTypes'
  BY <1>4 DEF GenTypes, IInv
<1>15. CallOK'
  <2>1. TypeOK'
    BY <1>1, <1>4, <1>12, <1>13 DEF TypeOK, StoreOK, IInv, CallOK
  <2> QED
    BY <1>1, <1>3, <1>4, <2>1 DEF IInv, CallOK, Layers
<1>16. WrittenOK'
  BY <1>4, <1>5, <1>6 DEF WrittenOK
<1>17. HiddenOK'
  <2>1. call'.start = length
    BY <1>2, <1>4
  <2>2. CASE pc' = "commit"
    BY ONLY <1>5, <1>9, <1>11, <1>12, <2>1, <2>2 DEF HiddenOK
  <2>3. CASE pc' = "cross"
    <3>1. e \in Slots .. Slots + CrossLayers - 1
      BY <1>8, <1>11, <2>3
    <3>2. \E k \in Slots .. Slots + CrossLayers - 1 :
            /\ \A i \in DOMAIN hidden' : hidden'[i].depth = k
            /\ \A i \in DOMAIN hidden' : hidden'[i] = Whole(Text', k, call'.start + i - 1)
      BY ONLY <1>5, <1>9, <1>10, <1>12, <2>1, <3>1
    <3> QED
      BY ONLY <2>3, <3>2 DEF HiddenOK
  <2> QED
    BY <1>1, <2>2, <2>3
<1>18. ResultsOK'
  <2>1. logits' = <<>> /\ mtpLogits' = <<>> /\ pc' # "mtp"
    BY <1>1, <1>2, <1>4 DEF results
  <2> QED
    BY <2>1, Cleared
<1>19. GenerationOK'
  <2>1. GenerationOK /\ pc \in Layers \cup {"head"} /\ pc' \in Layers \cup {"head", "sample"}
    BY <1>1 DEF IInv
  <2>2. UNCHANGED <<gen, call, outcome>> /\ outcome = "running"
    BY <1>2, <1>4
  <2> QED
    BY ONLY <1>5, <2>1, <2>2, GenerationStays
<1> QED
  BY <1>13, <1>14, <1>15, <1>16, <1>17, <1>18, <1>19 DEF IInv

LEMMA CommitKeeps ==
  ASSUME IInv, Commit
  PROVE  IInv'
<1> DEFINE n == Len(call.ids)
<1>1. pc = "commit" /\ pc \in Layers /\ pc' = "head" /\ pc' \notin Layers
  BY DEF Commit, Layers
<1>2. /\ n \in Nat \ {0} /\ length \in Nat /\ length = Len(history) /\ call.start = length
      /\ history \in Seq(Tokens) /\ call.ids \in Seq(Tokens)
      /\ Text = history \o call.ids /\ Text \in Seq(Tokens)
      /\ Len(Text) = length + n /\ length + n <= MaxSeqLen
      /\ hidden \in Seq(Values) /\ Len(hidden) = n /\ DOMAIN hidden = 1 .. n
      /\ \A i \in 1 .. n : length + i - 1 \in 0 .. Len(Text) - 1
      /\ outcome = "running" /\ logits = <<>> /\ mtpLogits = <<>>
  BY <1>1, InCall
<1>3. /\ length' = length + n /\ history' = Text
      /\ UNCHANGED <<selfKV, yoco, call, hidden, slot, results, outcome, gen, raises>>
  BY <1>2 DEF Commit
<1>4. Text' = Text
  BY <1>1, <1>3 DEF Text
<1>5. slot = Slots
  BY <1>1 DEF IInv, CallOK
<1>6. /\ \A s \in 0 .. slot - 1 : Holds(selfKV[s], s, length + n, Text)
      /\ CrossLayers > 0 => Holds(yoco, Slots, length + n, Text)
  BY <1>1 DEF IInv, WrittenOK
<1>7. StoreOK'
  <2>1. length + n \in 0 .. MaxSeqLen
    BY <1>2, Counts
  <2> QED
    BY <1>2, <1>3, <1>5, <1>6, <2>1 DEF StoreOK, IInv
<1>8. GenTypes'
  BY <1>3 DEF GenTypes, IInv
<1>9. CallOK'
  <2>1. TypeOK'
    BY <1>1, <1>3, <1>7 DEF TypeOK, StoreOK, IInv, CallOK
  <2>2. call'.start + Len(call'.ids) = length'
    BY <1>2, <1>3
  <2> QED
    BY <1>1, <1>3, <2>1, <2>2 DEF IInv, CallOK, Layers
<1>10. WrittenOK'
  BY <1>1 DEF WrittenOK
<1>11. HiddenOK'
  BY <1>1, <1>3, <1>4 DEF IInv, HiddenOK
<1>12. ResultsOK'
  <2>1. logits' = <<>> /\ mtpLogits' = <<>> /\ pc' # "mtp"
    BY <1>1, <1>2, <1>3 DEF results
  <2> QED
    BY <2>1, Cleared
<1>13. GenerationOK'
  <2>1. GenerationOK /\ pc \in Layers \cup {"head"} /\ pc' \in Layers \cup {"head", "sample"}
    BY <1>1 DEF IInv
  <2>2. UNCHANGED <<gen, call, outcome>> /\ outcome = "running"
    BY <1>2, <1>3
  <2> QED
    BY ONLY <1>4, <2>1, <2>2, GenerationStays
<1> QED
  BY <1>7, <1>8, <1>9, <1>10, <1>11, <1>12, <1>13 DEF IInv

-----------------------------------------------------------------------------
(* The heads. *)

LEMMA AfterLayers ==
  ASSUME IInv, pc \in {"head", "mtp"}
  PROVE  LET n == Len(call.ids) IN
         /\ n \in Nat \ {0} /\ length \in Nat /\ length = Len(history)
         /\ call.start + n = length /\ call.start \in Nat /\ Text = history
         /\ hidden \in Seq(Values) /\ Len(hidden) = n /\ DOMAIN hidden = 1 .. n
         /\ \A i \in 1 .. n : hidden[i] = Whole(history, Slots + CrossLayers, call.start + i - 1)
         /\ outcome = "running" /\ mtpLogits = <<>>
<1> DEFINE n == Len(call.ids)
<1>1. /\ call.ids \in Seq(Tokens) /\ hidden \in Seq(Values) /\ Len(hidden) = n
      /\ call.start + n = length /\ n > 0 /\ outcome = "running" /\ call.start \in Nat
  BY DEF IInv, CallOK, TypeOK, Layers
<1>2. history \in Seq(Tokens) /\ length = Len(history)
  BY DEF IInv, StoreOK
<1>3. Text = history
  BY DEF Text, Layers
<1>4. n \in Nat /\ length \in Nat /\ DOMAIN hidden = 1 .. n
  BY <1>1, <1>2, LenProperties
<1>5. \A i \in 1 .. n : hidden[i] = Whole(history, Slots + CrossLayers, call.start + i - 1)
  BY <1>3, <1>4 DEF IInv, HiddenOK
<1>6. mtpLogits = <<>>
  BY DEF IInv, ResultsOK
<1> QED
  BY ONLY <1>1, <1>2, <1>3, <1>4, <1>5, <1>6

LEMMA GenerationEnds ==
  ASSUME GenerationOK, gen' = gen, pc' = "idle", ~call'.mtp,
         \/ outcome' = "raised"
         \/ outcome' = "returned" /\ gen = NoGeneration
  PROVE  GenerationOK'
<1>1. CASE gen = NoGeneration
  <2>1. gen' = NoGeneration
    BY <1>1
  <2> QED
    BY <2>1 DEF GenerationOK
<1>2. CASE gen # NoGeneration
  <2>1. outcome' = "raised" /\ gen.max \in Nat /\ \A j \in DOMAIN gen.new : gen.new[j] # gen.eos
    BY <1>2 DEF GenerationOK, GenerateFaithful
  <2> QED
    BY <2>1 DEF GenerationOK, GenerateFaithful, Layers
<1> QED
  BY <1>1, <1>2

LEMMA OutputHeadKeeps ==
  ASSUME IInv, OutputHead
  PROVE  IInv'
<1> DEFINE n == Len(call.ids)
<1>1. pc = "head"
  BY DEF OutputHead
<1>2. /\ n \in Nat \ {0} /\ length \in Nat /\ length = Len(history)
      /\ call.start + n = length /\ call.start \in Nat /\ Text = history
      /\ hidden \in Seq(Values) /\ Len(hidden) = n /\ DOMAIN hidden = 1 .. n
      /\ \A i \in 1 .. n : hidden[i] = Whole(history, Slots + CrossLayers, call.start + i - 1)
      /\ outcome = "running" /\ mtpLogits = <<>>
  BY <1>1, AfterLayers
<1>3. /\ logits' = hidden /\ mtpLogits' = <<>>
      /\ UNCHANGED <<length, selfKV, yoco, gen, history, raises>>
  BY <1>2 DEF OutputHead, cache
<1>4. StoreOK' /\ GenTypes'
  BY <1>3 DEF IInv, StoreOK, GenTypes
<1>5. LogitsSeeHistory'
  <2>1. \A i \in 1 .. n : Len(history') - Len(logits') + i - 1 = call.start + i - 1
    BY <1>2, <1>3
  <2>2. \A i \in 1 .. n : logits'[i] = [depth |-> Slots + CrossLayers,
                                          seen |-> SeenIn(history', 0 .. (call.start + i - 1))]
    BY <1>2, <1>3 DEF Whole
  <2>3. DOMAIN logits' = 1 .. n /\ DOMAIN mtpLogits' = {}
    BY <1>2, <1>3
  <2> QED
    BY ONLY <2>1, <2>2, <2>3 DEF LogitsSeeHistory, Seen
<1>6. CASE call.mtp
  <2>1. pc' = "mtp" /\ UNCHANGED <<call, hidden, slot, outcome>>
    BY <1>6 DEF OutputHead
  <2>2. gen' = NoGeneration
    BY <1>3, <1>6 DEF IInv, GenerationOK
  <2>3. TypeOK'
    BY <1>3, <1>4, <2>1 DEF TypeOK, StoreOK, IInv, CallOK
  <2>4. CallOK'
    BY <1>2, <1>3, <1>6, <2>1, <2>3 DEF IInv, CallOK, Layers
  <2>5. WrittenOK'
    BY <2>1 DEF WrittenOK, Layers
  <2>6. HiddenOK'
    <3>1. Text' = history
      BY <1>3, <2>1 DEF Text, Layers
    <3> QED
      BY <1>2, <2>1, <3>1 DEF HiddenOK
  <2>7. ResultsOK'
    BY <1>2, <1>3, <1>5, <2>1 DEF ResultsOK, Layers
  <2> QED
    BY <1>4, <2>2, <2>4, <2>5, <2>6, <2>7 DEF IInv, GenerationOK
<1>7. CASE ~call.mtp /\ gen # NoGeneration
  <2>1. pc' = "sample" /\ UNCHANGED <<call, hidden, slot, outcome>>
    BY <1>7 DEF OutputHead
  <2>2. TypeOK'
    BY <1>3, <1>4, <2>1 DEF TypeOK, StoreOK, IInv, CallOK
  <2>3. CallOK'
    BY <1>2, <1>3, <1>7, <2>1, <2>2 DEF IInv, CallOK, Layers
  <2>4. WrittenOK' /\ HiddenOK'
    BY <2>1 DEF WrittenOK, HiddenOK, Layers
  <2>5. ResultsOK'
    BY <1>3, <1>5, <2>1 DEF ResultsOK, Layers
  <2>6. GenerationOK'
    <3>1. Text' = Text
      BY <1>2, <1>3, <2>1 DEF Text, Layers
    <3>2. GenerationOK /\ pc \in Layers \cup {"head"} /\ pc' \in Layers \cup {"head", "sample"}
      BY <1>1, <2>1 DEF IInv
    <3>3. UNCHANGED <<gen, call, outcome>> /\ outcome = "running"
      BY <1>2, <1>3, <2>1
    <3> QED
      BY ONLY <3>1, <3>2, <3>3, GenerationStays
  <2> QED
    BY <1>4, <2>3, <2>4, <2>5, <2>6 DEF IInv
<1>8. CASE ~call.mtp /\ gen = NoGeneration
  <2>1. End("returned")
    BY <1>8 DEF OutputHead
  <2>2. (CallOK /\ WrittenOK /\ HiddenOK)' /\ pc' = "idle" /\ outcome' = "returned"
    BY <1>4, <2>1, Ended
  <2>3. ResultsOK'
    BY <1>5, <2>2 DEF ResultsOK, Layers
  <2>4. gen' = NoGeneration
    BY <1>3, <1>8
  <2> QED
    BY <1>4, <2>2, <2>3, <2>4 DEF IInv, GenerationOK
<1> QED
  BY <1>6, <1>7, <1>8

LEMMA RunMtpKeeps ==
  ASSUME IInv, RunMtp
  PROVE  IInv'
<1> DEFINE n == Len(call.ids)
<1>1. pc = "mtp" /\ End("returned")
  BY DEF RunMtp
<1>2. /\ n \in Nat \ {0} /\ length \in Nat /\ length = Len(history)
      /\ call.start + n = length /\ call.start \in Nat /\ Text = history
      /\ hidden \in Seq(Values) /\ Len(hidden) = n /\ DOMAIN hidden = 1 .. n
      /\ \A i \in 1 .. n : hidden[i] = Whole(history, Slots + CrossLayers, call.start + i - 1)
      /\ outcome = "running" /\ mtpLogits = <<>>
  BY <1>1, AfterLayers
<1>3. /\ mtpLogits' = [k \in 1 .. MtpN |-> [i \in 1 .. n |->
           Predict(hidden[i], call.start + i - 1, 1 .. k)]]
      /\ UNCHANGED <<length, selfKV, yoco, logits, gen, history, raises>>
  BY <1>2 DEF RunMtp, cache
<1>4. StoreOK' /\ GenTypes'
  BY <1>3 DEF IInv, StoreOK, GenTypes
<1>5. Holds(yoco, Slots, length, history)
  <2>1. CrossLayers > 0
    BY <1>1, InferenceAssumption, Counts DEF IInv, CallOK
  <2> QED
    BY <2>1 DEF IInv, StoreOK
<1>6. \A k \in 1 .. MtpN : \A i \in 1 .. n :
        mtpLogits'[k][i] = [seen |-> SeenIn(history, 0 .. (call.start + i - 1)), depths |-> 1 .. k]
  <2> TAKE k \in 1 .. MtpN
  <2> TAKE i \in 1 .. n
  <2> DEFINE p == call.start + i - 1
  <2>1. p \in Nat /\ p < length
    BY <1>2
  <2>2. mtpLogits'[k][i] = Predict(hidden[i], p, 1 .. k)
    BY ONLY <1>3, i \in 1 .. n, k \in 1 .. MtpN
  <2>3. hidden[i] = Whole(history, Slots + CrossLayers, p)
    BY ONLY <1>2, i \in 1 .. n
  <2> HIDE DEF p
  <2>4. Predict(Whole(history, Slots + CrossLayers, p), p, 1 .. k)
          = [seen |-> SeenIn(history, 0 .. p), depths |-> 1 .. k]
    BY ONLY <1>2, <1>5, <2>1, MtpPredicts
  <2> QED
    BY <2>2, <2>3, <2>4 DEF p
<1>7. LogitsSeeHistory'
  <2>1. /\ Len(logits') = n /\ DOMAIN mtpLogits' = 1 .. MtpN
        /\ \A k \in 1 .. MtpN : DOMAIN mtpLogits'[k] = 1 .. n
    BY <1>1, <1>3 DEF IInv, ResultsOK
  <2>2. \A i \in 1 .. n : Len(history') - Len(logits') + i - 1 = call.start + i - 1
    <3>1. Len(history') = length /\ Len(logits') = n
      BY ONLY <1>2, <1>3, <2>1
    <3>2. length = call.start + n /\ call.start \in Nat /\ n \in Nat
      BY ONLY <1>2
    <3> HIDE DEF n
    <3> QED
      BY ONLY <3>1, <3>2
  <2>3. \A i \in DOMAIN logits' : logits'[i] = [depth |-> Slots + CrossLayers,
          seen |-> SeenIn(history', 0 .. (Len(history') - Len(logits') + i - 1))]
    BY <1>3 DEF IInv, ResultsOK, LogitsSeeHistory, Seen
  <2>4. \A k \in 1 .. MtpN : \A i \in 1 .. n : mtpLogits'[k][i] =
          [seen |-> SeenIn(history', 0 .. (Len(history') - Len(logits') + i - 1)), depths |-> 1 .. k]
    <3>1. history' = history
      BY <1>3
    <3> QED
      BY ONLY <1>6, <2>2, <3>1
  <2> QED
    BY ONLY <2>1, <2>3, <2>4 DEF LogitsSeeHistory, Seen
<1>8. (CallOK /\ WrittenOK /\ HiddenOK)' /\ pc' = "idle" /\ outcome' = "returned"
  BY <1>1, <1>4, Ended
<1>9. ResultsOK'
  BY <1>7, <1>8 DEF ResultsOK, Layers
<1>10. gen' = NoGeneration
  BY <1>1, <1>3 DEF IInv, GenerationOK, CallOK
<1> QED
  BY <1>4, <1>8, <1>9, <1>10 DEF IInv, GenerationOK

LEMMA FailKeeps ==
  ASSUME IInv, Fail
  PROVE  IInv'
<1>1. /\ pc # "idle" /\ End("raised") /\ logits' = <<>> /\ mtpLogits' = <<>>
      /\ UNCHANGED <<length, gen, history>>
  BY DEF Fail
<1>2. /\ hidden \in Seq(Values) /\ Spoilt(hidden) \in Seq(Values)
  <2>1. hidden \in Seq(Values)
    BY DEF IInv, CallOK, TypeOK
  <2>2. Len(hidden) \in Nat /\ DOMAIN hidden = 1 .. Len(hidden)
    BY <2>1, LenProperties
  <2>3. Undefined \in Values
    BY Counts DEF Undefined, Values
  <2>4. /\ Spoilt(hidden) = [i \in 1 .. Len(hidden) |-> Spoilt(hidden)[i]]
        /\ \A i \in 1 .. Len(hidden) : Spoilt(hidden)[i] \in Values
    BY <2>2, <2>3 DEF Spoilt
  <2> QED
    BY ONLY <2>1, <2>2, <2>4, Tokenwise
<1>3. /\ length \in Nat /\ length <= MaxSeqLen /\ Slots \in Nat
      /\ selfKV \in [0 .. Slots - 1 -> [Positions -> Values]] /\ yoco \in [Positions -> Values]
      /\ \A s \in 0 .. Slots - 1 : Holds(selfKV[s], s, length, history)
      /\ CrossLayers > 0 => Holds(yoco, Slots, length, history)
  BY Counts DEF IInv, StoreOK
<1>4. pc \in Layers => call.start = length
  BY DEF IInv, CallOK
<1> DEFINE Kept ==
             /\ selfKV' \in [0 .. Slots - 1 -> [Positions -> Values]]
             /\ yoco' \in [Positions -> Values]
             /\ \A s \in 0 .. Slots - 1 : Holds(selfKV'[s], s, length, history)
             /\ CrossLayers > 0 => Holds(yoco', Slots, length, history)
<1>5. Kept
  <2>1. CASE UNCHANGED <<selfKV, yoco>>
    BY <1>3, <2>1
  <2>2. ASSUME pc = "self", yoco' = yoco, NEW xs \in Seq(Values),
               selfKV' = [selfKV EXCEPT ![slot] = Appended(selfKV[slot], call.start, xs)]
        PROVE  Kept
    <3> DEFINE kv == Appended(selfKV[slot], length, xs)
    <3>1. slot \in 0 .. Slots - 1 /\ slot \in Nat /\ call.start = length
      BY <1>3, <1>4, <2>2 DEF IInv, CallOK, TypeOK, Layers
    <3>2. kv \in [Positions -> Values]
      BY ONLY <1>3, <3>1, AppendedTypes, xs \in Seq(Values)
    <3>3. Holds(kv, slot, length, history)
      BY ONLY <1>3, <3>1, AppendedKeeps, xs \in Seq(Values)
    <3>4. selfKV' = [selfKV EXCEPT ![slot] = kv]
      BY <2>2, <3>1
    <3> HIDE DEF kv
    <3> QED
      BY ONLY <1>3, <2>2, <3>1, <3>2, <3>3, <3>4
  <2>3. ASSUME pc = "yoco", selfKV' = selfKV, NEW xs \in Seq(Values),
               yoco' = Appended(yoco, call.start, xs)
        PROVE  Kept
    <3>1. call.start = length
      BY <1>4, <2>3 DEF Layers
    <3>2. yoco' \in [Positions -> Values]
      BY <1>3, <2>3, <3>1, AppendedTypes
    <3>3. CrossLayers > 0 => Holds(yoco', Slots, length, history)
      BY <1>3, <2>3, <3>1, AppendedKeeps
    <3> QED
      BY ONLY <1>3, <2>3, <3>2, <3>3
  <2> QED
    BY <1>2, <2>1, <2>2, <2>3 DEF Fail
<1>6. StoreOK' /\ GenTypes'
  BY <1>1, <1>5 DEF IInv, StoreOK, GenTypes
<1>7. (CallOK /\ WrittenOK /\ HiddenOK)' /\ pc' = "idle" /\ outcome' = "raised"
  BY <1>1, <1>6, Ended
<1>8. ResultsOK'
  BY <1>1, <1>7, Cleared
<1>9. GenerationOK'
  <2>1. ~call'.mtp
    BY <1>1 DEF End, NoCall
  <2> QED
    BY <1>1, <1>7, <2>1, GenerationEnds DEF IInv
<1> QED
  BY <1>6, <1>7, <1>8, <1>9 DEF IInv

-----------------------------------------------------------------------------
(* The caller's steps. *)

LEMMA IdListsAreTexts == IdLists \subseteq Seq(Tokens)
<1>1. \A m \in 0 .. MaxIds : [1 .. m -> Tokens] \subseteq Seq(Tokens)
  OBVIOUS
<1> QED
  BY <1>1 DEF IdLists, SeqOf

LEMMA NoGenerationTypes ==
  NoGeneration \in [prompt : Seq(Tokens), max : Nat \cup {-1}, eos : Tokens \cup {None},
                    new : Seq(Tokens)]
BY DEF NoGeneration

LEMMA PrefillKeeps ==
  ASSUME IInv, NEW ids \in IdLists, NEW mtp \in BOOLEAN, Prefill(ids, mtp)
  PROVE  IInv'
<1>1. StoreOK'
  BY Forgets DEF Prefill, IInv
<1>2. gen' = NoGeneration /\ GenTypes'
  BY NoGenerationTypes DEF Prefill, GenTypes
<1>3. ids \in Seq(Tokens) /\ (mtp => MtpN > 0) /\ 0 = length' /\ Enter(ids, mtp, 0)
  BY IdListsAreTexts DEF Prefill, Forget
<1>4. (CallOK /\ WrittenOK /\ HiddenOK /\ ResultsOK)'
  BY ONLY <1>1, <1>2, <1>3, Entered, mtp \in BOOLEAN
<1> QED
  BY <1>1, <1>2, <1>4 DEF IInv, GenerationOK

LEMMA DecodeKeeps ==
  ASSUME IInv, NEW ids \in IdLists, NEW mtp \in BOOLEAN, Decode(ids, mtp)
  PROVE  IInv'
<1>1. StoreOK'
  BY DEF Decode, cache, StoreOK, IInv
<1>2. gen' = NoGeneration /\ GenTypes'
  BY NoGenerationTypes DEF Decode, GenTypes
<1>3. ids \in Seq(Tokens) /\ (mtp => MtpN > 0) /\ length = length' /\ Enter(ids, mtp, length)
  BY IdListsAreTexts DEF Decode, cache
<1>4. (CallOK /\ WrittenOK /\ HiddenOK /\ ResultsOK)'
  BY ONLY <1>1, <1>2, <1>3, Entered, mtp \in BOOLEAN
<1> QED
  BY <1>1, <1>2, <1>4 DEF IInv, GenerationOK

LEMMA RefuseKeeps ==
  ASSUME IInv, Refuse \/ ResetCache
  PROVE  IInv'
<1>1. StoreOK'
  <2>1. CASE Refuse
    BY <2>1 DEF Refuse, cache, StoreOK, IInv
  <2>2. CASE ResetCache
    BY <2>2, Forgets DEF ResetCache, IInv
  <2> QED
    BY <2>1, <2>2
<1>2. gen' = NoGeneration /\ GenTypes'
  BY NoGenerationTypes DEF Refuse, ResetCache, GenTypes
<1>3. (CallOK /\ WrittenOK /\ HiddenOK)' /\ pc' = "idle"
  <2>1. End("refused") \/ End("returned")
    BY DEF Refuse, ResetCache
  <2> QED
    BY ONLY <1>1, <1>2, <2>1, Ended
<1>4. ResultsOK'
  <2>1. logits' = <<>> /\ mtpLogits' = <<>>
    BY DEF Refuse, ResetCache
  <2> QED
    BY <1>3, <2>1, Cleared
<1> QED
  BY <1>1, <1>2, <1>3, <1>4 DEF IInv, GenerationOK

LEMMA GenerateKeeps ==
  ASSUME IInv, NEW prompt \in IdLists, NEW max \in 0 .. MaxNew,
         NEW eos \in Tokens \cup {None}, Generate(prompt, max, eos)
  PROVE  IInv'
<1>1. StoreOK' /\ history' = <<>> /\ length' = 0
  BY Forgets DEF Generate, IInv, Forget
<1>2. prompt \in Seq(Tokens) /\ max \in Nat
  BY IdListsAreTexts, InferenceAssumption
<1>3. /\ gen' = [prompt |-> prompt, max |-> max, eos |-> eos, new |-> <<>>] /\ GenTypes'
  BY <1>2 DEF Generate, GenTypes
<1>4. gen'.prompt = prompt /\ gen'.max = max /\ gen'.new = <<>>
  BY <1>3
<1>5. Enter(prompt, FALSE, 0)
  BY DEF Generate
<1>6. /\ (CallOK /\ WrittenOK /\ HiddenOK /\ ResultsOK)'
      /\ \/ /\ pc' = "idle" /\ outcome' = "refused"
            /\ prompt = <<>> \/ 0 + Len(prompt) > MaxSeqLen
         \/ /\ pc' \in Layers /\ outcome' = "running"
            /\ call'.mtp = FALSE /\ Text' = history' \o prompt
  BY ONLY <1>1, <1>2, <1>3, <1>5, Entered
<1>7. GenerationOK'
  <2>1. CASE pc' = "idle" /\ outcome' = "refused" /\ (prompt = <<>> \/ 0 + Len(prompt) > MaxSeqLen)
    <3>1. Len(prompt) \in Nat
      BY <1>2, LenProperties
    <3>2. ~call'.mtp
      BY <1>5, <2>1 DEF Enter, End, NoCall, Stage
    <3> QED
      BY <1>2, <1>4, <2>1, <3>1, <3>2 DEF GenerationOK, GenerateFaithful, Layers
  <2>2. CASE /\ pc' \in Layers /\ outcome' = "running"
             /\ call'.mtp = FALSE /\ Text' = history' \o prompt
    <3>1. Text' = prompt \o <<>>
      BY <1>1, <1>2, <2>2, ConcatEmptySeq
    <3> QED
      BY <1>2, <1>4, <2>2, <3>1 DEF GenerationOK, GenerateFaithful, Layers
  <2> QED
    BY <1>6, <2>1, <2>2
<1> QED
  BY <1>1, <1>3, <1>6, <1>7 DEF IInv

-----------------------------------------------------------------------------
(* generate's loop. *)

LEMMA Appending ==
  ASSUME NEW S, NEW s \in Seq(S), NEW t \in S
  PROVE  /\ Append(s, t) \in Seq(S) /\ Len(Append(s, t)) = Len(s) + 1
         /\ Append(s, t) = s \o <<t>> /\ <<t>> \in Seq(S)
         /\ Front(Append(s, t)) = s
         /\ DOMAIN s = 1 .. Len(s) /\ DOMAIN Append(s, t) = 1 .. Len(s) + 1
         /\ \A i \in 1 .. Len(s) : Append(s, t)[i] = s[i]
         /\ Append(s, t)[Len(s) + 1] = t
<1> DEFINE a == Append(s, t)
           n == Len(s)
<1>1. /\ a \in Seq(S) /\ Len(a) = n + 1
      /\ \A i \in 1 .. n : a[i] = s[i]
      /\ a[n + 1] = t
  BY AppendProperties
<1>2. n \in Nat /\ DOMAIN s = 1 .. n /\ DOMAIN a = 1 .. n + 1
  BY <1>1, LenProperties
<1> HIDE DEF a, n
<1>3. Front(a) = SubSeq(a, 1, n)
  <2>1. Len(a) - 1 = n
    BY ONLY <1>1, <1>2
  <2> QED
    BY ONLY <2>1 DEF Front
<1>4. /\ SubSeq(a, 1, n) \in Seq(S) /\ Len(SubSeq(a, 1, n)) = n
      /\ \A i \in 1 .. n : SubSeq(a, 1, n)[i] = s[i]
  <2>1. \A i \in 1 .. n : a[i] \in S
    <3>1. \A i \in 1 .. n : i \in 1 .. Len(a)
      BY ONLY <1>1, <1>2
    <3> QED
      BY ONLY <1>1, <3>1, ElementOfSeq
  <2>2. 1 \in Int /\ n \in Int /\ n - 1 + 1 = n /\ (~(1 <= n) => n = 0)
        /\ \A i \in 1 .. n : 1 + i - 1 = i
    BY ONLY <1>2
  <2>3. /\ SubSeq(a, 1, n) \in Seq(S)
        /\ Len(SubSeq(a, 1, n)) = IF 1 <= n THEN n - 1 + 1 ELSE 0
        /\ \A i \in 1 .. n - 1 + 1 : SubSeq(a, 1, n)[i] = a[1 + i - 1]
    BY ONLY <2>1, <2>2, SubSeqProperties
  <2>4. \A i \in 1 .. n : SubSeq(a, 1, n)[i] = a[i]
    BY ONLY <2>2, <2>3
  <2> QED
    BY ONLY <1>1, <2>2, <2>3, <2>4
<1>5. Front(a) = s
  <2>1. s \in Seq(S) /\ Len(s) = n
    BY DEF n
  <2> QED
    BY ONLY <1>3, <1>4, <2>1, SeqEqual
<1>6. a = s \o <<t>> /\ <<t>> \in Seq(S)
  BY AppendIsConcat DEF a
<1> QED
  BY <1>1, <1>2, <1>5, <1>6 DEF a, n

LEMMA Regrouped ==
  \A s \in Seq(Tokens) : \A t \in Seq(Tokens) : \A u \in Seq(Tokens) :
    (s \o t) \o u = s \o (t \o u)
<1> TAKE s \in Seq(Tokens)
<1> TAKE t \in Seq(Tokens)
<1> TAKE u \in Seq(Tokens)
<1> QED
  BY ConcatAssociative

LEMMA SampleKeeps ==
  ASSUME IInv, Sample
  PROVE  IInv'
<1> DEFINE m == Len(gen.new)
<1>1. /\ pc = "sample" /\ UNCHANGED <<length, selfKV, yoco, history, raises>>
      /\ m = gen.max \/ m < gen.max
  BY DEF Sample, cache
<1>2. /\ gen.prompt \in Seq(Tokens) /\ gen.max \in Nat \cup {-1} /\ gen.eos \in Tokens \cup {None}
      /\ gen.new \in Seq(Tokens) /\ GenTypes
  BY DEF IInv, GenTypes
<1>3. m \in Nat
  BY <1>2, LenProperties
<1>4. gen # NoGeneration
  <2>1. gen = NoGeneration => gen.max = -1
    BY DEF NoGeneration
  <2> QED
    BY ONLY <1>1, <1>3, <2>1
<1>5. /\ gen.max \in Nat /\ ~call.mtp
      /\ Text = gen.prompt \o gen.new
      /\ Len(gen.new) < gen.max \/ gen.new = <<>>
      /\ \A j \in DOMAIN gen.new : gen.new[j] # gen.eos
  BY <1>1, <1>4 DEF IInv, GenerationOK, GenerateFaithful
<1>6. history = gen.prompt \o gen.new /\ length = Len(history) /\ history \in Seq(Tokens)
  BY <1>1, <1>5 DEF Text, Layers, IInv, StoreOK
<1>7. StoreOK'
  BY <1>1 DEF StoreOK, IInv
<1>8. LogitsSeeHistory
  BY DEF IInv, ResultsOK
<1>9. CASE /\ \/ m = gen.max /\ End("returned")
              \/ m < gen.max /\ End("stopped")
           /\ UNCHANGED <<gen, results>>
  <2>1. GenTypes'
    BY <1>2, <1>9 DEF GenTypes
  <2>2. /\ (CallOK /\ WrittenOK /\ HiddenOK)' /\ pc' = "idle"
        /\ \/ m = gen.max /\ outcome' = "returned"
           \/ outcome' = "stopped"
    BY <1>7, <1>9, <2>1, Ended
  <2>3. ResultsOK'
    <3>1. LogitsSeeHistory'
      BY <1>1, <1>8, <1>9 DEF LogitsSeeHistory, Seen, results
    <3> QED
      BY <2>2, <3>1 DEF ResultsOK, Layers
  <2>4. GenerationOK'
    <3>1. ~call'.mtp /\ gen' = gen /\ history' = history
      BY <1>1, <1>9 DEF End, NoCall
    <3>2. m = gen.max => gen.new = <<>> /\ gen.max = 0
      BY ONLY <1>3, <1>5, EmptySeq, Len(<<>>) = 0
    <3>3. m = gen.max => history = gen.prompt
      BY <1>2, <1>6, <3>2, ConcatEmptySeq
    <3> QED
      BY <1>5, <1>6, <2>2, <3>1, <3>2, <3>3 DEF GenerationOK, GenerateFaithful, Layers
  <2> QED
    BY <1>7, <2>1, <2>2, <2>3, <2>4 DEF IInv
<1>10. ASSUME m < gen.max, NEW t \in Tokens, t # gen.eos,
              gen' = [gen EXCEPT !.new = Append(@, t)],
              IF Len(gen'.new) < gen.max THEN Enter(<<t>>, FALSE, length)
              ELSE End("returned") /\ UNCHANGED results
       PROVE  IInv'
  <2>1. /\ gen'.prompt = gen.prompt /\ gen'.max = gen.max /\ gen'.eos = gen.eos
        /\ gen'.new = Append(gen.new, t) /\ gen' # NoGeneration /\ GenTypes'
    <3>1. gen' = [prompt |-> gen.prompt, max |-> gen.max, eos |-> gen.eos,
                  new |-> Append(gen.new, t)]
      BY <1>2, <1>10 DEF GenTypes
    <3>2. Append(gen.new, t) \in Seq(Tokens)
      BY <1>2, Appending
    <3>3. gen'.max # -1 /\ NoGeneration.max = -1
      BY <1>5, <3>1 DEF NoGeneration
    <3> QED
      BY <1>2, <3>1, <3>2, <3>3 DEF GenTypes
  <2>2. /\ Len(gen'.new) = m + 1 /\ Front(gen'.new) = gen.new
        /\ gen'.new = gen.new \o <<t>> /\ <<t>> \in Seq(Tokens)
        /\ DOMAIN gen.new = 1 .. m /\ DOMAIN gen'.new = 1 .. m + 1
        /\ \A i \in 1 .. m : gen'.new[i] = gen.new[i]
        /\ gen'.new[m + 1] = t
    BY <1>2, <2>1, Appending
  <2>3. \A j \in DOMAIN gen'.new : gen'.new[j] # gen'.eos
    <3>1. \A j \in 1 .. m + 1 : j \in 1 .. m \/ j = m + 1
      BY <1>3
    <3> QED
      BY ONLY <1>5, <1>10, <2>1, <2>2, <3>1
  <2>4. CASE Len(gen'.new) < gen.max
    <3>1. Enter(<<t>>, FALSE, length) /\ length = length'
      BY <1>1, <1>10, <2>4
    <3>2. /\ (CallOK /\ WrittenOK /\ HiddenOK /\ ResultsOK)'
          /\ \/ /\ pc' = "idle" /\ outcome' = "refused"
                /\ <<t>> = <<>> \/ length + Len(<<t>>) > MaxSeqLen
             \/ /\ pc' \in Layers /\ outcome' = "running"
                /\ call'.mtp = FALSE /\ Text' = history' \o <<t>>
      BY ONLY <1>7, <2>1, <2>2, <3>1, Entered
    <3>3. GenerationOK'
      <4>1. CASE /\ pc' \in Layers /\ outcome' = "running"
                 /\ call'.mtp = FALSE /\ Text' = history' \o <<t>>
        <5>1. Text' = gen'.prompt \o gen'.new
          <6>1. Text' = (gen.prompt \o gen.new) \o <<t>>
            BY <1>1, <1>6, <4>1
          <6>2. (gen.prompt \o gen.new) \o <<t>> = gen.prompt \o (gen.new \o <<t>>)
            <7> DEFINE u == <<t>>
            <7>1. gen.prompt \in Seq(Tokens) /\ gen.new \in Seq(Tokens) /\ u \in Seq(Tokens)
              BY ONLY <1>2, <2>2
            <7> HIDE DEF u
            <7>2. (gen.prompt \o gen.new) \o u = gen.prompt \o (gen.new \o u)
              BY ONLY <7>1, Regrouped
            <7> QED
              BY ONLY <7>2 DEF u
          <6> QED
            BY ONLY <2>1, <2>2, <6>1, <6>2
        <5> QED
          BY <1>5, <2>1, <2>3, <2>4, <4>1, <5>1 DEF GenerationOK, GenerateFaithful, Layers
      <4>2. CASE /\ pc' = "idle" /\ outcome' = "refused"
                 /\ <<t>> = <<>> \/ length + Len(<<t>>) > MaxSeqLen
        <5>1. <<t>> # <<>> /\ Len(<<t>>) = 1
          OBVIOUS
        <5>2. length = Len(gen.prompt) + m /\ Len(gen.prompt) \in Nat
          BY <1>2, <1>6, Joined, LenProperties
        <5>3. Len(gen'.prompt) + gen'.max - 1 > MaxSeqLen
          <6>1. MaxSeqLen \in Nat
            BY Counts
          <6>2. Len(gen'.prompt) = Len(gen.prompt) /\ gen'.max = gen.max /\ m + 1 < gen.max
            BY ONLY <2>1, <2>2, <2>4
          <6>3. length + 1 > MaxSeqLen
            BY ONLY <4>2, <5>1
          <6> HIDE DEF m
          <6> QED
            BY ONLY <1>3, <1>5, <5>2, <6>1, <6>2, <6>3
        <5>4. ~call'.mtp
          BY <3>1, <4>2 DEF Enter, End, NoCall, Stage
        <5> QED
          BY <1>5, <2>1, <2>3, <4>2, <5>3, <5>4 DEF GenerationOK, GenerateFaithful, Layers
      <4> QED
        BY <3>2, <4>1, <4>2
    <3> QED
      BY <1>7, <2>1, <3>2, <3>3 DEF IInv
  <2>5. CASE ~(Len(gen'.new) < gen.max)
    <3>1. End("returned") /\ UNCHANGED results
      BY <1>10, <2>5
    <3>2. (CallOK /\ WrittenOK /\ HiddenOK)' /\ pc' = "idle" /\ outcome' = "returned"
      BY <1>7, <2>1, <3>1, Ended
    <3>3. ResultsOK'
      <4>1. LogitsSeeHistory'
        BY <1>1, <1>8, <3>1 DEF LogitsSeeHistory, Seen, results
      <4> QED
        BY <3>2, <4>1 DEF ResultsOK, Layers
    <3>4. GenerationOK'
      <4>1. Len(gen'.new) = gen'.max /\ gen'.max # 0
        <5>1. m + 1 = gen.max
          BY ONLY <1>3, <1>5, <1>10, <2>2, <2>5
        <5> QED
          BY ONLY <1>3, <2>1, <2>2, <5>1
      <4>2. ~call'.mtp /\ history' = gen'.prompt \o Front(gen'.new)
        BY <1>1, <1>6, <2>1, <2>2, <3>1 DEF End, NoCall
      <4> QED
        BY <1>5, <2>1, <2>3, <3>2, <4>1, <4>2 DEF GenerationOK, GenerateFaithful, Layers
    <3> QED
      BY <1>7, <2>1, <3>2, <3>3, <3>4 DEF IInv
  <2> QED
    BY <2>4, <2>5
<1> QED
  BY <1>9, <1>10 DEF Sample

-----------------------------------------------------------------------------
(* The invariant, and what it says. *)

LEMMA InitHolds == Init => IInv
<1> SUFFICES ASSUME Init PROVE IInv
  OBVIOUS
<1>1. /\ length = 0 /\ history = <<>> /\ pc = "idle" /\ outcome = "none"
      /\ call = [ids |-> <<>>, mtp |-> FALSE, start |-> 0] /\ hidden = <<>> /\ slot = 0
      /\ logits = <<>> /\ mtpLogits = <<>> /\ gen = NoGeneration
  BY DEF Init, NoCall
<1>2. /\ <<>> \in Seq(Tokens) /\ <<>> \in Seq(Values) /\ Len(<<>>) = 0
      /\ 0 \in 0 .. Slots /\ 0 \in 0 .. MaxSeqLen /\ 0 + 0 <= MaxSeqLen /\ Undefined \in Values
  BY Counts DEF Undefined, Values
<1>3. StoreOK
  <2>1. \A kv, d : Holds(kv, d, 0, history)
    BY DEF Holds
  <2>2. selfKV \in [0 .. Slots - 1 -> [Positions -> Values]] /\ yoco \in [Positions -> Values]
    BY <1>2 DEF Init
  <2> QED
    BY <1>1, <1>2, <2>1, <2>2 DEF StoreOK
<1>4. GenTypes
  BY <1>1, NoGenerationTypes DEF GenTypes
<1>5. CallOK
  <2>1. call.ids = <<>> /\ ~call.mtp /\ call.start = 0
        /\ call \in [ids : Seq(Tokens), mtp : BOOLEAN, start : Nat] /\ gen.new \in Seq(Tokens)
    BY <1>1, <1>2, <1>4 DEF GenTypes
  <2>2. TypeOK
    BY <1>1, <1>2, <1>3, <2>1 DEF TypeOK, StoreOK
  <2> QED
    BY <1>1, <2>1, <2>2 DEF CallOK, Layers
<1>6. WrittenOK /\ HiddenOK /\ ResultsOK /\ GenerationOK
  BY <1>1 DEF WrittenOK, HiddenOK, ResultsOK, LogitsSeeHistory, GenerationOK, Layers
<1> QED
  BY <1>3, <1>4, <1>5, <1>6 DEF IInv

LEMMA Stutter == IInv /\ UNCHANGED vars => IInv'
<1> SUFFICES ASSUME IInv, UNCHANGED vars PROVE IInv'
  OBVIOUS
<1>1. UNCHANGED <<length, selfKV, yoco, pc, call, hidden, slot, logits, mtpLogits, outcome, gen,
                  history>>
  BY DEF vars, cache, results
<1>2. Text' = Text /\ StoreOK' /\ GenTypes'
  BY <1>1 DEF IInv, Text, StoreOK, GenTypes
<1>3. CallOK'
  BY <1>1 DEF IInv, CallOK, TypeOK
<1>4. WrittenOK' /\ HiddenOK'
  BY <1>1, <1>2 DEF IInv, WrittenOK, HiddenOK
<1>5. ResultsOK'
  BY <1>1 DEF IInv, ResultsOK, LogitsSeeHistory, Seen
<1>6. GenerationOK'
  BY <1>1, <1>2 DEF IInv, GenerationOK, GenerateFaithful
<1> QED
  BY <1>2, <1>3, <1>4, <1>5, <1>6 DEF IInv

\* Every step of the model, or none, keeps the invariant.
LEMMA NextKeeps == IInv /\ [Next]_vars => IInv'
<1> SUFFICES ASSUME IInv, [Next]_vars PROVE IInv'
  OBVIOUS
<1>1. ASSUME NEW ids \in IdLists, NEW mtp \in BOOLEAN, Prefill(ids, mtp) PROVE IInv'
  BY ONLY IInv, <1>1, PrefillKeeps
<1>2. ASSUME NEW ids \in IdLists, NEW mtp \in BOOLEAN, Decode(ids, mtp) PROVE IInv'
  BY ONLY IInv, <1>2, DecodeKeeps
<1>3. CASE Refuse \/ ResetCache
  BY <1>3, RefuseKeeps
<1>4. ASSUME NEW prompt \in IdLists, NEW max \in 0 .. MaxNew, NEW eos \in Tokens \cup {None},
             Generate(prompt, max, eos)
      PROVE  IInv'
  BY ONLY IInv, <1>4, GenerateKeeps
<1>5. CASE Caller
  BY <1>1, <1>2, <1>3, <1>4, <1>5 DEF Caller
<1>6. CASE SelfLayer
  BY <1>6, SelfLayerKeeps
<1>7. CASE AppendYoco
  BY <1>7, AppendYocoKeeps
<1>8. CASE CrossLayer
  BY <1>8, CrossLayerKeeps
<1>9. CASE Commit
  BY <1>9, CommitKeeps
<1>10. CASE OutputHead
  BY <1>10, OutputHeadKeeps
<1>11. CASE RunMtp
  BY <1>11, RunMtpKeeps
<1>12. CASE Sample
  BY <1>12, SampleKeeps
<1>13. CASE Fail
  BY <1>13, FailKeeps
<1>14. CASE UNCHANGED vars
  BY <1>14, Stutter
<1> QED
  BY <1>5, <1>6, <1>7, <1>8, <1>9, <1>10, <1>11, <1>12, <1>13, <1>14 DEF Next

\* The invariant has the properties in it.
LEMMA Promised ==
  ASSUME IInv
  PROVE  TypeOK /\ CacheHoldsHistory /\ LogitsSeeHistory /\ GenerateFaithful
<1>1. TypeOK
  BY DEF IInv, CallOK
<1>2. CacheHoldsHistory
  BY DEF IInv, StoreOK, CacheHoldsHistory, Holds, Entry, SeenThrough, Seen
<1>3. LogitsSeeHistory
  BY DEF IInv, ResultsOK
<1>4. GenerateFaithful
  BY DEF IInv, GenerationOK, GenerateFaithful
<1> QED BY <1>1, <1>2, <1>3, <1>4

\* Whatever is called, refused or raises, the cache, the call and its results
\* stay consistent with the text so far (the whole of QuantMoEInferenceModel's
\* state, between any two kernels).
THEOREM Invariance == Spec => []IInv
BY InitHolds, NextKeeps, PTL DEF Spec

\* Every variable of a call keeps its type: what _forward_tokens appends fits
\* in the cache, one row for each of its tokens.
THEOREM CallsFit == Spec => []TypeOK
BY Promised, Invariance, PTL

\* What append_self, append_yoco and cache.length leave after any calls, whole,
\* refused or raised half-way, is what the counted tokens give in every slot.
THEOREM CacheIsHistory == Spec => []CacheHoldsHistory
BY Promised, Invariance, PTL

\* The logits _forward_tokens and _run_mtp return have seen the whole text up
\* to their position, however it was cut into prefill and decode calls.
THEOREM LogitsSeeAll == Spec => []LogitsSeeHistory
BY Promised, Invariance, PTL

\* generate continues its prompt, stops where it was told to and runs out of
\* cache only when prompt and new tokens do not fit.
THEOREM GenerateContinues == Spec => []GenerateFaithful
BY Promised, Invariance, PTL

-----------------------------------------------------------------------------
(* The constructor's order: which attributes a sequence of steps sets, each *)
(* by one step, and that no step comes before one it needs.                 *)

\* The modules the constructor names, by the function that loads them.
NormMods ==
  {"embedding_norm", "hidden_norm", "input_norm", "post_attn_norm", "mlp.fc1_latent_norm",
   "mlp.fc2_latent_norm", "emb_in_norm", "emb_out_norm", "input_layernorm",
   "post_attention_layernorm", "norm", "yoco_norm", "mtp_norm"}
GainMods == {"self_attn.q_norm", "self_attn.k_norm", "k_norm"}
LinearMods ==
  {"self_attn.q_proj", "self_attn.k_proj", "self_attn.v_proj", "self_attn.o_proj",
   "self_attn.gate_proj", "mlp.up_proj", "mlp.gate_proj", "mlp.down_proj",
   "mlp.fc1_latent_proj", "mlp.fc2_latent_proj", "mlp.shared.up_proj",
   "mlp.shared.gate_proj", "mlp.shared.down_proj", "mlp.shared_gate", "proj", "ffn.up_proj",
   "ffn.gate_proj", "ffn.down_proj", "emb_proj_in", "emb_proj_out", "k_proj", "v_proj"}
HeadMods ==
  {"self_attn.q_proj", "self_attn.k_proj", "self_attn.v_proj", "k_proj", "v_proj"}
ExpertMods == {"mlp.gate", "mlp.w13", "mlp.w2"}

EmbeddingStep(c) == Step("embedding", Top, "tok_embeddings", c.int8Embedding)
OutputStep(c) == Step("output", Top, "output", c.int8Head)
MtpStep(c) == Step("mtp_embedding", Mtp, "embedding", c.int8Embedding)
CacheStep == Step("cache", Top, "cache", FALSE)

Steps(c) ==
  [fn : {"norm"}, at : Int, mod : NormMods, quantized : {FALSE}]
  \cup [fn : {"qk_norm"}, at : Int, mod : GainMods, quantized : {FALSE}]
  \cup [fn : {"linear"}, at : Int, mod : LinearMods, quantized : BOOLEAN]
  \cup [fn : {"head_linear"}, at : Int, mod : HeadMods, quantized : BOOLEAN]
  \cup [fn : {"experts"}, at : Int, mod : {"mlp"}, quantized : {c.expertBit}]
  \cup {EmbeddingStep(c), OutputStep(c), MtpStep(c), CacheStep}

\* The attributes a step sets; the cache has a mark of its own.
Mods(s) ==
  IF s.fn = "experts" THEN ExpertMods
  ELSE IF s.fn = "embedding" THEN {"tok_embeddings", "embedding_bf16"}
  ELSE IF s.fn = "output" THEN {"output", "output_source"}
  ELSE {s.mod}

At(at, M) == {Attribute(at, m) : m \in M}
Attrs(s) == At(s.at, Mods(s))

\* Step s needs what t sets, or is the last.
Needs(s, t) ==
  \/ s.fn = "output" /\ t.fn = "embedding"
  \/ s.fn = "mtp_embedding" /\ t.fn = "output"
  \/ s.fn = "cache"

\* q sets exactly U, every attribute by one step, and each step after those it needs.
Laid(c, q, U) ==
  /\ q \in Seq(Steps(c))
  /\ \A i \in DOMAIN q : Attrs(q[i]) \subseteq U
  /\ \A a \in U : \E i \in DOMAIN q : a \in Attrs(q[i])
  /\ \A i, j \in DOMAIN q : i # j => Attrs(q[i]) \cap Attrs(q[j]) = {}
  /\ \A i, j \in DOMAIN q : i < j => ~Needs(q[i], q[j])

\* What may be set after U.
Precedes(U, V) ==
  /\ U \cap V = {}
  /\ Attribute(Top, "cache") \notin U
  /\ Attribute(Top, "output") \in U => Attribute(Top, "tok_embeddings") \notin V
  /\ Attribute(Mtp, "embedding") \in U => Attribute(Top, "output") \notin V

\* The steps there is one of each of.
LEMMA SpecialSteps ==
  ASSUME NEW c, NEW s \in Steps(c)
  PROVE  /\ s.fn = "embedding" => s = EmbeddingStep(c)
         /\ s.fn = "output" => s = OutputStep(c)
         /\ s.fn = "mtp_embedding" => s = MtpStep(c)
         /\ s.fn = "cache" => s = CacheStep
<1>1. /\ EmbeddingStep(c).fn = "embedding" /\ OutputStep(c).fn = "output"
      /\ MtpStep(c).fn = "mtp_embedding" /\ CacheStep.fn = "cache"
  BY DEF Step, EmbeddingStep, OutputStep, MtpStep, CacheStep
<1>2. \/ s.fn \in {"norm", "qk_norm", "linear", "head_linear", "experts"}
      \/ s \in {EmbeddingStep(c), OutputStep(c), MtpStep(c), CacheStep}
  BY DEF Steps
<1> QED BY <1>1, <1>2

\* What the steps that others depend on set.
LEMMA SpecialAttrs ==
  ASSUME NEW c
  PROVE  /\ Attrs(EmbeddingStep(c)) = {Attribute(Top, "tok_embeddings"),
                                        Attribute(Top, "embedding_bf16")}
         /\ Attrs(OutputStep(c)) = {Attribute(Top, "output"), Attribute(Top, "output_source")}
         /\ Attrs(MtpStep(c)) = {Attribute(Mtp, "embedding")}
         /\ Attrs(CacheStep) = {Attribute(Top, "cache")}
<1>1. /\ EmbeddingStep(c).fn = "embedding" /\ OutputStep(c).fn = "output"
      /\ MtpStep(c).fn = "mtp_embedding" /\ CacheStep.fn = "cache"
      /\ EmbeddingStep(c).at = Top /\ OutputStep(c).at = Top /\ CacheStep.at = Top
      /\ MtpStep(c).at = Mtp /\ MtpStep(c).mod = "embedding" /\ CacheStep.mod = "cache"
  BY DEF Step, EmbeddingStep, OutputStep, MtpStep, CacheStep
<1>2. /\ Mods(EmbeddingStep(c)) = {"tok_embeddings", "embedding_bf16"}
      /\ Mods(OutputStep(c)) = {"output", "output_source"}
      /\ Mods(MtpStep(c)) = {"embedding"} /\ Mods(CacheStep) = {"cache"}
  BY <1>1 DEF Mods
<1> QED BY <1>1, <1>2 DEF Attrs, At

LEMMA NeedsSeen ==
  ASSUME NEW c, NEW s \in Steps(c), NEW t \in Steps(c), NEW U, NEW V,
         Attrs(s) \subseteq U, Attrs(t) \subseteq V, Precedes(U, V)
  PROVE  ~Needs(s, t)
<1>1. /\ s.fn = "output" => Attribute(Top, "output") \in Attrs(s)
      /\ s.fn = "mtp_embedding" => Attribute(Mtp, "embedding") \in Attrs(s)
      /\ s.fn = "cache" => Attribute(Top, "cache") \in Attrs(s)
  BY SpecialSteps, SpecialAttrs
<1>2. /\ t.fn = "output" => Attribute(Top, "output") \in Attrs(t)
      /\ t.fn = "embedding" => Attribute(Top, "tok_embeddings") \in Attrs(t)
  BY SpecialSteps, SpecialAttrs
<1> QED BY <1>1, <1>2 DEF Needs, Precedes

LEMMA LaidNone == ASSUME NEW c PROVE Laid(c, <<>>, {})
BY DEF Laid

LEMMA LaidOne ==
  ASSUME NEW c, NEW s \in Steps(c)
  PROVE  Laid(c, <<s>>, Attrs(s))
BY DEF Laid

\* Two parts after one another, if the second may follow the first.
LEMMA LaidConcat ==
  ASSUME NEW c, NEW p, NEW q, NEW U, NEW V, Laid(c, p, U), Laid(c, q, V), Precedes(U, V)
  PROVE  Laid(c, p \o q, U \cup V)
<1> DEFINE S == Steps(c)
           r == p \o q
<1>1. p \in Seq(S) /\ q \in Seq(S)
  BY DEF Laid
<1>2. /\ r \in Seq(S) /\ DOMAIN r = 1 .. Len(p) + Len(q) /\ Len(p) \in Nat /\ Len(q) \in Nat
      /\ DOMAIN p = 1 .. Len(p) /\ DOMAIN q = 1 .. Len(q)
      /\ \A i \in 1 .. Len(p) + Len(q) :
           r[i] = IF i <= Len(p) THEN p[i] ELSE q[i - Len(p)]
  <2> HIDE DEF S
  <2> QED BY ONLY <1>1, ConcatProperties, LenProperties
<1>3. ASSUME NEW i \in DOMAIN r
      PROVE  \/ i <= Len(p) /\ i \in DOMAIN p /\ r[i] = p[i] /\ Attrs(p[i]) \subseteq U
             \/ i > Len(p) /\ i - Len(p) \in DOMAIN q /\ r[i] = q[i - Len(p)]
                /\ Attrs(q[i - Len(p)]) \subseteq V
  <2>1. CASE i <= Len(p)
    <3>1. i \in DOMAIN p /\ r[i] = p[i]
      BY <1>2, <2>1
    <3> QED BY <2>1, <3>1 DEF Laid
  <2>2. CASE ~(i <= Len(p))
    <3>1. i > Len(p) /\ i - Len(p) \in DOMAIN q /\ r[i] = q[i - Len(p)]
      BY <1>2, <2>2
    <3> QED BY <3>1 DEF Laid
  <2> QED BY <2>1, <2>2
<1>4. \A i \in DOMAIN r : Attrs(r[i]) \subseteq U \cup V
  BY <1>3
<1>5. ASSUME NEW a \in U \cup V
      PROVE  \E i \in DOMAIN r : a \in Attrs(r[i])
  <2>1. CASE a \in U
    <3>1. PICK i \in DOMAIN p : a \in Attrs(p[i])
      BY <2>1 DEF Laid
    <3>2. i \in DOMAIN r /\ r[i] = p[i]
      BY <1>2
    <3> QED BY <3>1, <3>2
  <2>2. CASE a \in V
    <3>1. PICK i \in DOMAIN q : a \in Attrs(q[i])
      BY <2>2 DEF Laid
    <3>2. Len(p) + i \in DOMAIN r /\ r[Len(p) + i] = q[i]
      BY <1>2
    <3> QED BY <3>1, <3>2
  <2> QED BY <2>1, <2>2
<1>6. ASSUME NEW i \in DOMAIN r, NEW j \in DOMAIN r, i < j
      PROVE  Attrs(r[i]) \cap Attrs(r[j]) = {} /\ ~Needs(r[i], r[j])
  <2>1. CASE j <= Len(p)
    <3>1. i \in DOMAIN p /\ j \in DOMAIN p /\ i # j /\ r[i] = p[i] /\ r[j] = p[j]
      BY <1>2, <1>6, <2>1
    <3> QED BY <1>6, <3>1 DEF Laid
  <2>2. CASE i > Len(p)
    <3> DEFINE k == i - Len(p)
               l == j - Len(p)
    <3>1. k \in DOMAIN q /\ l \in DOMAIN q /\ k # l /\ k < l /\ r[i] = q[k] /\ r[j] = q[l]
      BY <1>2, <1>6, <2>2
    <3> HIDE DEF k, l
    <3> QED BY <3>1 DEF Laid
  <2>3. CASE i <= Len(p) /\ j > Len(p)
    <3>1. Attrs(r[i]) \subseteq U /\ Attrs(r[j]) \subseteq V
      BY <1>2, <1>3, <2>3
    <3>2. r[i] \in S /\ r[j] \in S
      BY <1>2
    <3>3. U \cap V = {}
      BY DEF Precedes
    <3>4. ~Needs(r[i], r[j])
      <4> HIDE DEF r
      <4> QED BY <3>1, <3>2, NeedsSeen
    <3> QED BY <3>1, <3>3, <3>4
  <2>4. i \in Int /\ j \in Int /\ Len(p) \in Int
    BY <1>2
  <2>5. j <= Len(p) \/ i > Len(p) \/ (i <= Len(p) /\ j > Len(p))
    BY ONLY <2>4
  <2> HIDE DEF r
  <2> QED BY <2>1, <2>2, <2>3, <2>5
<1>7. \A i, j \in DOMAIN r : i # j => Attrs(r[i]) \cap Attrs(r[j]) = {}
  <2> SUFFICES ASSUME NEW i \in DOMAIN r, NEW j \in DOMAIN r, i # j
               PROVE  Attrs(r[i]) \cap Attrs(r[j]) = {}
    OBVIOUS
  <2>1. i < j \/ j < i
    BY <1>2
  <2> QED BY <1>6, <2>1
<1> QED BY <1>2, <1>4, <1>5, <1>6, <1>7 DEF Laid

\* A condition in front of some steps.
LEMMA LaidWhen ==
  ASSUME NEW c, NEW q, NEW U, Laid(c, q, U), NEW b
  PROVE  Laid(c, When(b, q), IF b THEN U ELSE {})
BY LaidNone DEF When

\* Steps at one place, which are not those that depend on others.
LaidAt(c, at, q, M) == Laid(c, q, At(at, M))

Special == {"cache", "output", "embedding"}

\* What sets modules of one place only: their names tell them apart.
LEMMA ApartAt ==
  ASSUME NEW at, NEW M, NEW N, M \cap N = {}, M \cap Special = {}
  PROVE  Precedes(At(at, M), At(at, N))
<1>1. \A x, m, y, n : Attribute(x, m) = Attribute(y, n) => x = y /\ m = n
  BY DEF Attribute
<1>2. At(at, M) \cap At(at, N) = {}
  BY <1>1 DEF At
<1>3. /\ Attribute(Top, "cache") \notin At(at, M) /\ Attribute(Top, "output") \notin At(at, M)
      /\ Attribute(Mtp, "embedding") \notin At(at, M)
  BY <1>1 DEF At, Special
<1> QED BY <1>2, <1>3 DEF Precedes

LEMMA JoinedAt ==
  ASSUME NEW at, NEW M, NEW N
  PROVE  At(at, M) \cup At(at, N) = At(at, M \cup N)
BY DEF At

LEMMA LaidAtConcat ==
  ASSUME NEW c, NEW at, NEW p, NEW q, NEW M, NEW N, LaidAt(c, at, p, M), LaidAt(c, at, q, N),
         M \cap N = {}, M \cap Special = {}
  PROVE  LaidAt(c, at, p \o q, M \cup N)
<1> DEFINE U == At(at, M)
           V == At(at, N)
<1>1. Laid(c, p, U) /\ Laid(c, q, V)
  BY DEF LaidAt
<1>2. Precedes(U, V) /\ U \cup V = At(at, M \cup N)
  BY ApartAt, JoinedAt
<1> HIDE DEF U, V
<1>3. Laid(c, p \o q, U \cup V)
  BY ONLY <1>1, <1>2, LaidConcat
<1> QED BY <1>2, <1>3 DEF LaidAt

LEMMA LaidAtWhen ==
  ASSUME NEW c, NEW at, NEW q, NEW M, LaidAt(c, at, q, M), NEW b
  PROVE  LaidAt(c, at, When(b, q), IF b THEN M ELSE {})
<1>1. At(at, {}) = {}
  BY DEF At
<1> QED BY <1>1, LaidNone DEF LaidAt, When

LEMMA LaidAtOne ==
  ASSUME NEW c, NEW s \in Steps(c), s.fn \in {"norm", "qk_norm", "linear", "head_linear"}
  PROVE  LaidAt(c, s.at, <<s>>, {s.mod})
<1>1. Attrs(s) = At(s.at, {s.mod})
  BY DEF Attrs, Mods
<1> QED BY <1>1, LaidOne DEF LaidAt

LEMMA StepKinds ==
  ASSUME NEW c, NEW at \in Int, NEW b \in BOOLEAN
  PROVE  /\ \A m \in NormMods : Norm(at, m) \in Steps(c)
         /\ \A m \in GainMods : Step("qk_norm", at, m, FALSE) \in Steps(c)
         /\ \A m \in LinearMods : Linear(at, m, b) \in Steps(c)
         /\ \A m \in HeadMods : HeadLinear(at, m, b) \in Steps(c)
         /\ Step("experts", at, "mlp", c.expertBit) \in Steps(c)
BY DEF Steps, Norm, Step, Linear, HeadLinear

LEMMA LaidNorm ==
  ASSUME NEW c, NEW at \in Int, NEW m \in NormMods
  PROVE  LaidAt(c, at, <<Norm(at, m)>>, {m})
<1> DEFINE s == Norm(at, m)
<1>1. s \in Steps(c) /\ s.fn \in {"norm", "qk_norm", "linear", "head_linear"}
      /\ s.at = at /\ s.mod = m
  BY StepKinds DEF Norm, Step
<1> HIDE DEF s
<1>2. LaidAt(c, s.at, <<s>>, {s.mod})
  BY ONLY <1>1, LaidAtOne
<1> QED BY <1>1, <1>2 DEF s

LEMMA LaidGain ==
  ASSUME NEW c, NEW at \in Int, NEW m \in GainMods
  PROVE  LaidAt(c, at, <<Step("qk_norm", at, m, FALSE)>>, {m})
<1> DEFINE s == Step("qk_norm", at, m, FALSE)
<1>1. s \in Steps(c) /\ s.fn \in {"norm", "qk_norm", "linear", "head_linear"}
      /\ s.at = at /\ s.mod = m
  BY StepKinds DEF Step
<1> HIDE DEF s
<1>2. LaidAt(c, s.at, <<s>>, {s.mod})
  BY ONLY <1>1, LaidAtOne
<1> QED BY <1>1, <1>2 DEF s

LEMMA LaidLinear ==
  ASSUME NEW c, NEW at \in Int, NEW m \in LinearMods, NEW b \in BOOLEAN
  PROVE  LaidAt(c, at, <<Linear(at, m, b)>>, {m})
<1> DEFINE s == Linear(at, m, b)
<1>1. s \in Steps(c) /\ s.fn \in {"norm", "qk_norm", "linear", "head_linear"}
      /\ s.at = at /\ s.mod = m
  BY StepKinds DEF Linear, Step
<1> HIDE DEF s
<1>2. LaidAt(c, s.at, <<s>>, {s.mod})
  BY ONLY <1>1, LaidAtOne
<1> QED BY <1>1, <1>2 DEF s

LEMMA LaidHeadLinear ==
  ASSUME NEW c, NEW at \in Int, NEW m \in HeadMods, NEW b \in BOOLEAN
  PROVE  LaidAt(c, at, <<HeadLinear(at, m, b)>>, {m})
<1> DEFINE s == HeadLinear(at, m, b)
<1>1. s \in Steps(c) /\ s.fn \in {"norm", "qk_norm", "linear", "head_linear"}
      /\ s.at = at /\ s.mod = m
  BY StepKinds DEF HeadLinear, Step
<1> HIDE DEF s
<1>2. LaidAt(c, s.at, <<s>>, {s.mod})
  BY ONLY <1>1, LaidAtOne
<1> QED BY <1>1, <1>2 DEF s

\* Two or three steps at one place.
LEMMA LaidAtTwo ==
  ASSUME NEW c, NEW at, NEW s, NEW t, NEW m, NEW n,
         LaidAt(c, at, <<s>>, {m}), LaidAt(c, at, <<t>>, {n}), m # n, m \notin Special
  PROVE  LaidAt(c, at, <<s, t>>, {m, n})
<1>1. {m} \cap {n} = {} /\ {m} \cap Special = {} /\ {m} \cup {n} = {m, n}
  OBVIOUS
<1>2. <<s>> \o <<t>> = <<s, t>>
  <2> DEFINE S == {s, t}
  <2>1. <<s>> \in Seq(S) /\ t \in S
    OBVIOUS
  <2>2. Append(<<s>>, t) = <<s>> \o <<t>>
    BY ONLY <2>1, AppendIsConcat
  <2>3. Append(<<s>>, t) = <<s, t>>
    <3> DEFINE p == Append(<<s>>, t)
               q == <<s, t>>
    <3>1. p \in Seq(S) /\ q \in Seq(S) /\ Len(p) = 2 /\ Len(q) = 2
      OBVIOUS
    <3>2. p[1] = q[1] /\ p[2] = q[2]
      OBVIOUS
    <3> HIDE DEF p, q, S
    <3>3. p \in Seq(S) /\ q \in Seq(S) /\ Len(p) = Len(q)
      BY <3>1
    <3>4. \A i \in 1 .. Len(p) : p[i] = q[i]
      BY <3>1, <3>2
    <3>5. p = q
      BY ONLY <3>3, <3>4, SeqEqual
    <3> QED BY <3>5 DEF p, q
  <2> QED BY <2>2, <2>3
<1>3. LaidAt(c, at, <<s>> \o <<t>>, {m} \cup {n})
  BY <1>1, LaidAtConcat
<1> QED BY <1>1, <1>2, <1>3

LEMMA LaidAtThree ==
  ASSUME NEW c, NEW at, NEW s, NEW t, NEW u, NEW m, NEW n, NEW o,
         LaidAt(c, at, <<s>>, {m}), LaidAt(c, at, <<t>>, {n}), LaidAt(c, at, <<u>>, {o}),
         m # n, m # o, n # o, m \notin Special, n \notin Special
  PROVE  LaidAt(c, at, <<s, t, u>>, {m, n, o})
<1>1. {m, n} \cap {o} = {} /\ {m, n} \cap Special = {} /\ {m, n} \cup {o} = {m, n, o}
  OBVIOUS
<1>2. <<s, t>> \o <<u>> = <<s, t, u>>
  <2> DEFINE S == {s, t, u}
  <2>1. <<s, t>> \in Seq(S) /\ u \in S
    OBVIOUS
  <2>2. Append(<<s, t>>, u) = <<s, t>> \o <<u>>
    BY ONLY <2>1, AppendIsConcat
  <2>3. Append(<<s, t>>, u) = <<s, t, u>>
    <3> DEFINE p == Append(<<s, t>>, u)
               q == <<s, t, u>>
    <3>1. p \in Seq(S) /\ q \in Seq(S) /\ Len(p) = 3 /\ Len(q) = 3
      OBVIOUS
    <3>2. p[1] = q[1] /\ p[2] = q[2] /\ p[3] = q[3]
      OBVIOUS
    <3> HIDE DEF p, q, S
    <3>3. p \in Seq(S) /\ q \in Seq(S) /\ Len(p) = Len(q)
      BY <3>1
    <3>4. \A i \in 1 .. Len(p) : p[i] = q[i]
      BY <3>1, <3>2
    <3>5. p = q
      BY ONLY <3>3, <3>4, SeqEqual
    <3> QED BY <3>5 DEF p, q
  <2> QED BY <2>2, <2>3
<1>3. LaidAt(c, at, <<s, t>>, {m, n})
  BY LaidAtTwo
<1>4. LaidAt(c, at, <<s, t>> \o <<u>>, {m, n} \cup {o})
  BY <1>1, <1>3, LaidAtConcat
<1> QED BY <1>1, <1>2, <1>4

-----------------------------------------------------------------------------
(* The parts of the constructor. *)

\* The names under which an attention, a feed-forward part and an MTP block keep
\* what they load.
AttentionMods(c, isSelf) ==
  {"self_attn.q_proj", "self_attn.o_proj"}
  \cup (IF isSelf THEN {"self_attn.k_proj", "self_attn.v_proj"} ELSE {})
  \cup (IF c.qkRmsClip \/ (c.qkNorm /\ isSelf) THEN {"self_attn.q_norm"} ELSE {})
  \cup (IF (c.qkRmsClip \/ c.qkNorm) /\ isSelf THEN {"self_attn.k_norm"} ELSE {})
  \cup (IF Gated(c) THEN {"self_attn.gate_proj"} ELSE {})

\* _load_attention, for each of the options.
LEMMA LaidAttention ==
  ASSUME NEW c, NEW at \in Int, NEW isSelf \in BOOLEAN
  PROVE  LaidAt(c, at, AttentionSteps(c, at, isSelf), AttentionMods(c, isSelf))
<1> DEFINE qkv == "attn_qkv" \in Targets(c)
           out == "attn_out" \in Targets(c)
           gate == "attn_gate" \in Targets(c)
           enabled == c.qkRmsClip \/ (c.qkNorm /\ isSelf)
           both == enabled /\ isSelf
           gated == Gated(c)
           q == <<HeadLinear(at, "self_attn.q_proj", qkv)>>
           k == <<HeadLinear(at, "self_attn.k_proj", qkv)>>
           v == <<HeadLinear(at, "self_attn.v_proj", qkv)>>
           kv == <<HeadLinear(at, "self_attn.k_proj", qkv), HeadLinear(at, "self_attn.v_proj", qkv)>>
           qn == <<Step("qk_norm", at, "self_attn.q_norm", FALSE)>>
           kn == <<Step("qk_norm", at, "self_attn.k_norm", FALSE)>>
           o == <<Linear(at, "self_attn.o_proj", out)>>
           g == <<Linear(at, "self_attn.gate_proj", gate)>>
           M2 == IF isSelf THEN {"self_attn.k_proj", "self_attn.v_proj"} ELSE {}
           M3 == IF enabled THEN {"self_attn.q_norm"} ELSE {}
           M4 == IF both THEN {"self_attn.k_norm"} ELSE {}
           M6 == IF gated THEN {"self_attn.gate_proj"} ELSE {}
           K1 == {"self_attn.q_proj"}
           K2 == K1 \cup M2
           K3 == K2 \cup M3
           K4 == K3 \cup M4
           K5 == K4 \cup {"self_attn.o_proj"}
           K6 == K5 \cup M6
<1>1. qkv \in BOOLEAN /\ out \in BOOLEAN /\ gate \in BOOLEAN
  OBVIOUS
<1>2. /\ "self_attn.q_proj" \in HeadMods /\ "self_attn.k_proj" \in HeadMods
      /\ "self_attn.v_proj" \in HeadMods /\ "self_attn.o_proj" \in LinearMods
      /\ "self_attn.gate_proj" \in LinearMods
      /\ "self_attn.q_norm" \in GainMods /\ "self_attn.k_norm" \in GainMods
  BY DEF LinearMods, HeadMods, GainMods
<1>3. AttentionSteps(c, at, isSelf)
        = ((((q \o When(isSelf, kv)) \o When(enabled, qn)) \o When(both, kn)) \o o)
          \o When(gated, g)
  BY DEF AttentionSteps
<1>4. K6 = AttentionMods(c, isSelf)
  BY DEF AttentionMods
<1>5. /\ K1 \cap M2 = {} /\ K2 \cap M3 = {} /\ K3 \cap M4 = {}
      /\ K4 \cap {"self_attn.o_proj"} = {} /\ K5 \cap M6 = {}
  OBVIOUS
<1>6. /\ K1 \cap Special = {} /\ K2 \cap Special = {} /\ K3 \cap Special = {}
      /\ K4 \cap Special = {} /\ K5 \cap Special = {}
  BY DEF Special
<1>7. LaidAt(c, at, q, K1)
  BY <1>1, <1>2, LaidLinear, LaidHeadLinear
<1>8. LaidAt(c, at, When(isSelf, kv), M2)
  <2>1. LaidAt(c, at, k, {"self_attn.k_proj"}) /\ LaidAt(c, at, v, {"self_attn.v_proj"})
    BY <1>1, <1>2, LaidLinear, LaidHeadLinear
  <2>2. LaidAt(c, at, kv, {"self_attn.k_proj", "self_attn.v_proj"})
    BY <2>1, LaidAtTwo DEF Special
  <2> HIDE DEF kv
  <2> QED BY <2>2, LaidAtWhen
<1>9. LaidAt(c, at, When(enabled, qn), M3)
  <2>1. LaidAt(c, at, qn, {"self_attn.q_norm"})
    BY <1>2, LaidGain
  <2> HIDE DEF qn, enabled
  <2> QED BY <2>1, LaidAtWhen
<1>10. LaidAt(c, at, When(both, kn), M4)
  <2>1. LaidAt(c, at, kn, {"self_attn.k_norm"})
    BY <1>2, LaidGain
  <2> HIDE DEF kn, both
  <2> QED BY <2>1, LaidAtWhen
<1>11. LaidAt(c, at, o, {"self_attn.o_proj"})
  BY <1>1, <1>2, LaidLinear, LaidHeadLinear
<1>12. LaidAt(c, at, When(gated, g), M6)
  <2>1. LaidAt(c, at, g, {"self_attn.gate_proj"})
    BY <1>1, <1>2, LaidLinear, LaidHeadLinear
  <2> HIDE DEF g, gated
  <2> QED BY <2>1, LaidAtWhen
<1> DEFINE p2 == When(isSelf, kv)
           p3 == When(enabled, qn)
           p4 == When(both, kn)
           p6 == When(gated, g)
           N5 == {"self_attn.o_proj"}
<1> HIDE DEF p2, p3, p4, p6, o, q, M2, M3, M4, M6, K1, N5
<1>13. LaidAt(c, at, q \o p2, K2)
  BY ONLY <1>7, <1>8, <1>5, <1>6, LaidAtConcat DEF p2, K2
<1> HIDE DEF K2
<1>14. LaidAt(c, at, (q \o p2) \o p3, K3)
  BY ONLY <1>13, <1>9, <1>5, <1>6, LaidAtConcat DEF p3, K3
<1> HIDE DEF K3
<1>15. LaidAt(c, at, ((q \o p2) \o p3) \o p4, K4)
  BY ONLY <1>14, <1>10, <1>5, <1>6, LaidAtConcat DEF p4, K4
<1> HIDE DEF K4
<1>16. LaidAt(c, at, (((q \o p2) \o p3) \o p4) \o o, K5)
  BY ONLY <1>15, <1>11, <1>5, <1>6, LaidAtConcat DEF K5, N5
<1> HIDE DEF K5
<1>17. LaidAt(c, at, ((((q \o p2) \o p3) \o p4) \o o) \o p6, K6)
  BY ONLY <1>16, <1>12, <1>5, <1>6, LaidAtConcat DEF p6, K6
<1> QED BY ONLY <1>3, <1>4, <1>17 DEF p2, p3, p4, p6, K6

\* _load_ffn and _load_moe
LEMMA LaidFfn ==
  ASSUME NEW c, NEW at \in Int, NEW u \in LinearMods, NEW g \in LinearMods, NEW d \in LinearMods,
         u # g, u # d, g # d
  PROVE  LaidAt(c, at, FfnSteps(c, at, u, g, d), {u, g, d})
<1> DEFINE b == "ffn" \in Targets(c)
           s == Linear(at, u, b)
           t == Linear(at, g, b)
           w == Linear(at, d, b)
<1>1. b \in BOOLEAN
  OBVIOUS
<1>2. LaidAt(c, at, <<s>>, {u}) /\ LaidAt(c, at, <<t>>, {g}) /\ LaidAt(c, at, <<w>>, {d})
  BY <1>1, LaidLinear
<1>3. u \notin Special /\ g \notin Special
  BY DEF LinearMods, Special
<1>4. FfnSteps(c, at, u, g, d) = <<s, t, w>>
  BY DEF FfnSteps
<1>5. u # g /\ u # d /\ g # d
  OBVIOUS
<1> HIDE DEF s, t, w
<1>6. LaidAt(c, at, <<s, t, w>>, {u, g, d})
  BY ONLY <1>2, <1>3, <1>5, LaidAtThree
<1> QED BY <1>4, <1>6 DEF s, t, w

\* What decides about the order of the steps.
Typed(c) ==
  /\ c.layers \in Int /\ c.crossLayers \in Int /\ c.denseLayers \in Int
  /\ c.act # "none"

MoeMods(c) ==
  ExpertMods
  \cup (IF c.latentDim > 0 THEN {"mlp.fc1_latent_proj", "mlp.fc2_latent_proj"} ELSE {})
  \cup (IF c.latentDim > 0 /\ c.latentNorm
        THEN {"mlp.fc1_latent_norm", "mlp.fc2_latent_norm"} ELSE {})
  \cup (IF c.sharedDim > 0
        THEN {"mlp.shared.up_proj", "mlp.shared.gate_proj", "mlp.shared.down_proj",
              "mlp.shared_gate"}
        ELSE {})

LEMMA LaidMoe ==
  ASSUME NEW c, Typed(c), NEW at \in Int
  PROVE  LaidAt(c, at, MoeSteps(c, at), MoeMods(c))
<1> DEFINE e == <<Step("experts", at, "mlp", c.expertBit)>>
           f == <<Linear(at, "mlp.fc1_latent_proj", FALSE), Linear(at, "mlp.fc2_latent_proj", FALSE)>>
           n == <<Norm(at, "mlp.fc1_latent_norm"), Norm(at, "mlp.fc2_latent_norm")>>
           h == FfnSteps(c, at, "mlp.shared.up_proj", "mlp.shared.gate_proj", "mlp.shared.down_proj")
           r == <<Linear(at, "mlp.shared_gate", FALSE)>>
           latent == c.latentDim > 0
           shared == c.sharedDim > 0
           norms == c.latentNorm
           F == {"mlp.fc1_latent_proj", "mlp.fc2_latent_proj"}
           N == {"mlp.fc1_latent_norm", "mlp.fc2_latent_norm"}
           N2 == IF norms THEN N ELSE {}
           FN == F \cup N2
           H == {"mlp.shared.up_proj", "mlp.shared.gate_proj", "mlp.shared.down_proj"}
           R == {"mlp.shared_gate"}
           HR == H \cup R
           L2 == IF latent THEN FN ELSE {}
           S2 == IF shared THEN HR ELSE {}
           K2 == ExpertMods \cup L2
           K3 == K2 \cup S2
           fn == f \o When(norms, n)
           hr == h \o r
<1>1. MoeSteps(c, at) = (e \o When(latent, fn)) \o When(shared, hr)
  BY DEF MoeSteps
<1>2. K3 = MoeMods(c)
  BY DEF MoeMods, Typed
<1>3. /\ F \cap N2 = {} /\ H \cap R = {} /\ ExpertMods \cap L2 = {} /\ K2 \cap S2 = {}
      /\ F \cap Special = {} /\ H \cap Special = {} /\ ExpertMods \cap Special = {}
      /\ K2 \cap Special = {}
  BY DEF ExpertMods, Special
<1>4. LaidAt(c, at, e, ExpertMods)
  <2> DEFINE s == Step("experts", at, "mlp", c.expertBit)
  <2>1. s \in Steps(c)
    BY StepKinds
  <2>2. Attrs(s) = At(at, ExpertMods)
    BY DEF Attrs, Mods, Step
  <2> HIDE DEF s
  <2>3. Laid(c, <<s>>, Attrs(s))
    BY <2>1, LaidOne
  <2> QED BY <2>2, <2>3 DEF s, LaidAt
<1>5. /\ "mlp.fc1_latent_proj" \in LinearMods /\ "mlp.fc2_latent_proj" \in LinearMods
      /\ "mlp.fc1_latent_norm" \in NormMods /\ "mlp.fc2_latent_norm" \in NormMods
      /\ "mlp.shared_gate" \in LinearMods /\ "mlp.shared.up_proj" \in LinearMods
      /\ "mlp.shared.gate_proj" \in LinearMods /\ "mlp.shared.down_proj" \in LinearMods
  BY DEF LinearMods, NormMods
<1>6. LaidAt(c, at, f, F)
  <2>1. /\ LaidAt(c, at, <<Linear(at, "mlp.fc1_latent_proj", FALSE)>>, {"mlp.fc1_latent_proj"})
        /\ LaidAt(c, at, <<Linear(at, "mlp.fc2_latent_proj", FALSE)>>, {"mlp.fc2_latent_proj"})
    BY <1>5, LaidLinear
  <2> QED BY <2>1, LaidAtTwo DEF Special
<1>7. LaidAt(c, at, n, N)
  <2>1. /\ LaidAt(c, at, <<Norm(at, "mlp.fc1_latent_norm")>>, {"mlp.fc1_latent_norm"})
        /\ LaidAt(c, at, <<Norm(at, "mlp.fc2_latent_norm")>>, {"mlp.fc2_latent_norm"})
    BY <1>5, LaidNorm
  <2> QED BY <2>1, LaidAtTwo DEF Special
<1>8. LaidAt(c, at, h, H)
  BY <1>5, LaidFfn
<1>9. LaidAt(c, at, r, R)
  BY <1>5, LaidLinear
<1> HIDE DEF e, f, n, h, r, latent, shared, norms, F, N, H, R
<1>10. LaidAt(c, at, When(norms, n), N2)
  BY <1>7, LaidAtWhen
<1> DEFINE p == When(norms, n)
<1>11. LaidAt(c, at, fn, FN)
  <2> HIDE DEF N2, p
  <2>1. LaidAt(c, at, f \o p, F \cup N2)
    BY ONLY <1>6, <1>10, <1>3, LaidAtConcat DEF p
  <2> QED BY <2>1 DEF p
<1>12. LaidAt(c, at, hr, HR)
  <2>1. LaidAt(c, at, h \o r, H \cup R)
    BY ONLY <1>8, <1>9, <1>3, LaidAtConcat
  <2> QED BY <2>1
<1> HIDE DEF fn, FN, hr, HR, N2, p
<1>13. LaidAt(c, at, When(latent, fn), L2) /\ LaidAt(c, at, When(shared, hr), S2)
  BY <1>11, <1>12, LaidAtWhen
<1> DEFINE x == When(latent, fn)
           y == When(shared, hr)
<1> HIDE DEF x, y, L2, S2
<1>14. LaidAt(c, at, e \o x, K2)
  BY ONLY <1>4, <1>13, <1>3, LaidAtConcat DEF x, K2
<1> HIDE DEF K2
<1>15. LaidAt(c, at, (e \o x) \o y, K3)
  BY ONLY <1>14, <1>13, <1>3, LaidAtConcat DEF y, K3
<1> QED BY ONLY <1>1, <1>2, <1>15 DEF x, y

MlpMods(c, at) ==
  IF ~c.moe \/ at < c.denseLayers THEN {"mlp.up_proj", "mlp.gate_proj", "mlp.down_proj"}
  ELSE MoeMods(c)

LEMMA LaidMlp ==
  ASSUME NEW c, Typed(c), NEW at \in Int
  PROVE  LaidAt(c, at, MlpSteps(c, at), MlpMods(c, at))
<1>1. CASE c.moe /\ at >= c.denseLayers
  <2>1. MlpSteps(c, at) = MoeSteps(c, at) /\ MlpMods(c, at) = MoeMods(c)
    BY <1>1 DEF MlpSteps, MlpMods, Typed
  <2> QED BY <2>1, LaidMoe
<1>2. CASE ~(c.moe /\ at >= c.denseLayers)
  <2>1. /\ MlpSteps(c, at) = FfnSteps(c, at, "mlp.up_proj", "mlp.gate_proj", "mlp.down_proj")
        /\ MlpMods(c, at) = {"mlp.up_proj", "mlp.gate_proj", "mlp.down_proj"}
    BY <1>2 DEF MlpSteps, MlpMods, Typed
  <2>2. /\ "mlp.up_proj" \in LinearMods /\ "mlp.gate_proj" \in LinearMods
        /\ "mlp.down_proj" \in LinearMods
    BY DEF LinearMods
  <2> QED BY <2>1, <2>2, LaidFfn
<1> QED BY <1>1, <1>2

\* One layer.
LayerSteps(c, l) ==
  AttentionSteps(c, l, l < c.layers - c.crossLayers) \o MlpSteps(c, l)
  \o <<Norm(l, "input_layernorm"), Norm(l, "post_attention_layernorm")>>
LayerMods(c, l) ==
  AttentionMods(c, l < c.layers - c.crossLayers) \cup MlpMods(c, l)
  \cup {"input_layernorm", "post_attention_layernorm"}

LEMMA LaidLayer ==
  ASSUME NEW c, Typed(c), NEW l \in Int
  PROVE  LaidAt(c, l, LayerSteps(c, l), LayerMods(c, l))
<1> DEFINE self == l < c.layers - c.crossLayers
           a == AttentionSteps(c, l, self)
           m == MlpSteps(c, l)
           n == <<Norm(l, "input_layernorm"), Norm(l, "post_attention_layernorm")>>
           A == AttentionMods(c, self)
           M == MlpMods(c, l)
           N == {"input_layernorm", "post_attention_layernorm"}
<1>1. LaidAt(c, l, a, A)
  <2>1. self \in BOOLEAN
    OBVIOUS
  <2> HIDE DEF self
  <2> QED BY <2>1, LaidAttention
<1>2. LaidAt(c, l, m, M)
  BY LaidMlp
<1>3. LaidAt(c, l, n, N)
  <2>1. "input_layernorm" \in NormMods /\ "post_attention_layernorm" \in NormMods
    BY DEF NormMods
  <2>2. /\ LaidAt(c, l, <<Norm(l, "input_layernorm")>>, {"input_layernorm"})
        /\ LaidAt(c, l, <<Norm(l, "post_attention_layernorm")>>, {"post_attention_layernorm"})
    BY <2>1, LaidNorm
  <2> QED BY <2>2, LaidAtTwo DEF Special
<1>4. /\ A \cap M = {} /\ A \cap Special = {} /\ M \cap Special = {} /\ (A \cup M) \cap N = {}
      /\ (A \cup M) \cap Special = {}
  <2>1. A \subseteq {"self_attn.q_proj", "self_attn.o_proj", "self_attn.k_proj",
                     "self_attn.v_proj", "self_attn.q_norm", "self_attn.k_norm",
                     "self_attn.gate_proj"}
    BY DEF AttentionMods
  <2>2. M \subseteq {"mlp.up_proj", "mlp.gate_proj", "mlp.down_proj", "mlp.gate", "mlp.w13",
                     "mlp.w2", "mlp.fc1_latent_proj", "mlp.fc2_latent_proj",
                     "mlp.fc1_latent_norm", "mlp.fc2_latent_norm", "mlp.shared.up_proj",
                     "mlp.shared.gate_proj", "mlp.shared.down_proj", "mlp.shared_gate"}
    BY DEF MlpMods, MoeMods, ExpertMods
  <2> HIDE DEF A, M
  <2> QED BY <2>1, <2>2 DEF Special
<1> HIDE DEF a, m, n, A, M, N
<1>5. LaidAt(c, l, a \o m, A \cup M)
  BY ONLY <1>1, <1>2, <1>4, LaidAtConcat
<1> DEFINE x == a \o m
           X == A \cup M
<1> HIDE DEF x, X
<1>6. LaidAt(c, l, x \o n, X \cup N)
  BY ONLY <1>3, <1>4, <1>5, LaidAtConcat DEF x, X
<1> QED BY <1>6 DEF x, X, a, m, n, A, M, N, LayerSteps, LayerMods

\* The MTP block.
MtpMods(c) ==
  {"embedding_norm", "hidden_norm", "proj", "input_norm"} \cup AttentionMods(c, FALSE)
  \cup {"post_attn_norm"} \cup {"ffn.up_proj", "ffn.gate_proj", "ffn.down_proj"}

LEMMA LaidMtp ==
  ASSUME NEW c
  PROVE  LaidAt(c, Mtp, MtpSteps(c), MtpMods(c))
<1> DEFINE e == Norm(Mtp, "embedding_norm")
           h == Norm(Mtp, "hidden_norm")
           r == Linear(Mtp, "proj", FALSE)
           i == Norm(Mtp, "input_norm")
           q == <<e, h, r, i>>
           a == AttentionSteps(c, Mtp, FALSE)
           n == <<Norm(Mtp, "post_attn_norm")>>
           f == FfnSteps(c, Mtp, "ffn.up_proj", "ffn.gate_proj", "ffn.down_proj")
           Q == {"embedding_norm", "hidden_norm", "proj", "input_norm"}
           A == AttentionMods(c, FALSE)
           N == {"post_attn_norm"}
           F == {"ffn.up_proj", "ffn.gate_proj", "ffn.down_proj"}
<1>1. MtpSteps(c) = ((q \o a) \o n) \o f
  BY DEF MtpSteps
<1>2. MtpMods(c) = ((Q \cup A) \cup N) \cup F
  BY DEF MtpMods
<1>3. Mtp \in Int /\ "embedding_norm" \in NormMods /\ "hidden_norm" \in NormMods
      /\ "input_norm" \in NormMods /\ "post_attn_norm" \in NormMods /\ "proj" \in LinearMods
      /\ "ffn.up_proj" \in LinearMods /\ "ffn.gate_proj" \in LinearMods
      /\ "ffn.down_proj" \in LinearMods
  BY DEF Mtp, NormMods, LinearMods
<1>4. LaidAt(c, Mtp, q, Q)
  <2>1. /\ LaidAt(c, Mtp, <<e>>, {"embedding_norm"}) /\ LaidAt(c, Mtp, <<h>>, {"hidden_norm"})
        /\ LaidAt(c, Mtp, <<r>>, {"proj"}) /\ LaidAt(c, Mtp, <<i>>, {"input_norm"})
    BY <1>3, LaidNorm, LaidLinear
  <2> DEFINE X == {"embedding_norm", "hidden_norm"}
             Y == {"proj", "input_norm"}
  <2> HIDE DEF e, h, r, i
  <2>2. LaidAt(c, Mtp, <<e, h>>, X) /\ LaidAt(c, Mtp, <<r, i>>, Y)
    BY <2>1, LaidAtTwo DEF Special
  <2>3. X \cap Y = {} /\ X \cap Special = {} /\ X \cup Y = Q
    BY DEF Special
  <2> HIDE DEF X, Y
  <2>4. LaidAt(c, Mtp, <<e, h>> \o <<r, i>>, X \cup Y)
    BY ONLY <2>2, <2>3, LaidAtConcat
  <2>5. <<e, h>> \o <<r, i>> = <<e, h, r, i>>
    <3> DEFINE S == {e, h, r, i}
               x == <<e, h>>
               y == <<r, i>>
               z == <<e, h, r, i>>
               xy == x \o y
    <3>1. x \in Seq(S) /\ y \in Seq(S) /\ z \in Seq(S) /\ Len(x) = 2 /\ Len(y) = 2 /\ Len(z) = 4
      OBVIOUS
    <3>2. x[1] = e /\ x[2] = h /\ y[1] = r /\ y[2] = i /\ z[1] = e /\ z[2] = h /\ z[3] = r /\ z[4] = i
      OBVIOUS
    <3> HIDE DEF x, y, z, S
    <3>3. xy \in Seq(S) /\ Len(xy) = Len(x) + Len(y)
          /\ \A k \in 1 .. Len(x) + Len(y) : xy[k] = IF k <= Len(x) THEN x[k] ELSE y[k - Len(x)]
      BY ONLY <3>1, ConcatProperties
    <3> HIDE DEF xy
    <3>4. Len(xy) = Len(z) /\ xy[1] = e /\ xy[2] = h /\ xy[3] = r /\ xy[4] = i
      BY <3>1, <3>2, <3>3
    <3>5. \A k \in 1 .. Len(xy) : xy[k] = z[k]
      BY <3>1, <3>2, <3>4
    <3>6. xy \in Seq(S) /\ z \in Seq(S) /\ Len(xy) = Len(z)
      BY <3>1, <3>3, <3>4
    <3>7. xy = z
      BY ONLY <3>5, <3>6, SeqEqual
    <3> QED BY <3>7 DEF xy, x, y, z
  <2> QED BY <2>3, <2>4, <2>5
<1>5. LaidAt(c, Mtp, a, A)
  BY <1>3, LaidAttention
<1>6. LaidAt(c, Mtp, n, N)
  BY <1>3, LaidNorm
<1>7. LaidAt(c, Mtp, f, F)
  BY <1>3, LaidFfn
<1>8. /\ Q \cap A = {} /\ (Q \cup A) \cap N = {} /\ ((Q \cup A) \cup N) \cap F = {}
      /\ Q \cap Special = {} /\ (Q \cup A) \cap Special = {}
      /\ ((Q \cup A) \cup N) \cap Special = {}
  <2>1. A \subseteq {"self_attn.q_proj", "self_attn.o_proj", "self_attn.k_proj",
                     "self_attn.v_proj", "self_attn.q_norm", "self_attn.k_norm",
                     "self_attn.gate_proj"}
    BY DEF AttentionMods
  <2> HIDE DEF A
  <2> QED BY <2>1 DEF Special
<1> HIDE DEF q, a, n, f, Q, A, N, F
<1>9. LaidAt(c, Mtp, q \o a, Q \cup A)
  BY ONLY <1>4, <1>5, <1>8, LaidAtConcat
<1> DEFINE x == q \o a
           X == Q \cup A
<1> HIDE DEF x, X
<1>10. LaidAt(c, Mtp, x \o n, X \cup N)
  BY ONLY <1>6, <1>8, <1>9, LaidAtConcat DEF x, X
<1> DEFINE y == x \o n
           Y == X \cup N
<1> HIDE DEF y, Y
<1>11. ((Q \cup A) \cup N) \cap Special = {} /\ Y = (Q \cup A) \cup N
  BY <1>8 DEF X, Y
<1>12. LaidAt(c, Mtp, y \o f, Y \cup F)
  <2>1. LaidAt(c, Mtp, y, Y) /\ LaidAt(c, Mtp, f, F) /\ Y \cap F = {} /\ Y \cap Special = {}
    BY <1>7, <1>8, <1>10, <1>11 DEF y, Y
  <2> QED BY ONLY <2>1, LaidAtConcat
<1> QED BY <1>1, <1>2, <1>11, <1>12 DEF y, x

\* The layers one after the other.
LayerUses(c) == UNION {At(l, LayerMods(c, l)) : l \in 0 .. c.layers - 1}

\* All layers, by induction over their sequence: no two layers share a place.
LEMMA LaidLayers ==
  ASSUME NEW c, Typed(c), c.layers >= 0
  PROVE  Laid(c, FlattenSeq([l \in 1 .. c.layers |-> LayerSteps(c, l - 1)]), LayerUses(c))
<1> DEFINE n == c.layers
           p == [l \in 1 .. n |-> LayerSteps(c, l - 1)]
           U(i) == UNION {At(l, LayerMods(c, l)) : l \in 0 .. i - 1}
<1>1. n \in Nat
  BY DEF Typed
<1>2. U(n) = LayerUses(c)
  BY DEF LayerUses
<1>3. ASSUME NEW i \in 1 .. n
      PROVE  Laid(c, p[i], At(i - 1, LayerMods(c, i - 1)))
  <2>1. i - 1 \in Int /\ p[i] = LayerSteps(c, i - 1)
    BY <1>1
  <2> DEFINE l == i - 1
  <2>2. l \in Int
    BY <2>1
  <2> HIDE DEF l
  <2>3. LaidAt(c, l, LayerSteps(c, l), LayerMods(c, l))
    BY <2>2, LaidLayer
  <2> HIDE DEF p
  <2> QED BY <2>1, <2>3 DEF l, LaidAt
<1>4. ASSUME NEW i \in 1 .. n - 1
      PROVE  Precedes(U(i), At(i, LayerMods(c, i)))
  <2>1. \A x, m, y, k : Attribute(x, m) = Attribute(y, k) => x = y
    BY DEF Attribute
  <2>2. \A a \in U(i) : \E l \in 0 .. i - 1 : \E m \in LayerMods(c, l) : a = Attribute(l, m)
    BY DEF At
  <2>3. U(i) \cap At(i, LayerMods(c, i)) = {}
    <3>1. \A l \in 0 .. i - 1 : l # i
      BY <1>1
    <3> HIDE DEF U
    <3> QED BY <2>1, <2>2, <3>1 DEF At
  <2>4. /\ Attribute(Top, "cache") \notin U(i) /\ Attribute(Top, "output") \notin U(i)
        /\ Attribute(Mtp, "embedding") \notin U(i)
    <3>1. \A l \in 0 .. i - 1 : l # Top /\ l # Mtp
      BY <1>1 DEF Top, Mtp
    <3> HIDE DEF U
    <3> QED BY <2>1, <2>2, <3>1
  <2> HIDE DEF U
  <2> QED BY <2>3, <2>4 DEF Precedes
<1>5. ASSUME NEW i \in 1 .. n - 1
      PROVE  U(i + 1) = U(i) \cup At(i, LayerMods(c, i))
  <2>1. 0 .. (i + 1) - 1 = (0 .. i - 1) \cup {i}
    BY <1>1
  <2> QED BY <2>1
<1> HIDE DEF U
<1>6. CASE n = 0
  <2>1. p = <<>>
    BY <1>6
  <2>2. U(n) = {}
    BY <1>6 DEF U
  <2>3. FlattenSeq(p) = <<>>
    BY <2>1, FlattenNone
  <2> QED BY <1>2, <2>2, <2>3, LaidNone
<1>7. CASE n # 0
  <2> DEFINE S == {p[i] : i \in 1 .. n}
             J == [i \in 1 .. n |-> {q \in Seq(Steps(c)) : Laid(c, q, U(i))}]
  <2>1. p \in Seq(S) /\ Len(p) = n /\ p # <<>> /\ 1 \in 1 .. n /\ n \in 1 .. n
    <3>1. p = [i \in 1 .. n |-> p[i]]
      OBVIOUS
    <3>2. n \in Nat \ {0}
      BY <1>1, <1>7
    <3> HIDE DEF p, n
    <3> QED BY <3>1, <3>2
  <2>2. p[1] \in J[1]
    <3>1. U(1) = At(0, LayerMods(c, 0))
      <4>1. 0 .. 1 - 1 = {0}
        OBVIOUS
      <4> QED BY <4>1 DEF U
    <3> HIDE DEF p
    <3>2. Laid(c, p[1], At(1 - 1, LayerMods(c, 1 - 1))) /\ 1 - 1 = 0
      BY <1>3, <2>1
    <3>3. Laid(c, p[1], U(1))
      BY <3>1, <3>2
    <3>4. p[1] \in Seq(Steps(c))
      BY <3>3 DEF Laid
    <3> QED BY <2>1, <3>3, <3>4
  <2>3. ASSUME NEW i \in 1 .. n - 1, NEW q \in J[i]
        PROVE  q \o p[i + 1] \in J[i + 1]
    <3>1. i \in 1 .. n /\ i + 1 \in 1 .. n /\ (i + 1) - 1 = i
      BY <1>1
    <3> DEFINE r == p[i + 1]
               W == U(i)
               F == At(i, LayerMods(c, i))
    <3>2. Laid(c, q, W) /\ Laid(c, r, F) /\ Precedes(W, F)
      <4> HIDE DEF p
      <4> QED BY <1>3, <1>4, <3>1
    <3> HIDE DEF r, W, F
    <3>3. Laid(c, q \o r, W \cup F)
      BY ONLY <3>2, LaidConcat
    <3>4. q \o r \in Seq(Steps(c))
      BY <3>3 DEF Laid
    <3> HIDE DEF p
    <3> QED BY <1>5, <3>1, <3>3, <3>4 DEF r, W, F
  <2>4. FlattenSeq(p) \in J[Len(p)]
    <3> HIDE DEF J
    <3>1. p \in Seq(S) /\ p # <<>> /\ p[1] \in J[1]
          /\ \A i \in 1 .. Len(p) - 1 : \A q \in J[i] : q \o p[i + 1] \in J[i + 1]
      BY <2>1, <2>2, <2>3
    <3> HIDE DEF S, p
    <3> QED BY ONLY <3>1, FlattenInduction
  <2> HIDE DEF p
  <2>5. Laid(c, FlattenSeq(p), U(n))
    BY <2>1, <2>4
  <2> QED BY <1>2, <2>5 DEF p
<1> QED BY <1>6, <1>7

\* Before the head: the embedding, its projections and what the cross-decoder shares.
ProjectionMods(c) ==
  IF c.embproj THEN {"emb_proj_in", "emb_proj_out"}
                    \cup (IF c.embProjNorm THEN {"emb_in_norm", "emb_out_norm"} ELSE {})
  ELSE {}
YocoMods(c) ==
  IF c.crossLayers > 0 THEN {"yoco_norm", "k_proj", "v_proj"}
                            \cup (IF c.qkRmsClip THEN {"k_norm"} ELSE {})
  ELSE {}
TopMods(c) ==
  (({"tok_embeddings", "embedding_bf16"} \cup ProjectionMods(c)) \cup {"norm"}) \cup YocoMods(c)

LEMMA LaidProjections ==
  ASSUME NEW c
  PROVE  LaidAt(c, Top,
           When(c.embproj,
             <<Linear(Top, "emb_proj_in", FALSE), Linear(Top, "emb_proj_out", FALSE)>>
             \o When(c.embProjNorm, <<Norm(Top, "emb_in_norm"), Norm(Top, "emb_out_norm")>>)),
           ProjectionMods(c))
<1> DEFINE f == <<Linear(Top, "emb_proj_in", FALSE), Linear(Top, "emb_proj_out", FALSE)>>
           n == <<Norm(Top, "emb_in_norm"), Norm(Top, "emb_out_norm")>>
           F == {"emb_proj_in", "emb_proj_out"}
           N == {"emb_in_norm", "emb_out_norm"}
           b == c.embProjNorm
           w == When(b, n)
           N2 == IF b THEN N ELSE {}
<1>1. Top \in Int /\ "emb_proj_in" \in LinearMods /\ "emb_proj_out" \in LinearMods
      /\ "emb_in_norm" \in NormMods /\ "emb_out_norm" \in NormMods
  BY DEF Top, LinearMods, NormMods
<1>2. LaidAt(c, Top, f, F)
  <2>1. /\ LaidAt(c, Top, <<Linear(Top, "emb_proj_in", FALSE)>>, {"emb_proj_in"})
        /\ LaidAt(c, Top, <<Linear(Top, "emb_proj_out", FALSE)>>, {"emb_proj_out"})
    BY <1>1, LaidLinear
  <2> QED BY <2>1, LaidAtTwo DEF Special
<1>3. LaidAt(c, Top, n, N)
  <2>1. /\ LaidAt(c, Top, <<Norm(Top, "emb_in_norm")>>, {"emb_in_norm"})
        /\ LaidAt(c, Top, <<Norm(Top, "emb_out_norm")>>, {"emb_out_norm"})
    BY <1>1, LaidNorm
  <2> QED BY <2>1, LaidAtTwo DEF Special
<1>4. F \cap N2 = {} /\ F \cap Special = {}
  BY DEF Special
<1> HIDE DEF f, n, N, b
<1>5. LaidAt(c, Top, w, N2)
  BY <1>3, LaidAtWhen
<1> DEFINE FN == F \cup N2
           fw == f \o w
<1> HIDE DEF w, N2, F
<1>6. LaidAt(c, Top, f \o w, F \cup N2)
  BY ONLY <1>2, <1>4, <1>5, LaidAtConcat
<1>7. LaidAt(c, Top, fw, FN)
  BY <1>6
<1> HIDE DEF fw, FN
<1>8. LaidAt(c, Top, When(c.embproj, fw), IF c.embproj THEN FN ELSE {})
  BY ONLY <1>7, LaidAtWhen
<1> QED BY ONLY <1>8 DEF fw, FN, f, n, w, F, N, N2, b, ProjectionMods

LEMMA LaidYoco ==
  ASSUME NEW c
  PROVE  LaidAt(c, Top,
           When(c.crossLayers > 0,
             <<Norm(Top, "yoco_norm"),
               HeadLinear(Top, "k_proj", "yoco_kv" \in Targets(c)),
               HeadLinear(Top, "v_proj", "yoco_kv" \in Targets(c))>>
             \o When(c.qkRmsClip, <<Step("qk_norm", Top, "k_norm", FALSE)>>)),
           YocoMods(c))
<1> DEFINE t == "yoco_kv" \in Targets(c)
           r == Norm(Top, "yoco_norm")
           k == HeadLinear(Top, "k_proj", t)
           v == HeadLinear(Top, "v_proj", t)
           f == <<r, k, v>>
           n == <<Step("qk_norm", Top, "k_norm", FALSE)>>
           F == {"yoco_norm", "k_proj", "v_proj"}
           N == {"k_norm"}
           b == c.qkRmsClip
           cross == c.crossLayers > 0
           w == When(b, n)
           N2 == IF b THEN N ELSE {}
<1>1. Top \in Int /\ "k_proj" \in HeadMods /\ "v_proj" \in HeadMods
      /\ "yoco_norm" \in NormMods /\ "k_norm" \in GainMods /\ t \in BOOLEAN
  BY DEF Top, HeadMods, NormMods, GainMods
<1>2. LaidAt(c, Top, f, F)
  <2>1. /\ LaidAt(c, Top, <<r>>, {"yoco_norm"}) /\ LaidAt(c, Top, <<k>>, {"k_proj"})
        /\ LaidAt(c, Top, <<v>>, {"v_proj"})
    BY <1>1, LaidNorm, LaidHeadLinear
  <2> HIDE DEF r, k, v
  <2>2. "yoco_norm" # "k_proj" /\ "yoco_norm" # "v_proj" /\ "k_proj" # "v_proj"
        /\ "yoco_norm" \notin Special /\ "k_proj" \notin Special
    BY DEF Special
  <2> QED BY ONLY <2>1, <2>2, LaidAtThree
<1>3. LaidAt(c, Top, n, N)
  BY <1>1, LaidGain
<1>4. F \cap N2 = {} /\ F \cap Special = {}
  BY DEF Special
<1> HIDE DEF f, n, N, b, cross
<1>5. LaidAt(c, Top, w, N2)
  BY <1>3, LaidAtWhen
<1> DEFINE FN == F \cup N2
           fw == f \o w
<1> HIDE DEF w, N2, F
<1>6. LaidAt(c, Top, f \o w, F \cup N2)
  BY ONLY <1>2, <1>4, <1>5, LaidAtConcat
<1>7. LaidAt(c, Top, fw, FN)
  BY <1>6
<1> HIDE DEF fw, FN
<1>8. LaidAt(c, Top, When(cross, fw), IF cross THEN FN ELSE {})
  BY ONLY <1>7, LaidAtWhen
<1> QED BY ONLY <1>8 DEF fw, FN, f, n, w, F, N, N2, b, cross, r, k, v, t, YocoMods

\* Everything the constructor sets, and the mark of the cache.
MtpUse(c) ==
  IF c.mtpN > 0 THEN At(Mtp, {"embedding"} \cup MtpMods(c)) \cup At(Top, {"mtp_norm"}) ELSE {}
PlanUses(c) ==
  ((At(Top, TopMods(c) \cup {"output", "output_source"}) \cup LayerUses(c)) \cup MtpUse(c))
  \cup At(Top, {"cache"})

LEMMA LayersBelow ==
  ASSUME NEW c, Typed(c)
  PROVE  \A a \in LayerUses(c) : a.at >= 0 /\ a.at \in Int
<1> SUFFICES ASSUME NEW a \in LayerUses(c) PROVE a.at >= 0 /\ a.at \in Int
  OBVIOUS
<1>1. PICK l \in 0 .. c.layers - 1 : a \in At(l, LayerMods(c, l))
  BY DEF LayerUses
<1>2. a.at = l
  BY <1>1 DEF At, Attribute
<1>3. l >= 0 /\ l \in Int
  BY DEF Typed
<1> QED BY <1>2, <1>3

\* What belongs to no layer after the layers.
LEMMA LaidBehind ==
  ASSUME NEW c, NEW p, NEW q, NEW M, NEW N, NEW T, Laid(c, p, At(Top, M) \cup T),
         LaidAt(c, Top, q, N), \A a \in T : a.at >= 0 /\ a.at \in Int,
         M \cap N = {}, M \cap Special = {}
  PROVE  Laid(c, p \o q, At(Top, M \cup N) \cup T)
<1> DEFINE U == At(Top, M) \cup T
           V == At(Top, N)
<1>1. Precedes(At(Top, M), V) /\ At(Top, M) \cup V = At(Top, M \cup N)
  <2>1. M \cap N = {} /\ M \cap Special = {}
    OBVIOUS
  <2>2. Precedes(At(Top, M), At(Top, N))
    BY ONLY <2>1, ApartAt
  <2> QED BY <2>2, JoinedAt
<1>2. \A m : Attribute(Top, m) \notin T /\ Attribute(Mtp, m) \notin T
  BY DEF Attribute, Top, Mtp
<1>3. Precedes(U, V)
  <2>1. T \cap V = {}
    BY <1>2 DEF At
  <2> HIDE DEF V
  <2> QED BY <1>1, <1>2, <2>1 DEF Precedes
<1>4. Laid(c, p, U) /\ Laid(c, q, V)
  BY DEF LaidAt
<1>5. U \cup V = At(Top, M \cup N) \cup T
  BY <1>1
<1> HIDE DEF U, V
<1>6. Laid(c, p \o q, U \cup V)
  BY ONLY <1>3, <1>4, LaidConcat
<1> QED BY <1>5, <1>6

LEMMA LaidMtpPart ==
  ASSUME NEW c
  PROVE  Laid(c, When(c.mtpN > 0,
                   <<Step("mtp_embedding", Mtp, "embedding", c.int8Embedding)>>
                   \o MtpSteps(c) \o <<Norm(Top, "mtp_norm")>>), MtpUse(c))
<1> DEFINE e == <<MtpStep(c)>>
           m == MtpSteps(c)
           n == <<Norm(Top, "mtp_norm")>>
           M == MtpMods(c)
           b == c.mtpN > 0
           E == At(Mtp, {"embedding"})
           U == At(Mtp, M)
           V == At(Top, {"mtp_norm"})
<1>1. Laid(c, e, E)
  <2>1. MtpStep(c) \in Steps(c)
    BY DEF Steps
  <2>2. Attrs(MtpStep(c)) = E
    BY SpecialAttrs DEF At
  <2> HIDE DEF E
  <2> QED BY <2>1, <2>2, LaidOne
<1>2. Laid(c, m, U)
  BY LaidMtp DEF LaidAt
<1>3. Laid(c, n, V)
  <2>1. Top \in Int /\ "mtp_norm" \in NormMods
    BY DEF Top, NormMods
  <2>2. LaidAt(c, Top, n, {"mtp_norm"})
    BY <2>1, LaidNorm
  <2> QED BY <2>2 DEF LaidAt
<1>4. M \cap Special = {}
  BY DEF MtpMods, AttentionMods, Special
<1>5. \A x, y, j, k : Attribute(x, j) = Attribute(y, k) => x = y /\ j = k
  BY DEF Attribute
<1>6. Top # Mtp
  BY DEF Top, Mtp
<1>7. \A x : Attribute(Top, x) \notin U /\ Attribute(Top, x) \notin E
  BY <1>5, <1>6 DEF At
<1>8. Attribute(Mtp, "embedding") \notin U
  BY <1>4, <1>5 DEF At, Special
<1>9. Precedes(E, U)
  BY <1>7, <1>8 DEF At, Precedes
<1>10. Precedes(E \cup U, V)
  <2>1. (E \cup U) \cap V = {}
    BY <1>7 DEF At
  <2>2. Attribute(Top, "output") \notin V
    BY <1>5 DEF At
  <2> QED BY <1>7, <2>1, <2>2 DEF Precedes
<1> HIDE DEF e, m, n, M, E, U, V
<1>11. Laid(c, e \o m, E \cup U)
  BY ONLY <1>1, <1>2, <1>9, LaidConcat
<1> DEFINE p == e \o m
           P == E \cup U
<1> HIDE DEF p, P
<1>12. Laid(c, p \o n, P \cup V)
  BY ONLY <1>3, <1>10, <1>11, LaidConcat DEF p, P
<1> DEFINE q == p \o n
           Q == P \cup V
<1> HIDE DEF q, Q, b
<1>13. Laid(c, q, Q)
  BY <1>12 DEF q, Q
<1>14. Laid(c, When(b, q), IF b THEN Q ELSE {})
  BY ONLY <1>13, LaidWhen
<1>15. Q = At(Mtp, {"embedding"} \cup MtpMods(c)) \cup At(Top, {"mtp_norm"})
  BY JoinedAt DEF Q, P, E, U, V, M
<1> QED BY ONLY <1>14, <1>15 DEF q, p, e, m, n, b, MtpStep, MtpUse

\* The steps of the constructor set the attributes of PlanUses, each once and in
\* an order in which every step finds what it needs.
LEMMA LaidPlan ==
  ASSUME NEW c, Typed(c), c.layers >= 0
  PROVE  Laid(c, Plan(c), PlanUses(c))
<1> DEFINE e == <<EmbeddingStep(c)>>
           j == When(c.embproj,
                  <<Linear(Top, "emb_proj_in", FALSE), Linear(Top, "emb_proj_out", FALSE)>>
                  \o When(c.embProjNorm, <<Norm(Top, "emb_in_norm"), Norm(Top, "emb_out_norm")>>))
           l == FlattenSeq([i \in 1 .. c.layers |-> LayerSteps(c, i - 1)])
           n == <<Norm(Top, "norm")>>
           y == When(c.crossLayers > 0,
                  <<Norm(Top, "yoco_norm"),
                    HeadLinear(Top, "k_proj", "yoco_kv" \in Targets(c)),
                    HeadLinear(Top, "v_proj", "yoco_kv" \in Targets(c))>>
                  \o When(c.qkRmsClip, <<Step("qk_norm", Top, "k_norm", FALSE)>>))
           o == <<OutputStep(c)>>
           t == When(c.mtpN > 0,
                  <<Step("mtp_embedding", Mtp, "embedding", c.int8Embedding)>>
                  \o MtpSteps(c) \o <<Norm(Top, "mtp_norm")>>)
           k == <<CacheStep>>
           T == LayerUses(c)
           E == {"tok_embeddings", "embedding_bf16"}
           J == ProjectionMods(c)
           N == {"norm"}
           Y == YocoMods(c)
           O == {"output", "output_source"}
           V == MtpUse(c)
           K == At(Top, {"cache"})
<1>1. Plan(c) = ((((((e \o j) \o l) \o n) \o y) \o o) \o t) \o k
  BY DEF Plan, EmbeddingStep, OutputStep, CacheStep, LayerSteps
<1>2. LaidAt(c, Top, e, E) /\ LaidAt(c, Top, o, O) /\ LaidAt(c, Top, k, {"cache"})
  <2>1. EmbeddingStep(c) \in Steps(c) /\ OutputStep(c) \in Steps(c) /\ CacheStep \in Steps(c)
    BY DEF Steps
  <2>2. /\ Attrs(EmbeddingStep(c)) = At(Top, E) /\ Attrs(OutputStep(c)) = At(Top, O)
        /\ Attrs(CacheStep) = At(Top, {"cache"})
    BY SpecialAttrs DEF At
  <2> HIDE DEF E, O
  <2> QED BY <2>1, <2>2, LaidOne DEF LaidAt
<1>3. LaidAt(c, Top, j, J)
  BY LaidProjections
<1>4. Laid(c, l, T)
  BY LaidLayers
<1>5. LaidAt(c, Top, n, N)
  <2>1. Top \in Int /\ "norm" \in NormMods
    BY DEF Top, NormMods
  <2> QED BY <2>1, LaidNorm
<1>6. LaidAt(c, Top, y, Y)
  BY LaidYoco
<1>7. Laid(c, t, V)
  BY LaidMtpPart
<1>8. \A a \in T : a.at >= 0 /\ a.at \in Int
  BY LayersBelow
<1>9. /\ J \subseteq {"emb_proj_in", "emb_proj_out", "emb_in_norm", "emb_out_norm"}
      /\ Y \subseteq {"yoco_norm", "k_proj", "v_proj", "k_norm"}
  BY DEF ProjectionMods, YocoMods
<1> HIDE DEF e, j, l, n, y, o, t, k, T, J, Y, V
<1> DEFINE M1 == E \cup J
           M2 == M1 \cup N
           M3 == M2 \cup Y
           M4 == M3 \cup O
<1>10. /\ E \cap J = {} /\ M1 \cap N = {} /\ M2 \cap Y = {} /\ M3 \cap O = {}
       /\ E \cap Special = {} /\ M1 \cap Special = {} /\ M2 \cap Special = {}
       /\ M3 \cap Special = {}
       /\ "mtp_norm" \notin M4 /\ "cache" \notin M4
  BY <1>9 DEF Special
<1> HIDE DEF E, N, O, M1, M2, M3, M4, K
<1>11. LaidAt(c, Top, e \o j, M1)
  BY ONLY <1>2, <1>3, <1>10, LaidAtConcat DEF M1
<1>12. Laid(c, (e \o j) \o l, At(Top, M1) \cup T)
  <2> DEFINE p == e \o j
             U == At(Top, M1)
  <2>1. Laid(c, p, U)
    BY <1>11 DEF LaidAt
  <2>2. \A a, b, x, z : Attribute(a, x) = Attribute(b, z) => x = z
    BY DEF Attribute
  <2>3. \A a \in U : a.at = Top
    BY DEF At, Attribute
  <2>4. U \cap T = {} /\ Attribute(Top, "tok_embeddings") \notin T
        /\ Attribute(Top, "output") \notin T
    BY <1>8, <2>3 DEF Attribute, Top
  <2>5. Attribute(Top, "cache") \notin U /\ Attribute(Mtp, "embedding") \notin U
    BY <1>10, <2>2 DEF At, Special
  <2> HIDE DEF U, p
  <2>6. Precedes(U, T)
    BY <2>4, <2>5 DEF Precedes
  <2>7. Laid(c, p \o l, U \cup T)
    BY ONLY <1>4, <2>1, <2>6, LaidConcat
  <2> QED BY <2>7 DEF p, U
<1> DEFINE p2 == (e \o j) \o l
<1> HIDE DEF p2
<1>13. Laid(c, p2 \o n, At(Top, M2) \cup T)
  BY ONLY <1>5, <1>8, <1>10, <1>12, LaidBehind DEF p2, M2
<1> DEFINE p3 == p2 \o n
<1> HIDE DEF p3
<1>14. Laid(c, p3 \o y, At(Top, M3) \cup T)
  BY ONLY <1>6, <1>8, <1>10, <1>13, LaidBehind DEF p3, M3
<1> DEFINE p4 == p3 \o y
<1> HIDE DEF p4
<1>15. Laid(c, p4 \o o, At(Top, M4) \cup T)
  BY ONLY <1>2, <1>8, <1>10, <1>14, LaidBehind DEF p4, M4
<1> DEFINE p5 == p4 \o o
           U == At(Top, M4) \cup T
<1> HIDE DEF p5
<1>16. \A a \in V : (a.at = Mtp /\ a \in At(Mtp, {"embedding"} \cup MtpMods(c)))
                    \/ a = Attribute(Top, "mtp_norm")
  <2>1. V \subseteq At(Mtp, {"embedding"} \cup MtpMods(c)) \cup At(Top, {"mtp_norm"})
    BY DEF V, MtpUse
  <2>2. \A M : \A a \in At(Mtp, M) : a.at = Mtp
    BY DEF At, Attribute
  <2>3. At(Top, {"mtp_norm"}) = {Attribute(Top, "mtp_norm")}
    BY DEF At
  <2> QED BY <2>1, <2>2, <2>3
<1>17. \A a \in U : (a.at = Top /\ a \in At(Top, M4)) \/ (a.at >= 0 /\ a.at \in Int)
  BY <1>8 DEF At, Attribute
<1>18. \A m : Attribute(Top, m).at = Top /\ Attribute(Top, m).mod = m
              /\ Attribute(Mtp, m).at = Mtp /\ Attribute(Mtp, m).mod = m
  BY DEF Attribute
<1>19. \A m : Attribute(Top, m) \in At(Top, M4) <=> m \in M4
  BY DEF At, Attribute
<1>20. Top = -1 /\ Mtp = -2
  BY DEF Top, Mtp
<1>21. Precedes(U, V)
  <2>1. U \cap V = {}
    <3> SUFFICES ASSUME NEW a \in U, NEW b \in V, a = b PROVE FALSE
      OBVIOUS
    <3>1. a.at # Mtp
      BY <1>17, <1>20
    <3>2. a = Attribute(Top, "mtp_norm")
      BY <1>16, <3>1
    <3>3. a \in At(Top, M4)
      BY <1>17, <1>18, <1>20, <3>2
    <3> QED BY <1>10, <1>19, <3>2, <3>3
  <2>2. Attribute(Top, "cache") \notin U
    BY <1>10, <1>17, <1>18, <1>19, <1>20
  <2>3. Attribute(Mtp, "embedding") \notin U
    BY <1>17, <1>18, <1>20
  <2>4. Attribute(Top, "tok_embeddings") \notin V
    <3>1. Attribute(Top, "tok_embeddings") # Attribute(Top, "mtp_norm")
      BY DEF Attribute
    <3> QED BY <1>16, <1>18, <1>20, <3>1
  <2> HIDE DEF U
  <2> QED BY <2>1, <2>2, <2>3, <2>4 DEF Precedes
<1> HIDE DEF U
<1>22. Laid(c, p5 \o t, U \cup V)
  BY ONLY <1>7, <1>15, <1>21, LaidConcat DEF p5, U
<1> DEFINE p6 == p5 \o t
           W == U \cup V
<1> HIDE DEF p6, W
<1>23. Precedes(W, K)
  <2>1. Attribute(Top, "cache") \notin W
    <3>1. Attribute(Top, "cache") # Attribute(Top, "mtp_norm")
      BY DEF Attribute
    <3>2. Attribute(Top, "cache") \notin V
      BY <1>16, <1>18, <1>20, <3>1
    <3> QED BY <1>21, <3>2 DEF W, Precedes
  <2>2. K = {Attribute(Top, "cache")}
    BY DEF K, At
  <2>3. Attribute(Top, "cache") # Attribute(Top, "tok_embeddings")
        /\ Attribute(Top, "cache") # Attribute(Top, "output")
    BY DEF Attribute
  <2> QED BY <2>1, <2>2, <2>3 DEF Precedes
<1>24. Laid(c, k, K) /\ Laid(c, p6, W)
  BY <1>2, <1>22 DEF LaidAt, K, p6, W
<1>25. Laid(c, p6 \o k, W \cup K)
  BY ONLY <1>23, <1>24, LaidConcat
<1>26. M4 = TopMods(c) \cup O
  BY DEF M4, M3, M2, M1, TopMods, E, N, J, Y
<1>27. W \cup K = PlanUses(c)
  BY <1>26 DEF W, U, V, K, T, O, PlanUses
<1> QED BY <1>1, <1>25, <1>27 DEF p6, p5, p4, p3, p2

\* The local of the constructor that holds the embedding or the head in bf16,
\* and the mark of the cache: what is planned and not used.
Unused == {Attribute(Top, "embedding_bf16"), Attribute(Top, "output_source"),
           Attribute(Top, "cache")}
Yoco == Attribute(Top, "cache.yoco")

\* What the calls dereference, put like what is planned.
LEMMA UsesInLayers ==
  ASSUME NEW c
  PROVE  LayerUses(c)
           = UNION {AttentionUses(c, l, l < c.layers - c.crossLayers) \cup MlpUses(c, l)
                    \cup {Attribute(l, "input_layernorm"),
                          Attribute(l, "post_attention_layernorm")} : l \in 0 .. c.layers - 1}
<1> DEFINE R(l) == AttentionUses(c, l, l < c.layers - c.crossLayers) \cup MlpUses(c, l)
                   \cup {Attribute(l, "input_layernorm"),
                         Attribute(l, "post_attention_layernorm")}
<1>1. ASSUME NEW l \in 0 .. c.layers - 1
      PROVE  At(l, LayerMods(c, l)) = R(l)
  <2> DEFINE b == l < c.layers - c.crossLayers
             A == AttentionMods(c, b)
             M == MlpMods(c, l)
             N == {"input_layernorm", "post_attention_layernorm"}
  <2>1. AttentionUses(c, l, b) = At(l, A)
    BY DEF AttentionUses, AttentionMods, At
  <2>2. MlpUses(c, l) = At(l, M)
    BY DEF MlpUses, MlpMods, MoeMods, ExpertMods, At
  <2>3. At(l, N) = {Attribute(l, "input_layernorm"), Attribute(l, "post_attention_layernorm")}
    BY DEF At
  <2>4. LayerMods(c, l) = (A \cup M) \cup N
    BY DEF LayerMods
  <2>5. At(l, (A \cup M) \cup N) = (At(l, A) \cup At(l, M)) \cup At(l, N)
    <3> HIDE DEF A, M, N
    <3> QED BY DEF At
  <2> QED BY <2>1, <2>2, <2>3, <2>4, <2>5
<1> HIDE DEF R
<1>2. LayerUses(c) = UNION {R(l) : l \in 0 .. c.layers - 1}
  BY <1>1 DEF LayerUses
<1> QED BY <1>2 DEF R

LEMMA UsesOfMtp ==
  ASSUME NEW c
  PROVE  MtpUses(c) = (At(Mtp, {"embedding"} \cup MtpMods(c)) \cup At(Top, {"mtp_norm"}))
                      \cup {Yoco}
<1> DEFINE A == AttentionMods(c, FALSE)
           B == {"embedding", "embedding_norm", "hidden_norm", "proj", "input_norm",
                 "post_attn_norm", "ffn.up_proj", "ffn.gate_proj", "ffn.down_proj"}
<1>1. AttentionUses(c, Mtp, FALSE) = At(Mtp, A)
  BY DEF AttentionUses, AttentionMods, At
<1>2. {"embedding"} \cup MtpMods(c) = B \cup A
  BY DEF MtpMods
<1>3. MtpUses(c) = (At(Mtp, B) \cup AttentionUses(c, Mtp, FALSE))
                   \cup {Attribute(Top, "mtp_norm"), Yoco}
  BY DEF MtpUses, At, Yoco
<1>4. At(Mtp, B) \cup At(Mtp, A) = At(Mtp, B \cup A)
  <2> HIDE DEF A, B
  <2> QED BY ONLY JoinedAt
<1>5. At(Top, {"mtp_norm"}) = {Attribute(Top, "mtp_norm")}
  BY DEF At
<1> HIDE DEF A, B
<1> QED BY <1>1, <1>2, <1>3, <1>4, <1>5

\* The constructor sets what the calls dereference, whatever is configured, and
\* hardly anything else.
LEMMA UsesArePlanned ==
  ASSUME NEW c, Typed(c), c.mtpN > 0 => c.crossLayers > 0
  PROVE  /\ Uses(c) \subseteq PlanUses(c) \cup {Yoco}
         /\ PlanUses(c) \subseteq Uses(c) \cup Unused
         /\ Yoco \in Uses(c) => c.crossLayers > 0
         /\ Uses(c) \cap Unused = {}
<1> DEFINE X == {"tok_embeddings", "norm", "output"}
     \cup (IF c.embproj THEN {"emb_proj_in", "emb_proj_out"} ELSE {})
     \cup (IF c.crossLayers > 0 THEN {"yoco_norm", "k_proj", "v_proj", "cache.yoco"} ELSE {})
     \cup (IF c.crossLayers > 0 /\ c.qkRmsClip THEN {"k_norm"} ELSE {})
     \cup (IF c.embproj /\ c.embProjNorm THEN {"emb_in_norm", "emb_out_norm"} ELSE {})
           T == LayerUses(c)
           V == At(Mtp, {"embedding"} \cup MtpMods(c)) \cup At(Top, {"mtp_norm"})
           P == TopMods(c) \cup {"output", "output_source"}
<1>1. Uses(c) = (At(Top, X) \cup T) \cup IF c.mtpN > 0 THEN V \cup {Yoco} ELSE {}
  <2> DEFINE L == UNION {AttentionUses(c, l, l < c.layers - c.crossLayers) \cup MlpUses(c, l)
                         \cup {Attribute(l, "input_layernorm"),
                               Attribute(l, "post_attention_layernorm")} :
                         l \in 0 .. c.layers - 1}
             b == c.mtpN > 0
  <2>1. Uses(c) = (At(Top, X) \cup L) \cup IF b THEN MtpUses(c) ELSE {}
    <3>1. Uses(c) = ({Attribute(Top, m) : m \in X} \cup L) \cup IF b THEN MtpUses(c) ELSE {}
      BY DEF Uses
    <3>2. {Attribute(Top, m) : m \in X} = At(Top, X)
      BY DEF At
    <3> HIDE DEF X, L, b
    <3> QED BY <3>1, <3>2
  <2>2. L = T
    BY UsesInLayers
  <2>3. MtpUses(c) = V \cup {Yoco}
    BY UsesOfMtp
  <2> HIDE DEF L, T, V, X, b
  <2>4. Uses(c) = (At(Top, X) \cup T) \cup IF b THEN V \cup {Yoco} ELSE {}
    BY <2>1, <2>2, <2>3
  <2> QED BY <2>4 DEF b
<1>2. PlanUses(c) = ((At(Top, P) \cup T) \cup IF c.mtpN > 0 THEN V ELSE {}) \cup At(Top, {"cache"})
  BY DEF PlanUses, MtpUse
<1>3. X \subseteq P \cup {"cache.yoco"}
  BY DEF TopMods, ProjectionMods, YocoMods
<1>4. P \subseteq X \cup {"embedding_bf16", "output_source"}
  BY DEF TopMods, ProjectionMods, YocoMods
<1>5. /\ "cache.yoco" \in X => c.crossLayers > 0
      /\ X \cap {"cache", "embedding_bf16", "output_source"} = {}
  OBVIOUS
<1>6. /\ At(Top, {"cache"}) = {Attribute(Top, "cache")} /\ At(Top, {"cache.yoco"}) = {Yoco}
      /\ At(Top, {"embedding_bf16", "output_source"})
           = {Attribute(Top, "embedding_bf16"), Attribute(Top, "output_source")}
  BY DEF At, Yoco
<1> HIDE DEF X, T, V, P
<1>7. At(Top, X) \subseteq At(Top, P) \cup {Yoco}
  <2>1. At(Top, P) \cup At(Top, {"cache.yoco"}) = At(Top, P \cup {"cache.yoco"})
    BY JoinedAt
  <2>2. At(Top, X) \subseteq At(Top, P \cup {"cache.yoco"})
    BY <1>3 DEF At
  <2> QED BY <1>6, <2>1, <2>2
<1>8. At(Top, P) \subseteq At(Top, X) \cup Unused
  <2>1. At(Top, X) \cup At(Top, {"embedding_bf16", "output_source"})
          = At(Top, X \cup {"embedding_bf16", "output_source"})
    BY JoinedAt
  <2>2. At(Top, P) \subseteq At(Top, X \cup {"embedding_bf16", "output_source"})
    BY <1>4 DEF At
  <2> QED BY <1>6, <2>1, <2>2 DEF Unused
<1>9. ASSUME NEW y \in Unused \cup {Yoco} PROVE y \notin T /\ y \notin V
  <2>1. /\ y.at = Top /\ y.mod \in {"cache", "embedding_bf16", "output_source", "cache.yoco"}
        /\ Top = -1 /\ Mtp = -2
    BY DEF Unused, Yoco, Attribute, Top, Mtp
  <2>2. y \notin T
    BY <2>1, LayersBelow DEF T
  <2>3. y \notin V
    BY <2>1 DEF V, At, Attribute
  <2> QED BY <2>2, <2>3
<1>10. Yoco \in At(Top, X) => "cache.yoco" \in X
  BY DEF At, Attribute, Yoco
<1>11. Yoco \in Uses(c) => c.crossLayers > 0
  BY <1>1, <1>5, <1>9, <1>10
<1>12. Uses(c) \subseteq PlanUses(c) \cup {Yoco}
  BY <1>1, <1>2, <1>7
<1>13. PlanUses(c) \subseteq Uses(c) \cup Unused
  BY <1>1, <1>2, <1>6, <1>8 DEF Unused
<1>14. Uses(c) \cap Unused = {}
  <2>1. Unused \cap At(Top, X) = {} /\ Yoco \notin Unused
    BY <1>5 DEF At, Attribute, Unused, Yoco
  <2>2. Unused \cap T = {} /\ Unused \cap V = {}
    BY <1>9
  <2> QED BY <1>1, <2>1, <2>2
<1> QED BY <1>11, <1>12, <1>13, <1>14

\* The attributes that what is left of the constructor will set.
Pending(q) == UNION {Attrs(q[i]) : i \in DOMAIN q}

LEMMA LaidPending ==
  ASSUME NEW c, NEW q, NEW U, Laid(c, q, U)
  PROVE  Pending(q) = U
BY DEF Laid, Pending

Tok == Attribute(Top, "tok_embeddings")
Bf16 == Attribute(Top, "embedding_bf16")
Out == Attribute(Top, "output")
Source == Attribute(Top, "output_source")
Cache == Attribute(Top, "cache")
MtpEmbedding == Attribute(Mtp, "embedding")

\* What an attribute tells about the step that sets it.
LEMMA AttrsTell ==
  ASSUME NEW c, NEW s \in Steps(c), NEW a \in Attrs(s)
  PROVE  /\ a = Attribute(a.at, a.mod) /\ a.at = s.at /\ a.mod \in Mods(s)
         /\ a.mod # "none" /\ a.mod # "self_attn.diff_gate_proj"
         /\ a \in {Tok, Bf16} => s.fn = "embedding"
         /\ a \in {Out, Source} => s.fn = "output"
         /\ a = MtpEmbedding => s.fn = "mtp_embedding"
         /\ a = Cache => s.fn = "cache"
         /\ a # Yoco
<1>1. PICK m \in Mods(s) : a = Attribute(s.at, m)
  BY DEF Attrs, At
<1>2. a.at = s.at /\ a.mod = m /\ a = Attribute(a.at, a.mod)
  BY <1>1 DEF Attribute
<1>3. \/ s.fn \in {"norm", "qk_norm", "linear", "head_linear", "experts"}
         /\ s.mod \in (NormMods \cup GainMods) \cup (LinearMods \cup {"mlp"})
      \/ s \in {EmbeddingStep(c), OutputStep(c), MtpStep(c), CacheStep}
  BY DEF Steps, HeadMods, LinearMods
<1>4. /\ Tok.mod = "tok_embeddings" /\ Bf16.mod = "embedding_bf16" /\ Out.mod = "output"
      /\ Source.mod = "output_source" /\ MtpEmbedding.mod = "embedding" /\ Cache.mod = "cache"
      /\ Yoco.mod = "cache.yoco"
  BY DEF Tok, Bf16, Out, Source, MtpEmbedding, Cache, Yoco, Attribute
<1>5. CASE s \in {EmbeddingStep(c), OutputStep(c), MtpStep(c), CacheStep}
  <2>1. /\ EmbeddingStep(c).fn = "embedding" /\ OutputStep(c).fn = "output"
        /\ MtpStep(c).fn = "mtp_embedding" /\ CacheStep.fn = "cache"
        /\ MtpStep(c).mod = "embedding" /\ CacheStep.mod = "cache"
    BY DEF EmbeddingStep, OutputStep, MtpStep, CacheStep, Step
  <2>2. \/ s.fn = "embedding" /\ m \in {"tok_embeddings", "embedding_bf16"}
        \/ s.fn = "output" /\ m \in {"output", "output_source"}
        \/ s.fn = "mtp_embedding" /\ m = "embedding"
        \/ s.fn = "cache" /\ m = "cache"
    BY <1>1, <1>5, <2>1 DEF Mods
  <2> QED BY <1>1, <1>2, <1>4, <2>2
<1>6. CASE /\ s.fn \in {"norm", "qk_norm", "linear", "head_linear", "experts"}
           /\ s.mod \in (NormMods \cup GainMods) \cup (LinearMods \cup {"mlp"})
  <2>1. m \in ExpertMods \/ m \in (NormMods \cup GainMods) \cup (LinearMods \cup {"mlp"})
    BY <1>1, <1>6 DEF Mods
  <2>2. m \notin {"none", "self_attn.diff_gate_proj", "tok_embeddings", "embedding_bf16",
                  "output", "output_source", "embedding", "cache", "cache.yoco"}
    BY <2>1 DEF ExpertMods, NormMods, GainMods, LinearMods
  <2> QED BY <1>1, <1>2, <1>4, <2>2
<1> QED BY <1>3, <1>5, <1>6

\* One step further.
LEMMA LaidTail ==
  ASSUME NEW c, NEW q, NEW U, Laid(c, q, U), q # <<>>
  PROVE  /\ Head(q) \in Steps(c) /\ Attrs(Head(q)) \subseteq U
         /\ Laid(c, Tail(q), U \ Attrs(Head(q)))
<1> DEFINE S == Steps(c)
           r == Tail(q)
           h == Head(q)
<1>1. q \in Seq(S)
  BY DEF Laid
<1>2. /\ h = q[1] /\ h \in S /\ r \in Seq(S) /\ Len(q) \in Nat /\ Len(q) >= 1
      /\ Len(r) = Len(q) - 1 /\ DOMAIN q = 1 .. Len(q) /\ DOMAIN r = 1 .. Len(q) - 1
      /\ \A i \in 1 .. Len(q) - 1 : r[i] = q[i + 1]
  <2> HIDE DEF S
  <2> QED BY <1>1
<1> HIDE DEF r, h, S
<1>3. 1 \in DOMAIN q /\ Attrs(h) \subseteq U
  BY <1>2 DEF Laid
<1>4. ASSUME NEW i \in DOMAIN r
      PROVE  /\ i \in Int /\ i + 1 \in DOMAIN q /\ r[i] = q[i + 1]
             /\ Attrs(r[i]) \subseteq U \ Attrs(h)
  <2>1. i \in Int /\ i + 1 \in DOMAIN q /\ r[i] = q[i + 1] /\ i + 1 # 1
    BY <1>2
  <2>2. Attrs(q[i + 1]) \subseteq U /\ Attrs(q[i + 1]) \cap Attrs(q[1]) = {}
    BY <1>3, <2>1 DEF Laid
  <2> QED BY <1>2, <2>1, <2>2
<1>5. ASSUME NEW a \in U \ Attrs(h)
      PROVE  \E i \in DOMAIN r : a \in Attrs(r[i])
  <2>1. PICK i \in DOMAIN q : a \in Attrs(q[i])
    BY DEF Laid
  <2>2. i # 1
    BY <1>2, <2>1
  <2>3. i - 1 \in DOMAIN r /\ r[i - 1] = q[i]
    BY <1>2, <2>2
  <2> QED BY <2>1, <2>3
<1>6. \A i, j \in DOMAIN r : i # j => Attrs(r[i]) \cap Attrs(r[j]) = {}
  <2> SUFFICES ASSUME NEW i \in DOMAIN r, NEW j \in DOMAIN r, i # j
               PROVE  Attrs(r[i]) \cap Attrs(r[j]) = {}
    OBVIOUS
  <2>1. i + 1 # j + 1 /\ i + 1 \in DOMAIN q /\ j + 1 \in DOMAIN q
    BY <1>4
  <2>2. Attrs(q[i + 1]) \cap Attrs(q[j + 1]) = {}
    BY <2>1 DEF Laid
  <2> QED BY <1>4, <2>2
<1>7. \A i, j \in DOMAIN r : i < j => ~Needs(r[i], r[j])
  <2> SUFFICES ASSUME NEW i \in DOMAIN r, NEW j \in DOMAIN r, i < j
               PROVE  ~Needs(r[i], r[j])
    OBVIOUS
  <2>1. i + 1 < j + 1 /\ i + 1 \in DOMAIN q /\ j + 1 \in DOMAIN q
    BY <1>4
  <2>2. ~Needs(q[i + 1], q[j + 1])
    BY <2>1 DEF Laid
  <2> QED BY <1>4, <2>2
<1>8. Laid(c, r, U \ Attrs(h))
  BY <1>2, <1>4, <1>5, <1>6, <1>7 DEF Laid, S
<1> QED BY <1>2, <1>3, <1>8 DEF S, r, h

\* What a step needs has been set when its turn comes.
LEMMA NeedsMet ==
  ASSUME NEW c, NEW q, NEW U, Laid(c, q, U), q # <<>>
  PROVE  /\ Head(q).fn = "output" => Tok \notin U
         /\ Head(q).fn = "mtp_embedding" => Out \notin U
         /\ Head(q).fn = "cache" => U = {Cache}
<1>1. /\ q \in Seq(Steps(c)) /\ Head(q) = q[1] /\ 1 \in DOMAIN q
      /\ \A i \in DOMAIN q : q[i] \in Steps(c) /\ i \in Int /\ i >= 1
  <2>1. q \in Seq(Steps(c))
    BY DEF Laid
  <2> QED BY <2>1
<1>2. ASSUME NEW a \in U
      PROVE  \E i \in DOMAIN q : a \in Attrs(q[i]) /\ (i = 1 \/ ~Needs(Head(q), q[i]))
  <2>1. PICK i \in DOMAIN q : a \in Attrs(q[i])
    BY DEF Laid
  <2>2. i # 1 => 1 < i
    BY <1>1
  <2>3. i = 1 \/ ~Needs(q[1], q[i])
    BY <1>1, <2>2 DEF Laid
  <2> QED BY <1>1, <2>1, <2>3
<1>3. ASSUME Head(q).fn = "output", Tok \in U PROVE FALSE
  <2>1. PICK i \in DOMAIN q : Tok \in Attrs(q[i]) /\ (i = 1 \/ ~Needs(Head(q), q[i]))
    BY <1>2, <1>3
  <2>2. q[i].fn = "embedding"
    BY <1>1, <2>1, AttrsTell
  <2> QED BY <1>1, <1>3, <2>1, <2>2 DEF Needs
<1>4. ASSUME Head(q).fn = "mtp_embedding", Out \in U PROVE FALSE
  <2>1. PICK i \in DOMAIN q : Out \in Attrs(q[i]) /\ (i = 1 \/ ~Needs(Head(q), q[i]))
    BY <1>2, <1>4
  <2>2. q[i].fn = "output"
    BY <1>1, <2>1, AttrsTell
  <2> QED BY <1>1, <1>4, <2>1, <2>2 DEF Needs
<1>5. ASSUME Head(q).fn = "cache" PROVE U = {Cache}
  <2>1. Head(q) = CacheStep /\ Attrs(Head(q)) = {Cache}
    BY <1>1, <1>5, SpecialSteps, SpecialAttrs DEF Cache
  <2>2. \A a \in U : a \in Attrs(q[1])
    BY <1>2, <1>5 DEF Needs
  <2>3. Attrs(q[1]) \subseteq U
    BY <1>1 DEF Laid
  <2> QED BY <1>1, <2>1, <2>2, <2>3
<1> QED BY <1>3, <1>4, <1>5

-----------------------------------------------------------------------------
(* The load itself.  U is what is left to be set: what is set so far is    *)
(* sound, and the tensors of what is left are untouched.                   *)

Parts == {"weight", "bias", "weight_clip_val", "act_scale", "act_bias"}
Names(a) == {a.mod, Alias(a.mod)}

TokName == Name(Top, "tok_embeddings", "weight")
OutName == Name(Top, "output", "weight")
Raw(name) == Made(name, <<"bf16">>)

\* The checkpoint had what the attribute is made of, if it must have.
Present(a) ==
  \/ a \in Unused \cup Computed \/ MayLack(config, a)
  \/ \E m \in Names(a) : Name(a.at, m, "weight") \in asked.tensors

\* A value with a weight is that of a projection, and sound.
Sound(a, v) ==
  "weight" \in DOMAIN v =>
    /\ a.mod \in LinearMods \cup {"mlp.w13", "mlp.w2"}
    /\ \E m \in Names(a) : v.weight.of = Name(a.at, m, "weight")
    /\ MadeOnce(a, v)

EmbeddingMade(f) ==
  /\ {Tok, Bf16} \subseteq DOMAIN f
  /\ f[Tok] = Int8(Raw(TokName), config.int8Embedding) /\ f[Bf16] = Raw(TokName)
HeadMade(f) ==
  /\ {Out, Source} \subseteq DOMAIN f
  /\ \E n \in {TokName, OutName} : f[Out] = Int8(Raw(n), config.int8Head) /\ f[Source] = Raw(n)

\* What has been set when U is left to be set.
SetSoFar(U) ==
  /\ \A a \in PlanUses(config) \ U : a \in DOMAIN model /\ Present(a)
  /\ \A a \in DOMAIN model : a = Attribute(a.at, a.mod) /\ Sound(a, model[a])
  /\ Tok \notin U => EmbeddingMade(model)
  /\ Out \notin U => HeadMade(model)
  /\ MtpEmbedding \in PlanUses(config) \ U =>
       Out \notin U /\ model[MtpEmbedding] = Int8(Raw(model[Out].of), config.int8Embedding)

\* The tensors of what is left are still in the store.
Untouched(U) ==
  \A a \in U : \A m \in Names(a) : \A part \in Parts :
    Name(a.at, m, part) \in asked.tensors => Name(a.at, m, part) \in store

Taking ==
  /\ Laid(config, plan, Pending(plan)) /\ Pending(plan) \subseteq PlanUses(config)
  /\ Cache \in Pending(plan)
  /\ store \subseteq asked.tensors /\ Untouched(Pending(plan))
  /\ SetSoFar(Pending(plan))

Refused ==
  \/ ~Valid(asked.config) \/ ~Valid(config)
  \/ \A n \in asked.tensors : n.at # 0
  \/ Lacking(config) # {}
  \/ asked.misshapen # {}
  \/ BadSizes(config)

LoadInv ==
  /\ loading \in {"args", "state", "tensors", "loaded", "refused"}
  /\ asked \in Requests
  /\ loading = "args" => config = asked.config
  /\ loading \in {"args", "state"} => model = <<>>
  /\ loading \in {"state", "tensors", "loaded"} => Valid(config) /\ Typed(config)
  /\ loading = "tensors" => Taking
  /\ loading = "loaded" =>
       SetSoFar({Cache}) /\ (config.crossLayers > 0 => Yoco \in DOMAIN model)
  /\ loading = "refused" => Refused

LEMMA LoadInvInit == LoadInit => LoadInv
BY DEF LoadInit, LoadInv

\* A configuration, overridden or not, is typed.
LEMMA ConfigTyped ==
  ASSUME NEW c \in Configurations, NEW o
  PROVE  Typed(c) /\ Typed(Overridden(c, o))
<1>1. /\ c.layers \in Int /\ c.crossLayers \in Int /\ c.denseLayers \in Int
      /\ c.act # "none" /\ {"layers", "crossLayers", "denseLayers", "act"} \subseteq DOMAIN c
  BY DEF Configurations
<1>2. Typed(c)
  BY <1>1 DEF Typed
<1>3. Typed(Overridden(c, o))
  BY <1>1 DEF Typed, Overridden
<1> QED BY <1>2, <1>3

\* The actions that come before the tensors, and the ways to refuse.
LEMMA LoadArgsKeeps ==
  ASSUME LoadInv, LoadArgs
  PROVE  LoadInv'
<1>1. config = asked.config /\ asked \in Requests /\ asked' = asked /\ model = <<>>
      /\ config' = Overridden(config, asked.overrides) /\ loading = "args"
  BY DEF LoadInv, LoadArgs
<1>2. config \in Configurations
  BY <1>1, LoaderAssumption
<1>3. Typed(Overridden(config, asked.overrides))
  BY <1>2, ConfigTyped
<1>4. Typed(config')
  BY <1>1, <1>3
<1>5. CASE Valid(config) /\ Valid(config')
  <2>1. loading' = "state" /\ model' = model
    BY <1>5 DEF LoadArgs
  <2> QED BY <1>1, <1>4, <1>5, <2>1 DEF LoadInv
<1>6. CASE ~(Valid(config) /\ Valid(config'))
  <2>1. loading' = "refused" /\ model' = <<>>
    BY <1>6 DEF LoadArgs, RefuseLoad
  <2>2. Refused'
    BY <1>1, <1>6 DEF Refused
  <2> QED BY <1>1, <2>1, <2>2 DEF LoadInv
<1> QED BY <1>5, <1>6

LEMMA RefusalKeeps ==
  ASSUME LoadInv, RefuseLoad, UNCHANGED <<asked, config>>, Refused
  PROVE  LoadInv'
<1>1. Lacking(config)' = Lacking(config)
  BY DEF Lacking, MayLack
<1>2. Refused'
  BY <1>1 DEF Refused
<1> QED BY <1>2 DEF LoadInv, RefuseLoad

\* Only a wrong shape leaves open whether the code raises.
LEMMA RaisesForAShape ==
  ASSUME NEW names, TRUE \in MayRaise(names)
  PROVE  Refused
BY DEF MayRaise, Refused

LEMMA ValidLayers ==
  ASSUME NEW c, Typed(c), Valid(c)
  PROVE  c.layers >= 0 /\ (c.mtpN > 0 => c.crossLayers > 0)
BY DEF Typed, Valid

LEMMA MarksPlanned ==
  ASSUME NEW c
  PROVE  {Tok, Bf16, Out, Source, Cache} \subseteq PlanUses(c)
<1>1. PlanUses(c) = ((At(Top, TopMods(c) \cup {"output", "output_source"}) \cup LayerUses(c))
                     \cup MtpUse(c)) \cup At(Top, {"cache"})
  BY DEF PlanUses
<1>2. {"tok_embeddings", "embedding_bf16"} \subseteq TopMods(c)
  BY DEF TopMods
<1>3. {Tok, Bf16, Out, Source} \subseteq At(Top, TopMods(c) \cup {"output", "output_source"})
  BY <1>2 DEF At, Tok, Bf16, Out, Source
<1>4. Cache \in At(Top, {"cache"})
  BY DEF At, Cache
<1> QED BY <1>1, <1>3, <1>4

LEMMA LoadStateKeeps ==
  ASSUME LoadInv, LoadState
  PROVE  LoadInv'
<1>1. loading = "state" /\ asked' = asked /\ config' = config /\ model = <<>>
      /\ Valid(config) /\ Typed(config) /\ asked \in Requests
  BY DEF LoadInv, LoadState
<1>2. CASE \E n \in asked.tensors : n.at = 0
  <2>1. /\ loading' = "tensors" /\ store' = asked.tensors /\ plan' = Plan(config)
        /\ model' = model
    BY <1>2 DEF LoadState
  <2>2. Laid(config, Plan(config), PlanUses(config))
    BY <1>1, ValidLayers, LaidPlan
  <2>3. Pending(Plan(config)) = PlanUses(config)
    BY <2>2, LaidPending
  <2>4. Tok \in PlanUses(config) /\ Out \in PlanUses(config) /\ Cache \in PlanUses(config)
    BY MarksPlanned
  <2>5. SetSoFar(PlanUses(config))'
    <3>1. DOMAIN model' = {}
      BY <1>1, <2>1
    <3> QED BY <1>1, <2>4, <3>1 DEF SetSoFar
  <2>6. Untouched(PlanUses(config))'
    BY <1>1, <2>1 DEF Untouched
  <2>7. Taking'
    <3> DEFINE U == PlanUses(config)
    <3>1. Pending(plan') = U /\ PlanUses(config') = U
      BY <1>1, <2>1, <2>3
    <3>2. SetSoFar(Pending(plan))' /\ Untouched(Pending(plan))'
      BY <1>1, <2>5, <2>6, <3>1 DEF SetSoFar, Untouched
    <3> QED BY <1>1, <2>1, <2>2, <2>4, <3>1, <3>2 DEF Taking
  <2> QED BY <1>1, <2>1, <2>7 DEF LoadInv
<1>3. CASE ~(\E n \in asked.tensors : n.at = 0)
  <2>1. RefuseLoad
    BY <1>3 DEF LoadState
  <2>2. Refused
    BY <1>3 DEF Refused
  <2> QED BY <1>1, <2>1, <2>2, RefusalKeeps
<1> QED BY <1>2, <1>3

\* At a step: where it stands and what it finds.
LEMMA AtStep ==
  ASSUME LoadInv, loading = "tensors"
  PROVE  LET s == Head(plan)
             U == Pending(plan) IN
         /\ plan # <<>> /\ s \in Steps(config) /\ Attrs(s) \subseteq U
         /\ Laid(config, plan, U) /\ U \subseteq PlanUses(config) /\ Cache \in U
         /\ Laid(config, Tail(plan), U \ Attrs(s)) /\ Pending(Tail(plan)) = U \ Attrs(s)
         /\ store \subseteq asked.tensors /\ Untouched(U) /\ SetSoFar(U)
         /\ Valid(config) /\ Typed(config)
<1>1. Taking /\ Valid(config) /\ Typed(config)
  BY DEF LoadInv
<1> DEFINE U == Pending(plan)
<1>2. /\ Laid(config, plan, U) /\ U \subseteq PlanUses(config) /\ Cache \in U
      /\ store \subseteq asked.tensors /\ Untouched(U) /\ SetSoFar(U)
  BY <1>1 DEF Taking
<1>3. plan # <<>>
  <2>1. Pending(<<>>) = {}
    BY DEF Pending
  <2> QED BY <1>2, <2>1
<1>4. /\ Head(plan) \in Steps(config) /\ Attrs(Head(plan)) \subseteq U
      /\ Laid(config, Tail(plan), U \ Attrs(Head(plan)))
  <2> HIDE DEF U
  <2> QED BY <1>2, <1>3, LaidTail
<1>5. Pending(Tail(plan)) = U \ Attrs(Head(plan))
  <2> HIDE DEF U
  <2> QED BY <1>4, LaidPending
<1> QED BY <1>1, <1>2, <1>3, <1>4, <1>5

\* A used attribute whose weight is not in the store was lacking from the start.
LEMMA MissingIsLacking ==
  ASSUME LoadInv, loading = "tensors", NEW a \in Attrs(Head(plan)),
         a \notin Unused \cup Computed, ~MayLack(config, a),
         \A m \in Names(a) : Name(a.at, m, "weight") \notin store
  PROVE  Lacking(config) # {}
<1>1. /\ a \in PlanUses(config) /\ Untouched(Pending(plan)) /\ a \in Pending(plan)
      /\ Typed(config) /\ Valid(config)
  BY AtStep
<1>2. a \in Uses(config)
  BY <1>1, ValidLayers, UsesArePlanned
<1>3. \A m \in {a.mod, Alias(a.mod)} : Name(a.at, m, "weight") \notin asked.tensors
  BY <1>1 DEF Untouched, Names, Parts
<1>4. a \in Lacking(config)
  BY <1>2, <1>3 DEF Lacking
<1> QED BY <1>4

\* The names that belong to an attribute.
Own(a) == {Name(a.at, m, part) : m \in Names(a), part \in Parts}

\* No name belongs to two attributes, although the gate has two names.
LEMMA OwnApart ==
  ASSUME NEW a, NEW b, a = Attribute(a.at, a.mod), b = Attribute(b.at, b.mod), a # b,
         a.mod # "self_attn.diff_gate_proj", b.mod # "self_attn.diff_gate_proj"
  PROVE  Own(a) \cap Own(b) = {}
<1>1. \A x, y, z, u, v, w : Name(x, y, z) = Name(u, v, w) => x = u /\ y = v
  BY DEF Name
<1>2. ~(a.at = b.at /\ a.mod = b.mod)
  OBVIOUS
<1>3. SUFFICES ASSUME NEW m \in Names(a), NEW n \in Names(b), NEW p \in Parts, NEW q \in Parts,
                      Name(a.at, m, p) = Name(b.at, n, q)
               PROVE  FALSE
  BY DEF Own
<1>4. a.at = b.at /\ m = n
  BY <1>1, <1>3
<1>5. a.mod = b.mod
  BY <1>4 DEF Names, Alias
<1> QED BY <1>2, <1>4, <1>5

LEMMA OwnNothing ==
  ASSUME NEW a, a.mod # "none"
  PROVE  Nothing.of \notin Own(a)
<1>1. Nothing.of = Name(Top, "none", "none")
  BY DEF Nothing, Made
<1>2. \A x, y, z, u, v, w : Name(x, y, z) = Name(u, v, w) => y = v
  BY DEF Name
<1>3. "none" \notin Names(a)
  BY DEF Names, Alias
<1> QED BY <1>1, <1>2, <1>3 DEF Own

LEMMA LaidTells ==
  ASSUME NEW c, NEW q, NEW U, Laid(c, q, U), NEW a \in U
  PROVE  a = Attribute(a.at, a.mod) /\ a.mod # "none" /\ a.mod # "self_attn.diff_gate_proj"
<1>1. PICK i \in DOMAIN q : a \in Attrs(q[i])
  BY DEF Laid
<1>2. q[i] \in Steps(c)
  BY DEF Laid
<1> QED BY <1>1, <1>2, AttrsTell

\* A step that sets what it should, of its own tensors.
LEMMA SetKeeps ==
  ASSUME LoadInv, loading = "tensors", Head(plan).fn # "cache",
         NEW attributes, NEW names, Set(attributes, names), UNCHANGED <<asked, config>>,
         DOMAIN attributes = Attrs(Head(plan)),
         \A a \in Attrs(Head(plan)) : Present(a) /\ Sound(a, attributes[a]),
         names \subseteq (UNION {Own(a) : a \in Attrs(Head(plan))}) \cup {Nothing.of},
         Head(plan).fn = "embedding" => EmbeddingMade(attributes),
         Head(plan).fn = "output" => HeadMade(attributes),
         Head(plan).fn = "mtp_embedding" =>
           attributes[MtpEmbedding] = Int8(Raw(model[Out].of), config.int8Embedding)
  PROVE  LoadInv'
<1> DEFINE s == Head(plan)
           U == Pending(plan)
           A == Attrs(s)
           V == U \ A
<1>1. /\ s \in Steps(config) /\ A \subseteq U
      /\ Laid(config, plan, U) /\ U \subseteq PlanUses(config) /\ Cache \in U
      /\ Laid(config, Tail(plan), V) /\ Pending(Tail(plan)) = V
      /\ store \subseteq asked.tensors /\ Untouched(U) /\ SetSoFar(U)
      /\ Valid(config) /\ Typed(config) /\ plan # <<>>
  BY AtStep
<1>2. /\ loading' = "tensors" /\ plan' = Tail(plan) /\ store' = store \ names
      /\ asked' = asked /\ config' = config
      /\ DOMAIN model' = DOMAIN model \cup A
      /\ \A a \in A : model'[a] = attributes[a]
      /\ \A a \in DOMAIN model \ A : model'[a] = model[a]
  BY DEF Set
<1>3. /\ s.fn = "output" => Tok \notin U
      /\ s.fn = "mtp_embedding" => Out \notin U
  <2> HIDE DEF U
  <2> QED BY <1>1, NeedsMet
<1>4. /\ Tok \in A <=> s.fn = "embedding"
      /\ Bf16 \in A <=> s.fn = "embedding"
      /\ Out \in A <=> s.fn = "output"
      /\ Source \in A <=> s.fn = "output"
      /\ MtpEmbedding \in A => s.fn = "mtp_embedding"
      /\ Cache \notin A
  <2>1. \A a \in A : /\ a \in {Tok, Bf16} => s.fn = "embedding"
                     /\ a \in {Out, Source} => s.fn = "output"
                     /\ a = MtpEmbedding => s.fn = "mtp_embedding"
                     /\ a = Cache => s.fn = "cache"
    BY <1>1, AttrsTell
  <2>2. s.fn = "embedding" => {Tok, Bf16} \subseteq A
    BY <1>1, SpecialSteps, SpecialAttrs DEF Tok, Bf16
  <2>3. s.fn = "output" => {Out, Source} \subseteq A
    BY <1>1, SpecialSteps, SpecialAttrs DEF Out, Source
  <2> HIDE DEF A, s
  <2> QED BY <2>1, <2>2, <2>3 DEF s
<1>5. \A a \in U : /\ a = Attribute(a.at, a.mod) /\ a.mod # "none"
                   /\ a.mod # "self_attn.diff_gate_proj"
  <2> HIDE DEF U
  <2> QED BY <1>1, LaidTells
<1>6. ASSUME NEW a \in V, NEW m \in Names(a), NEW part \in Parts,
             Name(a.at, m, part) \in asked.tensors
      PROVE  Name(a.at, m, part) \in store'
  <2> DEFINE n == Name(a.at, m, part)
  <2>1. a \in U /\ n \in store /\ a \notin A
    BY <1>1, <1>6 DEF Untouched
  <2>2. n \in Own(a)
    BY DEF Own
  <2>3. \A b \in A : n \notin Own(b)
    <3> SUFFICES ASSUME NEW b \in A PROVE n \notin Own(b)
      OBVIOUS
    <3>1. a # b /\ a \in U /\ b \in U
      BY <1>1, <2>1
    <3>2. /\ a = Attribute(a.at, a.mod) /\ a.mod # "self_attn.diff_gate_proj"
          /\ b = Attribute(b.at, b.mod) /\ b.mod # "self_attn.diff_gate_proj"
      BY <1>5, <3>1
    <3>3. Own(a) \cap Own(b) = {}
      BY ONLY <3>1, <3>2, OwnApart
    <3> QED BY <2>2, <3>3
  <2>4. n # Nothing.of
    <3>1. a.mod # "none"
      BY <1>5, <2>1
    <3>2. Nothing.of \notin Own(a)
      BY ONLY <3>1, OwnNothing
    <3> QED BY ONLY <2>2, <3>2
  <2>5. n \notin names
    BY <2>3, <2>4
  <2> HIDE DEF n
  <2>6. n \in store'
    BY <1>2, <2>1, <2>5
  <2> QED BY <2>6 DEF n
<1>7. \A a : Present(a)' = Present(a)
  BY <1>2 DEF Present, MayLack
<1>8. ASSUME NEW a, NEW v, Sound(a, v), model'[a] = v
      PROVE  Sound(a, model[a])'
  BY <1>2, <1>8 DEF Sound, MadeOnce
<1>9. ASSUME NEW a \in PlanUses(config) \ V
      PROVE  a \in DOMAIN model' /\ Present(a)'
  <2>1. CASE a \in A
    BY <1>2, <1>7, <2>1
  <2>2. CASE a \notin U
    BY <1>1, <1>2, <1>7, <2>2 DEF SetSoFar
  <2> QED BY <2>1, <2>2
<1>10. ASSUME NEW a \in DOMAIN model'
       PROVE  a = Attribute(a.at, a.mod) /\ Sound(a, model[a])'
  <2>1. CASE a \in A
    <3>1. a \in U /\ model'[a] = attributes[a] /\ Sound(a, attributes[a])
      BY <1>1, <1>2, <2>1
    <3>2. Sound(a, model[a])'
      BY <1>8, <3>1
    <3> QED BY <1>5, <3>1, <3>2
  <2>2. CASE a \notin A
    <3>1. a \in DOMAIN model /\ model'[a] = model[a]
      BY <1>2, <2>2
    <3>2. a = Attribute(a.at, a.mod) /\ Sound(a, model[a])
      BY <1>1, <3>1 DEF SetSoFar
    <3>3. Sound(a, model[a])'
      BY <1>8, <3>1, <3>2
    <3> QED BY <3>2, <3>3
  <2> QED BY <2>1, <2>2
<1>11. ASSUME Tok \notin V PROVE EmbeddingMade(model)'
  <2>1. \/ Tok \in A /\ Bf16 \in A /\ EmbeddingMade(attributes)
        \/ Tok \notin A /\ Bf16 \notin A /\ EmbeddingMade(model)
    BY <1>1, <1>4, <1>11 DEF SetSoFar
  <2>2. /\ {Tok, Bf16} \subseteq DOMAIN model'
        /\ model'[Tok] = Int8(Raw(TokName), config.int8Embedding)
        /\ model'[Bf16] = Raw(TokName)
    <3>1. CASE Tok \in A /\ Bf16 \in A /\ EmbeddingMade(attributes)
      BY <1>2, <3>1 DEF EmbeddingMade
    <3>2. CASE Tok \notin A /\ Bf16 \notin A /\ EmbeddingMade(model)
      BY <1>2, <3>2 DEF EmbeddingMade
    <3> QED BY <2>1, <3>1, <3>2
  <2> QED BY <1>2, <2>2 DEF EmbeddingMade
<1>12. ASSUME Out \notin V PROVE HeadMade(model)'
  <2>1. \/ Out \in A /\ Source \in A /\ HeadMade(attributes)
        \/ Out \notin A /\ Source \notin A /\ HeadMade(model)
    BY <1>1, <1>4, <1>12 DEF SetSoFar
  <2>2. /\ {Out, Source} \subseteq DOMAIN model'
        /\ \E n \in {TokName, OutName} : /\ model'[Out] = Int8(Raw(n), config.int8Head)
                                         /\ model'[Source] = Raw(n)
    <3>1. CASE Out \in A /\ Source \in A /\ HeadMade(attributes)
      BY <1>2, <3>1 DEF HeadMade
    <3>2. CASE Out \notin A /\ Source \notin A /\ HeadMade(model)
      BY <1>2, <3>2 DEF HeadMade
    <3> QED BY <2>1, <3>1, <3>2
  <2> QED BY <1>2, <2>2 DEF HeadMade
<1>13. ASSUME MtpEmbedding \in PlanUses(config) \ V
       PROVE  /\ Out \notin V
              /\ model'[MtpEmbedding] = Int8(Raw(model'[Out].of), config.int8Embedding)
  <2>1. Out \notin U /\ Out \in PlanUses(config)
    <3>1. CASE MtpEmbedding \in A
      BY <1>3, <1>4, <3>1, MarksPlanned
    <3>2. CASE MtpEmbedding \notin A
      BY <1>1, <1>13, <3>2, MarksPlanned DEF SetSoFar
    <3> QED BY <3>1, <3>2
  <2>2. Out \notin A /\ Out \in DOMAIN model /\ model'[Out] = model[Out]
    BY <1>1, <1>2, <2>1 DEF SetSoFar
  <2>3. model'[MtpEmbedding] = Int8(Raw(model[Out].of), config.int8Embedding)
    <3>1. CASE MtpEmbedding \in A
      BY <1>2, <1>4, <3>1
    <3>2. CASE MtpEmbedding \notin A
      BY <1>1, <1>2, <1>13, <3>2 DEF SetSoFar
    <3> QED BY <3>1, <3>2
  <2> QED BY <2>1, <2>2, <2>3
<1>14. Pending(plan') = V
  BY <1>1, <1>2
<1>15. Laid(config', plan', V) /\ V \subseteq PlanUses(config') /\ Cache \in V
       /\ store' \subseteq asked'.tensors
  BY <1>1, <1>2, <1>4
<1> HIDE DEF U, A, s
<1>16. SetSoFar(Pending(plan))'
  BY <1>2, <1>9, <1>10, <1>11, <1>12, <1>13, <1>14 DEF SetSoFar
<1>17. Untouched(Pending(plan))'
  BY <1>2, <1>6, <1>14 DEF Untouched
<1>18. Taking'
  BY <1>14, <1>15, <1>16, <1>17 DEF Taking
<1> QED BY <1>1, <1>2, <1>18 DEF LoadInv

\* The other kinds of steps: what they name, and the attributes they set.
LEMMA KindMods ==
  ASSUME NEW c, NEW s \in Steps(c)
  PROVE  /\ s.fn = "norm" => s.mod \in NormMods
         /\ s.fn = "qk_norm" => s.mod \in GainMods
         /\ s.fn \in {"linear", "head_linear"} => s.mod \in LinearMods /\ s.quantized \in BOOLEAN
         /\ s.fn = "head_linear" => s.mod # "self_attn.gate_proj"
         /\ s.fn \in {"norm", "qk_norm", "linear", "head_linear"} =>
              Attrs(s) = {Attribute(s.at, s.mod)}
         /\ s.fn = "experts" => s.quantized = c.expertBit /\ Attrs(s) = At(s.at, ExpertMods)
<1>1. /\ EmbeddingStep(c).fn = "embedding" /\ OutputStep(c).fn = "output"
      /\ MtpStep(c).fn = "mtp_embedding" /\ CacheStep.fn = "cache"
  BY DEF Step, EmbeddingStep, OutputStep, MtpStep, CacheStep
<1>2. /\ s.fn = "norm" => s.mod \in NormMods
      /\ s.fn = "qk_norm" => s.mod \in GainMods
      /\ s.fn \in {"linear", "head_linear"} => s.mod \in LinearMods /\ s.quantized \in BOOLEAN
      /\ s.fn = "head_linear" => s.mod # "self_attn.gate_proj"
      /\ s.fn = "experts" => s.quantized = c.expertBit
  BY <1>1 DEF Steps, HeadMods, LinearMods
<1>3. s.fn \in {"norm", "qk_norm", "linear", "head_linear"} => Attrs(s) = {Attribute(s.at, s.mod)}
  BY DEF Attrs, At, Mods
<1>4. s.fn = "experts" => Attrs(s) = At(s.at, ExpertMods)
  BY DEF Attrs, Mods
<1> QED BY <1>2, <1>3, <1>4

\* A tensor that is not a projection says nothing about one.
LEMMA MadeIsSound ==
  ASSUME NEW a, NEW n, NEW steps
  PROVE  Sound(a, Made(n, steps)) /\ Sound(a, Nothing)
BY DEF Sound, Made, Nothing

\* A norm whose tensor is not there is refused only if it is used.
LEMMA LoadNormKeeps ==
  ASSUME LoadInv, LoadNorm
  PROVE  LoadInv'
<1> DEFINE s == Head(plan)
           a == Attribute(s.at, s.mod)
           name == Name(s.at, s.mod, "weight")
           attributes == [b \in {a} |-> Stored(name, <<"bf16">>)]
<1>1. loading = "tensors" /\ s.fn \in {"norm", "qk_norm"}
  BY DEF LoadNorm, Doing
<1>2. s \in Steps(config) /\ store \subseteq asked.tensors
  BY <1>1, AtStep
<1>3. /\ s.fn = "norm" => s.mod \in NormMods
      /\ s.fn = "qk_norm" => s.mod \in GainMods
      /\ Attrs(s) = {a}
  BY <1>1, <1>2, KindMods
<1>4. a.at = s.at /\ a.mod = s.mod
  BY DEF Attribute
<1>5. s.mod \notin {"cache", "embedding", "cache.yoco", "output", "output_source",
                    "embedding_bf16", "self_attn.gate_proj"}
  BY <1>1, <1>3 DEF NormMods, GainMods
<1>6. Names(a) = {s.mod} /\ a \notin Unused \cup Computed /\ a # Attribute(Top, "output")
  BY <1>4, <1>5 DEF Names, Alias, Unused, Computed, Attribute
<1>7. CASE name \notin store /\ (s.fn = "norm" \/ config.qkRmsGamma)
  <2>1. RefuseLoad /\ UNCHANGED <<asked, config>>
    BY <1>7 DEF LoadNorm
  <2>2. ~MayLack(config, a)
    BY <1>1, <1>3, <1>4, <1>6, <1>7 DEF MayLack, NormMods, GainMods
  <2>3. \A m \in Names(a) : Name(a.at, m, "weight") \notin store
    BY <1>4, <1>6, <1>7
  <2>4. Lacking(config) # {}
    <3> HIDE DEF a, name
    <3> QED BY <1>1, <1>3, <1>6, <2>2, <2>3, MissingIsLacking
  <2> QED BY <2>1, <2>4, RefusalKeeps DEF Refused
<1>8. CASE ~(name \notin store /\ (s.fn = "norm" \/ config.qkRmsGamma))
  <2>1. Set(attributes, {name}) /\ UNCHANGED <<asked, config>>
    BY <1>8 DEF LoadNorm
  <2>2. DOMAIN attributes = Attrs(s) /\ attributes[a] = Stored(name, <<"bf16">>)
    BY <1>3
  <2>3. Present(a)
    <3>1. CASE name \in store
      BY <1>2, <1>4, <1>6, <3>1 DEF Present
    <3>2. CASE name \notin store
      <4>1. MayLack(config, a)
        BY <1>1, <1>3, <1>4, <1>8, <3>2 DEF MayLack, GainMods
      <4> QED BY <4>1 DEF Present
    <3> QED BY <3>1, <3>2
  <2>4. Sound(a, attributes[a])
    BY <2>2, MadeIsSound DEF Stored
  <2>5. {name} \subseteq (UNION {Own(b) : b \in Attrs(s)}) \cup {Nothing.of}
    <3>1. name \in Own(a)
      BY <1>4, <1>6 DEF Own, Parts
    <3> QED BY <1>3, <3>1
  <2>6. \A b \in Attrs(s) : Present(b) /\ Sound(b, attributes[b])
    BY <1>3, <2>3, <2>4
  <2> HIDE DEF attributes, name, a
  <2> QED BY <1>1, <2>1, <2>2, <2>5, <2>6, SetKeeps
<1> QED BY <1>7, <1>8

\* A projection under one of the names of its attribute is sound, and takes
\* nothing but what belongs to the attribute.
LEMMA ProjectionSound ==
  ASSUME NEW a, a.mod \in LinearMods \cup {"mlp.w13", "mlp.w2"}, NEW m \in Names(a),
         NEW quantized, NEW adp8 \in BOOLEAN,
         adp8 \/ config.act # "adp_8bits", config.act # "none",
         store \subseteq asked.tensors,
         \A part \in Parts : Name(a.at, m, part) \in asked.tensors => Name(a.at, m, part) \in store,
         NEW p, p = Projection(a.at, m, quantized, adp8)
                \/ p = [Projection(a.at, m, quantized, adp8) EXCEPT !.bias = Nothing],
         ~Misshapen(p.clip.of)
  PROVE  /\ p.weight.of = Name(a.at, m, "weight") /\ Sound(a, p)
         /\ NamesOf(p) \subseteq Own(a) \cup {Nothing.of}
<1> DEFINE prefix(part) == Name(a.at, m, part)
<1>1. \A n, steps : Made(n, steps).of = n /\ Made(n, steps).steps = steps
  BY DEF Made
<1>2. \A part, steps : /\ Stored(prefix(part), steps).of \in {prefix(part), Nothing.of}
                       /\ prefix(part) \in store => Stored(prefix(part), steps).of = prefix(part)
  BY <1>1 DEF Stored
<1>3. /\ p.weight = Made(prefix("weight"), IF quantized THEN <<"bf16", "ternary">> ELSE <<"bf16">>)
      /\ p.bias \in {Stored(prefix("bias"), <<"bf16">>), Nothing}
      /\ p.clip = IF quantized THEN Stored(prefix("weight_clip_val"), <<"float32">>) ELSE Nothing
      /\ p.scale = IF quantized /\ adp8 THEN Stored(prefix("act_scale"), <<"float32">>) ELSE Nothing
      /\ p.offset = IF quantized /\ adp8 THEN Stored(prefix("act_bias"), <<"float32">>) ELSE Nothing
      /\ p.act = IF ~quantized THEN "none" ELSE IF adp8 THEN "adp_8bits" ELSE config.act
  BY DEF Projection
<1>4. p.weight.of = prefix("weight") /\ p.weight.of.mod = m /\ p.weight.of.at = a.at
  BY <1>1, <1>3 DEF Name
<1>5. NamesOf(p) \subseteq {prefix(part) : part \in Parts} \cup {Nothing.of}
  <2>1. p.weight.of \in {prefix(part) : part \in Parts}
    BY <1>4 DEF Parts
  <2>2. /\ p.bias.of \in {prefix("bias"), Nothing.of}
        /\ p.clip.of \in {prefix("weight_clip_val"), Nothing.of}
        /\ p.scale.of \in {prefix("act_scale"), Nothing.of}
        /\ p.offset.of \in {prefix("act_bias"), Nothing.of}
    BY <1>2, <1>3
  <2> HIDE DEF prefix
  <2> QED BY <2>1, <2>2 DEF NamesOf, Parts
<1>6. /\ p.act # "none" /\ prefix("weight_clip_val") \in asked.tensors =>
           p.clip.of = prefix("weight_clip_val")
      /\ p.act = "adp_8bits" /\ prefix("act_scale") \in asked.tensors =>
           p.scale.of = prefix("act_scale")
  <2>1. /\ prefix("weight_clip_val") \in asked.tensors => prefix("weight_clip_val") \in store
        /\ prefix("act_scale") \in asked.tensors => prefix("act_scale") \in store
    BY DEF Parts
  <2>2. /\ p.act # "none" => quantized
        /\ p.act = "adp_8bits" => quantized /\ adp8
    BY <1>3
  <2> HIDE DEF prefix
  <2> QED BY <1>2, <1>3, <2>1, <2>2
<1>7. p.weight.steps = IF p.act = "none" THEN <<"bf16">> ELSE <<"bf16", "ternary">>
  BY <1>1, <1>3
<1>8. p.clip.of \notin asked.misshapen
  BY DEF Misshapen
<1>9. MadeOnce(a, p)
  BY <1>4, <1>5, <1>6, <1>7, <1>8 DEF MadeOnce, Parts
<1>10. Sound(a, p)
  BY <1>4, <1>9 DEF Sound
<1>11. {prefix(part) : part \in Parts} \subseteq Own(a)
  BY DEF Own
<1> QED BY <1>4, <1>5, <1>10, <1>11

\* What the steps that take a projection or the experts set is used, and not optional.
LEMMA NeededMods ==
  ASSUME NEW c, NEW a, a.mod \in LinearMods \cup ExpertMods
  PROVE  a \notin Unused \cup Computed /\ ~MayLack(c, a)
<1>1. a.mod \notin {"cache", "embedding", "cache.yoco", "output", "output_source",
                    "embedding_bf16", "self_attn.q_norm", "self_attn.k_norm", "k_norm"}
  BY DEF LinearMods, ExpertMods
<1> QED BY <1>1 DEF Unused, Computed, MayLack, Attribute

\* A step that finds its projection under one of the names, and one that does not.
LEMMA TakeProjection ==
  ASSUME LoadInv, loading = "tensors", Head(plan).fn \in {"linear", "head_linear"},
         NEW m \in Names(Attribute(Head(plan).at, Head(plan).mod)), NEW p,
         p = Projection(Head(plan).at, m, Head(plan).quantized, config.act = "adp_8bits"),
         p.weight.of \in store, ~Misshapen(p.clip.of),
         Set([a \in {Attribute(Head(plan).at, Head(plan).mod)} |-> p], NamesOf(p)),
         UNCHANGED <<asked, config>>
  PROVE  LoadInv'
<1> DEFINE s == Head(plan)
           a == Attribute(s.at, s.mod)
           attributes == [b \in {a} |-> p]
<1>1. /\ s \in Steps(config) /\ store \subseteq asked.tensors /\ Untouched(Pending(plan))
      /\ Attrs(s) \subseteq Pending(plan) /\ Typed(config)
  BY AtStep
<1>2. s.mod \in LinearMods /\ s.quantized \in BOOLEAN /\ Attrs(s) = {a}
  BY <1>1, KindMods
<1>3. a.at = s.at /\ a.mod = s.mod
  BY DEF Attribute
<1>4. a \in Pending(plan)
  BY <1>1, <1>2
<1>5. \A part \in Parts : Name(a.at, m, part) \in asked.tensors => Name(a.at, m, part) \in store
  BY <1>1, <1>4 DEF Untouched
<1>6. /\ p.weight.of = Name(a.at, m, "weight") /\ Sound(a, p)
      /\ NamesOf(p) \subseteq Own(a) \cup {Nothing.of}
  <2>1. a.mod \in LinearMods \cup {"mlp.w13", "mlp.w2"} /\ m \in Names(a)
    BY <1>2, <1>3
  <2>2. p = Projection(a.at, m, s.quantized, config.act = "adp_8bits")
    BY <1>3
  <2>3. (config.act = "adp_8bits") \in BOOLEAN
    OBVIOUS
  <2>4. (config.act = "adp_8bits") \/ config.act # "adp_8bits"
    OBVIOUS
  <2>5. config.act # "none"
    BY <1>1 DEF Typed
  <2>6. ~Misshapen(p.clip.of) /\ store \subseteq asked.tensors
    BY <1>1
  <2> DEFINE adp8 == config.act = "adp_8bits"
             quantized == s.quantized
  <2>7. adp8 \in BOOLEAN /\ (adp8 \/ config.act # "adp_8bits")
    BY <2>3, <2>4
  <2>8. \/ p = Projection(a.at, m, quantized, adp8)
        \/ p = [Projection(a.at, m, quantized, adp8) EXCEPT !.bias = Nothing]
    BY <2>2
  <2> HIDE DEF a, adp8, quantized, s
  <2> QED BY ONLY <1>5, <2>1, <2>5, <2>6, <2>7, <2>8, ProjectionSound
<1>7. Present(a)
  BY <1>1, <1>6 DEF Present
<1>8. DOMAIN attributes = Attrs(s) /\ \A b \in Attrs(s) : Present(b) /\ Sound(b, attributes[b])
  BY <1>2, <1>6, <1>7
<1>9. NamesOf(p) \subseteq (UNION {Own(b) : b \in Attrs(s)}) \cup {Nothing.of}
  BY <1>2, <1>6
<1> HIDE DEF attributes, a
<1>10. Set(attributes, NamesOf(p)) /\ s.fn \notin {"cache", "embedding", "output", "mtp_embedding"}
  BY DEF attributes, a
<1> QED BY <1>8, <1>9, <1>10, SetKeeps

LEMMA ProjectionMissing ==
  ASSUME LoadInv, loading = "tensors", Head(plan).fn \in {"linear", "head_linear"},
         \A m \in Names(Attribute(Head(plan).at, Head(plan).mod)) :
           Name(Head(plan).at, m, "weight") \notin store
  PROVE  Refused
<1> DEFINE s == Head(plan)
           a == Attribute(s.at, s.mod)
<1>1. s \in Steps(config)
  BY AtStep
<1>2. s.mod \in LinearMods /\ Attrs(s) = {a}
  BY <1>1, KindMods
<1>3. a.at = s.at /\ a.mod = s.mod
  BY DEF Attribute
<1>4. \A m \in Names(a) : Name(a.at, m, "weight") \notin store
  BY <1>3
<1>5. a.mod \in LinearMods \cup ExpertMods
  BY <1>2, <1>3
<1> HIDE DEF a
<1>6. a \notin Unused \cup Computed /\ ~MayLack(config, a)
  BY <1>5, NeededMods
<1> QED BY <1>2, <1>4, <1>6, MissingIsLacking DEF Refused

LEMMA LoadLinearKeeps ==
  ASSUME LoadInv, LoadLinear
  PROVE  LoadInv'
<1> DEFINE s == Head(plan)
           a == Attribute(s.at, s.mod)
           selected == IF Name(s.at, s.mod, "weight") \in store THEN s.mod ELSE Alias(s.mod)
           p == Projection(s.at, selected, s.quantized, config.act = "adp_8bits")
<1>1. loading = "tensors" /\ s.fn = "linear" /\ UNCHANGED <<asked, config>>
  BY DEF LoadLinear, Doing
<1>2. p.weight.of = Name(s.at, selected, "weight")
  BY DEF Projection, Made
<1>3. Names(a) = {s.mod, Alias(s.mod)} /\ selected \in Names(a)
  BY DEF Names, Attribute
<1> PICK unfit \in MayRaise(IF s.quantized THEN {p.weight.of} ELSE {}) :
      IF \/ p.weight.of \notin store \/ unfit
         \/ Misshapen(p.weight.of) /\ s.mod = "self_attn.gate_proj"
         \/ Misshapen(p.clip.of)
      THEN RefuseLoad
      ELSE Set([b \in {a} |-> p], NamesOf(p))
  BY DEF LoadLinear
<1>4. CASE p.weight.of \notin store
  <2>1. RefuseLoad
    BY <1>4
  <2>2. Name(s.at, s.mod, "weight") \notin store /\ Name(s.at, Alias(s.mod), "weight") \notin store
    BY <1>2, <1>4
  <2>3. Refused
    BY <1>1, <1>3, <2>2, ProjectionMissing
  <2> QED BY <1>1, <2>1, <2>3, RefusalKeeps
<1>5. CASE (Misshapen(p.weight.of) /\ s.mod = "self_attn.gate_proj") \/ Misshapen(p.clip.of)
  <2>1. RefuseLoad
    BY <1>5
  <2>2. Refused
    BY <1>5 DEF Misshapen, Refused
  <2> QED BY <1>1, <2>1, <2>2, RefusalKeeps
<1>6. CASE /\ p.weight.of \in store /\ ~Misshapen(p.clip.of) /\ ~unfit
           /\ ~(Misshapen(p.weight.of) /\ s.mod = "self_attn.gate_proj")
  <2>1. Set([b \in {a} |-> p], NamesOf(p))
    BY <1>6
  <2> HIDE DEF p, selected
  <2>2. p = Projection(s.at, selected, s.quantized, config.act = "adp_8bits")
    BY DEF p
  <2> QED BY <1>1, <1>3, <1>6, <2>1, <2>2, TakeProjection
<1>7. CASE unfit
  <2>1. RefuseLoad /\ Refused
    BY <1>7, RaisesForAShape DEF MayRaise
  <2> QED BY <1>1, <2>1, RefusalKeeps
<1> QED BY <1>4, <1>5, <1>6, <1>7

LEMMA LoadHeadLinearKeeps ==
  ASSUME LoadInv, LoadHeadLinear
  PROVE  LoadInv'
<1> DEFINE s == Head(plan)
           a == Attribute(s.at, s.mod)
           p == Projection(s.at, s.mod, s.quantized, config.act = "adp_8bits")
<1>1. loading = "tensors" /\ s.fn = "head_linear" /\ UNCHANGED <<asked, config>>
  BY DEF LoadHeadLinear, Doing
<1>2. p.weight.of = Name(s.at, s.mod, "weight")
  BY DEF Projection, Made
<1>3. s.mod \in Names(a)
  BY DEF Names, Attribute
<1>4. Names(a) = {s.mod}
  <2>1. s \in Steps(config)
    BY <1>1, AtStep
  <2>2. s.mod # "self_attn.gate_proj"
    BY <1>1, <2>1, KindMods
  <2> QED BY <2>2 DEF Names, Alias, Attribute
<1>5. CASE p.weight.of \notin store
  <2>1. RefuseLoad
    BY <1>5 DEF LoadHeadLinear
  <2>2. Refused
    BY <1>1, <1>2, <1>4, <1>5, ProjectionMissing
  <2> QED BY <1>1, <2>1, <2>2, RefusalKeeps
<1>6. CASE Misshapen(p.weight.of) \/ Misshapen(p.clip.of)
  <2>1. RefuseLoad
    BY <1>6 DEF LoadHeadLinear
  <2>2. Refused
    BY <1>6 DEF Misshapen, Refused
  <2> QED BY <1>1, <2>1, <2>2, RefusalKeeps
<1>7. CASE p.weight.of \in store /\ ~Misshapen(p.weight.of) /\ ~Misshapen(p.clip.of)
  <2>1. Set([b \in {a} |-> p], NamesOf(p))
    BY <1>7 DEF LoadHeadLinear
  <2> HIDE DEF p
  <2>2. p = Projection(s.at, s.mod, s.quantized, config.act = "adp_8bits")
    BY DEF p
  <2> QED BY <1>1, <1>3, <1>7, <2>1, <2>2, TakeProjection
<1> QED BY <1>5, <1>6, <1>7

\* The packed experts of one module: a projection without a bias.
LEMMA PackedSound ==
  ASSUME LoadInv, loading = "tensors", Head(plan).fn = "experts",
         NEW mod \in {"mlp.w13", "mlp.w2"}, NEW p,
         p = [Projection(Head(plan).at, mod, Head(plan).quantized, TRUE) EXCEPT !.bias = Nothing],
         p.weight.of \in store, ~Misshapen(p.clip.of)
  PROVE  LET a == Attribute(Head(plan).at, mod) IN
         /\ Present(a) /\ Sound(a, p) /\ NamesOf(p) \subseteq Own(a) \cup {Nothing.of}
<1> DEFINE s == Head(plan)
           a == Attribute(s.at, mod)
<1>1. /\ s \in Steps(config) /\ store \subseteq asked.tensors /\ Untouched(Pending(plan))
      /\ Attrs(s) \subseteq Pending(plan) /\ Typed(config)
  BY AtStep
<1>2. s.quantized = config.expertBit /\ Attrs(s) = At(s.at, ExpertMods)
  BY <1>1, KindMods
<1>3. a.at = s.at /\ a.mod = mod /\ mod \in Names(a)
  BY DEF Attribute, Names
<1>4. a \in Pending(plan)
  BY <1>1, <1>2 DEF At, ExpertMods
<1>5. \A part \in Parts : Name(a.at, mod, part) \in asked.tensors => Name(a.at, mod, part) \in store
  BY <1>1, <1>3, <1>4 DEF Untouched
<1>6. a.mod \in LinearMods \cup {"mlp.w13", "mlp.w2"} /\ TRUE \in BOOLEAN
  BY <1>3
<1>7. config.act # "none"
  BY <1>1 DEF Typed
<1>8. \/ p = Projection(a.at, mod, s.quantized, TRUE)
      \/ p = [Projection(a.at, mod, s.quantized, TRUE) EXCEPT !.bias = Nothing]
  BY <1>3
<1>9. store \subseteq asked.tensors /\ ~Misshapen(p.clip.of) /\ mod \in Names(a)
  BY <1>1, <1>3
<1>10. /\ p.weight.of = Name(a.at, mod, "weight") /\ Sound(a, p)
       /\ NamesOf(p) \subseteq Own(a) \cup {Nothing.of}
  <2>1. TRUE \/ config.act # "adp_8bits"
    OBVIOUS
  <2> HIDE DEF a
  <2> QED BY ONLY <1>5, <1>6, <1>7, <1>8, <1>9, <2>1, ProjectionSound
<1>11. Present(a)
  BY <1>3, <1>9, <1>10 DEF Present
<1> QED BY <1>10, <1>11

LEMMA LoadExpertsKeeps ==
  ASSUME LoadInv, LoadExperts
  PROVE  LoadInv'
<1> DEFINE s == Head(plan)
           router == Name(s.at, "mlp.gate", "weight")
           packed(mod) == [Projection(s.at, mod, s.quantized, TRUE) EXCEPT !.bias = Nothing]
           w13 == packed("mlp.w13")
           w2 == packed("mlp.w2")
           G == Attribute(s.at, "mlp.gate")
           B == Attribute(s.at, "mlp.w13")
           C == Attribute(s.at, "mlp.w2")
           made == Made(router, <<"float32", "normalised">>)
           attributes == [a \in {Attribute(s.at, m) : m \in {"mlp.gate", "mlp.w13", "mlp.w2"}} |->
                            CASE a.mod = "mlp.gate" -> made
                              [] a.mod = "mlp.w13" -> w13
                              [] OTHER -> w2]
           names == {router} \cup NamesOf(w13) \cup NamesOf(w2)
<1>1. loading = "tensors" /\ s.fn = "experts" /\ UNCHANGED <<asked, config>>
  BY DEF LoadExperts, Doing
<1>2. s \in Steps(config) /\ store \subseteq asked.tensors
  BY <1>1, AtStep
<1>3. Attrs(s) = At(s.at, ExpertMods)
  BY <1>1, <1>2, KindMods
<1>4. Attrs(s) = {G, B, C}
  BY <1>3 DEF At, ExpertMods
<1>5. /\ G.at = s.at /\ G.mod = "mlp.gate" /\ B.at = s.at /\ B.mod = "mlp.w13"
      /\ C.at = s.at /\ C.mod = "mlp.w2"
  BY DEF Attribute
<1>6. w13.weight.of = Name(s.at, "mlp.w13", "weight") /\ w2.weight.of = Name(s.at, "mlp.w2", "weight")
  BY DEF Projection, Made
<1> PICK unfit \in MayRaise({router}) :
      IF \/ {router, w13.weight.of, w2.weight.of} \ store # {} \/ unfit
         \/ \E n \in {w13.weight.of, w2.weight.of, w13.clip.of, w2.clip.of} : Misshapen(n)
      THEN RefuseLoad
      ELSE Set(attributes, names)
  BY DEF LoadExperts
<1>7. CASE {router, w13.weight.of, w2.weight.of} \ store # {}
  <2>1. RefuseLoad
    BY <1>7
  <2>2. PICK a \in {G, B, C} : Name(a.at, a.mod, "weight") \notin store
    BY <1>5, <1>6, <1>7
  <2>3. a \in Attrs(s) /\ a.mod \in ExpertMods
    BY <1>4, <1>5 DEF ExpertMods
  <2>4. \A m \in Names(a) : Name(a.at, m, "weight") \notin store
    BY <2>2, <2>3 DEF Names, Alias, ExpertMods
  <2>5. a \notin Unused \cup Computed /\ ~MayLack(config, a)
    BY <2>3, NeededMods
  <2>6. Refused
    BY <1>1, <2>3, <2>4, <2>5, MissingIsLacking DEF Refused
  <2> QED BY <1>1, <2>1, <2>6, RefusalKeeps
<1>8. CASE \E n \in {w13.weight.of, w2.weight.of, w13.clip.of, w2.clip.of} : Misshapen(n)
  <2>1. RefuseLoad
    BY <1>8
  <2>2. Refused
    BY <1>8 DEF Misshapen, Refused
  <2> QED BY <1>1, <2>1, <2>2, RefusalKeeps
<1>9. CASE /\ {router, w13.weight.of, w2.weight.of} \ store = {} /\ ~unfit
           /\ ~(\E n \in {w13.weight.of, w2.weight.of, w13.clip.of, w2.clip.of} : Misshapen(n))
  <2>1. Set(attributes, names)
    BY <1>9
  <2>2. DOMAIN attributes = Attrs(s)
    BY <1>4
  <2>3. attributes[G] = made /\ attributes[B] = w13 /\ attributes[C] = w2
    BY <1>5
  <2>4. Present(B) /\ Sound(B, w13) /\ NamesOf(w13) \subseteq Own(B) \cup {Nothing.of}
    <3> DEFINE p == w13
    <3>1. /\ p = [Projection(s.at, "mlp.w13", s.quantized, TRUE) EXCEPT !.bias = Nothing]
          /\ p.weight.of \in store /\ ~Misshapen(p.clip.of)
      BY <1>9
    <3> HIDE DEF p
    <3>2. Present(B) /\ Sound(B, p) /\ NamesOf(p) \subseteq Own(B) \cup {Nothing.of}
      BY <1>1, <3>1, PackedSound
    <3> QED BY <3>2 DEF p
  <2>5. Present(C) /\ Sound(C, w2) /\ NamesOf(w2) \subseteq Own(C) \cup {Nothing.of}
    <3> DEFINE p == w2
    <3>1. /\ p = [Projection(s.at, "mlp.w2", s.quantized, TRUE) EXCEPT !.bias = Nothing]
          /\ p.weight.of \in store /\ ~Misshapen(p.clip.of)
      BY <1>9
    <3> HIDE DEF p
    <3>2. Present(C) /\ Sound(C, p) /\ NamesOf(p) \subseteq Own(C) \cup {Nothing.of}
      BY <1>1, <3>1, PackedSound
    <3> QED BY <3>2 DEF p
  <2>6. Present(G) /\ Sound(G, made) /\ router \in Own(G)
    <3>1. "mlp.gate" \in Names(G) /\ router = Name(G.at, "mlp.gate", "weight")
      BY <1>5 DEF Names
    <3>2. router \in asked.tensors
      BY <1>2, <1>9
    <3> QED BY <3>1, <3>2, MadeIsSound DEF Present, Own, Parts
  <2> HIDE DEF attributes, made, w13, w2, G, B, C, router
  <2>7. \A a \in Attrs(s) : Present(a) /\ Sound(a, attributes[a])
    BY <1>4, <2>3, <2>4, <2>5, <2>6
  <2>8. names \subseteq (UNION {Own(a) : a \in Attrs(s)}) \cup {Nothing.of}
    BY <1>4, <2>4, <2>5, <2>6
  <2> HIDE DEF names
  <2> QED BY <1>1, <2>1, <2>2, <2>7, <2>8, SetKeeps
<1>10. CASE unfit
  <2>1. RefuseLoad /\ Refused
    BY <1>10, RaisesForAShape DEF MayRaise
  <2> QED BY <1>1, <2>1, RefusalKeeps
<1> QED BY <1>7, <1>8, <1>9, <1>10

LEMMA LoadEmbeddingKeeps ==
  ASSUME LoadInv, LoadEmbedding
  PROVE  LoadInv'
<1> DEFINE s == Head(plan)
           bf16 == Made(TokName, <<"bf16">>)
           attributes == [a \in {Attribute(Top, m) : m \in {"tok_embeddings", "embedding_bf16"}} |->
                            IF a.mod = "tok_embeddings" THEN Int8(bf16, s.quantized) ELSE bf16]
<1>1. loading = "tensors" /\ s.fn = "embedding" /\ UNCHANGED <<asked, config>>
  BY DEF LoadEmbedding, Doing
<1>2. s \in Steps(config) /\ store \subseteq asked.tensors
  BY <1>1, AtStep
<1>3. s = EmbeddingStep(config) /\ Attrs(s) = {Tok, Bf16}
  BY <1>1, <1>2, SpecialSteps, SpecialAttrs DEF Tok, Bf16
<1>4. s.quantized = config.int8Embedding
  BY <1>3 DEF EmbeddingStep, Step
<1>5. /\ Tok.at = Top /\ Tok.mod = "tok_embeddings" /\ Bf16.at = Top
      /\ Bf16.mod = "embedding_bf16"
  BY DEF Tok, Bf16, Attribute
<1>6. Names(Tok) = {"tok_embeddings"} /\ TokName = Name(Tok.at, "tok_embeddings", "weight")
  BY <1>5 DEF Names, Alias, TokName
<1> PICK unfit \in MayRaise(IF s.quantized THEN {TokName} ELSE {}) :
      IF TokName \notin store \/ NoBlocks(s.quantized, config.embeddingBlock) \/ unfit
      THEN RefuseLoad
      ELSE Set(attributes, {TokName})
  BY DEF LoadEmbedding, TokName
<1>7. CASE TokName \notin store
  <2>1. RefuseLoad
    BY <1>7
  <2>2. Tok \notin Unused \cup Computed /\ ~MayLack(config, Tok)
    BY DEF Unused, Computed, MayLack, Tok, Attribute
  <2>3. Lacking(config) # {}
    BY <1>1, <1>3, <1>6, <1>7, <2>2, MissingIsLacking
  <2> QED BY <1>1, <2>1, <2>3, RefusalKeeps DEF Refused
<1>8. CASE TokName \in store /\ ~NoBlocks(s.quantized, config.embeddingBlock) /\ ~unfit
  <2>1. Set(attributes, {TokName})
    BY <1>8
  <2>2. DOMAIN attributes = Attrs(s)
    BY <1>3 DEF Tok, Bf16
  <2>3. attributes[Tok] = Int8(Raw(TokName), config.int8Embedding) /\ attributes[Bf16] = Raw(TokName)
    BY <1>3, <1>4, <1>5, <2>2 DEF Raw
  <2>4. EmbeddingMade(attributes)
    BY <1>3, <2>2, <2>3 DEF EmbeddingMade
  <2>5. Sound(Tok, attributes[Tok]) /\ Sound(Bf16, attributes[Bf16])
    BY <2>3, MadeIsSound DEF Int8, Raw
  <2>6. Present(Tok) /\ Present(Bf16)
    BY <1>2, <1>6, <1>8 DEF Present, Unused, Bf16
  <2>7. TokName \in Own(Tok)
    BY <1>6 DEF Own, Parts
  <2>8. {TokName} \subseteq (UNION {Own(a) : a \in Attrs(s)}) \cup {Nothing.of}
    BY <1>3, <2>7
  <2>9. \A a \in Attrs(s) : Present(a) /\ Sound(a, attributes[a])
    BY <1>3, <2>5, <2>6
  <2> HIDE DEF attributes
  <2> QED BY <1>1, <2>1, <2>2, <2>4, <2>8, <2>9, SetKeeps
<1>9. CASE unfit \/ NoBlocks(s.quantized, config.embeddingBlock)
  <2>1. RefuseLoad
    BY <1>9
  <2>2. unfit => Refused
    BY RaisesForAShape DEF MayRaise
  <2>3. NoBlocks(s.quantized, config.embeddingBlock) => Refused
    BY <1>4 DEF NoBlocks, BadSizes, Refused
  <2> QED BY <1>1, <1>9, <2>1, <2>2, <2>3, RefusalKeeps
<1> QED BY <1>7, <1>8, <1>9

LEMMA LoadOutputKeeps ==
  ASSUME LoadInv, LoadOutput
  PROVE  LoadInv'
<1> DEFINE s == Head(plan)
           source == IF OutName \in store THEN Made(OutName, <<"bf16">>)
                     ELSE model[Attribute(Top, "embedding_bf16")]
           attributes == [a \in {Attribute(Top, m) : m \in {"output", "output_source"}} |->
                            IF a.mod = "output" THEN Int8(source, s.quantized) ELSE source]
<1>1. loading = "tensors" /\ s.fn = "output" /\ UNCHANGED <<asked, config>>
  BY DEF LoadOutput, Doing
<1>2. /\ s \in Steps(config) /\ store \subseteq asked.tensors /\ SetSoFar(Pending(plan))
      /\ Laid(config, plan, Pending(plan)) /\ plan # <<>>
  BY <1>1, AtStep
<1>3. s = OutputStep(config) /\ Attrs(s) = {Out, Source}
  BY <1>1, <1>2, SpecialSteps, SpecialAttrs DEF Out, Source
<1>4. s.quantized = config.int8Head
  BY <1>3 DEF OutputStep, Step
<1>5. /\ Out.at = Top /\ Out.mod = "output" /\ Source.at = Top
      /\ Source.mod = "output_source"
  BY DEF Out, Source, Attribute
<1>6. Names(Out) = {"output"} /\ OutName = Name(Out.at, "output", "weight")
  BY <1>5 DEF Names, Alias, OutName
<1>7. EmbeddingMade(model)
  <2>1. Tok \notin Pending(plan)
    BY <1>1, <1>2, NeedsMet
  <2> QED BY <1>2, <2>1 DEF SetSoFar
<1> PICK unfit \in MayRaise(IF s.quantized THEN {source.of} ELSE {}) :
      IF \/ OutName \notin store /\ ~config.weightTying
         \/ NoBlocks(s.quantized, config.headBlock) \/ unfit
      THEN RefuseLoad
      ELSE Set(attributes, {OutName})
  BY DEF LoadOutput, OutName
<1>8. CASE OutName \notin store /\ ~config.weightTying
  <2>1. RefuseLoad
    BY <1>8
  <2>2. Out \notin Unused \cup Computed /\ ~MayLack(config, Out)
    BY <1>8 DEF Unused, Computed, MayLack, Out, Attribute
  <2>3. Lacking(config) # {}
    BY <1>1, <1>3, <1>6, <1>8, <2>2, MissingIsLacking
  <2> QED BY <1>1, <2>1, <2>3, RefusalKeeps DEF Refused
<1>9. CASE /\ OutName \in store \/ config.weightTying
           /\ ~NoBlocks(s.quantized, config.headBlock) /\ ~unfit
  <2>1. Set(attributes, {OutName})
    BY <1>9
  <2>2. DOMAIN attributes = Attrs(s)
    BY <1>3 DEF Out, Source
  <2>3. PICK n \in {TokName, OutName} : source = Raw(n)
    BY <1>7 DEF EmbeddingMade, Raw, Bf16
  <2>4. attributes[Out] = Int8(Raw(n), config.int8Head) /\ attributes[Source] = Raw(n)
    <3> HIDE DEF source
    <3> QED BY <1>3, <1>4, <1>5, <2>2, <2>3
  <2>5. HeadMade(attributes)
    BY <1>3, <2>2, <2>4 DEF HeadMade
  <2>6. Sound(Out, attributes[Out]) /\ Sound(Source, attributes[Source])
    BY <2>4, MadeIsSound DEF Int8, Raw
  <2>7. Present(Source)
    BY DEF Present, Unused, Source
  <2>8. Present(Out)
    <3>1. CASE OutName \in store
      BY <1>2, <1>6, <3>1 DEF Present
    <3>2. CASE config.weightTying
      BY <3>2 DEF Present, MayLack, Out
    <3> QED BY <1>9, <3>1, <3>2
  <2>9. OutName \in Own(Out)
    BY <1>6 DEF Own, Parts
  <2>10. {OutName} \subseteq (UNION {Own(a) : a \in Attrs(s)}) \cup {Nothing.of}
    BY <1>3, <2>9
  <2>11. \A a \in Attrs(s) : Present(a) /\ Sound(a, attributes[a])
    BY <1>3, <2>6, <2>7, <2>8
  <2> HIDE DEF attributes
  <2> QED BY <1>1, <2>1, <2>2, <2>5, <2>10, <2>11, SetKeeps
<1>10. CASE unfit \/ NoBlocks(s.quantized, config.headBlock)
  <2>1. RefuseLoad
    BY <1>10
  <2>2. unfit => Refused
    BY RaisesForAShape DEF MayRaise
  <2>3. NoBlocks(s.quantized, config.headBlock) => Refused
    BY <1>4 DEF NoBlocks, BadSizes, Refused
  <2> QED BY <1>1, <1>10, <2>1, <2>2, <2>3, RefusalKeeps
<1> QED BY <1>8, <1>9, <1>10

LEMMA LoadMtpEmbeddingKeeps ==
  ASSUME LoadInv, LoadMtpEmbedding
  PROVE  LoadInv'
<1> DEFINE s == Head(plan)
           attributes == [a \in {Attribute(Mtp, "embedding")} |->
                            Int8(model[Attribute(Top, "output_source")], s.quantized)]
<1>1. loading = "tensors" /\ s.fn = "mtp_embedding" /\ UNCHANGED <<asked, config>>
  BY DEF LoadMtpEmbedding, Doing
<1>2. /\ s \in Steps(config) /\ SetSoFar(Pending(plan))
      /\ Laid(config, plan, Pending(plan)) /\ plan # <<>>
  BY <1>1, AtStep
<1>3. s = MtpStep(config) /\ Attrs(s) = {MtpEmbedding}
  BY <1>1, <1>2, SpecialSteps, SpecialAttrs DEF MtpEmbedding
<1>4. s.quantized = config.int8Embedding
  BY <1>3 DEF MtpStep, Step
<1>5. HeadMade(model)
  <2>1. Out \notin Pending(plan)
    BY <1>1, <1>2, NeedsMet
  <2> QED BY <1>2, <2>1 DEF SetSoFar
<1>6. PICK n \in {TokName, OutName} : model[Out] = Int8(Raw(n), config.int8Head)
                                      /\ model[Source] = Raw(n)
  BY <1>5 DEF HeadMade
<1>7. model[Out].of = n
  BY <1>6 DEF Int8, Raw, Made
<1>8. DOMAIN attributes = Attrs(s) /\ attributes[MtpEmbedding] = Int8(model[Source], s.quantized)
  BY <1>3 DEF MtpEmbedding, Source
<1>9. attributes[MtpEmbedding] = Int8(Raw(model[Out].of), config.int8Embedding)
  BY <1>4, <1>6, <1>7, <1>8
<1>10. Sound(MtpEmbedding, attributes[MtpEmbedding])
  BY <1>9, MadeIsSound DEF Int8
<1>11. Present(MtpEmbedding)
  BY DEF Present, Computed, MtpEmbedding
<1>12. \A a \in Attrs(s) : Present(a) /\ Sound(a, attributes[a])
  BY <1>3, <1>10, <1>11
<1> PICK unfit \in MayRaise(IF s.quantized THEN {model[Attribute(Top, "output_source")].of} ELSE {}) :
      IF NoBlocks(s.quantized, config.embeddingBlock) \/ unfit
      THEN RefuseLoad
      ELSE Set(attributes, {})
  BY DEF LoadMtpEmbedding
<1> HIDE DEF attributes
<1>13. CASE Set(attributes, {})
  <2>1. {} \subseteq (UNION {Own(a) : a \in Attrs(s)}) \cup {Nothing.of}
    OBVIOUS
  <2> QED BY <1>1, <1>8, <1>9, <1>12, <1>13, <2>1, SetKeeps
<1>14. CASE unfit \/ NoBlocks(s.quantized, config.embeddingBlock)
  <2>1. RefuseLoad
    BY <1>14
  <2>2. unfit => Refused
    BY RaisesForAShape DEF MayRaise
  <2>3. NoBlocks(s.quantized, config.embeddingBlock) => Refused
    BY <1>4 DEF NoBlocks, BadSizes, Refused
  <2> QED BY <1>1, <1>14, <2>1, <2>2, <2>3, RefusalKeeps
<1> QED BY <1>13, <1>14

LEMMA FinishKeeps ==
  ASSUME LoadInv, Finish
  PROVE  LoadInv'
<1>1. loading = "tensors" /\ Head(plan).fn = "cache" /\ asked' = asked /\ config' = config
  BY DEF Finish, Doing
<1>2. CASE HasCache(config) /\ config.maxSeqLen < 0
  <2>1. RefuseLoad /\ Refused
    BY <1>2 DEF Finish, BadSizes, Refused
  <2> QED BY <1>1, <2>1, RefusalKeeps
<1>3. CASE ~(HasCache(config) /\ config.maxSeqLen < 0)
  <2>1. loading' = "loaded" /\ UNCHANGED <<asked, config>> /\ loading = "tensors" /\ Head(plan).fn = "cache"
    BY <1>1, <1>3 DEF Finish
  <2>2. /\ SetSoFar(Pending(plan)) /\ Laid(config, plan, Pending(plan)) /\ plan # <<>>
        /\ Valid(config) /\ Typed(config)
    BY <2>1, AtStep
  <2>3. Pending(plan) = {Cache}
    BY <2>1, <2>2, NeedsMet
  <2>4. /\ DOMAIN model' = DOMAIN model \cup (IF config.crossLayers > 0 THEN {Yoco} ELSE {})
        /\ \A a \in DOMAIN model : model'[a] = model[a]
        /\ \A a \in DOMAIN model' \ DOMAIN model : model'[a] = Nothing
    BY <1>3 DEF Finish, Yoco
  <2>5. \A a : Present(a)' = Present(a)
    BY <2>1 DEF Present, MayLack
  <2>6. ASSUME NEW a, NEW v, Sound(a, v), model'[a] = v
        PROVE  Sound(a, model[a])'
    BY <2>1, <2>6 DEF Sound, MadeOnce
  <2>7. SetSoFar({Cache})
    BY <2>2, <2>3
  <2>8. ASSUME NEW a \in PlanUses(config) \ {Cache}
        PROVE  a \in DOMAIN model' /\ Present(a)'
    BY <2>4, <2>5, <2>7 DEF SetSoFar
  <2>9. ASSUME NEW a \in DOMAIN model'
        PROVE  a = Attribute(a.at, a.mod) /\ Sound(a, model[a])'
    <3>1. CASE a \in DOMAIN model
      BY <2>4, <2>6, <2>7, <3>1 DEF SetSoFar
    <3>2. CASE a \notin DOMAIN model
      <4>1. a = Yoco /\ model'[a] = Nothing
        BY <2>4, <3>2
      <4>2. Sound(a, model[a])'
        BY <2>6, <4>1, MadeIsSound
      <4> QED BY <4>1, <4>2 DEF Yoco, Attribute
    <3> QED BY <3>1, <3>2
  <2>10. Tok # Cache /\ Out # Cache
    BY DEF Tok, Out, Cache, Attribute
  <2>11. EmbeddingMade(model)'
    <3>1. EmbeddingMade(model)
      BY <2>7, <2>10 DEF SetSoFar
    <3> QED BY <2>1, <2>4, <3>1 DEF EmbeddingMade
  <2>12. HeadMade(model)'
    <3>1. HeadMade(model)
      BY <2>7, <2>10 DEF SetSoFar
    <3> QED BY <2>1, <2>4, <3>1 DEF HeadMade
  <2>13. ASSUME MtpEmbedding \in PlanUses(config) \ {Cache}
         PROVE  model'[MtpEmbedding] = Int8(Raw(model'[Out].of), config.int8Embedding)
    <3>1. /\ MtpEmbedding \in DOMAIN model /\ Out \in DOMAIN model
          /\ model[MtpEmbedding] = Int8(Raw(model[Out].of), config.int8Embedding)
      BY <2>7, <2>10, <2>13 DEF SetSoFar, HeadMade
    <3> QED BY <2>4, <3>1
  <2>14. SetSoFar({Cache})'
    BY <2>1, <2>8, <2>9, <2>10, <2>11, <2>12, <2>13 DEF SetSoFar
  <2> QED BY <2>1, <2>2, <2>4, <2>14 DEF LoadInv
<1> QED BY <1>2, <1>3

\* The invariant of a load, and what it says at its end.
LEMMA LoadInvNext ==
  ASSUME LoadInv, [LoadNext]_loadVars
  PROVE  LoadInv'
<1>1. CASE UNCHANGED loadVars
  <2>1. /\ loading' = loading /\ asked' = asked /\ config' = config /\ plan' = plan
        /\ store' = store /\ model' = model
    BY <1>1 DEF loadVars
  <2>2. \A a, v : Sound(a, v)' = Sound(a, v')
    BY <2>1 DEF Sound, MadeOnce
  <2> QED BY <2>1 DEF LoadInv, Taking, Untouched, SetSoFar, Present, Sound, MadeOnce, Refused,
                      Lacking, EmbeddingMade, HeadMade
<1>2. CASE LoadNext
  <2>1. \/ LoadArgs \/ LoadState \/ LoadEmbedding \/ LoadNorm \/ LoadLinear \/ LoadHeadLinear
        \/ LoadExperts \/ LoadOutput \/ LoadMtpEmbedding \/ Finish
    BY <1>2 DEF LoadNext
  <2> QED BY <2>1, LoadArgsKeeps, LoadStateKeeps, LoadEmbeddingKeeps, LoadNormKeeps,
             LoadLinearKeeps, LoadHeadLinearKeeps, LoadExpertsKeeps, LoadOutputKeeps,
             LoadMtpEmbeddingKeeps, FinishKeeps
<1> QED BY <1>1, <1>2

LEMMA LoadInvAlways == LoadSpec => []LoadInv
<1>1. LoadInit => LoadInv
  BY LoadInvInit
<1>2. LoadInv /\ [LoadNext]_loadVars => LoadInv'
  BY LoadInvNext
<1> QED BY <1>1, <1>2, PTL DEF LoadSpec

LEMMA CompleteOnce ==
  ASSUME LoadInv
  PROVE  LoadedIsComplete
<1>1. ASSUME loading = "loaded"
      PROVE  Uses(config) \subseteq DOMAIN model /\ Lacking(config) = {}
  <2>1. /\ Valid(config) /\ Typed(config) /\ SetSoFar({Cache})
        /\ config.crossLayers > 0 => Yoco \in DOMAIN model
    BY <1>1 DEF LoadInv
  <2>2. /\ Uses(config) \subseteq PlanUses(config) \cup {Yoco}
        /\ Yoco \in Uses(config) => config.crossLayers > 0
        /\ Uses(config) \cap Unused = {}
    BY <2>1, ValidLayers, UsesArePlanned
  <2>3. \A a \in Uses(config) \ {Yoco} : a \in PlanUses(config) \ {Cache}
    BY <2>2 DEF Unused, Cache
  <2>4. \A a \in Uses(config) \ {Yoco} : a \in DOMAIN model /\ Present(a)
    BY <2>1, <2>3 DEF SetSoFar
  <2>5. Uses(config) \subseteq DOMAIN model
    BY <2>1, <2>2, <2>4
  <2>6. ASSUME NEW a \in Lacking(config) PROVE FALSE
    <3>1. /\ a \in Uses(config) \ Computed /\ ~MayLack(config, a)
          /\ \A m \in {a.mod, Alias(a.mod)} : Name(a.at, m, "weight") \notin asked.tensors
      BY DEF Lacking
    <3>2. a # Yoco
      BY <3>1 DEF Computed, Yoco
    <3>3. Present(a) /\ a \notin Unused
      BY <2>2, <2>4, <3>1, <3>2
    <3> QED BY <3>1, <3>3 DEF Present, Names
  <2> QED BY <2>5, <2>6
<1>2. ASSUME loading = "refused"
      PROVE  Refused
  BY <1>2 DEF LoadInv
<1> QED BY <1>1, <1>2 DEF LoadedIsComplete, Refused

LEMMA SoundOnce ==
  ASSUME LoadInv, loading = "loaded"
  PROVE  ProvenanceSound
<1>1. SetSoFar({Cache})
  BY DEF LoadInv
<1>2. Tok # Cache /\ Out # Cache /\ MtpEmbedding # Cache
  BY DEF Tok, Out, Cache, MtpEmbedding, Attribute
<1>3. EmbeddingMade(model) /\ HeadMade(model)
  BY <1>1, <1>2 DEF SetSoFar
<1>4. \A a \in Projections : a = Attribute(a.at, a.mod) /\ Sound(a, model[a])
                             /\ "weight" \in DOMAIN model[a]
  BY <1>1 DEF SetSoFar, Projections
<1>5. \A a \in Projections : /\ a.mod # "self_attn.diff_gate_proj" /\ MadeOnce(a, model[a])
                             /\ model[a].weight.of \in Own(a)
  <2> TAKE a \in Projections
  <2> DEFINE v == model[a]
  <2>1. Sound(a, v) /\ "weight" \in DOMAIN v
    BY <1>4
  <2> HIDE DEF v
  <2>2. /\ a.mod \in LinearMods \cup {"mlp.w13", "mlp.w2"} /\ MadeOnce(a, v)
        /\ \E m \in Names(a) : v.weight.of = Name(a.at, m, "weight")
    BY <2>1 DEF Sound
  <2>3. a.mod # "self_attn.diff_gate_proj" /\ v.weight.of \in Own(a)
    BY <2>2 DEF LinearMods, Own, Parts
  <2> QED BY <2>2, <2>3 DEF v
<1>6. \A a, b \in Projections : a # b => model[a].weight.of # model[b].weight.of
  <2> TAKE a, b \in Projections
  <2> HAVE a # b
  <2>1. /\ a = Attribute(a.at, a.mod) /\ a.mod # "self_attn.diff_gate_proj"
        /\ b = Attribute(b.at, b.mod) /\ b.mod # "self_attn.diff_gate_proj" /\ a # b
    BY <1>4, <1>5
  <2>2. Own(a) \cap Own(b) = {}
    BY ONLY <2>1, OwnApart
  <2> QED BY <1>5, <2>2
<1> DEFINE bf16(int8) == <<"bf16">> \o IF int8 THEN <<"int8">> ELSE <<>>
<1>7. \A n, wanted : Int8(Raw(n), wanted) = Made(n, bf16(wanted))
  <2>1. Append(<<"bf16">>, "int8") = <<"bf16">> \o <<"int8">>
    BY AppendIsConcat
  <2>2. <<"bf16">> \o <<>> = <<"bf16">>
    OBVIOUS
  <2> QED BY <2>1, <2>2 DEF Int8, Raw, Made
<1> HIDE DEF bf16
<1>8. \A n, steps : Made(n, steps).of = n /\ Made(n, steps).steps = steps
  BY DEF Made
<1>9. model[Tok].steps = bf16(config.int8Embedding) /\ model[Tok].of = TokName
  BY <1>3, <1>7, <1>8 DEF EmbeddingMade
<1>10. /\ model[Out].steps = bf16(config.int8Head)
       /\ model[Out].of \in {OutName, model[Tok].of}
  BY <1>3, <1>7, <1>8, <1>9 DEF HeadMade
<1>11. config.mtpN > 0 =>
         model[MtpEmbedding] = Made(model[Out].of, bf16(config.int8Embedding))
  <2> HAVE config.mtpN > 0
  <2>1. MtpEmbedding \in PlanUses(config)
    BY DEF PlanUses, MtpUse, At, MtpEmbedding
  <2> QED BY <1>1, <1>2, <1>7, <2>1 DEF SetSoFar
<1>12. OutName = Name(Top, "output", "weight")
  BY DEF OutName
<1> QED BY <1>5, <1>6, <1>9, <1>10, <1>11, <1>12
        DEF ProvenanceSound, bf16, Tok, Out, MtpEmbedding

\* A load that succeeds has made, out of the checkpoint, everything the calls
\* dereference, whatever the configuration, the overrides and the tensors are;
\* _TensorStore.take, the shape checks and the sizes of blocks and cache refuse
\* nothing that could be loaded.
THEOREM LoadsWhole == LoadSpec => []LoadedIsComplete
BY LoadInvAlways, CompleteOnce, PTL

\* Whatever the order of store.take, take_any and the quantisers comes to, every
\* projection of a loaded model is made of its own tensors and quantised once,
\* and the head and the MTP embedding are made from stored values.
THEOREM LoadsSoundly == LoadSpec => []ProvenanceSound
<1>1. LoadInv => ProvenanceSound
  BY SoundOnce DEF ProvenanceSound
<1> QED BY <1>1, LoadInvAlways, PTL

-----------------------------------------------------------------------------
(* The two together: calls of a model that has been loaded before.         *)

\* Once the model serves, nothing of the load is left to be said.
ServiceInv ==
  /\ IInv
  /\ loading # "serving" => LoadInv

\* No step of a load is left to take once the model serves.
LEMMA LoadsBeforeServing == LoadNext => loading # "serving"
BY DEF LoadNext, LoadArgs, LoadState, LoadEmbedding, LoadNorm, LoadLinear, LoadHeadLinear,
       LoadExperts, LoadOutput, LoadMtpEmbedding, Finish, Doing

LEMMA ServiceKeeps ==
  ASSUME ServiceInv, [ServiceNext]_<<loadVars, vars>>
  PROVE  ServiceInv'
<1>1. CASE LoadNext /\ UNCHANGED vars
  <2>1. IInv'
    BY <1>1, Stutter DEF ServiceInv
  <2>2. LoadInv'
    BY <1>1, LoadsBeforeServing, LoadInvNext DEF ServiceInv
  <2> QED BY <2>1, <2>2 DEF ServiceInv
<1>2. CASE Serve /\ UNCHANGED vars
  <2>1. IInv' /\ loading' = "serving"
    BY <1>2, Stutter DEF ServiceInv, Serve
  <2> QED BY <2>1 DEF ServiceInv
<1>3. CASE loading = "serving" /\ Next /\ UNCHANGED loadVars
  <2>1. IInv' /\ loading' = "serving"
    BY <1>3, NextKeeps DEF ServiceInv, loadVars
  <2> QED BY <2>1 DEF ServiceInv
<1>4. CASE UNCHANGED <<loadVars, vars>>
  <2>1. IInv' /\ loading' = loading
    BY <1>4, Stutter DEF ServiceInv, loadVars
  <2>2. loading # "serving" => LoadInv'
    BY <1>4, LoadInvNext DEF ServiceInv
  <2> QED BY <2>1, <2>2 DEF ServiceInv
<1> QED BY <1>1, <1>2, <1>3, <1>4 DEF ServiceNext

\* main: a model is loaded whole and of its own tensors or not at all, and only
\* then serves; its cache, its logits and what it generates are then those of
\* the text, whatever is refused or raises, before and after.
THEOREM ServiceIsSound ==
  ServiceSpec => [](/\ LoadedIsComplete /\ ProvenanceSound
                    /\ TypeOK /\ CacheHoldsHistory /\ LogitsSeeHistory /\ GenerateFaithful)
<1>1. ServiceInit => ServiceInv
  BY InitHolds, LoadInvInit DEF ServiceInit, ServiceInv
<1>2. ServiceInv => LoadedIsComplete /\ ProvenanceSound
  <2> SUFFICES ASSUME ServiceInv PROVE LoadedIsComplete /\ ProvenanceSound
    OBVIOUS
  <2>1. CASE loading = "serving"
    BY <2>1 DEF LoadedIsComplete, ProvenanceSound
  <2>2. CASE loading # "serving"
    <3>1. LoadInv
      BY <2>2 DEF ServiceInv
    <3> QED BY <3>1, CompleteOnce, SoundOnce DEF ProvenanceSound
  <2> QED BY <2>1, <2>2
<1>3. ServiceInv => TypeOK /\ CacheHoldsHistory /\ LogitsSeeHistory /\ GenerateFaithful
  BY Promised DEF ServiceInv
<1> QED BY <1>1, <1>2, <1>3, ServiceKeeps, PTL DEF ServiceSpec
=============================================================================
