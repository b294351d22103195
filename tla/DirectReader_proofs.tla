-------------------------- MODULE DirectReader_proofs --------------------------
(***************************************************************************)
(* DirectReader for any block, request and queue size, any file and any    *)
(* number of changes to its length: every byte handed over is the one the  *)
(* file held there, the buffer outlives the reads into it, and every       *)
(* request is an aligned read inside the buffer.                           *)
(***************************************************************************)
EXTENDS DirectReader, SequenceTheorems, FiniteSetTheorems, TLAPS

\* How many requests a batch takes.
Count(b) == (b + Chunk - 1) \div Chunk

\* Unit o of the buffer holds what the file held at offset `at'.
Holds(o, at) ==
  o \in DOMAIN buffer /\ (buffer[o] = at \/ (buffer[o] = Zero /\ at \in zeroed))

\* The reader's counters and the types of the rest.
Bounds ==
  /\ pc \in {"copy", "submit", "reap", "accepted", "drain", "closed", "abandoned"}
  /\ fsize \in 1 .. MaxFile /\ size \in Nat /\ zeroed \subseteq Nat
  /\ next \in 0 .. fsize /\ available \in 0 .. next /\ cursor \in 0 .. available
  /\ available <= Capacity
  /\ bytes \in Nat /\ submitted \in Nat /\ pending \in Int
  /\ buffer \in [0 .. Capacity - 1 -> Int]
  /\ \A i \in DOMAIN cq : cq[i] \in Int

\* Only the last batch ends off a block.
OnBlock == next # fsize => \E k \in Nat : next = k * Align

\* What is known of a batch while it is read.
Batch ==
  pc \in {"submit", "reap"} =>
    /\ next < fsize /\ bytes = Lesser(Capacity, fsize - next) /\ cursor = available
    /\ submitted <= Count(bytes)
    /\ pc = "reap" => submitted = Count(bytes)

\* pending_ counts the reads under way and those completed, and there is none
\* when the reader copies or is gone.
Exact ==
  /\ pending = Cardinality(inflight) + Cardinality(DOMAIN cq)
  /\ pc = "closed" => inflight = {}
  /\ pc = "copy" => inflight = {} /\ cq = <<>>

\* A request is with the kernel, completed or seen, and never two of them.
Ring ==
  /\ inflight \subseteq 0 .. submitted - 1 /\ DOMAIN cq \subseteq 0 .. submitted - 1
  /\ inflight \cap DOMAIN cq = {}
  /\ Exact

\* What a completed request says it has read is in place, and a request that
\* was seen has read all it was for.
Filled ==
  pc \in {"submit", "reap"} =>
    /\ \A i \in DOMAIN cq : \A o \in i * Chunk .. i * Chunk + cq[i] - 1 :
         Holds(o, next + o)
    /\ \A i \in (0 .. submitted - 1) \ (inflight \cup DOMAIN cq) :
         \A o \in i * Chunk .. i * Chunk + Expected(bytes, i) - 1 : Holds(o, next + o)

\* A batch that is copied from is in place as a whole.
Ready == pc = "copy" => \A o \in 0 .. available - 1 : Holds(o, next - available + o)

\* What was handed over is the file up to where the cursor stands.
Delivered ==
  /\ out \in Seq(Int) /\ Len(out) = next - available + cursor
  /\ DeliveredInPlace
  /\ pc = "accepted" => next = fsize /\ cursor = available

IInv == Bounds /\ OnBlock /\ Batch /\ Ring /\ Filled /\ Ready /\ Delivered

-----------------------------------------------------------------------------
(* Arithmetic of blocks and requests. *)

LEMMA DivBounds ==
  \A a \in Nat, n \in Nat \ {0} :
    a \div n \in Nat /\ (a \div n) * n <= a /\ a < (a \div n) * n + n
  OBVIOUS

\* A multiple of the block leaves no remainder.
LEMMA MultipleMod ==
  \A k \in Nat, n \in Nat \ {0} : (k * n) % n = 0
  OBVIOUS

LEMMA ModMultiple ==
  \A a \in Nat, n \in Nat \ {0} : a % n = 0 => \E k \in Nat : a = k * n
<1> TAKE a \in Nat, n \in Nat \ {0}
<1>1. (a \div n) * n + (a % n) = a /\ a \div n \in Nat
  OBVIOUS
<1> QED BY <1>1

\* Of two multiples of n, one less than n below the other is below or equal.
LEMMA MultipleGap ==
  \A a, b \in Int, n \in Nat \ {0} : a * n < b * n + n => a <= b
  OBVIOUS

LEMMA MultipleLess ==
  \A a, b \in Int, n \in Nat \ {0} : a * n < b * n => a < b
  OBVIOUS

\* Aligned rounds up to the next block and never beyond a block that holds n.
LEMMA AlignedFacts ==
  ASSUME NEW n \in Nat
  PROVE  /\ Aligned(n) \in Nat /\ n <= Aligned(n)
         /\ \E k \in Nat : Aligned(n) = k * Align
         /\ \A m \in Int : n <= m * Align => Aligned(n) <= m * Align
<1>1. Align \in Nat \ {0}
  BY DirectReaderAssumption
<1> DEFINE q == (n + Align - 1) \div Align
<1>2. /\ q \in Nat /\ q * Align <= n + Align - 1 /\ n + Align - 1 < q * Align + Align
      /\ Aligned(n) = q * Align
  BY <1>1, DivBounds DEF Aligned
<1> HIDE DEF q
<1>3. q * Align \in Nat
  BY <1>1, <1>2
<1>4. ASSUME NEW m \in Int, n <= m * Align
      PROVE  q * Align <= m * Align
  <2>1. m * Align \in Int /\ q * Align < m * Align + Align
    BY <1>1, <1>2, <1>3, <1>4
  <2>2. q <= m
    BY <1>1, <1>2, <2>1, MultipleGap
  <2>3. \A a, b \in Int, c \in Nat : a <= b => a * c <= b * c
    OBVIOUS
  <2> QED BY <1>1, <1>2, <2>2, <2>3
<1> QED BY <1>1, <1>2, <1>3, <1>4

\* The buffer is whole blocks, and no larger than the requests of a batch unless
\* the file is smaller.
LEMMA CapacityFacts ==
  ASSUME fsize \in Nat \ {0}
  PROVE  /\ Capacity \in Nat \ {0} /\ \E k \in Nat : Capacity = k * Align
         /\ Lesser(Capacity, fsize) <= Chunk * Depth
<1>1. /\ Align \in Nat \ {0} /\ Chunk \in Nat \ {0} /\ Depth \in Nat \ {0}
      /\ Chunk * Depth \in Nat \ {0}
  BY DirectReaderAssumption
<1>2. PICK c \in Nat : Chunk = c * Align
  BY <1>1, ModMultiple, DirectReaderAssumption
<1>3. Chunk * Depth = (c * Depth) * Align /\ c * Depth \in Int
  BY <1>1, <1>2
<1>4. Lesser(fsize, Chunk * Depth) \in Nat \ {0}
  BY <1>1 DEF Lesser
<1>5. /\ Capacity \in Nat \ {0} /\ \E k \in Nat : Capacity = k * Align
  BY <1>4, AlignedFacts DEF Capacity
<1>6. CASE fsize <= Chunk * Depth
  BY <1>1, <1>5, <1>6 DEF Lesser
<1>7. CASE ~(fsize <= Chunk * Depth)
  <2>1. Lesser(fsize, Chunk * Depth) = Chunk * Depth
    BY <1>1, <1>7 DEF Lesser
  <2>2. Chunk * Depth \in Nat /\ Chunk * Depth <= (c * Depth) * Align
    BY <1>1, <1>3
  <2>3. Aligned(Chunk * Depth) <= (c * Depth) * Align
    BY <1>3, <2>2, AlignedFacts
  <2>4. Capacity <= Chunk * Depth
    BY <1>3, <2>1, <2>3 DEF Capacity
  <2> QED BY <1>1, <1>5, <2>4 DEF Lesser
<1> QED BY <1>5, <1>6, <1>7

\* The requests of a batch of b units cover it, each a part of it.
LEMMA CountFacts ==
  ASSUME NEW b \in Nat \ {0}
  PROVE  /\ Count(b) \in Nat \ {0} /\ Requests(b) = 0 .. Count(b) - 1
         /\ Cardinality(Requests(b)) = Count(b)
         /\ \A i \in Requests(b) : i * Chunk < b /\ Expected(b, i) \in Nat \ {0}
         /\ \A o \in 0 .. b - 1 : \E i \in Requests(b) :
              o \in i * Chunk .. i * Chunk + Expected(b, i) - 1
         /\ b <= Chunk * Depth => Count(b) <= Depth
<1>1. Chunk \in Nat \ {0} /\ Depth \in Nat \ {0}
  BY DirectReaderAssumption
<1>2. /\ Count(b) \in Nat /\ Count(b) * Chunk <= b + Chunk - 1
      /\ b + Chunk - 1 < Count(b) * Chunk + Chunk /\ Count(b) * Chunk \in Nat
  BY <1>1, DivBounds DEF Count
<1>3. Count(b) # 0
  BY <1>1, <1>2
<1>4. Requests(b) = 0 .. Count(b) - 1
  BY DEF Requests, Count
<1>5. Cardinality(Requests(b)) = Count(b)
  BY <1>2, <1>3, <1>4, FS_Interval
<1>6. ASSUME NEW i \in Requests(b)
      PROVE  i * Chunk < b /\ i * Chunk \in Nat /\ Expected(b, i) \in Nat \ {0}
  <2>1. i \in Nat /\ i + 1 <= Count(b)
    BY <1>2, <1>4
  <2>2. \A x, y \in Nat : x + 1 <= y => x * Chunk + Chunk <= y * Chunk
    BY <1>1
  <2>3. i * Chunk + Chunk <= Count(b) * Chunk /\ i * Chunk \in Nat
    BY <1>1, <1>2, <2>1, <2>2
  <2>4. i * Chunk < b
    BY <1>1, <1>2, <2>3
  <2> QED BY <1>1, <2>3, <2>4 DEF Expected, Lesser
<1>7. ASSUME NEW o \in 0 .. b - 1
      PROVE  \E i \in Requests(b) : o \in i * Chunk .. i * Chunk + Expected(b, i) - 1
  <2> DEFINE i == o \div Chunk
  <2>1. o \in Nat /\ i \in Nat /\ i * Chunk <= o /\ o < i * Chunk + Chunk /\ i * Chunk \in Nat
    BY <1>1, DivBounds
  <2> HIDE DEF i
  <2>2. i * Chunk < Count(b) * Chunk
    BY <1>1, <1>2, <2>1
  <2>3. i \in Requests(b)
    BY <1>1, <1>2, <1>4, <2>1, <2>2, MultipleLess
  <2>4. o <= i * Chunk + Expected(b, i) - 1
    BY <1>1, <2>1 DEF Expected, Lesser
  <2>5. i * Chunk + Expected(b, i) - 1 \in Int
    BY <1>6, <2>3
  <2> QED BY <2>1, <2>3, <2>4, <2>5
<1>8. b <= Chunk * Depth => Count(b) <= Depth
  <2>1. Chunk * Depth = Depth * Chunk /\ Depth * Chunk \in Nat
    BY <1>1
  <2>2. b <= Chunk * Depth => Count(b) * Chunk < Depth * Chunk + Chunk
    BY <1>1, <1>2, <2>1
  <2> QED BY <1>1, <1>2, <2>2, MultipleGap
<1> QED BY <1>2, <1>3, <1>4, <1>5, <1>6, <1>7, <1>8

-----------------------------------------------------------------------------
(* The requests of a batch fit the ring and the buffer. *)

\* What is left of the file is a batch of at least one unit.
LEMMA BatchFacts ==
  ASSUME Bounds, next < fsize
  PROVE  /\ Lesser(Capacity, fsize - next) \in Nat \ {0}
         /\ Lesser(Capacity, fsize - next) <= Capacity
         /\ Lesser(Capacity, fsize - next) <= fsize - next
         /\ Lesser(Capacity, fsize - next) <= Chunk * Depth
<1>1. fsize \in Nat \ {0} /\ next \in Nat /\ Capacity \in Nat \ {0}
      /\ Lesser(Capacity, fsize) <= Chunk * Depth
  BY CapacityFacts DEF Bounds
<1>2. Chunk * Depth \in Nat
  BY DirectReaderAssumption
<1> HIDE DEF Capacity
<1> QED BY <1>1, <1>2 DEF Lesser, Bounds

LEMMA BatchFits ==
  ASSUME Bounds, OnBlock, Batch
  PROVE  RequestsFit
<1> SUFFICES ASSUME pc \in {"submit", "reap"}
             PROVE  /\ Cardinality(Requests(bytes)) \in 1 .. Depth
                    /\ next % Align = 0
                    /\ \A i \in Requests(bytes) :
                         /\ Expected(bytes, i) > 0
                         /\ i * Chunk + Aligned(Expected(bytes, i)) <= Capacity
  BY DEF RequestsFit
<1>1. /\ next < fsize /\ bytes = Lesser(Capacity, fsize - next) /\ fsize \in Nat \ {0}
      /\ next \in Nat
  BY DEF Batch, Bounds
<1>2. bytes \in Nat \ {0} /\ bytes <= Capacity /\ bytes <= Chunk * Depth
  BY <1>1, BatchFacts
<1>3. /\ Align \in Nat \ {0} /\ Chunk \in Nat \ {0} /\ Depth \in Nat \ {0}
  BY DirectReaderAssumption
<1>4. Cardinality(Requests(bytes)) \in 1 .. Depth
  BY <1>2, <1>3, CountFacts
<1>5. next % Align = 0
  <2>1. PICK k \in Nat : next = k * Align
    BY <1>1 DEF OnBlock
  <2> QED BY <1>3, <2>1, MultipleMod
<1>6. PICK c \in Nat : Chunk = c * Align
  BY <1>3, ModMultiple, DirectReaderAssumption
<1>7. PICK k \in Nat : Capacity = k * Align
  BY <1>1, CapacityFacts
<1>8. ASSUME NEW i \in Requests(bytes)
      PROVE  Expected(bytes, i) > 0 /\ i * Chunk + Aligned(Expected(bytes, i)) <= Capacity
  <2>1. i \in Nat /\ i * Chunk < bytes /\ Expected(bytes, i) \in Nat \ {0}
    <3>1. /\ Count(bytes) \in Nat /\ Requests(bytes) = 0 .. Count(bytes) - 1
          /\ \A j \in Requests(bytes) : j * Chunk < bytes /\ Expected(bytes, j) \in Nat \ {0}
      BY <1>2, CountFacts
    <3>2. i \in Nat
      BY ONLY <1>8, <3>1
    <3> QED BY <3>1, <3>2
  <2>2. i * Chunk \in Nat /\ i * Chunk = (i * c) * Align /\ i * c \in Nat
    BY <1>3, <1>6, <2>1
  <2>3. Expected(bytes, i) <= bytes - i * Chunk
    BY <1>2, <1>3, <2>2 DEF Expected, Lesser
  <2>4. Expected(bytes, i) <= k * Align - (i * c) * Align
    BY <1>2, <1>7, <2>1, <2>2, <2>3
  <2>5. k * Align - (i * c) * Align = (k - i * c) * Align /\ k - i * c \in Int
    BY <1>3, <2>2
  <2>6. Aligned(Expected(bytes, i)) <= (k - i * c) * Align
        /\ Aligned(Expected(bytes, i)) \in Nat
    BY <2>1, <2>4, <2>5, AlignedFacts
  <2>7. (k - i * c) * Align = Capacity - i * Chunk
    BY <1>7, <2>2, <2>5
  <2>8. Capacity \in Nat
    BY <1>1, CapacityFacts
  <2> QED BY <2>1, <2>2, <2>6, <2>7, <2>8
<1> QED BY <1>4, <1>5, <1>8

-----------------------------------------------------------------------------
(* The reader's steps. *)

\* The requests with the kernel and the completions are finitely many.
LEMMA RingFinite ==
  ASSUME Bounds, Ring
  PROVE  /\ IsFiniteSet(inflight) /\ IsFiniteSet(DOMAIN cq)
         /\ Cardinality(inflight) \in Nat /\ Cardinality(DOMAIN cq) \in Nat
<1>1. 0 \in Int /\ submitted - 1 \in Int
  BY DEF Bounds
<1>2. IsFiniteSet(0 .. submitted - 1)
  BY ONLY <1>1, FS_Interval
<1>3. IsFiniteSet(inflight) /\ IsFiniteSet(DOMAIN cq)
  BY <1>2, FS_Subset DEF Ring
<1> QED BY <1>3, FS_CardinalityType

LEMMA InitInvariant ==
  Init => IInv
<1> SUFFICES ASSUME Init PROVE IInv
  OBVIOUS
<1> USE DEF Init
<1>1. Capacity \in Nat \ {0}
  BY CapacityFacts, DirectReaderAssumption
<1>2. DOMAIN cq = {} /\ out = <<>>
  OBVIOUS
<1>3. Bounds
  BY <1>1, <1>2, DirectReaderAssumption DEF Bounds, Unset
<1>4. OnBlock
  <2>1. next = 0 * Align
    BY DirectReaderAssumption
  <2> QED BY <2>1 DEF OnBlock
<1>5. Ring
  <2>1. Cardinality({}) = 0
    BY FS_EmptySet
  <2> QED BY <1>2, <2>1 DEF Ring, Exact
<1>6. Batch /\ Filled /\ Ready
  BY DEF Batch, Filled, Ready
<1>7. Delivered
  BY <1>2 DEF Delivered, DeliveredInPlace
<1> QED BY <1>3, <1>4, <1>5, <1>6, <1>7 DEF IInv

LEMMA CopyKeeps ==
  ASSUME IInv, Copy
  PROVE  IInv'
<1>1. PICK n \in 1 .. available - cursor :
        /\ out' = out \o [j \in 1 .. n |-> buffer[cursor + j - 1]]
        /\ cursor' = cursor + n
  BY DEF Copy
<1>2. /\ pc = "copy" /\ cursor < available
      /\ UNCHANGED <<fsize, pc, next, available, bytes, ring, buffer, file>>
  BY DEF Copy
<1>3. /\ cursor \in Nat /\ available \in Nat /\ next \in Nat /\ n \in Nat
      /\ cursor + n <= available /\ available <= next /\ available <= Capacity
      /\ Capacity \in Int /\ buffer \in [0 .. Capacity - 1 -> Int]
  BY <1>1, CapacityFacts DEF IInv, Bounds
<1>4. Bounds' /\ OnBlock'
  BY <1>1, <1>2, <1>3 DEF IInv, Bounds, OnBlock, ring, file, Capacity
<1>5. Batch' /\ Filled'
  BY <1>2 DEF Batch, Filled
<1>6. Ring' /\ Ready'
  BY <1>2 DEF IInv, Ring, Exact, Ready, Holds, ring, file
<1>7. Delivered'
  <2> DEFINE more == [j \in 1 .. n |-> buffer[cursor + j - 1]]
  <2>1. more \in Seq(Int) /\ Len(more) = n /\ \A j \in 1 .. n : more[j] = buffer[cursor + j - 1]
    <3>1. \A j \in 1 .. n : buffer[cursor + j - 1] \in Int
      BY <1>3
    <3> QED BY <1>3, <3>1
  <2>2. /\ out \in Seq(Int) /\ Len(out) = next - available + cursor /\ DeliveredInPlace
    BY DEF IInv, Delivered
  <2>3. out' = out \o more
    BY <1>1
  <2> HIDE DEF more
  <2>4. /\ out' \in Seq(Int) /\ Len(out') = Len(out) + n
        /\ \A j \in 1 .. Len(out) + n :
             out'[j] = IF j <= Len(out) THEN out[j] ELSE more[j - Len(out)]
    BY <2>1, <2>2, <2>3, ConcatProperties
  <2>5. ASSUME NEW j \in 1 .. Len(out')
        PROVE  out'[j] = j - 1 \/ (out'[j] = Zero /\ j - 1 \in zeroed')
    <3>1. CASE j <= Len(out)
      BY <1>2, <2>2, <2>4, <2>5, <3>1 DEF DeliveredInPlace, file
    <3>2. CASE ~(j <= Len(out))
      <4> DEFINE o == cursor + (j - Len(out)) - 1
      <4>1. j - Len(out) \in 1 .. n /\ out'[j] = more[j - Len(out)]
        BY <2>2, <2>4, <2>5, <3>2
      <4>2. out'[j] = buffer[o]
        BY <2>1, <4>1
      <4>3. o \in 0 .. available - 1 /\ next - available + o = j - 1
        BY <1>3, <2>2, <4>1
      <4> HIDE DEF o
      <4>4. Holds(o, next - available + o)
        BY <1>2, <4>3 DEF IInv, Ready
      <4> QED BY <1>2, <4>2, <4>3, <4>4 DEF Holds, file
    <3> QED BY <3>1, <3>2
  <2>6. Len(out') = next' - available' + cursor'
    BY <1>1, <1>2, <1>3, <2>2, <2>4
  <2>7. DeliveredInPlace'
    BY <2>5 DEF DeliveredInPlace
  <2> QED BY <1>2, <2>4, <2>6, <2>7 DEF Delivered
<1> QED BY <1>4, <1>5, <1>6, <1>7 DEF IInv

LEMMA RefillKeeps ==
  ASSUME IInv, Refill
  PROVE  IInv'
<1>1. /\ pc = "copy" /\ cursor = available
      /\ UNCHANGED <<fsize, position, pending, inflight, cq, buffer, out, file>>
  BY DEF Refill
<1>2. inflight = {} /\ cq = <<>> /\ DOMAIN cq = {}
  BY <1>1 DEF IInv, Ring, Exact
<1>3. CASE next = fsize
  <2>1. pc' = "drain" /\ UNCHANGED <<bytes, submitted>>
    BY <1>3 DEF Refill
  <2> QED BY <1>1, <2>1 DEF IInv, Bounds, OnBlock, Batch, Ring, Exact, Filled, Ready,
                            Delivered, DeliveredInPlace, Capacity, position, file
<1>4. CASE next # fsize
  <2>1. pc' = "submit" /\ bytes' = Lesser(Capacity, fsize - next) /\ submitted' = 0
    BY <1>4 DEF Refill
  <2>2. next < fsize
    BY <1>4 DEF IInv, Bounds
  <2>3. bytes' \in Nat \ {0}
    BY <2>1, <2>2, BatchFacts DEF IInv
  <2>4. Bounds' /\ OnBlock'
    BY <1>1, <2>1, <2>3 DEF IInv, Bounds, OnBlock, Capacity, position, file
  <2>5. Batch'
    <3>1. Count(bytes') \in Nat
      BY <2>3, CountFacts
    <3>2. 0 <= Count(bytes')
      BY <3>1
    <3> QED BY <1>1, <2>1, <2>2, <3>2 DEF Batch, Count, Capacity, position
  <2>6. Ring' /\ Filled' /\ Ready'
    <3>1. (0 .. submitted' - 1) = {}
      BY <2>1
    <3> QED BY <1>1, <1>2, <2>1, <3>1 DEF IInv, Ring, Exact, Filled, Ready
  <2>7. Delivered'
    BY <1>1, <2>1 DEF IInv, Delivered, DeliveredInPlace, position, file
  <2> QED BY <2>4, <2>5, <2>6, <2>7 DEF IInv
<1> QED BY <1>3, <1>4

LEMMA SubmitKeeps ==
  ASSUME IInv, Submit
  PROVE  IInv'
<1>1. PICK n \in 1 .. Cardinality(Requests(bytes)) - submitted :
        /\ inflight' = inflight \cup submitted .. submitted + n - 1
        /\ submitted' = submitted + n
        /\ pending' = pending + n
  BY DEF Submit
<1>2. /\ pc = "submit"
      /\ pc' = IF submitted' = Cardinality(Requests(bytes)) THEN "reap" ELSE "submit"
      /\ UNCHANGED <<fsize, position, bytes, cq, buffer, out, file>>
  BY DEF Submit
<1>3. bytes \in Nat \ {0}
  BY <1>2, BatchFacts DEF IInv, Batch
<1>4. Cardinality(Requests(bytes)) = Count(bytes) /\ Count(bytes) \in Nat
  BY <1>3, CountFacts
<1>5. submitted \in Nat /\ n \in Nat /\ n >= 1 /\ submitted + n <= Count(bytes) /\ pending \in Int
  BY <1>1, <1>4 DEF IInv, Bounds
<1>6. Bounds' /\ OnBlock'
  BY <1>1, <1>2, <1>5 DEF IInv, Bounds, OnBlock, Capacity, position, file
<1>7. Batch'
  BY <1>1, <1>2, <1>4, <1>5 DEF IInv, Batch, Capacity, Count, position
<1>8. Ring'
  <2> DEFINE new == submitted .. submitted + n - 1
  <2>1. /\ inflight \subseteq 0 .. submitted - 1 /\ DOMAIN cq \subseteq 0 .. submitted - 1
        /\ inflight \cap DOMAIN cq = {}
        /\ pending = Cardinality(inflight) + Cardinality(DOMAIN cq)
    BY DEF IInv, Ring, Exact
  <2>2. /\ inflight' \subseteq 0 .. submitted' - 1 /\ DOMAIN cq' \subseteq 0 .. submitted' - 1
        /\ inflight' \cap DOMAIN cq' = {}
    BY <1>1, <1>2, <1>5, <2>1
  <2>3. IsFiniteSet(new) /\ Cardinality(new) = n
    <3>1. submitted \in Int /\ submitted + n - 1 \in Int
      BY <1>5
    <3>2. /\ IsFiniteSet(new)
          /\ Cardinality(new) = IF submitted > submitted + n - 1 THEN 0
                                ELSE (submitted + n - 1) - submitted + 1
      BY ONLY <3>1, FS_Interval
    <3> QED BY <1>5, <3>2
  <2>4. IsFiniteSet(inflight) /\ IsFiniteSet(DOMAIN cq)
    BY RingFinite DEF IInv
  <2>5. inflight \cap new = {}
    BY <1>5, <2>1
  <2> HIDE DEF new
  <2>6. Cardinality(inflight \cup new) = Cardinality(inflight) + n
    <3>1. Cardinality(inflight \cup new) =
            Cardinality(inflight) + Cardinality(new) - Cardinality(inflight \cap new)
      BY <2>3, <2>4, FS_Union
    <3>2. Cardinality(inflight \cap new) = 0
      BY <2>5, FS_EmptySet
    <3>3. Cardinality(inflight) \in Nat
      BY <2>4, FS_CardinalityType
    <3> QED BY <1>5, <2>3, <3>1, <3>2, <3>3
  <2>7. Cardinality(inflight) \in Nat /\ Cardinality(DOMAIN cq) \in Nat
    BY <2>4, FS_CardinalityType
  <2>8. inflight' = inflight \cup new
    BY <1>1 DEF new
  <2>9. pending' = Cardinality(inflight') + Cardinality(DOMAIN cq')
    BY <1>1, <1>2, <1>5, <2>1, <2>6, <2>7, <2>8
  <2> QED BY <1>2, <2>2, <2>9 DEF Ring, Exact
<1>9. Filled'
  <2>1. \A i \in (0 .. submitted' - 1) \ (inflight' \cup DOMAIN cq) :
          i \in (0 .. submitted - 1) \ (inflight \cup DOMAIN cq)
    BY <1>1, <1>5
  <2> QED BY <1>2, <2>1 DEF IInv, Filled, Holds, Expected, position, file
<1>10. Ready'
  BY <1>2 DEF Ready
<1>11. Delivered'
  BY <1>2 DEF IInv, Delivered, DeliveredInPlace, position, file
<1> QED BY <1>6, <1>7, <1>8, <1>9, <1>10, <1>11 DEF IInv

\* A completion that is seen leaves the ring.
LEMMA SeenLeaves ==
  ASSUME Bounds, Ring, NEW i \in DOMAIN cq, Seen(i)
  PROVE  /\ inflight' = inflight /\ submitted' = submitted
         /\ DOMAIN cq' = DOMAIN cq \ {i}
         /\ \A j \in DOMAIN cq' : cq'[j] = cq[j]
         /\ pending' \in Int
         /\ pending' = Cardinality(inflight') + Cardinality(DOMAIN cq')
<1>1. /\ cq' = [j \in DOMAIN cq \ {i} |-> cq[j]] /\ pending' = pending - 1
      /\ inflight' = inflight /\ submitted' = submitted
  BY DEF Seen
<1>2. DOMAIN cq' = DOMAIN cq \ {i} /\ \A j \in DOMAIN cq' : cq'[j] = cq[j]
  BY <1>1
<1>3. /\ IsFiniteSet(DOMAIN cq)
      /\ Cardinality(inflight) \in Nat /\ Cardinality(DOMAIN cq) \in Nat
  BY RingFinite
<1>4. Cardinality(DOMAIN cq \ {i}) = Cardinality(DOMAIN cq) - 1
  BY <1>3, FS_RemoveElement
<1>5. pending = Cardinality(inflight) + Cardinality(DOMAIN cq) /\ pending \in Int
  BY DEF Ring, Exact, Bounds
<1> QED BY <1>1, <1>2, <1>3, <1>4, <1>5

\* The last pending request is the only one in the ring.
LEMMA LastPending ==
  ASSUME Bounds, Ring, NEW i \in DOMAIN cq, pending = 1
  PROVE  inflight = {} /\ DOMAIN cq = {i}
<1>1. /\ IsFiniteSet(inflight) /\ IsFiniteSet(DOMAIN cq)
      /\ Cardinality(inflight) \in Nat /\ Cardinality(DOMAIN cq) \in Nat
  BY RingFinite
<1>2. Cardinality(DOMAIN cq) # 0
  BY <1>1, FS_EmptySet
<1>3. Cardinality(inflight) = 0 /\ Cardinality(DOMAIN cq) = 1
  BY <1>1, <1>2 DEF Ring, Exact
<1>4. inflight = {}
  BY <1>1, <1>3, FS_EmptySet
<1>5. \E x : DOMAIN cq = {x}
  BY <1>1, <1>3, FS_Singleton
<1> QED BY <1>4, <1>5

LEMMA ReapKeeps ==
  ASSUME IInv, Reap
  PROVE  IInv'
<1>1. PICK i \in DOMAIN cq :
        /\ Seen(i)
        /\ IF cq[i] # Expected(bytes, i)
           THEN pc' = "drain" /\ UNCHANGED <<position, bytes>>
           ELSE IF pending = 1
           THEN /\ pc' = "copy"
                /\ next' = next + bytes
                /\ available' = bytes
                /\ cursor' = 0
                /\ bytes' = 0
           ELSE UNCHANGED <<pc, position, bytes>>
  BY DEF Reap
<1>2. pc = "reap" /\ pending # 0 /\ UNCHANGED <<fsize, buffer, out, file>>
  BY DEF Reap
<1>3. Bounds /\ OnBlock /\ Batch /\ Ring /\ Filled /\ Ready /\ Delivered
  BY DEF IInv
<1>4. /\ inflight' = inflight /\ submitted' = submitted
      /\ DOMAIN cq' = DOMAIN cq \ {i} /\ \A j \in DOMAIN cq' : cq'[j] = cq[j]
      /\ pending' \in Int /\ pending' = Cardinality(inflight') + Cardinality(DOMAIN cq')
  BY <1>1, <1>3, SeenLeaves
<1>5. /\ next < fsize /\ bytes = Lesser(Capacity, fsize - next) /\ cursor = available
      /\ submitted = Count(bytes)
  BY <1>2, <1>3 DEF Batch
<1>6. bytes \in Nat \ {0} /\ bytes <= Capacity /\ bytes <= fsize - next
  BY <1>3, <1>5, BatchFacts
<1>7. CASE cq[i] # Expected(bytes, i)
  <2>1. pc' = "drain" /\ UNCHANGED <<position, bytes>>
    BY <1>1, <1>7
  <2>2. Bounds' /\ OnBlock'
    BY <1>2, <1>3, <1>4, <2>1 DEF Bounds, OnBlock, Capacity, position, file
  <2>3. Ring'
    BY <1>3, <1>4, <2>1 DEF Ring, Exact
  <2>4. Batch' /\ Filled' /\ Ready'
    BY <2>1 DEF Batch, Filled, Ready
  <2>5. Delivered'
    BY <1>2, <1>3, <2>1 DEF Delivered, DeliveredInPlace, position, file
  <2> QED BY <2>2, <2>3, <2>4, <2>5 DEF IInv
<1>8. ASSUME cq[i] = Expected(bytes, i)
      PROVE  \A j \in (0 .. submitted - 1) \ (inflight \cup (DOMAIN cq \ {i})) :
               \A o \in j * Chunk .. j * Chunk + Expected(bytes, j) - 1 : Holds(o, next + o)
  BY <1>2, <1>3, <1>8 DEF Filled
<1>9. CASE cq[i] = Expected(bytes, i) /\ pending # 1
  <2>1. UNCHANGED <<pc, position, bytes>>
    BY <1>1, <1>9
  <2>2. Bounds' /\ OnBlock'
    BY <1>2, <1>3, <1>4, <2>1 DEF Bounds, OnBlock, Capacity, position, file
  <2>3. Ring'
    BY <1>2, <1>3, <1>4, <2>1 DEF Ring, Exact
  <2>4. Batch' /\ Ready'
    BY <1>2, <1>3, <1>4, <2>1 DEF Batch, Ready, Count, Capacity, position
  <2>5. Filled'
    <3>1. ASSUME NEW j \in DOMAIN cq',
                 NEW o \in j * Chunk .. j * Chunk + cq'[j] - 1
          PROVE  Holds(o, next + o)'
      <4>1. j \in DOMAIN cq /\ cq'[j] = cq[j]
        BY <1>4, <3>1
      <4>2. Holds(o, next + o)
        BY <1>2, <1>3, <3>1, <4>1 DEF Filled
      <4> QED BY <1>2, <2>1, <4>2 DEF Holds, position, file
    <3>2. ASSUME NEW j \in (0 .. submitted' - 1) \ (inflight' \cup DOMAIN cq'),
                 NEW o \in j * Chunk .. j * Chunk + Expected(bytes', j) - 1
          PROVE  Holds(o, next + o)'
      <4>1. Holds(o, next + o)
        BY <1>4, <1>8, <1>9, <2>1, <3>2 DEF Expected
      <4> QED BY <1>2, <2>1, <4>1 DEF Holds, position, file
    <3>3. Expected(bytes, 0)' = Expected(bytes', 0)
      BY DEF Expected
    <3> QED BY <3>1, <3>2 DEF Filled, Expected
  <2>6. Delivered'
    BY <1>2, <1>3, <2>1 DEF Delivered, DeliveredInPlace, position, file
  <2> QED BY <2>2, <2>3, <2>4, <2>5, <2>6 DEF IInv
<1>10. CASE cq[i] = Expected(bytes, i) /\ pending = 1
  <2>1. /\ pc' = "copy" /\ next' = next + bytes /\ available' = bytes /\ cursor' = 0
        /\ bytes' = 0
    BY <1>1, <1>10
  <2>2. inflight = {} /\ DOMAIN cq = {i}
    BY <1>3, <1>10, LastPending
  <2>3. Bounds'
    BY <1>2, <1>3, <1>4, <1>6, <2>1 DEF Bounds, Capacity, file
  <2>4. OnBlock'
    <3> SUFFICES ASSUME next' # fsize'
                 PROVE  \E k \in Nat : next' = k * Align
      BY DEF OnBlock
    <3>1. PICK k \in Nat : next = k * Align
      BY <1>3, <1>5 DEF OnBlock, Bounds
    <3>2. fsize \in Nat \ {0} /\ next \in Nat
      BY <1>3 DEF Bounds
    <3>3. PICK m \in Nat : Capacity = m * Align
      BY <3>2, CapacityFacts
    <3>4. bytes # fsize - next
      BY <1>2, <1>6, <2>1, <3>2
    <3>5. bytes = m * Align
      BY <1>5, <3>3, <3>4 DEF Lesser
    <3>6. next' = (k + m) * Align
      BY <2>1, <3>1, <3>5, DirectReaderAssumption
    <3> QED BY <3>6
  <2>5. Ring'
    <3>1. DOMAIN cq' = {} /\ inflight' = {}
      BY <1>4, <2>2
    <3>2. cq' = [j \in DOMAIN cq \ {i} |-> cq[j]]
      BY <1>1 DEF Seen
    <3>3. cq' = <<>>
      <4>1. DOMAIN cq \ {i} = {}
        BY <2>2
      <4> QED BY ONLY <3>2, <4>1
    <3> QED BY <1>4, <2>1, <3>1, <3>3 DEF Ring, Exact
  <2>6. Batch' /\ Filled'
    BY <2>1 DEF Batch, Filled
  <2>7. Ready'
    <3> SUFFICES ASSUME NEW o \in 0 .. bytes - 1
                 PROVE  /\ o \in DOMAIN buffer'
                        /\ \/ buffer'[o] = next' - available' + o
                           \/ buffer'[o] = Zero /\ next' - available' + o \in zeroed'
      BY <2>1 DEF Ready, Holds
    <3>1. PICK j \in Requests(bytes) : o \in j * Chunk .. j * Chunk + Expected(bytes, j) - 1
      BY <1>6, CountFacts
    <3>2. j \in 0 .. submitted - 1
      BY <1>5, <1>6, <3>1, CountFacts
    <3>3. Holds(o, next + o)
      BY <1>8, <1>10, <2>2, <3>1, <3>2
    <3>4. next' - available' + o = next + o
      BY <1>3, <1>6, <2>1 DEF Bounds
    <3> QED BY <1>2, <3>3, <3>4 DEF Holds, file
  <2>8. Delivered'
    <3>1. Len(out) = next' - available' + cursor'
      BY <1>3, <1>5, <1>6, <2>1 DEF Delivered, Bounds
    <3> QED BY <1>2, <1>3, <2>1, <3>1 DEF Delivered, DeliveredInPlace, file
  <2> QED BY <2>3, <2>4, <2>5, <2>6, <2>7, <2>8 DEF IInv
<1> QED BY <1>7, <1>9, <1>10

LEMMA DrainKeeps ==
  ASSUME IInv, Drain
  PROVE  IInv'
<1>1. PICK i \in DOMAIN cq : Seen(i)
  BY DEF Drain
<1>2. /\ pc = "drain"
      /\ UNCHANGED <<fsize, pc, position, bytes, buffer, out, file>>
  BY DEF Drain
<1>3. /\ inflight' = inflight /\ submitted' = submitted
      /\ DOMAIN cq' = DOMAIN cq \ {i} /\ \A j \in DOMAIN cq' : cq'[j] = cq[j]
      /\ pending' \in Int /\ pending' = Cardinality(inflight') + Cardinality(DOMAIN cq')
  BY <1>1, SeenLeaves DEF IInv
<1>4. Bounds' /\ OnBlock'
  BY <1>2, <1>3 DEF IInv, Bounds, OnBlock, Capacity, position, file
<1>5. Ring'
  BY <1>2, <1>3 DEF IInv, Ring, Exact
<1>6. Batch' /\ Filled' /\ Ready' /\ Delivered'
  BY <1>2 DEF IInv, Batch, Filled, Ready, Delivered, DeliveredInPlace, position, file
<1> QED BY <1>4, <1>5, <1>6 DEF IInv

\* The steps that only decide where the reader goes next.
LEMMA DecisionsKeep ==
  ASSUME IInv,
         \/ SubmitFails \/ WaitFails \/ Finish
         \/ Leave \/ DrainFails \/ Close
  PROVE  IInv'
<1>1. UNCHANGED <<fsize, position, bytes, ring, buffer, out, file>>
  BY DEF SubmitFails, WaitFails, Finish, Leave, DrainFails, Close
<1>2. /\ pc' \in {"drain", "accepted", "closed", "abandoned"}
      /\ pc' = "accepted" => next = fsize /\ cursor = available
      /\ pc' = "closed" => pending = 0
  BY DEF SubmitFails, WaitFails, Finish, Leave, DrainFails, Close
<1>3. pc' = "closed" => inflight = {}
  <2>1. /\ IsFiniteSet(inflight)
        /\ Cardinality(inflight) \in Nat /\ Cardinality(DOMAIN cq) \in Nat
        /\ pending = Cardinality(inflight) + Cardinality(DOMAIN cq)
    BY RingFinite DEF IInv, Ring, Exact
  <2>2. pending = 0 => Cardinality(inflight) = 0
    BY <2>1
  <2> QED BY <1>2, <2>1, <2>2, FS_EmptySet
<1>4. Bounds' /\ OnBlock'
  BY <1>1, <1>2 DEF IInv, Bounds, OnBlock, Capacity, position, ring, file
<1>5. Ring'
  BY <1>1, <1>2, <1>3 DEF IInv, Ring, Exact, ring
<1>6. Batch' /\ Filled' /\ Ready'
  BY <1>2 DEF Batch, Filled, Ready
<1>7. Delivered'
  BY <1>1, <1>2 DEF IInv, Delivered, DeliveredInPlace, position, file
<1> QED BY <1>4, <1>5, <1>6, <1>7 DEF IInv

-----------------------------------------------------------------------------
(* The kernel's and the file's steps. *)

\* What a request writes lies inside the buffer.
LEMMA WritesInside ==
  ASSUME Bounds, OnBlock, Batch, Ring, pc \in {"submit", "reap"}, NEW i \in inflight
  PROVE  /\ i \in Requests(bytes) /\ i * Chunk \in Nat
         /\ Aligned(Expected(bytes, i)) \in Nat
         /\ i * Chunk + Aligned(Expected(bytes, i)) <= Capacity
<1>1. RequestsFit
  BY BatchFits
<1>2. bytes \in Nat \ {0}
  BY BatchFacts DEF Batch
<1>3. /\ Requests(bytes) = 0 .. Count(bytes) - 1 /\ Count(bytes) \in Nat
      /\ \A j \in Requests(bytes) : Expected(bytes, j) \in Nat \ {0}
  BY <1>2, CountFacts
<1>4. i \in Nat /\ i < submitted /\ submitted <= Count(bytes) /\ submitted \in Nat
  BY DEF Ring, Batch, Bounds
<1>5. i \in Requests(bytes)
  BY ONLY <1>3, <1>4
<1>6. i * Chunk \in Nat
  BY <1>4, DirectReaderAssumption
<1> QED BY <1>1, <1>3, <1>5, <1>6, AlignedFacts DEF RequestsFit

LEMMA CompleteKeeps ==
  ASSUME IInv, NEW i \in 0 .. Depth - 1, Complete(i)
  PROVE  IInv'
<1> DEFINE from == next + i * Chunk
           most == Lesser(Aligned(Expected(bytes, i)), size - from)
<1>1. /\ i \in inflight /\ inflight' = inflight \ {i}
      /\ UNCHANGED <<fsize, pc, position, bytes, submitted, pending, out, file>>
  BY DEF Complete
<1>2. Bounds /\ OnBlock /\ Batch /\ Ring /\ Filled /\ Ready /\ Delivered
  BY DEF IInv
<1>3. i \in Nat /\ i * Chunk \in Nat /\ Chunk \in Nat \ {0} /\ next \in Nat /\ from \in Nat
  BY <1>1, <1>2, DirectReaderAssumption DEF Bounds
<1>4. i \notin DOMAIN cq /\ pc \notin {"copy", "closed"}
  BY <1>1, <1>2 DEF Ring, Exact
\* What the completion says, and what it has written.
<1>5. \E n \in Int :
        /\ cq' = [j \in DOMAIN cq \cup {i} |-> IF j = i THEN n ELSE cq[j]]
        /\ n > 0 => n <= most
        /\ buffer' = [o \in DOMAIN buffer |->
             IF o \in i * Chunk .. i * Chunk + n - 1
             THEN At(from + o - i * Chunk) ELSE buffer[o]]
  <2>1. CASE /\ cq' = [j \in DOMAIN cq \cup {i} |-> IF j = i THEN Error ELSE cq[j]]
             /\ buffer' = buffer
    <3>1. \A o : o \notin i * Chunk .. i * Chunk + Error - 1
      BY <1>3 DEF Error
    <3>2. buffer = [o \in DOMAIN buffer |-> buffer[o]]
      BY <1>2 DEF Bounds
    <3>3. buffer' = [o \in DOMAIN buffer |->
             IF o \in i * Chunk .. i * Chunk + Error - 1
             THEN At(from + o - i * Chunk) ELSE buffer[o]]
      BY <2>1, <3>1, <3>2
    <3> QED BY <2>1, <3>3 DEF Error
  <2>2. CASE \E n \in 0 .. (IF most < 0 THEN 0 ELSE most) :
          /\ cq' = [j \in DOMAIN cq \cup {i} |-> IF j = i THEN n ELSE cq[j]]
          /\ buffer' = [o \in DOMAIN buffer |->
               IF o \in i * Chunk .. i * Chunk + n - 1
               THEN At(from + o - i * Chunk) ELSE buffer[o]]
    <3>1. PICK n \in 0 .. (IF most < 0 THEN 0 ELSE most) :
          /\ cq' = [j \in DOMAIN cq \cup {i} |-> IF j = i THEN n ELSE cq[j]]
          /\ buffer' = [o \in DOMAIN buffer |->
               IF o \in i * Chunk .. i * Chunk + n - 1
               THEN At(from + o - i * Chunk) ELSE buffer[o]]
      BY <2>2
    <3> HIDE DEF most
    <3>2. n \in Int /\ (n > 0 => n <= most)
      OBVIOUS
    <3> QED BY <3>1, <3>2
  <2> QED BY <2>1, <2>2 DEF Complete
<1>6. PICK n \in Int :
        /\ cq' = [j \in DOMAIN cq \cup {i} |-> IF j = i THEN n ELSE cq[j]]
        /\ n > 0 => n <= most
        /\ buffer' = [o \in DOMAIN buffer |->
             IF o \in i * Chunk .. i * Chunk + n - 1
             THEN At(from + o - i * Chunk) ELSE buffer[o]]
  BY <1>5
<1>7. /\ DOMAIN cq' = DOMAIN cq \cup {i} /\ cq'[i] = n
      /\ \A j \in DOMAIN cq : cq'[j] = cq[j]
      /\ DOMAIN buffer' = DOMAIN buffer
  BY <1>4, <1>6
\* The write puts every unit of the file where the batch has it.
<1>8. \A o \in DOMAIN buffer :
        /\ buffer'[o] \in Int
        /\ Holds(o, next + o) => Holds(o, next + o)'
        /\ o \in i * Chunk .. i * Chunk + n - 1 => Holds(o, next + o)'
  <2> SUFFICES ASSUME NEW o \in DOMAIN buffer
               PROVE  /\ buffer'[o] \in Int
                      /\ Holds(o, next + o) => Holds(o, next + o)'
                      /\ o \in i * Chunk .. i * Chunk + n - 1 => Holds(o, next + o)'
    OBVIOUS
  <2>1. o \in Int /\ buffer[o] \in Int
    BY <1>2 DEF Bounds
  <2>2. from + o - i * Chunk = next + o /\ next + o \in Int
    BY <1>3, <2>1
  <2>3. At(next + o) \in Int /\ (At(next + o) = next + o \/ (At(next + o) = Zero /\ next + o \in zeroed))
    BY <2>2 DEF At, Zero
  <2>4. next' = next /\ zeroed' = zeroed /\ o \in DOMAIN buffer'
    BY <1>1, <1>7 DEF position, file
  <2>5. CASE o \in i * Chunk .. i * Chunk + n - 1
    <3>1. buffer'[o] = At(next + o)
      BY <1>6, <2>2, <2>5
    <3> QED BY <2>3, <2>4, <3>1 DEF Holds
  <2>6. CASE o \notin i * Chunk .. i * Chunk + n - 1
    <3>1. buffer'[o] = buffer[o]
      BY <1>6, <2>6
    <3> QED BY <2>1, <2>4, <2>6, <3>1 DEF Holds
  <2> QED BY <2>5, <2>6
<1>9. Bounds' /\ OnBlock'
  <2>1. Capacity' = Capacity
    BY <1>1 DEF Capacity
  <2>2. buffer' \in [0 .. Capacity - 1 -> Int]
    <3>1. DOMAIN buffer = 0 .. Capacity - 1
      BY <1>2 DEF Bounds
    <3> QED BY <1>6, <1>8, <3>1
  <2>3. \A j \in DOMAIN cq' : cq'[j] \in Int
    BY <1>2, <1>7 DEF Bounds
  <2> HIDE DEF from, most
  <2> QED BY <1>1, <1>2, <2>1, <2>2, <2>3 DEF Bounds, OnBlock, position, file
<1>10. Ring'
  <2>1. /\ IsFiniteSet(inflight) /\ IsFiniteSet(DOMAIN cq)
        /\ Cardinality(inflight) \in Nat /\ Cardinality(DOMAIN cq) \in Nat
    BY <1>2, RingFinite
  <2>2. Cardinality(inflight') = Cardinality(inflight) - 1
    BY <1>1, <2>1, FS_RemoveElement
  <2>3. Cardinality(DOMAIN cq') = Cardinality(DOMAIN cq) + 1
    BY <1>4, <1>7, <2>1, FS_AddElement
  <2>4. pending' = Cardinality(inflight') + Cardinality(DOMAIN cq')
    BY <1>1, <1>2, <2>1, <2>2, <2>3 DEF Ring, Exact
  <2>5. pc' \notin {"copy", "closed"}
    BY <1>1, <1>4
  <2> HIDE DEF from, most
  <2> QED BY <1>1, <1>2, <1>7, <2>4, <2>5 DEF Ring, Exact
<1>11. Batch'
  BY <1>1, <1>2 DEF Batch, Capacity, Count, position
<1>12. Filled'
  <2> SUFFICES ASSUME pc \in {"submit", "reap"}
               PROVE  /\ \A j \in DOMAIN cq' : \A o \in j * Chunk .. j * Chunk + cq'[j] - 1 :
                           Holds(o, next + o)'
                      /\ \A j \in (0 .. submitted - 1) \ (inflight' \cup DOMAIN cq') :
                           \A o \in j * Chunk .. j * Chunk + Expected(bytes, j) - 1 :
                             Holds(o, next + o)'
    BY <1>1 DEF Filled, Expected
  <2>1. /\ Aligned(Expected(bytes, i)) \in Nat
        /\ i * Chunk + Aligned(Expected(bytes, i)) <= Capacity
    BY <1>1, <1>2, WritesInside
  <2>2. \A o \in i * Chunk .. i * Chunk + n - 1 : o \in DOMAIN buffer
    <3> SUFFICES ASSUME NEW o \in i * Chunk .. i * Chunk + n - 1
                 PROVE  o \in 0 .. Capacity - 1
      BY <1>2 DEF Bounds
    <3>1. n > 0
      BY <1>3
    <3>2. n <= Aligned(Expected(bytes, i))
      <4>1. n <= most /\ size \in Int
        BY <1>2, <1>6, <3>1 DEF Bounds
      <4> QED BY <1>3, <2>1, <4>1 DEF Lesser
    <3>3. Capacity \in Nat
      BY <1>2, CapacityFacts DEF Bounds
    <3> QED BY <1>3, <2>1, <3>2, <3>3
  <2>3. ASSUME NEW j \in DOMAIN cq', NEW o \in j * Chunk .. j * Chunk + cq'[j] - 1
        PROVE  Holds(o, next + o)'
    <3>1. CASE j = i
      BY <1>7, <1>8, <2>2, <2>3, <3>1
    <3>2. CASE j # i
      <4>1. j \in DOMAIN cq /\ cq'[j] = cq[j]
        BY <1>7, <3>2
      <4>2. Holds(o, next + o) /\ o \in DOMAIN buffer
        BY <1>2, <2>3, <4>1 DEF Filled, Holds
      <4> QED BY <1>8, <4>2
    <3> QED BY <3>1, <3>2
  <2>4. ASSUME NEW j \in (0 .. submitted - 1) \ (inflight' \cup DOMAIN cq'),
               NEW o \in j * Chunk .. j * Chunk + Expected(bytes, j) - 1
        PROVE  Holds(o, next + o)'
    <3>1. j \notin inflight \cup DOMAIN cq
      BY <1>1, <1>7, <2>4
    <3>2. Holds(o, next + o) /\ o \in DOMAIN buffer
      BY <1>2, <2>4, <3>1 DEF Filled, Holds
    <3> QED BY <1>8, <3>2
  <2> QED BY <2>3, <2>4
<1>13. Ready' /\ Delivered'
  BY <1>1, <1>2, <1>4 DEF Ready, Delivered, DeliveredInPlace, position, file
<1> QED BY <1>9, <1>10, <1>11, <1>12, <1>13 DEF IInv

LEMMA ResizeKeeps ==
  ASSUME IInv, Resize
  PROVE  IInv'
<1>1. /\ size' \in Nat /\ zeroed' \subseteq Nat /\ zeroed \subseteq zeroed'
      /\ UNCHANGED <<fsize, pc, position, bytes, ring, buffer, out>>
  BY DirectReaderAssumption DEF IInv, Bounds, Resize
<1>2. Bounds' /\ OnBlock'
  BY <1>1 DEF IInv, Bounds, OnBlock, Capacity, position, ring
<1>3. Batch' /\ Ring'
  BY <1>1 DEF IInv, Batch, Ring, Exact, Capacity, Count, position, ring
<1>4. Filled' /\ Ready'
  BY <1>1 DEF IInv, Filled, Ready, Holds, Expected, position, ring
<1>5. Delivered'
  BY <1>1 DEF IInv, Delivered, DeliveredInPlace, position
<1> QED BY <1>2, <1>3, <1>4, <1>5 DEF IInv

-----------------------------------------------------------------------------
(* The theorems. *)

LEMMA StepKeeps ==
  ASSUME IInv, [Next]_vars
  PROVE  IInv'
<1>1. CASE Reader
  BY <1>1, CopyKeeps, RefillKeeps, SubmitKeeps, ReapKeeps, DrainKeeps, DecisionsKeep
  DEF Reader
<1>2. CASE Fail
  BY <1>2, DecisionsKeep DEF Fail
<1>3. CASE Kernel
  BY <1>3, CompleteKeeps DEF Kernel
<1>4. CASE Resize
  BY <1>4, ResizeKeeps
<1>5. CASE UNCHANGED vars
  BY <1>5 DEF IInv, Bounds, OnBlock, Batch, Ring, Exact, Filled, Ready, Holds, Delivered,
              DeliveredInPlace, Capacity, Count, Expected, vars, position, ring, file
<1> QED BY <1>1, <1>2, <1>3, <1>4, <1>5 DEF Next

\* The inductive invariant: counters, ring, buffer and what was handed over
\* agree at every step of reader and kernel.
THEOREM Invariance ==
  Spec => []IInv
<1>1. Init => IInv
  BY InitInvariant
<1>2. IInv /\ [Next]_vars => IInv'
  BY StepKeeps
<1> QED BY <1>1, <1>2, PTL DEF Spec

\* Every unit read_all hands over is the one the file held at that offset,
\* in whatever order and in however many parts the kernel read it.
THEOREM DeliversInPlace ==
  Spec => []DeliveredInPlace
<1>1. IInv => DeliveredInPlace
  BY DEF IInv, Delivered
<1> QED BY <1>1, Invariance, PTL

\* finish accepts nothing but the whole file that was measured.
THEOREM AcceptsWhole ==
  Spec => []AcceptedWhole
<1>1. IInv => AcceptedWhole
  BY DEF IInv, Bounds, Delivered, AcceptedWhole
<1> QED BY <1>1, Invariance, PTL

\* A batch is reaped only while some of it is pending.
Waiting == pc = "reap" => pending # 0

LEMMA WaitingKept ==
  ASSUME IInv, Waiting, [Next]_vars
  PROVE  Waiting'
<1>1. pending \in Nat
  BY RingFinite DEF IInv, Ring, Exact
<1>2. CASE Submit
  <2>1. PICK n \in 1 .. Cardinality(Requests(bytes)) - submitted : pending' = pending + n
    BY <1>2 DEF Submit
  <2>2. bytes \in Nat \ {0} /\ submitted \in Nat
    BY <1>2, BatchFacts DEF IInv, Batch, Bounds, Submit
  <2>3. Cardinality(Requests(bytes)) \in Nat
    BY <2>2, CountFacts
  <2>4. n \in Nat \ {0}
    BY <2>2, <2>3
  <2>5. pending + n # 0
    BY <1>1, <2>4
  <2> QED BY <2>1, <2>5 DEF Waiting
<1>3. CASE Reap
  <2>1. pending' = pending - 1 /\ (pc' = "reap" => pending # 1)
    BY <1>3 DEF Reap, Seen
  <2>2. pending # 1 => pending - 1 # 0
    BY <1>1
  <2> QED BY <2>1, <2>2 DEF Waiting
<1>4. CASE \/ Copy \/ Refill \/ Finish \/ Leave \/ Drain \/ Close
           \/ Fail
  BY <1>4 DEF Waiting, Copy, Refill, Finish, Leave, Drain, Close, Fail, SubmitFails, WaitFails,
              DrainFails
<1>5. CASE Kernel \/ Resize \/ UNCHANGED vars
  BY <1>5 DEF Waiting, Kernel, Complete, Resize, vars, ring
<1> QED BY <1>2, <1>3, <1>4, <1>5 DEF Next, Reader

\* pending_ counts the reads that can still write, the buffer is neither copied
\* from nor freed while there is one, and whenever the reader waits there is
\* one: with GetIsBounded below, what is left for a get to end is that kernel
\* and thread run on.
THEOREM OwnsBuffer ==
  Spec => []BufferOwned
<1>1. Init => Waiting
  BY DEF Init, Waiting
<1>2. IInv /\ Waiting => BufferOwned
  BY DEF IInv, Ring, Exact, Waiting, BufferOwned
<1>3. IInv /\ Waiting /\ [Next]_vars => Waiting'
  BY WaitingKept
<1> QED BY <1>1, <1>2, <1>3, Invariance, PTL DEF Spec

\* Every request is an aligned read of whole blocks inside the buffer, and a
\* batch never takes more of them than the queue has entries.
THEOREM FitsRequests ==
  Spec => []RequestsFit
<1>1. IInv => RequestsFit
  BY BatchFits DEF IInv
<1> QED BY <1>1, Invariance, PTL

-----------------------------------------------------------------------------
(* The end: every step of reader and kernel uses up one of the steps left. *)

Get == <<pc, position, bytes, ring, buffer, out>>

\* The terms of the sum are numbers.
Terms ==
  /\ Depth \in Nat \ {0} /\ fsize - next \in Nat /\ available - cursor \in Nat
  /\ Cardinality(inflight) \in Nat /\ pending \in Nat
  /\ (3 * Depth + 2) * (fsize - next) \in Nat
  /\ pc \in {"submit", "reap"} => Cardinality(Requests(bytes)) - submitted \in 0 .. Depth

ToRead == (3 * Depth + 2) * (fsize - next)
ToCopy == available - cursor
Held == Cardinality(inflight)
ToSubmit == Cardinality(Requests(bytes)) - submitted

LEMMA TermsHold ==
  IInv => Terms
<1> SUFFICES ASSUME IInv PROVE Terms
  OBVIOUS
<1>1. /\ Depth \in Nat \ {0} /\ fsize \in Nat /\ next \in 0 .. fsize
      /\ available \in Nat /\ cursor \in 0 .. available
  BY DirectReaderAssumption DEF IInv, Bounds
<1>2. /\ Cardinality(inflight) \in Nat /\ Cardinality(DOMAIN cq) \in Nat
      /\ pending = Cardinality(inflight) + Cardinality(DOMAIN cq)
  BY RingFinite DEF IInv, Ring, Exact
<1>3. fsize - next \in Nat /\ available - cursor \in Nat
  BY <1>1
<1>4. \A a, b \in Nat : (3 * a + 2) * b \in Nat
  OBVIOUS
<1>5. ASSUME pc \in {"submit", "reap"}
      PROVE  Cardinality(Requests(bytes)) - submitted \in 0 .. Depth
  <2>1. bytes \in Nat \ {0} /\ submitted \in Nat /\ submitted <= Count(bytes)
    BY <1>5, BatchFacts DEF IInv, Batch, Bounds
  <2>2. Cardinality(Requests(bytes)) = Count(bytes) /\ Count(bytes) \in Nat
    BY <2>1, CountFacts
  <2>3. Cardinality(Requests(bytes)) \in 1 .. Depth
    BY <1>5, BatchFits DEF IInv, RequestsFit
  <2> QED BY <1>1, <2>1, <2>2, <2>3
<1> QED BY <1>1, <1>2, <1>3, <1>4, <1>5 DEF Terms

LEMMA StageNatural ==
  IInv => StepsOfStage \in Nat
<1> SUFFICES ASSUME IInv PROVE StepsOfStage \in Nat
  OBVIOUS
<1>1. Depth \in Nat /\ (pc \in {"submit", "reap"} => ToSubmit \in 0 .. Depth)
  BY TermsHold DEF Terms, ToSubmit
<1>2. StepsOfStage = CASE pc = "copy"     -> 3 * Depth + 5
                       [] pc = "submit"   -> 3 * ToSubmit + 4
                       [] pc = "reap"     -> 4
                       [] pc = "accepted" -> 3
                       [] pc = "drain"    -> 2
                       [] pc \in {"closed", "abandoned"} -> 0
  BY DEF StepsOfStage, ToSubmit
<1>3. pc \in {"copy", "submit", "reap", "accepted", "drain", "closed", "abandoned"}
  BY DEF IInv, Bounds
<1> QED BY <1>1, <1>2, <1>3

LEMMA StepsLeftDecrease ==
  ASSUME IInv, IInv', Next, Get' # Get
  PROVE  0 <= StepsLeft' /\ StepsLeft' < StepsLeft
<1>1. /\ Depth \in Nat \ {0} /\ ToRead \in Nat /\ ToCopy \in Nat /\ Held \in Nat
      /\ pending \in Nat /\ StepsOfStage \in Nat
      /\ pc \in {"submit", "reap"} => ToSubmit \in 0 .. Depth
  BY TermsHold, StageNatural DEF Terms, ToRead, ToCopy, Held, ToSubmit
\* Their values after the step.
<1>2. PICK r \in Nat, c \in Nat, h \in Nat, p \in Nat, s \in Nat, u \in Int :
        /\ r = ToRead' /\ c = ToCopy' /\ h = Held' /\ p = pending' /\ s = StepsOfStage'
        /\ pc' \in {"submit", "reap"} => u = ToSubmit' /\ u \in 0 .. Depth
  <2>1. Terms' /\ (StepsOfStage \in Nat)'
    BY TermsHold, StageNatural, PTL
  <2>2. /\ ToRead' \in Nat /\ ToCopy' \in Nat /\ Held' \in Nat /\ pending' \in Nat
        /\ StepsOfStage' \in Nat
        /\ pc' \in {"submit", "reap"} => ToSubmit' \in 0 .. Depth
    BY <2>1 DEF Terms, ToRead, ToCopy, Held, ToSubmit
  <2>3. \E u \in Int : pc' \in {"submit", "reap"} => u = ToSubmit' /\ u \in 0 .. Depth
    <3>1. CASE pc' \in {"submit", "reap"}
      BY <1>1, <2>2, <3>1
    <3>2. CASE pc' \notin {"submit", "reap"}
      BY <3>2
    <3> QED BY <3>1, <3>2
  <2> QED BY <2>2, <2>3, Zenon
<1>3. /\ StepsLeft = ToRead + ToCopy + Held + pending + StepsOfStage
      /\ StepsLeft' = r + c + h + p + s
  BY <1>2 DEF StepsLeft, ToRead, ToCopy, Held
<1>4. /\ pc = "copy" => StepsOfStage = 3 * Depth + 5
      /\ pc = "submit" => StepsOfStage = 3 * ToSubmit + 4
      /\ pc = "reap" => StepsOfStage = 4
      /\ pc = "accepted" => StepsOfStage = 3
      /\ pc = "drain" => StepsOfStage = 2
      /\ pc \in {"closed", "abandoned"} => StepsOfStage = 0
  BY DEF StepsOfStage, ToSubmit
<1>5. /\ pc' = "copy" => s = 3 * Depth + 5
      /\ pc' = "submit" => s = 3 * u + 4
      /\ pc' = "reap" => s = 4
      /\ pc' = "accepted" => s = 3
      /\ pc' = "drain" => s = 2
      /\ pc' \in {"closed", "abandoned"} => s = 0
      /\ pc' \in {"submit", "reap"} => u \in 0 .. Depth
  BY <1>2 DEF StepsOfStage, ToSubmit
<1>6. Bounds /\ Ring /\ Batch
  BY DEF IInv
<1>7. SUFFICES r + c + h + p + s < ToRead + ToCopy + Held + pending + StepsOfStage
  <2>1. 0 <= r + c + h + p + s
    OBVIOUS
  <2> QED BY <1>3, <1>7, <2>1
<1>8. CASE Copy
  <2>1. r = ToRead /\ h = Held /\ p = pending
    BY <1>2, <1>8 DEF Copy, ring, ToRead, Held
  <2>2. c < ToCopy
    BY <1>2, <1>6, <1>8 DEF Copy, Bounds, ToCopy
  <2>3. s = StepsOfStage
    BY <1>4, <1>5, <1>8 DEF Copy
  <2> QED BY ONLY <1>1, <2>1, <2>2, <2>3
<1>9. CASE Refill
  <2>1. r = ToRead /\ c = ToCopy /\ h = Held /\ p = pending
    BY <1>2, <1>9 DEF Refill, position, ToRead, ToCopy, Held
  <2>2. pc = "copy" /\ pc' \in {"drain", "submit"}
    BY <1>9 DEF Refill
  <2>3. s < StepsOfStage
    BY <1>1, <1>4, <1>5, <2>2
  <2> QED BY ONLY <1>1, <2>1, <2>3
<1>10. CASE Submit
  <2>1. PICK n \in 1 .. ToSubmit : submitted' = submitted + n /\ pending' = pending + n
    BY <1>10 DEF Submit, ToSubmit
  <2>2. /\ r = ToRead /\ c = ToCopy /\ p = pending + n
        /\ pc = "submit" /\ pc' \in {"submit", "reap"}
    BY <1>2, <1>10, <2>1 DEF Submit, position, ToRead, ToCopy
  <2>3. n \in Nat \ {0} /\ n <= ToSubmit /\ ToSubmit \in Nat
    BY <1>1, <2>1, <2>2
  <2>4. u = ToSubmit - n
    <3>1. bytes \in Nat \ {0} /\ submitted \in Nat /\ bytes' = bytes
      BY <1>6, <1>10, <2>2, BatchFacts DEF Batch, Bounds, Submit
    <3>2. Cardinality(Requests(bytes)) \in Nat
      BY <3>1, CountFacts
    <3> QED BY <1>2, <2>1, <2>2, <2>3, <3>1, <3>2 DEF ToSubmit
  <2>5. h = Held + n
    <3>1. pending = Held + Cardinality(DOMAIN cq) /\ cq' = cq
      BY <1>6, <1>10 DEF Submit, Ring, Exact, Held
    <3>2. pending' = Held' + Cardinality(DOMAIN cq')
      BY DEF IInv, Ring, Exact, Held
    <3>3. Cardinality(DOMAIN cq) \in Nat
      BY <1>6, RingFinite
    <3>4. p = h + Cardinality(DOMAIN cq)
      BY <1>2, <3>1, <3>2
    <3> QED BY ONLY <1>1, <2>2, <2>3, <3>1, <3>3, <3>4
  <2>6. s <= StepsOfStage - 3 * n
    <3>1. StepsOfStage = 3 * ToSubmit + 4
      BY <1>4, <2>2
    <3>2. s <= 3 * u + 4
      <4>1. \/ s = 3 * u + 4
            \/ s = 4 /\ u \in 0 .. Depth
        BY ONLY <1>5, <2>2, Zenon
      <4> QED BY ONLY <1>1, <4>1
    <3> QED BY ONLY <1>1, <2>3, <2>4, <3>1, <3>2
  <2> QED BY ONLY <1>1, <2>2, <2>3, <2>5, <2>6
<1>11. CASE Reap
  <2>1. PICK i \in DOMAIN cq :
        /\ Seen(i)
        /\ IF cq[i] # Expected(bytes, i)
           THEN pc' = "drain" /\ UNCHANGED <<position, bytes>>
           ELSE IF pending = 1
           THEN /\ pc' = "copy"
                /\ next' = next + bytes
                /\ available' = bytes
                /\ cursor' = 0
                /\ bytes' = 0
           ELSE UNCHANGED <<pc, position, bytes>>
    BY <1>11 DEF Reap
  <2>2. pc = "reap" /\ fsize' = fsize /\ h = Held /\ p = pending - 1
    BY <1>2, <1>11, <2>1 DEF Reap, Seen, Held
  <2>3. CASE UNCHANGED position /\ pc' \in {"drain", "reap"}
    <3>1. r = ToRead /\ c = ToCopy
      BY <1>2, <2>2, <2>3 DEF position, ToRead, ToCopy
    <3>2. StepsOfStage = 4 /\ (s = 2 \/ s = 4)
      BY <1>4, <1>5, <2>2, <2>3, Zenon
    <3> QED BY ONLY <1>1, <2>2, <3>1, <3>2
  <2>4. CASE pc' = "copy" /\ next' = next + bytes /\ available' = bytes /\ cursor' = 0
    <3>1. bytes \in Nat \ {0} /\ bytes <= fsize - next /\ cursor = available
      BY <1>6, <2>2, BatchFacts DEF Batch
    <3>2. fsize \in Nat /\ next \in Nat /\ cursor \in Int /\ Depth \in Nat
      BY <1>1, <1>6 DEF Bounds
    <3>3. ToCopy = 0 /\ c = bytes
      BY <1>2, <2>4, <3>1, <3>2 DEF ToCopy
    <3>4. r = (3 * Depth + 2) * ((fsize - next) - bytes)
      <4>1. (fsize - next)' = (fsize - next) - bytes
        BY <2>2, <2>4, <3>1, <3>2
      <4> QED BY <1>2, <4>1 DEF ToRead
    <3>5. r <= ToRead - (3 * Depth + 1 + bytes)
      <4>1. \A d, f \in Nat : \A b \in 1 .. f :
              (3 * d + 2) * (f - b) <= (3 * d + 2) * f - (3 * d + 1 + b)
        OBVIOUS
      <4>2. fsize - next \in Nat /\ bytes \in 1 .. fsize - next
        BY ONLY <3>1, <3>2
      <4>3. (3 * Depth + 2) * ((fsize - next) - bytes)
              <= (3 * Depth + 2) * (fsize - next) - (3 * Depth + 1 + bytes)
        BY ONLY <3>2, <4>1, <4>2, Zenon
      <4> QED BY <3>4, <4>3 DEF ToRead
    <3>6. s = 3 * Depth + 5 /\ StepsOfStage = 4
      BY <1>4, <1>5, <2>2, <2>4, Zenon
    <3> QED BY ONLY <1>1, <2>2, <3>1, <3>2, <3>3, <3>5, <3>6
  <2> QED BY <2>1, <2>2, <2>3, <2>4
<1>12. CASE SubmitFails \/ WaitFails \/ Finish \/ Leave \/ DrainFails \/ Close
  <2>1. r = ToRead /\ c = ToCopy /\ h = Held /\ p = pending
    BY <1>2, <1>12 DEF SubmitFails, WaitFails, Finish, Leave, DrainFails, Close, position, ring,
                       ToRead, ToCopy, Held
  <2>2. \/ pc = "submit" /\ pc' = "drain"
        \/ pc = "reap" /\ pc' = "drain"
        \/ pc = "copy" /\ pc' \in {"accepted", "drain"}
        \/ pc = "accepted" /\ pc' = "drain"
        \/ pc = "drain" /\ pc' \in {"abandoned", "closed"}
    BY <1>12 DEF SubmitFails, WaitFails, Finish, Leave, DrainFails, Close
  <2>3. \/ StepsOfStage = 3 * ToSubmit + 4 /\ ToSubmit \in 0 .. Depth /\ s = 2
        \/ StepsOfStage = 4 /\ s = 2
        \/ StepsOfStage = 3 * Depth + 5 /\ (s = 3 \/ s = 2)
        \/ StepsOfStage = 3 /\ s = 2
        \/ StepsOfStage = 2 /\ s = 0
    <3>1. CASE pc = "submit" /\ pc' = "drain"
      BY <1>1, <1>4, <1>5, <3>1, Zenon
    <3>2. CASE pc = "reap" /\ pc' = "drain"
      BY <1>4, <1>5, <3>2, Zenon
    <3>3. CASE pc = "copy" /\ pc' \in {"accepted", "drain"}
      BY <1>4, <1>5, <3>3, Zenon
    <3>4. CASE pc = "accepted" /\ pc' = "drain"
      BY <1>4, <1>5, <3>4, Zenon
    <3>5. CASE pc = "drain" /\ pc' \in {"abandoned", "closed"}
      BY <1>4, <1>5, <3>5, Zenon
    <3> QED BY <2>2, <3>1, <3>2, <3>3, <3>4, <3>5
  <2>4. s < StepsOfStage
    BY ONLY <1>1, <2>3
  <2> QED BY ONLY <1>1, <2>1, <2>4
<1>13. CASE Drain
  <2>1. r = ToRead /\ c = ToCopy /\ h = Held /\ p = pending - 1
    BY <1>2, <1>13 DEF Drain, Seen, position, ToRead, ToCopy, Held
  <2>2. s = StepsOfStage
    BY <1>4, <1>5, <1>13 DEF Drain
  <2> QED BY ONLY <1>1, <2>1, <2>2
<1>14. CASE Kernel
  <2>1. PICK i \in 0 .. Depth - 1 : Complete(i)
    BY <1>14 DEF Kernel
  <2>2. i \in inflight /\ inflight' = inflight \ {i} /\ r = ToRead /\ c = ToCopy /\ p = pending
    BY <1>2, <2>1 DEF Complete, position, ToRead, ToCopy
  <2>3. h = Held - 1
    BY <1>2, <1>6, <2>2, RingFinite, FS_RemoveElement DEF Held
  <2>4. s = StepsOfStage
    BY <1>2, <2>1 DEF Complete, StepsOfStage
  <2> QED BY ONLY <1>1, <2>2, <2>3, <2>4
<1>15. ~Resize
  BY DEF Resize, Get
<1> QED BY <1>8, <1>9, <1>10, <1>11, <1>12, <1>13, <1>14, <1>15 DEF Next, Reader, Fail

\* Whatever fails, comes short or becomes of the file, a get takes at most as
\* many steps as the length it saw has room for: none is made in vain.
THEOREM GetIsBounded ==
  Spec => StepsBounded
<1>1. IInv /\ IInv' /\ [Next]_vars => [0 <= StepsLeft' /\ StepsLeft' < StepsLeft]_Get
  BY StepsLeftDecrease DEF vars, Get
<1> QED BY <1>1, Invariance, PTL DEF Spec, StepsBounded, Get
================================================================================
