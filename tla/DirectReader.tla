---------------------------- MODULE DirectReader ----------------------------
(***************************************************************************)
(* DirectReader of snapshot_store.hpp: a snapshot file read through        *)
(* io_uring with O_DIRECT, a batch of up to Depth chunks at a time.  The   *)
(* kernel takes requests in part, completes them in any order, short or    *)
(* with an error, and writes each into the shared buffer until it does.    *)
(* Another process may change the length of the file meanwhile.  Offsets   *)
(* are in units of which Align make a disk block and Chunk a request.      *)
(***************************************************************************)
EXTENDS Integers, FiniteSets, Sequences

CONSTANTS
  Align, Chunk, Depth, \* direct_alignment, direct_chunk_bytes, direct_queue_depth
  MaxFile,             \* bound on the length of the file
  MaxChanges           \* bound on how often someone changes that length

ASSUME DirectReaderAssumption ==
  /\ Align \in Nat \ {0} /\ Chunk \in Nat \ {0} /\ Depth \in Nat \ {0}
  /\ Chunk % Align = 0
  /\ MaxFile \in Nat \ {0} /\ MaxChanges \in Nat

VARIABLES
  fsize,     \* file_size_, the length fstat gave before the reader was made
  pc,        \* what the reader does next
  next, available, cursor, \* next_offset_, available_, cursor_
  bytes,     \* refill's batch, while it runs
  submitted, \* requests the kernel has taken from the submission queue
  pending,   \* pending_, as the reader counts it
  inflight,  \* requests the kernel still holds
  cq,        \* completions not yet seen: request |-> result
  buffer,    \* buffer_
  out,       \* what read_all has handed to read_record, in order
  size,      \* the length of the file now
  zeroed,    \* offsets cut off and grown back: they read as zero
  changes

ring == <<submitted, pending, inflight, cq>>
position == <<next, available, cursor>>
file == <<size, zeroed, changes>>
vars == <<fsize, pc, position, bytes, ring, buffer, out, file>>

Lesser(a, b) == IF a < b THEN a ELSE b
Aligned(n) == ((n + Align - 1) \div Align) * Align
\* Mutant: the buffer is not rounded up to a block.
CapacityUnaligned == Lesser(fsize, Chunk * Depth)

Capacity == Aligned(Lesser(fsize, Chunk * Depth))

\* The requests of a batch of b units: one per chunk, numbered from 0.
Requests(b) == 0 .. ((b + Chunk - 1) \div Chunk) - 1
Expected(b, i) == Lesser(Chunk, b - i * Chunk)

\* What a unit of the file or the buffer holds: the offset it was written at,
\* Zero where the file was cut off and grown back, Unset in a fresh buffer.
Unset == -1
Zero == -2
At(o) == IF o \in zeroed THEN Zero ELSE o
Error == -1

Init ==
  /\ fsize \in 1 .. MaxFile
  /\ size = fsize
  /\ pc = "copy"
  /\ next = 0 /\ available = 0 /\ cursor = 0 /\ bytes = 0
  /\ submitted = 0 /\ pending = 0 /\ inflight = {} /\ cq = <<>>
  /\ buffer = [o \in 0 .. Capacity - 1 |-> Unset]
  /\ out = <<>>
  /\ zeroed = {} /\ changes = 0

-----------------------------------------------------------------------------
(* The reader.  An exception of any call ends the get: the destructor runs. *)

\* read_all copies what the current batch has left of what was asked for.
Copy ==
  /\ pc = "copy" /\ cursor < available
  /\ \E n \in 1 .. available - cursor :
       /\ out' = out \o [j \in 1 .. n |-> buffer[cursor + j - 1]]
       /\ cursor' = cursor + n
  /\ UNCHANGED <<fsize, pc, next, available, bytes, ring, buffer, file>>

\* refill queues the next batch ...
Refill ==
  /\ pc = "copy" /\ cursor = available
  /\ IF next = fsize
     THEN pc' = "drain" /\ UNCHANGED <<bytes, submitted>>
     ELSE /\ pc' = "submit"
          /\ bytes' = Lesser(Capacity, fsize - next)
          /\ submitted' = 0
  /\ UNCHANGED <<fsize, position, pending, inflight, cq, buffer, out, file>>

\* ... submits it, of which the kernel may take only a part ...
Submit ==
  /\ pc = "submit"
  /\ \E n \in 1 .. Cardinality(Requests(bytes)) - submitted :
       /\ inflight' = inflight \cup submitted .. submitted + n - 1
       /\ submitted' = submitted + n
       /\ pending' = pending + n
  /\ pc' = IF submitted' = Cardinality(Requests(bytes)) THEN "reap" ELSE "submit"
  /\ UNCHANGED <<fsize, position, bytes, cq, buffer, out, file>>

\* (the kernel takes nothing, or refuses)
SubmitFails ==
  /\ pc = "submit"
  /\ pc' = "drain"
  /\ UNCHANGED <<fsize, position, bytes, ring, buffer, out, file>>

\* ... and takes one completion after another until none is pending.
Seen(i) ==
  /\ cq' = [j \in DOMAIN cq \ {i} |-> cq[j]]
  /\ pending' = pending - 1
  /\ UNCHANGED <<submitted, inflight>>

\* Mutant: a short read counts as a whole one.
ReapShort ==
  /\ pc = "reap" /\ pending # 0
  /\ \E i \in DOMAIN cq :
       /\ Seen(i)
       /\ IF cq[i] = Error
          THEN pc' = "drain" /\ UNCHANGED <<position, bytes>>
          ELSE IF pending = 1
          THEN /\ pc' = "copy"
               /\ next' = next + bytes
               /\ available' = bytes
               /\ cursor' = 0
               /\ bytes' = 0
          ELSE UNCHANGED <<pc, position, bytes>>
  /\ UNCHANGED <<fsize, buffer, out, file>>

Reap ==
  /\ pc = "reap" /\ pending # 0
  /\ \E i \in DOMAIN cq :
       /\ Seen(i)
       /\ IF cq[i] # Expected(bytes, i)
          THEN pc' = "drain" /\ UNCHANGED <<position, bytes>>
          ELSE IF pending = 1
          THEN /\ pc' = "copy"
               /\ next' = next + bytes
               /\ available' = bytes
               /\ cursor' = 0
               /\ bytes' = 0
          ELSE UNCHANGED <<pc, position, bytes>>
  /\ UNCHANGED <<fsize, buffer, out, file>>

\* Mutant: after a wait that was interrupted the batch is submitted again.
WaitRetried ==
  /\ pc = "reap"
  /\ pc' = "submit" /\ submitted' = 0
  /\ UNCHANGED <<fsize, position, bytes, pending, inflight, cq, buffer, out, file>>

WaitFails ==
  /\ pc = "reap"
  /\ pc' = "drain"
  /\ UNCHANGED <<fsize, position, bytes, ring, buffer, out, file>>

\* Mutant: finish does not ask whether the last batch was copied.
FinishEarly ==
  /\ pc = "copy"
  /\ pc' = IF next = fsize /\ size = fsize THEN "accepted" ELSE "drain"
  /\ UNCHANGED <<fsize, position, bytes, ring, buffer, out, file>>

\* finish, the last check of read_record before the checksum.
Finish ==
  /\ pc = "copy"
  /\ pc' = IF next = fsize /\ cursor = available /\ size = fsize
           THEN "accepted" ELSE "drain"
  /\ UNCHANGED <<fsize, position, bytes, ring, buffer, out, file>>

\* read_record returns; the reader goes out of scope.
Leave ==
  /\ pc = "accepted"
  /\ pc' = "drain"
  /\ UNCHANGED <<fsize, position, bytes, ring, buffer, out, file>>

\* Mutant: the completion is taken and not counted.
DrainUncounted ==
  /\ pc = "drain" /\ pending # 0
  /\ \E i \in DOMAIN cq : cq' = [j \in DOMAIN cq \ {i} |-> cq[j]]
  /\ UNCHANGED <<fsize, pc, position, bytes, submitted, pending, inflight, buffer,
                 out, file>>

\* The destructor waits for every pending read before the buffer is freed,
\* unless the wait itself fails.
Drain ==
  /\ pc = "drain" /\ pending # 0
  /\ \E i \in DOMAIN cq : Seen(i)
  /\ UNCHANGED <<fsize, pc, position, bytes, buffer, out, file>>

DrainFails ==
  /\ pc = "drain" /\ pending # 0
  /\ pc' = "abandoned"
  /\ UNCHANGED <<fsize, position, bytes, ring, buffer, out, file>>

\* Mutant: the buffer is freed at once.
CloseAtOnce ==
  /\ pc = "drain"
  /\ pc' = "closed"
  /\ UNCHANGED <<fsize, position, bytes, ring, buffer, out, file>>

Close ==
  /\ pc = "drain" /\ pending = 0
  /\ pc' = "closed"
  /\ UNCHANGED <<fsize, position, bytes, ring, buffer, out, file>>

-----------------------------------------------------------------------------
(* The kernel and the file. *)

\* Request i covers Aligned(Expected) units from next + i * Chunk; at most
\* those before the end of the file are read, fewer on a short read.
Complete(i) ==
  LET from == next + i * Chunk
      most == Lesser(Aligned(Expected(bytes, i)), size - from) IN
  /\ i \in inflight
  /\ inflight' = inflight \ {i}
  /\ \/ /\ cq' = [j \in DOMAIN cq \cup {i} |-> IF j = i THEN Error ELSE cq[j]]
        /\ UNCHANGED buffer
     \/ \E n \in 0 .. (IF most < 0 THEN 0 ELSE most) :
          /\ cq' = [j \in DOMAIN cq \cup {i} |-> IF j = i THEN n ELSE cq[j]]
          /\ buffer' = [o \in DOMAIN buffer |->
               IF o \in i * Chunk .. i * Chunk + n - 1
               THEN At(from + o - i * Chunk) ELSE buffer[o]]
  /\ UNCHANGED <<fsize, pc, position, bytes, submitted, pending, out, file>>

\* Someone truncates or extends the file.
Resize ==
  /\ pc \notin {"closed", "abandoned"}
  /\ changes < MaxChanges
  /\ changes' = changes + 1
  /\ \E n \in (0 .. MaxFile) \ {size} :
       /\ size' = n
       /\ zeroed' = zeroed \cup size .. n - 1
  /\ UNCHANGED <<fsize, pc, position, bytes, ring, buffer, out>>

Reader == Copy \/ Refill \/ Submit \/ Reap \/ Finish \/ Leave \/ Drain \/ Close

Fail == SubmitFails \/ WaitFails \/ DrainFails

Kernel == \E i \in 0 .. Depth - 1 : Complete(i)

Next == Reader \/ Fail \/ Kernel \/ Resize

\* The thread runs, and the kernel completes what it was given; no call has to
\* fail.
Fairness == WF_vars(Reader) /\ WF_vars(Kernel)

Spec == Init /\ [][Next]_vars /\ Fairness

-----------------------------------------------------------------------------
(* Properties. *)

\* No unit is handed over that the file did not hold at that very offset:
\* completions in any order, partial submissions and the reuse of the buffer
\* for the next batch never misplace, repeat or invent a byte.
DeliveredInPlace ==
  \A j \in 1 .. Len(out) : out[j] = j - 1 \/ (out[j] = Zero /\ j - 1 \in zeroed)

\* What finish accepts is the whole file that was measured, no less and no more.
AcceptedWhole == pc = "accepted" => Len(out) = fsize /\ cursor = available

\* pending_ is exact, the reader waits only while a read is under way or
\* completed, and the buffer and the ring are given up only when no read can
\* still write into them; only a failing wait in the destructor leaves reads
\* behind.
BufferOwned ==
  /\ pending = Cardinality(inflight) + Cardinality(DOMAIN cq)
  /\ pc = "reap" => pending # 0
  /\ pc = "closed" => inflight = {}
  /\ pc = "copy" => inflight = {} /\ cq = <<>>

\* Every request is a block-aligned read of whole blocks, fits the ring and
\* stays inside the buffer, the padded last one included.
RequestsFit ==
  pc \in {"submit", "reap"} =>
    /\ Cardinality(Requests(bytes)) \in 1 .. Depth
    /\ next % Align = 0
    /\ \A i \in Requests(bytes) :
         /\ Expected(bytes, i) > 0
         /\ i * Chunk + Aligned(Expected(bytes, i)) <= Capacity

\* The steps reader and kernel can still take: for each unit left to read at
\* most a batch of its own, for each unit read at most a copy of its own, and
\* for each request that it is submitted, completed and seen.
StepsOfStage ==
  CASE pc = "copy"     -> 3 * Depth + 5
    [] pc = "submit"   -> 3 * (Cardinality(Requests(bytes)) - submitted) + 4
    [] pc = "reap"     -> 4
    [] pc = "accepted" -> 3
    [] pc = "drain"    -> 2
    [] pc \in {"closed", "abandoned"} -> 0

StepsLeft ==
  (3 * Depth + 2) * (fsize - next) + (available - cursor)
    + Cardinality(inflight) + pending + StepsOfStage

\* Each of their steps uses up one of a number fixed by the file's length when
\* it was opened: no request is tried again, whatever fails, comes short, or
\* becomes of the file meanwhile.
StepsBounded ==
  [][0 <= StepsLeft' /\ StepsLeft' < StepsLeft]_<<pc, position, bytes, ring, buffer, out>>

\* A get always comes back: no error, short read or change of the file leaves
\* the reader waiting for a completion that cannot come.
Terminates == <>(pc \in {"closed", "abandoned"})
=============================================================================
