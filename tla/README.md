# Verification of bitnet-moe-script

TLA+ models of this repository, the TLC runs that check them and the theorems
TLAPS proves about them. Paths below are relative to the repository; `PC/` stands for
`benchmark_script/qwen36_prefix_cache_cuda/`.

The repository is a tool box around `llama.cpp` and a reference model: it
generates GGUF files, builds and benchmarks inference, verifies precision, and
measures what a prefix cache gains. Most of it is sequential glue. What has state,
failure and concurrency of its own is the prefix-cache benchmark: a
crash-safe snapshot store, an asynchronous direct reader, a probe that has to
leave honest files whatever fails, and a runner that has to publish only what was
measured with the files it froze. The project starts there, and goes on with what the
sequential programs can get wrong: a model loaded from an incomplete checkpoint, a GGUF file
whose data do not match its tensor infos, a verdict drawn from results that are missing.

## 1. Inventory

| Component | Source | State it keeps | Operations |
|---|---|---|---|
| Snapshot store (promise) | `PC/snapshot_store.hpp` | a map from keys to immutable snapshots | put, get |
| `DirectFileStore` | `PC/snapshot_store.hpp:573-616`, helpers `:187-540` | one directory: `KEY.qcache` entries, staging files of live and dead processes, other people's files | put, get |
| `MemoryStore` | `PC/snapshot_store.hpp:543-571` | `entries_`, `used_bytes_` | put, get |
| `DirectReader` | `PC/snapshot_store.hpp:235-341` | buffer, `next_offset_`, `available_`, `cursor_`, `pending_`, the io_uring | read_all, refill, finish, the destructor |
| checked restore | `PC/snapshot_store.hpp:635-650` | the context it is handed | clear, import, clear again |
| Trial schedule, summary status | `PC/benchmark_stats.hpp` | none (pure) | make_schedule, summarize, derive_rates |
| Snapshot probe | `PC/snapshot_probe.cpp` | the llama context, two stores, five tables | one case: golden request, capture, trials, summary |
| Sweep runner | `PC/run_sweep.py` | frozen runtime id, model identities and digests; summary rows; `index.tsv` | prepare, check, run a case, publish |
| Prefix-cache build | `build_script/build_qwen36_prefix_cache_cuda.sh` | libraries, probe, `runtime.sha256` | rebuild in place |
| Reference inference | `model_config/simple_quant_moe_infer_with_mtp.py` | KV cache and its length | prefill, decode, generate, with MTP or without |
| Checkpoint loader | same file, `:49-436`, `:825-1273` | configuration, tensors not yet taken, attributes set | load_model |
| GGUF generators | `generate_model_script/*.py`, six scripts | the output directory: tokenizer, F16 file, I2_S file; the writer's tensor infos and data | download, two passes over the tensors, llama-quantize, report |
| TernarySEQ quantiser | same reference file `:380-392`, and copies in `verify_precision_script/` and `generate_model_script/` | none (pure) | quantise a row under a clip |
| Precision verification | `verify_precision_script/verify_precision_qwen36_bitnet.py` | collected results, errors, verdict | run commands, parse, verdict, write |
| Memory monitor | `benchmark_memory_monitor_script/*.sh` | samples, peak | sample a process found by name |
| Launchers, builds, benchmarks, figures | `*.sh`, `images/*.py` | none | sequential scripts |

How they interact. The launcher starts the runner; the runner starts one probe
process per case and communicates with it through the exit status and the files of the
case; the probe uses both stores, `make_schedule` and `summarize`, and restores
snapshots into the llama context through checked restore; `DirectFileStore::get` reads
through `DirectReader`. Builds and people replace the very files the runner
depends on. Processes that share a snapshot directory know nothing of each other.
The reference inference is a program of its own: one thread, one request at a time, one cache;
its `main` loads a checkpoint, through the loader, and then serves. A generator writes the F16 file that
`llama-quantize` reads; what the next run finds in the output directory is all the runs have in common.
The precision verification starts one process after the other and talks to them through their output.

What is hard, and where (every hazard is listed with its line in `PROJECT.json`):

- **Durability and atomicity** of put: a staging file, an fsync, a rename without
  replacement, a directory fsync; each may fail, the process may die between any
  two, power may go, names derived from a pid may collide.
- **Asynchronous reads**: completions in any order, partial submissions, short
  reads, errors while other requests still write into the buffer.
- **Partial failure in the probe**: one exception handler for everything, which has to
  leave files that nobody takes for a complete case.
- **Stale checks in the runner**: what was hashed or compared is used later,
  while somebody replaces it.
- **A cache that is never erased** in the reference inference: a reset only forgets the length,
  a call that raises leaves half of its tokens in some slots, and the layers of a second
  pass or the MTP head read what others wrote.
- **Two descriptions of one file** in the generators: the tensor infos and the tensor data come from
  different code, and GGUF data carry no names.
- **Interrupted runs** of the generators: everything is written under its final name.
- **Missing results** in the precision verification: any command may fail or print what cannot be parsed, and
  the verdict is drawn from the rest.
- **Configurations** of the loader: what is loaded depends on options in one place, what is dereferenced on
  options in another, and overrides change the options in between.
- **Boundaries**: rotation formulas stated twice, a quota at 2^64, a context
  rounded up to 256.

What makes each correct: an entry is complete, durable once acknowledged, never
replaced, and found only under its exact identity (stores); bytes arrive in place
and the buffer outlives its reads (reader); requests are answered from the right
context and the tables are truthful after any failure (probe); published rows are
verified, measured with the frozen files, and stay (runner); logits depend on the tokens of the
current request, all of them and nothing else (inference); a loaded model has every tensor its calls
will use, each from the right place and quantised as often as it should be (loader); the file is what its
header says, and success means a pair of files that belong together (generators); the exit status is
earned (verification).

## 2. Modules

| Module | Models | Role |
|---|---|---|
| `SnapshotStore` | what a store promises | abstract specification |
| `FileStore` | `DirectFileStore`, `TempFile`, `write_record`, `read_record`, `used_bytes` | implements `SnapshotStore` |
| `MemoryStore` | `MemoryStore` | implements `SnapshotStore` |
| `DirectReader` | `DirectReader` and the kernel's side of the ring | |
| `BenchmarkStats` | `make_schedule`, `summarize` | operators, used by `Probe` |
| `Probe` | `run` of the probe with all that it calls | extends `BenchmarkStats` |
| `SweepRunner` | `run` of the runner, the build, others | |
| `Loader` | `load_model`: `ModelConfig`, overrides, `load_model_state`, `_TensorStore`, the load functions | |
| `Inference` | `QuantMoEInferenceModel`: KV cache, prefill, decode, generate, MTP | |
| `Service` | `main` of the reference inference | composes `Loader` and `Inference` |
| `GgufTensors` | configurations, metadata and the two passes of the generators | operators, used by `Generator` |
| `Generator` | `main` of the six scripts, run after run | |
| `Verification` | `main` of `verify_precision_qwen36_bitnet.py` | |
| `Ternary` | TernarySEQ in its copies | operators |
| `MC*` | instances for TLC | |
| `*_proofs` | theorems about a component; `Tools_proofs` has those of `Generator`, `Verification` and `Ternary`, `Probe_proofs` those of `BenchmarkStats` too, `Inference_proofs` those of `Loader` and `Service` too | |
| `FoldTheorems` | nothing: lemmas on what `SumFunctionOnSet` and `FlattenSeq` compute | used by the proofs |

Definitions whose comment starts with *Mutant* are plausible bugs (a dropped guard,
a swapped order, a missing fsync). They are used by no specification; `PROJECT.json`
names, for every property, one that replaces a definition and breaks it, which
shows that the property says something about the code.

### SnapshotStore

`stored`, `acked` and `answer`: what a get of each key finds, what was
acknowledged, what each reader was told last. `Publish` fills an empty key,
`Acknowledge` returns, `LoseUnacknowledged` is a power loss, `Get` answers hit only
for the exact identity, incompatible for another, miss for an absent key. Corrupt is
always allowed: an I/O error is reported so, and so is a foreign file under the
key's name.

### Loader

`LoadArgs` is `load_model_args` with the overrides, validated before and after; `LoadState` the merged
checkpoint. `Plan` is the order in which the constructor asks for tensors, as a sequence of steps, and there
is one action for each load function (`LoadNorm`, `LoadLinear`, `LoadHeadLinear`, `LoadExperts`, ...) that takes
its tensors out of `store` or refuses the load. A tensor is its name and what has been done to it since
(`bf16`, `ternary`, `int8`, `normalised`); the model is a map from attributes to those. `Uses` is
what `__call__` and the forward functions dereference, translated from those and not from the load
functions, so that the two can disagree. A dimension is checked where the code checks it: head
linears, the width of a gate, clips and packed experts; where the code computes with a wrong shape
without looking at it, whether that raises is left open (`MayRaise`). Block sizes and `max_seq_len` are not
looked at by `validate`; `_blockwise_int8_weight` (`NoBlocks`) and the allocation of the cache (`Finish`) refuse
them. `LoadSpec` is the load alone; `Configurations`
are the configurations there can be (`LoaderAssumption`), any widths and any option lists, valid or not.

### GgufTensors, Generator

`Registered` and `Written` are the two passes, each translated from its own function. Sizes are in
units of 256 elements, which all tensors are multiples of (`WholeUnits`, checked), so that no total
leaves TLC's integers. `Generator` writes tensor by tensor (`WriteTensor`) and
carries where the tensor is and where its tensor info says it is. `Abort` is a failing call or a kill at any
point, with what was begun half done; the next `Start` finds it.

### Verification

`Prepare` is everything before the models, `MeasurePpl` and `Ask` are the commands with their parsers,
`Judge` the verdict, `Write` the `finally`. A perplexity is a mean, an error and a number of chunks.
`disturbed` says that something failed to run, to be parsed or to be written; the code has it as
an entry of `errors` or as an exception nobody catches.

### Ternary

One weight of a row in exact integers: `w`, the clip and the level. The copies differ in the clip they
assume (`RowClip`, `DefaultClip`).

### FileStore

One action per system call of put (`PutBegin` ... `SyncDirectory`), each with its way
out of the function: `FailEarly` before a staging file exists, `CreateStaging` with
the retries of `TempFile` on `EEXIST`, `FailStaged` through `~TempFile`, which unlinks
by name and may fail, `FailDirectorySync` after the rename. `Crash` ends a
process between any two calls and leaves its staging file; the next process may have
any pid and counts its names from zero again. A get opens (`GetOpen`) and later reads
and judges the file (`GetRead`).

The disk. `dir` maps names to inodes; `onDisk` is the set of directories a power
loss may leave: all versions since the last directory fsync, in order, as a journal
keeps them (this order of *directory* operations is the one thing the model
assumes of the file system). Bytes of a file have no order: a power loss may destroy the contents of
any file that was not fsynced, whatever its name is by then. `PowerLoss` picks a
version and the files that lose their bytes.

Data. A record is its snapshot, the length written, whether the checksum is in,
whether it was fsynced and whether its mode is private. That a complete, sealed
record passes the CRC, and nothing else does, is the abstraction. A foreign file
never holds a record.

### MemoryStore

`entries`, `used` (`used_bytes_`) and the last answers. `Put` has the guards of
`record_size`, the duplicate test and `check_quota` in the code's own form (two
comparisons, no sum). The running total is a `uint64_t`: `Plus` wraps at `Width`, which the limits are below, as
they are `uint64_t` themselves. Every put is acknowledged at once, so it implements
`SnapshotStore` with `acked <- entries`.

### DirectReader

The variables are the fields of the class; `Requests`, `Expected`, `Aligned` and
`Capacity` are its arithmetic. `Refill`, `Submit` and `Reap` are the three loops of
`refill`, `Copy` is `read_all` with any split of the bytes asked for, `Finish` is
`finish`, `Drain` and `Close` the destructor. The kernel (`Complete`) finishes requests in any order,
short, or with an error, and writes the bytes of the file as it is *then*; `Resize`
truncates or extends the file in between. Every unit of the file is
represented by its offset, so a misplaced byte is visible in `out`.

### BenchmarkStats and Probe

`TrialAt` is the j-th element of `make_schedule`; `Summarize` is the status part of
`summarize`. Values are abstracted to number, null and not finite; a number is an integer amount in a unit
of which the largest double is `Largest`. `FiniteStatistics` is the last test of `summarize`: a complete
set of finite amounts is failed, and not passed, when its deviation is no finite double (the code's own
test has the largest double and its negative). The mean never is the reason: it lies between the amounts,
and it is accumulated in a wider type. What the probe measures is never negative, and then the deviation is always
finite (`NonNegativeIsFinite`), so that the rows of `Probe` need one amount.

`Probe` follows `run`: `turn` numbers what `current` stands for (-4 load, -3 golden
request, -2 and -1 capture into the two stores, then the schedule). Every call has
an outcome that throws, at which point the context may be anything the call could
leave. The context is represented by what it holds ("A prefix", "A prompt", "B",
"mixed", "junk"); equal contexts give logits that pass or fail the
tolerance, different ones fail. `Catch` and `WriteClosing` are the handler; a
write that fails may have reached the file or not.

### SweepRunner

One action per system-level step of `run`. `check_runtime` is three (tree,
manifest hash, `sha256sum --check`, which reads the manifest again), `check_frozen`
adds the models; in between anybody may replace a part, the manifest, a model or the
checkout. Contents are versions: a part can come back to what it was, a model
cannot (its identity holds its mtime and ctime). `index.tsv` has the buffer of a
Python text file: a failing flush or a close may still write a part of it.

### Inference

A call is refused (`Enter`, `Refuse`) or runs: each self-decoder layer of each loop (`SelfLayer`)
appends to its own slot and attends to it, the YOCO cache is written once (`AppendYoco`) and read by every
`CrossLayer`, `Commit` advances the length, then come `OutputHead` and perhaps `RunMtp`. `Generate`
is a prefill and rounds of `Sample`; sampling may choose any token. `Fail` ends a call anywhere,
between the two copies of a slice too. A tensor of one token is represented by the number of
layers that made it and the positions and tokens it depends on; reading an entry of the wrong layer, or
one half written, makes it undefined. Nothing in the model erases the cache, as nothing in the code does.

`history`, the tokens the cache stands for, is the one variable the code does not have: it follows
prefill, decode and reset as their docstrings describe them, and the properties compare the cache and the
logits with it.

### Service

`main`: the steps of `Loader` until the model is loaded, `Serve`, then those of `Inference`. `Serve` wants a
configuration that `Describes` the model of Inference's constants (its window decides about no tensor and
is not part of the configuration) and forgets what was loaded; every other load ends where it is.

## 3. Runs

| Run | Shows |
|---|---|
| `filestore_writers` | two processes that share a pid, one key: private staging files; entries complete, durable after acknowledgement, never replaced |
| `filestore_shared` | a writer, a reader, a foreign file and a small quota: quota, foreign file untouched, implementation of `SnapshotStore` |
| `memorystore` | exact accounting, implementation of `SnapshotStore` |
| `directreader` | bytes in place, whole file accepted, buffer and ring safe, no wait in vain, requests aligned and inside the buffer, a bounded number of steps, termination |
| `tools` | three sequential tools. `summarize` says pass for exactly the right rows, schedule and summary agree; the data of each generator are where and what its header says, the totals and metadata agree with the file, success means a matching pair; the verification's exit status is earned |
| `probe` | sound contexts, truthful files after every failure, records in the order of the schedule with what failed as the last, a bounded number of steps, termination |
| `sweep` | only verified rows, measured with frozen files, are published; they stay; the log is true; success is complete; a bounded number of steps, termination |
| `inference` | what is loaded is complete and of the right provenance; cache, logits and generated tokens depend on the request alone, whatever was refused or raised before; capacity |
| `probe_means` | finding 1 |
| `sweep_index` | finding 2 |
| `sweep_builds` | finding 3 |
| `generator_skip` | finding 4 |

Bounds, and why they are enough:

- *File store.* Two writers with **one** pid and two numbers (`MaxSeq = 1`) make every
  collision of staging names happen, `MaxAttempts = 2` both a retry and the last
  failing attempt. One key, because no code path relates two keys except the quota,
  which counts files; the theorems are for any number. `FewVersions` keeps at most three
  directories per journal (two directory operations without an fsync: create
  and rename, or create and unlink); longer ones repeat the pattern, and the proofs
  have no such bound. The view drops the contents of inodes nobody refers to, which
  `CreateStaging` resets; inodes, writers and snapshots are symmetric (the
  properties checked with symmetry are invariants and step properties, not liveness). In the
  shared run a third number (`MaxSeq = 2`) lets a foreign file and two abandoned
  staging files lie there at once, which is what makes the quota of three chunks bite. With more
  than one writer it cannot hold, since each counts before the other has written;
  the limit is documented for one writer, so it is checked with one.
- *Memory store.* Three keys against a quota of four bytes: some puts fit, some fill
  it exactly, some are refused. `Width` is five, just above the quota, so that every sum that `check_quota` avoids
would wrap (mutant `PutAdding`).
- *Reader.* Blocks of two units, requests of two blocks, two requests per batch and
  files of up to nine units: files smaller than a block, exact batches, a second batch
  with one padded request. Two changes of length allow truncating and growing back,
  after which the file reads as zeros.
- *Statistics.* Arbitrary rows for up to two rounds with one surplus row (duplicates,
  gaps, surplus), with amounts zero and the largest double of either sign (`Largest = 1`): two opposite ones have no finite
  deviation, two equal ones have; schedules for up to three rounds (a whole rotation) after one or two of
  warmup, which is no multiple of three. An assumption of `MCTools` compares the deviation with
  another way to compute it, for up to four amounts.
- *Probe.* Two measured rounds after one of warmup, a metric with values and one
  without; every call fails at every point, which is what matters here.
- *Runner.* Two models and two lengths: a case in the middle, a last one, a change of
  model. Four changes by others: replace two parts and put them back, or replace, rewrite the
  manifest, and both again. The first two findings need none or one build only.

- *Tools.* The three programs of `MCTools` know nothing of each other; `tool` picks one, so that their
  states add up and do not multiply. Generators: all six scripts with every combination of flags and two
  runs, which is what an I2_S file of an older F16 file needs. Verification: three models,
  two checks (a pass and a loss in one run), perplexities that are far apart, near or equal, on all chunks
  or on one. The quantiser has no states: an assumption of `MCTools` compares it with the nearest of
  its three values for all clips up to 12.
- *Loader.* YOCO-MoE-30B-A3B-v3 and L3, a plain configuration without cross-decoder and experts, and two that
  are invalid (a target there is not, key heads that do not divide the others); v3 with either block size, and the plain one with a cache
  length, that is not positive; two layers (a self- and a cross-decoder layer, one of them dense in L3) stand for any
  number. Overrides turn MTP, expert and embedding quantisation on and off. Checkpoints: the weights
  alone, all tensors, those the overridden configuration needs, the other gate name, both names, each
  weight missing, each weight and clip misshapen.
- *Inference.* Three positions are the fewest at which a window of one leaves something out for
  one layer and not for two; one self-decoder layer run twice separates slots from layers; two
  tokens tell one request from the one before in the same position. Prompts of up to two tokens and three
  new ones reach and pass the capacity. One call raises (`MaxRaises`), at any point: what it leaves
  meets every later sequence of calls.

Deadlock is not checked: every one of these programs may end.

Fairness. `DirectReader`: the thread runs (`WF(Reader)`) and the kernel completes
what it took (`WF(Kernel)`); failures have no fairness. `Probe`: the process runs on.
`SweepRunner`: the runner runs on, **and every probe exits**: `subprocess.run` has no
timeout (`PC/run_sweep.py:267`), so this is an assumption about the probe, whose own termination
(`Probe!Ends`) is checked under the assumption that calls of the backend return. The
termination properties have a part without fairness, `StepsBounded`: each step of the program uses up one of a number
(`StepsLeft`) that is fixed beforehand, so that nothing is retried or repeated without end. Fairness only has to exclude
that a step that can be taken never is; for the reader, `BufferOwned` says that there is a read to wait for. The
stores and the inference have no liveness property: a put may fail at any call. The loader, the generators and
the verification are straight-line or bounded loops, whose end is no question.

## 4. Findings

1. *A failing case can leave means* (`probe_means`, `FailedLeavesNoMeans`). The comment at
   `PC/snapshot_probe.cpp:324` says "A failed/incomplete experiment cannot leave
   successful-looking partial means." It holds for trials that fail (that is
   `NoPartialMeans`); but when a write of `summary.tsv`, or of the closing metadata, fails after all
   trials have passed, the pass rows stay and the process returns 1. The runner is not misled: it
   looks at the exit status first, and `FilesTellTheTruth` shows that the files still describe
   trials that passed.
2. *A failed case can be published* (`sweep_index`, `FailedPublishesNothing`). `PC/README.md:102`
   promises that a failed item publishes no rows. The pass event is written after
   `publish_summary` inside the same `try`: if that write fails, the item is logged as failed
   with its rows in `summary.tsv`.
3. *Two builds can be mixed* (`sweep_builds`, `BuildsNotMixed`). `PC/README.md:46` and the error text
   at `PC/run_sweep.py:106` promise that builds are not mixed. `check_runtime` hashes
   the manifest, and `sha256sum --check` then reads it again; if the build's `mv` of its new
   manifest falls between, the check passes against the new one and the case measured with the
   new library is published. `PublishedFromFrozen` shows the extent: it can only be the
   last published case, because every later check refuses the manifest.
4. *`--skip-i2s` ends in an exception* (`generator_skip`, `SkipI2sCompletes`). The help of
   `generate_model_script/generate_yoco_moe_30b_a3b_v3_models.py:614` promises to skip the quantisation. The
   report at `:670` names `i2s_path`, which only the branch that quantises has given a value: the F16 file is
   written, then a `NameError` ends the script with a failing status. The dense scripts ask
   `if not args.skip_i2s` first.

Smaller disagreements that need no run, since no state leads to them:
- The verification scripts quantise "as in simple_quant_moe_infer_with_mtp.py", which without a stored clip
  takes twice the row's maximum (`:864`), and they take the maximum. `DefaultClipDiffers` says what
  that does to the largest weight.
- In the generators, names such as `q_proj` in `quant_names` match none of the suffixes used, so
  that the blocks are written unquantised and only `yoco_cross_k` and `yoco_cross_v` are ternary in the F16 file;
  `llama-quantize` then quantises those twice (`TwiceKeepsLevels`: the levels stay, the values shrink).
- `--skip-f16` accepts whatever lies under the F16 name, a file of an aborted run included; a half-copied
  `tokenizer.model` is taken for a complete one and stops every later run that loads it.
- `u_moe` speaks of "30 unrolled layers" in its docstrings; the loops write ten stored self-decoder layers once.
- `--quant-moe` is documented for routed experts only, and sets `act_quant_method` for every
  bit-linear projection.
- `metrics.json` may say 0 when the process exits with 1, if `summary.txt` cannot be written after it
  (`VerdictEarned` shows that the pass it records was earned); a check of I2_S that could not be executed counts
  as lost in `quality`, though not in the exit status.

## 5. Theorems

Every theorem holds for all values of the constants under the named assumptions of its
module.

**FileStore_proofs.** Assumptions: `FileStoreAssumption` (types) and `KeyAssumption`: no key
is a staging name. The latter is the code's: `valid_key` admits letters, digits, `_` and
`-`, and staging names start with a dot. The inductive invariant `IInv` has, besides `TypeOK`,
- `PutKnown`, `OwnFile`, `OneOwner`: a put that has a staging name holds an inode that
  no other put holds and that no other name reaches, in *any* directory that may survive;
- `Written`: how far the record is at each stage, so that what is renamed is complete and fsynced;
- `Linked`: between the rename and the directory fsync the key leads to this put's record,
  so that the acknowledgement is about it;
- `Journal`: the directories a power loss may leave only ever gain entries towards `dir`;
- `PublishedComplete`, `AckedDurable` themselves, and facts on foreign files and open gets.

None is inductive alone: that a rename publishes a complete record needs `Written`, which
needs that nobody else writes to the inode (`OneOwner`), which needs that a fresh
inode is in use by no surviving directory. From `IInv` follow `TypeCorrect`,
`StagingIsExclusive`, `PublishedIsComplete` and `AckedIsDurable`, and for steps
`EntriesAreNeverReplaced` and `ForeignFilesAreKept`.

`ImplementsSnapshotStore`: `RInv` adds that an opened file is
still under its key when it is judged (entries are never replaced, so the verdict is true
*at the time of the answer*), and that foreign files stay and hold no record. Each step is
mapped: a rename is a `Publish`, the directory fsync an `Acknowledge`, a power loss
`LoseUnacknowledged`, the end of a get a `Get`; all others stutter.

`QuotaIsRespected`, for one writer and a directory that starts within the quota. `QuotaInv` has the
idea in `Reserved`: from the check to the creation, what `used_bytes` counts plus the record is within the
quota; while the record is written, all files but the put's own, plus a whole record, are, in every directory a
power loss may bring back with the staging file. A directory has finitely many linked names (`FiniteDirectories`), because the files of
others are finitely many and every step links at most one more.

**MemoryStore_proofs.** `TypeCorrect`; `AccountsExactly`: `used_bytes_` is the sum of the records held
(`Counted`; the sum grows by what a put adds) and the two comparisons of `check_quota` keep
it within the quota, so that no addition wraps (`NoWrap`), whatever the width; `ImplementsSnapshotStore`.

**DirectReader_proofs.** `DeliversInPlace`, `AcceptsWhole`, `OwnsBuffer`, `FitsRequests`, for all sizes of
file, block, request and queue and any changes of length. The invariant follows a byte:
`Filled` says that what a completed request claims is where it belongs, and that a request that was
seen is complete; the last request of a batch makes the whole batch `Ready`, which is what a copy reads;
`Delivered` says that what was handed over is the file up to the cursor. `OnBlock` (only the last batch ends
off a block) is what makes every offset aligned, `Ring` what makes `pending_` exact.
`OwnsBuffer` also says that whenever the reader waits, a read is with the kernel or completed. `GetIsBounded`: `StepsLeft`
pays for each unit of the file a batch and a copy, for each request that it is submitted, completed and seen; every step of
reader and kernel uses up at least one. Both are what the termination of a get rests on, besides fairness.

**Probe_proofs.** First the schedule and the status, for every number of rounds.
`ScheduledRowsAreAccepted`: `make_schedule` and `summarize` state the rotation in different ways and agree;
`ModeOncePerRound`. `PassMeansMeasured`: for any sequence of rows whatever, a mean is given
exactly for one passing row a round with amounts of a finite deviation, and such rows without one are failed. The code only counts rows; that the rows accepted are as many as the rounds, and
no round is met twice, leaves no round out, since they map onto the rounds. A schedule that runs is never failed by
its statistics: `SquareBounded` bounds the sum of the squares for amounts that are not negative. `PassesAreExact` and
`SchedulesAreAccepted` say so of the states of the run.
Then the probe, for any number of rounds and any metrics: `AnswersFromPrompt`, `RecordsOnce`, `MeansAreWhole`,
`FilesAreTrue`. `TurnOK` and `RecordsOK` tie the control point to the records: they are the golden request's, then
the trials' in the order of the schedule, those before the current one all passed, and perhaps one
of an error for a trial that has none. `TablesOK` then says that a row with a mean, or the word that
parity passed, is written only when every trial has passed (`Done`), and `VerdictOK` what a process that returns 0 has
written by then. `CaseIsBounded`: a case takes no more steps than rounds and metrics allow.

**SweepRunner_proofs.** `ContextHolds` (the context is the least multiple of 256 that holds
the prompt, within the admitted maximum because that is a multiple itself), `TypeCorrect`,
`OnlyVerifiedIsPublished`, `PublishedRowsAreKept`. The invariant ties the control point to
the table (`Progress`: at every point of case n the table has n-1 records, n from the replacement
on) and says that a row that is about to be staged comes from an accepted report
(`MeasuredOK`).

`PublishedRowsAreFrozen`: versions of a model only grow, and so do those of a part changed at most once,
so what a probe loaded lies between what was frozen and what is there at the check
after it (`LoadedAge`); if those agree, nothing lay between. A part whose manifest was replaced with it escapes that
check, and `EarlierSettled` says that no row but the last can have met one.
`IndexIsTrue` and `SuccessMeansAll` are about the log, that is the file and what a failed flush left in the
buffer: `Alternates` says what stands where, `Logged` how much there is at each point. `index.tsv` is a prefix
of it, except after a failure, which ends it. `SweepIsBounded`: whatever fails and whoever changes files, the runner
takes no more steps than models and lengths allow; 18 for a case, and before the first two for each model. Models and lengths are assumed distinct, as the parser makes them.

**Inference_proofs.** `CallsFit`, `CacheIsHistory`, `LogitsSeeAll` and `GenerateContinues`, for any number of
layers, loops, MTP depths, positions and failing calls and every window. `Entry(text, d, p)` is what d layers make of
position p; `WrittenOK` says that the slots the running call has passed hold that up to the new length, the others up to
the old one, and what lies above the length is arbitrary: that is why neither a reset nor a
call that raised has to erase. `HiddenOK` is the same of the tensor that goes from layer to layer. These theorems are about
`Spec`, the model alone.
The attempt to prove them for every window found an error in the property: without a window it said of the keys of the
first layer, too, that they depend on all positions before, when they depend on their own token (`Reach`); the run, with
a window of one, could not tell.

The load, about `LoadSpec`: `LoadsWhole` and `LoadsSoundly`, for every configuration, with any number of layers,
every override and every checkpoint. Three parts. The plan: `Laid(c, q, U)` says that the steps q set
exactly the attributes U, each by one step, and none before one it needs; it is proved of every part
of the constructor and of their concatenation (`LaidPlan`), whatever the options. The uses: what the
forward functions dereference is among what the plan sets (`UsesArePlanned`), though one is translated from
`__call__` and the other from the constructor. The steps: `LoadInv` says that the attributes behind the plan's
head are sound (`SetSoFar`), and that the tensors of those still to come are all still in the store (`Untouched`), because
no two attributes share a tensor (`OwnApart`), not even through the second name of a gate; so a
tensor that is not found was never in the checkpoint. A load that refuses is one of `Refused`, which is the list of reasons
of `LoadedIsComplete`, the sizes that nothing validates among them (`BadSizes`).

The two together, about `ServiceSpec`, which is what the run checks: `ServiceIsSound` has all six properties. Its invariant
is that of the inference, which a load cannot disturb, and `LoadInv` until the model serves (`ServiceInv`).

**Tools_proofs.** `VerdictIsEarned`: the exit status of the verification, and the one `metrics.json` shows, for any
number of checks, any `--chunks` and any perplexities. The invariant has two ideas. `Answered`: without an
error, every command that was run has an answer, so that what `Judge` calls lost is a wrong answer and
not a missing one. `Justified`: from `Judge` on, the exit code is 1 for errors, 2 for
a regression and 0 for a pass; `PassSeen` and `PassAllowed` show that the chain of conditions in
`main` lets exactly the earned passes through.

`PairIsMade`: a generator's success leaves the pair it names, for any number of runs, whatever the tensors. `PairInv` says
for each stage what is already there: behind the second pass this run's complete F16 file unless it is reused, behind
`llama-quantize` an I2_S file made from it.

What the file says of itself, first for every configuration of layers, loops, experts and widths (`Configurations`), of which
the six scripts have one each: `PassesAgree` (what the second pass writes is what the first
has registered), `CountsWhatIsWritten` (the printed total is the sum over what is written), `MetadataDescribe` (the
metadata are true of it, given a cross-decoder and a row for every token). Each of the three is about two pieces of code
that walk the same layers in their own way. All come down to one sequence, `AllTensors`: both passes map it, tensor by tensor, and
`AllTyped`, `LayersCounted` and `BlocksThere` say what it consists of, layer by layer. Then `DataIsAsDeclared` and
`FileDescribesItself`, about the scripts as they run: `WritingInv` says that position and registered offset are equal
and that the elements counted are the sum over the tensors so far.

The quantiser, for every weight and clip: `LevelsAreSigns` (clamping at 0.99 is what keeps the rounding below 2),
`NearestOfThree`, `TwiceKeepsLevels`, `DefaultClipDiffers`.

**FoldTheorems.** `SumFunctionOnSet` and `FlattenSeq` are recursive functions under a `CHOOSE`. The
lemmas show that such a function exists for every finite set and every sequence, and from its equations what the
stores and the statistics need of sums (`SumRemove`, `SumSame`, `SumMonotone`, `SumBounded`), the loader of concatenations
(`FlattenInduction`, `FlattenMapped`) and the generators of the sum over a concatenation (`SumFlatten`). Induction is by a minimal counterexample
(`FS_StrictSubsetOrderingWellFounded`, `WFMin`), since the induction theorems of the library take an operator
as a parameter, which no installed prover can instantiate.

Only model-checked: the three termination properties, of which fairness and `ENABLED` are beyond the provers, while the bounds they
rest on are proved; the four properties of section 4, which fail. Every other property of a run is stated by a theorem.

## 6. Not modelled, and why

- The codec, the CRC polynomial, tolerances, and the values of floating-point statistics (whether they are
  finite is modelled): data.
- Sums in `used_bytes` (`PC/snapshot_store.hpp:376`) near 2^64: `FileStore` adds in the natural numbers, and a
  directory with files of 2^64 bytes together is beyond any quota.
- `open_root` and argument parsing: straight-line validation before anything is shared.
- Power loss for the runner: it promises no durability (`summary.tsv` is replaced without a
  directory fsync, recorded as a hazard).
- Launchers, other builds and benchmarks, figures: sequential scripts without state that
  outlives a command.
- The arithmetic of the reference inference (experts, activation quantisation, rotary embedding, sampling
  probabilities): data. Of weight quantisation, `Ternary` has the exact part.
- Reading the checkpoint files: it refuses before anything is taken. A device that is not there, or without the memory
  for the tensors. Collisions of names after the wrappers are stripped: the last one stays.
- Random values, token texts and progress lines of the generators. A `llama-quantize` that lives on
  after its script was killed.
- `verify_precision_yoco_moe_30b_a3b_v3.py` and its `u_moe` twin beyond their quantiser: they print
  floating-point differences and draw no verdict.
- Memory monitor: shell loops that draw samples of a process found by name while it starts and ends. They
  promise nothing about what falls between two samples, so there is nothing to hold the model to.

## 7. Plan

Done in this order: abstract store, file store, memory store, reader, schedule and status,
probe, runner, inference; proofs of the stores, the schedule and the runner; loader and its composition with
the inference, generators, verification, quantiser; proofs of the last three; proofs of the quota and the accounting,
of the reader, the probe and the statistics, of the runner's other invariants, of the inference and of the loader;
proofs of what the generated files say of themselves, for every configuration; bounds on the steps of a get, a case and a
sweep; the proof of the inference behind its load.

Type invariants: those of the stores and of the runner are theorems (`TypeCorrect`) and no longer properties of a run. Reader and
probe state none, since ranges of counters say less than the invariants they do have; their proofs have them as a part
(`Bounds`, `TurnOK`).

Left: the arithmetic of section 6, which would need a model of floating-point numbers, and proofs of the three termination
properties (section 5).
