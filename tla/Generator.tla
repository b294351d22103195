------------------------------ MODULE Generator ------------------------------
(***************************************************************************)
(* A script of generate_model_script/, run again and again over one output *)
(* directory: the tokenizer, the F16 file, llama-quantize, the report.     *)
(* Any call may fail and the process may be killed between any two; what   *)
(* has been written stays under its final name, nothing is renamed into    *)
(* place.  A file is stamped with the run that wrote it, since every F16   *)
(* file has new random values.                                             *)
(***************************************************************************)
EXTENDS GgufTensors

CONSTANT MaxScriptRuns  \* bound on the runs of a script

ASSUME GeneratorAssumption ==
  /\ TokenizerVocab \in Nat \ {0} /\ TokenizerVocab <= 154880
  /\ MaxScriptRuns \in Nat

VARIABLES
  family, skip,   \* the script and its --skip-f16 and --skip-i2s
  pc,
  run,            \* the number of this run
  next, at,       \* the tensor _write_all_tensor_data writes next, and where
  declared,       \* where the tensor info registered for it says it starts
  elements,       \* the elements written so far
  tokenizer,      \* tokenizer.model: absent, partial or complete
  f16, i2s,       \* the two files
  exit, faulty    \* the exit status; whether a call of this run has failed

writing == <<next, at, declared, elements>>
files == <<tokenizer, f16, i2s>>
genVars == <<family, skip, pc, run, writing, files, exit, faulty>>

NoFile == [by |-> 0, complete |-> FALSE, of |-> 0]

GenInit ==
  /\ family = "none" /\ skip = [f16 |-> FALSE, i2s |-> FALSE]
  /\ pc = "idle" /\ run = 0
  /\ next = 0 /\ at = 0 /\ declared = 0 /\ elements = 0
  /\ tokenizer = "absent" /\ f16 = NoFile /\ i2s = NoFile
  /\ exit = "none" /\ faulty = FALSE

\* parse_args: this script alone has no flags.
HasFlags(f) == f # "u_moe_30b"

\* The script is started; another one has another output directory.
Start(f, s) ==
  /\ pc \in {"idle", "exited"} /\ run < MaxScriptRuns
  /\ family \in {"none", f}
  /\ (s.f16 \/ s.i2s) => HasFlags(f)
  /\ family' = f /\ skip' = s /\ run' = run + 1
  /\ pc' = "model_dir" /\ exit' = "none" /\ faulty' = FALSE
  /\ next' = 0 /\ at' = 0 /\ declared' = 0 /\ elements' = 0
  /\ UNCHANGED files

Exit(status) == pc' = "exited" /\ exit' = status

Goto(stage) == pc' = stage /\ exit' = exit

\* create_hf_model_dir: a tokenizer that is there is not looked into.
CreateModelDir ==
  /\ pc = "model_dir"
  /\ tokenizer' = IF tokenizer = "absent" THEN "complete" ELSE tokenizer
  /\ Goto("f16")
  /\ UNCHANGED <<family, skip, run, writing, f16, i2s, faulty>>

\* main: --skip-f16 asks only whether the file exists.
ReuseF16 ==
  /\ pc = "f16" /\ skip.f16
  /\ IF f16.by = 0 THEN Exit(1) ELSE Goto("i2s")
  /\ UNCHANGED <<family, skip, run, writing, files, faulty>>

\* generate_f16_gguf up to the tensor info: the file is truncated, and the
\* SentencePiece model must load.
OpenF16 ==
  /\ pc = "f16" /\ ~skip.f16
  /\ tokenizer = "complete"
  /\ f16' = [by |-> run, complete |-> FALSE, of |-> run]
  /\ next' = 1 /\ Goto("write")
  /\ UNCHANGED <<family, skip, run, at, declared, elements, tokenizer, i2s, faulty>>

WriteTensor ==
  LET w == WrittenOf[family][next] IN
  /\ pc = "write" /\ next <= Len(WrittenOf[family])
  /\ next' = next + 1
  /\ at' = at + w.nbytes
  /\ declared' = declared + RegisteredOf[family][next].nbytes
  /\ elements' = elements + Units(w.shape)
  /\ UNCHANGED <<family, skip, pc, run, files, exit, faulty>>

\* flush, close
CloseF16 ==
  /\ pc = "write" /\ next > Len(WrittenOf[family])
  /\ f16' = [f16 EXCEPT !.complete = TRUE]
  /\ Goto("i2s")
  /\ UNCHANGED <<family, skip, run, writing, tokenizer, i2s, faulty>>

\* generate_i2s_gguf, or --skip-i2s.
StartQuantize ==
  /\ pc = "i2s"
  /\ Goto(IF skip.i2s THEN "report" ELSE "quantize")
  /\ UNCHANGED <<family, skip, run, writing, files, faulty>>

\* Mutant: the return code of llama-quantize is not looked at.
QuantizeUnchecked ==
  /\ pc = "quantize"
  /\ \/ i2s' = [by |-> run, complete |-> TRUE, of |-> f16.by] /\ faulty' = faulty
     \/ i2s' \in {i2s, [by |-> run, complete |-> FALSE, of |-> f16.by]} /\ faulty' = TRUE
  /\ Goto("report")
  /\ UNCHANGED <<family, skip, run, writing, tokenizer, f16>>

\* llama-quantize, and its return code.
Quantize ==
  /\ pc = "quantize"
  /\ \/ /\ i2s' = [by |-> run, complete |-> TRUE, of |-> f16.by]
        /\ faulty' = faulty /\ Goto("report")
     \/ /\ i2s' \in {i2s, [by |-> run, complete |-> FALSE, of |-> f16.by]}
        /\ faulty' = TRUE /\ Exit(1)
  /\ UNCHANGED <<family, skip, run, writing, tokenizer, f16>>

\* The two MoE scripts name the I2_S file in their report in any case; only
\* the branch without --skip-i2s has given i2s_path a value.
NamesI2s(f) == f \in {"moe_30b", "u_moe_30b"}

\* main, from the parameter counts to the end.
Report ==
  /\ pc = "report"
  /\ IF skip.i2s /\ NamesI2s(family) THEN Exit(1) ELSE Exit(0)
  /\ UNCHANGED <<family, skip, run, writing, files, faulty>>

\* A call raises or the process is killed, with what it had begun half done.
\* A half-written tokenizer.model stays, and stops every later run that loads it.
Abort ==
  /\ pc \notin {"idle", "exited"}
  /\ tokenizer' \in IF pc = "model_dir" /\ tokenizer = "absent"
                    THEN {"absent", "partial"} ELSE {tokenizer}
  /\ f16' \in IF pc = "f16" /\ ~skip.f16
              THEN {f16, [by |-> run, complete |-> FALSE, of |-> run]} ELSE {f16}
  /\ i2s' \in IF pc = "quantize"
              THEN {i2s, [by |-> run, complete |-> FALSE, of |-> f16.by],
                    [by |-> run, complete |-> TRUE, of |-> f16.by]}
              ELSE {i2s}
  /\ Exit(1) /\ faulty' = TRUE
  /\ UNCHANGED <<family, skip, run, writing>>

GenNext ==
  \/ \E f \in Families, s \in [f16 : BOOLEAN, i2s : BOOLEAN] : Start(f, s)
  \/ CreateModelDir \/ ReuseF16 \/ OpenF16 \/ WriteTensor \/ CloseF16
  \/ StartQuantize \/ Quantize \/ Report \/ Abort

GenSpec == GenInit /\ [][GenNext]_genVars

-----------------------------------------------------------------------------
(* Properties. *)

\* The second pass puts every tensor where the first has registered it, with
\* the shape, the type and the size a reader will take from there, and leaves
\* none out: GGUF data carry no names, so that any other order, count or type
\* (_write_all_tensor_data against _add_all_tensor_info) gives a readable file
\* with the wrong weights.
DataAsDeclared ==
  family \in Families =>
    /\ at = declared
    /\ pc = "write" /\ next <= Len(WrittenOf[family]) =>
         /\ next <= Len(RegisteredOf[family])
         /\ WrittenOf[family][next] = RegisteredOf[family][next]
    /\ f16.complete /\ f16.by = run => next = Len(RegisteredOf[family]) + 1

\* The metadata m are true of the tensors S: the blocks are the stored layers,
\* the heads of each are those of its projections, and every token has its row.
Describes(m, S) ==
  /\ {t.blk : t \in S} = {NoBlk} \cup 0 .. m.block_count - 1
  /\ Len(m.swiglu_clamp) = m.block_count
  /\ \A t \in S :
       /\ t.part = "token_embd" => t.shape = <<m.tokens, m.embedding_length>>
       /\ t.part = "attn_q" /\ t.kind = "weight" =>
            t.shape[1] = m.head_count[t.blk + 1] * m.key_length
       /\ t.part = "attn_output" =>
            2 * t.shape[2] = m.head_count[t.blk + 1] * m.key_length
       /\ t.part = "attn_k" /\ t.kind = "weight" =>
            t.shape[1] = m.head_count_kv[t.blk + 1] * m.key_length
       /\ t.part = "yoco_cross_k" =>
            t.shape[1] = m.head_count_kv[m.block_count] * m.key_length
       /\ t.part = "ffn_gate_inp" => t.shape[1] = m.experts

\* What add_model_params and add_vocab announce, and the total the script
\* prints, is what the finished file holds: every stored layer is counted once
\* however often the self-decoder is run.
SelfDescribed ==
  f16.complete /\ f16.by = run =>
    LET c == Config[family] IN
    /\ elements = TotalParams(c)
    /\ Describes(Metadata(c), ToSet(WrittenOf[family]))

\* A script that ends with 0 leaves the pair it reports: unless told to skip
\* it, a complete I2_S file made in this run from the F16 file beside it, and
\* unless told to reuse it, a complete F16 file of this run; whatever earlier
\* runs left half-written.
PairMatches ==
  pc = "exited" /\ exit = 0 =>
    /\ ~skip.i2s => i2s = [by |-> run, complete |-> TRUE, of |-> f16.by]
    /\ ~skip.f16 => f16.complete /\ f16.by = run

\* The help of the scripts promises --skip-i2s to skip the quantisation: with
\* no call failing, and an F16 file there if it is to be reused, the run succeeds.
SkipI2sCompletes ==
  pc = "exited" /\ skip.i2s /\ ~faulty /\ f16.by # 0 => exit = 0
=============================================================================
