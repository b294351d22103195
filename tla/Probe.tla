-------------------------------- MODULE Probe --------------------------------
(***************************************************************************)
(* snapshot_probe.cpp: one case.  A golden request is recomputed, the      *)
(* prefix is captured into both stores, and every trial of the schedule    *)
(* fills the context with sequence B and then answers request A, either by *)
(* recomputing or from a snapshot.  Any call of the backend, a store or a  *)
(* table may fail; the first failure ends the case through run's catch.    *)
(*                                                                         *)
(* The context is abstracted to what it holds; logits are named by the     *)
(* context they come from.                                                 *)
(***************************************************************************)
EXTENDS BenchmarkStats

CONSTANTS
  Reps, Warmup,  \* repetitions and warmup rounds of the case
  Metrics,       \* the summary's metrics, a sequence of names
  NotApplicable  \* those with allow_all_na, null in every trial

ASSUME ProbeAssumption ==
  /\ Reps \in 1 .. 1000 /\ Warmup \in 1 .. 1000
  /\ Metrics \in Seq({Metrics[j] : j \in DOMAIN Metrics})
  /\ NotApplicable \subseteq {Metrics[j] : j \in DOMAIN Metrics}

VARIABLES
  pc,       \* the next call of run
  ctx,      \* what the context holds
  store,    \* store[m]: what mode m's store holds under "prefix-A"
  turn,     \* trials of the schedule done
  status,   \* current.status, "none" while it is empty
  recorded, \* current_recorded
  logits,   \* the context the current request's logits came from
  records,  \* records
  results,  \* rows of results.tsv: the statuses written
  summary,  \* rows of summary.tsv
  todo,     \* rows write_summaries has still to write
  summaryWritten, \* summary_written
  metadata, \* the closing rows of metadata.tsv
  exit      \* "running", or what main returns: "0" or "1"

vars == <<pc, ctx, store, turn, status, recorded, logits, records, results,
          summary, todo, summaryWritten, metadata, exit>>
tables == <<records, results, summary, todo, summaryWritten, metadata>>

Cached == {"dram", "direct_file"}

Trial == TrialAt(turn + 1, Reps, Warmup)
Golden == [phase |-> "validation", trial |-> 0, order |-> 0, mode |-> "recompute"]
Setup == [phase |-> "setup"]

\* The trial of `current': none while the model is loaded, the golden request,
\* none while a store is set up, then the trials.
Current == CASE turn = -3 -> Golden
             [] turn \in {-4, -2, -1} -> Setup
             [] OTHER -> Trial

Init ==
  /\ pc = "load" /\ ctx = "empty"
  /\ store = [m \in Cached |-> "none"]
  /\ turn = -4 /\ status = "none" /\ recorded = FALSE /\ logits = "none"
  /\ records = <<>> /\ results = <<>> /\ summary = <<>> /\ todo = <<>>
  /\ summaryWritten = FALSE /\ metadata = <<>> /\ exit = "running"

-----------------------------------------------------------------------------
(* The request. *)

Goto(step) == pc' = step
Throw == pc' = "catch"

\* Tokens decoded behind a context: they continue it only at the right place.
Behind(c, from, to) == IF c = from THEN to ELSE "mixed"

\* The backend, the model, its context, the two sequences and the identity.
LoadModel ==
  /\ pc = "load"
  /\ \/ turn' = -3 /\ Goto("interfere")
     \/ Throw /\ UNCHANGED turn
  /\ UNCHANGED <<ctx, store, status, recorded, logits, tables, exit>>

\* Mutant: a failing decode is tried again.
InterfereRetrying ==
  /\ pc = "interfere"
  /\ \/ /\ ctx' = "B"
        /\ Goto(IF Current.mode = "recompute" THEN "prefix" ELSE "lookup")
     \/ ctx' \in {"B", "junk"} /\ Goto("interfere")
  /\ UNCHANGED <<store, turn, status, recorded, logits, tables, exit>>

\* run_interference: clear, then decode B.
Interfere ==
  /\ pc = "interfere"
  /\ \/ /\ ctx' = "B"
        /\ Goto(IF Current.mode = "recompute" THEN "prefix" ELSE "lookup")
     \/ ctx' \in {"B", "junk"} /\ Throw
  /\ UNCHANGED <<store, turn, status, recorded, logits, tables, exit>>

\* recompute_request: clear, then decode the prefix of A.
DecodePrefix ==
  /\ pc = "prefix"
  /\ \/ ctx' = "A prefix" /\ Goto("suffix")
     \/ ctx' \in {ctx, "junk"} /\ Throw
  /\ UNCHANGED <<store, turn, status, recorded, logits, tables, exit>>

\* cached_request: the store must hit, with the size recorded at setup.
Lookup ==
  /\ pc = "lookup"
  /\ \/ store[Current.mode] # "none" /\ Goto("restore")
     \/ Throw
  /\ UNCHANGED <<ctx, store, turn, status, recorded, logits, tables, exit>>

\* Mutant: the state is imported over what the context holds.
ClearForImportSkipped ==
  /\ pc = "restore"
  /\ Goto("import")
  /\ UNCHANGED <<ctx, store, turn, status, recorded, logits, tables, exit>>

\* checked_restore: the context is cleared before the import, and again after
\* any failure, which ends the case; that second clear may fail as well.
ClearForImport ==
  /\ pc = "restore"
  /\ \/ ctx' = "empty" /\ Goto("import")
     \/ ctx' \in {"empty", ctx} /\ Throw
  /\ UNCHANGED <<store, turn, status, recorded, logits, tables, exit>>

\* The importer takes the whole state, and the position is the prefix's; an
\* inexact count, an error or another position clears the context.
Import ==
  /\ pc = "import"
  /\ \/ /\ ctx' = Behind(ctx, "empty", store[Current.mode])
        /\ Goto("suffix")
     \/ ctx' \in {"empty", "junk"} /\ Throw
  /\ UNCHANGED <<store, turn, status, recorded, logits, tables, exit>>

DecodeSuffix ==
  /\ pc = "suffix"
  /\ \/ /\ ctx' = Behind(ctx, "A prefix", "A prompt")
        /\ Goto("continue")
     \/ ctx' = "junk" /\ Throw
  /\ UNCHANGED <<store, turn, status, recorded, logits, tables, exit>>

\* continue_request: keep the logits, sample, decode the sampled tokens.
Continue ==
  /\ pc = "continue"
  /\ \/ /\ logits' = ctx
        /\ ctx' = Behind(ctx, "A prompt", "A continued")
        /\ Goto("compare")
     \/ ctx' = "junk" /\ Throw /\ UNCHANGED logits
  /\ UNCHANGED <<store, turn, status, recorded, tables, exit>>

-----------------------------------------------------------------------------
(* Recording. *)

Record(s) == Append(records, [trial |-> Current, status |-> s])

\* Equal contexts may still differ beyond the tolerance, different ones do.
\* derive_metrics of a passed trial may throw.
Compare ==
  /\ pc = "compare"
  /\ \/ \E s \in IF turn = -3 THEN {"reference"}
                 ELSE IF logits = "A prompt" THEN {"pass", "fail"} ELSE {"fail"} :
          /\ status' = s
          /\ records' = Record(s)
          /\ recorded' = TRUE
          /\ Goto("rows")
     \/ Throw /\ UNCHANGED <<status, records, recorded>>
  /\ UNCHANGED <<ctx, store, turn, logits, results, summary, todo,
                 summaryWritten, metadata, exit>>

\* write_continuation and write_result; a trial without parity ends the case.
WriteRows ==
  /\ pc = "rows"
  /\ \/ /\ results' = Append(results, status)
        /\ IF status = "fail" THEN Throw ELSE Goto("next")
     \/ results' \in {results, Append(results, status)} /\ Throw
  /\ UNCHANGED <<ctx, store, turn, status, recorded, logits, records, summary,
                 todo, summaryWritten, metadata, exit>>

\* The next step of run: capture for dram, for the file store, then the trials.
NextTurn ==
  /\ pc = "next"
  /\ IF turn < ScheduleLength(Reps, Warmup) - 1
     THEN /\ turn' = turn + 1
          /\ status' = "none" /\ recorded' = FALSE
          /\ Goto(IF turn' < 0 THEN "capture" ELSE "interfere")
     ELSE Goto("summarize") /\ UNCHANGED <<turn, status, recorded>>
  /\ logits' = "none"
  /\ UNCHANGED <<ctx, store, tables, exit>>

\* The file store cannot be opened, while current is still the golden request.
OpenStoresFails ==
  /\ pc = "next" /\ turn = -3
  /\ Throw
  /\ UNCHANGED <<ctx, store, turn, status, recorded, logits, tables, exit>>

\* prepare_snapshot: clear, decode the prefix, check the position, export ...
Capture ==
  /\ pc = "capture"
  /\ \/ ctx' = "A prefix" /\ Goto("put")
     \/ ctx' \in {ctx, "junk"} /\ Throw
  /\ UNCHANGED <<store, turn, status, recorded, logits, tables, exit>>

\* ... and put, then write the setup rows.
PutSnapshot ==
  /\ pc = "put"
  /\ LET filled == [store EXCEPT ![IF turn = -2 THEN "dram" ELSE "direct_file"] = ctx] IN
     \/ store' = filled /\ status' = "prepared" /\ Goto("next")
     \/ store' = filled /\ status' = "prepared" /\ Throw
     \/ Throw /\ UNCHANGED <<store, status>>
  /\ UNCHANGED <<ctx, turn, recorded, logits, tables, exit>>

-----------------------------------------------------------------------------
(* The end of the case. *)

\* The observations of one metric: a trial that did not pass has no rates.
\* Durations and rates are finite and never negative, and such amounts always
\* have a finite deviation, so one amount stands for all.
Observations(recs, metric) ==
  LET trials == SelectSeq(recs, LAMBDA r : r.trial # Setup)
  IN [j \in DOMAIN trials |->
       [phase |-> trials[j].trial.phase, mode |-> trials[j].trial.mode,
        trial |-> trials[j].trial.trial, order |-> trials[j].trial.order,
        passed |-> trials[j].status = "pass",
        value |-> IF trials[j].status = "pass" /\ metric \notin NotApplicable
                  THEN "number" ELSE "null",
        amount |-> 0]]

Verdict(recs, mode, metric, force) ==
  Summarize(Observations(recs, metric), mode, Reps, metric \in NotApplicable, force)

CompleteCase(recs, force) ==
  ~force /\ \A m \in Modes, j \in DOMAIN Metrics :
              Verdict(recs, m, Metrics[j], force) \in {"pass", "not_applicable"}

\* Mutant: every row for itself.
SummaryRowsApart(recs, force) ==
  [j \in 1 .. 3 * Len(Metrics) |->
     LET mode == ModeAt((j - 1) \div Len(Metrics))
         metric == Metrics[((j - 1) % Len(Metrics)) + 1]
     IN [mode |-> mode, metric |-> metric, status |-> Verdict(recs, mode, metric, FALSE)]]

\* write_summaries: one failure makes every row a failed one.
SummaryRows(recs, force) ==
  [j \in 1 .. 3 * Len(Metrics) |->
     LET mode == ModeAt((j - 1) \div Len(Metrics))
         metric == Metrics[((j - 1) % Len(Metrics)) + 1]
     IN [mode |-> mode, metric |-> metric,
         status |-> IF CompleteCase(recs, force) THEN Verdict(recs, mode, metric, force)
                    ELSE "failed"]]

Summarise ==
  /\ pc = "summarize"
  /\ todo' = SummaryRows(records, FALSE)
  /\ Goto("summary")
  /\ UNCHANGED <<ctx, store, turn, status, recorded, logits, records, results,
                 summary, summaryWritten, metadata, exit>>

\* Mutant: a row that could not be written is skipped.
WriteSummaryRowUnchecked ==
  /\ pc = "summary" /\ todo # <<>>
  /\ summary' \in {summary, Append(summary, Head(todo))}
  /\ todo' = Tail(todo)
  /\ UNCHANGED <<pc, ctx, store, turn, status, recorded, logits, records, results,
                 summaryWritten, metadata, exit>>

WriteSummaryRow ==
  /\ pc = "summary" /\ todo # <<>>
  /\ \/ /\ summary' = Append(summary, Head(todo))
        /\ todo' = Tail(todo)
        /\ Goto("summary")
     \/ /\ summary' \in {summary, Append(summary, Head(todo))}
        /\ todo' = <<>>
        /\ Throw
  /\ UNCHANGED <<ctx, store, turn, status, recorded, logits, records, results,
                 summaryWritten, metadata, exit>>

SummaryDone ==
  /\ pc = "summary" /\ todo = <<>>
  /\ summaryWritten' = TRUE
  /\ Goto("verdict")
  /\ UNCHANGED <<ctx, store, turn, status, recorded, logits, records, results,
                 summary, todo, metadata, exit>>

\* The four closing rows of a case, in order; then run returns.
ClosingRows ==
  IF CompleteCase(records, FALSE)
  THEN <<"model_parity=passed", "benchmark_status=complete",
         "physical_ssd_latency", "trace_replay">>
  ELSE <<"model_parity=failed", "benchmark_status=failed",
         "physical_ssd_latency", "trace_replay">>

WriteVerdict ==
  /\ pc = "verdict"
  /\ IF Len(metadata) < Len(ClosingRows)
     THEN LET row == ClosingRows[Len(metadata) + 1] IN
          /\ \/ metadata' = Append(metadata, row) /\ Goto("verdict")
             \/ metadata' \in {metadata, Append(metadata, row)} /\ Throw
          /\ UNCHANGED exit
     ELSE /\ exit' = IF CompleteCase(records, FALSE) THEN "0" ELSE "1"
          /\ Goto("done")
          /\ UNCHANGED metadata
  /\ UNCHANGED <<ctx, store, turn, status, recorded, logits, records, results,
                 summary, todo, summaryWritten>>

\* An exception that leaves the handler: main prints it and returns 1.
Escape == Goto("done") /\ exit' = "1"

\* Mutant: what failed is recorded whether it was recorded or not.
CatchAlwaysRecords ==
  /\ pc = "catch"
  /\ status' = "error"
  /\ records' = Record("error")
  /\ \/ /\ results' = Append(results, "error")
        /\ Goto("closing") /\ UNCHANGED exit
     \/ results' \in {results, Append(results, "error")} /\ Escape
  /\ UNCHANGED <<ctx, store, turn, recorded, logits, summary, todo,
                 summaryWritten, metadata>>

\* catch: an error record for what was not recorded yet ...
Catch ==
  /\ pc = "catch"
  /\ status' = "error"
  /\ IF recorded THEN Goto("closing") /\ UNCHANGED <<records, results, exit>>
     ELSE /\ records' = Record("error")
          /\ \/ /\ results' = Append(results, "error")
                /\ Goto("closing") /\ UNCHANGED exit
             \/ results' \in {results, Append(results, "error")} /\ Escape
  /\ UNCHANGED <<ctx, store, turn, recorded, logits, summary, todo,
                 summaryWritten, metadata>>

ErrorRows == <<"model_parity=error", "benchmark_status=failed", "error">>

\* ... the error rows of the metadata, a failed summary unless one was
\* written, and the exception again.
WriteClosing ==
  /\ pc = "closing"
  /\ \E md \in {metadata \o SubSeq(ErrorRows, 1, n) : n \in 0 .. 3} :
       /\ metadata' = md
       /\ summary' \in
            IF md = metadata \o ErrorRows /\ ~summaryWritten
            THEN {summary \o SubSeq(SummaryRows(records, TRUE), 1, n) :
                    n \in 0 .. 3 * Len(Metrics)}
            ELSE {summary}
  /\ Escape
  /\ UNCHANGED <<ctx, store, turn, status, recorded, logits, records, results,
                 todo, summaryWritten>>

Step ==
  \/ LoadModel \/ Interfere \/ DecodePrefix \/ Lookup \/ ClearForImport \/ Import
  \/ DecodeSuffix \/ Continue \/ Compare \/ WriteRows \/ NextTurn \/ OpenStoresFails
  \/ Capture \/ PutSnapshot
  \/ Summarise \/ WriteSummaryRow \/ SummaryDone \/ WriteVerdict
  \/ Catch \/ WriteClosing

Next == Step

\* The process runs on; nothing else acts on the case.
Spec == Init /\ [][Next]_vars /\ WF_vars(Step)

-----------------------------------------------------------------------------
(* Properties. *)

\* A request is only ever answered from the prompt A: never from what the
\* interference or the previous request left, and no token is decoded after a
\* failed decode, clear or import (checked_restore: callers must stop).
ContextSound ==
  /\ pc = "continue" => ctx = "A prompt"
  /\ pc = "import" => ctx = "empty"
  /\ ctx \in {"junk", "mixed"} => pc \in {"catch", "closing", "done"}
  /\ \A m \in Cached : store[m] \in {"none", "A prefix"}

\* The trials of the schedule that passed and were recorded, in their order.
AllPassed ==
  \A j \in 1 .. ScheduleLength(Reps, Warmup) :
    Cardinality({i \in DOMAIN records :
      records[i] = [trial |-> TrialAt(j, Reps, Warmup), status |-> "pass"]}) = 1

\* No row of the summary gives a mean, or says not applicable, unless every
\* trial of the case passed: an unfinished or failed case leaves no partial
\* means behind, whatever write fails.
NoPartialMeans ==
  \A i \in DOMAIN summary :
    summary[i].status \in {"pass", "not_applicable"} => AllPassed

\* The records follow the schedule: the golden request, then its trials, each
\* at its place and so at most once, all but the last for what succeeded.  When
\* the case is over the last one is for where it ended: the handler records
\* what was not recorded, a setup too, as an error, and nothing a second time.
RecordedOnce ==
  LET last == Len(records) IN
  /\ last <= ScheduleLength(Reps, Warmup) + 1
  /\ \A i \in 1 .. last :
       \/ records[i].trial = IF i = 1 THEN Golden ELSE TrialAt(i - 1, Reps, Warmup)
       \/ i = last /\ records[i] = [trial |-> Setup, status |-> "error"]
  /\ \A i \in 1 .. last - 1 :
       records[i].status = IF i = 1 THEN "reference" ELSE "pass"
  /\ pc \in {"closing", "done"} =>
       /\ last > 0 /\ records[last].trial = Current
       /\ ~recorded => records[last].status = "error"

\* The table has one row with any of these values, and it is this one.
OnlyRow(row, values) ==
  \E i \in DOMAIN metadata :
    metadata[i] = row /\ \A j \in DOMAIN metadata : metadata[j] \in values <=> j = i

\* What read_case of run_sweep.py requires of the files of a case.
FilesAccepted ==
  /\ OnlyRow("model_parity=passed",
             {"model_parity=passed", "model_parity=failed", "model_parity=error"})
  /\ OnlyRow("benchmark_status=complete",
             {"benchmark_status=complete", "benchmark_status=failed"})
  /\ Len(summary) = 3 * Len(Metrics)
  /\ \A i \in DOMAIN summary : summary[i].status \in {"pass", "not_applicable"}

\* The files alone never make a failed case look complete, and a process that
\* returns 0 has left files that are accepted and a row for every trial.
FilesTellTheTruth ==
  /\ FilesAccepted => AllPassed
  /\ exit = "0" => /\ FilesAccepted
                 /\ Len(results) = ScheduleLength(Reps, Warmup) + 1

\* The steps a turn can still take, from the interference to its rows; behind
\* the last one the summary with its 3 * Len(Metrics) rows, four of the
\* verdict, and the handler.
StepsOfTurn ==
  LET rows == 3 * Len(Metrics) IN
  CASE pc = "interfere" -> rows + 18
    [] pc = "lookup" -> rows + 17
    [] pc = "restore" -> rows + 16
    [] pc \in {"prefix", "import"} -> rows + 15
    [] pc = "suffix" -> rows + 14
    [] pc = "continue" -> rows + 13
    [] pc \in {"compare", "capture"} -> rows + 12
    [] pc \in {"rows", "put"} -> rows + 11
    [] pc \in {"next", "load"} -> rows + 10
    [] pc = "summarize" -> rows + 9
    [] pc = "summary" -> Len(todo) + 8
    [] pc = "verdict" -> 7 - Len(metadata)
    [] pc = "catch" -> 2
    [] pc = "closing" -> 1
    [] pc = "done" -> 0

StepsLeft == 9 * (ScheduleLength(Reps, Warmup) - 1 - turn) + StepsOfTurn

\* Nothing is tried again: every step, of the handler too, uses up one of a
\* number that rounds and metrics fix beforehand, whatever fails.
StepsBounded == [][0 <= StepsLeft' /\ StepsLeft' < StepsLeft]_vars

\* A failed call never leaves the case hanging.
Ends == <>(pc = "done")

\* "A failed/incomplete experiment cannot leave successful-looking partial
\* means." (snapshot_probe.cpp:324)
FailedLeavesNoMeans ==
  exit = "1" => \A i \in DOMAIN summary : summary[i].status # "pass"
=============================================================================
