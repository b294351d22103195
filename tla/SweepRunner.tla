----------------------------- MODULE SweepRunner -----------------------------
(***************************************************************************)
(* run_sweep.py: the cases of a sweep, one probe process after another,    *)
(* between two checks that runtime and models are still those the sweep    *)
(* started with.  Verified cases are published in summary.tsv, and         *)
(* index.tsv logs their progress.  Meanwhile a build may replace the       *)
(* fingerprinted files, a model file may be replaced, any call may fail    *)
(* and the runner may be killed.                                           *)
(*                                                                         *)
(* Contents are abstracted to versions.  The same build output can come    *)
(* back (a SHA-256 sees no difference); a replaced model never does, its   *)
(* identity holds the time of its last change.                             *)
(***************************************************************************)
EXTENDS Integers, Sequences, FiniteSets, SequencesExt

CONSTANTS
  Models,     \* the selected models, in their order
  PPLengths,  \* args.pp_lengths
  MaxContext, \* the longest prompt the parser admits (262144 in the code)
  Parts,      \* fingerprinted files
  MaxChanges  \* bound on how often someone changes a file

ASSUME SweepAssumption ==
  /\ Models \in Seq(Range(Models)) /\ PPLengths \in Seq(2 .. MaxContext)
  /\ Models # <<>> /\ PPLengths # <<>>
  /\ IsInjective(Models) /\ IsInjective(PPLengths) \* parse_args; two names
  /\ MaxContext \in Nat /\ MaxContext % 256 = 0
  /\ MaxChanges \in Nat

VARIABLES
  clean,    \* the checkout is at the expected commit, unmodified
  file,     \* file[p]: version of a fingerprinted file
  manifest, \* what runtime.sha256 lists: a version of each part
  model,    \* model[m]: version of a model file
  changes, flips, \* changes so far; changes of each part
  pc,       \* the runner's next call
  stage,    \* what the current check_runtime or check_frozen is for
  runtimeId, identity, digest, \* what the sweep froze
  cur,      \* number of the current case
  loaded,   \* what the probe of the current case ran with
  code, report, \* its exit status; whether read_case would accept its files
  rows,     \* the verified rows, a record for the rows of each case
  staged,   \* what the temporary summary holds
  summary,  \* summary.tsv: the records of its rows
  index, buffer \* events in index.tsv, and those not flushed yet

frozen == <<runtimeId, identity, digest>>
world == <<clean, file, manifest, model, changes, flips>>
measured == <<loaded, code, report>>
tables == <<rows, staged, summary, index, buffer>>
vars == <<world, pc, stage, frozen, cur, measured, tables>>

M == DOMAIN Models
CaseCount == Len(Models) * Len(PPLengths)
Cases == 1 .. CaseCount

\* Every length of a model before the next model.
ModelOf(c) == (c - 1) \div Len(PPLengths) + 1
PPOf(c) == PPLengths[((c - 1) % Len(PPLengths)) + 1]
Context(pp) == ((pp + 255) \div 256) * 256

Event(status, c) ==
  [status |-> status, model |-> Models[ModelOf(c)], pp |-> PPOf(c),
   ctx |-> Context(PPOf(c))]

Ended == {"passed", "exit 1", "killed"}

TypeOK ==
  /\ clean \in BOOLEAN
  /\ file \in [Parts -> {0, 1}] /\ manifest \in [Parts -> {0, 1}]
  /\ model \in [M -> 0 .. MaxChanges]
  /\ pc \in {"identify", "fingerprint", "tree", "manifest", "files", "models", "hash",
             "rehash", "create", "start", "open", "launch", "load", "exit", "code",
             "read", "stage", "replace", "pass", "failed"} \cup Ended
  /\ stage \in {"runtime", "prepared", "before", "after"}
  /\ cur \in 1 .. CaseCount + 1
  /\ rows = summary

Init ==
  /\ clean = TRUE /\ changes = 0
  /\ file = [p \in Parts |-> 0] /\ manifest = file
  /\ model = [m \in M |-> 0] /\ flips = [p \in Parts |-> 0]
  /\ pc = "identify" /\ stage = "runtime" /\ cur = 1
  /\ runtimeId = manifest /\ identity = model /\ digest = model
  /\ loaded = [parts |-> file, model |-> 0] /\ code = 0 /\ report = FALSE
  /\ rows = <<>> /\ staged = <<>> /\ summary = <<>>
  /\ index = <<>> /\ buffer = <<>>

Goto(step) == pc' = step

\* Nothing in index.tsv yet: main prints the error and returns 1.
Preparing == {"identify", "fingerprint", "hash", "rehash", "create"}
Checking == {"tree", "manifest", "files", "models"}
InCase == {"open", "launch", "load", "code", "read", "stage", "replace"}

\* The case fails: run's handler is next.
Reject == Goto(IF pc \in Checking /\ stage \in {"runtime", "prepared"}
               THEN "exit 1" ELSE "failed")

-----------------------------------------------------------------------------
(* Preparation. *)

Identify ==
  /\ pc = "identify"
  /\ identity' = model
  /\ Goto("fingerprint")
  /\ UNCHANGED <<world, stage, runtimeId, digest, cur, measured, tables>>

Fingerprint ==
  /\ pc = "fingerprint"
  /\ runtimeId' = manifest
  /\ Goto("tree") /\ stage' = "runtime"
  /\ UNCHANGED <<world, identity, digest, cur, measured, tables>>

\* The models are hashed one after the other (cur numbers them here) ...
HashModel ==
  /\ pc = "hash"
  /\ digest' = [digest EXCEPT ![cur] = model[cur]]
  /\ Goto("rehash")
  /\ UNCHANGED <<world, stage, runtimeId, identity, cur, measured, tables>>

\* ... and must be the same files after that.
ConfirmModel ==
  /\ pc = "rehash"
  /\ IF model[cur] # identity[cur]
     THEN Goto("exit 1") /\ UNCHANGED <<cur, stage>>
     ELSE IF cur < Len(Models)
     THEN Goto("hash") /\ cur' = cur + 1 /\ UNCHANGED stage
     ELSE Goto("tree") /\ cur' = 1 /\ stage' = "prepared"
  /\ UNCHANGED <<world, frozen, measured, tables>>

\* The sweep directory, runtime-id, metadata.tsv and the header of index.tsv.
CreateSweep ==
  /\ pc = "create"
  /\ Goto("start")
  /\ UNCHANGED <<world, stage, frozen, cur, measured, tables>>

\* So does a failing print of a case's rows, between two cases.
StopOutsideCase ==
  /\ pc \in Preparing \cup {"start"}
  /\ Goto("exit 1")
  /\ UNCHANGED <<world, stage, frozen, cur, measured, tables>>

-----------------------------------------------------------------------------
(* check_runtime and check_frozen. *)

CheckStep(from, holds, to) ==
  /\ pc = from
  /\ IF holds THEN Goto(to) ELSE Reject
  /\ UNCHANGED <<world, stage, frozen, cur, measured, tables>>

CheckTree == CheckStep("tree", clean, "manifest")

CheckManifest == CheckStep("manifest", manifest = runtimeId, "files")

\* Mutant: the files are not compared with the manifest.
CheckFilesSkipped ==
  CheckStep("files", TRUE, IF stage = "runtime" THEN "hash" ELSE "models")

\* sha256sum --check reads the manifest a second time.
CheckFiles ==
  CheckStep("files", file = manifest, IF stage = "runtime" THEN "hash" ELSE "models")

\* Mutant: the runner waits for the models to come back.
CheckModelsWaiting ==
  /\ pc = "models" /\ model = identity
  /\ Goto(CASE stage = "prepared" -> "create"
            [] stage = "before" -> "launch"
            [] stage = "after" -> "code")
  /\ UNCHANGED <<world, stage, frozen, cur, measured, tables>>

CheckModels ==
  CheckStep("models", model = identity,
            CASE stage = "prepared" -> "create"
              [] stage = "before" -> "launch"
              [] stage = "after" -> "code")

CheckFails == \E step \in Checking : CheckStep(step, FALSE, step)

-----------------------------------------------------------------------------
(* A case. *)

\* A flush writes all of the buffer; a failing one, or a close, some of it.
Flush(events) == index' = index \o events /\ buffer' = <<>>
FlushSome(events) ==
  \E n \in 0 .. Len(events) :
    /\ index' = index \o SubSeq(events, 1, n)
    /\ buffer' = SubSeq(events, n + 1, Len(events))

\* The "started" event stands outside the try: its failure ends the sweep.
StartCase ==
  /\ pc = "start"
  /\ IF cur \notin Cases THEN Goto("passed") /\ UNCHANGED <<index, buffer>>
     ELSE LET events == Append(buffer, Event("started", cur)) IN
          \/ Flush(events) /\ Goto("open")
          \/ FlushSome(events) /\ Goto("exit 1")
  /\ UNCHANGED <<world, stage, frozen, cur, measured, rows, staged, summary>>

\* mkdir and the log, both new.
OpenCase ==
  /\ pc = "open"
  /\ Goto("tree") /\ stage' = "before"
  /\ UNCHANGED <<world, frozen, cur, measured, tables>>

\* The probe maps its libraries, then reads the model ...
Launch ==
  /\ pc = "launch"
  /\ loaded' = [loaded EXCEPT !.parts = file]
  /\ Goto("load")
  /\ UNCHANGED <<world, stage, frozen, cur, code, report, tables>>

LoadModel ==
  /\ pc = "load"
  /\ loaded' = [loaded EXCEPT !.model = model[ModelOf(cur)]]
  /\ Goto("exit")
  /\ UNCHANGED <<world, stage, frozen, cur, code, report, tables>>

\* ... and exits with some status, having left some files.
ProbeExits ==
  /\ pc = "exit"
  /\ code' \in {0, 1} /\ report' \in BOOLEAN
  /\ Goto("tree") /\ stage' = "after"
  /\ UNCHANGED <<world, frozen, cur, loaded, tables>>

\* Mutant: the files are read whatever the probe returned.
CheckExitStatusIgnored ==
  /\ pc = "code"
  /\ Goto("read")
  /\ UNCHANGED <<world, stage, frozen, cur, measured, tables>>

CheckExitStatus ==
  /\ pc = "code"
  /\ IF code # 0 THEN Reject ELSE Goto("read")
  /\ UNCHANGED <<world, stage, frozen, cur, measured, tables>>

ReadCase ==
  /\ pc = "read"
  /\ IF report THEN Goto("stage") ELSE Reject
  /\ UNCHANGED <<world, stage, frozen, cur, measured, tables>>

\* Mutant: the new table has the new rows only.
StageSummaryAlone ==
  /\ pc = "stage"
  /\ staged' = <<[case |-> cur, with |-> loaded, code |-> code, report |-> report]>>
  /\ Goto("replace")
  /\ UNCHANGED <<world, stage, frozen, cur, measured, rows, summary, index, buffer>>

\* publish_summary: a temporary file with all rows, written and fsynced ...
StageSummary ==
  /\ pc = "stage"
  /\ staged' = Append(rows, [case |-> cur, with |-> loaded, code |-> code,
                             report |-> report])
  /\ Goto("replace")
  /\ UNCHANGED <<world, stage, frozen, cur, measured, rows, summary, index, buffer>>

\* ... and renamed over summary.tsv; then the rows are extended.
ReplaceSummary ==
  /\ pc = "replace"
  /\ summary' = staged /\ rows' = staged
  /\ Goto("pass")
  /\ UNCHANGED <<world, stage, frozen, cur, measured, staged, index, buffer>>

\* The "pass" event is still inside the try: its failure fails the case.
LogPass ==
  LET events == Append(buffer, Event("pass", cur)) IN
  /\ pc = "pass"
  /\ \/ Flush(events) /\ Goto("start") /\ cur' = cur + 1
     \/ FlushSome(events) /\ Goto("failed") /\ UNCHANGED cur
  /\ UNCHANGED <<world, stage, frozen, measured, rows, staged, summary>>

CaseFails ==
  /\ pc \in InCase
  /\ Goto("failed")
  /\ UNCHANGED <<world, stage, frozen, cur, measured, tables>>

\* Mutant: the handler goes on with the next case.
LogFailedAndContinue ==
  /\ pc = "failed"
  /\ Flush(Append(buffer, Event("failed", cur)))
  /\ Goto("start") /\ cur' = cur + 1
  /\ UNCHANGED <<world, stage, frozen, measured, rows, staged, summary>>

\* Mutant: the handler runs the case once more.
LogFailedAndRetry ==
  /\ pc = "failed"
  /\ Flush(Append(buffer, Event("failed", cur)))
  /\ Goto("start")
  /\ UNCHANGED <<world, stage, frozen, cur, measured, rows, staged, summary>>

\* The handler logs "failed" and raises; closing index.tsv flushes again.
LogFailed ==
  /\ pc = "failed"
  /\ FlushSome(Append(buffer, Event("failed", cur)))
  /\ Goto("exit 1")
  /\ UNCHANGED <<world, stage, frozen, cur, measured, rows, staged, summary>>

-----------------------------------------------------------------------------
(* Others. *)

Change ==
  /\ pc \notin Ended /\ changes < MaxChanges
  /\ changes' = changes + 1
  /\ UNCHANGED <<pc, stage, frozen, cur, measured, tables>>

\* A build (or whoever) replaces a fingerprinted file ...
ReplacePart(p) ==
  /\ Change
  /\ file' = [file EXCEPT ![p] = 1 - @]
  /\ flips' = [flips EXCEPT ![p] = @ + 1]
  /\ UNCHANGED <<clean, manifest, model>>

\* ... and ends with the manifest of what is there now, moved into place.
WriteManifest ==
  /\ Change
  /\ manifest' = file
  /\ UNCHANGED <<clean, file, model, flips>>

EditSource ==
  /\ Change
  /\ clean' = ~clean
  /\ UNCHANGED <<file, manifest, model, flips>>

ReplaceModel(m) ==
  /\ Change
  /\ model' = [model EXCEPT ![m] = @ + 1]
  /\ UNCHANGED <<clean, file, manifest, flips>>

\* An interrupt or a kill: no handler of run applies.
Kill ==
  /\ pc \notin Ended
  /\ Goto("killed")
  /\ FlushSome(buffer)
  /\ UNCHANGED <<world, stage, frozen, cur, measured, rows, staged, summary>>

Proceed ==
  \/ Identify \/ Fingerprint \/ HashModel \/ ConfirmModel \/ CreateSweep
  \/ CheckTree \/ CheckManifest \/ CheckFiles \/ CheckModels
  \/ StartCase \/ OpenCase \/ Launch \/ LoadModel \/ ProbeExits \/ CheckExitStatus
  \/ ReadCase \/ StageSummary \/ ReplaceSummary \/ LogPass \/ LogFailed

Fail == StopOutsideCase \/ CheckFails \/ CaseFails

Others ==
  \/ \E p \in Parts : ReplacePart(p)
  \/ WriteManifest \/ EditSource
  \/ \E m \in M : ReplaceModel(m)
  \/ Kill

Next == Proceed \/ Fail \/ Others

\* The runner runs on, and every probe it waits for exits; no call has to fail.
Spec == Init /\ [][Next]_vars /\ WF_vars(Proceed)

-----------------------------------------------------------------------------
(* Properties. *)

\* summary.tsv always holds the rows of the first cases of the sweep, in order
\* and none left out, each from a probe that exited with 0 and left complete
\* files: no failed, skipped or half-written case gets in (run, read_case).
PublishedVerified ==
  \A j \in DOMAIN summary :
    summary[j].case = j /\ summary[j].code = 0 /\ summary[j].report

\* Published rows were measured with the model that was hashed and with the
\* fingerprinted files, although the two checks of a case are many separate
\* reads.  A file slips through only if it was changed and changed back, or,
\* in the last case published, if the manifest that lists it was replaced too:
\* every later check refuses that manifest.
PublishedFromFrozen ==
  \A j \in DOMAIN summary :
    /\ summary[j].with.model = digest[ModelOf(j)]
    /\ \A p \in Parts : \/ summary[j].with.parts[p] = runtimeId[p]
                        \/ flips[p] >= 2
                        \/ j = Len(summary) /\ manifest[p] # runtimeId[p]

\* Verified rows stay: a later case, whatever becomes of it, only ever appends
\* to the published table.
PublishedKept == [][IsPrefix(summary, summary')]_summary

\* index.tsv is a true log: "pass" only for a case that is published and was
\* started, every case started once and only after all before it passed.
PassedBefore(j) ==
  {e \in Cases : \E i \in 1 .. j - 1 : index[i] = Event("pass", e)}

IndexTrue ==
  \A j \in DOMAIN index : \E c \in Cases :
    \/ /\ index[j] = Event("started", c)
       /\ PassedBefore(j) = 1 .. c - 1
       /\ \A i \in 1 .. j - 1 : index[i] # index[j]
    \/ /\ index[j] = Event("pass", c)
       /\ c <= Len(summary)
       /\ index[j - 1] = Event("started", c)
    \/ index[j] = Event("failed", c) /\ c = cur /\ pc \in Ended

\* The runner reports success only when every case is published and logged.
SuccessIsComplete ==
  pc = "passed" =>
    /\ Len(summary) = Cardinality(Cases)
    /\ PassedBefore(Len(index) + 1) = Cases
    /\ \A j \in DOMAIN index : index[j].status # "failed"

\* The steps a sweep can still take: those to the end of the current case, or
\* to the first one, and 18 for every case after it.
StepsOfCheck ==
  [after |-> 7, before |-> 14, prepared |-> 21, runtime |-> 2 * Len(Models) + 24]

StepsWithinCheck == [tree |-> 3, manifest |-> 2, files |-> 1, models |-> 0]

StepsElsewhere ==
  [identify |-> 2 * Len(Models) + 29, fingerprint |-> 2 * Len(Models) + 28,
   create |-> 20, start |-> 19, open |-> 18, launch |-> 13, load |-> 12, exit |-> 11,
   code |-> 6, read |-> 5, stage |-> 4, replace |-> 3, pass |-> 2, failed |-> 1]

StepsOfCase(step, check) ==
  IF step \in Ended THEN 0
  ELSE IF step \in Checking THEN StepsOfCheck[check] + StepsWithinCheck[step]
  ELSE StepsElsewhere[step]

StepsLeft ==
  IF pc \in {"hash", "rehash"}
  THEN 18 * CaseCount + 2 * (Len(Models) - cur) + (IF pc = "hash" THEN 26 ELSE 25)
  ELSE 18 * (CaseCount + 1 - cur) + StepsOfCase(pc, stage)

\* Every step of the runner uses up one of a number that models and lengths fix
\* beforehand, whatever fails and whatever others change meanwhile: no case and
\* no check is ever tried again.
StepsBounded ==
  [][0 <= StepsLeft' /\ StepsLeft' < StepsLeft]_<<pc, stage, frozen, cur, measured, tables>>

\* A sweep always comes to an end: no failure, change or kill leaves it waiting.
Ends == <>(pc \in Ended)

\* README.md:102: a failed item publishes no rows.
FailedPublishesNothing ==
  \A j \in DOMAIN index, c \in Cases :
    index[j] = Event("failed", c) => c > Len(summary)

\* README.md:46: the checks before and after each item refuse to mix builds.
\* (Stated for a single build: a file put back as it was is no other build.)
BuildsNotMixed ==
  (\A p \in Parts : flips[p] < 2) =>
    \A i, j \in DOMAIN summary : summary[i].with.parts = summary[j].with.parts
=============================================================================
