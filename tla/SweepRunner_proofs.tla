-------------------------- MODULE SweepRunner_proofs --------------------------
(***************************************************************************)
(* What run_sweep.py guarantees about the published table for any models,  *)
(* lengths and files, and any number of changes made by others.            *)
(***************************************************************************)
EXTENDS SweepRunner, SequenceTheorems, FiniteSetTheorems, TLAPS

\* The context a prompt length is run with is the least multiple of 256 that
\* holds it, and no length the parser admits exceeds the longest context.
THEOREM ContextHolds ==
  ASSUME NEW pp \in 2 .. MaxContext
  PROVE  /\ pp <= Context(pp) /\ Context(pp) < pp + 256
         /\ Context(pp) % 256 = 0
         /\ Context(pp) <= MaxContext
<1>1. pp \in Nat /\ pp <= MaxContext /\ MaxContext \in Nat
  BY SweepAssumption
<1>2. pp <= Context(pp) /\ Context(pp) < pp + 256
  BY <1>1 DEF Context
<1>3. Context(pp) % 256 = 0
  BY <1>1 DEF Context
<1>4. Context(pp) <= MaxContext
  <2>1. PICK k \in Nat : MaxContext = k * 256
    <3>1. \A n \in Nat : n % 256 = 0 => \E k \in Nat : n = k * 256
      OBVIOUS
    <3> QED BY <1>1, <3>1, SweepAssumption
  <2> QED BY <1>1, <2>1 DEF Context
<1> QED BY <1>2, <1>3, <1>4

-----------------------------------------------------------------------------

Loads == [parts : [Parts -> {0, 1}], model : 0 .. MaxChanges]
Rows == [case : Nat, with : Loads, code : {0, 1}, report : BOOLEAN]

\* The types TypeOK leaves to the other variables.
MeasuredOK ==
  /\ loaded \in Loads /\ code \in {0, 1} /\ report \in BOOLEAN
  /\ changes \in 0 .. MaxChanges
  /\ \A m \in M : model[m] <= changes
  /\ summary \in Seq(Rows)

\* The part of both that is about the files.
WorldOK ==
  /\ clean \in BOOLEAN
  /\ file \in [Parts -> {0, 1}] /\ manifest \in [Parts -> {0, 1}]
  /\ model \in [M -> 0 .. MaxChanges]
  /\ changes \in 0 .. MaxChanges
  /\ \A m \in M : model[m] <= changes

\* Before the first case, and within a case before its rows are published.
BeforeCases == pc \in Preparing \/ (pc \in Checking /\ stage \in {"runtime", "prepared"})
Unpublished ==
  \/ pc \in {"open", "launch", "load", "exit", "code", "read", "stage", "replace"}
  \/ pc \in Checking /\ stage \in {"before", "after"}

\* Where the runner is tells how many cases are published, and what the next
\* steps have checked.
Progress ==
  /\ BeforeCases => summary = <<>>
  /\ pc \in {"identify", "fingerprint"} => cur = 1
  /\ pc \in {"hash", "rehash"} => cur \in M
  /\ BeforeCases /\ pc \notin {"hash", "rehash"} => cur = 1
  /\ pc = "models" => stage # "runtime"
  /\ pc = "start" => Len(summary) = cur - 1
  /\ Unpublished => cur \in Cases /\ Len(summary) = cur - 1
  /\ pc = "pass" => cur \in Cases /\ Len(summary) = cur
  /\ pc \in {"read", "stage"} => code = 0
  /\ pc = "stage" => report
  /\ pc = "replace" => \E row \in Rows : /\ staged = Append(summary, row)
                                         /\ row.case = cur /\ row.code = 0 /\ row.report

IInv == TypeOK /\ MeasuredOK /\ Progress /\ PublishedVerified

-----------------------------------------------------------------------------

\* There is a case, and no fewer cases than models.
LEMMA CountFacts ==
  /\ Len(Models) \in Nat \ {0} /\ M = 1 .. Len(Models)
  /\ CaseCount \in Nat /\ Len(Models) <= CaseCount
<1>1. /\ Len(Models) \in Nat /\ M = 1 .. Len(Models) /\ Len(PPLengths) \in Nat
  BY SweepAssumption DEF M
<1>2. Len(Models) # 0 /\ Len(PPLengths) # 0
  BY SweepAssumption
<1>3. \A a, b \in Nat \ {0} : a * b \in Nat /\ a <= a * b
  OBVIOUS
<1> QED BY <1>1, <1>2, <1>3 DEF CaseCount

\* A case is one of a selected model.
LEMMA CaseOfModel ==
  ASSUME NEW c \in Cases
  PROVE  ModelOf(c) \in M
<1>1. Len(Models) \in Nat /\ M = 1 .. Len(Models) /\ Len(PPLengths) \in Nat \ {0}
  BY SweepAssumption DEF M
<1>2. c - 1 \in Nat /\ c - 1 < Len(Models) * Len(PPLengths)
  BY CountFacts DEF Cases, CaseCount
<1>3. \A a \in Nat, p \in Nat \ {0} : a \div p \in Nat /\ (a \div p) * p <= a
  OBVIOUS
<1>4. \A d, n \in Nat, p \in Nat \ {0} : d * p < n * p => d < n
  OBVIOUS
<1>5. /\ (c - 1) \div Len(PPLengths) \in Nat
      /\ ((c - 1) \div Len(PPLengths)) * Len(PPLengths) < Len(Models) * Len(PPLengths)
  <2> DEFINE d == (c - 1) \div Len(PPLengths)
             p == Len(PPLengths)
             n == Len(Models)
  <2>1. d \in Nat /\ d * p <= c - 1
    BY <1>1, <1>2, <1>3
  <2>2. \A x, y, e, q, m \in Nat : e * q <= x /\ x < m * q => e * q < m * q
    OBVIOUS
  <2>3. c - 1 \in Nat /\ p \in Nat /\ n \in Nat /\ c - 1 < n * p
    BY <1>1, <1>2
  <2> HIDE DEF d, p, n
  <2>4. d * p < n * p
    BY <2>1, <2>2, <2>3
  <2> QED BY <2>1, <2>4 DEF d, p, n
<1>6. (c - 1) \div Len(PPLengths) < Len(Models)
  BY <1>1, <1>4, <1>5
<1> QED BY <1>1, <1>5, <1>6 DEF ModelOf

\* The first case's number and the runner's place in the world at the start.
LEMMA InitInvariant ==
  Init => IInv
<1> SUFFICES ASSUME Init PROVE IInv
  OBVIOUS
<1>1. TypeOK
  BY CountFacts, SweepAssumption DEF Init, TypeOK, Ended
<1>2. MeasuredOK
  <2>1. loaded \in Loads
    BY SweepAssumption DEF Init, Loads
  <2>2. code \in {0, 1} /\ changes \in 0 .. MaxChanges /\ summary \in Seq(Rows)
    BY SweepAssumption DEF Init
  <2>4. report \in BOOLEAN
    BY DEF Init
  <2>3. \A m \in M : model[m] <= changes
    BY DEF Init
  <2> QED BY <2>1, <2>2, <2>3, <2>4 DEF MeasuredOK
<1>3. Progress
  BY DEF Init, Progress, BeforeCases, Unpublished, Preparing, Checking
<1>4. PublishedVerified
  BY DEF Init, PublishedVerified
<1> QED BY <1>1, <1>2, <1>3, <1>4 DEF IInv

\* A step that leaves the table alone keeps the table verified.
LEMMA SameTable ==
  ASSUME PublishedVerified, summary' = summary
  PROVE  PublishedVerified'
  BY DEF PublishedVerified

\* What others do to the files is nothing the runner's progress depends on.
LEMMA OthersKeep ==
  ASSUME IInv, Others
  PROVE  IInv'
<1> USE DEF IInv
<1>1. /\ UNCHANGED <<stage, frozen, cur, measured, rows, staged, summary>>
      /\ pc' = pc \/ pc' = "killed"
  BY DEF Others, ReplacePart, WriteManifest, EditSource, ReplaceModel, Change, Kill, Goto, tables
<1>2. WorldOK'
  <2>1. WorldOK
    BY DEF TypeOK, MeasuredOK, WorldOK
  <2>2. CASE \E p \in Parts : ReplacePart(p)
    BY <2>1, <2>2, SweepAssumption DEF ReplacePart, Change, WorldOK
  <2>3. CASE WriteManifest
    BY <2>1, <2>3, SweepAssumption DEF WriteManifest, Change, WorldOK
  <2>4. CASE EditSource
    <3>1. clean' \in BOOLEAN
      BY <2>4 DEF EditSource
    <3> QED BY <2>1, <2>4, <3>1, SweepAssumption DEF EditSource, Change, WorldOK
  <2>5. CASE \E m \in M : ReplaceModel(m)
    BY <2>1, <2>5, SweepAssumption DEF ReplaceModel, Change, WorldOK
  <2>6. CASE Kill
    BY <2>1, <2>6 DEF Kill, world, WorldOK
  <2> QED BY <2>2, <2>3, <2>4, <2>5, <2>6 DEF Others
<1>3. TypeOK' /\ MeasuredOK'
  BY <1>1, <1>2 DEF TypeOK, MeasuredOK, WorldOK, frozen, measured, Ended
<1>4. Progress'
  BY <1>1 DEF Progress, BeforeCases, Unpublished, Preparing, Checking, measured
<1>5. PublishedVerified'
  BY <1>1, SameTable
<1> QED BY <1>3, <1>4, <1>5

\* The steps of the runner that publish nothing.
Unpublishing ==
  \/ Identify \/ Fingerprint \/ HashModel \/ ConfirmModel \/ CreateSweep
  \/ CheckTree \/ CheckManifest \/ CheckFiles \/ CheckModels
  \/ StartCase \/ OpenCase \/ Launch \/ LoadModel \/ ProbeExits \/ CheckExitStatus
  \/ ReadCase \/ StageSummary \/ LogPass \/ LogFailed \/ Fail

\* They keep the types and know what the frozen values and the probe's are.
LEMMA UnpublishingTypes ==
  ASSUME IInv, Unpublishing
  PROVE  TypeOK' /\ MeasuredOK' /\ summary' = summary
<1> USE DEF IInv
<1>1. UNCHANGED world /\ rows' = rows /\ summary' = summary
  BY DEF Unpublishing, Identify, Fingerprint, HashModel, ConfirmModel, CreateSweep,
         CheckTree, CheckManifest, CheckFiles, CheckModels, CheckStep,
         StartCase, OpenCase, Launch, LoadModel, ProbeExits, CheckExitStatus,
         ReadCase, StageSummary, LogPass, LogFailed, Fail, StopOutsideCase,
         CheckFails, CaseFails, tables
<1>2. pc' \in {"identify", "fingerprint", "tree", "manifest", "files", "models", "hash",
             "rehash", "create", "start", "open", "launch", "load", "exit", "code",
             "read", "stage", "replace", "pass", "failed"} \cup Ended
  <2>1. CASE CheckTree \/ CheckManifest \/ CheckFiles \/ CheckModels \/ CheckFails
    <3>1. CASE CheckModels
      BY <3>1 DEF CheckModels, CheckStep, Goto, Reject, TypeOK, Progress, Ended
    <3>2. CASE CheckTree \/ CheckManifest \/ CheckFiles
      BY <3>2 DEF CheckTree, CheckManifest, CheckFiles, CheckStep, Goto, Reject, Ended
    <3>3. CASE CheckFails
      BY <3>3 DEF CheckFails, CheckStep, Goto, Reject, Ended
    <3> QED BY <2>1, <3>1, <3>2, <3>3
  <2>2. CASE \/ Identify \/ Fingerprint \/ HashModel \/ ConfirmModel \/ CreateSweep
             \/ StartCase \/ OpenCase \/ Launch \/ LoadModel \/ ProbeExits
    BY <2>2 DEF Identify, Fingerprint, HashModel, ConfirmModel, CreateSweep,
                StartCase, OpenCase, Launch, LoadModel, ProbeExits, Goto, Ended
  <2>3. CASE CheckExitStatus \/ ReadCase
    BY <2>3 DEF CheckExitStatus, ReadCase, Reject, Goto, Ended
  <2>4. CASE \/ StageSummary \/ LogPass \/ LogFailed \/ StopOutsideCase \/ CaseFails
    BY <2>4 DEF StageSummary, LogPass, LogFailed, StopOutsideCase, CaseFails, Goto, Ended
  <2> QED BY <2>1, <2>2, <2>3, <2>4 DEF Unpublishing, Fail
<1>3. stage' \in {"runtime", "prepared", "before", "after"}
  BY DEF Unpublishing, Identify, Fingerprint, HashModel, ConfirmModel, CreateSweep,
         CheckTree, CheckManifest, CheckFiles, CheckModels, CheckStep,
         StartCase, OpenCase, Launch, LoadModel, ProbeExits, CheckExitStatus,
         ReadCase, StageSummary, LogPass, LogFailed, Fail, StopOutsideCase,
         CheckFails, CaseFails, TypeOK
<1>4. cur' \in 1 .. CaseCount + 1
  <2>1. CASE ConfirmModel
    <3>1. (cur < Len(Models) /\ cur' = cur + 1) \/ cur' \in {1, cur}
      BY <2>1 DEF ConfirmModel
    <3> QED BY <3>1, CountFacts DEF TypeOK
  <2>2. CASE LogPass
    BY <2>2, CountFacts DEF LogPass, Progress, Cases, TypeOK
  <2>3. CASE ~ConfirmModel /\ ~LogPass
    BY <2>3 DEF Unpublishing, Identify, Fingerprint, HashModel, CreateSweep,
         CheckTree, CheckManifest, CheckFiles, CheckModels, CheckStep,
         StartCase, OpenCase, Launch, LoadModel, ProbeExits, CheckExitStatus,
         ReadCase, StageSummary, LogFailed, Fail, StopOutsideCase,
         CheckFails, CaseFails, TypeOK
  <2> QED BY <2>1, <2>2, <2>3
<1>5. loaded' \in Loads /\ code' \in {0, 1} /\ report' \in BOOLEAN
  <2>1. CASE Launch
    BY <2>1 DEF Launch, Loads, TypeOK, MeasuredOK
  <2>2. CASE LoadModel
    <3>1. ModelOf(cur) \in M
      BY <2>2, CaseOfModel DEF LoadModel, Progress, Unpublished
    <3> QED BY <2>2, <3>1 DEF LoadModel, Loads, TypeOK, MeasuredOK
  <2>3. CASE ProbeExits
    BY <2>3 DEF ProbeExits, MeasuredOK
  <2>4. CASE ~Launch /\ ~LoadModel /\ ~ProbeExits
    BY <2>4 DEF Unpublishing, Identify, Fingerprint, HashModel, ConfirmModel, CreateSweep,
         CheckTree, CheckManifest, CheckFiles, CheckModels, CheckStep,
         StartCase, OpenCase, CheckExitStatus,
         ReadCase, StageSummary, LogPass, LogFailed, Fail, StopOutsideCase,
         CheckFails, CaseFails, measured, MeasuredOK
  <2> QED BY <2>1, <2>2, <2>3, <2>4
<1>6. TypeOK'
  BY <1>1, <1>2, <1>3, <1>4 DEF TypeOK, world
<1>7. MeasuredOK'
  BY <1>1, <1>5 DEF MeasuredOK, world
<1> QED BY <1>1, <1>6, <1>7

\* Each step leaves the runner where its table says it is.
LEMMA UnpublishingProgress ==
  ASSUME IInv, TypeOK', MeasuredOK', Unpublishing, summary' = summary
  PROVE  Progress'
<1> USE DEF IInv, Progress, BeforeCases, Unpublished, Preparing, Checking
<1>0. 1 \in M /\ Len(<<>>) = 0
  BY CountFacts
<1>1. CASE Identify \/ Fingerprint \/ HashModel \/ ConfirmModel \/ CreateSweep
  <2>1. CASE Identify \/ Fingerprint
    BY <2>1 DEF Identify, Fingerprint, Goto
  <2>2. CASE HashModel
    BY <2>2 DEF HashModel, Goto
  <2>3. CASE ConfirmModel
    <3>1. cur < Len(Models) => cur + 1 \in M
      <4>1. cur \in M
        BY <2>3 DEF ConfirmModel
      <4> QED BY <4>1, CountFacts
    <3> QED BY <2>3, <3>1 DEF ConfirmModel, Goto
  <2>4. CASE CreateSweep
    BY <1>0, <2>4 DEF CreateSweep, Goto
  <2> QED BY <1>1, <2>1, <2>2, <2>3, <2>4
<1>2. CASE CheckTree \/ CheckManifest \/ CheckFiles
  <2>1. CASE CheckTree \/ CheckManifest
    BY <2>1 DEF CheckTree, CheckManifest, CheckStep, Goto, Reject, TypeOK
  <2>2. CASE CheckFiles
    BY <1>0, <2>2 DEF CheckFiles, CheckStep, Goto, Reject, TypeOK
  <2> QED BY <1>2, <2>1, <2>2
<1>3. CASE CheckModels
  BY <1>3 DEF CheckModels, CheckStep, Goto, Reject, TypeOK
<1>4. CASE Fail
  BY <1>4 DEF Fail, StopOutsideCase, CheckFails, CheckStep, CaseFails, Goto, Reject
<1>5. CASE StartCase \/ OpenCase \/ Launch \/ LoadModel \/ ProbeExits
  BY <1>5 DEF StartCase, OpenCase, Launch, LoadModel, ProbeExits, Goto, Cases, TypeOK
<1>6. CASE CheckExitStatus \/ ReadCase \/ LogPass \/ LogFailed
  <2>1. CASE CheckExitStatus
    BY <2>1 DEF CheckExitStatus, Goto, Reject, measured
  <2>2. CASE ReadCase
    BY <2>2 DEF ReadCase, Goto, Reject, measured
  <2>3. CASE LogPass
    BY <2>3, CountFacts DEF LogPass, Goto, Cases
  <2>4. CASE LogFailed
    BY <2>4 DEF LogFailed, Goto
  <2> QED BY <1>6, <2>1, <2>2, <2>3, <2>4
<1>7. CASE StageSummary
  <2>1. [case |-> cur, with |-> loaded, code |-> code, report |-> report] \in Rows
    BY <1>7, CountFacts DEF StageSummary, Rows, MeasuredOK, Cases
  <2> QED BY <1>7, <2>1 DEF StageSummary, Goto, TypeOK
<1> QED BY <1>1, <1>2, <1>3, <1>4, <1>5, <1>6, <1>7 DEF Unpublishing

\* Renaming the staged table into place appends the row of the current case.
LEMMA ReplaceSummaryKeeps ==
  ASSUME IInv, ReplaceSummary
  PROVE  IInv' /\ IsPrefix(summary, summary')
<1> USE DEF IInv
<1>1. PICK row \in Rows : /\ staged = Append(summary, row)
                          /\ row.case = cur /\ row.code = 0 /\ row.report
  BY DEF ReplaceSummary, Progress
<1>2. /\ pc = "replace" /\ pc' = "pass" /\ summary' = staged /\ rows' = staged
      /\ UNCHANGED <<world, stage, frozen, cur, measured>>
  BY DEF ReplaceSummary, Goto
<1>3. cur \in Cases /\ Len(summary) = cur - 1 /\ summary \in Seq(Rows)
  BY <1>2 DEF Progress, Unpublished, MeasuredOK
<1>4. /\ summary' \in Seq(Rows) /\ Len(summary') = cur
      /\ summary'[cur] = row
      /\ \A j \in 1 .. cur - 1 : summary'[j] = summary[j]
  BY <1>1, <1>2, <1>3, CountFacts DEF Cases
<1>5. TypeOK' /\ MeasuredOK'
  BY <1>2, <1>4 DEF TypeOK, MeasuredOK, world, frozen, measured
<1>6. Progress'
  BY <1>2, <1>3, <1>4 DEF Progress, BeforeCases, Unpublished, Preparing, Checking
<1>7. PublishedVerified'
  BY <1>1, <1>3, <1>4 DEF PublishedVerified, Cases
<1>8. IsPrefix(summary, summary')
  BY <1>3, <1>4, CountFacts DEF IsPrefix, Cases
<1> QED BY <1>5, <1>6, <1>7, <1>8

\* Every step keeps the invariant and only ever appends to the table.
LEMMA Step ==
  ASSUME IInv, [Next]_vars
  PROVE  IInv' /\ (summary' = summary \/ IsPrefix(summary, summary'))
<1>1. CASE Unpublishing
  BY <1>1, UnpublishingTypes, UnpublishingProgress, SameTable DEF IInv
<1>2. CASE ReplaceSummary
  BY <1>2, ReplaceSummaryKeeps
<1>3. CASE Others
  <2>1. summary' = summary
    BY <1>3 DEF Others, ReplacePart, WriteManifest, EditSource, ReplaceModel, Change, Kill, tables
  <2> QED BY <1>3, <2>1, OthersKeep
<1>4. CASE UNCHANGED vars
  BY <1>4 DEF vars, world, frozen, measured, tables, IInv, TypeOK, MeasuredOK, Progress,
              BeforeCases, Unpublished, PublishedVerified
<1> QED BY <1>1, <1>2, <1>3, <1>4 DEF Next, Proceed, Unpublishing

\* The invariant holds in every behaviour.
THEOREM Invariance == Spec => []IInv
<1>1. IInv /\ [Next]_vars => IInv'
  BY Step
<1> QED BY <1>1, InitInvariant, PTL DEF Spec

\* The runner's variables keep their types, whatever the sweep's size.
THEOREM TypeCorrect == Spec => []TypeOK
<1>1. IInv => TypeOK
  BY DEF IInv
<1> QED BY <1>1, Invariance, PTL

\* For any number of models, lengths and changes, summary.tsv holds the rows of
\* the first cases in order, each from a probe that exited with 0 and whose
\* files read_case accepted.
THEOREM OnlyVerifiedIsPublished == Spec => []PublishedVerified
<1>1. IInv => PublishedVerified
  BY DEF IInv
<1> QED BY <1>1, Invariance, PTL

\* The published table only ever grows by rows at its end.
THEOREM PublishedRowsAreKept == Spec => PublishedKept
<1>1. IInv /\ [Next]_vars => [IsPrefix(summary, summary')]_summary
  BY Step
<1> QED BY <1>1, Invariance, PTL DEF Spec, PublishedKept

-----------------------------------------------------------------------------
(* What the published rows were measured with.  Versions of a model only   *)
(* grow, and so does a part that was changed at most once: what the probe  *)
(* loaded lies between what was frozen and what is there now.              *)

\* The types of what the sweep froze and of the changes of each part.
FrozenOK ==
  /\ runtimeId \in [Parts -> {0, 1}] /\ flips \in [Parts -> Nat]
  /\ identity \in [M -> 0 .. MaxChanges] /\ digest \in [M -> 0 .. MaxChanges]

\* The probe of the current case has exited; it has mapped its libraries; its
\* exit status is known and the models were found unchanged after it.
AfterProbe ==
  \/ pc \in Checking /\ stage = "after"
  \/ pc \in {"code", "read", "stage", "replace"}
Launched == pc \in {"load", "exit"} \/ AfterProbe
Checked == pc \in {"code", "read", "stage", "replace"}

\* Every model has been hashed and found unchanged since it was identified.
Prepared ==
  \/ pc \in Checking /\ stage = "prepared"
  \/ pc \in {"create", "start", "pass"} \/ Unpublished

\* A hashed model was hashed as it was identified.
ModelsAge ==
  /\ \A m \in M : identity[m] <= model[m] /\ digest[m] <= model[m]
  /\ pc = "rehash" => identity[cur] <= digest[cur]
  /\ pc \in {"hash", "rehash"} => \A m \in M : m < cur => digest[m] = identity[m]
  /\ Prepared => \A m \in M : digest[m] = identity[m]

PartsAge ==
  \A p \in Parts : flips[p] < 2 =>
    file[p] = flips[p] /\ manifest[p] <= file[p] /\ runtimeId[p] <= manifest[p]

\* What the probe loaded is no older than what was frozen and no newer than
\* what is there, and what the checks after it leave of that.
LoadedAge ==
  /\ pc = "exit" \/ AfterProbe =>
       /\ identity[ModelOf(cur)] <= loaded.model
       /\ loaded.model <= model[ModelOf(cur)]
  /\ Checked => loaded.model = identity[ModelOf(cur)]
  /\ Launched => \A p \in Parts : flips[p] < 2 =>
       runtimeId[p] <= loaded.parts[p] /\ loaded.parts[p] <= file[p]
  /\ (pc = "models" /\ stage = "after") \/ Checked =>
       \A p \in Parts : \/ flips[p] >= 2
                        \/ loaded.parts[p] = runtimeId[p]
                        \/ manifest[p] # runtimeId[p]
  /\ pc = "replace" =>
       staged = Append(summary, [case |-> cur, with |-> loaded, code |-> code,
                                 report |-> report])

\* Once a later case has found the frozen manifest in place, the rows before it
\* are settled.
Settled ==
  \/ pc \in {"files", "models"} /\ stage \in {"before", "after"}
  \/ pc \in {"launch", "load", "exit"} \/ AfterProbe

EarlierSettled ==
  Settled => \A j \in DOMAIN summary : \A p \in Parts :
               summary[j].with.parts[p] = runtimeId[p] \/ flips[p] >= 2

FrozenInv ==
  FrozenOK /\ ModelsAge /\ PartsAge /\ LoadedAge /\ EarlierSettled /\ PublishedFromFrozen

\* What others change only ages models and parts.
LEMMA FrozenOthers ==
  ASSUME IInv, FrozenInv, Others
  PROVE  FrozenInv'
<1> USE DEF FrozenInv, IInv
<1>1. /\ UNCHANGED <<stage, frozen, cur, measured, rows, staged, summary>>
      /\ pc' = pc \/ pc' = "killed"
  BY DEF Others, ReplacePart, WriteManifest, EditSource, ReplaceModel, Change, Kill, Goto, tables
<1>2. \A m \in M : model[m] \in Nat /\ model'[m] \in Nat /\ model[m] <= model'[m]
  <2>1. model \in [M -> 0 .. MaxChanges] /\ MaxChanges \in Nat
    BY SweepAssumption DEF TypeOK
  <2>2. CASE \E m \in M : ReplaceModel(m)
    BY <2>1, <2>2 DEF ReplaceModel
  <2>3. CASE ~ \E m \in M : ReplaceModel(m)
    BY <2>1, <2>3 DEF Others, ReplacePart, WriteManifest, EditSource, Kill, world
  <2> QED BY <2>2, <2>3
<1>3. \A p \in Parts :
        /\ file[p] \in {0, 1} /\ manifest[p] \in {0, 1} /\ runtimeId[p] \in {0, 1}
        /\ flips[p] \in Nat /\ flips'[p] \in Nat /\ flips[p] <= flips'[p]
  <2>1. /\ file \in [Parts -> {0, 1}] /\ manifest \in [Parts -> {0, 1}]
        /\ runtimeId \in [Parts -> {0, 1}] /\ flips \in [Parts -> Nat]
    BY DEF TypeOK, FrozenOK
  <2>2. CASE \E p \in Parts : ReplacePart(p)
    BY <2>1, <2>2 DEF ReplacePart
  <2>3. CASE ~ \E p \in Parts : ReplacePart(p)
    BY <2>1, <2>3 DEF Others, WriteManifest, EditSource, ReplaceModel, Kill, world
  <2> QED BY <2>1, <2>2, <2>3
<1>4. \A p \in Parts : flips'[p] < 2 =>
        /\ file'[p] = flips'[p] /\ file[p] <= file'[p]
        /\ manifest[p] <= manifest'[p] /\ manifest'[p] <= file'[p]
        /\ manifest'[p] \in {0, 1}
  <2> SUFFICES ASSUME NEW p \in Parts, flips'[p] < 2
               PROVE  /\ file'[p] = flips'[p] /\ file[p] <= file'[p]
                      /\ manifest[p] <= manifest'[p] /\ manifest'[p] <= file'[p]
                      /\ manifest'[p] \in {0, 1}
    OBVIOUS
  <2>1. flips[p] < 2 /\ file[p] = flips[p] /\ manifest[p] <= file[p]
    BY <1>3 DEF PartsAge
  <2>2. file \in [Parts -> {0, 1}] /\ flips \in [Parts -> Nat]
    BY DEF TypeOK, FrozenOK
  <2>3. CASE \E q \in Parts : ReplacePart(q)
    <3>1. PICK q \in Parts : ReplacePart(q)
      BY <2>3
    <3>2. manifest' = manifest
      BY <3>1 DEF ReplacePart
    <3>3. IF q = p THEN file'[p] = 1 - file[p] /\ flips'[p] = flips[p] + 1
                   ELSE file'[p] = file[p] /\ flips'[p] = flips[p]
      BY <2>2, <3>1 DEF ReplacePart
    <3> QED BY <1>3, <2>1, <3>2, <3>3
  <2>4. CASE WriteManifest
    BY <1>3, <2>1, <2>4 DEF WriteManifest
  <2>5. CASE EditSource \/ (\E m \in M : ReplaceModel(m)) \/ Kill
    BY <1>3, <2>1, <2>5 DEF EditSource, ReplaceModel, Kill, world
  <2> QED BY <2>3, <2>4, <2>5 DEF Others
<1>5. FrozenOK'
  <2>1. flips' \in [Parts -> Nat]
    <3>1. CASE \E p \in Parts : ReplacePart(p)
      BY <3>1 DEF ReplacePart, FrozenOK
    <3>2. CASE ~ \E p \in Parts : ReplacePart(p)
      BY <3>2 DEF Others, WriteManifest, EditSource, ReplaceModel, Kill, world, FrozenOK
    <3> QED BY <3>1, <3>2
  <2> QED BY <1>1, <2>1 DEF FrozenOK, frozen
<1>6. \A m \in M : identity[m] \in Nat /\ digest[m] \in Nat
  BY SweepAssumption DEF FrozenOK
<1>7. ModelsAge'
  BY <1>1, <1>2, <1>6 DEF ModelsAge, Prepared, Unpublished, Checking, frozen
<1>8. PartsAge'
  BY <1>1, <1>3, <1>4 DEF PartsAge, frozen
<1>9. LoadedAge'
  <2> USE DEF AfterProbe, Checked, Launched, Checking
  <2>1. loaded.model \in Nat /\ \A p \in Parts : loaded.parts[p] \in {0, 1}
    BY SweepAssumption DEF MeasuredOK, Loads
  <2>2. pc = "exit" \/ AfterProbe => ModelOf(cur) \in M
    BY CaseOfModel DEF Progress, Unpublished
  <2>3. loaded' = loaded /\ cur' = cur /\ identity' = identity /\ runtimeId' = runtimeId
    BY <1>1 DEF frozen, measured
  <2>4. (pc = "exit" \/ AfterProbe)' => /\ identity[ModelOf(cur)] <= loaded.model
                                        /\ loaded.model <= model'[ModelOf(cur)]
    BY <1>1, <1>2, <1>6, <2>1, <2>2 DEF LoadedAge
  <2>5. Checked' => loaded.model = identity[ModelOf(cur)]
    BY <1>1 DEF LoadedAge
  <2>6. Launched' => \A p \in Parts : flips'[p] < 2 =>
          runtimeId[p] <= loaded.parts[p] /\ loaded.parts[p] <= file'[p]
    BY <1>1, <1>3, <1>4, <2>1 DEF LoadedAge, PartsAge
  <2>7. ((pc = "models" /\ stage = "after") \/ Checked)' =>
          \A p \in Parts : \/ flips'[p] >= 2
                           \/ loaded.parts[p] = runtimeId[p]
                           \/ manifest'[p] # runtimeId[p]
    BY <1>1, <1>3, <1>4 DEF LoadedAge, PartsAge
  <2>8. pc' = "replace" =>
          staged' = Append(summary', [case |-> cur', with |-> loaded', code |-> code',
                                      report |-> report'])
    BY <1>1 DEF LoadedAge, measured
  <2> QED BY <2>3, <2>4, <2>5, <2>6, <2>7, <2>8 DEF LoadedAge
<1>10. EarlierSettled'
  BY <1>1, <1>3 DEF EarlierSettled, Settled, AfterProbe, Checking, frozen
<1>11. PublishedFromFrozen'
  BY <1>1, <1>3, <1>4 DEF PublishedFromFrozen, PartsAge, frozen
<1> QED BY <1>5, <1>7, <1>8, <1>9, <1>10, <1>11

\* The rows published so far are settled for good if the frozen values, the
\* files' changes and the manifest are left alone.
LEMMA SamePublished ==
  ASSUME PublishedFromFrozen, UNCHANGED <<summary, digest, runtimeId, flips, manifest>>
  PROVE  PublishedFromFrozen'
  BY DEF PublishedFromFrozen

\* Freezing: identities, manifest and digests, before any case.
LEMMA FrozenPreparation ==
  ASSUME IInv, FrozenInv, Identify \/ Fingerprint \/ HashModel \/ ConfirmModel
  PROVE  FrozenInv'
<1> USE DEF FrozenInv, IInv
<1>1. /\ UNCHANGED <<world, measured, tables>> /\ summary = <<>>
      /\ pc \in Preparing
  BY DEF Identify, Fingerprint, HashModel, ConfirmModel, Progress, BeforeCases, Preparing
<1>2. /\ pc' \in {"fingerprint", "tree", "rehash", "exit 1", "hash"}
      /\ pc' = "tree" => stage' \in {"runtime", "prepared"}
  BY DEF Identify, Fingerprint, HashModel, ConfirmModel, Goto
<1>3. model \in [M -> Nat] /\ identity \in [M -> Nat] /\ digest \in [M -> Nat]
  BY SweepAssumption DEF TypeOK, FrozenOK
<1>4. FrozenOK'
  <2>1. CASE Identify \/ Fingerprint \/ ConfirmModel
    BY <1>1, <2>1 DEF Identify, Fingerprint, ConfirmModel, FrozenOK, TypeOK, world, frozen
  <2>2. CASE HashModel
    <3>1. cur \in M /\ model[cur] \in 0 .. MaxChanges
      BY <2>2 DEF HashModel, Progress, TypeOK
    <3> QED BY <1>1, <2>2, <3>1 DEF HashModel, FrozenOK, world
  <2> QED BY <2>1, <2>2
<1>5. ModelsAge'
  <2> USE DEF ModelsAge, Prepared, Unpublished, Checking
  <2>1. CASE Identify
    BY <1>1, <1>3, <2>1 DEF Identify, Goto, world
  <2>2. CASE Fingerprint
    BY <1>1, <1>3, <2>2 DEF Fingerprint, Goto, world
  <2>3. CASE HashModel
    <3>1. /\ pc = "hash" /\ pc' = "rehash" /\ cur' = cur /\ cur \in M
          /\ identity' = identity /\ model' = model
          /\ digest' = [digest EXCEPT ![cur] = model[cur]]
      BY <1>1, <2>3 DEF HashModel, Goto, Progress, world
    <3>2. M \subseteq Nat
      BY CountFacts
    <3> QED BY <1>3, <3>1, <3>2
  <2>4. CASE ConfirmModel
    <3>1. /\ pc = "rehash" /\ cur \in M
          /\ UNCHANGED <<identity, digest, model>>
      BY <1>1, <2>4 DEF ConfirmModel, Progress, world, frozen
    <3>2. M = 1 .. Len(Models) /\ Len(Models) \in Nat
      BY CountFacts
    <3>3. model[cur] = identity[cur] => digest[cur] = identity[cur]
      BY <1>3, <3>1
    <3>4. /\ cur \in Nat /\ cur <= Len(Models)
          /\ \A m \in M : m \in Nat /\ m <= Len(Models)
      BY <3>1, <3>2
    <3>5. CASE model[cur] # identity[cur]
      BY <1>3, <2>4, <3>1, <3>5 DEF ConfirmModel, Goto
    <3>6. CASE model[cur] = identity[cur] /\ cur < Len(Models)
      <4>1. pc' = "hash" /\ cur' = cur + 1
        BY <2>4, <3>6 DEF ConfirmModel, Goto
      <4>2. \A m \in M : m < cur + 1 => m < cur \/ m = cur
        BY <3>4
      <4> QED BY <1>3, <3>1, <3>3, <3>6, <4>1, <4>2
    <3>7. CASE model[cur] = identity[cur] /\ ~(cur < Len(Models))
      <4>1. pc' = "tree"
        BY <2>4, <3>7 DEF ConfirmModel, Goto
      <4>2. \A m \in M : m < cur \/ m = cur
        BY <3>4, <3>7, <3>2
      <4> QED BY <1>3, <3>1, <3>3, <3>7, <4>1, <4>2
    <3> QED BY <3>5, <3>6, <3>7
  <2> QED BY <2>1, <2>2, <2>3, <2>4
<1>6. PartsAge'
  <2>1. \A p \in Parts : manifest[p] \in {0, 1}
    BY DEF TypeOK
  <2>2. runtimeId' = manifest \/ runtimeId' = runtimeId
    BY DEF Identify, Fingerprint, HashModel, ConfirmModel, frozen
  <2> QED BY <1>1, <2>1, <2>2 DEF PartsAge, world
<1>7. LoadedAge' /\ EarlierSettled'
  BY <1>2 DEF LoadedAge, AfterProbe, Checked, Launched, Checking, EarlierSettled, Settled
<1>8. PublishedFromFrozen'
  BY <1>1 DEF PublishedFromFrozen, tables
<1> QED BY <1>4, <1>5, <1>6, <1>7, <1>8

\* The other steps that publish nothing freeze nothing either.
LEMMA FrozenCases ==
  ASSUME IInv, FrozenInv, Unpublishing,
         ~Identify, ~Fingerprint, ~HashModel, ~ConfirmModel
  PROVE  FrozenInv'
<1> USE DEF FrozenInv, IInv
<1>1. UNCHANGED <<world, frozen, summary, rows>>
  BY DEF Unpublishing, CreateSweep,
         CheckTree, CheckManifest, CheckFiles, CheckModels, CheckStep,
         StartCase, OpenCase, Launch, LoadModel, ProbeExits, CheckExitStatus,
         ReadCase, StageSummary, LogPass, LogFailed, Fail, StopOutsideCase,
         CheckFails, CaseFails, tables
<1>2. FrozenOK' /\ PartsAge' /\ PublishedFromFrozen'
  BY <1>1, SamePublished DEF FrozenOK, PartsAge, world, frozen
<1>3. model \in [M -> Nat] /\ identity \in [M -> Nat] /\ digest \in [M -> Nat]
  BY SweepAssumption DEF TypeOK, FrozenOK
<1>4. ModelsAge'
  <2>1. pc' \notin {"hash", "rehash"} \/ (pc' = "hash" /\ cur' = 1)
    <3>1. CASE CheckFiles
      BY <3>1 DEF CheckFiles, CheckStep, Goto, Reject, Progress, BeforeCases, Checking
    <3>2. CASE ~CheckFiles
      BY <3>2 DEF Unpublishing, CreateSweep,
         CheckTree, CheckManifest, CheckModels, CheckStep, Goto, Reject,
         StartCase, OpenCase, Launch, LoadModel, ProbeExits, CheckExitStatus,
         ReadCase, StageSummary, LogPass, LogFailed, Fail, StopOutsideCase,
         CheckFails, CaseFails, Progress, TypeOK
    <3> QED BY <3>1, <3>2
  <2>2. Prepared' => Prepared
    <3> USE DEF Prepared, Unpublished, Checking
    <3>1. CASE CheckTree \/ CheckManifest \/ CheckFiles \/ CheckModels \/ CheckFails
      BY <3>1 DEF CheckTree, CheckManifest, CheckFiles, CheckModels, CheckFails, CheckStep,
                  Goto, Reject, TypeOK, Progress
    <3>2. CASE \/ CreateSweep \/ StartCase \/ OpenCase \/ Launch \/ LoadModel \/ ProbeExits
               \/ CheckExitStatus \/ ReadCase
      BY <3>2 DEF CreateSweep, StartCase, OpenCase, Launch, LoadModel, ProbeExits,
                  CheckExitStatus, ReadCase, Goto, Reject
    <3>3. CASE StageSummary \/ LogPass \/ LogFailed \/ StopOutsideCase \/ CaseFails
      BY <3>3 DEF StageSummary, LogPass, LogFailed, StopOutsideCase, CaseFails, Goto
    <3> QED BY <3>1, <3>2, <3>3 DEF Unpublishing, Fail
  <2>3. \A m \in M : m \in Nat /\ m >= 1
    BY CountFacts
  <2> QED BY <1>1, <2>1, <2>2, <2>3 DEF ModelsAge, world, frozen
<1>5. EarlierSettled'
  <2> USE DEF EarlierSettled, Settled, AfterProbe, Checking
  <2>1. Settled' => Settled \/ (CheckManifest /\ pc' = "files" /\ manifest = runtimeId)
    <3>1. CASE CheckTree \/ CheckManifest \/ CheckFiles \/ CheckModels \/ CheckFails
      BY <3>1 DEF CheckTree, CheckManifest, CheckFiles, CheckModels, CheckFails, CheckStep,
                  Goto, Reject, TypeOK, Progress
    <3>2. CASE \/ CreateSweep \/ StartCase \/ OpenCase \/ Launch \/ LoadModel \/ ProbeExits
               \/ CheckExitStatus \/ ReadCase
      BY <3>2 DEF CreateSweep, StartCase, OpenCase, Launch, LoadModel, ProbeExits,
                  CheckExitStatus, ReadCase, Goto, Reject
    <3>3. CASE StageSummary \/ LogPass \/ LogFailed \/ StopOutsideCase \/ CaseFails
      BY <3>3 DEF StageSummary, LogPass, LogFailed, StopOutsideCase, CaseFails, Goto
    <3> QED BY <3>1, <3>2, <3>3 DEF Unpublishing, Fail
  <2>2. CASE Settled
    BY <1>1, <2>2 DEF world, frozen
  <2>3. CASE manifest = runtimeId
    BY <1>1, <2>3 DEF PublishedFromFrozen, world, frozen
  <2> QED BY <2>1, <2>2, <2>3
<1>6. LoadedAge'
  <2>1. Launched' => \A p \in Parts : flips'[p] < 2 =>
          runtimeId'[p] <= loaded'.parts[p] /\ loaded'.parts[p] <= file'[p]
    <3> USE DEF Launched, AfterProbe, Checking
    <3>1. CASE Launch
      <4>1. loaded'.parts = file
        BY <3>1 DEF Launch, MeasuredOK, Loads
      <4>2. \A p \in Parts : file[p] \in {0, 1} /\ manifest[p] \in {0, 1} /\ runtimeId[p] \in {0, 1}
        BY DEF TypeOK, FrozenOK
      <4> QED BY <1>1, <4>1, <4>2 DEF PartsAge, world, frozen
    <3>2. CASE ~Launch
      <4>1. Launched' => Launched
        <5>1. CASE CheckTree \/ CheckManifest \/ CheckFiles \/ CheckModels \/ CheckFails
          BY <5>1 DEF CheckTree, CheckManifest, CheckFiles, CheckModels, CheckFails, CheckStep,
                      Goto, Reject, TypeOK, Progress
        <5>2. CASE \/ CreateSweep \/ StartCase \/ OpenCase \/ LoadModel \/ ProbeExits
                   \/ CheckExitStatus \/ ReadCase
          BY <5>2 DEF CreateSweep, StartCase, OpenCase, LoadModel, ProbeExits,
                      CheckExitStatus, ReadCase, Goto, Reject
        <5>3. CASE StageSummary \/ LogPass \/ LogFailed \/ StopOutsideCase \/ CaseFails
          BY <5>3 DEF StageSummary, LogPass, LogFailed, StopOutsideCase, CaseFails, Goto
        <5> QED BY <3>2, <5>1, <5>2, <5>3 DEF Unpublishing, Fail
      <4>2. loaded'.parts = loaded.parts
        <5>1. CASE LoadModel
          BY <5>1 DEF LoadModel, MeasuredOK, Loads
        <5>2. CASE ~LoadModel
          BY <3>2, <5>2 DEF Unpublishing, CreateSweep,
             CheckTree, CheckManifest, CheckFiles, CheckModels, CheckStep,
             StartCase, OpenCase, ProbeExits, CheckExitStatus,
             ReadCase, StageSummary, LogPass, LogFailed, Fail, StopOutsideCase,
             CheckFails, CaseFails, measured
        <5> QED BY <5>1, <5>2
      <4> QED BY <1>1, <4>1, <4>2 DEF LoadedAge, world, frozen
    <3> QED BY <3>1, <3>2
  <2>2. /\ (pc = "exit" \/ AfterProbe)' =>
             /\ identity'[ModelOf(cur')] <= loaded'.model
             /\ loaded'.model <= model'[ModelOf(cur')]
        /\ Checked' => loaded'.model = identity'[ModelOf(cur')]
    <3> USE DEF AfterProbe, Checking, Checked
    <3>1. CASE LoadModel
      <4>1. /\ loaded'.model = model[ModelOf(cur)] /\ cur' = cur /\ pc' = "exit"
            /\ ModelOf(cur) \in M
        BY <3>1, CaseOfModel DEF LoadModel, Goto, MeasuredOK, Loads, Progress, Unpublished
      <4> QED BY <1>1, <1>3, <4>1 DEF ModelsAge, world, frozen
    <3>2. CASE CheckModels
      <4>1. CASE pc' = "code"
        <5>1. /\ model = identity /\ stage = "after" /\ pc = "models" /\ cur' = cur
              /\ loaded' = loaded
          BY <3>2, <4>1 DEF CheckModels, CheckStep, Goto, Reject, TypeOK, Progress, measured
        <5>2. ModelOf(cur) \in M
          BY <5>1, CaseOfModel DEF Progress, Unpublished
        <5>3. loaded.model \in Nat
          BY SweepAssumption DEF MeasuredOK, Loads
        <5> QED BY <1>1, <1>3, <4>1, <5>1, <5>2, <5>3 DEF LoadedAge, world, frozen
      <4>2. CASE pc' # "code"
        BY <3>2, <4>2 DEF CheckModels, CheckStep, Goto, Reject, TypeOK, Progress
      <4> QED BY <4>1, <4>2
    <3>3. CASE ~LoadModel /\ ~CheckModels
      <4>1. /\ (pc = "exit" \/ AfterProbe)' => (pc = "exit" \/ AfterProbe) /\ cur' = cur
            /\ Checked' => Checked /\ cur' = cur
        <5>1. CASE CheckTree \/ CheckManifest \/ CheckFiles \/ CheckFails
          BY <5>1 DEF CheckTree, CheckManifest, CheckFiles, CheckFails, CheckStep,
                      Goto, Reject, TypeOK
        <5>2. CASE \/ CreateSweep \/ StartCase \/ OpenCase \/ Launch \/ ProbeExits
                   \/ CheckExitStatus \/ ReadCase
          BY <5>2 DEF CreateSweep, StartCase, OpenCase, Launch, ProbeExits,
                      CheckExitStatus, ReadCase, Goto, Reject
        <5>3. CASE StageSummary \/ LogPass \/ LogFailed \/ StopOutsideCase \/ CaseFails
          BY <5>3 DEF StageSummary, LogPass, LogFailed, StopOutsideCase, CaseFails, Goto
        <5> QED BY <3>3, <5>1, <5>2, <5>3 DEF Unpublishing, Fail
      <4>2. loaded'.model = loaded.model
        <5>1. CASE Launch
          BY <5>1 DEF Launch, MeasuredOK, Loads
        <5>2. CASE ~Launch
          BY <3>3, <5>2 DEF Unpublishing, CreateSweep,
             CheckTree, CheckManifest, CheckFiles, CheckStep,
             StartCase, OpenCase, ProbeExits, CheckExitStatus,
             ReadCase, StageSummary, LogPass, LogFailed, Fail, StopOutsideCase,
             CheckFails, CaseFails, measured
        <5> QED BY <5>1, <5>2
      <4> QED BY <1>1, <4>1, <4>2 DEF LoadedAge, world, frozen
    <3> QED BY <3>1, <3>2, <3>3
  <2>3. ((pc = "models" /\ stage = "after") \/ Checked)' =>
          \A p \in Parts : \/ flips'[p] >= 2
                           \/ loaded'.parts[p] = runtimeId'[p]
                           \/ manifest'[p] # runtimeId'[p]
    <3> USE DEF Checked
    <3>1. CASE CheckFiles
      <4>1. CASE pc' = "models" /\ stage = "after"
        <5>1. file = manifest /\ loaded' = loaded /\ pc = "files"
          BY <3>1, <4>1 DEF CheckFiles, CheckStep, Goto, Reject, measured
        <5>2. \A p \in Parts : /\ file[p] \in {0, 1} /\ runtimeId[p] \in {0, 1}
                               /\ loaded.parts[p] \in {0, 1} /\ flips[p] \in Nat
          BY DEF TypeOK, FrozenOK, MeasuredOK, Loads
        <5>3. \A p \in Parts : flips[p] < 2 =>
                runtimeId[p] <= loaded.parts[p] /\ loaded.parts[p] <= file[p]
          BY <4>1, <5>1 DEF LoadedAge, Launched, AfterProbe, Checking
        <5> QED BY <1>1, <5>1, <5>2, <5>3 DEF world, frozen
      <4>2. CASE ~(pc' = "models" /\ stage = "after")
        BY <3>1, <4>2 DEF CheckFiles, CheckStep, Goto, Reject
      <4> QED BY <4>1, <4>2
    <3>2. CASE ~CheckFiles
      <4>1. (Checked \/ (pc = "models" /\ stage = "after"))' =>
              /\ Checked \/ (pc = "models" /\ stage = "after")
              /\ loaded' = loaded
        <5>1. CASE CheckTree \/ CheckManifest \/ CheckModels \/ CheckFails
          BY <5>1 DEF CheckTree, CheckManifest, CheckModels, CheckFails, CheckStep,
                      Goto, Reject, TypeOK, Progress, measured, Checking
        <5>2. CASE \/ CreateSweep \/ StartCase \/ OpenCase \/ Launch \/ LoadModel \/ ProbeExits
                   \/ CheckExitStatus \/ ReadCase
          BY <5>2 DEF CreateSweep, StartCase, OpenCase, Launch, LoadModel, ProbeExits,
                      CheckExitStatus, ReadCase, Goto, Reject, measured
        <5>3. CASE StageSummary \/ LogPass \/ LogFailed \/ StopOutsideCase \/ CaseFails
          BY <5>3 DEF StageSummary, LogPass, LogFailed, StopOutsideCase, CaseFails, Goto, measured
        <5> QED BY <3>2, <5>1, <5>2, <5>3 DEF Unpublishing, Fail
      <4> QED BY <1>1, <4>1 DEF LoadedAge, world, frozen
    <3> QED BY <3>1, <3>2
  <2>4. pc' = "replace" =>
          staged' = Append(summary', [case |-> cur', with |-> loaded', code |-> code',
                                      report |-> report'])
    <3>1. CASE StageSummary
      BY <3>1 DEF StageSummary, measured, TypeOK
    <3>2. CASE ~StageSummary
      <4>1. pc' # "replace"
        BY <3>2 DEF Unpublishing, CreateSweep,
         CheckTree, CheckManifest, CheckFiles, CheckModels, CheckStep, Goto, Reject,
         StartCase, OpenCase, Launch, LoadModel, ProbeExits, CheckExitStatus,
         ReadCase, LogPass, LogFailed, Fail, StopOutsideCase,
         CheckFails, CaseFails, Progress, TypeOK, Checking
      <4> QED BY <4>1
    <3> QED BY <3>1, <3>2
  <2> QED BY <2>1, <2>2, <2>3, <2>4 DEF LoadedAge
<1> QED BY <1>2, <1>4, <1>5, <1>6

\* Publishing appends the row of what the probe ran with to settled rows.
LEMMA FrozenPublishes ==
  ASSUME IInv, FrozenInv, ReplaceSummary
  PROVE  FrozenInv'
<1> USE DEF FrozenInv, IInv
<1>1. /\ pc = "replace" /\ pc' = "pass" /\ summary' = staged
      /\ UNCHANGED <<world, stage, frozen, cur, measured>>
  BY DEF ReplaceSummary, Goto
<1>2. cur \in Cases /\ Len(summary) = cur - 1 /\ summary \in Seq(Rows)
  BY <1>1 DEF Progress, Unpublished, MeasuredOK
<1>3. FrozenOK' /\ PartsAge'
  BY <1>1 DEF FrozenOK, PartsAge, world, frozen
<1>4. ModelsAge'
  BY <1>1 DEF ModelsAge, Prepared, Unpublished, world, frozen
<1>5. LoadedAge' /\ EarlierSettled'
  BY <1>1 DEF LoadedAge, AfterProbe, Checked, Launched, Checking, EarlierSettled, Settled
<1>6. PublishedFromFrozen'
  <2> DEFINE row == [case |-> cur, with |-> loaded, code |-> code, report |-> report]
  <2>1. row \in Rows /\ row.with = loaded
    BY <1>2, CountFacts DEF Rows, MeasuredOK, Cases
  <2>2. summary' = Append(summary, row)
    BY <1>1 DEF LoadedAge
  <2>3. /\ Len(summary') = cur /\ DOMAIN summary' = 1 .. cur
        /\ summary'[cur] = row /\ \A j \in 1 .. cur - 1 : summary'[j] = summary[j]
        /\ DOMAIN summary = 1 .. cur - 1
    <3> HIDE DEF row
    <3> QED BY <1>2, <2>1, <2>2, CountFacts DEF Cases
  <2>4. \A j \in 1 .. cur - 1 :
          /\ summary'[j].with.model = digest'[ModelOf(j)]
          /\ \A p \in Parts : summary'[j].with.parts[p] = runtimeId'[p] \/ flips'[p] >= 2
    BY <1>1, <2>3 DEF PublishedFromFrozen, EarlierSettled, Settled, AfterProbe, world, frozen
  <2>5. /\ summary'[cur].with.model = digest'[ModelOf(cur)]
        /\ \A p \in Parts : \/ summary'[cur].with.parts[p] = runtimeId'[p]
                            \/ flips'[p] >= 2
                            \/ manifest'[p] # runtimeId'[p]
    <3>1. ModelOf(cur) \in M
      BY <1>2, CaseOfModel
    <3>2. loaded.model = digest[ModelOf(cur)]
      BY <1>1, <3>1 DEF LoadedAge, Checked, ModelsAge, Prepared, Unpublished
    <3> HIDE DEF row
    <3> QED BY <1>1, <2>1, <2>3, <3>2 DEF LoadedAge, Checked, world, frozen
  <2>6. cur \in Nat
    BY <1>2, CountFacts DEF Cases
  <2> HIDE DEF row
  <2>7. \A j \in DOMAIN summary' : j \in 1 .. cur - 1 \/ (j = cur /\ j = Len(summary'))
    BY <2>3, <2>6
  <2> QED BY <2>4, <2>5, <2>7 DEF PublishedFromFrozen
<1> QED BY <1>3, <1>4, <1>5, <1>6

\* Every published row was measured with the hashed model and, unless a part
\* was changed twice or the last row's manifest was replaced after it, with the
\* fingerprinted parts: for any number of files, cases and changes.
THEOREM PublishedRowsAreFrozen == Spec => []PublishedFromFrozen
<1>1. Init => FrozenInv
  <2> SUFFICES ASSUME Init PROVE FrozenInv
    OBVIOUS
  <2> USE SweepAssumption DEF Init
  <2>1. FrozenOK
    BY DEF FrozenOK
  <2>2. ModelsAge
    BY DEF ModelsAge, Prepared, Unpublished, Checking
  <2>3. PartsAge
    BY DEF PartsAge
  <2>4. LoadedAge /\ EarlierSettled
    BY DEF LoadedAge, AfterProbe, Checked, Launched, Checking, EarlierSettled, Settled
  <2>5. PublishedFromFrozen
    BY DEF PublishedFromFrozen
  <2> QED BY <2>1, <2>2, <2>3, <2>4, <2>5 DEF FrozenInv
<1>2. IInv /\ FrozenInv /\ [Next]_vars => FrozenInv'
  <2> SUFFICES ASSUME IInv, FrozenInv, [Next]_vars PROVE FrozenInv'
    OBVIOUS
  <2>1. CASE Others
    BY <2>1, FrozenOthers
  <2>2. CASE Identify \/ Fingerprint \/ HashModel \/ ConfirmModel
    BY <2>2, FrozenPreparation
  <2>3. CASE Unpublishing /\ ~(Identify \/ Fingerprint \/ HashModel \/ ConfirmModel)
    BY <2>3, FrozenCases
  <2>4. CASE ReplaceSummary
    BY <2>4, FrozenPublishes
  <2>5. CASE UNCHANGED vars
    BY <2>5 DEF vars, world, frozen, measured, tables, FrozenInv, FrozenOK, ModelsAge, Prepared,
                Unpublished, PartsAge, LoadedAge, AfterProbe, Checked, Launched, EarlierSettled,
                Settled, PublishedFromFrozen
  <2> QED BY <2>1, <2>2, <2>3, <2>4, <2>5 DEF Next, Proceed, Unpublishing
<1>3. FrozenInv => PublishedFromFrozen
  BY DEF FrozenInv
<1> QED BY <1>1, <1>2, <1>3, Invariance, PTL DEF Spec

-----------------------------------------------------------------------------
(* What index.tsv says.  The log is what is on disk and what a failed flush *)
(* left in the buffer; the file is a prefix of it.                          *)

Log == index \o buffer
Events == {Event(s, c) : s \in {"started", "pass", "failed"}, c \in Cases}

\* Started and passed cases alternate; a failure ends the log.
Alternates ==
  \A j \in 1 .. Len(Log) :
    \/ \E c \in Cases : j = 2 * c - 1 /\ Log[j] = Event("started", c)
    \/ \E c \in Cases : j = 2 * c /\ Log[j] = Event("pass", c) /\ c <= Len(summary)
    \/ /\ j = Len(Log) /\ pc \in {"exit 1", "killed"}
       /\ cur \in Cases /\ Log[j] = Event("failed", cur)

\* Where the runner is tells how much it has logged.
Logged ==
  /\ BeforeCases => Len(Log) = 0
  /\ pc \in {"start", "passed"} => Len(Log) = 2 * (cur - 1)
  /\ Unpublished \/ pc = "pass" => Len(Log) = 2 * cur - 1
  /\ pc = "failed" => cur \in Cases /\ Len(Log) \in {2 * cur - 1, 2 * cur}
  /\ pc \notin {"failed", "exit 1", "killed"} => buffer = <<>>
  /\ pc = "passed" => cur = CaseCount + 1 /\ Len(summary) = CaseCount

LogInv == index \in Seq(Events) /\ buffer \in Seq(Events) /\ Alternates /\ Logged

\* A number is given by its quotient and its remainder.
LEMMA DivMod ==
  \A a, b \in Nat, n \in Nat \ {0} : a \div n = b \div n /\ a % n = b % n => a = b
  OBVIOUS

\* No two cases have the same event, and no two kinds of event look the same.
LEMMA EventInjective ==
  ASSUME NEW s, NEW t, NEW c \in Cases, NEW d \in Cases, Event(s, c) = Event(t, d)
  PROVE  s = t /\ c = d
<1>1. /\ s = t /\ Models[ModelOf(c)] = Models[ModelOf(d)] /\ PPOf(c) = PPOf(d)
  BY DEF Event
<1>2. ModelOf(c) \in M /\ ModelOf(d) \in M
  BY CaseOfModel
<1>3. ModelOf(c) = ModelOf(d)
  BY <1>1, <1>2, SweepAssumption DEF IsInjective, M
<1>4. Len(PPLengths) \in Nat \ {0} /\ DOMAIN PPLengths = 1 .. Len(PPLengths)
  BY SweepAssumption
<1>5. c - 1 \in Nat /\ d - 1 \in Nat
  BY CountFacts DEF Cases
<1>6. \A a \in Nat, n \in Nat \ {0} : a \div n \in Nat /\ a % n \in Nat /\ a % n < n
  OBVIOUS
<1>7. /\ ((c - 1) % Len(PPLengths)) + 1 \in DOMAIN PPLengths
      /\ ((d - 1) % Len(PPLengths)) + 1 \in DOMAIN PPLengths
  BY <1>4, <1>5, <1>6
<1>8. (c - 1) % Len(PPLengths) = (d - 1) % Len(PPLengths)
  <2>1. ((c - 1) % Len(PPLengths)) + 1 = ((d - 1) % Len(PPLengths)) + 1
    BY <1>1, <1>7, SweepAssumption DEF PPOf, IsInjective
  <2> QED BY <1>4, <1>5, <1>6, <2>1
<1>9. (c - 1) \div Len(PPLengths) = (d - 1) \div Len(PPLengths)
  BY <1>3, <1>4, <1>5, <1>6 DEF ModelOf
<1>10. c - 1 = d - 1
  BY <1>4, <1>5, <1>8, <1>9, DivMod
<1> QED BY <1>1, <1>10, CountFacts DEF Cases

\* Whatever part of it a flush writes, the log gains the events and no more.
LEMMA FlushKeeps ==
  ASSUME NEW S, NEW events \in Seq(S), index \in Seq(S),
         Flush(events) \/ FlushSome(events)
  PROVE  /\ index' \in Seq(S) /\ buffer' \in Seq(S)
         /\ index' \o buffer' = index \o events
         /\ Flush(events) => buffer' = <<>>
<1>1. CASE Flush(events)
  <2>1. index' = index \o events /\ buffer' = <<>>
    BY <1>1 DEF Flush
  <2>2. index \o events \in Seq(S) /\ <<>> \in Seq(S)
    BY ConcatProperties, EmptySeq
  <2>3. (index \o events) \o <<>> = index \o events
    BY <2>2, ConcatEmptySeq
  <2> QED BY <2>1, <2>2, <2>3
<1>2. CASE FlushSome(events) /\ ~Flush(events)
  <2>1. PICK n \in 0 .. Len(events) :
          /\ index' = index \o SubSeq(events, 1, n)
          /\ buffer' = SubSeq(events, n + 1, Len(events))
    BY <1>2 DEF FlushSome
  <2>2. SubSeq(events, 1, n) \in Seq(S) /\ SubSeq(events, n + 1, Len(events)) \in Seq(S)
    OBVIOUS
  <2>3. SubSeq(events, 1, n) \o SubSeq(events, n + 1, Len(events)) = events
    <3>1. /\ 1 \in 1 .. Len(events) + 1 /\ n \in 1 - 1 .. Len(events)
          /\ Len(events) \in n .. Len(events)
      OBVIOUS
    <3>2. SubSeq(events, 1, n) \o SubSeq(events, n + 1, Len(events))
            = SubSeq(events, 1, Len(events))
      BY <3>1, ConcatAdjacentSubSeq
    <3> QED BY <3>2, SubSeqFull
  <2>4. index' \o buffer' = index \o (SubSeq(events, 1, n) \o SubSeq(events, n + 1, Len(events)))
    <3> DEFINE written == SubSeq(events, 1, n)
               kept == SubSeq(events, n + 1, Len(events))
    <3>1. written \in Seq(S) /\ kept \in Seq(S) /\ index \in Seq(S)
      BY <2>2
    <3>2. index' = index \o written /\ buffer' = kept
      BY <2>1
    <3> HIDE DEF written, kept
    <3>3. (index \o written) \o kept = index \o (written \o kept)
      BY ONLY <3>1, ConcatAssociative
    <3>4. index' \o buffer' = index \o (written \o kept)
      BY <3>2, <3>3
    <3> QED BY <3>4 DEF written, kept
  <2>5. index \o SubSeq(events, 1, n) \in Seq(S)
    BY <2>2, ConcatProperties
  <2> QED BY <1>2, <2>1, <2>2, <2>3, <2>4, <2>5
<1> QED BY <1>1, <1>2

\* A step that flushes one more event appends it to the log.
LEMMA LogAppends ==
  ASSUME LogInv, NEW e \in Events,
         Flush(Append(buffer, e)) \/ FlushSome(Append(buffer, e))
  PROVE  /\ index' \in Seq(Events) /\ buffer' \in Seq(Events)
         /\ Log \in Seq(Events) /\ Len(Log') = Len(Log) + 1
         /\ Log'[Len(Log) + 1] = e
         /\ \A j \in 1 .. Len(Log) : Log'[j] = Log[j]
         /\ Flush(Append(buffer, e)) => buffer' = <<>>
<1>1. index \in Seq(Events) /\ buffer \in Seq(Events) /\ Append(buffer, e) \in Seq(Events)
  BY DEF LogInv
<1>2. /\ index' \in Seq(Events) /\ buffer' \in Seq(Events)
      /\ Log' = index \o Append(buffer, e)
      /\ Flush(Append(buffer, e)) => buffer' = <<>>
  BY <1>1, FlushKeeps DEF Log
<1>3. index \o Append(buffer, e) = Append(Log, e) /\ Log \in Seq(Events)
  <2>1. Append(buffer, e) = buffer \o <<e>> /\ <<e>> \in Seq(Events)
    BY <1>1, AppendIsConcat
  <2>2. index \o (buffer \o <<e>>) = (index \o buffer) \o <<e>>
    BY <1>1, <2>1, ConcatAssociative
  <2>3. Log \in Seq(Events)
    BY <1>1, ConcatProperties DEF Log
  <2>4. Append(Log, e) = Log \o <<e>>
    BY <2>3, AppendIsConcat
  <2> QED BY <2>1, <2>2, <2>3, <2>4 DEF Log
<1>4. Log' = Append(Log, e)
  BY <1>2, <1>3
<1> QED BY <1>2, <1>3, <1>4, AppendProperties

\* A step that writes nothing to the log keeps its shape, wherever it leads.
LEMMA QuietLog ==
  ASSUME IInv, LogInv, pc \notin {"exit 1", "killed"}, Log' = Log,
         \A c \in Cases : c <= Len(summary) => c <= Len(summary')
  PROVE  Alternates'
<1>1. \A j \in 1 .. Len(Log) :
        \/ \E c \in Cases : j = 2 * c - 1 /\ Log[j] = Event("started", c)
        \/ \E c \in Cases : j = 2 * c /\ Log[j] = Event("pass", c) /\ c <= Len(summary)
  BY DEF LogInv, Alternates
<1> QED BY <1>1 DEF Alternates

\* The steps of the runner that log nothing.
Silent ==
  \/ Identify \/ Fingerprint \/ HashModel \/ ConfirmModel \/ CreateSweep
  \/ CheckTree \/ CheckManifest \/ CheckFiles \/ CheckModels
  \/ OpenCase \/ Launch \/ LoadModel \/ ProbeExits \/ CheckExitStatus
  \/ ReadCase \/ StageSummary \/ ReplaceSummary \/ Fail

LEMMA SilentKeepsLog ==
  ASSUME IInv, LogInv, Silent, IInv'
  PROVE  LogInv'
<1>1. UNCHANGED <<index, buffer>> /\ pc \notin Ended
  BY DEF Silent, Identify, Fingerprint, HashModel, ConfirmModel, CreateSweep,
         CheckTree, CheckManifest, CheckFiles, CheckModels, CheckStep,
         OpenCase, Launch, LoadModel, ProbeExits, CheckExitStatus,
         ReadCase, StageSummary, ReplaceSummary, Fail, StopOutsideCase,
         CheckFails, CaseFails, tables, Ended, Preparing, Checking, InCase
<1>2. Log' = Log
  BY <1>1 DEF Log
<1>3. \A c \in Cases : c <= Len(summary) => c <= Len(summary')
  <2>2. CASE ReplaceSummary
    <3>1. PICK row \in Rows : staged = Append(summary, row)
      BY <2>2 DEF ReplaceSummary, IInv, Progress
    <3>2. summary' = Append(summary, row) /\ summary \in Seq(Rows)
      BY <2>2, <3>1 DEF ReplaceSummary, IInv, MeasuredOK
    <3>3. Len(summary') = Len(summary) + 1 /\ Len(summary) \in Nat
      BY <3>2
    <3>4. Cases \subseteq Nat
      BY ONLY CountFacts DEF Cases
    <3>5. \A a \in Nat, c \in Nat : c <= a => c <= a + 1
      OBVIOUS
    <3> QED BY <3>3, <3>4, <3>5
  <2>3. CASE ~ReplaceSummary
    <3>1. summary' = summary
      BY <2>3 DEF Silent, Identify, Fingerprint, HashModel, ConfirmModel, CreateSweep,
         CheckTree, CheckManifest, CheckFiles, CheckModels, CheckStep,
         OpenCase, Launch, LoadModel, ProbeExits, CheckExitStatus,
         ReadCase, StageSummary, Fail, StopOutsideCase, CheckFails, CaseFails, tables
    <3> QED BY <3>1
  <2> QED BY <2>2, <2>3
<1>4. Alternates'
  BY <1>1, <1>2, <1>3, QuietLog DEF Ended
<1>5. Logged'
  <2> USE DEF Logged, BeforeCases, Unpublished, Preparing, Checking
  <2>1. Logged
    BY DEF LogInv
  <2>2. CASE Identify \/ Fingerprint \/ HashModel \/ ConfirmModel \/ CreateSweep
    <3>1. CASE CreateSweep
      BY <1>1, <1>2, <2>1, <3>1 DEF CreateSweep, Goto, IInv, Progress
    <3>2. CASE Identify \/ Fingerprint \/ HashModel \/ ConfirmModel
      BY <1>1, <1>2, <2>1, <3>2 DEF Identify, Fingerprint, HashModel, ConfirmModel, Goto
    <3> QED BY <2>2, <3>1, <3>2
  <2>3. CASE CheckTree \/ CheckManifest \/ CheckFiles \/ CheckModels \/ CheckFails
    <3>1. CASE pc' = "failed"
      <4>1. stage \in {"before", "after"} /\ pc \in Checking /\ cur' = cur /\ cur \in Cases
        BY <2>3, <3>1 DEF CheckTree, CheckManifest, CheckFiles, CheckModels, CheckFails,
                          CheckStep, Goto, Reject, IInv, TypeOK, Progress
      <4> QED BY <1>1, <1>2, <2>1, <3>1, <4>1
    <3>2. CASE pc' # "failed"
      BY <1>1, <1>2, <2>1, <2>3, <3>2
         DEF CheckTree, CheckManifest, CheckFiles, CheckModels, CheckFails,
             CheckStep, Goto, Reject, IInv, TypeOK, Progress
    <3> QED BY <3>1, <3>2
  <2>4. CASE StopOutsideCase
    BY <1>1, <1>2, <2>1, <2>4 DEF StopOutsideCase, Goto
  <2>5. CASE CaseFails \/ CheckExitStatus \/ ReadCase
    <3>1. pc \in InCase /\ cur \in Cases /\ cur' = cur
          /\ pc' \in {"failed", "read", "stage"}
      BY <2>5 DEF CaseFails, CheckExitStatus, ReadCase, Goto, Reject, InCase, IInv, Progress
    <3> QED BY <1>1, <1>2, <2>1, <3>1 DEF InCase
  <2>6. CASE OpenCase \/ Launch \/ LoadModel \/ ProbeExits \/ StageSummary \/ ReplaceSummary
    BY <1>1, <1>2, <2>1, <2>6 DEF OpenCase, Launch, LoadModel, ProbeExits, StageSummary,
                                  ReplaceSummary, Goto
  <2> QED BY <2>2, <2>3, <2>4, <2>5, <2>6 DEF Silent, Fail
<1> QED BY <1>1, <1>4, <1>5 DEF LogInv

\* Starting a case, passing it and giving up append one event each.
LEMMA StartKeepsLog ==
  ASSUME IInv, LogInv, StartCase
  PROVE  LogInv'
<1>1. /\ pc = "start" /\ cur' = cur /\ summary' = summary
      /\ Len(summary) = cur - 1 /\ cur \in 1 .. CaseCount + 1 /\ CaseCount \in Nat
      /\ Len(Log) = 2 * (cur - 1) /\ buffer = <<>>
  BY CountFacts DEF StartCase, IInv, TypeOK, Progress, LogInv, Logged
<1>2. CASE cur \notin Cases
  <2>1. pc' = "passed" /\ UNCHANGED <<index, buffer>> /\ cur = CaseCount + 1
    BY <1>1, <1>2 DEF StartCase, Goto, Cases
  <2>2. Log' = Log
    BY <2>1 DEF Log
  <2>3. Alternates'
    BY <1>1, <2>2, QuietLog
  <2>4. Logged'
    BY <1>1, <2>1, <2>2 DEF Logged, BeforeCases, Unpublished, Preparing, Checking
  <2> QED BY <2>1, <2>3, <2>4 DEF LogInv
<1>3. CASE cur \in Cases
  <2> DEFINE e == Event("started", cur)
  <2>1. e \in Events
    BY <1>3 DEF Events
  <2>2. \/ Flush(Append(buffer, e)) /\ pc' = "open"
        \/ FlushSome(Append(buffer, e)) /\ pc' = "exit 1"
    BY <1>3 DEF StartCase, Goto
  <2>3. /\ index' \in Seq(Events) /\ buffer' \in Seq(Events)
        /\ Log \in Seq(Events) /\ Len(Log') = Len(Log) + 1
        /\ Log'[Len(Log) + 1] = e
        /\ \A j \in 1 .. Len(Log) : Log'[j] = Log[j]
        /\ Flush(Append(buffer, e)) => buffer' = <<>>
    <3> HIDE DEF e
    <3> QED BY <2>1, <2>2, LogAppends
  <2>4. Alternates'
    <3>1. \A j \in 1 .. Len(Log) :
            \/ \E c \in Cases : j = 2 * c - 1 /\ Log'[j] = Event("started", c)
            \/ \E c \in Cases : j = 2 * c /\ Log'[j] = Event("pass", c) /\ c <= Len(summary')
      BY <1>1, <2>3 DEF LogInv, Alternates
    <3>2. Len(Log) + 1 = 2 * cur - 1 /\ Log'[Len(Log) + 1] = Event("started", cur)
      BY <1>1, <2>3
    <3>3. \A j \in 1 .. Len(Log') : j \in 1 .. Len(Log) \/ j = Len(Log) + 1
      BY <2>3
    <3> QED BY <1>3, <3>1, <3>2, <3>3 DEF Alternates
  <2>5. Logged'
    <3>1. Len(Log') = 2 * cur - 1
      BY <1>1, <2>3
    <3>2. pc' = "exit 1" \/ (pc' = "open" /\ buffer' = <<>>)
      BY <2>2, <2>3
    <3> QED BY <1>1, <3>1, <3>2 DEF Logged, BeforeCases, Unpublished, Preparing, Checking
  <2> QED BY <2>3, <2>4, <2>5 DEF LogInv
<1> QED BY <1>2, <1>3

LEMMA PassKeepsLog ==
  ASSUME IInv, LogInv, LogPass
  PROVE  LogInv'
<1> DEFINE e == Event("pass", cur)
<1>1. /\ pc = "pass" /\ summary' = summary /\ cur \in Cases /\ cur \in Nat
      /\ Len(summary) = cur /\ Len(Log) = 2 * cur - 1
  BY CountFacts DEF LogPass, IInv, Progress, LogInv, Logged, Cases
<1>2. e \in Events
  BY <1>1 DEF Events
<1>3. \/ Flush(Append(buffer, e)) /\ pc' = "start" /\ cur' = cur + 1
      \/ FlushSome(Append(buffer, e)) /\ pc' = "failed" /\ cur' = cur
  BY DEF LogPass, Goto
<1>4. /\ index' \in Seq(Events) /\ buffer' \in Seq(Events)
      /\ Log \in Seq(Events) /\ Len(Log') = Len(Log) + 1
      /\ Log'[Len(Log) + 1] = e
      /\ \A j \in 1 .. Len(Log) : Log'[j] = Log[j]
      /\ Flush(Append(buffer, e)) => buffer' = <<>>
  <2> HIDE DEF e
  <2> QED BY <1>2, <1>3, LogAppends
<1>5. Alternates'
  <2>1. \A j \in 1 .. Len(Log) :
          \/ \E c \in Cases : j = 2 * c - 1 /\ Log'[j] = Event("started", c)
          \/ \E c \in Cases : j = 2 * c /\ Log'[j] = Event("pass", c) /\ c <= Len(summary')
    BY <1>1, <1>4 DEF LogInv, Alternates
  <2>2. /\ Len(Log) + 1 = 2 * cur /\ Log'[Len(Log) + 1] = Event("pass", cur)
        /\ cur <= Len(summary')
    BY <1>1, <1>4
  <2>3. \A j \in 1 .. Len(Log') : j \in 1 .. Len(Log) \/ j = Len(Log) + 1
    BY <1>4
  <2> QED BY <1>1, <2>1, <2>2, <2>3 DEF Alternates
<1>6. Logged'
  <2>1. Len(Log') = 2 * cur /\ 2 * cur = 2 * ((cur + 1) - 1)
    BY <1>1, <1>4
  <2>2. \/ pc' = "start" /\ cur' = cur + 1 /\ buffer' = <<>>
        \/ pc' = "failed" /\ cur' = cur
    BY <1>3, <1>4
  <2> QED BY <1>1, <2>1, <2>2 DEF Logged, BeforeCases, Unpublished, Preparing, Checking
<1> QED BY <1>4, <1>5, <1>6 DEF LogInv

LEMMA FailureKeepsLog ==
  ASSUME IInv, LogInv, LogFailed
  PROVE  LogInv'
<1> DEFINE e == Event("failed", cur)
<1>1. pc = "failed" /\ summary' = summary /\ cur \in Cases /\ cur' = cur
  BY DEF LogFailed, LogInv, Logged
<1>2. e \in Events
  BY <1>1 DEF Events
<1>3. FlushSome(Append(buffer, e)) /\ pc' = "exit 1"
  BY DEF LogFailed, Goto
<1>4. /\ index' \in Seq(Events) /\ buffer' \in Seq(Events)
      /\ Log \in Seq(Events) /\ Len(Log') = Len(Log) + 1
      /\ Log'[Len(Log) + 1] = e
      /\ \A j \in 1 .. Len(Log) : Log'[j] = Log[j]
  <2> HIDE DEF e
  <2> QED BY <1>2, <1>3, LogAppends
<1>5. Alternates'
  <2>1. \A j \in 1 .. Len(Log) :
          \/ \E c \in Cases : j = 2 * c - 1 /\ Log'[j] = Event("started", c)
          \/ \E c \in Cases : j = 2 * c /\ Log'[j] = Event("pass", c) /\ c <= Len(summary')
    BY <1>1, <1>4 DEF LogInv, Alternates
  <2>2. \A j \in 1 .. Len(Log') : j \in 1 .. Len(Log) \/ j = Len(Log) + 1
    BY <1>4
  <2> QED BY <1>1, <1>3, <1>4, <2>1, <2>2 DEF Alternates
<1>6. Logged'
  BY <1>3 DEF Logged, BeforeCases, Unpublished, Preparing, Checking
<1> QED BY <1>4, <1>5, <1>6 DEF LogInv

\* What others do leaves the log alone; a kill closes it.
LEMMA OthersKeepLog ==
  ASSUME IInv, LogInv, Others
  PROVE  LogInv'
<1>1. summary' = summary /\ cur' = cur /\ stage' = stage /\ pc \notin Ended
  BY DEF Others, ReplacePart, WriteManifest, EditSource, ReplaceModel, Change, Kill, tables
<1>2. \A c \in Cases : c <= Len(summary) => c <= Len(summary')
  BY <1>1
<1>3. CASE Kill
  <2>1. pc' = "killed" /\ FlushSome(buffer)
    BY <1>3 DEF Kill, Goto
  <2>2. index \in Seq(Events) /\ buffer \in Seq(Events)
    BY DEF LogInv
  <2>3. index' \in Seq(Events) /\ buffer' \in Seq(Events) /\ Log' = Log
    BY <2>1, <2>2, FlushKeeps DEF Log
  <2>4. Alternates'
    BY <1>1, <1>2, <2>3, QuietLog DEF Ended
  <2>5. Logged'
    BY <2>1 DEF Logged, BeforeCases, Unpublished, Preparing, Checking
  <2> QED BY <2>3, <2>4, <2>5 DEF LogInv
<1>4. CASE ~Kill
  <2>1. pc' = pc /\ UNCHANGED <<index, buffer>>
    BY <1>4 DEF Others, ReplacePart, WriteManifest, EditSource, ReplaceModel, Change, tables
  <2>2. Log' = Log
    BY <2>1 DEF Log
  <2>3. Alternates'
    BY <1>1, <1>2, <2>2, QuietLog DEF Ended
  <2>4. Logged'
    BY <1>1, <2>1, <2>2 DEF LogInv, Logged, BeforeCases, Unpublished, Preparing, Checking
  <2> QED BY <2>1, <2>3, <2>4 DEF LogInv
<1> QED BY <1>3, <1>4

\* The log has this shape in every behaviour.
LEMMA LogInvariance == Spec => []LogInv
<1>1. Init => LogInv
  <2> SUFFICES ASSUME Init PROVE LogInv
    OBVIOUS
  <2>1. index = <<>> /\ buffer = <<>> /\ pc = "identify"
    BY DEF Init
  <2>2. index \in Seq(Events) /\ buffer \in Seq(Events)
    BY <2>1
  <2>3. Log = <<>> /\ Len(Log) = 0
    <3>1. <<>> \o <<>> = <<>>
      BY ConcatEmptySeq, EmptySeq
    <3> QED BY <2>1, <3>1 DEF Log
  <2> QED BY <2>1, <2>2, <2>3 DEF LogInv, Alternates, Logged, BeforeCases, Unpublished,
                                  Preparing, Checking
<1>2. IInv /\ LogInv /\ [Next]_vars => LogInv'
  <2> SUFFICES ASSUME IInv, LogInv, [Next]_vars PROVE LogInv'
    OBVIOUS
  <2>1. IInv'
    BY Step
  <2>2. CASE Silent
    BY <2>1, <2>2, SilentKeepsLog
  <2>3. CASE StartCase
    BY <2>3, StartKeepsLog
  <2>4. CASE LogPass
    BY <2>4, PassKeepsLog
  <2>5. CASE LogFailed
    BY <2>5, FailureKeepsLog
  <2>6. CASE Others
    BY <2>6, OthersKeepLog
  <2>7. CASE UNCHANGED vars
    BY <2>7 DEF vars, tables, LogInv, Alternates, Logged, Log, BeforeCases, Unpublished
  <2> QED BY <2>2, <2>3, <2>4, <2>5, <2>6, <2>7 DEF Next, Proceed, Silent
<1> QED BY <1>1, <1>2, Invariance, PTL DEF Spec

\* Every event of index.tsv is at its place in the log.
LEMMA IndexOfLog ==
  ASSUME LogInv
  PROVE  /\ index \in Seq(Events) /\ DOMAIN index = 1 .. Len(index)
         /\ Log \in Seq(Events) /\ Len(index) <= Len(Log)
         /\ \A j \in 1 .. Len(index) : index[j] = Log[j]
  BY ConcatProperties DEF LogInv, Log

\* Before the end of the log, the events alternate.
LEMMA PassedPrefix ==
  ASSUME NEW c \in 1 .. CaseCount + 1,
         \A i \in 1 .. 2 * c - 2 :
           \/ \E d \in Cases : i = 2 * d - 1 /\ index[i] = Event("started", d)
           \/ \E d \in Cases : i = 2 * d /\ index[i] = Event("pass", d)
  PROVE  PassedBefore(2 * c - 1) = 1 .. c - 1
<1>1. /\ CaseCount \in Nat /\ Cases = 1 .. CaseCount
      /\ c \in Nat /\ (2 * c - 1) - 1 = 2 * c - 2
  BY CountFacts DEF Cases
<1>2. PassedBefore(2 * c - 1) =
        {e \in Cases : \E i \in 1 .. 2 * c - 2 : index[i] = Event("pass", e)}
  BY <1>1 DEF PassedBefore
<1>3. ASSUME NEW e \in Cases, NEW i \in 1 .. 2 * c - 2, index[i] = Event("pass", e)
      PROVE  e \in 1 .. c - 1
  <2>1. ~ \E d \in Cases : index[i] = Event("started", d)
    BY <1>3, EventInjective
  <2>2. PICK d \in Cases : i = 2 * d /\ index[i] = Event("pass", d)
    BY <2>1
  <2>3. d = e
    BY <1>3, <2>2, EventInjective
  <2> QED BY <1>1, <2>2, <2>3
<1>4. ASSUME NEW e \in 1 .. c - 1
      PROVE  e \in Cases /\ \E i \in 1 .. 2 * c - 2 : index[i] = Event("pass", e)
  <2>1. e \in Cases /\ 2 * e \in 1 .. 2 * c - 2
    BY <1>1
  <2>2. \A d \in Cases : 2 * e # 2 * d - 1 /\ (2 * e = 2 * d => d = e)
    BY <1>1
  <2>3. PICK d \in Cases : 2 * e = 2 * d /\ index[2 * e] = Event("pass", d)
    BY <2>1, <2>2
  <2> QED BY <2>1, <2>2, <2>3
<1> QED BY <1>2, <1>3, <1>4

\* index.tsv is a true log of any sweep: every started case once and only after
\* all before it passed, "pass" only for a published case, "failed" only at the
\* end; whatever call fails, and wherever a flush or a kill cuts it off.
THEOREM IndexIsTrue == Spec => []IndexTrue
<1>1. LogInv => IndexTrue
  <2> SUFFICES ASSUME LogInv, NEW j \in DOMAIN index
               PROVE  \E c \in Cases :
                        \/ /\ index[j] = Event("started", c)
                           /\ PassedBefore(j) = 1 .. c - 1
                           /\ \A i \in 1 .. j - 1 : index[i] # index[j]
                        \/ /\ index[j] = Event("pass", c)
                           /\ c <= Len(summary)
                           /\ index[j - 1] = Event("started", c)
                        \/ index[j] = Event("failed", c) /\ c = cur /\ pc \in Ended
    BY DEF IndexTrue
  <2>1. /\ index \in Seq(Events) /\ Log \in Seq(Events) /\ Len(index) <= Len(Log)
        /\ \A i \in 1 .. Len(index) : index[i] = Log[i]
        /\ j \in 1 .. Len(index) /\ j \in 1 .. Len(Log)
    BY IndexOfLog
  <2>2. CaseCount \in Nat /\ Cases = 1 .. CaseCount
    BY CountFacts DEF Cases
  <2>3. \A i \in 1 .. j - 1 :
          \/ \E d \in Cases : i = 2 * d - 1 /\ index[i] = Event("started", d)
          \/ \E d \in Cases : i = 2 * d /\ index[i] = Event("pass", d)
    <3> TAKE i \in 1 .. j - 1
    <3>1. i \in 1 .. Len(index) /\ i \in 1 .. Len(Log) /\ i # Len(Log)
      BY <2>1
    <3> QED BY <2>1, <3>1 DEF LogInv, Alternates
  <2>4. CASE \E c \in Cases : j = 2 * c - 1 /\ Log[j] = Event("started", c)
    <3>1. PICK c \in Cases : j = 2 * c - 1 /\ Log[j] = Event("started", c)
      BY <2>4
    <3>2. PassedBefore(j) = 1 .. c - 1
      <4>1. c \in 1 .. CaseCount + 1 /\ j - 1 = 2 * c - 2 /\ j = 2 * c - 1
        BY <2>2, <3>1
      <4> QED BY <2>3, <4>1, PassedPrefix
    <3>3. \A i \in 1 .. j - 1 : index[i] # index[j]
      <4> SUFFICES ASSUME NEW i \in 1 .. j - 1, index[i] = Event("started", c) PROVE FALSE
        BY <2>1, <3>1
      <4>1. ~ \E d \in Cases : index[i] = Event("pass", d)
        BY <3>1, EventInjective
      <4>2. PICK d \in Cases : i = 2 * d - 1 /\ index[i] = Event("started", d)
        BY <2>3, <4>1
      <4>3. d = c
        BY <3>1, <4>2, EventInjective
      <4> QED BY <2>2, <3>1, <4>2, <4>3
    <3> QED BY <2>1, <3>1, <3>2, <3>3
  <2>5. CASE \E c \in Cases : j = 2 * c /\ Log[j] = Event("pass", c) /\ c <= Len(summary)
    <3>1. PICK c \in Cases : j = 2 * c /\ Log[j] = Event("pass", c) /\ c <= Len(summary)
      BY <2>5
    <3>2. j - 1 \in 1 .. j - 1 /\ \A d \in Cases : j - 1 # 2 * d
      BY <2>1, <2>2, <3>1
    <3>3. PICK d \in Cases : j - 1 = 2 * d - 1 /\ index[j - 1] = Event("started", d)
      BY <2>3, <3>2
    <3>4. d = c
      BY <2>2, <3>1, <3>3
    <3> QED BY <2>1, <3>1, <3>3, <3>4
  <2>6. CASE pc \in {"exit 1", "killed"} /\ cur \in Cases /\ Log[j] = Event("failed", cur)
    BY <2>1, <2>6 DEF Ended
  <2> QED BY <2>1, <2>4, <2>5, <2>6 DEF LogInv, Alternates
<1> QED BY <1>1, LogInvariance, PTL

\* A sweep of any size that returns 0 has published and logged every case.
THEOREM SuccessMeansAll == Spec => []SuccessIsComplete
<1>1. LogInv => SuccessIsComplete
  <2> SUFFICES ASSUME LogInv, pc = "passed"
               PROVE  /\ Len(summary) = Cardinality(Cases)
                      /\ PassedBefore(Len(index) + 1) = Cases
                      /\ \A j \in DOMAIN index : index[j].status # "failed"
    BY DEF SuccessIsComplete
  <2>1. /\ index \in Seq(Events) /\ Log \in Seq(Events) /\ DOMAIN index = 1 .. Len(index)
        /\ \A i \in 1 .. Len(index) : index[i] = Log[i]
    BY IndexOfLog
  <2>2. CaseCount \in Nat /\ Cases = 1 .. CaseCount
    BY CountFacts DEF Cases
  <2>3. Len(summary) = CaseCount /\ Len(index) = 2 * CaseCount /\ Log = index
    <3>1. buffer = <<>> /\ Len(Log) = 2 * CaseCount /\ Len(summary) = CaseCount
      BY <2>2 DEF LogInv, Logged
    <3>2. Log = index
      BY <3>1, ConcatEmptySeq DEF LogInv, Log
    <3> QED BY <3>1, <3>2
  <2>4. Cardinality(Cases) = CaseCount
    BY <2>2, FS_Interval
  <2>5. PassedBefore(Len(index) + 1) = Cases
    <3> DEFINE c == CaseCount + 1
    <3>1. /\ c \in 1 .. CaseCount + 1 /\ 1 .. c - 1 = Cases
          /\ Len(index) + 1 = 2 * c - 1 /\ 2 * c - 2 = Len(index)
      BY <2>2, <2>3
    <3>2. \A i \in 1 .. 2 * c - 2 :
            \/ \E d \in Cases : i = 2 * d - 1 /\ index[i] = Event("started", d)
            \/ \E d \in Cases : i = 2 * d /\ index[i] = Event("pass", d)
      BY <2>1, <2>3, <3>1 DEF LogInv, Alternates
    <3> HIDE DEF c
    <3> QED BY <3>1, <3>2, PassedPrefix
  <2>6. \A j \in DOMAIN index : index[j].status # "failed"
    <3> TAKE j \in DOMAIN index
    <3>1. j \in 1 .. Len(Log) /\ index[j] = Log[j]
      BY <2>1, <2>3
    <3>2. \E c \in Cases : index[j] = Event("started", c) \/ index[j] = Event("pass", c)
      BY <3>1 DEF LogInv, Alternates
    <3> QED BY <3>2 DEF Event
  <2> QED BY <2>3, <2>4, <2>5, <2>6
<1> QED BY <1>1, LogInvariance, PTL

-----------------------------------------------------------------------------
(* The end: every step of the runner uses up one of the steps left. *)

Runner == <<pc, stage, frozen, cur, measured, tables>>

\* The steps of each call, those of a checking call by what it is for.
LEMMA StepsAt ==
  /\ \A s : /\ StepsOfCase("create", s) = 20 /\ StepsOfCase("start", s) = 19
            /\ StepsOfCase("open", s) = 18 /\ StepsOfCase("launch", s) = 13
            /\ StepsOfCase("load", s) = 12 /\ StepsOfCase("exit", s) = 11
            /\ StepsOfCase("code", s) = 6 /\ StepsOfCase("read", s) = 5
            /\ StepsOfCase("stage", s) = 4 /\ StepsOfCase("replace", s) = 3
            /\ StepsOfCase("pass", s) = 2 /\ StepsOfCase("failed", s) = 1
            /\ StepsOfCase("identify", s) = 2 * Len(Models) + 29
            /\ StepsOfCase("fingerprint", s) = 2 * Len(Models) + 28
            /\ StepsOfCase("tree", s) = StepsOfCheck[s] + 3
            /\ StepsOfCase("manifest", s) = StepsOfCheck[s] + 2
            /\ StepsOfCase("files", s) = StepsOfCheck[s] + 1
            /\ StepsOfCase("models", s) = StepsOfCheck[s] + 0
  /\ \A s : \A e \in Ended : StepsOfCase(e, s) = 0
  /\ StepsOfCheck["after"] = 7 /\ StepsOfCheck["before"] = 14 /\ StepsOfCheck["prepared"] = 21
  /\ StepsOfCheck["runtime"] = 2 * Len(Models) + 24
<1>1. \A e \in Ended : \A s : StepsOfCase(e, s) = 0
  BY DEF StepsOfCase
<1>2. ASSUME NEW s
      PROVE  /\ StepsOfCase("tree", s) = StepsOfCheck[s] + 3
             /\ StepsOfCase("manifest", s) = StepsOfCheck[s] + 2
             /\ StepsOfCase("files", s) = StepsOfCheck[s] + 1
             /\ StepsOfCase("models", s) = StepsOfCheck[s] + 0
  <2>1. /\ StepsWithinCheck["tree"] = 3 /\ StepsWithinCheck["manifest"] = 2
        /\ StepsWithinCheck["files"] = 1 /\ StepsWithinCheck["models"] = 0
    BY DEF StepsWithinCheck
  <2> QED BY <2>1 DEF StepsOfCase, Ended, Checking
<1>3. ASSUME NEW s, NEW p \in {"create", "start", "open", "launch", "load", "exit", "code",
                "read", "stage", "replace", "pass", "failed", "identify", "fingerprint"}
      PROVE  StepsOfCase(p, s) = StepsElsewhere[p]
  BY DEF StepsOfCase, Ended, Checking
<1>4. /\ StepsElsewhere["create"] = 20 /\ StepsElsewhere["start"] = 19
      /\ StepsElsewhere["open"] = 18 /\ StepsElsewhere["launch"] = 13
      /\ StepsElsewhere["load"] = 12 /\ StepsElsewhere["exit"] = 11
      /\ StepsElsewhere["code"] = 6 /\ StepsElsewhere["read"] = 5
      /\ StepsElsewhere["stage"] = 4 /\ StepsElsewhere["replace"] = 3
      /\ StepsElsewhere["pass"] = 2 /\ StepsElsewhere["failed"] = 1
      /\ StepsElsewhere["identify"] = 2 * Len(Models) + 29
      /\ StepsElsewhere["fingerprint"] = 2 * Len(Models) + 28
  BY DEF StepsElsewhere
<1>5. /\ StepsOfCheck["after"] = 7 /\ StepsOfCheck["before"] = 14
      /\ StepsOfCheck["prepared"] = 21 /\ StepsOfCheck["runtime"] = 2 * Len(Models) + 24
  BY DEF StepsOfCheck
<1> QED BY <1>1, <1>2, <1>3, <1>4, <1>5

LEMMA StepsOfCheckPositive ==
  ASSUME NEW s \in {"runtime", "prepared", "before", "after"}
  PROVE  StepsOfCheck[s] \in Nat /\ StepsOfCheck[s] >= 7
<1> DEFINE l == Len(Models)
<1>1. l \in Nat /\ 2 * l \in Nat
  BY CountFacts
<1>2. /\ StepsOfCheck["after"] = 7 /\ StepsOfCheck["before"] = 14
      /\ StepsOfCheck["prepared"] = 21 /\ StepsOfCheck["runtime"] = 2 * l + 24
  BY StepsAt
<1> HIDE DEF l
<1> QED BY <1>1, <1>2

\* Each leaves a number of steps, all but a failure's and an end's at least two.
LEMMA StepsPositive ==
  ASSUME NEW s \in {"runtime", "prepared", "before", "after"},
         NEW p \in {"identify", "fingerprint", "tree", "manifest", "files", "models",
                    "create", "start", "open", "launch", "load", "exit", "code",
                    "read", "stage", "replace", "pass", "failed"}
  PROVE  /\ StepsOfCase(p, s) \in Nat /\ StepsOfCase(p, s) >= 1
         /\ p # "failed" => StepsOfCase(p, s) >= 2
<1> DEFINE l == Len(Models)
<1>1. l \in Nat /\ 2 * l \in Nat
  BY CountFacts
<1>2. StepsOfCheck[s] \in Nat /\ StepsOfCheck[s] >= 7
  BY StepsOfCheckPositive
<1>3. CASE p \in {"tree", "manifest", "files", "models"}
  <2>1. /\ StepsOfCase("tree", s) = StepsOfCheck[s] + 3
        /\ StepsOfCase("manifest", s) = StepsOfCheck[s] + 2
        /\ StepsOfCase("files", s) = StepsOfCheck[s] + 1
        /\ StepsOfCase("models", s) = StepsOfCheck[s] + 0
    BY StepsAt
  <2> QED BY <1>2, <1>3, <2>1
<1>4. CASE p \in {"identify", "fingerprint"}
  <2>1. StepsOfCase("identify", s) = 2 * l + 29 /\ StepsOfCase("fingerprint", s) = 2 * l + 28
    BY StepsAt
  <2> HIDE DEF l
  <2> QED BY <1>1, <1>4, <2>1
<1>5. CASE p \notin {"tree", "manifest", "files", "models", "identify", "fingerprint"}
  <2>1. /\ StepsOfCase("create", s) = 20 /\ StepsOfCase("start", s) = 19
        /\ StepsOfCase("open", s) = 18 /\ StepsOfCase("launch", s) = 13
        /\ StepsOfCase("load", s) = 12 /\ StepsOfCase("exit", s) = 11
    BY StepsAt
  <2>2. /\ StepsOfCase("code", s) = 6 /\ StepsOfCase("read", s) = 5
        /\ StepsOfCase("stage", s) = 4 /\ StepsOfCase("replace", s) = 3
        /\ StepsOfCase("pass", s) = 2 /\ StepsOfCase("failed", s) = 1
    BY StepsAt
  <2> QED BY <1>5, <2>1, <2>2
<1> QED BY <1>3, <1>4, <1>5

\* The steps left to the end of the case.
StepsHere == StepsOfCase(pc, stage)

\* Within a case, and before the first, they are what counts.
LEMMA WithinCase ==
  ASSUME TypeOK, TypeOK', cur' = cur,
         StepsHere \in Nat, StepsHere' \in Nat, StepsHere' < StepsHere,
         pc \notin {"hash", "rehash"}, pc' \notin {"hash", "rehash"}
  PROVE  0 <= StepsLeft' /\ StepsLeft' < StepsLeft
<1> DEFINE n == CaseCount
<1>1. n \in Nat /\ cur \in 1 .. n + 1
  BY CountFacts DEF TypeOK
<1>2. /\ StepsLeft = 18 * (n + 1 - cur) + StepsHere
      /\ StepsLeft' = 18 * (n + 1 - cur) + StepsHere'
  BY DEF StepsLeft, StepsHere, CaseCount
<1>3. StepsHere \in Nat /\ StepsHere' \in Nat /\ StepsHere' < StepsHere
  OBVIOUS
<1> HIDE DEF n
<1>4. \A k \in Nat : \A c \in 1 .. k + 1 : 18 * (k + 1 - c) \in Nat
  OBVIOUS
<1>5. 18 * (n + 1 - cur) \in Nat
  BY ONLY <1>1, <1>4, Zenon
<1> QED BY ONLY <1>2, <1>3, <1>5

\* What ends a case, or the sweep, leaves less than any other step.
LEMMA EndsSooner ==
  ASSUME TypeOK, TypeOK', Progress, cur' = cur, pc \notin Ended,
         \/ pc' \in Ended
         \/ pc' = "failed" /\ pc \in Checking \cup InCase \cup {"pass"}
  PROVE  0 <= StepsLeft' /\ StepsLeft' < StepsLeft
<1> DEFINE n == CaseCount
           l == Len(Models)
<1>1. n \in Nat /\ l \in Nat \ {0} /\ l <= n /\ M = 1 .. l
  BY CountFacts
<1>2. /\ pc' \notin {"hash", "rehash"}
      /\ pc' = "failed" => StepsHere' = 1
      /\ pc' # "failed" => StepsHere' = 0
  BY StepsAt DEF StepsHere, Ended
<1>3. CASE pc \in {"hash", "rehash"}
  <2>1. cur \in 1 .. l /\ pc' # "failed"
    BY <1>1, <1>3 DEF Progress, Checking, InCase, Ended
  <2>2. StepsLeft' = 18 * (n + 1 - cur)
    BY <1>1, <1>2, <2>1 DEF StepsLeft, StepsHere, CaseCount
  <2>3. StepsLeft = 18 * n + 2 * (l - cur) + (IF pc = "hash" THEN 26 ELSE 25)
    BY <1>3 DEF StepsLeft
  <2> HIDE DEF n, l
  <2> QED BY ONLY <1>1, <2>1, <2>2, <2>3
<1>4. CASE pc \notin {"hash", "rehash"}
  <2>1. /\ StepsHere \in Nat /\ StepsHere >= 1
        /\ pc # "failed" => StepsHere >= 2
    <3>1. /\ stage \in {"runtime", "prepared", "before", "after"}
          /\ pc \in {"identify", "fingerprint", "tree", "manifest", "files", "models",
                     "create", "start", "open", "launch", "load", "exit", "code",
                     "read", "stage", "replace", "pass", "failed"}
      BY <1>4 DEF TypeOK, Ended
    <3> QED BY <3>1, StepsPositive DEF StepsHere
  <2>2. pc' = "failed" => StepsHere >= 2
    BY <1>2, <2>1 DEF Checking, InCase, Ended
  <2>3. StepsHere' \in {0, 1} /\ (StepsHere' = 1 => StepsHere >= 2)
    BY <1>2, <2>2
  <2>4. StepsHere' < StepsHere /\ StepsHere' \in Nat
    BY <2>1, <2>3
  <2> QED BY <1>2, <1>4, <2>1, <2>4, WithinCase
<1> QED BY <1>3, <1>4

LEMMA StepsLeftDecrease ==
  ASSUME IInv, IInv', Next, Runner' # Runner
  PROVE  0 <= StepsLeft' /\ StepsLeft' < StepsLeft
<1> DEFINE n == CaseCount
           l == Len(Models)
<1>1. n \in Nat /\ l \in Nat \ {0} /\ l <= n /\ M = 1 .. l
  BY CountFacts
<1>2. TypeOK /\ TypeOK' /\ Progress
  BY DEF IInv
<1>3. CASE /\ cur' = cur /\ pc \notin Ended
           /\ \/ pc' \in Ended
              \/ pc' = "failed" /\ pc \in Checking \cup InCase \cup {"pass"}
  BY <1>2, <1>3, EndsSooner
<1>4. ASSUME cur' = cur, StepsHere \in Nat, StepsHere' \in Nat, StepsHere' < StepsHere,
             pc \notin {"hash", "rehash"}, pc' \notin {"hash", "rehash"}
      PROVE  0 <= StepsLeft' /\ StepsLeft' < StepsLeft
  BY <1>2, <1>4, WithinCase
<1> HIDE DEF n, l
<1>5. CASE Identify \/ Fingerprint \/ CreateSweep \/ OpenCase
  <2>1. /\ cur' = cur
        /\ \/ pc = "identify" /\ pc' = "fingerprint"
           \/ pc = "fingerprint" /\ pc' = "tree" /\ stage' = "runtime"
           \/ pc = "create" /\ pc' = "start"
           \/ pc = "open" /\ pc' = "tree" /\ stage' = "before"
    BY <1>5 DEF Identify, Fingerprint, CreateSweep, OpenCase, Goto
  <2>2. /\ StepsOfCase("identify", stage) = 2 * l + 29
        /\ StepsOfCase("fingerprint", stage) = 2 * l + 28
        /\ StepsOfCase("fingerprint", stage') = 2 * l + 28
        /\ StepsOfCase("tree", "runtime") = 2 * l + 24 + 3
        /\ StepsOfCase("create", stage) = 20 /\ StepsOfCase("start", stage') = 19
        /\ StepsOfCase("open", stage) = 18 /\ StepsOfCase("tree", "before") = 14 + 3
    BY StepsAt DEF l
  <2>3. StepsHere' < StepsHere /\ StepsHere' \in Nat /\ StepsHere \in Nat
    BY <1>1, <2>1, <2>2 DEF StepsHere
  <2> QED BY <1>4, <2>1, <2>3
<1>6. CASE Launch \/ LoadModel \/ ProbeExits
  <2>1. /\ cur' = cur
        /\ \/ pc = "launch" /\ pc' = "load"
           \/ pc = "load" /\ pc' = "exit"
           \/ pc = "exit" /\ pc' = "tree" /\ stage' = "after"
    BY <1>6 DEF Launch, LoadModel, ProbeExits, Goto
  <2>2. StepsHere' < StepsHere /\ StepsHere' \in Nat /\ StepsHere \in Nat
    BY <2>1, StepsAt DEF StepsHere
  <2> QED BY <1>4, <2>1, <2>2
<1>7. CASE CheckExitStatus \/ ReadCase \/ StageSummary \/ ReplaceSummary
  <2>1. /\ cur' = cur
        /\ \/ pc = "code" /\ pc' \in {"read", "failed"}
           \/ pc = "read" /\ pc' \in {"stage", "failed"}
           \/ pc = "stage" /\ pc' = "replace"
           \/ pc = "replace" /\ pc' = "pass"
    BY <1>7 DEF CheckExitStatus, ReadCase, StageSummary, ReplaceSummary, Goto, Reject, Checking
  <2>2. StepsHere' < StepsHere /\ StepsHere' \in Nat /\ StepsHere \in Nat
    BY <2>1, StepsAt DEF StepsHere
  <2> QED BY <1>4, <2>1, <2>2
<1>8. CASE CheckTree \/ CheckManifest \/ CheckFiles \/ CheckModels \/ CheckFails
  <2>1. /\ cur' = cur /\ stage' = stage /\ pc \in Checking
        /\ \/ pc = "tree" /\ pc' = "manifest"
           \/ pc = "manifest" /\ pc' = "files"
           \/ pc = "files" /\ stage = "runtime" /\ pc' = "hash"
           \/ pc = "files" /\ stage # "runtime" /\ pc' = "models"
           \/ pc = "models" /\ stage = "prepared" /\ pc' = "create"
           \/ pc = "models" /\ stage = "before" /\ pc' = "launch"
           \/ pc = "models" /\ stage = "after" /\ pc' = "code"
           \/ pc' \in {"failed", "exit 1"}
    BY <1>2, <1>8 DEF CheckTree, CheckManifest, CheckFiles, CheckModels, CheckFails, CheckStep,
                      Goto, Reject, Checking, Progress, TypeOK
  <2>2. stage \in {"runtime", "prepared", "before", "after"}
    BY <1>2 DEF TypeOK
  <2>3. CASE pc = "files" /\ stage = "runtime" /\ pc' = "hash"
    <3>1. cur = 1 /\ cur' = 1
      BY <1>2, <2>1, <2>3 DEF Progress, BeforeCases, Checking
    <3>2. StepsLeft' = 18 * n + 2 * (l - 1) + 26
      BY <2>3, <3>1 DEF StepsLeft, CaseCount, n, l
    <3>3. StepsLeft = 18 * (n + 1 - cur) + StepsOfCase("files", "runtime")
      BY <2>3 DEF StepsLeft, n
    <3>4. StepsOfCase("files", "runtime") = 2 * l + 24 + 1
      BY StepsAt DEF l
    <3> QED BY ONLY <1>1, <3>1, <3>2, <3>3, <3>4
  <2>4. CASE pc' \in {"failed", "exit 1"}
    BY <1>3, <2>1, <2>4 DEF Checking, Ended
  <2>5. CASE pc' \notin {"hash", "failed", "exit 1"}
    <3>1. StepsHere \in Nat
      BY <1>2, <2>1, <2>2, StepsPositive DEF StepsHere, Checking
    <3>2. StepsHere' < StepsHere /\ StepsHere' \in Nat
      <4> DEFINE c == StepsOfCheck[stage]
      <4>1. /\ StepsOfCase("tree", stage) = c + 3 /\ StepsOfCase("manifest", stage) = c + 2
            /\ StepsOfCase("files", stage) = c + 1 /\ StepsOfCase("models", stage) = c + 0
        BY StepsAt
      <4>2. /\ c \in Nat /\ c >= 7
            /\ stage = "prepared" => c = 21
            /\ stage = "before" => c = 14
        BY <2>2, StepsOfCheckPositive, StepsAt
      <4>3. /\ StepsOfCase("create", stage) = 20 /\ StepsOfCase("launch", stage) = 13
            /\ StepsOfCase("code", stage) = 6
        BY StepsAt
      <4>4. StepsHere = StepsOfCase(pc, stage) /\ StepsHere' = StepsOfCase(pc', stage)
        BY <2>1 DEF StepsHere
      <4> HIDE DEF c
      <4>5. \/ pc = "tree" /\ pc' = "manifest"
            \/ pc = "manifest" /\ pc' = "files"
            \/ pc = "files" /\ pc' = "models"
            \/ pc = "models" /\ stage = "prepared" /\ pc' = "create"
            \/ pc = "models" /\ stage = "before" /\ pc' = "launch"
            \/ pc = "models" /\ stage = "after" /\ pc' = "code"
        BY <2>1, <2>5
      <4>6. CASE pc # "models"
        <5>1. \/ StepsHere = c + 3 /\ StepsHere' = c + 2
              \/ StepsHere = c + 2 /\ StepsHere' = c + 1
              \/ StepsHere = c + 1 /\ StepsHere' = c + 0
          <6>1. CASE pc = "tree" /\ pc' = "manifest"
            BY ONLY <4>1, <4>4, <6>1, Zenon
          <6>2. CASE pc = "manifest" /\ pc' = "files"
            BY ONLY <4>1, <4>4, <6>2, Zenon
          <6>3. CASE pc = "files" /\ pc' = "models"
            BY ONLY <4>1, <4>4, <6>3, Zenon
          <6> QED BY ONLY <4>5, <4>6, <6>1, <6>2, <6>3, Zenon
        <5> QED BY ONLY <4>2, <5>1
      <4>7. CASE pc = "models"
        BY <4>1, <4>2, <4>3, <4>4, <4>5, <4>7
      <4> QED BY <4>6, <4>7
    <3> QED BY <1>4, <2>1, <2>5, <3>1, <3>2 DEF Checking
  <2> QED BY <2>1, <2>3, <2>4, <2>5
<1>9. CASE HashModel
  <2>1. pc = "hash" /\ pc' = "rehash" /\ cur' = cur /\ cur \in 1 .. l
    BY <1>1, <1>2, <1>9 DEF HashModel, Goto, Progress
  <2>2. /\ StepsLeft = 18 * n + 2 * (l - cur) + 26
        /\ StepsLeft' = 18 * n + 2 * (l - cur) + 25
    BY <2>1 DEF StepsLeft, CaseCount, n, l
  <2> QED BY ONLY <1>1, <2>1, <2>2
<1>10. CASE ConfirmModel
  <2>1. /\ pc = "rehash" /\ cur \in 1 .. l
        /\ \/ pc' = "exit 1" /\ cur' = cur
           \/ pc' = "hash" /\ cur < l /\ cur' = cur + 1
           \/ pc' = "tree" /\ cur' = 1 /\ stage' = "prepared"
    BY <1>1, <1>2, <1>10 DEF ConfirmModel, Goto, Progress, l
  <2>2. StepsLeft = 18 * n + 2 * (l - cur) + 25
    BY <2>1 DEF StepsLeft, n, l
  <2>3. CASE pc' = "exit 1" /\ cur' = cur
    BY <1>3, <2>1, <2>3 DEF Ended
  <2>4. CASE pc' = "hash" /\ cur < l /\ cur' = cur + 1
    <3>1. StepsLeft' = 18 * n + 2 * (l - (cur + 1)) + 26
      BY <2>4 DEF StepsLeft, CaseCount, n, l
    <3> QED BY ONLY <1>1, <2>1, <2>2, <2>4, <3>1
  <2>5. CASE pc' = "tree" /\ cur' = 1 /\ stage' = "prepared"
    <3>1. StepsLeft' = 18 * (n + 1 - cur') + StepsOfCase("tree", "prepared")
      BY <2>5 DEF StepsLeft, CaseCount, n
    <3>2. StepsOfCase("tree", "prepared") = 24 /\ cur' = 1
      BY <2>5, StepsAt
    <3>3. 2 * (l - cur) \in Nat
      <4>1. \A a \in Nat : \A b \in 1 .. a : 2 * (a - b) \in Nat
        OBVIOUS
      <4>2. l \in Nat /\ cur \in 1 .. l
        BY ONLY <1>1, <2>1
      <4> QED BY ONLY <4>1, <4>2, Zenon
    <3>4. StepsLeft' = 18 * n + 24
      BY ONLY <1>1, <3>1, <3>2
    <3> QED BY ONLY <1>1, <2>2, <3>3, <3>4
  <2> QED BY <2>1, <2>3, <2>4, <2>5
<1>11. CASE StartCase
  <2>1. pc = "start" /\ pc' \in {"passed", "open", "exit 1"} /\ cur' = cur
    BY <1>11 DEF StartCase, Goto, measured
  <2>2. CASE pc' = "open"
    <3>1. StepsOfCase("start", stage) = 19 /\ StepsOfCase("open", stage') = 18
      BY StepsAt
    <3>2. StepsHere = 19 /\ StepsHere' = 18
      BY <2>1, <2>2, <3>1 DEF StepsHere
    <3> QED BY <1>4, <2>1, <2>2, <3>2
  <2>3. CASE pc' # "open"
    BY <1>3, <2>1, <2>3 DEF Ended
  <2> QED BY <2>2, <2>3
<1>12. CASE LogPass
  <2>1. /\ pc = "pass" /\ cur \in 1 .. n
        /\ \/ pc' = "start" /\ cur' = cur + 1
           \/ pc' = "failed" /\ cur' = cur
    BY <1>2, <1>12 DEF LogPass, Goto, Progress, Cases, n
  <2>2. CASE pc' = "start" /\ cur' = cur + 1
    <3>1. /\ StepsLeft' = 18 * (n + 1 - (cur + 1)) + StepsOfCase("start", stage')
          /\ StepsLeft = 18 * (n + 1 - cur) + StepsOfCase("pass", stage)
      BY <2>1, <2>2 DEF StepsLeft, CaseCount, n
    <3>2. StepsOfCase("start", stage') = 19 /\ StepsOfCase("pass", stage) = 2
      BY StepsAt
    <3>3. n - cur \in Nat
      BY ONLY <1>1, <2>1
    <3> QED BY ONLY <1>1, <2>1, <3>1, <3>2, <3>3
  <2>3. CASE pc' = "failed" /\ cur' = cur
    BY <1>3, <2>1, <2>3 DEF Ended
  <2> QED BY <2>1, <2>2, <2>3
<1>13. CASE LogFailed
  <2>1. pc = "failed" /\ pc' = "exit 1" /\ cur' = cur
    BY <1>13 DEF LogFailed, Goto, measured
  <2> QED BY <1>3, <2>1 DEF Ended
<1>14. CASE StopOutsideCase \/ CaseFails
  <2>1. /\ cur' = cur
        /\ \/ pc \in Preparing \cup {"start"} /\ pc' = "exit 1"
           \/ pc \in InCase /\ pc' = "failed"
    BY <1>14 DEF StopOutsideCase, CaseFails, Goto
  <2> QED BY <1>3, <2>1 DEF Ended, Preparing, InCase
<1>15. CASE Others
  <2>1. pc \notin Ended /\ pc' = "killed" /\ cur' = cur
    BY <1>15 DEF Others, ReplacePart, WriteManifest, EditSource, ReplaceModel, Change, Kill,
                 Goto, Runner, measured, frozen
  <2> QED BY <1>3, <2>1 DEF Ended
<1> QED BY <1>5, <1>6, <1>7, <1>8, <1>9, <1>10, <1>11, <1>12, <1>13, <1>14, <1>15
        DEF Next, Proceed, Fail

\* Whatever fails and whoever changes what, the runner takes at most as many
\* steps as the grid has room for: with probes that exit, the sweep ends.
THEOREM SweepIsBounded == Spec => StepsBounded
<1>1. IInv /\ IInv' /\ [Next]_vars => [0 <= StepsLeft' /\ StepsLeft' < StepsLeft]_Runner
  BY StepsLeftDecrease DEF vars, Runner
<1> QED BY <1>1, Invariance, PTL DEF Spec, StepsBounded, Runner
=============================================================================
