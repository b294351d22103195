---------------------------- MODULE Verification ----------------------------
(***************************************************************************)
(* verify_precision_qwen36_bitnet.py: three models are put to a perplexity *)
(* measurement and to smoke checks one command after the other, any of     *)
(* which may fail or print something that cannot be parsed, and a verdict  *)
(* is drawn from what is left.  A perplexity is a number and its standard  *)
(* error; the answer to a smoke check passes or not.                       *)
(***************************************************************************)
EXTENDS Integers, FiniteSets

CONSTANTS
  Measurements,  \* what a perplexity run may report: mean, error, chunks
  Chunks,        \* --chunks
  Checks         \* how many checks SMOKE has

ASSUME VerificationAssumption ==
  /\ Chunks \in Nat /\ Chunks >= 2
  /\ Checks \in Nat \ {0}
  /\ Measurements \subseteq [mean : Nat, error : Nat, chunks : 1 .. Chunks]

\* MODELS, in the order of the loop.
Labels == {"BF16", "Q4_0", "I2_S"}
LabelAt(n) == CASE n = 0 -> "BF16" [] n = 1 -> "Q4_0" [] OTHER -> "I2_S"

VARIABLES
  stage,
  label,      \* the model at hand, by its number; 3 behind the last
  check,      \* its next command: 0 is the perplexity, then the checks
  ppl,        \* model["ppl"]: absent, unverified (a short corpus) or measured
  smoke,      \* model["smoke"]
  errors,     \* whether metrics["errors"] has an entry
  quality,    \* metrics["quality"]
  exitCode,   \* exit_code
  recorded,   \* exit_code in metrics.json
  status,     \* the exit status of the process
  disturbed   \* whether anything has failed

verVars ==
  <<stage, label, check, ppl, smoke, errors, quality, exitCode, recorded, status, disturbed>>

Absent == [status |-> "absent"]
Unverified == [status |-> "unverified"]
MeasuredAs(r) == [status |-> "measured", mean |-> r.mean, error |-> r.error, chunks |-> r.chunks]

None == -1

VerInit ==
  /\ stage = "prepare" /\ label = 0 /\ check = 0
  /\ ppl = [l \in Labels |-> Absent]
  /\ smoke = [l \in Labels |-> [c \in 1 .. Checks |-> "absent"]]
  /\ errors = FALSE /\ quality = "unverified"
  /\ exitCode = 1 /\ recorded = None /\ status = None
  /\ disturbed = FALSE

\* The corpus, the template, the binaries and their --help, the tokenizers: one
\* thing that is not as it should be ends the comparison.
Prepare ==
  /\ stage = "prepare"
  /\ \/ stage' = "evaluate" /\ UNCHANGED <<errors, disturbed>>
     \/ stage' = "write" /\ errors' = TRUE /\ disturbed' = TRUE
  /\ UNCHANGED <<label, check, ppl, smoke, quality, exitCode, recorded, status>>

\* The loop over the models and the one over the checks.
NextCommand ==
  IF check < Checks THEN check' = check + 1 /\ UNCHANGED label
  ELSE check' = 0 /\ label' = label + 1

\* llama-perplexity and parse_ppl.
MeasurePpl ==
  /\ stage = "evaluate" /\ label < 3 /\ check = 0
  /\ \/ /\ \E r \in {Unverified} \cup {MeasuredAs(m) : m \in Measurements} :
             ppl' = [ppl EXCEPT ![LabelAt(label)] = r]
        /\ UNCHANGED <<errors, disturbed>>
     \/ errors' = TRUE /\ disturbed' = TRUE /\ UNCHANGED ppl
  /\ NextCommand
  /\ UNCHANGED <<stage, smoke, quality, exitCode, recorded, status>>

\* llama-cli, response_text and score.
Ask ==
  /\ stage = "evaluate" /\ label < 3 /\ check > 0
  /\ \/ /\ \E answer \in {"passed", "failed"} :
             smoke' = [smoke EXCEPT ![LabelAt(label)][check] = answer]
        /\ UNCHANGED <<errors, disturbed>>
     \/ errors' = TRUE /\ disturbed' = TRUE /\ UNCHANGED smoke
  /\ NextCommand
  /\ UNCHANGED <<stage, ppl, quality, exitCode, recorded, status>>

Measured == {l \in Labels : ppl[l].status = "measured"}

Comparable == Measured = Labels /\ Cardinality({ppl[l].chunks : l \in Measured}) = 1

BaselinePasses ==
  {c \in 1 .. Checks : \E base \in {"BF16", "Q4_0"} : smoke[base][c] = "passed"}

Lost == {c \in BaselinePasses : smoke["I2_S"][c] # "passed"}

Increased ==
  /\ {"BF16", "I2_S"} \subseteq Measured
  /\ ppl["BF16"].chunks = ppl["I2_S"].chunks
  /\ ppl["I2_S"].mean > ppl["BF16"].mean

Insufficient ==
  \/ ~Comparable
  \/ \E l \in Measured : ppl[l].chunks < Chunks
  \/ BaselinePasses = {}
  \/ errors

Overlapping ==
  ppl["I2_S"].mean + 2 * ppl["I2_S"].error >= ppl["BF16"].mean - 2 * ppl["BF16"].error

\* Mutant: it is enough that what was measured was measured on as many chunks.
JudgeComparable ==
  /\ stage = "evaluate" /\ label = 3
  /\ quality' =
       IF Increased \/ Lost # {} THEN "not_passed"
       ELSE IF ~Comparable \/ BaselinePasses = {} \/ errors \/ Overlapping THEN "unverified"
       ELSE "passed_on_tested_slice_only"
  /\ exitCode' = IF errors THEN 1
                 ELSE CASE quality' = "not_passed" -> 2
                        [] quality' = "unverified" -> 3
                        [] OTHER -> 0
  /\ stage' = "write"
  /\ UNCHANGED <<label, check, ppl, smoke, errors, recorded, status, disturbed>>

\* main, after the loop.
Judge ==
  /\ stage = "evaluate" /\ label = 3
  /\ quality' =
       IF Increased \/ Lost # {} THEN "not_passed"
       ELSE IF Insufficient \/ Overlapping THEN "unverified"
       ELSE "passed_on_tested_slice_only"
  /\ exitCode' = IF errors THEN 1
                 ELSE CASE quality' = "not_passed" -> 2
                        [] quality' = "unverified" -> 3
                        [] OTHER -> 0
  /\ stage' = "write"
  /\ UNCHANGED <<label, check, ppl, smoke, errors, recorded, status, disturbed>>

\* finally: metrics.json, then summary.txt; an exception here is nobody's, and
\* ends the process with 1, whatever metrics.json says.
Write ==
  /\ stage = "write"
  /\ \/ recorded' = exitCode /\ status' = exitCode /\ UNCHANGED disturbed
     \/ recorded' \in {None, exitCode} /\ status' = 1 /\ disturbed' = TRUE
  /\ stage' = "exited"
  /\ UNCHANGED <<label, check, ppl, smoke, errors, quality, exitCode>>

VerNext == Prepare \/ MeasurePpl \/ Ask \/ Judge \/ Write

VerSpec == VerInit /\ [][VerNext]_verVars

-----------------------------------------------------------------------------
(* Properties. *)

\* What a pass promises: every model was measured on every requested chunk,
\* I2_S is better than BF16 by more than both error bars, and it answers all
\* the checks that a baseline answers, of which there is one.
PassEarned ==
  /\ \A l \in Labels : ppl[l].status = "measured" /\ ppl[l].chunks = Chunks
  /\ ppl["I2_S"].mean + 2 * ppl["I2_S"].error < ppl["BF16"].mean - 2 * ppl["BF16"].error
  /\ \E c \in 1 .. Checks : smoke["BF16"][c] = "passed" \/ smoke["Q4_0"][c] = "passed"
  /\ \A c \in 1 .. Checks :
       smoke["I2_S"][c] = "passed" \/ "passed" \notin {smoke["BF16"][c], smoke["Q4_0"][c]}

\* What a regression is: an answer that is wrong where a baseline's is right,
\* or a higher perplexity on the same chunks.
Regressed ==
  \/ \E c \in 1 .. Checks :
       /\ smoke["I2_S"][c] = "failed"
       /\ "passed" \in {smoke["BF16"][c], smoke["Q4_0"][c]}
  \/ /\ ppl["BF16"].status = "measured" /\ ppl["I2_S"].status = "measured"
     /\ ppl["BF16"].chunks = ppl["I2_S"].chunks
     /\ ppl["I2_S"].mean > ppl["BF16"].mean

\* The exit status says what its documentation says it does, over every mix of
\* results: 1 if and only if something failed, to run, to be parsed or to be
\* written; else 2 for an observed regression and only for one, 0 only if a
\* pass is earned, 3 for the rest.  metrics.json never shows a pass that was
\* not earned either, even when the summary could not be written after it.
VerdictEarned ==
  /\ stage = "exited" =>
       /\ status = 1 <=> disturbed
       /\ status = 2 <=> ~disturbed /\ Regressed
       /\ status = 0 <=> ~disturbed /\ PassEarned
  /\ recorded = 0 => PassEarned
  /\ recorded = 2 => Regressed
=============================================================================
