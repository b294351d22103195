--------------------------- MODULE BenchmarkStats ---------------------------
(***************************************************************************)
(* benchmark_stats.hpp: the rotating trial schedule of a case and the      *)
(* verdict on what was observed of one mode and one metric.  Values are    *)
(* abstracted to what the verdict tells apart: finite ones are integers,   *)
(* in a unit of which the largest double is Largest.  The means are left   *)
(* out, but not whether they are finite.                                   *)
(***************************************************************************)
EXTENDS Integers, Sequences, FiniteSets, Functions

CONSTANT Largest  \* the largest finite double

ASSUME StatsAssumption == Largest \in Nat \ {0}

\* enum Mode, by its number; constexpr modes[] lists them in that order.
Modes == {"recompute", "dram", "direct_file"}
ModeNumber(m) == CASE m = "recompute" -> 0 [] m = "dram" -> 1 [] OTHER -> 2
ModeAt(n) == CASE n = 0 -> "recompute" [] n = 1 -> "dram" [] OTHER -> "direct_file"

ScheduleLength(reps, warmup) == 3 * (reps + warmup)

\* Mutant: the rounds are numbered on from the warmup.
TrialAtContinued(j, reps, warmup) ==
  LET round == (j - 1) \div 3
      order == (j - 1) % 3
  IN [phase |-> IF j <= 3 * warmup THEN "warmup" ELSE "measurement",
      trial |-> round, order |-> order, mode |-> ModeAt((round + order) % 3)]

\* The j-th trial: all warmup rounds, then all measured ones; the rotation of
\* the modes restarts with the phase.
TrialAt(j, reps, warmup) ==
  LET start == IF j <= 3 * warmup THEN 0 ELSE 3 * warmup
      round == (j - 1 - start) \div 3
      order == (j - 1 - start) % 3
  IN [phase |-> IF j <= 3 * warmup THEN "warmup" ELSE "measurement",
      trial |-> round, order |-> order, mode |-> ModeAt((round + order) % 3)]

Schedule(reps, warmup) ==
  [j \in 1 .. ScheduleLength(reps, warmup) |-> TrialAt(j, reps, warmup)]

\* What a metric of a trial can be: a finite number, absent, or not finite.
Values == {"number", "null", "nonfinite"}

\* The observations summarize looks at.
Relevant(obs, mode) ==
  {j \in DOMAIN obs : obs[j].phase = "measurement" /\ obs[j].mode = mode}

\* Mutant: parity is not looked at.
MalformedOnly(o, mode, reps) ==
  \/ o.trial >= reps
  \/ o.order >= 3
  \/ ((o.trial % 3) + o.order) % 3 # ModeNumber(mode)

\* A row summarize does not accept: out of range, or not where the schedule
\* puts this mode, or not passed.
Malformed(o, mode, reps) ==
  \/ o.trial >= reps
  \/ o.order >= 3
  \/ ((o.trial % 3) + o.order) % 3 # ModeNumber(mode)
  \/ ~o.passed

Failed(obs, mode, reps, allowNA) ==
  LET R == Relevant(obs, mode) IN
  \/ \E i, j \in R : i < j /\ obs[i].trial = obs[j].trial
  \/ \E j \in R : Malformed(obs[j], mode, reps) \/ obs[j].value = "nonfinite"
  \/ ~allowNA /\ \E j \in R : obs[j].value = "null"
  \/ \E i, j \in R : obs[i].value = "null" /\ obs[j].value = "number"

Attempted(obs, mode) == {obs[j].trial : j \in Relevant(obs, mode)}

Square(x) == x * x

\* The statistics of a complete set of n finite amounts are finite doubles, or
\* not.  Both are accumulated in a wider type, so only the narrowing at the end
\* can overflow, and never that of the mean, which lies between the amounts.
\* The deviation is the root of the sum of the (a - total / n)^2 over n - 1;
\* it is compared with Largest multiplied out, so one amount gives 0 <= 0.
FiniteStatistics(obs, mode) ==
  LET R == Relevant(obs, mode)
      n == Cardinality(R)
      total == SumFunction([j \in R |-> obs[j].amount])
      squares == SumFunction([j \in R |-> Square(n * obs[j].amount - total)])
  IN squares <= n * n * (n - 1) * Square(Largest)

\* summarize: a failure outranks missing data, which outranks a result; and a
\* result is a failure after all when its statistics are not finite.
Summarize(obs, mode, reps, allowNA, forceFailed) ==
  CASE forceFailed \/ Failed(obs, mode, reps, allowNA) -> "failed"
    [] OTHER ->
       CASE Cardinality(Attempted(obs, mode)) # reps -> "incomplete"
         [] OTHER -> IF \A j \in Relevant(obs, mode) : obs[j].value = "null"
                     THEN "not_applicable"
                     ELSE IF FiniteStatistics(obs, mode) THEN "pass" ELSE "failed"
=============================================================================
