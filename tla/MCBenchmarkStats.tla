-------------------------- MODULE MCBenchmarkStats --------------------------
(***************************************************************************)
(* Every sequence of observations of one mode, well formed or not, of up   *)
(* to one row more than there are repetitions, is put to summarize, and    *)
(* every prefix of the schedule.                                           *)
(***************************************************************************)
EXTENDS BenchmarkStats

CONSTANTS MaxReps, MaxWarmup,
  MaxArbitrary  \* bound on the repetitions of the cases with arbitrary rows

VARIABLES reps, warmup, allowNA, obs, done

statsVars == <<reps, warmup, allowNA, obs, done>>

Mode == "dram"

\* Of the amounts, the extreme ones: what is finite in between is finite here.
ArbitraryRows ==
  {o \in [phase : {"measurement"}, mode : {Mode}, trial : 0 .. reps, order : 0 .. 3,
          passed : BOOLEAN, value : Values, amount : {-Largest, 0, Largest}] :
     o.amount = 0 <=> o.value # "number"}

\* A trial that ran and passed.
Passed(t, v, a) == [phase |-> t.phase, mode |-> t.mode, trial |-> t.trial,
                    order |-> t.order, passed |-> TRUE, value |-> v, amount |-> a]

StatsInit ==
  /\ reps \in 1 .. MaxReps /\ warmup \in 1 .. MaxWarmup /\ allowNA \in BOOLEAN
  /\ obs = <<>>
  /\ done = 0

\* Arbitrary rows.
Observe ==
  /\ warmup = 1 /\ reps <= MaxArbitrary /\ done = 0 /\ Len(obs) <= reps
  /\ \E o \in ArbitraryRows : obs' = Append(obs, o)
  /\ UNCHANGED <<reps, warmup, allowNA, done>>

\* The schedule, trial by trial, from the start.  What the probe measures are
\* durations and rates, which are never negative.
RunTrial ==
  /\ Len(obs) = done /\ done < ScheduleLength(reps, warmup)
  /\ \E v \in {"number", "null"}, a \in 0 .. Largest :
       /\ v = "null" => allowNA /\ a = 0
       /\ obs # <<>> => obs[1].value = v
       /\ obs' = Append(obs, Passed(TrialAt(done + 1, reps, warmup), v, a))
  /\ done' = done + 1
  /\ UNCHANGED <<reps, warmup, allowNA>>

StatsNext == Observe \/ RunTrial

StatsSpec == StatsInit /\ [][StatsNext]_statsVars

Status(m) == Summarize(obs, m, reps, allowNA, FALSE)

\* What a pass stands for: every round was measured once, where the rotation
\* puts this mode, and passed with a finite value.
MeasuredOnce(rows, n, m, v) ==
  /\ \A t \in 0 .. n - 1 : \E j \in DOMAIN rows :
       /\ rows[j].phase = "measurement" /\ rows[j].mode = m
       /\ rows[j].trial = t /\ rows[j].order = (ModeNumber(m) + 2 * t) % 3
       /\ rows[j].passed /\ rows[j].value = v
  /\ Cardinality({j \in DOMAIN rows : rows[j].phase = "measurement" /\ rows[j].mode = m})
       = n

ExactlyMeasured(m, v) == MeasuredOnce(obs, reps, m, v)

\* summarize reports pass exactly for a complete, well-formed, passing set with
\* finite statistics: no repeated, misplaced, surplus, failed or valueless row
\* gets a mean, and finite amounts that are too far apart for a finite
\* deviation make the set failed, not incomplete.
PassIsExact ==
  /\ Status(Mode) = "pass" <=>
       ExactlyMeasured(Mode, "number") /\ FiniteStatistics(obs, Mode)
  /\ ExactlyMeasured(Mode, "number") /\ ~FiniteStatistics(obs, Mode) =>
       Status(Mode) = "failed"
  /\ Status(Mode) = "not_applicable" <=> allowNA /\ ExactlyMeasured(Mode, "null")

\* What make_schedule lays out is what summarize expects: a case that runs its
\* schedule is incomplete until the last trial of a mode and never failed, and
\* the modes are never more than one measured trial apart.
ScheduleAccepted ==
  Len(obs) = done =>
    /\ \A m \in Modes : Status(m) # "failed"
    /\ done = ScheduleLength(reps, warmup) =>
         \A m \in Modes : Status(m) \in {"pass", "not_applicable"}
    /\ \A m, n \in Modes :
         Cardinality(Attempted(obs, m)) <= Cardinality(Attempted(obs, n)) + 1
=============================================================================
