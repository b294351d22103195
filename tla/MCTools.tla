------------------------------- MODULE MCTools -------------------------------
(***************************************************************************)
(* Three sequential programs that do not know of each other, side by side: *)
(* the bookkeeping of the benchmark statistics, the generator scripts and  *)
(* the precision verification.  A behaviour is one of them.  The quantiser *)
(* has no state: it is checked once, before the behaviours.                *)
(***************************************************************************)
EXTENDS MCBenchmarkStats, Generator, Verification, Ternary

VARIABLE tool

toolVars == <<tool, statsVars, genVars, verVars>>

\* Perplexities that are far apart (1 and 6) or not (5 and 6), on all chunks or on one.
MCMeasurements ==
  {[mean |-> m, error |-> 1, chunks |-> 2] : m \in {1, 5, 6}}
  \cup {[mean |-> m, error |-> 1, chunks |-> 1] : m \in {1, 6}}

ToolInit ==
  /\ tool \in {"statistics", "generator", "verification"}
  /\ StatsInit /\ GenInit /\ VerInit
  /\ tool # "statistics" => reps = 1 /\ warmup = 1 /\ ~allowNA

ToolNext ==
  /\ tool' = tool
  /\ \/ tool = "statistics" /\ StatsNext /\ UNCHANGED <<genVars, verVars>>
     \/ tool = "generator" /\ GenNext /\ UNCHANGED <<statsVars, verVars>>
     \/ tool = "verification" /\ VerNext /\ UNCHANGED <<statsVars, genVars>>

\* The quantiser against its reference, the nearest of the values it can have.
ASSUME NearestForSmallWeights ==
  \A alpha \in 1 .. 12, w \in -14 .. 14, l \in {-1, 0, 1} :
    AbsOf(3 * w - ThirdsOf(Level(w, alpha), alpha)) <= AbsOf(3 * w - ThirdsOf(l, alpha))

\* The deviation of up to four amounts against another way to compute it: n^2
\* times the squares of the distances to the mean are n times the squares of
\* the distances of the pairs, each counted once.
ASSUME DeviationOfSmallSets ==
  \A n \in 1 .. 4 : \A f \in [1 .. n -> -2 .. 2] :
    LET rows == [j \in 1 .. n |-> [phase |-> "measurement", mode |-> Mode, amount |-> f[j]]]
        pairs == {p \in (1 .. n) \X (1 .. n) : p[1] < p[2]}
    IN FiniteStatistics(rows, Mode) <=>
         SumFunction([p \in pairs |-> Square(f[p[1]] - f[p[2]])])
           <= n * (n - 1) * Square(Largest)

ToolSpec == ToolInit /\ [][ToolNext]_toolVars
=============================================================================
