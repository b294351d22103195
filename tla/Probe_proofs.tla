---------------------------- MODULE Probe_proofs ----------------------------
(***************************************************************************)
(* The schedule of a case and the probe that runs it, for any number of    *)
(* rounds and any metrics: what make_schedule and summarize agree on, and  *)
(* what the context, the records and the files of a case hold.             *)
(***************************************************************************)
EXTENDS Probe, MCBenchmarkStats, FoldTheorems, SequenceTheorems, FiniteSetTheorems, TLAPS

-----------------------------------------------------------------------------
(* The schedule. *)

\* A number less than 3 n has a quotient less than n and a remainder of 0, 1 or 2.
LEMMA Thirds ==
  ASSUME NEW n \in Nat, NEW a \in Nat, a < 3 * n
  PROVE  a \div 3 \in Nat /\ a \div 3 < n /\ a % 3 \in 0 .. 2
<1>1. a \div 3 \in Nat /\ a % 3 \in 0 .. 2
  OBVIOUS
<1>2. a \div 3 < n
  OBVIOUS
<1> QED BY <1>1, <1>2

\* ModeAt lists the modes by their numbers.
LEMMA ModesNumbered ==
  ASSUME NEW n \in 0 .. 2
  PROVE  ModeAt(n) \in Modes /\ ModeNumber(ModeAt(n)) = n
<1>1. CASE n = 0
  BY <1>1 DEF ModeAt, ModeNumber, Modes
<1>2. CASE n = 1
  BY <1>2 DEF ModeAt, ModeNumber, Modes
<1>3. CASE n = 2
  BY <1>3 DEF ModeAt, ModeNumber, Modes
<1> QED BY <1>1, <1>2, <1>3

\* The round and the place of each trial stay in the range of its phase, and
\* its mode is the one summarize expects at that place.
LEMMA TrialFacts ==
  ASSUME NEW rounds \in Nat, NEW warm \in Nat,
         NEW j \in 1 .. ScheduleLength(rounds, warm)
  PROVE  LET t == TrialAt(j, rounds, warm) IN
         /\ t.trial \in Nat /\ t.order \in 0 .. 2 /\ t.mode \in Modes
         /\ t.phase = "warmup" => t.trial < warm
         /\ t.phase = "measurement" => t.trial < rounds
         /\ ModeNumber(t.mode) = ((t.trial % 3) + t.order) % 3
<1> DEFINE start == IF j <= 3 * warm THEN 0 ELSE 3 * warm
           t == TrialAt(j, rounds, warm)
           a == j - 1 - start
<1>1. a \in Nat /\ a < 3 * (IF j <= 3 * warm THEN warm ELSE rounds)
  BY DEF ScheduleLength
<1>2. PICK r \in Nat, o \in 0 .. 2 :
        /\ r = a \div 3 /\ o = a % 3
        /\ r < (IF j <= 3 * warm THEN warm ELSE rounds)
  BY <1>1, Thirds
<1>3. /\ t.trial = r /\ t.order = o
      /\ t.phase = (IF j <= 3 * warm THEN "warmup" ELSE "measurement")
      /\ t.mode = ModeAt((r + o) % 3)
  BY <1>2 DEF TrialAt
<1> HIDE DEF start, a, t
<1>4. (r + o) % 3 \in 0 .. 2 /\ (r + o) % 3 = ((r % 3) + o) % 3
  OBVIOUS
<1>5. t.mode \in Modes /\ ModeNumber(t.mode) = ((r % 3) + o) % 3
  BY <1>3, <1>4, ModesNumbered
<1>6. /\ t.trial \in Nat /\ t.order \in 0 .. 2 /\ t.mode \in Modes
      /\ t.phase = "warmup" => t.trial < warm
      /\ t.phase = "measurement" => t.trial < rounds
      /\ ModeNumber(t.mode) = ((t.trial % 3) + t.order) % 3
  BY <1>2, <1>3, <1>5
<1> QED BY <1>6 DEF t

\* No trial that make_schedule lays out and that passes is refused by
\* summarize: the two sides state the rotation each in its own way, and agree
\* for every number of warmup and measured rounds.
THEOREM ScheduledRowsAreAccepted ==
  ASSUME NEW rounds \in Nat, NEW warm \in Nat,
         NEW j \in 1 .. ScheduleLength(rounds, warm),
         TrialAt(j, rounds, warm).phase = "measurement",
         NEW o, o.trial = TrialAt(j, rounds, warm).trial,
         o.order = TrialAt(j, rounds, warm).order, o.passed
  PROVE  ~Malformed(o, TrialAt(j, rounds, warm).mode, rounds)
<1>1. /\ o.trial \in Nat /\ o.order \in 0 .. 2 /\ o.trial < rounds
      /\ ModeNumber(TrialAt(j, rounds, warm).mode) = ((o.trial % 3) + o.order) % 3
  BY TrialFacts
<1> QED BY <1>1 DEF Malformed

\* Every mode is measured at most once in a round: two trials of a phase that
\* have the same round and mode are the same trial.
THEOREM ModeOncePerRound ==
  ASSUME NEW rounds \in Nat, NEW warm \in Nat,
         NEW i \in 1 .. ScheduleLength(rounds, warm),
         NEW j \in 1 .. ScheduleLength(rounds, warm),
         TrialAt(i, rounds, warm).phase = TrialAt(j, rounds, warm).phase,
         TrialAt(i, rounds, warm).trial = TrialAt(j, rounds, warm).trial,
         TrialAt(i, rounds, warm).mode = TrialAt(j, rounds, warm).mode
  PROVE  i = j
<1> DEFINE start(k) == IF k <= 3 * warm THEN 0 ELSE 3 * warm
           t(k) == TrialAt(k, rounds, warm)
<1>1. t(i).order = t(j).order
  <2>1. /\ t(i).order \in 0 .. 2 /\ t(j).order \in 0 .. 2 /\ t(i).trial \in Nat
        /\ ((t(i).trial % 3) + t(i).order) % 3 = ((t(i).trial % 3) + t(j).order) % 3
    BY TrialFacts
  <2>2. \A r \in Nat, a, b \in 0 .. 2 :
          ((r % 3) + a) % 3 = ((r % 3) + b) % 3 => a = b
    OBVIOUS
  <2> HIDE DEF t
  <2> QED BY <2>1, <2>2
<1>2. start(i) = start(j)
  BY DEF TrialAt
<1>3. \A k \in 1 .. ScheduleLength(rounds, warm) :
        /\ k - 1 - start(k) \in Nat
        /\ t(k).trial = (k - 1 - start(k)) \div 3
        /\ t(k).order = (k - 1 - start(k)) % 3
  BY DEF TrialAt, ScheduleLength
<1>4. \A a, b \in Nat : a \div 3 = b \div 3 /\ a % 3 = b % 3 => a = b
  OBVIOUS
<1> HIDE DEF t
<1>5. i - 1 - start(i) = j - 1 - start(j)
  BY <1>1, <1>3, <1>4 DEF t
<1> QED BY <1>2, <1>5 DEF ScheduleLength

\* The place of a mode in a round is the one that the rotation gives it, stated
\* as summarize states it or solved for the place.
LEMMA Place ==
  ASSUME NEW t \in Nat, NEW o \in Nat, NEW m \in Modes
  PROVE  /\ ModeNumber(m) \in 0 .. 2 /\ (ModeNumber(m) + 2 * t) % 3 \in 0 .. 2
         /\ o < 3 => (((t % 3) + o) % 3 = ModeNumber(m)
                        <=> o = (ModeNumber(m) + 2 * t) % 3)
<1>1. ModeNumber(m) \in 0 .. 2
  BY DEF Modes, ModeNumber
<1>2. \A k \in 0 .. 2, p \in 0 .. 2 :
        ((t % 3) + p) % 3 = k <=> p = (k + 2 * t) % 3
  OBVIOUS
<1>3. \A k \in 0 .. 2 : (k + 2 * t) % 3 \in 0 .. 2
  OBVIOUS
<1>4. o < 3 => o \in 0 .. 2
  OBVIOUS
<1> QED BY ONLY <1>1, <1>2, <1>3, <1>4

-----------------------------------------------------------------------------
(* What summarize takes for a result. *)

Row == [phase : {"warmup", "measurement"}, mode : Modes, trial : Nat, order : Nat,
        passed : BOOLEAN, value : Values, amount : -Largest .. Largest]

\* The rows of a mode are all where the schedule puts it, no two of them in the
\* same round.
WellPlaced(rows, m, n) ==
  /\ \A i, j \in Relevant(rows, m) : rows[i].trial = rows[j].trial => i = j
  /\ \A j \in Relevant(rows, m) : ~Malformed(rows[j], m, n)

LEMMA RelevantFinite ==
  ASSUME NEW rows \in Seq(Row), NEW m
  PROVE  /\ IsFiniteSet(Relevant(rows, m)) /\ IsFiniteSet(Attempted(rows, m))
         /\ \A j \in Relevant(rows, m) :
              /\ j \in 1 .. Len(rows) /\ rows[j] \in Row
              /\ rows[j].phase = "measurement" /\ rows[j].mode = m
         /\ [j \in Relevant(rows, m) |-> rows[j].trial]
              \in Surjection(Relevant(rows, m), Attempted(rows, m))
<1>1. \A j \in Relevant(rows, m) :
        /\ j \in 1 .. Len(rows) /\ rows[j] \in Row
        /\ rows[j].phase = "measurement" /\ rows[j].mode = m
  BY DEF Relevant
<1>2. IsFiniteSet(1 .. Len(rows)) /\ Relevant(rows, m) \subseteq 1 .. Len(rows)
  <2>1. IsFiniteSet(1 .. Len(rows))
    BY FS_Interval
  <2> QED BY <1>1, <2>1
<1>3. IsFiniteSet(Relevant(rows, m))
  BY <1>2, FS_Subset
<1>4. [j \in Relevant(rows, m) |-> rows[j].trial]
        \in Surjection(Relevant(rows, m), Attempted(rows, m))
  BY DEF Attempted, Surjection
<1>5. IsFiniteSet(Attempted(rows, m))
  BY <1>3, <1>4, FS_Surjection
<1> QED BY <1>1, <1>3, <1>4, <1>5

LEMMA WellFormed ==
  ASSUME NEW o, NEW m, NEW n
  PROVE  ~Malformed(o, m, n) <=>
           /\ ~(o.trial >= n) /\ ~(o.order >= 3) /\ o.passed
           /\ ((o.trial % 3) + o.order) % 3 = ModeNumber(m)
BY Zenon DEF Malformed

\* As many well-placed rows as there are rounds are one for each round.
LEMMA WellPlacedIsMeasured ==
  ASSUME NEW rows \in Seq(Row), NEW n \in Nat \ {0}, NEW m \in Modes, NEW v,
         WellPlaced(rows, m, n), Cardinality(Attempted(rows, m)) = n,
         \A j \in Relevant(rows, m) : rows[j].value = v
  PROVE  MeasuredOnce(rows, n, m, v)
<1> DEFINE R == Relevant(rows, m)
           A == Attempted(rows, m)
           f == [j \in R |-> rows[j].trial]
<1>0. \A j \in R : /\ j \in DOMAIN rows /\ rows[j].phase = "measurement"
                   /\ rows[j].mode = m
  BY DEF Relevant
<1>1. \A j \in R : /\ j \in DOMAIN rows /\ rows[j].phase = "measurement"
                   /\ rows[j].mode = m /\ rows[j].passed /\ rows[j].value = v
                   /\ rows[j].trial \in 0 .. n - 1
                   /\ rows[j].order = (ModeNumber(m) + 2 * rows[j].trial) % 3
  <2> SUFFICES ASSUME NEW j \in R
               PROVE  /\ rows[j].passed /\ rows[j].trial \in 0 .. n - 1
                      /\ rows[j].order = (ModeNumber(m) + 2 * rows[j].trial) % 3
    BY <1>0
  <2>1. rows[j].trial \in Nat /\ rows[j].order \in Nat
    BY RelevantFinite DEF Row
  <2>2. /\ rows[j].trial < n /\ rows[j].order < 3 /\ rows[j].passed
        /\ ((rows[j].trial % 3) + rows[j].order) % 3 = ModeNumber(m)
    <3>1. ~Malformed(rows[j], m, n)
      BY DEF WellPlaced
    <3>2. /\ ~(rows[j].trial >= n) /\ ~(rows[j].order >= 3) /\ rows[j].passed
          /\ ((rows[j].trial % 3) + rows[j].order) % 3 = ModeNumber(m)
      BY <3>1, WellFormed
    <3>3. n \in Nat
      OBVIOUS
    <3>4. rows[j].trial < n /\ rows[j].order < 3
      BY ONLY <2>1, <3>2, <3>3
    <3> QED BY ONLY <3>2, <3>4
  <2>3. rows[j].trial \in 0 .. n - 1
    BY <2>1, <2>2
  <2>4. rows[j].order = (ModeNumber(m) + 2 * rows[j].trial) % 3
    BY <2>1, <2>2, Place
  <2> QED BY ONLY <2>2, <2>3, <2>4
<1>2. A = 0 .. n - 1
  <2>1. A \subseteq 0 .. n - 1
    BY <1>1 DEF Attempted
  <2>2. IsFiniteSet(0 .. n - 1) /\ Cardinality(0 .. n - 1) = n
    BY FS_Interval
  <2>3. IsFiniteSet(A)
    BY RelevantFinite
  <2> QED BY <2>1, <2>2, <2>3, FS_Subset
<1>3. \A t \in 0 .. n - 1 : \E j \in R : rows[j].trial = t
  BY <1>2 DEF Attempted
<1>4. Cardinality(R) = n
  <2>1. f \in Surjection(R, A) /\ IsFiniteSet(R)
    BY RelevantFinite
  <2>2. f \in Injection(R, A)
    BY <2>1 DEF WellPlaced, Injection, IsInjective, Surjection
  <2> HIDE DEF f, R, A
  <2>3. Cardinality(A) = Cardinality(R) <=> f \in Injection(R, A)
    BY <2>1, FS_Surjection
  <2> QED BY <2>2, <2>3 DEF A
<1>5. {j \in DOMAIN rows : rows[j].phase = "measurement" /\ rows[j].mode = m} = R
  BY DEF Relevant
<1>6. ASSUME NEW t \in 0 .. n - 1
      PROVE  \E j \in DOMAIN rows :
               /\ rows[j].phase = "measurement" /\ rows[j].mode = m
               /\ rows[j].trial = t /\ rows[j].order = (ModeNumber(m) + 2 * t) % 3
               /\ rows[j].passed /\ rows[j].value = v
  <2>1. PICK j \in R : rows[j].trial = t
    BY <1>3
  <2> HIDE DEF R
  <2> QED BY <1>1, <2>1
<1>7. Cardinality({j \in DOMAIN rows : rows[j].phase = "measurement" /\ rows[j].mode = m})
        = n
  BY <1>4, <1>5
<1> QED BY <1>6, <1>7 DEF MeasuredOnce

\* One row for each round, and no more, are well placed and complete.
LEMMA MeasuredIsWellPlaced ==
  ASSUME NEW rows \in Seq(Row), NEW n \in Nat \ {0}, NEW m \in Modes, NEW v,
         MeasuredOnce(rows, n, m, v)
  PROVE  /\ WellPlaced(rows, m, n) /\ Cardinality(Attempted(rows, m)) = n
         /\ \A j \in Relevant(rows, m) : rows[j].value = v
<1> DEFINE R == Relevant(rows, m)
           A == Attempted(rows, m)
           f == [j \in R |-> rows[j].trial]
           Right(j) == /\ rows[j].order = (ModeNumber(m) + 2 * rows[j].trial) % 3
                       /\ rows[j].passed /\ rows[j].value = v
<1>1. \A t \in 0 .. n - 1 : \E j \in R : rows[j].trial = t /\ Right(j)
  BY DEF MeasuredOnce, Relevant
<1>2. Cardinality(R) = n
  BY DEF MeasuredOnce, Relevant
<1>3. f \in Surjection(R, A) /\ IsFiniteSet(R) /\ IsFiniteSet(A)
  BY RelevantFinite
<1>4. 0 .. n - 1 \subseteq A
  BY <1>1 DEF Attempted
<1>5. IsFiniteSet(0 .. n - 1) /\ Cardinality(0 .. n - 1) = n
  BY FS_Interval
<1>6. /\ Cardinality(A) <= Cardinality(R)
      /\ Cardinality(A) = Cardinality(R) <=> f \in Injection(R, A)
  <2> HIDE DEF f, R, A
  <2> QED BY <1>3, FS_Surjection
<1>7. Cardinality(A) = n /\ A = 0 .. n - 1
  <2>1. Cardinality(0 .. n - 1) <= Cardinality(A)
    BY <1>3, <1>4, FS_Subset
  <2>2. Cardinality(A) \in Nat
    BY <1>3, FS_CardinalityType
  <2>3. Cardinality(A) = n
    BY <1>2, <1>5, <1>6, <2>1, <2>2
  <2> QED BY <1>3, <1>4, <1>5, <2>3, FS_Subset
<1>8. \A i, j \in R : rows[i].trial = rows[j].trial => i = j
  <2>1. f \in Injection(R, A)
    BY <1>2, <1>6, <1>7
  <2>2. \A i, j \in R : f[i] = f[j] => i = j
    BY <2>1 DEF Injection, IsInjective
  <2> QED BY <2>2
<1>9. \A j \in R : rows[j].trial \in 0 .. n - 1 /\ Right(j)
  <2> SUFFICES ASSUME NEW j \in R
               PROVE  rows[j].trial \in 0 .. n - 1 /\ Right(j)
    OBVIOUS
  <2>1. rows[j].trial \in 0 .. n - 1
    BY <1>7 DEF Attempted
  <2>2. PICK i \in R : rows[i].trial = rows[j].trial /\ Right(i)
    BY <1>1, <2>1
  <2>3. i = j
    BY <1>8, <2>2
  <2> QED BY <2>1, <2>2, <2>3
<1>10. \A j \in R : ~Malformed(rows[j], m, n)
  <2> SUFFICES ASSUME NEW j \in R
               PROVE  ~Malformed(rows[j], m, n)
    OBVIOUS
  <2>1. rows[j].trial \in Nat /\ rows[j].trial < n /\ rows[j].order \in Nat
    <3>1. rows[j].trial \in 0 .. n - 1
      BY <1>9
    <3>2. rows[j].trial \in Nat /\ rows[j].order \in Nat
      BY RelevantFinite DEF Row
    <3> QED BY <3>1, <3>2
  <2>2. rows[j].order = (ModeNumber(m) + 2 * rows[j].trial) % 3 /\ rows[j].passed
    BY <1>9
  <2>3. rows[j].order < 3
    <3>1. (ModeNumber(m) + 2 * rows[j].trial) % 3 \in 0 .. 2
      BY <2>1, Place
    <3> QED BY <2>2, <3>1
  <2>4. ((rows[j].trial % 3) + rows[j].order) % 3 = ModeNumber(m)
    BY <2>1, <2>2, <2>3, Place
  <2>5. n \in Nat
    OBVIOUS
  <2>6. ~(rows[j].trial >= n) /\ ~(rows[j].order >= 3)
    BY ONLY <2>1, <2>3, <2>5
  <2> QED BY ONLY <2>2, <2>4, <2>6, WellFormed
<1> QED BY <1>7, <1>8, <1>9, <1>10 DEF WellPlaced

\* Rows that summarize does not refuse are well placed and have one kind of
\* value, and conversely.
LEMMA NotRefused ==
  ASSUME NEW rows \in Seq(Row), NEW n \in Nat, NEW m \in Modes, NEW allow \in BOOLEAN
  PROVE  ~Failed(rows, m, n, allow) <=>
           /\ WellPlaced(rows, m, n)
           /\ \E v \in {"number", "null"} :
                /\ v = "null" => allow \/ Relevant(rows, m) = {}
                /\ \A j \in Relevant(rows, m) : rows[j].value = v
<1> DEFINE R == Relevant(rows, m)
           Refused == \/ \E j \in R : rows[j].value = "nonfinite"
                      \/ ~allow /\ \E j \in R : rows[j].value = "null"
                      \/ \E i, j \in R : rows[i].value = "null" /\ rows[j].value = "number"
<1>1. \A j \in R : j \in Int /\ rows[j].value \in {"number", "null", "nonfinite"}
  <2> SUFFICES ASSUME NEW j \in R
               PROVE  j \in Int /\ rows[j].value \in {"number", "null", "nonfinite"}
    OBVIOUS
  <2>1. j \in 1 .. Len(rows) /\ rows[j] \in Row
    BY RelevantFinite
  <2>2. j \in Int
    BY <2>1
  <2> QED BY <2>1, <2>2 DEF Row, Values
<1>2. (\A i, j \in R : ~(i < j /\ rows[i].trial = rows[j].trial))
        <=> (\A i, j \in R : rows[i].trial = rows[j].trial => i = j)
  <2>1. ASSUME \A i, j \in R : ~(i < j /\ rows[i].trial = rows[j].trial),
               NEW i \in R, NEW j \in R, rows[i].trial = rows[j].trial
        PROVE  i = j
    <3>1. i \in Int /\ j \in Int
      BY <1>1
    <3>2. ~(i < j) /\ ~(j < i)
      BY <2>1
    <3> QED BY <3>1, <3>2
  <2>2. ASSUME \A i, j \in R : rows[i].trial = rows[j].trial => i = j,
               NEW i \in R, NEW j \in R, i < j, rows[i].trial = rows[j].trial
        PROVE  FALSE
    <3>1. i = j /\ i \in Int
      BY <1>1, <2>2
    <3> QED BY <2>2, <3>1
  <2> QED BY <2>1, <2>2
<1>3. ~Refused <=> \E v \in {"number", "null"} :
                     /\ v = "null" => allow \/ R = {}
                     /\ \A j \in R : rows[j].value = v
  <2> HIDE DEF R
  <2> QED BY <1>1
<1>4. Failed(rows, m, n, allow) <=>
        \/ ~(\A i, j \in R : ~(i < j /\ rows[i].trial = rows[j].trial))
        \/ ~(\A j \in R : ~Malformed(rows[j], m, n))
        \/ Refused
  BY DEF Failed
<1> HIDE DEF Refused
<1> QED BY <1>2, <1>3, <1>4 DEF WellPlaced

\* summarize reports a mean exactly for one passing row a round whose amounts
\* have a finite deviation, fails such rows when they have none, and reports
\* "not applicable" exactly for one row a round without a value where that is
\* allowed: for every number of rounds and every sequence of rows.
THEOREM PassMeansMeasured ==
  ASSUME NEW rows \in Seq(Row), NEW n \in Nat \ {0}, NEW m \in Modes, NEW allow \in BOOLEAN
  PROVE  /\ Summarize(rows, m, n, allow, FALSE) = "pass"
              <=> MeasuredOnce(rows, n, m, "number") /\ FiniteStatistics(rows, m)
         /\ MeasuredOnce(rows, n, m, "number") /\ ~FiniteStatistics(rows, m)
              => Summarize(rows, m, n, allow, FALSE) = "failed"
         /\ Summarize(rows, m, n, allow, FALSE) = "not_applicable"
              <=> allow /\ MeasuredOnce(rows, n, m, "null")
<1> DEFINE R == Relevant(rows, m)
           F == Failed(rows, m, n, allow)
           Whole == Cardinality(Attempted(rows, m)) = n
           All(v) == \A j \in R : rows[j].value = v
           Finite == FiniteStatistics(rows, m)
           S == Summarize(rows, m, n, allow, FALSE)
<1>1. /\ S = "pass" <=> ~F /\ Whole /\ ~All("null") /\ Finite
      /\ ~F /\ Whole /\ ~All("null") /\ ~Finite => S = "failed"
      /\ S = "not_applicable" <=> ~F /\ Whole /\ All("null")
  BY DEF Summarize
<1>2. Whole => R # {}
  <2> SUFFICES ASSUME Whole, R = {} PROVE FALSE
    OBVIOUS
  <2>1. Attempted(rows, m) = {}
    BY DEF Attempted
  <2>2. Cardinality(Attempted(rows, m)) = 0
    BY <2>1, FS_EmptySet
  <2> QED BY <2>2
<1>3. ~F <=> WellPlaced(rows, m, n)
             /\ \E v \in {"number", "null"} : (v = "null" => allow \/ R = {}) /\ All(v)
  <2>1. F <=> Failed(rows, m, n, allow)
    OBVIOUS
  <2> HIDE DEF F
  <2> QED BY <2>1, NotRefused
<1>4. ASSUME NEW v \in {"number", "null"}
      PROVE  MeasuredOnce(rows, n, m, v) <=> WellPlaced(rows, m, n) /\ Whole /\ All(v)
  BY WellPlacedIsMeasured, MeasuredIsWellPlaced
<1>5. R # {} => ~(All("null") /\ All("number"))
  OBVIOUS
<1> HIDE DEF R, F, Whole, All, S, Finite
<1>6. MeasuredOnce(rows, n, m, "number") <=> ~F /\ Whole /\ ~All("null")
  BY <1>2, <1>3, <1>4, <1>5
<1>7. S = "not_applicable" <=> allow /\ MeasuredOnce(rows, n, m, "null")
  BY <1>1, <1>2, <1>3, <1>4, <1>5
<1> QED BY <1>1, <1>6, <1>7 DEF S, Finite

\* The square of a number between -c and c.
LEMMA SquareBounded ==
  ASSUME NEW c \in Nat, NEW x \in -c .. c
  PROVE  Square(x) \in 0 .. c * c
<1>1. x * x >= 0
  OBVIOUS
<1>2. x * x <= c * c
  <2>1. (c - x) * (c + x) >= 0
    OBVIOUS
  <2>2. (c - x) * (c + x) = c * c - x * x
    OBVIOUS
  <2> QED BY <2>1, <2>2
<1> QED BY <1>1, <1>2 DEF Square

\* Amounts that are not negative have a finite deviation, however many: each is
\* at most n - 1 times the largest one away, n times, from their total.
LEMMA NonNegativeIsFinite ==
  ASSUME NEW rows \in Seq(Row), NEW m, \A j \in Relevant(rows, m) : rows[j].amount >= 0
  PROVE  FiniteStatistics(rows, m)
<1> DEFINE R == Relevant(rows, m)
           n == Cardinality(R)
           A == [j \in R |-> rows[j].amount]
           total == SumFunction(A)
           Q == [j \in R |-> Square(n * rows[j].amount - total)]
           b == (n - 1) * Largest
<1>1. IsFiniteSet(R) /\ n \in Nat /\ Largest \in Nat
  BY RelevantFinite, FS_CardinalityType, StatsAssumption
<1>2. \A j \in R : A[j] = rows[j].amount /\ A[j] \in 0 .. Largest
  <2> SUFFICES ASSUME NEW j \in R PROVE rows[j].amount \in 0 .. Largest
    OBVIOUS
  <2>1. rows[j].amount \in -Largest .. Largest
    BY RelevantFinite DEF Row
  <2> QED BY <1>1, <2>1
<1>3. total = SumFunctionOnSet(A, R)
  BY DEF SumFunction
<1>4. FiniteStatistics(rows, m) <=> SumFunction(Q) <= n * n * (n - 1) * Square(Largest)
  BY DEF FiniteStatistics
<1>5. SumFunction(Q) = SumFunctionOnSet(Q, R)
  BY DEF SumFunction
<1>6. ASSUME NEW j \in R
      PROVE  n - 1 \in Nat /\ b \in Nat /\ Q[j] \in 0 .. b * b
  <2> DEFINE rest == SumFunctionOnSet(A, R \ {j})
  <2>1. IsFiniteSet(R \ {j}) /\ Cardinality(R \ {j}) = n - 1 /\ n - 1 \in Nat
    <3> HIDE DEF R
    <3>1. IsFiniteSet(R \ {j}) /\ Cardinality(R \ {j}) = n - 1
      BY <1>1, <1>6, FS_RemoveElement
    <3> QED BY <3>1, FS_CardinalityType
  <2>2. total = A[j] + rest
    <3>1. \A x \in R : A[x] \in Int
      BY <1>2
    <3> HIDE DEF R, A, total
    <3> QED BY <1>1, <1>3, <3>1, SumRemove
  <2>3. rest \in 0 .. Largest * (n - 1)
    <3> DEFINE W == R \ {j}
    <3>1. IsFiniteSet(W) /\ Cardinality(W) = n - 1 /\ \A x \in W : A[x] \in 0 .. Largest
      BY <1>2, <2>1
    <3> HIDE DEF W, R, A, n
    <3>2. SumFunctionOnSet(A, W) \in 0 .. Largest * Cardinality(W)
      BY <1>1, <3>1, SumBounded
    <3> QED BY <3>1, <3>2 DEF W
  <2>4. Q[j] = Square(n * A[j] - total)
    OBVIOUS
  <2> HIDE DEF R, A, n, total, Q, rest
  <2>5. A[j] \in 0 .. Largest
    BY <1>2
  <2>6. \A k \in Nat, a \in 0 .. Largest : k * a \in 0 .. k * Largest
    BY <1>1
  <2>7. (n - 1) * A[j] \in 0 .. (n - 1) * Largest
    BY <2>1, <2>5, <2>6
  <2>8. n * A[j] - total = (n - 1) * A[j] - rest
    <3>1. \A x, y, z \in Int : x * y - (y + z) = (x - 1) * y - z
      OBVIOUS
    <3>2. n \in Int /\ A[j] \in Int /\ rest \in Int
      BY <1>1, <2>3, <2>5
    <3>3. n * A[j] - (A[j] + rest) = (n - 1) * A[j] - rest
      BY ONLY <3>1, <3>2
    <3> QED BY ONLY <2>2, <3>3
  <2>9. b \in Nat /\ Largest * (n - 1) = b
    BY <1>1, <2>1
  <2> HIDE DEF b
  <2>10. n * A[j] - total \in -b .. b
    <3>1. (n - 1) * A[j] \in 0 .. b
      BY <2>7 DEF b
    <3> QED BY <2>3, <2>8, <2>9, <3>1
  <2> QED BY <2>1, <2>4, <2>9, <2>10, SquareBounded
<1>7. CASE R = {}
  <2>1. n = 0 /\ SumFunction(Q) = 0
    BY <1>5, <1>7, SumOfNone, FS_EmptySet
  <2>2. 0 * 0 * (0 - 1) * Square(Largest) = 0
    BY <1>1 DEF Square
  <2> QED BY <1>4, <2>1, <2>2
<1>8. CASE R # {}
  <2>1. n - 1 \in Nat /\ b \in Nat /\ \A j \in R : Q[j] \in 0 .. b * b
    BY <1>6, <1>8
  <2>2. SumFunctionOnSet(Q, R) \in 0 .. (b * b) * n
    <3> HIDE DEF R, Q, b, n
    <3>1. b * b \in Nat
      BY <2>1
    <3> DEFINE c == b * b
    <3>2. c \in Nat /\ \A j \in R : Q[j] \in 0 .. c
      BY <2>1, <3>1
    <3> HIDE DEF c
    <3>3. SumFunctionOnSet(Q, R) \in 0 .. c * Cardinality(R)
      BY <1>1, <3>2, SumBounded
    <3> QED BY <3>3 DEF c, n
  <2>3. \A k \in Nat, l \in Nat :
          ((k * l) * (k * l)) * (k + 1) <= (k + 1) * (k + 1) * k * (l * l)
    <3> SUFFICES ASSUME NEW k \in Nat, NEW l \in Nat
                 PROVE  ((k * l) * (k * l)) * (k + 1) <= (k + 1) * (k + 1) * k * (l * l)
      OBVIOUS
    <3>1. (k + 1) * (k + 1) * k * (l * l)
            = ((k * l) * (k * l)) * (k + 1) + (k * (k + 1)) * (l * l)
      OBVIOUS
    <3>2. (k * (k + 1)) * (l * l) \in Nat
      OBVIOUS
    <3> QED BY <3>1, <3>2
  <2>4. (b * b) * n <= n * n * (n - 1) * Square(Largest)
    <3> HIDE DEF n
    <3>1. PICK k \in Nat : k = n - 1 /\ n = k + 1
      BY <1>1, <2>1
    <3> QED BY <1>1, <2>3, <3>1 DEF b, Square
  <2> HIDE DEF Q, R, b, n
  <2>5. \A x, y, z \in Int : x \in 0 .. y /\ y <= z => x <= z
    OBVIOUS
  <2>6. (b * b) * n \in Int /\ n * n * (n - 1) * Square(Largest) \in Int
    BY <1>1, <2>1 DEF Square
  <2> QED BY <1>4, <1>5, <2>2, <2>4, <2>5, <2>6
<1> QED BY <1>7, <1>8

-----------------------------------------------------------------------------
(* Rows laid out by make_schedule. *)

\* The rows of the first d trials of the schedule, all passed with one kind of
\* value and amounts that are not negative.
Scheduled(rows, d, rounds, warm, v) ==
  /\ rows \in Seq(Row) /\ Len(rows) = d /\ d <= ScheduleLength(rounds, warm)
  /\ \A j \in 1 .. d :
       /\ rows[j] = Passed(TrialAt(j, rounds, warm), v, rows[j].amount)
       /\ rows[j].amount >= 0

\* Where the schedule measures a mode in a round.
LEMMA RoundsOfMode ==
  ASSUME NEW rounds \in Nat, NEW warm \in Nat, NEW m \in Modes, NEW t \in 0 .. rounds - 1
  PROVE  \E j \in 1 .. ScheduleLength(rounds, warm) :
           /\ j <= 3 * (warm + t + 1)
           /\ TrialAt(j, rounds, warm).phase = "measurement"
           /\ TrialAt(j, rounds, warm).trial = t /\ TrialAt(j, rounds, warm).mode = m
<1> DEFINE o == (ModeNumber(m) + 2 * t) % 3
           j == 3 * warm + 3 * t + o + 1
<1>1. o \in 0 .. 2 /\ ((t % 3) + o) % 3 = ModeNumber(m)
  <2>1. o \in 0 .. 2 /\ t \in Nat
    BY Place
  <2> QED BY <2>1, Place
<1>2. ModeAt(ModeNumber(m)) = m
  BY DEF ModeAt, ModeNumber, Modes
<1> HIDE DEF o
<1>3. /\ j \in 1 .. ScheduleLength(rounds, warm) /\ j <= 3 * (warm + t + 1)
      /\ ~(j <= 3 * warm) /\ j - 1 - 3 * warm = 3 * t + o
  BY <1>1 DEF ScheduleLength
<1>4. \A p \in 0 .. 2 : (3 * t + p) \div 3 = t /\ (3 * t + p) % 3 = p
                        /\ (t + p) % 3 = ((t % 3) + p) % 3
  <2>1. t \in Nat
    OBVIOUS
  <2>2. \A a \in Nat, p \in 0 .. 2 : (3 * a + p) \div 3 = a /\ (3 * a + p) % 3 = p
                                     /\ (a + p) % 3 = ((a % 3) + p) % 3
    OBVIOUS
  <2> QED BY ONLY <2>1, <2>2
<1>5. (3 * t + o) \div 3 = t /\ (3 * t + o) % 3 = o /\ (t + o) % 3 = ModeNumber(m)
  BY <1>1, <1>4
<1> HIDE DEF j
<1>6. /\ TrialAt(j, rounds, warm).phase = "measurement"
      /\ TrialAt(j, rounds, warm).trial = t /\ TrialAt(j, rounds, warm).mode = m
  BY <1>2, <1>3, <1>5 DEF TrialAt
<1> QED BY <1>3, <1>6

\* The measured rounds that a part of the schedule holds.
LEMMA RoundsAttempted ==
  ASSUME NEW rounds \in Nat, NEW warm \in Nat, NEW d \in Nat, NEW v, NEW rows,
         Scheduled(rows, d, rounds, warm, v), NEW m \in Modes
  PROVE  /\ \A t \in 0 .. rounds - 1 : 3 * (warm + t + 1) <= d => t \in Attempted(rows, m)
         /\ \A t \in Attempted(rows, m) :
              t \in 0 .. rounds - 1 /\ 3 * (warm + t) + 1 <= d
<1>1. ASSUME NEW t \in 0 .. rounds - 1, 3 * (warm + t + 1) <= d
      PROVE  t \in Attempted(rows, m)
  <2>1. PICK j \in 1 .. ScheduleLength(rounds, warm) :
          /\ j <= 3 * (warm + t + 1)
          /\ TrialAt(j, rounds, warm).phase = "measurement"
          /\ TrialAt(j, rounds, warm).trial = t /\ TrialAt(j, rounds, warm).mode = m
    BY RoundsOfMode
  <2>2. ScheduleLength(rounds, warm) \in Nat
    BY DEF ScheduleLength
  <2>3. j \in 1 .. d
    BY <1>1, <2>1, <2>2
  <2>4. j \in DOMAIN rows /\ rows[j] = Passed(TrialAt(j, rounds, warm), v, rows[j].amount)
    BY <2>3 DEF Scheduled
  <2> QED BY <2>1, <2>4 DEF Attempted, Relevant, Passed
<1>2. ASSUME NEW t \in Attempted(rows, m)
      PROVE  t \in 0 .. rounds - 1 /\ 3 * (warm + t) + 1 <= d
  <2>1. PICK j \in DOMAIN rows : rows[j].phase = "measurement" /\ rows[j].trial = t
    BY DEF Attempted, Relevant
  <2>2. ScheduleLength(rounds, warm) \in Nat /\ d <= ScheduleLength(rounds, warm)
    BY DEF ScheduleLength, Scheduled
  <2>3. j \in 1 .. d /\ rows[j] = Passed(TrialAt(j, rounds, warm), v, rows[j].amount)
    BY DEF Scheduled
  <2>4. j \in 1 .. ScheduleLength(rounds, warm)
    BY <2>2, <2>3
  <2>5. TrialAt(j, rounds, warm).phase = "measurement"
        /\ TrialAt(j, rounds, warm).trial = t
    BY <2>1, <2>3 DEF Passed
  <2>6. t \in Nat /\ t < rounds
    BY <2>4, <2>5, TrialFacts
  <2>7. ~(j <= 3 * warm) /\ t = (j - 1 - 3 * warm) \div 3
    BY <2>4, <2>5 DEF TrialAt
  <2>8. \A a, b \in Nat : a = b \div 3 => 3 * a <= b
    OBVIOUS
  <2>9. j - 1 - 3 * warm \in Nat
    BY <2>4, <2>7
  <2>10. 3 * t <= j - 1 - 3 * warm
    BY <2>6, <2>7, <2>8, <2>9
  <2> QED BY <2>3, <2>6, <2>10
<1> QED BY <1>1, <1>2

\* A case that runs its schedule is refused nowhere, and complete at its end.
LEMMA ScheduledVerdict ==
  ASSUME NEW rounds \in Nat \ {0}, NEW warm \in Nat, NEW d \in Nat, NEW allow \in BOOLEAN,
         NEW v \in {"number", "null"}, v = "null" => allow, NEW rows,
         Scheduled(rows, d, rounds, warm, v), NEW m \in Modes
  PROVE  /\ ~Failed(rows, m, rounds, allow) /\ FiniteStatistics(rows, m)
         /\ d = ScheduleLength(rounds, warm) =>
              Cardinality(Attempted(rows, m)) = rounds
<1> DEFINE R == Relevant(rows, m)
           T(j) == TrialAt(j, rounds, warm)
<1>1. \A j \in R : /\ j \in 1 .. ScheduleLength(rounds, warm)
                   /\ rows[j] = Passed(T(j), v, rows[j].amount)
                   /\ T(j).phase = "measurement" /\ T(j).mode = m
  <2> SUFFICES ASSUME NEW j \in R
               PROVE  /\ j \in 1 .. ScheduleLength(rounds, warm)
                      /\ rows[j] = Passed(T(j), v, rows[j].amount)
                      /\ T(j).phase = "measurement" /\ T(j).mode = m
    OBVIOUS
  <2>1. j \in 1 .. d /\ rows[j].phase = "measurement" /\ rows[j].mode = m
    BY DEF Relevant, Scheduled
  <2>2. rows[j] = Passed(T(j), v, rows[j].amount)
    BY <2>1 DEF Scheduled
  <2>3. j \in 1 .. ScheduleLength(rounds, warm)
    <3>1. ScheduleLength(rounds, warm) \in Nat /\ d <= ScheduleLength(rounds, warm)
      BY DEF ScheduleLength, Scheduled
    <3> QED BY <2>1, <3>1
  <2> QED BY <2>1, <2>2, <2>3 DEF Passed
<1>2. \A j \in R : /\ rows[j].trial = T(j).trial /\ rows[j].order = T(j).order
                   /\ rows[j].passed /\ rows[j].value = v
  <2> SUFFICES ASSUME NEW j \in R
               PROVE  /\ rows[j].trial = T(j).trial /\ rows[j].order = T(j).order
                      /\ rows[j].passed /\ rows[j].value = v
    OBVIOUS
  <2>1. rows[j] = Passed(T(j), v, rows[j].amount)
    BY <1>1
  <2> HIDE DEF R, T
  <2> QED BY <2>1 DEF Passed
<1> HIDE DEF R, T
<1>3. ASSUME NEW i \in R, NEW j \in R, rows[i].trial = rows[j].trial
      PROVE  i = j
  BY <1>1, <1>2, <1>3, ModeOncePerRound DEF T
<1>4. ASSUME NEW j \in R
      PROVE  ~Malformed(rows[j], m, rounds)
  BY <1>1, <1>2, ScheduledRowsAreAccepted DEF T
<1>5. WellPlaced(rows, m, rounds)
  BY <1>3, <1>4 DEF WellPlaced, R
<1>6. ~Failed(rows, m, rounds, allow)
  <2>1. rows \in Seq(Row)
    BY DEF Scheduled
  <2> QED BY <1>2, <1>5, <2>1, NotRefused DEF R
<1>7. ASSUME d = ScheduleLength(rounds, warm)
      PROVE  Cardinality(Attempted(rows, m)) = rounds
  <2>1. \A t \in 0 .. rounds - 1 : 3 * (warm + t + 1) <= d
    BY <1>7 DEF ScheduleLength
  <2>2. Attempted(rows, m) = 0 .. rounds - 1
    BY <2>1, RoundsAttempted
  <2>3. Cardinality(0 .. rounds - 1) = rounds
    BY FS_Interval
  <2> QED BY <2>2, <2>3
<1>8. FiniteStatistics(rows, m)
  <2>1. \A j \in R : rows[j].amount >= 0
    BY DEF R, Relevant, Scheduled
  <2>2. rows \in Seq(Row)
    BY DEF Scheduled
  <2> QED BY <2>1, <2>2, NonNegativeIsFinite DEF R
<1> QED BY <1>6, <1>7, <1>8

\* Anywhere in the schedule the modes are at most one measured round apart.
LEMMA ModesAbreast ==
  ASSUME NEW rounds \in Nat \ {0}, NEW warm \in Nat, NEW d \in Nat, NEW v, NEW rows,
         Scheduled(rows, d, rounds, warm, v), NEW m \in Modes, NEW n \in Modes
  PROVE  Cardinality(Attempted(rows, m)) <= Cardinality(Attempted(rows, n)) + 1
<1> DEFINE A == Attempted(rows, m)
           B == Attempted(rows, n)
<1>1. IsFiniteSet(A) /\ IsFiniteSet(B)
  BY RelevantFinite DEF Scheduled
<1>2. Cardinality(A) \in Nat /\ Cardinality(B) \in Nat
  BY <1>1, FS_CardinalityType
<1>3. CASE d < 3 * warm
  <2>1. A = {}
    BY <1>3, RoundsAttempted
  <2>2. Cardinality(A) = 0
    BY <2>1, FS_EmptySet
  <2> QED BY <1>2, <2>2
<1>4. CASE d >= 3 * warm
  <2>1. PICK q \in Nat, r \in 0 .. 2 : d - 3 * warm = 3 * q + r
    <3>1. d - 3 * warm \in Nat
      BY <1>4
    <3>2. \A a \in Nat : a \div 3 \in Nat /\ a % 3 \in 0 .. 2
      OBVIOUS
    <3>3. \A a \in Nat : a = 3 * (a \div 3) + (a % 3)
      OBVIOUS
    <3> QED BY <3>1, <3>2, <3>3
  <2>2. q <= rounds
    <3>1. d <= 3 * (rounds + warm)
      BY DEF Scheduled, ScheduleLength
    <3> QED BY <2>1, <3>1
  <2>3. 0 .. q - 1 \subseteq B
    <3>1. \A t \in 0 .. q - 1 : t \in 0 .. rounds - 1 /\ 3 * (warm + t + 1) <= d
      BY <2>1, <2>2
    <3> QED BY <3>1, RoundsAttempted
  <2>4. A \subseteq 0 .. q
    <3>1. \A t \in A : t \in Nat /\ 3 * (warm + t) + 1 <= d
      BY RoundsAttempted
    <3>2. \A t \in Nat : 3 * (warm + t) + 1 <= d => t \in 0 .. q
      BY <2>1
    <3> QED BY <3>1, <3>2
  <2>5. /\ IsFiniteSet(0 .. q - 1) /\ Cardinality(0 .. q - 1) = q
        /\ IsFiniteSet(0 .. q) /\ Cardinality(0 .. q) = q + 1
    <3>1. IsFiniteSet(0 .. q) /\ Cardinality(0 .. q) = q + 1
      BY FS_Interval
    <3>2. IsFiniteSet(0 .. q - 1) /\ Cardinality(0 .. q - 1) = q
      BY FS_Interval
    <3> QED BY <3>1, <3>2
  <2>6. q <= Cardinality(B)
    BY <1>1, <2>3, <2>5, FS_Subset
  <2>7. Cardinality(A) <= q + 1
    BY <2>4, <2>5, FS_Subset
  <2> QED BY <1>2, <2>6, <2>7
<1>5. d < 3 * warm \/ d >= 3 * warm
  OBVIOUS
<1> QED BY <1>3, <1>4, <1>5

\* The rows of any case, and what a case that runs its schedule has written.
StatsInv ==
  /\ reps \in Nat \ {0} /\ warmup \in Nat \ {0} /\ allowNA \in BOOLEAN /\ done \in Nat
  /\ obs \in Seq(Row)
  /\ Len(obs) = done =>
       \E v \in {"number", "null"} :
         (v = "null" => allowNA) /\ Scheduled(obs, done, reps, warmup, v)

LEMMA StatsInvHolds ==
  StatsSpec => []StatsInv
<1>1. ASSUME StatsInit
      PROVE  StatsInv
  <2>1. /\ reps \in Nat \ {0} /\ warmup \in Nat \ {0} /\ allowNA \in BOOLEAN /\ done = 0
        /\ obs = <<>>
    BY <1>1 DEF StatsInit
  <2>2. obs \in Seq(Row) /\ Len(obs) = 0
    BY <2>1
  <2>3. ScheduleLength(reps, warmup) \in Nat
    BY <2>1 DEF ScheduleLength
  <2>4. Scheduled(obs, done, reps, warmup, "number")
    BY <2>1, <2>2, <2>3 DEF Scheduled
  <2> QED BY <2>1, <2>2, <2>4 DEF StatsInv
<1>2. ASSUME StatsInv, Observe
      PROVE  StatsInv'
  <2>1. UNCHANGED <<reps, warmup, allowNA, done>> /\ done = 0
    BY <1>2 DEF Observe
  <2>2. PICK o \in ArbitraryRows : obs' = Append(obs, o)
    BY <1>2 DEF Observe
  <2>3. o \in Row
    <3>1. \A k \in 0 .. reps : k \in Nat
      BY <1>2 DEF StatsInv
    <3>2. Mode \in Modes
      BY DEF Mode, Modes
    <3>3. {-Largest, 0, Largest} \subseteq -Largest .. Largest
      BY StatsAssumption
    <3> QED BY <2>2, <3>1, <3>2, <3>3 DEF ArbitraryRows, Row
  <2>4. obs' \in Seq(Row) /\ Len(obs') = Len(obs) + 1 /\ Len(obs) \in Nat
    BY <1>2, <2>2, <2>3 DEF StatsInv
  <2>5. Len(obs') # done'
    BY <2>1, <2>4
  <2> QED BY <1>2, <2>1, <2>4, <2>5 DEF StatsInv
<1>3. ASSUME StatsInv, RunTrial
      PROVE  StatsInv'
  <2>1. /\ UNCHANGED <<reps, warmup, allowNA>> /\ done' = done + 1 /\ Len(obs) = done
        /\ done < ScheduleLength(reps, warmup)
    BY <1>3 DEF RunTrial
  <2>2. PICK v \in {"number", "null"}, a \in 0 .. Largest :
          /\ v = "null" => allowNA
          /\ obs # <<>> => obs[1].value = v
          /\ obs' = Append(obs, Passed(TrialAt(done + 1, reps, warmup), v, a))
    BY <1>3 DEF RunTrial
  <2>3. PICK u \in {"number", "null"} :
          (u = "null" => allowNA) /\ Scheduled(obs, done, reps, warmup, u)
    BY <1>3, <2>1 DEF StatsInv
  <2>4. Passed(TrialAt(done + 1, reps, warmup), v, a) \in Row
    <3>1. done + 1 \in 1 .. ScheduleLength(reps, warmup)
      BY <1>3, <2>1 DEF StatsInv, ScheduleLength
    <3>2. /\ TrialAt(done + 1, reps, warmup).trial \in Nat
          /\ TrialAt(done + 1, reps, warmup).order \in 0 .. 2
          /\ TrialAt(done + 1, reps, warmup).mode \in Modes
      BY <1>3, <3>1, TrialFacts DEF StatsInv
    <3>3. TrialAt(done + 1, reps, warmup).phase \in {"warmup", "measurement"}
      BY DEF TrialAt
    <3>4. v \in Values
      BY DEF Values
    <3>5. TrialAt(done + 1, reps, warmup).order \in Nat
      BY <3>2
    <3>6. a \in -Largest .. Largest
      BY StatsAssumption
    <3> QED BY <3>2, <3>3, <3>4, <3>5, <3>6 DEF Passed, Row
  <2>5. /\ obs' \in Seq(Row) /\ Len(obs') = done + 1
        /\ obs'[done + 1] = Passed(TrialAt(done + 1, reps, warmup), v, a)
        /\ \A j \in 1 .. done : obs'[j] = obs[j]
    BY <1>3, <2>1, <2>2, <2>4 DEF StatsInv
  <2>6. done > 0 => u = v
    <3> SUFFICES ASSUME done > 0 PROVE u = v
      OBVIOUS
    <3>1. 1 \in 1 .. done
      BY <1>3 DEF StatsInv
    <3>2. obs[1] = Passed(TrialAt(1, reps, warmup), u, obs[1].amount)
      BY <2>3, <3>1 DEF Scheduled
    <3>3. obs # <<>>
      BY <2>1
    <3> QED BY <2>2, <3>2, <3>3 DEF Passed
  <2>7. \A j \in 1 .. done + 1 :
          /\ obs'[j] = Passed(TrialAt(j, reps, warmup), v, obs'[j].amount)
          /\ obs'[j].amount >= 0
    <3> SUFFICES ASSUME NEW j \in 1 .. done + 1
                 PROVE  /\ obs'[j] = Passed(TrialAt(j, reps, warmup), v, obs'[j].amount)
                        /\ obs'[j].amount >= 0
      OBVIOUS
    <3>1. done \in Nat
      BY <1>3 DEF StatsInv
    <3>2. CASE j = done + 1
      <4> DEFINE t == TrialAt(done + 1, reps, warmup)
      <4>1. Passed(t, v, a).amount = a /\ a >= 0
        BY DEF Passed
      <4>2. obs'[done + 1] = Passed(t, v, a)
        BY <2>5
      <4> HIDE DEF t
      <4>3. /\ obs'[done + 1] = Passed(t, v, obs'[done + 1].amount)
            /\ obs'[done + 1].amount >= 0
        BY ONLY <4>1, <4>2
      <4> QED BY ONLY <3>2, <4>3 DEF t
    <3>3. CASE j # done + 1
      <4>1. j \in 1 .. done /\ done > 0
        BY <3>1, <3>3
      <4>2. obs[j] = Passed(TrialAt(j, reps, warmup), u, obs[j].amount) /\ obs[j].amount >= 0
        BY <2>3, <4>1 DEF Scheduled
      <4> QED BY <2>5, <2>6, <4>1, <4>2
    <3> QED BY <3>2, <3>3
  <2>8. done + 1 <= ScheduleLength(reps, warmup) /\ done + 1 \in Nat
    BY <1>3, <2>1 DEF StatsInv, ScheduleLength
  <2>9. Scheduled(obs', done + 1, reps, warmup, v)
    BY <2>5, <2>7, <2>8 DEF Scheduled
  <2>10. Scheduled(obs', done', reps', warmup', v)
    BY <2>1, <2>9
  <2> QED BY <1>3, <2>1, <2>2, <2>5, <2>8, <2>10 DEF StatsInv
<1>4. ASSUME StatsInv, UNCHANGED statsVars
      PROVE  StatsInv'
  BY <1>4 DEF StatsInv, statsVars
<1>5. StatsInv /\ [StatsNext]_statsVars => StatsInv'
  BY <1>2, <1>3, <1>4 DEF StatsNext
<1> QED BY <1>1, <1>5, PTL DEF StatsSpec

\* summarize reports pass, or "not applicable", exactly for what a pass stands
\* for: one passing row with that value in every round, where the rotation puts
\* the mode, and no other, and finite statistics of its amounts; after any rows
\* whatever.
THEOREM PassesAreExact ==
  StatsSpec => []PassIsExact
<1>1. ASSUME StatsInv
      PROVE  PassIsExact
  <2>1. Mode \in Modes
    BY DEF Mode, Modes
  <2>2. /\ Summarize(obs, Mode, reps, allowNA, FALSE) = "pass"
              <=> MeasuredOnce(obs, reps, Mode, "number") /\ FiniteStatistics(obs, Mode)
        /\ MeasuredOnce(obs, reps, Mode, "number") /\ ~FiniteStatistics(obs, Mode)
              => Summarize(obs, Mode, reps, allowNA, FALSE) = "failed"
        /\ Summarize(obs, Mode, reps, allowNA, FALSE) = "not_applicable"
              <=> allowNA /\ MeasuredOnce(obs, reps, Mode, "null")
    BY <1>1, <2>1, PassMeansMeasured DEF StatsInv
  <2> QED BY <2>2 DEF PassIsExact, Status, ExactlyMeasured
<1> QED BY <1>1, StatsInvHolds, PTL

\* What make_schedule lays out, summarize accepts: no part of a schedule whose
\* trials pass is failed, the whole of it has a result for each mode, and
\* anywhere in it the modes are at most one measured trial apart.
THEOREM SchedulesAreAccepted ==
  StatsSpec => []ScheduleAccepted
<1>1. ASSUME StatsInv
      PROVE  ScheduleAccepted
  <2> SUFFICES ASSUME Len(obs) = done
               PROVE  /\ \A m \in Modes : Status(m) # "failed"
                      /\ done = ScheduleLength(reps, warmup) =>
                           \A m \in Modes : Status(m) \in {"pass", "not_applicable"}
                      /\ \A m, n \in Modes :
                           Cardinality(Attempted(obs, m)) <= Cardinality(Attempted(obs, n)) + 1
    BY DEF ScheduleAccepted
  <2>1. PICK v \in {"number", "null"} :
          (v = "null" => allowNA) /\ Scheduled(obs, done, reps, warmup, v)
    BY <1>1 DEF StatsInv
  <2>2. /\ reps \in Nat \ {0} /\ warmup \in Nat /\ allowNA \in BOOLEAN /\ done \in Nat
    BY <1>1 DEF StatsInv
  <2>3. \A m \in Modes :
          /\ ~Failed(obs, m, reps, allowNA) /\ FiniteStatistics(obs, m)
          /\ done = ScheduleLength(reps, warmup) => Cardinality(Attempted(obs, m)) = reps
    BY <2>1, <2>2, ScheduledVerdict
  <2>4. \A m, n \in Modes :
          Cardinality(Attempted(obs, m)) <= Cardinality(Attempted(obs, n)) + 1
    BY <2>1, <2>2, ModesAbreast
  <2>5. ASSUME NEW m \in Modes
        PROVE  /\ Status(m) # "failed"
               /\ Cardinality(Attempted(obs, m)) = reps =>
                    Status(m) \in {"pass", "not_applicable"}
    BY <2>3 DEF Status, Summarize
  <2> QED BY <2>3, <2>4, <2>5
<1> QED BY <1>1, StatsInvHolds, PTL

-----------------------------------------------------------------------------
(* The invariant of the probe. *)

Length == ScheduleLength(Reps, Warmup)

\* The steps of a request, of a setup and of the end of a case.
Answering == {"interfere", "prefix", "lookup", "restore", "import", "suffix", "continue",
              "compare"}
Setting == {"capture", "put"}
Concluding == {"summarize", "summary", "verdict"}
Over == {"catch", "closing", "done"}

\* What is recorded, and for which trial, at each step.
TurnOK ==
  /\ pc \in Answering \cup Setting \cup Concluding \cup Over \cup {"load", "rows", "next"}
  /\ turn \in -4 .. Length - 1 /\ recorded \in BOOLEAN
  /\ recorded => turn = -3 \/ turn >= 0
  /\ pc = "load" => turn = -4
  /\ pc \in Answering => (turn = -3 \/ turn >= 0) /\ ~recorded
  /\ pc \in Setting => turn \in {-2, -1}
  /\ pc = "rows" => recorded
  /\ pc = "next" => turn \in {-2, -1} \/ recorded
  /\ pc \in Concluding => turn = Length - 1 /\ recorded

\* What the context and the stores hold at each step.
ContextOK ==
  /\ ContextSound
  /\ store \in [Cached -> {"none", "A prefix"}]
  /\ pc \in {"suffix", "put"} => ctx = "A prefix"
  /\ pc \in {"lookup", "restore", "import"} => Current.mode \in Cached
  /\ pc \in {"restore", "import"} => store[Current.mode] = "A prefix"

\* The records: the golden request's, then the trials' in their order, and
\* perhaps the record of an error.
TrialOf(i) == IF i = 1 THEN Golden ELSE TrialAt(i - 1, Reps, Warmup)
Kept == IF turn = -4 \/ (turn = -3 /\ ~recorded) THEN 0
        ELSE IF turn < 0 THEN 1
        ELSE IF recorded THEN turn + 2 ELSE turn + 1

Records == [trial : {Golden, Setup} \cup {TrialAt(j, Reps, Warmup) : j \in 1 .. Length},
            status : {"reference", "pass", "fail", "error"}]

RecordsOK ==
  /\ records \in Seq(Records)
  /\ \/ Len(records) = Kept /\ (pc \in {"closing", "done"} => recorded)
     \/ /\ pc \in {"closing", "done"} /\ ~recorded /\ Len(records) = Kept + 1
        /\ records[Kept + 1] = [trial |-> Current, status |-> "error"]
  /\ \A i \in 1 .. Kept : records[i].trial = TrialOf(i)
  /\ Kept >= 1 => records[1].status = "reference"
  /\ \A i \in 2 .. Kept : i <= turn + 1 => records[i].status = "pass"

Statuses == {"none", "prepared", "reference", "pass", "fail", "error"}

\* What the current trial came to, and the rows written for those before.
ResultOK ==
  /\ pc = "rows" /\ turn >= 0 => status \in {"pass", "fail"} /\ records[Kept].status = status
  /\ pc \in {"next"} \cup Concluding /\ turn >= 0 => records[Kept].status = "pass"
  /\ status \in Statuses /\ results \in Seq(Statuses)
  /\ pc = "rows" => Len(results) = Kept - 1
  /\ pc \notin Over \cup {"rows"} => Len(results) = Kept

\* Every trial has passed.
Done ==
  /\ turn = Length - 1 /\ recorded /\ Len(records) = Length + 1
  /\ \A j \in 1 .. Length :
       records[j + 1] = [trial |-> TrialAt(j, Reps, Warmup), status |-> "pass"]

Rows == [mode : Modes, metric : {Metrics[j] : j \in DOMAIN Metrics},
         status : {"pass", "failed", "incomplete", "not_applicable"}]

MetadataRows ==
  {"model_parity=passed", "model_parity=failed", "model_parity=error",
   "benchmark_status=complete", "benchmark_status=failed",
   "physical_ssd_latency", "trace_replay", "error"}

\* What the tables say of the case.
TablesOK ==
  /\ summary \in Seq(Rows) /\ todo \in Seq(Rows) /\ metadata \in Seq(MetadataRows)
  /\ \A i \in DOMAIN summary : summary[i].status # "failed" => Done
  /\ \A i \in DOMAIN metadata : metadata[i] = "model_parity=passed" => Done
  /\ pc \notin {"summary", "verdict"} \cup Over => summary = <<>>
  /\ pc \notin {"verdict"} \cup Over => metadata = <<>>

\* What a case that ends with 0 has written.
VerdictOK ==
  /\ pc = "summary" => summary \o todo = SummaryRows(records, FALSE)
  /\ pc = "verdict" => /\ summary = SummaryRows(records, FALSE)
                       /\ Len(metadata) <= 4
                       /\ \A i \in DOMAIN metadata : metadata[i] = ClosingRows[i]
  /\ exit = "0" => /\ pc = "done" /\ Done /\ CompleteCase(records, FALSE)
                   /\ summary = SummaryRows(records, FALSE)
                   /\ Len(metadata) = 4
                   /\ \A i \in DOMAIN metadata : metadata[i] = ClosingRows[i]
                   /\ Len(results) = Length + 1

IInv == TurnOK /\ ContextOK /\ RecordsOK /\ ResultOK /\ TablesOK /\ VerdictOK

-----------------------------------------------------------------------------
(* Trials and records. *)

LEMMA LengthFacts ==
  Length \in Nat /\ Length >= 6 /\ Reps \in Nat /\ Warmup \in Nat
BY ProbeAssumption DEF Length, ScheduleLength

\* No two trials of the schedule are alike, and none is the golden request or
\* a setup.
LEMMA TrialsDiffer ==
  /\ Golden # Setup
  /\ \A j \in 1 .. Length :
       /\ TrialAt(j, Reps, Warmup) # Golden /\ TrialAt(j, Reps, Warmup) # Setup
       /\ TrialAt(j, Reps, Warmup).mode \in Modes
  /\ \A i, j \in 1 .. Length :
       TrialAt(i, Reps, Warmup) = TrialAt(j, Reps, Warmup) => i = j
<1>1. Golden.phase = "validation" /\ Setup.phase = "setup"
  BY DEF Golden, Setup
<1>2. ASSUME NEW j \in 1 .. Length
      PROVE  /\ TrialAt(j, Reps, Warmup).phase \in {"warmup", "measurement"}
             /\ TrialAt(j, Reps, Warmup).mode \in Modes
  <2>1. TrialAt(j, Reps, Warmup).phase \in {"warmup", "measurement"}
    BY DEF TrialAt
  <2>2. TrialAt(j, Reps, Warmup).mode \in Modes
    BY LengthFacts, TrialFacts DEF Length
  <2> QED BY <2>1, <2>2
<1>3. ASSUME NEW i \in 1 .. Length, NEW j \in 1 .. Length,
             TrialAt(i, Reps, Warmup) = TrialAt(j, Reps, Warmup)
      PROVE  i = j
  BY <1>3, LengthFacts, ModeOncePerRound DEF Length
<1> QED BY <1>1, <1>2, <1>3

\* The trial of each turn.
LEMMA CurrentFacts ==
  ASSUME TurnOK
  PROVE  /\ turn = -3 => Current = Golden
         /\ turn \in {-4, -2, -1} => Current = Setup
         /\ turn >= 0 => /\ turn + 1 \in 1 .. Length
                         /\ Current = TrialAt(turn + 1, Reps, Warmup)
         /\ turn = -3 \/ turn >= 0 => Current.mode \in Modes
         /\ Current \in {Golden, Setup} \cup {TrialAt(j, Reps, Warmup) : j \in 1 .. Length}
<1>1. turn \in Int /\ Length \in Nat /\ turn < Length /\ turn >= -4
  BY LengthFacts DEF TurnOK
<1>2. /\ turn = -3 => Current = Golden
      /\ turn \in {-4, -2, -1} => Current = Setup
      /\ turn >= 0 => Current = TrialAt(turn + 1, Reps, Warmup)
  BY <1>1 DEF Current, Trial
<1>3. turn >= 0 => turn + 1 \in 1 .. Length
  BY <1>1
<1>4. Golden.mode \in Modes
  BY DEF Golden, Modes
<1> QED BY <1>1, <1>2, <1>3, <1>4, TrialsDiffer

LEMMA KeptFacts ==
  ASSUME TurnOK
  PROVE  /\ Kept \in 0 .. Length + 1
         /\ ~recorded /\ turn >= 0 => Kept = turn + 1
         /\ recorded /\ turn >= 0 => Kept = turn + 2
BY LengthFacts DEF TurnOK, Kept

-----------------------------------------------------------------------------
(* Each part of the invariant is kept. *)

LEMMA InitInvariant ==
  Init => IInv
<1> SUFFICES ASSUME Init PROVE IInv
  OBVIOUS
<1> USE DEF Init
<1>1. TurnOK
  <2>1. turn \in -4 .. Length - 1
    BY LengthFacts
  <2>2. recorded \in BOOLEAN /\ ~recorded
    OBVIOUS
  <2> QED BY <2>1, <2>2 DEF TurnOK, Answering, Setting, Concluding, Over
<1>2. ContextOK
  BY DEF ContextOK, ContextSound, Cached
<1>3. Kept = 0
  BY DEF Kept
<1>4. RecordsOK /\ ResultOK
  <2>1. Len(records) = 0 /\ Len(results) = 0 /\ 1 .. Kept = {} /\ 2 .. Kept = {}
    BY <1>3
  <2>2. records \in Seq(Records) /\ results \in Seq(Statuses)
    OBVIOUS
  <2> QED BY <1>3, <2>1, <2>2 DEF RecordsOK, ResultOK, Statuses, Concluding, Over
<1>5. TablesOK /\ VerdictOK
  BY DEF TablesOK, VerdictOK, Over
<1> QED BY <1>1, <1>2, <1>4, <1>5 DEF IInv

LEMMA TurnKept ==
  ASSUME TurnOK, Next
  PROVE  TurnOK'
<1> USE DEF TurnOK, Answering, Setting, Concluding, Over, Goto, Throw, Escape
<1>1. Length \in Nat /\ Length >= 6
  BY LengthFacts
<1>2. Length' = Length
  BY DEF Length, ScheduleLength
<1>3. turn \in Int
  BY <1>1
<1>4. CASE LoadModel
  BY <1>1, <1>2, <1>4 DEF LoadModel
<1>5. CASE Interfere
  BY <1>1, <1>2, <1>5 DEF Interfere
<1>6. CASE DecodePrefix
  BY <1>1, <1>2, <1>6 DEF DecodePrefix
<1>7. CASE Lookup
  BY <1>1, <1>2, <1>7 DEF Lookup
<1>8. CASE ClearForImport
  BY <1>1, <1>2, <1>8 DEF ClearForImport
<1>9. CASE Import
  BY <1>1, <1>2, <1>9 DEF Import
<1>10. CASE DecodeSuffix
  BY <1>1, <1>2, <1>10 DEF DecodeSuffix
<1>11. CASE Continue
  BY <1>1, <1>2, <1>11 DEF Continue
<1>12. CASE Compare
  BY <1>1, <1>2, <1>12 DEF Compare
<1>13. CASE WriteRows
  BY <1>1, <1>2, <1>13 DEF WriteRows
<1>14. CASE OpenStoresFails
  BY <1>1, <1>2, <1>14 DEF OpenStoresFails
<1>15. CASE NextTurn
  <2>1. turn = -3 \/ turn = -2 \/ turn = -1 \/ turn >= 0
    BY <1>3, <1>15 DEF NextTurn
  <2>2. ScheduleLength(Reps, Warmup) = Length
    BY DEF Length
  <2>3. CASE turn < Length - 1
    <3>1. /\ turn' = turn + 1 /\ recorded' = FALSE
          /\ pc' = IF turn' < 0 THEN "capture" ELSE "interfere"
      BY <1>15, <2>2, <2>3 DEF NextTurn
    <3>2. /\ turn' \in -4 .. Length - 1
          /\ turn' < 0 => turn' \in {-2, -1}
      BY <1>1, <1>3, <2>1, <2>3, <3>1
    <3>3. turn' \in Int
      BY <1>3, <3>1
    <3>4. CASE turn' < 0
      BY <1>2, <3>1, <3>2, <3>4
    <3>5. CASE turn' >= 0
      BY <1>2, <3>1, <3>2, <3>5
    <3> QED BY <3>3, <3>4, <3>5
  <2>4. CASE ~(turn < Length - 1)
    <3>1. turn = Length - 1 /\ turn >= 0
      BY <1>1, <1>3, <2>4
    <3> QED BY <1>1, <1>2, <1>15, <2>2, <2>4, <3>1 DEF NextTurn
  <2> QED BY <2>3, <2>4
<1>16. CASE Capture
  BY <1>1, <1>2, <1>16 DEF Capture
<1>17. CASE PutSnapshot
  BY <1>1, <1>2, <1>17 DEF PutSnapshot
<1>18. CASE Summarise
  BY <1>1, <1>2, <1>18 DEF Summarise
<1>19. CASE WriteSummaryRow
  BY <1>1, <1>2, <1>19 DEF WriteSummaryRow
<1>20. CASE SummaryDone
  BY <1>1, <1>2, <1>20 DEF SummaryDone
<1>21. CASE WriteVerdict
  BY <1>1, <1>2, <1>21 DEF WriteVerdict
<1>22. CASE Catch
  BY <1>1, <1>2, <1>22 DEF Catch
<1>23. CASE WriteClosing
  BY <1>1, <1>2, <1>23 DEF WriteClosing
<1> QED BY <1>4, <1>5, <1>6, <1>7, <1>8, <1>9, <1>10, <1>11, <1>12, <1>13, <1>14, <1>15, <1>16,
           <1>17, <1>18, <1>19, <1>20, <1>21, <1>22, <1>23 DEF Next, Step

LEMMA ContextKept ==
  ASSUME TurnOK, ContextOK, Next
  PROVE  ContextOK'
<1> USE DEF ContextOK, ContextSound, Goto, Throw, Escape
<1>1. pc \in Answering => Current.mode \in Modes
  BY CurrentFacts DEF TurnOK
<1>2. Modes = Cached \cup {"recompute"}
  BY DEF Modes, Cached
<1>3. turn' = turn => Current' = Current
  BY DEF Current, Trial
<1>4. CASE LoadModel
  BY <1>4 DEF LoadModel
<1>5. CASE Interfere
  BY <1>1, <1>2, <1>3, <1>5 DEF Interfere, Answering
<1>6. CASE DecodePrefix
  BY <1>6 DEF DecodePrefix
<1>7. CASE Lookup
  BY <1>3, <1>7 DEF Lookup
<1>8. CASE ClearForImport
  BY <1>3, <1>8 DEF ClearForImport
<1>9. CASE Import
  BY <1>9 DEF Import, Behind
<1>10. CASE DecodeSuffix \/ Continue
  BY <1>10 DEF DecodeSuffix, Continue, Behind
<1>11. CASE Compare \/ WriteRows
  BY <1>11 DEF Compare, WriteRows, tables
<1>12. CASE NextTurn \/ OpenStoresFails
  BY <1>12 DEF NextTurn, OpenStoresFails
<1>13. CASE Capture
  BY <1>13 DEF Capture
<1>14. CASE PutSnapshot
  BY <1>14 DEF PutSnapshot, Cached
<1>15. CASE Summarise \/ WriteSummaryRow \/ SummaryDone \/ WriteVerdict
  BY <1>15 DEF Summarise, WriteSummaryRow, SummaryDone, WriteVerdict
<1>16. CASE Catch \/ WriteClosing
  BY <1>16 DEF Catch, WriteClosing
<1> QED BY <1>4, <1>5, <1>6, <1>7, <1>8, <1>9, <1>10, <1>11, <1>12, <1>13, <1>14, <1>15,
           <1>16 DEF Next, Step

-----------------------------------------------------------------------------
(* Records and results. *)

\* The steps that record nothing and stay with the trial.
Quiet ==
  /\ UNCHANGED <<turn, recorded, records, results>>
  /\ status' \in {status, "prepared", "error"}
  /\ pc' # "rows"
  /\ pc \in {"closing", "done"} => pc' \in {"closing", "done"}
  /\ pc' \in {"closing", "done"} => pc \in {"closing", "done"} \/ recorded
  /\ pc' \notin Over => pc \notin Over \cup {"rows"}
  /\ pc' \in {"next"} \cup Concluding => turn < 0 \/ pc \in {"next"} \cup Concluding

\* run goes on with the next trial.
Advance ==
  /\ pc = "next" /\ turn < Length - 1
  /\ turn' = turn + 1 /\ ~recorded' /\ status' = "none"
  /\ pc' \in {"capture", "interfere"}
  /\ UNCHANGED <<records, results>>

LEMMA RecordingCases ==
  ASSUME TurnOK, Next
  PROVE  \/ Quiet \/ Advance \/ LoadModel
         \/ Compare \/ WriteRows \/ (Catch /\ ~recorded)
<1> USE DEF Quiet, Setting, Concluding, Over, Goto, Throw, Escape, tables
<1>1. CASE Interfere \/ DecodePrefix \/ Lookup
  BY <1>1 DEF Interfere, DecodePrefix, Lookup
<1>2. CASE ClearForImport \/ Import \/ DecodeSuffix
  BY <1>2 DEF ClearForImport, Import, DecodeSuffix
<1>3. CASE Continue \/ OpenStoresFails \/ Capture
  BY <1>3 DEF Continue, OpenStoresFails, Capture
<1>4. CASE PutSnapshot
  <2>1. turn < 0
    BY <1>4 DEF TurnOK, PutSnapshot
  <2> QED BY <1>4, <2>1 DEF PutSnapshot
<1>5. CASE Summarise \/ WriteSummaryRow \/ SummaryDone
  BY <1>5 DEF Summarise, WriteSummaryRow, SummaryDone
<1>6. CASE WriteVerdict \/ WriteClosing
  BY <1>6 DEF WriteVerdict, WriteClosing, TurnOK
<1>7. CASE NextTurn
  <2>1. ScheduleLength(Reps, Warmup) = Length
    BY DEF Length
  <2>2. CASE turn < Length - 1
    BY <1>7, <2>1, <2>2 DEF NextTurn, Advance
  <2>3. CASE ~(turn < Length - 1)
    BY <1>7, <2>1, <2>3 DEF NextTurn
  <2> QED BY <2>2, <2>3
<1>8. CASE Catch /\ recorded
  BY <1>8 DEF Catch
<1> QED BY <1>1, <1>2, <1>3, <1>4, <1>5, <1>6, <1>7, <1>8 DEF Next, Step, TurnOK

\* One more record, of the current trial.
LEMMA OneMore ==
  ASSUME TurnOK, RecordsOK, ~recorded, pc \notin {"closing", "done"},
         NEW s \in {"reference", "pass", "fail", "error"}, records' = Record(s)
  PROVE  /\ records' \in Seq(Records) /\ Len(records') = Kept + 1
         /\ records'[Kept + 1] = [trial |-> Current, status |-> s]
         /\ \A i \in 1 .. Kept : records'[i] = records[i]
<1>1. [trial |-> Current, status |-> s] \in Records
  BY CurrentFacts DEF Records
<1>2. records \in Seq(Records) /\ Len(records) = Kept
  BY DEF RecordsOK
<1>3. records' = Append(records, [trial |-> Current, status |-> s])
  BY DEF Record
<1> HIDE DEF Records
<1>4. /\ records' \in Seq(Records) /\ Len(records') = Len(records) + 1
      /\ records'[Len(records) + 1] = [trial |-> Current, status |-> s]
      /\ \A i \in 1 .. Len(records) : records'[i] = records[i]
  BY ONLY <1>1, <1>2, <1>3, AppendProperties
<1> QED BY <1>2, <1>4

LEMMA RecordsKept ==
  ASSUME TurnOK, RecordsOK, ResultOK, Next
  PROVE  RecordsOK' /\ ResultOK'
<1>1. TurnOK'
  BY TurnKept
<1>2. /\ turn \in Int /\ Length \in Nat /\ Kept \in Nat /\ Kept <= Length + 1
  BY LengthFacts, KeptFacts DEF TurnOK
<1>3. turn' = turn => Current' = Current
  BY DEF Current, Trial
<1>4. turn' = turn /\ recorded' = recorded => Kept' = Kept
  BY DEF Kept
<1>5. \A i : TrialOf(i)' = TrialOf(i)
  BY DEF TrialOf, Golden, TrialAt, ModeAt
<1>6. Records' = Records
  BY DEF Records, Golden, Setup, TrialAt, ModeAt, Length, ScheduleLength
<1> HIDE DEF Records, TrialOf, Kept, Current
<1>7. CASE Quiet
  <2>1. RecordsOK'
    BY <1>3, <1>4, <1>5, <1>6, <1>7 DEF RecordsOK, Quiet
  <2>2. ResultOK'
    <3>1. pc' \in {"next"} \cup Concluding /\ turn' >= 0 => records'[Kept'].status = "pass"
      BY <1>2, <1>4, <1>7 DEF ResultOK, Quiet
    <3> QED BY <1>4, <1>7, <3>1 DEF ResultOK, Statuses, Quiet
  <2> QED BY <2>1, <2>2
<1>8. CASE Advance
  <2>1. /\ pc = "next" /\ turn < Length - 1 /\ turn' = turn + 1 /\ ~recorded'
        /\ pc' \in {"capture", "interfere"} /\ records' = records /\ results' = results
        /\ status' = "none"
    BY <1>8 DEF Advance
  <2>2. turn \in {-3, -2, -1} \/ turn >= 0
    BY <2>1 DEF TurnOK
  <2>3. Kept' = Kept
    BY <1>2, <2>1, <2>2 DEF Kept, TurnOK
  <2>4. turn >= 0 => Kept = turn + 2 /\ records[Kept].status = "pass"
    BY <2>1, KeptFacts DEF ResultOK, TurnOK
  <2>5. \A i \in 2 .. Kept : i <= turn' + 1 => records[i].status = "pass"
    <3>1. CASE turn >= 0
      <4>1. \A i \in 2 .. Kept : i <= turn + 1 \/ i = Kept
        BY <1>2, <2>4, <3>1
      <4> QED BY <2>4, <3>1, <4>1 DEF RecordsOK
    <3>2. CASE turn < 0
      <4>1. \A i \in 2 .. Kept : ~(i <= turn' + 1)
        BY <1>2, <2>1, <3>2
      <4> QED BY <4>1
    <3> QED BY <1>2, <3>1, <3>2
  <2>6. RecordsOK'
    <3>1. Len(records) = Kept
      BY <2>1 DEF RecordsOK
    <3> QED BY <1>5, <1>6, <2>1, <2>3, <2>5, <3>1 DEF RecordsOK
  <2>7. ResultOK'
    <3>1. Len(results) = Kept
      BY <2>1 DEF ResultOK, Statuses, Over
    <3> QED BY <2>1, <2>3, <3>1 DEF ResultOK, Statuses, Concluding, Over
  <2> QED BY <2>6, <2>7
<1>9. CASE LoadModel
  <2>1. /\ pc = "load" /\ records' = records /\ results' = results /\ recorded' = recorded
        /\ status' = status
        /\ \/ turn' = -3 /\ pc' = "interfere"
           \/ turn' = turn /\ pc' = "catch"
    BY <1>9 DEF LoadModel, Goto, Throw, tables
  <2>2. turn = -4 /\ ~recorded /\ Kept = 0
    BY <2>1 DEF TurnOK, Kept
  <2>3. Kept' = 0
    BY <2>1, <2>2 DEF Kept
  <2>4. Len(records) = 0 /\ Len(results) = 0 /\ 1 .. 0 = {} /\ 2 .. 0 = {}
    BY <2>1, <2>2 DEF RecordsOK, ResultOK, Over
  <2>5. RecordsOK'
    BY <1>6, <2>1, <2>3, <2>4 DEF RecordsOK
  <2>6. ResultOK'
    BY <2>1, <2>3, <2>4 DEF ResultOK, Statuses, Concluding, Over
  <2> QED BY <2>5, <2>6
<1>10. CASE Compare /\ pc' = "catch"
  <2>1. Quiet
    BY <1>10 DEF Compare, Quiet, Concluding, Over, Goto, Throw, TurnOK, Answering
  <2> QED BY <1>7, <2>1
<1>11. CASE Compare /\ pc' # "catch"
  <2>1. PICK s \in IF turn = -3 THEN {"reference"} ELSE {"pass", "fail"} :
          /\ status' = s /\ records' = Record(s) /\ recorded' = TRUE /\ pc' = "rows"
    BY <1>11 DEF Compare, Goto, Throw
  <2>2. /\ pc = "compare" /\ turn' = turn /\ results' = results
        /\ ~recorded /\ (turn = -3 \/ turn >= 0)
    BY <1>11 DEF Compare, TurnOK, Answering
  <2>3. /\ records' \in Seq(Records) /\ Len(records') = Kept + 1
        /\ records'[Kept + 1] = [trial |-> Current, status |-> s]
        /\ \A i \in 1 .. Kept : records'[i] = records[i]
    BY <2>1, <2>2, OneMore
  <2>4. Kept' = Kept + 1 /\ (turn >= 0 => Kept = turn + 1) /\ (turn = -3 => Kept = 0)
    BY <1>2, <2>1, <2>2 DEF Kept
  <2>5. Current = TrialOf(Kept + 1)
    <3>1. CASE turn = -3
      BY <2>4, <3>1, CurrentFacts DEF TrialOf
    <3>2. CASE turn >= 0
      <4>1. Kept + 1 # 1 /\ (Kept + 1) - 1 = turn + 1
        BY <1>2, <2>4, <3>2
      <4> QED BY <3>2, <4>1, CurrentFacts DEF TrialOf
    <3> QED BY <2>2, <3>1, <3>2
  <2>6. ASSUME NEW i \in 1 .. Kept + 1
        PROVE  records'[i].trial = TrialOf(i)
    <3>1. i \in 1 .. Kept \/ i = Kept + 1
      BY <1>2
    <3> QED BY <2>3, <2>5, <3>1 DEF RecordsOK
  <2>7. ASSUME NEW i \in 2 .. Kept + 1, i <= turn + 1
        PROVE  records'[i].status = "pass"
    <3>1. i \in 2 .. Kept
      BY <1>2, <2>2, <2>4, <2>7
    <3> QED BY <1>2, <2>3, <2>7, <3>1 DEF RecordsOK
  <2>14. records'[1].status = "reference"
    <3>1. CASE turn = -3
      BY <1>2, <2>1, <2>3, <2>4, <3>1
    <3>2. CASE turn >= 0
      <4>1. Kept >= 1 /\ 1 \in 1 .. Kept
        BY <1>2, <2>4, <3>2
      <4> QED BY <2>3, <4>1 DEF RecordsOK
    <3> QED BY <2>2, <3>1, <3>2
  <2>8. RecordsOK'
    BY <1>5, <1>6, <2>1, <2>2, <2>3, <2>4, <2>6, <2>7, <2>14 DEF RecordsOK
  <2>9. turn >= 0 => s \in {"pass", "fail"}
    BY <1>2, <2>1
  <2>10. Len(results) = Kept /\ results \in Seq(Statuses)
    BY <2>2 DEF ResultOK, Statuses, Over
  <2>11. records'[Kept'].status = s
    BY <2>3, <2>4
  <2>12. Len(results') = Kept' - 1
    BY <1>2, <2>2, <2>4, <2>10
  <2>13. s \in Statuses /\ pc' \notin {"next"} \cup Concluding /\ pc' \notin Over
    BY <2>1 DEF Statuses, Concluding, Over
  <2> QED BY <2>1, <2>2, <2>8, <2>9, <2>10, <2>11, <2>12, <2>13 DEF ResultOK
<1>12. CASE WriteRows
  <2>1. /\ pc = "rows" /\ turn' = turn /\ recorded' = recorded /\ records' = records
        /\ results' \in {results, Append(results, status)}
        /\ pc' \in {"next", "catch"}
        /\ pc' = "next" => results' = Append(results, status) /\ status # "fail"
    BY <1>12 DEF WriteRows, Goto, Throw
  <2>2. RecordsOK'
    BY <1>3, <1>4, <1>5, <1>6, <2>1 DEF RecordsOK
  <2>3. results \in Seq(Statuses) /\ Len(results) = Kept - 1
    BY <2>1 DEF ResultOK
  <2>4. CASE pc' = "catch"
    <3>1. status' = status /\ status \in Statuses
      BY <1>12 DEF ResultOK, WriteRows
    <3>2. results' = results \/ results' = Append(results, status)
      BY <2>1
    <3>3. results' \in Seq(Statuses)
      BY ONLY <2>3, <3>1, <3>2, AppendProperties
    <3>4. pc' \notin {"rows", "next"} \cup Concluding /\ pc' \in Over
      BY <2>4 DEF Concluding, Over
    <3>5. ResultOK'
      BY <3>1, <3>3, <3>4 DEF ResultOK, Statuses, Concluding, Over
    <3> QED BY <2>2, <3>5
  <2>5. CASE pc' = "next"
    <3>0. status' = status /\ status \in Statuses
      BY <1>12 DEF ResultOK, WriteRows
    <3>1. results' \in Seq(Statuses) /\ Len(results') = Kept
      <4>1. results' = Append(results, status)
        BY <2>1, <2>5
      <4>2. results' \in Seq(Statuses) /\ Len(results') = Len(results) + 1
        BY ONLY <2>3, <3>0, <4>1, AppendProperties
      <4> QED BY <1>2, <2>3, <4>2
    <3>2. turn >= 0 => status = "pass" /\ records[Kept].status = status
      BY <2>1, <2>5 DEF ResultOK
    <3>3. Kept' = Kept /\ pc' # "rows"
      BY <1>4, <2>1, <2>5
    <3>4. ResultOK'
      BY <2>1, <3>0, <3>1, <3>2, <3>3 DEF ResultOK, Statuses, Concluding, Over
    <3> QED BY <2>2, <3>4
  <2> QED BY <2>1, <2>2, <2>4, <2>5
<1>13. CASE Catch /\ ~recorded
  <2>1. /\ pc = "catch" /\ turn' = turn /\ recorded' = recorded
        /\ records' = Record("error") /\ pc' \in {"closing", "done"}
        /\ results' \in {results, Append(results, "error")}
    BY <1>13 DEF Catch, Goto, Escape
  <2>2. /\ records' \in Seq(Records) /\ Len(records') = Kept + 1
        /\ records'[Kept + 1] = [trial |-> Current, status |-> "error"]
        /\ \A i \in 1 .. Kept : records'[i] = records[i]
    BY <1>13, <2>1, OneMore
  <2>3. RecordsOK'
    <3>1. Kept' = Kept /\ Current' = Current /\ ~recorded'
      BY <1>3, <1>4, <1>13, <2>1
    <3>2. \A i \in 2 .. Kept : i \in 1 .. Kept
      BY <1>2
    <3> QED BY <1>5, <1>6, <2>1, <2>2, <3>1, <3>2 DEF RecordsOK
  <2>4. results' \in Seq(Statuses) /\ status' = "error"
    BY <1>13, <2>1, AppendProperties DEF ResultOK, Statuses, Catch
  <2> QED BY <2>1, <2>3, <2>4 DEF ResultOK, Statuses, Concluding, Over
<1> QED BY <1>7, <1>8, <1>9, <1>10, <1>11, <1>12, <1>13, RecordingCases

-----------------------------------------------------------------------------
(* The tables at the end of a case. *)

LEMMA ConcludingIsDone ==
  ASSUME TurnOK, RecordsOK, ResultOK, pc \in Concluding
  PROVE  Done
<1>1. /\ turn = Length - 1 /\ recorded /\ turn \in Nat
      /\ Length \in Nat /\ Kept = Length + 1
  BY LengthFacts, KeptFacts DEF TurnOK
<1>2. pc \notin {"closing", "done"}
  BY DEF Concluding
<1>3. /\ records \in Seq(Records) /\ Len(records) = Length + 1
      /\ records[Length + 1].status = "pass"
  BY <1>1, <1>2 DEF RecordsOK, ResultOK
<1>4. ASSUME NEW j \in 1 .. Length
      PROVE  records[j + 1] = [trial |-> TrialAt(j, Reps, Warmup), status |-> "pass"]
  <2>1. j + 1 \in 1 .. Length + 1 /\ j + 1 # 1 /\ (j + 1) - 1 = j
    BY <1>1
  <2>2. records[j + 1].trial = TrialAt(j, Reps, Warmup)
    BY <1>1, <2>1 DEF RecordsOK, TrialOf
  <2>3. j = Length \/ (j + 1 \in 2 .. Kept /\ j + 1 <= turn + 1)
    BY <1>1
  <2>4. records[j + 1].status = "pass"
    BY <1>3, <2>3 DEF RecordsOK
  <2>5. records[j + 1] \in Records
    BY <1>3, <2>1, ElementOfSeq
  <2> QED BY <2>2, <2>4, <2>5 DEF Records
<1> QED BY <1>1, <1>3, <1>4 DEF Done

LEMMA DoneStays ==
  ASSUME TurnOK, Done, Next
  PROVE  Done' /\ records' = records
<1>1. turn = Length - 1 /\ recorded /\ turn \in Nat
  BY LengthFacts DEF Done
<1>2. Quiet \/ WriteRows
  <2>1. ~Advance
    BY <1>1 DEF Advance
  <2>2. turn # -4
    BY <1>1
  <2>3. ~LoadModel
    BY <2>2 DEF LoadModel, TurnOK
  <2>4. ~Compare
    BY <1>1 DEF Compare, TurnOK, Answering
  <2> QED BY <1>1, <2>1, <2>3, <2>4, RecordingCases
<1>3. UNCHANGED <<turn, recorded, records>>
  BY <1>2 DEF Quiet, WriteRows
<1>4. \A j : TrialAt(j, Reps, Warmup)' = TrialAt(j, Reps, Warmup)
  BY DEF TrialAt, ModeAt
<1>5. Length' = Length
  BY DEF Length, ScheduleLength
<1> QED BY <1>3, <1>4, <1>5 DEF Done

\* Each trial of the schedule has one record, a passed one.
LEMMA DoneIsAllPassed ==
  ASSUME TurnOK, RecordsOK, Done
  PROVE  AllPassed
<1> SUFFICES ASSUME NEW j \in 1 .. Length
             PROVE  Cardinality({i \in DOMAIN records :
                      records[i] = [trial |-> TrialAt(j, Reps, Warmup), status |-> "pass"]}) = 1
  BY DEF AllPassed, Length
<1> DEFINE passed == [trial |-> TrialAt(j, Reps, Warmup), status |-> "pass"]
           S == {i \in DOMAIN records : records[i] = passed}
<1>1. /\ turn = Length - 1 /\ recorded /\ turn \in Nat /\ Length \in Nat /\ Kept = Length + 1
      /\ records \in Seq(Records) /\ Len(records) = Length + 1
  BY LengthFacts, KeptFacts DEF Done, RecordsOK
<1>2. DOMAIN records = 1 .. Length + 1
  BY <1>1
<1>3. j + 1 \in S
  BY <1>1, <1>2 DEF Done
<1>4. ASSUME NEW i \in S
      PROVE  i = j + 1
  <2>1. i \in 1 .. Length + 1 /\ records[i].trial = TrialAt(j, Reps, Warmup)
    BY <1>2
  <2>2. records[i].trial = TrialOf(i)
    BY <1>1, <2>1 DEF RecordsOK
  <2>3. i # 1
    BY <2>1, <2>2, TrialsDiffer DEF TrialOf
  <2>4. i - 1 \in 1 .. Length /\ TrialAt(i - 1, Reps, Warmup) = TrialAt(j, Reps, Warmup)
    BY <1>1, <2>1, <2>2, <2>3 DEF TrialOf
  <2>5. i - 1 = j
    BY <2>4, TrialsDiffer
  <2> QED BY <2>1, <2>5
<1>5. S = {j + 1}
  BY <1>3, <1>4
<1> QED BY <1>5, FS_Singleton

\* The rows of write_summaries: of every mode and metric, all failed if one is.
LEMMA SummaryFacts ==
  ASSUME NEW recs, NEW force \in BOOLEAN
  PROVE  /\ SummaryRows(recs, force) \in Seq(Rows)
         /\ Len(SummaryRows(recs, force)) = 3 * Len(Metrics)
         /\ DOMAIN SummaryRows(recs, force) = 1 .. 3 * Len(Metrics)
         /\ \A i \in 1 .. 3 * Len(Metrics) :
              /\ force => SummaryRows(recs, force)[i].status = "failed"
              /\ CompleteCase(recs, force) =>
                   SummaryRows(recs, force)[i].status \in {"pass", "not_applicable"}
<1> DEFINE n == Len(Metrics)
           mode(i) == ModeAt((i - 1) \div n)
           metric(i) == Metrics[((i - 1) % n) + 1]
           outcome(i) == IF CompleteCase(recs, force)
                         THEN Verdict(recs, mode(i), metric(i), force) ELSE "failed"
           rows == [i \in 1 .. 3 * n |->
                      [mode |-> mode(i), metric |-> metric(i), status |-> outcome(i)]]
<1>1. n \in Nat /\ DOMAIN Metrics = 1 .. n
  BY ProbeAssumption
<1>2. ASSUME NEW i \in 1 .. 3 * n
      PROVE  /\ mode(i) \in Modes /\ metric(i) \in {Metrics[j] : j \in DOMAIN Metrics}
             /\ ((i - 1) % n) + 1 \in DOMAIN Metrics
  <2>1. n \in Nat \ {0} /\ i - 1 \in Nat
    BY <1>1
  <2>2. \A a \in Nat, b \in Nat \ {0} : a % b \in 0 .. b - 1
    OBVIOUS
  <2>3. ((i - 1) % n) + 1 \in DOMAIN Metrics
    <3>1. (i - 1) % n \in 0 .. n - 1
      BY ONLY <2>1, <2>2
    <3> HIDE DEF n
    <3> QED BY <1>1, <3>1
  <2>4. mode(i) \in Modes
    BY DEF ModeAt, Modes
  <2> QED BY <2>3, <2>4
<1>3. \A m, x : Verdict(recs, m, x, force) \in {"pass", "failed", "incomplete", "not_applicable"}
  BY DEF Verdict, Summarize
<1>4. \A i \in 1 .. 3 * n : outcome(i) \in {"pass", "failed", "incomplete", "not_applicable"}
  BY <1>3
<1>5. force => ~CompleteCase(recs, force)
  BY DEF CompleteCase
<1>6. ASSUME CompleteCase(recs, force), NEW i \in 1 .. 3 * n
      PROVE  outcome(i) \in {"pass", "not_applicable"}
  BY <1>2, <1>6 DEF CompleteCase
<1>7. SummaryRows(recs, force) = rows
  BY DEF SummaryRows
<1>8. DOMAIN rows = 1 .. 3 * n /\ \A i \in 1 .. 3 * n : rows[i].status = outcome(i)
  OBVIOUS
<1>9. \A i \in 1 .. 3 * n : rows[i] \in Rows
  BY <1>2, <1>4 DEF Rows
<1>10. \A i \in 1 .. 3 * n : force => outcome(i) = "failed"
  BY <1>5
<1> HIDE DEF rows, outcome
<1>11. 3 * n \in Nat
  BY <1>1
<1>12. rows \in [1 .. 3 * n -> Rows]
  <2>1. rows = [i \in 1 .. 3 * n |-> rows[i]]
    BY <1>8 DEF rows
  <2> QED BY <1>8, <1>9, <2>1
<1>13. rows \in Seq(Rows) /\ Len(rows) = 3 * n
  BY <1>8, <1>11, <1>12, IsASeq, LenProperties
<1> QED BY <1>6, <1>7, <1>8, <1>10, <1>13

\* The steps before the end of a case leave its tables alone.
Before ==
  /\ pc \notin {"summary", "verdict"} \cup Over
  /\ pc' \notin {"summary", "verdict", "closing", "done"}
  /\ UNCHANGED <<summary, todo, metadata, exit>>

LEMMA ClosingCases ==
  ASSUME Next
  PROVE  \/ Before \/ Summarise \/ WriteSummaryRow \/ SummaryDone
         \/ WriteVerdict \/ Catch \/ WriteClosing
<1> USE DEF Before, Over, Goto, Throw, tables
<1>1. CASE LoadModel \/ Interfere \/ DecodePrefix
  BY <1>1 DEF LoadModel, Interfere, DecodePrefix
<1>2. CASE Lookup \/ ClearForImport \/ Import
  BY <1>2 DEF Lookup, ClearForImport, Import
<1>3. CASE DecodeSuffix \/ Continue \/ Compare
  BY <1>3 DEF DecodeSuffix, Continue, Compare
<1>4. CASE WriteRows \/ NextTurn \/ OpenStoresFails
  BY <1>4 DEF WriteRows, NextTurn, OpenStoresFails
<1>5. CASE Capture \/ PutSnapshot
  BY <1>5 DEF Capture, PutSnapshot
<1> QED BY <1>1, <1>2, <1>3, <1>4, <1>5 DEF Next, Step

\* Moving the first of what is left behind what is there loses nothing.
LEMMA MoveFirst ==
  ASSUME NEW S, NEW s \in Seq(S), NEW t \in Seq(S), t # <<>>
  PROVE  /\ Head(t) \in S /\ Tail(t) \in Seq(S) /\ Append(s, Head(t)) \in Seq(S)
         /\ Append(s, Head(t)) \o Tail(t) = s \o t
<1>1. t = <<Head(t)>> \o Tail(t) /\ Head(t) \in S /\ Tail(t) \in Seq(S)
  OBVIOUS
<1>2. Append(s, Head(t)) = s \o <<Head(t)>> /\ <<Head(t)>> \in Seq(S)
  BY <1>1
<1>3. (s \o <<Head(t)>>) \o Tail(t) = s \o (<<Head(t)>> \o Tail(t))
  BY ONLY <1>1, <1>2, ConcatAssociative
<1> QED BY <1>1, <1>2, <1>3

\* What stands first in a sequence.
LEMMA FirstOf ==
  ASSUME NEW S, NEW s \in Seq(S), NEW n \in 0 .. Len(s)
  PROVE  /\ SubSeq(s, 1, n) \in Seq(S) /\ Len(SubSeq(s, 1, n)) = n
         /\ \A i \in 1 .. n : SubSeq(s, 1, n)[i] = s[i]
<1>1. Len(s) \in Nat /\ n \in Int /\ n >= 0 /\ n <= Len(s)
  BY LenProperties
<1>2. \A i \in 1 .. n : s[i] \in S
  BY <1>1, ElementOfSeq
<1>3. /\ SubSeq(s, 1, n) \in Seq(S)
      /\ Len(SubSeq(s, 1, n)) = IF 1 <= n THEN n - 1 + 1 ELSE 0
      /\ \A i \in 1 .. n - 1 + 1 : SubSeq(s, 1, n)[i] = s[1 + i - 1]
  BY ONLY <1>1, <1>2, SubSeqProperties
<1>4. n - 1 + 1 = n /\ \A i \in 1 .. n : 1 + i - 1 = i
  BY <1>1
<1> QED BY <1>1, <1>3, <1>4

LEMMA TablesKept ==
  ASSUME IInv, Next
  PROVE  TablesOK' /\ VerdictOK'
<1>1. TurnOK /\ RecordsOK /\ ResultOK /\ TablesOK /\ VerdictOK
  BY DEF IInv
<1>2. Done => Done' /\ records' = records
  BY <1>1, DoneStays
<1>3. pc \in Concluding => Done
  BY <1>1, ConcludingIsDone
<1>4. pc # "done"
  BY DEF Next, Step, LoadModel, Interfere, DecodePrefix, Lookup, ClearForImport, Import,
         DecodeSuffix, Continue, Compare, WriteRows, NextTurn, OpenStoresFails, Capture,
         PutSnapshot, Summarise, WriteSummaryRow, SummaryDone, WriteVerdict, Catch, WriteClosing
<1>5. exit # "0"
  BY <1>1, <1>4 DEF VerdictOK
<1>6. summary \in Seq(Rows) /\ todo \in Seq(Rows) /\ metadata \in Seq(MetadataRows)
  BY <1>1 DEF TablesOK
<1> HIDE DEF Rows, MetadataRows
<1>7. CASE Before
  <2>1. TablesOK'
    BY <1>1, <1>2, <1>7 DEF TablesOK, Before, Over
  <2> QED BY <1>5, <1>7, <2>1 DEF VerdictOK, Before
<1>8. CASE Summarise
  <2>1. /\ pc = "summarize" /\ pc' = "summary" /\ todo' = SummaryRows(records, FALSE)
        /\ UNCHANGED <<records, summary, metadata, exit>>
    BY <1>8 DEF Summarise, Goto
  <2>2. summary = <<>> /\ metadata = <<>> /\ DOMAIN summary = {} /\ DOMAIN metadata = {}
    BY <1>1, <2>1 DEF TablesOK, Over
  <2>3. todo' \in Seq(Rows)
    BY <2>1, SummaryFacts
  <2>4. summary' \o todo' = SummaryRows(records', FALSE)
    BY <2>1, <2>2, <2>3, ConcatEmptySeq
  <2>5. TablesOK'
    BY <1>6, <2>1, <2>2, <2>3 DEF TablesOK, Over
  <2>6. VerdictOK'
    BY <1>5, <2>1, <2>4 DEF VerdictOK
  <2> QED BY <2>5, <2>6
<1>9. CASE WriteSummaryRow
  <2>1. /\ pc = "summary" /\ todo # <<>> /\ UNCHANGED <<records, metadata, exit>>
        /\ \/ /\ summary' = Append(summary, Head(todo))
              /\ todo' = Tail(todo) /\ pc' = "summary"
           \/ /\ summary' \in {summary, Append(summary, Head(todo))}
              /\ todo' = <<>> /\ pc' = "catch"
    BY <1>9 DEF WriteSummaryRow, Goto, Throw
  <2>2. Done /\ Done'
    BY <1>2, <1>3, <2>1 DEF Concluding
  <2>3. /\ Head(todo) \in Rows /\ Tail(todo) \in Seq(Rows)
        /\ Append(summary, Head(todo)) \in Seq(Rows)
        /\ Append(summary, Head(todo)) \o Tail(todo) = summary \o todo
    BY <1>6, <2>1, MoveFirst
  <2>4. summary' \in Seq(Rows) /\ todo' \in Seq(Rows) /\ metadata' \in Seq(MetadataRows)
    <3>1. summary' \in {summary, Append(summary, Head(todo))} /\ todo' \in {Tail(todo), <<>>}
      BY <2>1
    <3>2. <<>> \in Seq(Rows)
      OBVIOUS
    <3> QED BY ONLY <1>6, <2>1, <2>3, <3>1, <3>2
  <2>5. TablesOK'
    BY <1>1, <2>1, <2>2, <2>4 DEF TablesOK, Over
  <2>6. pc' = "summary" => summary' \o todo' = SummaryRows(records', FALSE)
    BY <1>1, <2>1, <2>3 DEF VerdictOK
  <2>7. VerdictOK'
    BY <1>5, <2>1, <2>6 DEF VerdictOK
  <2> QED BY <2>5, <2>7
<1>10. CASE SummaryDone
  <2>1. /\ pc = "summary" /\ todo = <<>> /\ pc' = "verdict"
        /\ UNCHANGED <<records, summary, todo, metadata, exit>>
    BY <1>10 DEF SummaryDone, Goto
  <2>2. metadata = <<>> /\ Len(metadata) = 0 /\ DOMAIN metadata = {}
    BY <1>1, <2>1 DEF TablesOK, Over
  <2>3. summary = SummaryRows(records, FALSE)
    BY <1>1, <1>6, <2>1, ConcatEmptySeq DEF VerdictOK
  <2>4. Done'
    BY <1>2, <1>3, <2>1 DEF Concluding
  <2>5. TablesOK'
    BY <1>1, <1>6, <2>1, <2>4 DEF TablesOK, Over
  <2>6. VerdictOK'
    BY <1>5, <2>1, <2>2, <2>3 DEF VerdictOK
  <2> QED BY <2>5, <2>6
<1>11. CASE WriteVerdict
  <2>1. /\ pc = "verdict" /\ UNCHANGED <<records, results, summary, todo>>
    BY <1>11 DEF WriteVerdict
  <2>2. Done /\ Done' /\ turn = Length - 1 /\ recorded
    BY <1>1, <1>2, <1>3, <2>1 DEF Concluding, Done
  <2>3. /\ ClosingRows \in Seq(MetadataRows) /\ Len(ClosingRows) = 4
    <3>1. CASE CompleteCase(records, FALSE)
      BY <3>1 DEF ClosingRows, MetadataRows
    <3>2. CASE ~CompleteCase(records, FALSE)
      BY <3>2 DEF ClosingRows, MetadataRows
    <3> QED BY <3>1, <3>2
  <2>4. ClosingRows' = ClosingRows
    BY <2>1 DEF ClosingRows
  <2>5. /\ summary = SummaryRows(records, FALSE) /\ Len(metadata) \in 0 .. 4
        /\ DOMAIN metadata = 1 .. Len(metadata)
        /\ \A i \in DOMAIN metadata : metadata[i] = ClosingRows[i]
    <3>1. /\ summary = SummaryRows(records, FALSE) /\ Len(metadata) <= 4
          /\ \A i \in DOMAIN metadata : metadata[i] = ClosingRows[i]
      BY <1>1, <2>1 DEF VerdictOK
    <3>2. Len(metadata) \in Nat /\ DOMAIN metadata = 1 .. Len(metadata)
      BY <1>6, LenProperties
    <3> QED BY <3>1, <3>2
  <2> DEFINE row == ClosingRows[Len(metadata) + 1]
  <2>6. CASE Len(metadata) < 4
    <3>1. /\ exit' = exit
          /\ \/ metadata' = Append(metadata, row) /\ pc' = "verdict"
             \/ metadata' \in {metadata, Append(metadata, row)} /\ pc' = "catch"
      BY <1>11, <2>3, <2>6 DEF WriteVerdict, Goto, Throw
    <3>2. Len(metadata) + 1 \in 1 .. 4
      BY <2>5, <2>6
    <3>3. row \in MetadataRows
      BY <2>3, <3>2, ElementOfSeq
    <3>4. /\ Append(metadata, row) \in Seq(MetadataRows)
          /\ Len(Append(metadata, row)) = Len(metadata) + 1
          /\ DOMAIN Append(metadata, row) = 1 .. Len(metadata) + 1
          /\ \A i \in 1 .. Len(metadata) : Append(metadata, row)[i] = metadata[i]
          /\ Append(metadata, row)[Len(metadata) + 1] = row
      BY ONLY <1>6, <3>3, AppendProperties
    <3>5. ASSUME NEW i \in 1 .. Len(metadata) + 1
          PROVE  Append(metadata, row)[i] = ClosingRows[i]
      <4>1. i \in 1 .. Len(metadata) \/ i = Len(metadata) + 1
        BY <2>5
      <4> QED BY <2>5, <3>4, <4>1
    <3>6. metadata' \in Seq(MetadataRows)
      BY <1>6, <3>1, <3>4
    <3> HIDE DEF row
    <3>7. TablesOK'
      BY <1>6, <2>1, <2>2, <3>1, <3>6 DEF TablesOK, Over
    <3>8. pc' = "verdict" =>
            /\ Len(metadata') <= 4
            /\ \A i \in DOMAIN metadata' : metadata'[i] = ClosingRows'[i]
      BY <2>4, <3>1, <3>2, <3>4, <3>5
    <3>9. VerdictOK'
      BY <1>5, <2>1, <2>5, <3>1, <3>8 DEF VerdictOK
    <3> QED BY <3>7, <3>9
  <2>7. CASE ~(Len(metadata) < 4)
    <3>1. /\ pc' = "done" /\ metadata' = metadata
          /\ exit' = IF CompleteCase(records, FALSE) THEN "0" ELSE "1"
      BY <1>11, <2>3, <2>7 DEF WriteVerdict, Goto
    <3>2. Len(metadata) = 4
      BY <2>5, <2>7
    <3>3. Len(results) = Length + 1
      <4>1. Len(results) = Kept
        BY <1>1, <2>1 DEF ResultOK, Over
      <4>2. Length \in Nat /\ Kept = Length + 1
        BY <1>1, <2>2, LengthFacts, KeptFacts
      <4> QED BY <4>1, <4>2
    <3>4. TablesOK'
      BY <1>6, <2>1, <2>2, <3>1 DEF TablesOK, Over
    <3>5. Length' = Length
      BY DEF Length, ScheduleLength
    <3>6. VerdictOK'
      BY <2>1, <2>2, <2>4, <2>5, <3>1, <3>2, <3>3, <3>5 DEF VerdictOK
    <3> QED BY <3>4, <3>6
  <2> QED BY <2>6, <2>7
<1>12. CASE Catch
  <2>1. /\ pc = "catch" /\ pc' \in {"closing", "done"} /\ exit' \in {exit, "1"}
        /\ UNCHANGED <<summary, todo, metadata>>
    BY <1>12 DEF Catch, Goto, Escape
  <2>2. TablesOK'
    BY <1>1, <1>2, <2>1 DEF TablesOK, Over
  <2> QED BY <1>5, <2>1, <2>2 DEF VerdictOK
<1>13. CASE WriteClosing
  <2>1. PICK md \in {metadata \o SubSeq(ErrorRows, 1, n) : n \in 0 .. 3} :
          /\ metadata' = md
          /\ summary' \in
               IF md = metadata \o ErrorRows /\ ~summaryWritten
               THEN {summary \o SubSeq(SummaryRows(records, TRUE), 1, n) :
                       n \in 0 .. 3 * Len(Metrics)}
               ELSE {summary}
    BY <1>13 DEF WriteClosing
  <2>2. /\ pc = "closing" /\ pc' = "done" /\ exit' = "1" /\ todo' = todo
    BY <1>13 DEF WriteClosing, Escape, Goto
  <2>3. /\ metadata' \in Seq(MetadataRows)
        /\ \A i \in DOMAIN metadata' : metadata'[i] = "model_parity=passed" => Done
    <3>1. PICK n \in 0 .. 3 : metadata' = metadata \o SubSeq(ErrorRows, 1, n)
      BY <2>1
    <3> DEFINE more == SubSeq(ErrorRows, 1, n)
    <3>2. ErrorRows \in Seq(MetadataRows) /\ Len(ErrorRows) = 3
          /\ \A i \in 1 .. 3 : ErrorRows[i] # "model_parity=passed"
      BY DEF ErrorRows, MetadataRows
    <3>8. n \in 0 .. Len(ErrorRows)
      BY <3>2
    <3>3. /\ more \in Seq(MetadataRows) /\ Len(more) = n
          /\ \A i \in 1 .. n : more[i] = ErrorRows[i]
      BY ONLY <3>2, <3>8, FirstOf
    <3>4. \A i \in 1 .. Len(more) : more[i] # "model_parity=passed"
      BY <3>2, <3>3
    <3>5. metadata' = metadata \o more
      BY <3>1
    <3> HIDE DEF more
    <3>6. /\ metadata' \in Seq(MetadataRows)
          /\ DOMAIN metadata' = 1 .. Len(metadata) + Len(more)
          /\ \A i \in 1 .. Len(metadata) + Len(more) :
               metadata'[i] = IF i <= Len(metadata) THEN metadata[i]
                              ELSE more[i - Len(metadata)]
          /\ Len(metadata) \in Nat /\ Len(more) \in Nat /\ DOMAIN metadata = 1 .. Len(metadata)
      BY ONLY <1>6, <3>3, <3>5, ConcatProperties, LenProperties
    <3>0. \A i \in DOMAIN metadata : metadata[i] = "model_parity=passed" => Done
      BY <1>1 DEF TablesOK
    <3>7. ASSUME NEW i \in 1 .. Len(metadata) + Len(more), metadata'[i] = "model_parity=passed"
          PROVE  Done
      <4>1. CASE i <= Len(metadata)
        BY <3>0, <3>6, <3>7, <4>1
      <4>2. CASE ~(i <= Len(metadata))
        <5>1. i - Len(metadata) \in 1 .. Len(more)
          BY <3>6, <4>2
        <5> QED BY <3>4, <3>6, <3>7, <4>2, <5>1
      <4> QED BY <4>1, <4>2
    <3> QED BY <3>6, <3>7
  <2>4. /\ summary' \in Seq(Rows)
        /\ \A i \in DOMAIN summary' : summary'[i].status # "failed" => Done
    <3>1. CASE summary' = summary
      BY <1>1, <3>1 DEF TablesOK
    <3>2. CASE \E n \in 0 .. 3 * Len(Metrics) :
                 summary' = summary \o SubSeq(SummaryRows(records, TRUE), 1, n)
      <4>1. PICK n \in 0 .. 3 * Len(Metrics) :
                 summary' = summary \o SubSeq(SummaryRows(records, TRUE), 1, n)
        BY <3>2
      <4> DEFINE rows == SummaryRows(records, TRUE)
                 more == SubSeq(rows, 1, n)
      <4>2. /\ rows \in Seq(Rows) /\ Len(rows) = 3 * Len(Metrics)
            /\ \A i \in 1 .. 3 * Len(Metrics) : rows[i].status = "failed"
        BY SummaryFacts
      <4>3. summary' = summary \o more
        BY <4>1
      <4>4. 3 * Len(Metrics) \in Nat /\ n \in 0 .. Len(rows) /\ n \in Nat
        <5>1. Len(Metrics) \in Nat
          BY ProbeAssumption
        <5>2. Len(rows) = 3 * Len(Metrics)
          BY <4>2
        <5> HIDE DEF rows
        <5> QED BY <5>1, <5>2
      <4> HIDE DEF rows
      <4>5. /\ more \in Seq(Rows) /\ Len(more) = n
            /\ \A i \in 1 .. n : more[i] = rows[i]
        BY ONLY <4>2, <4>4, FirstOf
      <4>6. \A i \in 1 .. Len(more) : more[i].status = "failed"
        BY <4>2, <4>4, <4>5
      <4> HIDE DEF more
      <4>7. /\ summary' \in Seq(Rows)
            /\ DOMAIN summary' = 1 .. Len(summary) + Len(more)
            /\ \A i \in 1 .. Len(summary) + Len(more) :
                 summary'[i] = IF i <= Len(summary) THEN summary[i] ELSE more[i - Len(summary)]
            /\ Len(summary) \in Nat /\ Len(more) \in Nat /\ DOMAIN summary = 1 .. Len(summary)
        BY ONLY <1>6, <4>3, <4>5, ConcatProperties, LenProperties
      <4>0. \A i \in DOMAIN summary : summary[i].status # "failed" => Done
        BY <1>1 DEF TablesOK
      <4>8. ASSUME NEW i \in 1 .. Len(summary) + Len(more), summary'[i].status # "failed"
            PROVE  Done
        <5>1. CASE i <= Len(summary)
          BY <4>0, <4>7, <4>8, <5>1
        <5>2. CASE ~(i <= Len(summary))
          <6>1. i - Len(summary) \in 1 .. Len(more)
            BY <4>7, <5>2
          <6> QED BY <4>6, <4>7, <4>8, <5>2, <6>1
        <5> QED BY <5>1, <5>2
      <4> QED BY <4>7, <4>8
    <3> QED BY <2>1, <3>1, <3>2
  <2>5. TablesOK'
    BY <1>2, <1>6, <2>2, <2>3, <2>4 DEF TablesOK, Over
  <2>6. VerdictOK'
    BY <2>2 DEF VerdictOK
  <2> QED BY <2>5, <2>6
<1> QED BY <1>7, <1>8, <1>9, <1>10, <1>11, <1>12, <1>13, ClosingCases

-----------------------------------------------------------------------------
(* The theorems. *)

LEMMA StepKeeps ==
  ASSUME IInv, [Next]_vars
  PROVE  IInv'
<1>1. CASE Next
  BY <1>1, TurnKept, ContextKept, RecordsKept, TablesKept DEF IInv
<1>2. CASE UNCHANGED vars
  <2> USE <1>2 DEF vars, tables
  <2>1. Length' = Length
    BY DEF Length, ScheduleLength
  <2>2. Current' = Current /\ Kept' = Kept /\ Done' = Done /\ ClosingRows' = ClosingRows
    BY DEF Current, Trial, Kept, Done, Length, ClosingRows
  <2>3. TurnOK' /\ ContextOK'
    <3>1. TurnOK'
      BY <2>1, <2>2 DEF IInv, TurnOK
    <3>2. ContextOK'
      BY <2>2 DEF IInv, ContextOK, ContextSound
    <3> QED BY <3>1, <3>2
  <2>4. RecordsOK' /\ ResultOK'
    BY <2>1, <2>2 DEF IInv, RecordsOK, ResultOK
  <2>5. TablesOK' /\ VerdictOK'
    BY <2>1, <2>2 DEF IInv, TablesOK, VerdictOK
  <2> QED BY <2>3, <2>4, <2>5 DEF IInv
<1> QED BY <1>1, <1>2

\* The inductive invariant: step, context, records and tables of a case agree.
THEOREM Invariance ==
  Spec => []IInv
<1>1. Init => IInv
  BY InitInvariant
<1>2. IInv /\ [Next]_vars => IInv'
  BY StepKeeps
<1> QED BY <1>1, <1>2, PTL DEF Spec

\* No request is answered from anything but the whole prompt A, whichever call
\* failed before it.
THEOREM AnswersFromPrompt ==
  Spec => []ContextSound
<1>1. IInv => ContextSound
  BY DEF IInv, ContextOK
<1> QED BY <1>1, Invariance, PTL

\* The records follow the schedule, without a gap and without a trial twice; all
\* but the last are of what succeeded, and the last of a case that is over is of
\* where it ended, an error unless run recorded it.
THEOREM RecordsOnce ==
  Spec => []RecordedOnce
<1>1. IInv => RecordedOnce
  <2> SUFFICES ASSUME IInv PROVE RecordedOnce
    OBVIOUS
  <2> DEFINE last == Len(records)
  <2>1. TurnOK /\ RecordsOK
    BY DEF IInv
  <2>2. /\ last \in Nat /\ Kept \in Nat /\ Kept <= Length + 1 /\ Length \in Nat
        /\ turn \in Int /\ turn >= -4 /\ turn < Length
    BY <2>1, LengthFacts, KeptFacts, LenProperties DEF RecordsOK, TurnOK
  <2>3. \A i \in 1 .. Kept : records[i].trial = TrialOf(i)
    BY <2>1 DEF RecordsOK
  <2>4. ASSUME NEW i \in 1 .. Kept, i # Kept \/ (turn >= 0 /\ ~recorded)
        PROVE  records[i].status = IF i = 1 THEN "reference" ELSE "pass"
    <3>1. CASE i = 1
      BY <2>1, <2>2, <3>1 DEF RecordsOK
    <3>2. CASE i # 1
      <4>1. i \in 2 .. Kept /\ Kept >= 2
        BY <2>2, <3>2
      <4>2. turn >= 0
        BY <2>2, <4>1 DEF Kept
      <4>3. i <= turn + 1
        BY <2>1, <2>2, <2>4, <4>2, KeptFacts DEF TurnOK
      <4> QED BY <2>1, <3>2, <4>1, <4>3 DEF RecordsOK
    <3> QED BY <3>1, <3>2
  <2>5. CASE last = Kept /\ (pc \in {"closing", "done"} => recorded)
    <3>1. recorded => last > 0 /\ TrialOf(Kept) = Current
      <4> SUFFICES ASSUME recorded PROVE last > 0 /\ TrialOf(Kept) = Current
        OBVIOUS
      <4>1. CASE turn = -3
        BY <2>1, <2>5, <4>1, CurrentFacts DEF Kept, TrialOf
      <4>2. CASE turn >= 0
        <5>1. Kept = turn + 2 /\ Kept # 1 /\ Kept - 1 = turn + 1 /\ last > 0
          BY <2>1, <2>2, <2>5, <4>2, KeptFacts
        <5> QED BY <2>1, <4>2, <5>1, CurrentFacts DEF TrialOf
      <4> QED BY <2>1, <4>1, <4>2 DEF TurnOK
    <3>2. recorded => records[last].trial = Current
      <4>1. recorded => last \in 1 .. Kept
        BY <2>2, <2>5, <3>1
      <4> QED BY <2>3, <2>5, <3>1, <4>1
    <3>3. \A i \in 1 .. last - 1 : i \in 1 .. Kept /\ i # Kept
      BY <2>2, <2>5
    <3> QED BY <2>2, <2>3, <2>4, <2>5, <3>1, <3>2, <3>3 DEF RecordedOnce, TrialOf, Length
  <2>6. CASE /\ ~recorded /\ last = Kept + 1
             /\ records[Kept + 1] = [trial |-> Current, status |-> "error"]
    <3>1. \/ Current = TrialOf(last) /\ last <= Length + 1
          \/ Current = Setup /\ last <= Length + 1
      <4>1. CASE turn \in {-4, -2, -1}
        <5>1. Kept \in {0, 1} /\ Length >= 6
          BY <4>1, LengthFacts DEF Kept
        <5> QED BY <2>1, <2>2, <2>6, <4>1, <5>1, CurrentFacts
      <4>2. CASE turn = -3
        <5>1. Kept = 0
          BY <2>6, <4>2 DEF Kept
        <5> QED BY <2>1, <2>2, <2>6, <4>2, <5>1, CurrentFacts DEF TrialOf
      <4>3. CASE turn >= 0
        <5>1. Kept = turn + 1 /\ last # 1 /\ last - 1 = turn + 1 /\ last <= Length + 1
          BY <2>1, <2>2, <2>6, <4>3, KeptFacts
        <5> QED BY <2>1, <4>3, <5>1, CurrentFacts DEF TrialOf
      <4> QED BY <2>2, <4>1, <4>2, <4>3
    <3>2. records[last].trial = Current /\ records[last].status = "error"
      BY <2>6
    <3>3. \A i \in 1 .. last : i \in 1 .. Kept \/ i = last
      BY <2>2, <2>6
    <3>4. ASSUME NEW i \in 1 .. last - 1
          PROVE  records[i].status = IF i = 1 THEN "reference" ELSE "pass"
      <4>1. i \in 1 .. Kept
        BY <2>2, <2>6
      <4>2. i # Kept \/ (turn >= 0 /\ ~recorded) \/ i = 1
        BY <2>2, <2>6, <4>1 DEF Kept
      <4>3. Kept >= 1 => records[1].status = "reference"
        BY <2>1 DEF RecordsOK
      <4> QED BY <2>2, <2>4, <4>1, <4>2, <4>3
    <3>5. ASSUME NEW i \in 1 .. last
          PROVE  \/ records[i].trial = TrialOf(i)
                 \/ i = last /\ records[i] = [trial |-> Setup, status |-> "error"]
      BY <2>3, <2>6, <3>1, <3>2, <3>3
    <3> HIDE DEF last
    <3>6. last > 0
      BY <2>2, <2>6
    <3> QED BY <2>6, <3>1, <3>2, <3>4, <3>5, <3>6 DEF RecordedOnce, TrialOf, Length, last
  <2> QED BY <2>1, <2>5, <2>6 DEF RecordsOK
<1> QED BY <1>1, Invariance, PTL

\* A row with a mean, or not applicable, is only ever written for a case all of
\* whose trials have passed.
THEOREM MeansAreWhole ==
  Spec => []NoPartialMeans
<1>1. IInv => NoPartialMeans
  BY DoneIsAllPassed DEF IInv, TablesOK, NoPartialMeans
<1> QED BY <1>1, Invariance, PTL

\* What run_sweep.py accepts is a case all of whose trials passed, and a
\* process that returns 0 has left such files.
THEOREM FilesAreTrue ==
  Spec => []FilesTellTheTruth
<1>1. IInv => FilesTellTheTruth
  <2> SUFFICES ASSUME IInv
               PROVE  FilesTellTheTruth
    OBVIOUS
  <2>1. TurnOK /\ RecordsOK /\ TablesOK /\ VerdictOK
    BY DEF IInv
  <2>2. FilesAccepted => AllPassed
    <3>1. ASSUME FilesAccepted
          PROVE  Done
      <4>1. \E i \in DOMAIN metadata : metadata[i] = "model_parity=passed"
        BY <3>1 DEF FilesAccepted, OnlyRow
      <4> QED BY <2>1, <4>1 DEF TablesOK
    <3> QED BY <2>1, <3>1, DoneIsAllPassed
  <2>3. ASSUME exit = "0"
        PROVE  FilesAccepted /\ Len(results) = ScheduleLength(Reps, Warmup) + 1
    <3>1. /\ CompleteCase(records, FALSE) /\ summary = SummaryRows(records, FALSE)
          /\ Len(metadata) = 4 /\ \A i \in DOMAIN metadata : metadata[i] = ClosingRows[i]
          /\ Len(results) = Length + 1
      BY <2>1, <2>3 DEF VerdictOK
    <3>2. DOMAIN metadata = 1 .. 4
      BY <2>1, <3>1, LenProperties DEF TablesOK
    <3>3. /\ metadata[1] = "model_parity=passed" /\ metadata[2] = "benchmark_status=complete"
          /\ metadata[3] = "physical_ssd_latency" /\ metadata[4] = "trace_replay"
      BY <3>1, <3>2 DEF ClosingRows
    <3>4. \A j \in DOMAIN metadata : j \in {1, 2, 3, 4}
      BY <3>2
    <3>5. /\ OnlyRow("model_parity=passed",
                {"model_parity=passed", "model_parity=failed", "model_parity=error"})
          /\ OnlyRow("benchmark_status=complete",
                {"benchmark_status=complete", "benchmark_status=failed"})
      <4>1. 1 \in DOMAIN metadata /\ 2 \in DOMAIN metadata
        BY <3>2
      <4> QED BY <3>3, <3>4, <4>1 DEF OnlyRow
    <3>6. /\ Len(summary) = 3 * Len(Metrics)
          /\ \A i \in DOMAIN summary : summary[i].status \in {"pass", "not_applicable"}
      BY <3>1, SummaryFacts
    <3> QED BY <3>1, <3>5, <3>6 DEF FilesAccepted, Length
  <2> QED BY <2>2, <2>3 DEF FilesTellTheTruth
<1> QED BY <1>1, Invariance, PTL

-----------------------------------------------------------------------------
(* The end: every step uses up one of the steps left. *)

LEMMA StepsLeftDecrease ==
  ASSUME IInv, IInv', Next
  PROVE  0 <= StepsLeft' /\ StepsLeft' < StepsLeft
<1> DEFINE rows == 3 * Len(Metrics)
<1>1. rows \in Nat /\ Length \in Nat
  BY ProbeAssumption, LengthFacts
<1>2. /\ TurnOK /\ todo \in Seq(Rows) /\ metadata \in Seq(MetadataRows)
      /\ pc = "verdict" => Len(metadata) <= 4
  BY DEF IInv, TablesOK, VerdictOK
<1>3. /\ TurnOK' /\ todo' \in Seq(Rows) /\ metadata' \in Seq(MetadataRows)
      /\ pc' = "verdict" => Len(metadata') <= 4
  BY DEF IInv, TablesOK, VerdictOK, Rows, MetadataRows
<1> HIDE DEF rows
<1>4. /\ StepsOfTurn' \in Nat
      /\ pc' = "catch" => StepsOfTurn' = 2
  BY <1>1, <1>3 DEF StepsOfTurn, TurnOK, Answering, Setting, Concluding, Over, rows
<1>5. /\ StepsOfTurn \in Nat
      /\ pc \notin Over => StepsOfTurn > 2
  BY <1>1, <1>2 DEF StepsOfTurn, TurnOK, Answering, Setting, Concluding, Over, rows
<1>6. \/ turn' = turn /\ StepsOfTurn' < StepsOfTurn
      \/ turn' = turn + 1 /\ StepsOfTurn' < StepsOfTurn + 9
  <2> USE DEF Goto, Throw, Escape
  <2>1. CASE pc' = "catch" /\ turn' = turn /\ pc \notin Over
    BY <1>4, <1>5, <2>1
  <2>2. CASE LoadModel
    <3>1. /\ pc = "load"
          /\ \/ pc' = "interfere" /\ turn' = -3
             \/ pc' = "catch" /\ turn' = turn
      BY <2>2 DEF LoadModel
    <3>2. turn = -4
      BY <1>2, <3>1 DEF TurnOK
    <3> QED BY <1>1, <3>1, <3>2 DEF StepsOfTurn, rows
  <2>3. CASE Interfere
    <3>1. pc = "interfere" /\ pc' \in {"prefix", "lookup", "catch"} /\ turn' = turn
      BY <2>3 DEF Interfere
    <3> QED BY <1>1, <3>1 DEF StepsOfTurn, rows
  <2>4. CASE DecodePrefix \/ Lookup \/ ClearForImport
    <3>1. /\ turn' = turn
          /\ \/ pc' = "catch" /\ pc \in {"prefix", "lookup", "restore"}
             \/ pc = "prefix" /\ pc' = "suffix"
             \/ pc = "lookup" /\ pc' = "restore"
             \/ pc = "restore" /\ pc' = "import"
      BY <2>4 DEF DecodePrefix, Lookup, ClearForImport
    <3> QED BY <1>1, <3>1 DEF StepsOfTurn, rows
  <2>5. CASE Import \/ DecodeSuffix \/ Continue
    <3>1. /\ turn' = turn
          /\ \/ pc' = "catch" /\ pc \in {"import", "suffix", "continue"}
             \/ pc = "import" /\ pc' = "suffix"
             \/ pc = "suffix" /\ pc' = "continue"
             \/ pc = "continue" /\ pc' = "compare"
      BY <2>5 DEF Import, DecodeSuffix, Continue, tables
    <3> QED BY <1>1, <3>1 DEF StepsOfTurn, rows
  <2>6. CASE Compare \/ WriteRows
    <3>1. /\ turn' = turn
          /\ \/ pc' = "catch" /\ pc \in {"compare", "rows"}
             \/ pc = "compare" /\ pc' = "rows"
             \/ pc = "rows" /\ pc' = "next"
      BY <2>6 DEF Compare, WriteRows
    <3> QED BY <1>1, <3>1 DEF StepsOfTurn, rows
  <2>7. CASE NextTurn \/ OpenStoresFails
    <3>1. /\ pc = "next"
          /\ \/ pc' = "catch" /\ turn' = turn
             \/ pc' \in {"capture", "interfere"} /\ turn' = turn + 1
             \/ pc' = "summarize" /\ turn' = turn
      BY <2>7 DEF NextTurn, OpenStoresFails, tables
    <3> QED BY <1>1, <3>1 DEF StepsOfTurn, rows
  <2>8. CASE Capture \/ PutSnapshot
    <3>1. /\ turn' = turn
          /\ \/ pc' = "catch" /\ pc \in {"capture", "put"}
             \/ pc = "capture" /\ pc' = "put"
             \/ pc = "put" /\ pc' = "next"
      BY <2>8 DEF Capture, PutSnapshot, tables
    <3> QED BY <1>1, <3>1 DEF StepsOfTurn, rows
  <2>9. CASE Summarise
    <3>1. pc = "summarize" /\ pc' = "summary" /\ turn' = turn /\ Len(todo') = rows
      BY <2>9, SummaryFacts DEF Summarise, rows
    <3> QED BY <1>1, <3>1 DEF StepsOfTurn, rows
  <2>10. CASE WriteSummaryRow
    <3>1. /\ turn' = turn /\ pc = "summary" /\ todo # <<>>
          /\ pc' = "catch" \/ (pc' = "summary" /\ todo' = Tail(todo))
      BY <2>10 DEF WriteSummaryRow
    <3>2. Len(Tail(todo)) < Len(todo) /\ Len(todo) \in Nat /\ Len(Tail(todo)) \in Nat
      BY <1>2, <3>1
    <3> QED BY <3>1, <3>2 DEF StepsOfTurn
  <2>11. CASE SummaryDone
    <3>1. /\ turn' = turn /\ pc = "summary" /\ pc' = "verdict"
      BY <2>11 DEF SummaryDone
    <3>2. Len(todo) \in Nat /\ Len(metadata') \in Nat
      BY <1>2, <1>3
    <3> QED BY <3>1, <3>2 DEF StepsOfTurn
  <2>12. CASE WriteVerdict
    <3>1. /\ turn' = turn /\ pc = "verdict"
          /\ \/ pc' \in {"catch", "done"}
             \/ pc' = "verdict" /\ metadata' = Append(metadata, ClosingRows[Len(metadata) + 1])
      BY <2>12 DEF WriteVerdict
    <3>2. CASE pc' \in {"catch", "done"}
      BY <1>4, <1>5, <3>1, <3>2 DEF StepsOfTurn, Over
    <3>3. CASE pc' = "verdict" /\ metadata' = Append(metadata, ClosingRows[Len(metadata) + 1])
      <4>1. Len(metadata') = Len(metadata) + 1 /\ Len(metadata) \in Nat
        BY <1>2, <3>3
      <4> QED BY <3>1, <3>3, <4>1 DEF StepsOfTurn
    <3> QED BY <3>1, <3>2, <3>3
  <2>13. CASE Catch \/ WriteClosing
    <3>1. /\ turn' = turn
          /\ \/ pc = "catch" /\ pc' \in {"closing", "done"}
             \/ pc = "closing" /\ pc' = "done"
      BY <2>13 DEF Catch, WriteClosing
    <3> QED BY <3>1 DEF StepsOfTurn
  <2> QED BY <2>2, <2>3, <2>4, <2>5, <2>6, <2>7, <2>8, <2>9, <2>10, <2>11, <2>12, <2>13
          DEF Next, Step
<1>7. turn \in Int /\ turn' \in Int /\ turn' <= Length - 1
  BY <1>1, <1>2, <1>3 DEF TurnOK, Length, ScheduleLength
<1>8. /\ StepsLeft = 9 * (Length - 1 - turn) + StepsOfTurn
      /\ StepsLeft' = 9 * (Length - 1 - turn') + StepsOfTurn'
  BY DEF StepsLeft, Length, ScheduleLength
<1> QED
  <2> HIDE DEF rows
  <2>1. 9 * (Length - 1 - turn') \in Nat
    <3>1. \A l \in Nat, t \in Int : t <= l - 1 => 9 * (l - 1 - t) \in Nat
      OBVIOUS
    <3> QED BY ONLY <1>1, <1>7, <3>1, Zenon
  <2>2. CASE turn' = turn
    BY ONLY <1>4, <1>5, <1>6, <1>7, <1>8, <2>1, <2>2
  <2>3. CASE turn' = turn + 1
    <3>1. 9 * (Length - 1 - turn) = 9 * (Length - 1 - turn') + 9
      BY ONLY <1>1, <1>7, <2>3
    <3>2. StepsOfTurn' < StepsOfTurn + 9
      BY ONLY <1>4, <1>5, <1>6
    <3> QED BY ONLY <1>4, <1>5, <1>8, <2>1, <3>1, <3>2
  <2> QED BY ONLY <1>6, <2>2, <2>3

\* Whatever fails, a case takes at most as many steps as its rounds and metrics
\* allow: with calls that return, it ends.
THEOREM CaseIsBounded ==
  Spec => StepsBounded
<1>1. IInv /\ IInv' /\ [Next]_vars => [0 <= StepsLeft' /\ StepsLeft' < StepsLeft]_vars
  BY StepsLeftDecrease
<1> QED BY <1>1, Invariance, PTL DEF Spec, StepsBounded
=============================================================================
