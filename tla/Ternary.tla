------------------------------- MODULE Ternary -------------------------------
(***************************************************************************)
(* TernarySEQ, the quantiser of weights that the reference inference, the  *)
(* verification scripts and the generators each have a copy of.  A weight  *)
(* w of a row with clip alpha becomes                                      *)
(*    round(clamp(w / alpha, -0.99, 0.99) * 1.5) / 1.5 * alpha             *)
(* where round goes to the nearest integer and halves to the even one.     *)
(* Weights and clips are integer multiples of some unit, the arithmetic is *)
(* exact: what floating point adds to it is left out.                      *)
(***************************************************************************)
EXTENDS Integers

CONSTANT Eps  \* TERNARY_EPS

ASSUME EpsAssumption == Eps \in Nat \ {0}

AbsOf(x) == IF x < 0 THEN -x ELSE x

Alpha(clip) == IF clip < Eps THEN Eps ELSE clip

\* round(p / q), as long as that is not above 2.
Round(p, q) ==
  CHOOSE n \in -2 .. 2 :
    \/ 2 * AbsOf(p - n * q) < q
    \/ 2 * AbsOf(p - n * q) = q /\ n % 2 = 0

\* 100 * clamp(w / alpha, -0.99, 0.99) * alpha
Clamped(w, alpha) ==
  IF 100 * w > 99 * alpha THEN 99 * alpha
  ELSE IF 100 * w < -99 * alpha THEN -99 * alpha
  ELSE 100 * w

\* What is stored of a weight: clamp(w / alpha) * 3 / 2, rounded.
Level(w, alpha) == Round(3 * Clamped(w, alpha), 200 * alpha)

\* Three times the value that is computed with: level / 1.5 * alpha.
ThirdsOf(level, alpha) == 2 * level * alpha

\* _ternaryseq_weight for one weight: a third of this.
Quantized(w, clip) == ThirdsOf(Level(w, Alpha(clip)), Alpha(clip))

\* quantize_i2s, compute_clip_per_row and weight_quant_ternary: the clip of a
\* row is its largest absolute value.
RowClip(max) == max

\* _load_linear, without a weight_clip_val in the checkpoint.
DefaultClip(max) == 2 * max
=============================================================================
