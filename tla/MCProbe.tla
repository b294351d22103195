------------------------------- MODULE MCProbe -------------------------------
(* A prefill-only case (D = 0): one metric with means, one not applicable. *)
EXTENDS Probe

MCMetrics == <<"ttft_ms", "conditioned_decode_forward_tps">>
=============================================================================
