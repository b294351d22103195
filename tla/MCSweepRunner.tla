---------------------------- MODULE MCSweepRunner ----------------------------
(* Two models and two lengths: four cases. *)
EXTENDS SweepRunner

MCModels == <<"BF16", "Q4_0">>
MCLengths == <<2, 512>>
=============================================================================
