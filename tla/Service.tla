------------------------------- MODULE Service -------------------------------
(***************************************************************************)
(* main of simple_quant_moe_infer_with_mtp.py: a model is loaded, and if   *)
(* that succeeds, and it is the model that Inference's constants describe, *)
(* it serves calls.  What was loaded is forgotten at that point: from then *)
(* on the calls depend on its being complete and on nothing else of it.    *)
(***************************************************************************)
EXTENDS Inference, Loader

\* The configuration is that of Inference's constants; the window decides about
\* no tensor.
Describes(c) ==
  /\ c.layers = SelfLayers + CrossLayers
  /\ c.crossLayers = CrossLayers
  /\ c.mtpN = MtpN
  /\ c.loops = Loops /\ c.maxSeqLen = MaxSeqLen

ServiceInit == LoadInit /\ Init

\* load_model returns.
Serve ==
  /\ loading = "loaded" /\ Describes(config)
  /\ loading' = "serving"
  /\ asked' = <<>> /\ config' = <<>> /\ model' = <<>>
  /\ UNCHANGED <<plan, store>>

ServiceNext ==
  \/ LoadNext /\ UNCHANGED vars
  \/ Serve /\ UNCHANGED vars
  \/ loading = "serving" /\ Next /\ UNCHANGED loadVars

ServiceSpec == ServiceInit /\ [][ServiceNext]_<<loadVars, vars>>
=============================================================================
