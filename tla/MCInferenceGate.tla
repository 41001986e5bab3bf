---------------------------- MODULE MCInferenceGate ----------------------------
(* Instances of InferenceGate for TLC. *)
EXTENDS InferenceGate
===============================================================================
