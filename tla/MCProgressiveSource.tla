-------------------------- MODULE MCProgressiveSource --------------------------
(* Instances of ProgressiveSource for TLC: chunks in bytes of two bits and     *)
(* windows of two, so that a read may span bytes, windows and covered chunks.  *)
EXTENDS ProgressiveSource

OneProcess == {"p"}
TwoProcesses == {"p", "q"}
===============================================================================
