--------------------------- MODULE PayloadLifecycle ----------------------------
(***************************************************************************)
(* What a materializer promises its callers (TensorMaterializer in         *)
(* integrations/ggml/include/vbuf_materializer.h): each tensor is absent,  *)
(* being read, ready, released or failed, changes state in that order, and *)
(* what is being read or ready never exceeds the largest budget a caller   *)
(* has given.                                                              *)
(***************************************************************************)
EXTENDS Integers, FiniteSets, FiniteSetsExt

CONSTANTS Tensors, Bytes, MaxBudget

VARIABLE life    \* life[t]: state of tensor t

States == {"NotRequested", "InFlight", "Ready", "Released", "Failed"}

Held == MapThenSumSet(LAMBDA t : Bytes[t], {t \in Tensors : life[t] \in {"InFlight", "Ready"}})

Becomes(t, from, to) == life[t] \in from /\ life' = [life EXCEPT ![t] = to]

Begin(t) == Held + Bytes[t] <= MaxBudget /\ Becomes(t, {"NotRequested"}, "InFlight")
Arrive(t) == Becomes(t, {"InFlight"}, "Ready")
Fail(t) == Becomes(t, {"InFlight"}, "Failed")
GiveBack(t) == Becomes(t, {"Ready"}, "Released")
Forget(t) == Becomes(t, {"Released", "Failed"}, "NotRequested")

\* The owner goes: everything ready is released at once.
GiveBackAll == life' = [t \in Tensors |-> IF life[t] = "Ready" THEN "Released" ELSE life[t]]

LifecycleInit == life = [t \in Tensors |-> "NotRequested"]

LifecycleNext ==
  \/ \E t \in Tensors : Begin(t) \/ Arrive(t) \/ Fail(t) \/ GiveBack(t) \/ Forget(t)
  \/ GiveBackAll

LifecycleSpec == LifecycleInit /\ [][LifecycleNext]_life
===============================================================================
