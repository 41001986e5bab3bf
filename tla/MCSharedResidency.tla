-------------------------- MODULE MCSharedResidency ---------------------------
(* Two sessions over a store that has no room for both tensors. *)
EXTENDS SharedResidency

MCTensors == 1..2
MCBytes == <<1, 2>>
TwoSessions == {"a", "b"}

\* One layer: both tensors are prefetched, each feeds one operation.
LayerPositions == {<<[prefetch |-> <<1, 2>>, ops |-> <<<<1>>, <<2>>>>]>>}
===============================================================================
