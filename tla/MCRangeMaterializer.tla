-------------------------- MODULE MCRangeMaterializer --------------------------
(* Instances of RangeMaterializer for TLC: two callers and three tensors; the  *)
(* budgets hold any tensor alone, some pairs of them, never all.              *)
EXTENDS RangeMaterializer

MCTensors == 1..3
MCBytes == <<1, 1, 2>>
MCBudgets == {2, 3}
MCCallers == {"a", "b"}
===============================================================================
