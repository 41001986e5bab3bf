------------------------------- MODULE FifoLock -------------------------------
(***************************************************************************)
(* What the admission gate of the compatibility server promises: one lock, *)
(* granted in the order in which the connections were accepted.  A         *)
(* connection is pending until the server knows whether it wants the lock; *)
(* while an earlier connection is pending, queued or holding, no later one *)
(* may be granted the lock.                                                *)
(***************************************************************************)
EXTENDS Integers

CONSTANT NConn      \* number of connections

Orders == 0..(NConn - 1)

VARIABLE phase      \* phase[o]: where connection o stands with respect to the lock

Init == phase = [o \in Orders |-> "pending"]

\* The connection turns out not to need the lock.
Pass(o) ==
  /\ phase[o] = "pending"
  /\ phase' = [phase EXCEPT ![o] = "left"]

\* The connection asks for the lock.
Enqueue(o) ==
  /\ phase[o] = "pending"
  /\ phase' = [phase EXCEPT ![o] = "queued"]

\* The connection gives up before it is granted.
Abandon(o) ==
  /\ phase[o] = "queued"
  /\ phase' = [phase EXCEPT ![o] = "left"]

Grant(o) ==
  /\ phase[o] = "queued"
  /\ \A p \in Orders : p < o => phase[p] = "left"
  /\ \A p \in Orders : phase[p] # "holding"
  /\ phase' = [phase EXCEPT ![o] = "holding"]

Release(o) ==
  /\ phase[o] = "holding"
  /\ phase' = [phase EXCEPT ![o] = "left"]

Next == \E o \in Orders :
  Pass(o) \/ Enqueue(o) \/ Abandon(o) \/ Grant(o) \/ Release(o)

Spec == Init /\ [][Next]_phase
===============================================================================
