--------------------------- MODULE MCResidencyStore ---------------------------
(* Five tensors and a store of 4 bytes, so that an insertion may need two      *)
(* evictions, may be refused by leases after having evicted, or may never fit. *)
(* The store has callers that do anything in any order, or a single session.   *)
EXTENDS SharedResidency

MCTensors == 1..5
MCBytes == <<1, 2, 3, 2, 5>>
OneSession == {"a"}

\* A layer prefetches its tensors, each of which feeds one operation; it may ask
\* for the first one again.
Layer(t, u) == [prefetch |-> <<t, u>>, ops |-> <<<<t>>, <<u>>>>]
Again(t, u) == [prefetch |-> <<t, u, t>>, ops |-> <<<<t>>, <<u>>>>]

\* The embedding wave and an output head do not prefetch.
Embedding(t) == [prefetch |-> <<>>, ops |-> <<<<t>>>>]
Head2(t, u) == [prefetch |-> <<>>, ops |-> <<<<t>>, <<u>>>>]

\* Waves of tensors that exclude each other, that fit together, or never fit.
MixedPositions ==
  {<<Embedding(2), Layer(2, 3)>>, <<Head2(3, 2)>>, <<Again(2, 3), Layer(1, 4)>>,
   <<Embedding(5), Head2(4, 5)>>}

VARIABLE user     \* who uses the store: "anybody" or a "session"

UserInit == SharedInit /\ user \in {"anybody", "session"}

Anybody == user = "anybody" /\ StoreNext /\ UNCHANGED <<sessionVars, user>>
Session == user = "session" /\ SharedNext /\ UNCHANGED user

UserSpec == UserInit /\ [][Anybody \/ Session]_<<sharedVars, user>>
===============================================================================
