------------------------ MODULE RangeMaterializerProofs ------------------------
(* Theorems about RangeMaterializer for any callers, tensors and budgets. *)
EXTENDS RangeMaterializer, CountingLemmas, TLAPS

(***************************************************************************)
(* The inductive invariant: worker_mutex is held by the one caller that is *)
(* between two critical sections of mutex, or by the destructor, and a     *)
(* thread reads exactly the tensors whose record is in flight.             *)
(***************************************************************************)
Inside == {"stale", "admit", "record", "join"}

MutexInv ==
  /\ \A c \in Callers : pc[c] \in Inside <=> worker_mutex = c
  /\ life = "closing" => worker_mutex = "owner"

ReadInv == \A t \in Tensors : worker[t] \in Reading <=> state[t] = "InFlight"

IInv == ControlOK /\ MutexInv /\ ReadInv /\ RecordOutlivesWait

-------------------------------------------------------------------------------
\* Nothing is requested and nobody is inside.
LEMMA InitIInv == Init => IInv
<1> SUFFICES ASSUME Init PROVE IInv
  OBVIOUS
<1> USE MaterializerAssumption DEF Init
<1>1. ControlOK
  <2>1. call \in [Callers -> Calls]
    <3>1. {[op |-> "wait", tensor |-> t, budget |-> 0] : t \in Tensors} \subseteq Calls
      BY DEF Calls
    <3>2. QED
      BY <3>1
  <2>2. QED
    BY <2>1 DEF ControlOK, States, Reading
<1>2. MutexInv /\ ReadInv /\ RecordOutlivesWait
  BY DEF MutexInv, Inside, ReadInv, Reading, RecordOutlivesWait
<1>3. QED
  BY <1>1, <1>2 DEF IInv

\* A caller that calls, enters or leaves touches records only with worker_mutex.
LEMMA CallerIInv ==
  ASSUME IInv, NEW c \in Callers, Call(c) \/ Caller(c)
  PROVE  IInv'
<1> USE MaterializerAssumption DEF GoTo, SetState, Enters, IInv
<1>t. Tensor(c) \in Tensors
  BY DEF Tensor, ControlOK, Calls
<1>1. CASE Call(c)
  <2>1. ControlOK'
    BY <1>1 DEF Call, ControlOK
  <2>2. MutexInv' /\ ReadInv' /\ RecordOutlivesWait'
    BY <1>1 DEF Call, MutexInv, Inside, ReadInv, RecordOutlivesWait, ControlOK, Tensor
  <2>3. QED
    BY <2>1, <2>2
<1>2. CASE RequestEnter(c)
  <2>1. ControlOK'
    BY <1>t, <1>2 DEF RequestEnter, ControlOK, States
  <2>2. MutexInv' /\ ReadInv' /\ RecordOutlivesWait'
    BY <1>t, <1>2 DEF RequestEnter, MutexInv, Inside, ReadInv, RecordOutlivesWait, ControlOK, Tensor
  <2>3. QED
    BY <2>1, <2>2
<1>3. CASE JoinStale(c)
  <2>1. ControlOK'
    BY <1>t, <1>3 DEF JoinStale, ControlOK
  <2>2. MutexInv' /\ ReadInv' /\ RecordOutlivesWait'
    BY <1>t, <1>3 DEF JoinStale, MutexInv, Inside, ReadInv, Reading, RecordOutlivesWait, ControlOK, Tensor
  <2>3. QED
    BY <2>1, <2>2
<1>4. CASE Admit(c)
  <2>1. ControlOK'
    BY <1>t, <1>4 DEF Admit, ControlOK, States, Reading
  <2>2. MutexInv' /\ ReadInv' /\ RecordOutlivesWait'
    BY <1>t, <1>4 DEF Admit, MutexInv, Inside, ReadInv, Reading, RecordOutlivesWait, ControlOK, Tensor
  <2>3. QED
    BY <2>1, <2>2
<1>5. CASE WaitEnter(c) \/ WaitRecord(c)
  <2>1. ControlOK'
    BY <1>5 DEF WaitEnter, WaitRecord, ControlOK
  <2>2. MutexInv' /\ ReadInv' /\ RecordOutlivesWait'
    BY <1>5 DEF WaitEnter, WaitRecord, MutexInv, Inside, ReadInv, RecordOutlivesWait, ControlOK, Tensor
  <2>3. QED
    BY <2>1, <2>2
<1>6. CASE WaitJoin(c)
  <2>1. ControlOK'
    BY <1>t, <1>6 DEF WaitJoin, ControlOK
  <2>2. MutexInv' /\ ReadInv' /\ RecordOutlivesWait'
    BY <1>t, <1>6 DEF WaitJoin, MutexInv, Inside, ReadInv, Reading, RecordOutlivesWait, ControlOK, Tensor
  <2>3. QED
    BY <2>1, <2>2
<1>7. CASE Release(c)
  <2>1. ControlOK'
    BY <1>t, <1>7 DEF Release, ControlOK, States
  <2>2. MutexInv' /\ ReadInv' /\ RecordOutlivesWait'
    BY <1>t, <1>7 DEF Release, MutexInv, Inside, ReadInv, RecordOutlivesWait, ControlOK, Tensor
  <2>3. QED
    BY <2>1, <2>2
<1>8. QED
  BY <1>1, <1>2, <1>3, <1>4, <1>5, <1>6, <1>7 DEF Caller

\* A thread ends its own read only, and its record stays.
LEMMA ThreadIInv ==
  ASSUME IInv, NEW t \in Tensors, Thread(t)
  PROVE  IInv'
<1> USE MaterializerAssumption DEF IInv, SetState, WorkerGoes, Rest
<1>1. ControlOK'
  BY DEF Thread, ReadSucceeds, TryFallback, ReadFails, Publish, ThreadEnds, ControlOK, States, Reading
<1>2. MutexInv'
  BY DEF Thread, ReadSucceeds, TryFallback, ReadFails, Publish, ThreadEnds, MutexInv
<1>3. ReadInv'
  BY DEF Thread, ReadSucceeds, TryFallback, ReadFails, Publish, ThreadEnds, ControlOK, ReadInv, Reading
<1>4. RecordOutlivesWait'
  <2>1. \A u \in Tensors : /\ worker[u] # "none" => worker'[u] # "none"
                           /\ state[u] # "NotRequested" => state'[u] # "NotRequested"
    BY DEF Thread, ReadSucceeds, TryFallback, ReadFails, Publish, ThreadEnds, ControlOK
  <2>2. UNCHANGED <<pc, call>>
    BY DEF Thread, ReadSucceeds, TryFallback, ReadFails, Publish, ThreadEnds
  <2>3. \A c \in Callers : call[c].tensor \in Tensors
    BY DEF ControlOK, Calls
  <2>4. QED
    BY <2>1, <2>2, <2>3 DEF RecordOutlivesWait, Tensor
<1>5. QED
  BY <1>1, <1>2, <1>3, <1>4

\* The destructor: nobody is inside, and no thread reads when it ends.
LEMMA CloseIInv ==
  ASSUME IInv, CloseStart \/ CloseEnd
  PROVE  IInv'
<1> USE MaterializerAssumption DEF IInv
<1>1. CASE CloseStart
  BY <1>1 DEF CloseStart, ControlOK, MutexInv, Inside, ReadInv, RecordOutlivesWait, Tensor
<1>2. CASE CloseEnd
  <2>1. ControlOK'
    BY <1>2 DEF CloseEnd, ControlOK, States
  <2>2. MutexInv' /\ RecordOutlivesWait'
    BY <1>2 DEF CloseEnd, MutexInv, Inside, RecordOutlivesWait, ControlOK, Tensor
  <2>3. ReadInv'
    BY <1>2 DEF CloseEnd, ReadInv, Reading
  <2>4. QED
    BY <2>1, <2>2, <2>3
<1>3. QED
  BY <1>1, <1>2

\* No step breaks the invariant.
LEMMA StepIInv == IInv /\ [Next]_vars => IInv'
<1> SUFFICES ASSUME IInv, [Next]_vars PROVE IInv'
  OBVIOUS
<1>1. CASE UNCHANGED vars
  BY <1>1 DEF vars, IInv, ControlOK, MutexInv, ReadInv, RecordOutlivesWait, Tensor
<1>2. CASE Next
  BY <1>1, <1>2, CallerIInv, ThreadIInv, CloseIInv DEF Next, Finished
<1>3. QED
  BY <1>1, <1>2

LEMMA Invariance == Spec => []IInv
  BY InitIInv, StepIInv, PTL DEF Spec

-------------------------------------------------------------------------------
\* A thread that reads through a plain pointer finds its record in flight: no
\* call erases or replaces it.
THEOREM ReadsAreSafe == Spec => []RecordOutlivesRead
<1>1. IInv => RecordOutlivesRead
  BY DEF IInv, ReadInv, RecordOutlivesRead
<1>2. QED
  BY <1>1, Invariance, PTL

\* A caller in wait finds the record and the thread it has looked up.
THEOREM WaitsAreSafe == Spec => []RecordOutlivesWait
<1>1. IInv => RecordOutlivesWait
  BY DEF IInv
<1>2. QED
  BY <1>1, Invariance, PTL

-------------------------------------------------------------------------------
(***************************************************************************)
(* The byte counters are sums over the records in one state.  A step moves *)
(* one record from one state to another, and its bytes with it.            *)
(***************************************************************************)
Records(k) == {t \in Tensors : state[t] = k}
BytesIn(k) == Total(Bytes, Records(k))

LEMMA BytesInType ==
  ASSUME NEW S \in SUBSET Tensors
  PROVE  Total(Bytes, S) \in Nat
<1>1. Bytes \in [Tensors -> Nat] /\ IsFiniteSet(Tensors)
  BY MaterializerAssumption
<1> QED
  BY <1>1, TotalNatural

LEMMA BytesJoin ==
  ASSUME NEW S \in SUBSET Tensors, NEW t \in Tensors
  PROVE  /\ t \in S => Total(Bytes, S \ {t}) = Total(Bytes, S) - Bytes[t]
         /\ t \notin S => Total(Bytes, S \cup {t}) = Total(Bytes, S) + Bytes[t]
<1>1. Bytes \in [Tensors -> Int] /\ IsFiniteSet(Tensors) /\ Bytes[t] \in Nat
  BY MaterializerAssumption
<1>2. Total(Bytes, S) \in Nat /\ Total(Bytes, S \ {t}) \in Nat
  BY BytesInType
<1>3. ASSUME t \in S PROVE Total(Bytes, S \ {t}) = Total(Bytes, S) - Bytes[t]
  <2>1. Total(Bytes, S) = Bytes[t] + Total(Bytes, S \ {t})
    BY <1>1, <1>3, TotalRemoves
  <2> QED
    BY <1>1, <1>2, <2>1
<1>4. ASSUME t \notin S PROVE Total(Bytes, S \cup {t}) = Total(Bytes, S) + Bytes[t]
  <2>1. S \cup {t} \in SUBSET Tensors /\ t \in S \cup {t} /\ (S \cup {t}) \ {t} = S
    BY <1>4
  <2>2. Total(Bytes, S \cup {t}) = Bytes[t] + Total(Bytes, (S \cup {t}) \ {t})
    BY <1>1, <2>1, TotalRemoves
  <2> QED
    BY <1>1, <1>2, <2>1, <2>2
<1> QED
  BY <1>3, <1>4

LEMMA RecordMoves ==
  ASSUME state \in [Tensors -> States], NEW t \in Tensors, NEW s, SetState(t, s),
         NEW k, s # state[t]
  PROVE  /\ k = s => BytesIn(k)' = BytesIn(k) + Bytes[t]
         /\ k = state[t] => BytesIn(k)' = BytesIn(k) - Bytes[t]
         /\ k # s /\ k # state[t] => BytesIn(k)' = BytesIn(k)
<1>1. BytesIn(k)' = Total(Bytes, Records(k)')
  BY DEF BytesIn
<1>2. k = s => Records(k)' = Records(k) \cup {t} /\ t \notin Records(k)
  BY DEF Records, SetState
<1>3. k = state[t] => Records(k)' = Records(k) \ {t} /\ t \in Records(k)
  BY DEF Records, SetState
<1>4. k # s /\ k # state[t] => Records(k)' = Records(k)
  BY DEF Records, SetState
<1>5. Records(k) \in SUBSET Tensors
  BY DEF Records
<1> QED
  BY <1>1, <1>2, <1>3, <1>4, <1>5, BytesJoin DEF BytesIn

Exact == inflight_bytes = BytesIn("InFlight") /\ ready_bytes = BytesIn("Ready")

LEMMA ExactIsBytesExact == Exact <=> BytesExact
  BY DEF Exact, BytesExact, BytesIn, Records, Total

\* A caller that has made room for a record has it empty.
AdmitInv == \A c \in Callers : pc[c] \in {"stale", "admit"} => state[Tensor(c)] = "NotRequested"

LEMMA StepAdmit == IInv /\ AdmitInv /\ [Next]_vars => AdmitInv'
<1> SUFFICES ASSUME IInv, AdmitInv, [Next]_vars PROVE AdmitInv'
  OBVIOUS
<1> USE MaterializerAssumption DEF IInv, GoTo, SetState, Enters
<1>t. \A c \in Callers : Tensor(c) \in Tensors
  BY DEF Tensor, ControlOK, Calls
<1>1. ASSUME NEW c \in Callers, Call(c) PROVE AdmitInv'
  BY <1>1 DEF Call, AdmitInv, Tensor, ControlOK
<1>2. ASSUME NEW c \in Callers, Caller(c) PROVE AdmitInv'
  <2>1. UNCHANGED call /\ \A d \in Callers : d # c => pc'[d] = pc[d]
    BY <1>2 DEF Caller, RequestEnter, JoinStale, Admit, WaitEnter, WaitRecord, WaitJoin, Release, ControlOK
  <2>2. ASSUME NEW d \in Callers, pc'[d] \in {"stale", "admit"} PROVE state'[Tensor(d)] = "NotRequested"
    <3>1. CASE d = c
      BY <1>t, <1>2, <2>2, <3>1 DEF Caller, RequestEnter, JoinStale, Admit, WaitEnter, WaitRecord,
         WaitJoin, Release, ControlOK, AdmitInv, States
    <3>2. CASE d # c
      <4>1. pc[d] \in {"stale", "admit"} /\ worker_mutex = d
        BY <2>1, <2>2, <3>2 DEF MutexInv, Inside
      <4>2. worker_mutex # "nobody" /\ worker_mutex # c
        BY <3>2, <4>1
      <4>3. pc[c] \notin Inside
        BY <4>2 DEF MutexInv
      <4> QED
        BY <1>2, <4>2, <4>3 DEF Caller, RequestEnter, JoinStale, Admit, WaitEnter, WaitRecord, WaitJoin,
           Release, Inside
    <3> QED
      BY <3>1, <3>2
  <2> QED
    BY <2>1, <2>2 DEF AdmitInv, Tensor
<1>3. ASSUME NEW t \in Tensors, Thread(t) PROVE AdmitInv'
  <2>1. \A u \in Tensors : state[u] = "NotRequested" => state'[u] = "NotRequested"
    BY <1>3 DEF Thread, ReadSucceeds, TryFallback, ReadFails, Publish, ThreadEnds, ControlOK, ReadInv, Reading
  <2>2. UNCHANGED <<pc, call>>
    BY <1>3 DEF Thread, ReadSucceeds, TryFallback, ReadFails, Publish, ThreadEnds, Rest
  <2> QED
    BY <1>t, <2>1, <2>2 DEF AdmitInv, Tensor
<1>4. CASE CloseStart
  BY <1>4 DEF CloseStart, AdmitInv, Tensor
<1>5. CASE CloseEnd
  <2>1. \A u \in Tensors : state[u] = "NotRequested" => state'[u] = "NotRequested"
    BY <1>5 DEF CloseEnd
  <2> QED
    BY <1>t, <1>5, <2>1 DEF CloseEnd, AdmitInv, Tensor
<1>6. CASE UNCHANGED vars
  BY <1>6 DEF vars, AdmitInv, Tensor
<1> QED
  BY <1>1, <1>2, <1>3, <1>4, <1>5, <1>6 DEF Next, Finished

\* Nobody is inside when the destructor runs, and nothing is left after it.
CloseInv ==
  /\ life # "open" => \A c \in Callers : pc[c] = "idle"
  /\ life = "closed" => Clean

LEMMA StepExact == IInv /\ AdmitInv /\ Exact /\ [Next]_vars => Exact'
<1> SUFFICES ASSUME IInv, AdmitInv, Exact, [Next]_vars PROVE Exact'
  OBVIOUS
<1>t. /\ state \in [Tensors -> States] /\ Bytes \in [Tensors -> Nat]
      /\ \A c \in Callers : Tensor(c) \in Tensors
  BY MaterializerAssumption DEF IInv, ControlOK, Tensor, Calls
<1>n. BytesIn("InFlight") \in Nat /\ BytesIn("Ready") \in Nat
  BY BytesInType DEF BytesIn, Records
<1>1. ASSUME UNCHANGED <<state, inflight_bytes, ready_bytes>> PROVE Exact'
  BY <1>1 DEF Exact, BytesIn, Records
<1>2. ASSUME NEW c \in Callers, Call(c) \/ JoinStale(c) \/ WaitEnter(c) \/ WaitRecord(c) \/ WaitJoin(c)
      PROVE  Exact'
  BY <1>1, <1>2 DEF Call, JoinStale, WaitEnter, WaitRecord, WaitJoin
<1>3. ASSUME NEW c \in Callers, RequestEnter(c) PROVE Exact'
  <2>1. CASE state[Tensor(c)] \in {"Released", "Failed"} /\ SetState(Tensor(c), "NotRequested")
    <3>1. UNCHANGED <<inflight_bytes, ready_bytes>>
      BY <1>3 DEF RequestEnter
    <3>2. BytesIn("InFlight")' = BytesIn("InFlight") /\ BytesIn("Ready")' = BytesIn("Ready")
      BY <1>t, <2>1, RecordMoves
    <3> QED
      BY <3>1, <3>2 DEF Exact
  <2>2. CASE UNCHANGED state
    BY <1>1, <1>3, <2>2 DEF RequestEnter
  <2> QED
    BY <1>3, <2>1, <2>2 DEF RequestEnter
<1>4. ASSUME NEW c \in Callers, Admit(c) PROVE Exact'
  <2>1. CASE UNCHANGED <<state, inflight_bytes>>
    BY <1>1, <1>4, <2>1 DEF Admit
  <2>2. CASE SetState(Tensor(c), "InFlight") /\ inflight_bytes' = inflight_bytes + Bytes[Tensor(c)]
    <3>1. state[Tensor(c)] = "NotRequested" /\ UNCHANGED ready_bytes
      BY <1>4 DEF Admit, AdmitInv
    <3>2. /\ BytesIn("InFlight")' = BytesIn("InFlight") + Bytes[Tensor(c)]
          /\ BytesIn("Ready")' = BytesIn("Ready")
      BY <1>t, <2>2, <3>1, RecordMoves
    <3> QED
      BY <2>2, <3>1, <3>2 DEF Exact
  <2> QED
    BY <1>4, <2>1, <2>2 DEF Admit
<1>5. ASSUME NEW c \in Callers, Release(c) PROVE Exact'
  <2>1. CASE state[Tensor(c)] # "Ready"
    BY <1>1, <1>5, <2>1 DEF Release
  <2>2. CASE state[Tensor(c)] = "Ready"
    <3>1. /\ SetState(Tensor(c), "Released") /\ ready_bytes' = ready_bytes - Bytes[Tensor(c)]
          /\ UNCHANGED inflight_bytes
      BY <1>5, <2>2 DEF Release
    <3>2. /\ BytesIn("InFlight")' = BytesIn("InFlight")
          /\ BytesIn("Ready")' = BytesIn("Ready") - Bytes[Tensor(c)]
      BY <1>t, <2>2, <3>1, RecordMoves
    <3> QED
      BY <3>1, <3>2 DEF Exact
  <2> QED
    BY <2>1, <2>2
<1>6. ASSUME NEW t \in Tensors, Thread(t) PROVE Exact'
  <2>1. CASE ReadSucceeds(t) \/ TryFallback(t) \/ ThreadEnds(t)
    BY <1>1, <2>1 DEF ReadSucceeds, TryFallback, ThreadEnds
  <2>2. CASE ReadFails(t)
    <3>1. state[t] = "InFlight" /\ SetState(t, "Failed")
      BY <2>2 DEF ReadFails, IInv, ReadInv
    <3>2. /\ BytesIn("InFlight")' = BytesIn("InFlight") - Bytes[t]
          /\ BytesIn("Ready")' = BytesIn("Ready")
      BY <1>t, <3>1, RecordMoves
    <3> QED
      BY <2>2, <3>2 DEF Exact, ReadFails
  <2>3. CASE Publish(t)
    <3>1. state[t] = "InFlight" /\ SetState(t, "Ready")
      BY <2>3 DEF Publish, IInv, ReadInv, Reading
    <3>2. /\ BytesIn("InFlight")' = BytesIn("InFlight") - Bytes[t]
          /\ BytesIn("Ready")' = BytesIn("Ready") + Bytes[t]
      BY <1>t, <3>1, RecordMoves
    <3> QED
      BY <2>3, <3>2 DEF Exact, Publish
  <2> QED
    BY <1>6, <2>1, <2>2, <2>3 DEF Thread
<1>7. CASE CloseStart
  BY <1>1, <1>7 DEF CloseStart
<1>8. CASE CloseEnd
  <2>1. Records("Ready")' = {} /\ Records("InFlight")' = Records("InFlight")
    BY <1>t, <1>8 DEF CloseEnd, Records
  <2>2. Total(Bytes, {}) = 0
    <3>1. Bytes \in [Tensors -> Int] /\ IsFiniteSet(Tensors)
      BY MaterializerAssumption
    <3> QED
      BY <3>1, TotalUnfolds
  <2> QED
    BY <1>8, <2>1, <2>2 DEF CloseEnd, Exact, BytesIn
<1>9. CASE UNCHANGED vars
  BY <1>1, <1>9 DEF vars
<1> QED
  BY <1>2, <1>3, <1>4, <1>5, <1>6, <1>7, <1>8, <1>9 DEF Next, Caller, Finished, vars

LEMMA StepClose == IInv /\ Exact /\ CloseInv /\ [Next]_vars => CloseInv'
<1> SUFFICES ASSUME IInv, Exact, CloseInv, [Next]_vars PROVE CloseInv'
  OBVIOUS
<1>1. ASSUME NEW c \in Callers, Call(c) \/ Caller(c) PROVE CloseInv'
  <2>1. life = "open" /\ UNCHANGED life
    BY <1>1 DEF Call, Caller, RequestEnter, JoinStale, Admit, WaitEnter, WaitRecord, WaitJoin, Release,
       Enters, CloseInv, IInv, ControlOK
  <2> QED
    BY <2>1 DEF CloseInv
<1>2. ASSUME NEW t \in Tensors, Thread(t) PROVE CloseInv'
  <2>1. life # "closed" /\ UNCHANGED <<life, pc>>
    BY <1>2 DEF Thread, ReadSucceeds, TryFallback, ReadFails, Publish, ThreadEnds, Rest, CloseInv, Clean, Reading
  <2> QED
    BY <2>1 DEF CloseInv
<1>3. CASE CloseStart
  BY <1>3 DEF CloseStart, CloseInv
<1>4. CASE CloseEnd
  <2>1. \A t \in Tensors : state[t] # "InFlight"
    BY <1>4 DEF CloseEnd, IInv, ReadInv, Reading
  <2>2. Records("InFlight") = {}
    BY <2>1 DEF Records
  <2>3. Total(Bytes, {}) = 0
    <3>1. Bytes \in [Tensors -> Int] /\ IsFiniteSet(Tensors)
      BY MaterializerAssumption
    <3> QED
      BY <3>1, TotalUnfolds
  <2>4. inflight_bytes' = 0
    BY <1>4, <2>2, <2>3 DEF CloseEnd, Exact, BytesIn
  <2>5. Clean'
    BY <1>4, <2>1, <2>4 DEF CloseEnd, Clean
  <2>6. \A c \in Callers : pc[c] = "idle"
    BY <1>4 DEF CloseEnd, CloseInv
  <2> QED
    BY <1>4, <2>5, <2>6 DEF CloseEnd, CloseInv
<1>5. CASE UNCHANGED vars
  BY <1>5 DEF vars, CloseInv, Clean
<1> QED
  BY <1>1, <1>2, <1>3, <1>4, <1>5 DEF Next, Finished

FullIInv == IInv /\ AdmitInv /\ Exact /\ CloseInv

LEMMA FullInvariance == Spec => []FullIInv
<1>1. Init => FullIInv
  <2> SUFFICES ASSUME Init PROVE FullIInv
    OBVIOUS
  <2>1. Records("InFlight") = {} /\ Records("Ready") = {}
    BY DEF Init, Records
  <2>2. Total(Bytes, {}) = 0
    <3>1. Bytes \in [Tensors -> Int] /\ IsFiniteSet(Tensors)
      BY MaterializerAssumption
    <3> QED
      BY <3>1, TotalUnfolds
  <2>3. Exact
    BY <2>1, <2>2 DEF Init, Exact, BytesIn
  <2>4. AdmitInv /\ CloseInv
    BY DEF Init, AdmitInv, CloseInv
  <2> QED
    BY <2>3, <2>4, InitIInv DEF FullIInv
<1>2. FullIInv /\ [Next]_vars => FullIInv'
  BY StepIInv, StepAdmit, StepExact, StepClose DEF FullIInv
<1>3. QED
  BY <1>1, <1>2, PTL DEF Spec

\* Whatever fails, is released, refused or asked for again, the counters are
\* what is being read and what is ready.
THEOREM BytesAreExact == Spec => []BytesExact
<1>1. FullIInv => BytesExact
  BY ExactIsBytesExact DEF FullIInv
<1>2. QED
  BY <1>1, FullInvariance, PTL

\* When the destructor has returned, no thread runs and no byte is held.
THEOREM ClosesClean == Spec => [](life = "closed" => Clean)
<1>1. FullIInv => (life = "closed" => Clean)
  BY DEF FullIInv, CloseInv
<1>2. QED
  BY <1>1, FullInvariance, PTL

-------------------------------------------------------------------------------
(***************************************************************************)
(* The interface's promise.  Each step of a caller or a thread changes the *)
(* state of one tensor as the interface allows, or of none; the budget a   *)
(* caller gives bounds both counters, which are what the interface counts. *)
(***************************************************************************)
LEMMA HeldIsCounted ==
  ASSUME FullIInv
  PROVE  Lifecycle!Held = inflight_bytes + ready_bytes
<1> DEFINE H == {t \in Tensors : state[t] \in {"InFlight", "Ready"}}
<1>1. Lifecycle!Held = Total(Bytes, H)
  BY DEF Lifecycle!Held, Lifecycle!MapThenSumSet, Lifecycle!MapThenFoldSet, Total, MapThenSumSet, MapThenFoldSet
<1>2. Bytes \in [Tensors -> Int] /\ IsFiniteSet(Tensors)
  BY MaterializerAssumption
<1>3. Records("InFlight") \in SUBSET H /\ H \ Records("InFlight") = Records("Ready") /\ H \in SUBSET Tensors
  BY DEF Records
<1> HIDE DEF H
<1>4. Total(Bytes, H) = Total(Bytes, Records("InFlight")) + Total(Bytes, H \ Records("InFlight"))
  BY <1>2, <1>3, TotalSplits
<1> QED
  BY <1>1, <1>3, <1>4 DEF FullIInv, Exact, BytesIn

LEMMA AdmitBegins ==
  ASSUME FullIInv, NEW c \in Callers, Admit(c), state' # state
  PROVE  Lifecycle!Begin(Tensor(c))
<1>1. /\ SetState(Tensor(c), "InFlight") /\ Fits(Tensor(c), call[c].budget)
      /\ state[Tensor(c)] = "NotRequested"
  BY DEF Admit, FullIInv, AdmitInv
<1>2. Tensor(c) \in Tensors /\ call[c].budget \in Budgets \cup {0} /\ Bytes[Tensor(c)] \in Nat \ {0}
  BY MaterializerAssumption DEF FullIInv, IInv, ControlOK, Tensor, Calls
<1>3. call[c].budget \in Budgets /\ Budgets \subseteq Int /\ IsFiniteSet(Budgets)
  BY <1>1, <1>2, MaterializerAssumption DEF Fits
<1>4. call[c].budget <= Max(Budgets) /\ Max(Budgets) \in Int
  BY <1>3, MaxIsGreatest
<1>5. inflight_bytes + ready_bytes + Bytes[Tensor(c)] <= Max(Budgets)
  <2>1. inflight_bytes \in Nat /\ ready_bytes \in Nat
    BY BytesInType DEF FullIInv, Exact, BytesIn, Records
  <2>2. inflight_bytes + ready_bytes + Bytes[Tensor(c)] <= call[c].budget
    BY <1>1 DEF Fits
  <2> DEFINE m == Max(Budgets)
             b == call[c].budget
  <2>3. m \in Int /\ b \in Int /\ b <= m
    BY <1>3, <1>4
  <2> HIDE DEF m, b
  <2> QED
    BY <1>2, <2>1, <2>2, <2>3 DEF m, b, Fits
<1> QED
  BY <1>1, <1>5, HeldIsCounted DEF Lifecycle!Begin, Lifecycle!Becomes, SetState

LEMMA StepImplements ==
  ASSUME FullIInv, [Next]_vars, state' # state
  PROVE  Lifecycle!LifecycleNext
<1> USE DEF Lifecycle!Becomes, SetState
<1>t. \A c \in Callers : Tensor(c) \in Tensors
  BY DEF FullIInv, IInv, ControlOK, Tensor, Calls
<1>1. ASSUME NEW c \in Callers, RequestEnter(c) PROVE Lifecycle!Forget(Tensor(c))
  BY <1>1 DEF RequestEnter, Lifecycle!Forget
<1>2. ASSUME NEW c \in Callers, Release(c) PROVE Lifecycle!GiveBack(Tensor(c))
  BY <1>2 DEF Release, Lifecycle!GiveBack
<1>3. ASSUME NEW t \in Tensors, ReadFails(t) PROVE Lifecycle!Fail(t)
  BY <1>3 DEF ReadFails, Lifecycle!Fail, FullIInv, IInv, ReadInv
<1>4. ASSUME NEW t \in Tensors, Publish(t) PROVE Lifecycle!Arrive(t)
  BY <1>4 DEF Publish, Lifecycle!Arrive, FullIInv, IInv, ReadInv, Reading
<1>5. CASE CloseEnd
  BY <1>5 DEF CloseEnd, Lifecycle!GiveBackAll, Lifecycle!LifecycleNext
<1>6. ASSUME NEW c \in Callers, Call(c) \/ JoinStale(c) \/ WaitEnter(c) \/ WaitRecord(c) \/ WaitJoin(c)
      PROVE  FALSE
  BY <1>6 DEF Call, JoinStale, WaitEnter, WaitRecord, WaitJoin
<1>7. ASSUME NEW t \in Tensors, ReadSucceeds(t) \/ TryFallback(t) \/ ThreadEnds(t) PROVE FALSE
  BY <1>7 DEF ReadSucceeds, TryFallback, ThreadEnds
<1>8. CASE CloseStart \/ Finished \/ UNCHANGED vars
  BY <1>8 DEF CloseStart, Finished, vars
<1> QED
  BY <1>t, <1>1, <1>2, <1>3, <1>4, <1>5, <1>6, <1>7, <1>8, AdmitBegins
     DEF Next, Caller, Thread, Lifecycle!LifecycleNext

\* The materializer implements what its interface promises: each tensor changes
\* state in the promised order, and what is being read or ready never exceeds the
\* largest budget.
THEOREM ImplementsPayloadLifecycle == Spec => ImplementsLifecycle
<1>1. Init => Lifecycle!LifecycleInit
  BY DEF Init, Lifecycle!LifecycleInit
<1>2. FullIInv /\ [Next]_vars => [Lifecycle!LifecycleNext]_state
  BY StepImplements
<1>3. QED
  BY <1>1, <1>2, FullInvariance, PTL DEF Spec, ImplementsLifecycle, Lifecycle!LifecycleSpec
===============================================================================
