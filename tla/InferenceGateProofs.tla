-------------------------- MODULE InferenceGateProofs --------------------------
(* Theorems about InferenceGate for any number of connections and workers. *)
EXTENDS InferenceGate, TLAPS

(***************************************************************************)
(* The inductive invariant.  TypeOK alone is not inductive: that a counter *)
(* stays within 0..1 needs to know at which points of the handler it has   *)
(* been incremented, and where the set of classified orders lies needs to  *)
(* know which orders have been handed out.                                 *)
(***************************************************************************)
OrderInv == \A o \in Orders : pc[o] = "idle" <=> o >= connection_order

ScopeInv ==
  \A o \in Orders :
    /\ pc[o] \in {"idle", "reading", "parsing", "rejected"} => scope[o] = "unclassified"
    /\ pc[o] = "responding" => scope[o] = "control"
    /\ pc[o] \in {"acquiring", "parked"} => scope[o] = "generation"
    /\ pc[o] \in {"admitted", "running"} => scope[o] = "acquired"
    /\ pc[o] \in {"closing", "done"} => scope[o] = "destroyed"
    /\ pc[o] = "leaving" => scope[o] # "destroyed"

CounterInv ==
  \A o \in Orders :
    /\ scope[o] \notin {"acquired", "destroyed"} => lease_acquires[o] = 0
    /\ scope[o] # "destroyed" => lease_releases[o] = 0
    /\ pc[o] \notin {"running", "leaving", "closing", "done"} => runtime_entry_count[o] = 0

HoleInv ==
  /\ classified_through_ <= connection_order
  /\ classified_through_ \notin classified_
  /\ \A o \in Orders : Known(o) <=> o < classified_through_ \/ o \in classified_

IInv == /\ TypeOK /\ OrderInv /\ ScopeInv /\ CounterInv /\ HoleInv
        /\ WaitersAreWaiting /\ OneGeneration

-------------------------------------------------------------------------------
\* The server starts with no connection, so every part of the invariant holds.
LEMMA InitIInv == Init => IInv
<1> SUFFICES ASSUME Init PROVE IInv
  OBVIOUS
<1> USE GateAssumption DEF Init, Orders
<1>1. TypeOK
  <2>a. shutdown_requested \in BOOLEAN /\ active_ \in BOOLEAN
    BY Zenon
  <2>1. ListenerTypeOK
    BY <2>a DEF ListenerTypeOK
  <2>2. RequestTypeOK
    BY DEF RequestTypeOK, PcValues, Scopes, Reasons, States, Terminal
  <2>3. GateTypeOK
    BY <2>a DEF GateTypeOK
  <2>4. QED
    BY <2>1, <2>2, <2>3 DEF TypeOK
<1>2. OrderInv /\ ScopeInv /\ CounterInv
  BY DEF OrderInv, ScopeInv, CounterInv
<1>3. HoleInv
  BY DEF HoleInv, Known
<1>4. WaitersAreWaiting /\ OneGeneration
  BY DEF WaitersAreWaiting, OneGeneration
<1>5. QED
  BY <1>1, <1>2, <1>3, <1>4 DEF IInv

\* What classifying order o does to the frontier: o joins the decided orders
\* and nothing else does, wherever the frontier stops.
LEMMA MarkFact ==
  ASSUME NEW o \in Orders, MarkClassified(o), o >= classified_through_,
         classified_through_ \in 0..NConn, classified_through_ <= connection_order,
         connection_order \in 0..NConn, connection_order' \in 0..NConn,
         connection_order <= connection_order', o < connection_order',
         classified_ \subseteq {p \in Orders : classified_through_ <= p /\ p < connection_order}
  PROVE  /\ classified_through_' \in 0..connection_order'
         /\ classified_through_' \notin classified_'
         /\ classified_' \subseteq {p \in Orders : classified_through_' <= p /\ p < connection_order'}
         /\ \A p \in Orders : (p < classified_through_' \/ p \in classified_')
                              <=> (p < classified_through_ \/ p \in classified_ \/ p = o)
<1> USE GateAssumption DEF Orders
<1>1. PICK t \in classified_through_..NConn :
        /\ classified_through_..(t - 1) \subseteq classified_ \cup {o}
        /\ t \notin classified_ \cup {o}
        /\ classified_through_' = t
        /\ classified_' = (classified_ \cup {o}) \ (classified_through_..(t - 1))
  BY DEF MarkClassified
<1>2. t <= connection_order'
  <2> SUFFICES ASSUME t > connection_order' PROVE FALSE
    BY <1>1
  <2>1. classified_through_ <= connection_order' /\ connection_order' \in classified_through_..(t - 1)
    BY <1>1
  <2>2. QED
    BY <1>1, <2>1
<1>4. ASSUME NEW p \in Orders
      PROVE (p < classified_through_' \/ p \in classified_')
              <=> (p < classified_through_ \/ p \in classified_ \/ p = o)
  <2>1. p < t /\ p >= classified_through_ => p \in classified_ \cup {o}
    BY <1>1
  <2>2. QED
    BY <1>1, <2>1
<1>5. classified_' \subseteq {p \in Orders : classified_through_' <= p /\ p < connection_order'}
  <2> SUFFICES ASSUME NEW p \in classified_'
               PROVE p \in Orders /\ t <= p /\ p < connection_order'
    BY <1>1
  <2>1. p \in classified_ \cup {o} /\ p \notin classified_through_..(t - 1) /\ p # t
    BY <1>1
  <2>2. QED
    BY <2>1
<1>6. /\ classified_through_' \in 0..connection_order'
      /\ classified_through_' \notin classified_'
  BY <1>1, <1>2
<1>7. QED
  BY <1>4, <1>5, <1>6

-------------------------------------------------------------------------------
\* No step of the listener, of a worker or of a client breaks the invariant: one
\* case per action, and in it one step per part that the action can disturb.
LEMMA StepIInv == ASSUME IInv, [Next]_vars PROVE IInv'
<1> USE GateAssumption
    DEF IInv, TypeOK, ListenerTypeOK, RequestTypeOK, GateTypeOK, OrderInv, ScopeInv, CounterInv,
        HoleInv, WaitersAreWaiting, OneGeneration, Known, Orders, Goto, PcValues, Scopes, Reasons,
        States, Terminal, gateVars, listenerVars, requestVars, vars, Live, Cancel
<1>1. CASE UNCHANGED vars
  BY <1>1
<1>2. CASE CheckShutdown
  BY <1>2 DEF CheckShutdown
<1>3. CASE AcceptFails
  BY <1>3 DEF AcceptFails
<1>4. CASE Drain
  BY <1>4 DEF Drain
<1>5. CASE Exit
  BY <1>5 DEF Exit
<1>6. CASE Signal
  <2>1. shutdown_requested' \in BOOLEAN
    BY <1>6, Zenon DEF Signal
  <2>2. QED
    BY <1>6, <2>1 DEF Signal
<1>7. CASE Spawn
  <2>w. connection_order \in Orders /\ connection_order' = connection_order + 1
    BY <1>7 DEF Spawn
  <2>x. workers' \subseteq {o \in Orders : o < connection_order'}
    <3>1. workers' \subseteq workers \cup {connection_order}
      BY <1>7 DEF Spawn
    <3>2. \A w \in workers : w \in Orders /\ w < connection_order
      OBVIOUS
    <3>3. connection_order < connection_order' /\ \A w \in workers : w < connection_order'
      BY <2>w, <3>2
    <3>4. QED
      BY <2>w, <3>1, <3>2, <3>3
  <2>1. ListenerTypeOK'
    BY <1>7, <2>w, <2>x DEF Spawn
  <2>2. RequestTypeOK'
    BY <1>7, <2>w, <2>x DEF Spawn
  <2>3. GateTypeOK'
    BY <1>7, <2>w, <2>x DEF Spawn
  <2>4. OrderInv' /\ ScopeInv' /\ CounterInv'
    BY <1>7, <2>w, <2>x DEF Spawn
  <2>5. HoleInv'
    BY <1>7, <2>w, <2>x DEF Spawn
  <2>6. WaitersAreWaiting' /\ OneGeneration'
    BY <1>7, <2>w, <2>x DEF Spawn
  <2>7. QED
    BY <2>1, <2>2, <2>3, <2>4, <2>5, <2>6
<1>8. CASE Reject
  <2>w. connection_order \in Orders /\ connection_order' = connection_order + 1
    BY <1>8 DEF Reject
  <2>x. workers' \subseteq {o \in Orders : o < connection_order'}
    <3>1. workers' \subseteq workers \cup {connection_order}
      BY <1>8 DEF Reject
    <3>2. \A w \in workers : w \in Orders /\ w < connection_order
      OBVIOUS
    <3>3. connection_order < connection_order' /\ \A w \in workers : w < connection_order'
      BY <2>w, <3>2
    <3>4. QED
      BY <2>w, <3>1, <3>2, <3>3
  <2>a. connection_order \in Orders /\ connection_order >= classified_through_ /\ MarkClassified(connection_order)
    BY <1>8 DEF Reject, Classify
  <2>m. /\ classified_through_' \in 0..connection_order'
        /\ classified_through_' \notin classified_'
        /\ classified_' \subseteq {p \in Orders :
             classified_through_' <= p /\ p < connection_order'}
        /\ \A p \in Orders : (p < classified_through_' \/ p \in classified_')
                             <=> (p < classified_through_ \/ p \in classified_ \/ p = connection_order)
    BY <1>8, <2>a, MarkFact DEF Reject
  <2>1. ListenerTypeOK'
    BY <1>8, <2>a, <2>m, <2>w, <2>x DEF Reject, Classify
  <2>2. RequestTypeOK'
    BY <1>8, <2>a, <2>m, <2>w, <2>x DEF Reject, Classify
  <2>3. GateTypeOK'
    BY <1>8, <2>a, <2>m, <2>w, <2>x DEF Reject, Classify
  <2>4. OrderInv' /\ ScopeInv' /\ CounterInv'
    BY <1>8, <2>a, <2>m, <2>w, <2>x DEF Reject, Classify
  <2>5. HoleInv'
    BY <1>8, <2>a, <2>m, <2>w, <2>x DEF Reject, Classify
  <2>6. WaitersAreWaiting' /\ OneGeneration'
    BY <1>8, <2>a, <2>m, <2>w, <2>x DEF Reject, Classify
  <2>7. QED
    BY <2>1, <2>2, <2>3, <2>4, <2>5, <2>6
<1>9. ASSUME NEW o \in Orders, RequestArrives(o) PROVE IInv'
  BY SMTT(60), <1>9 DEF RequestArrives
<1>10. ASSUME NEW o \in Orders, ReadFails(o) PROVE IInv'
  BY <1>10 DEF ReadFails
<1>11. ASSUME NEW o \in Orders, Respond(o) PROVE IInv'
  BY <1>11 DEF Respond
<1>12. ASSUME NEW o \in Orders, ParseFails(o) PROVE IInv'
  BY <1>12 DEF ParseFails
<1>13. ASSUME NEW o \in Orders, AcquireBlocked(o) PROVE IInv'
  BY <1>13 DEF AcquireBlocked
<1>14. ASSUME NEW o \in Orders, HeadersFail(o) PROVE IInv'
  BY <1>14 DEF HeadersFail
<1>15. ASSUME NEW o \in Orders, ConfigFails(o) PROVE IInv'
  BY <1>15 DEF ConfigFails
<1>16. ASSUME NEW o \in Orders, Close(o) PROVE IInv'
  BY <1>16 DEF Close
<1>17. ASSUME NEW o \in Orders, ClientLeaves(o) PROVE IInv'
  BY <1>17 DEF ClientLeaves
<1>18. ASSUME NEW o \in Orders, ClientStalls(o) PROVE IInv'
  BY <1>18 DEF ClientStalls
<1>19. ASSUME NEW o \in Orders, Wake(o) PROVE IInv'
  <2>a. /\ pc[o] = "parked" /\ pc' = [pc EXCEPT ![o] = "acquiring"]
        /\ cancellation' \in [Orders -> Reasons]
        /\ UNCHANGED <<listenerVars, shutdown_requested, peer, scope, state, runtime_entry_count,
                       lease_acquires, lease_releases, active_requests, gateVars>>
    BY <1>19 DEF Wake
  <2>1. ListenerTypeOK'
    BY <2>a DEF Orders
  <2>2. RequestTypeOK'
    BY <2>a DEF Orders
  <2>3. GateTypeOK'
    BY <2>a DEF Orders
  <2>4. OrderInv' /\ ScopeInv' /\ CounterInv'
    BY <2>a DEF Orders
  <2>5. HoleInv'
    BY <2>a DEF Orders
  <2>6. WaitersAreWaiting' /\ OneGeneration'
    BY <2>a DEF Orders
  <2>7. QED
    BY <2>1, <2>2, <2>3, <2>4, <2>5, <2>6
<1>20. ASSUME NEW o \in Orders, EnterRuntime(o) PROVE IInv'
  <2>a. runtime_entry_count[o] = 0
    BY <1>20 DEF EnterRuntime
  <2>b. runtime_entry_count' = [runtime_entry_count EXCEPT ![o] = 1]
    BY <1>20, <2>a DEF EnterRuntime
  <2>1. ListenerTypeOK'
    BY <1>20, <2>b DEF EnterRuntime
  <2>2. RequestTypeOK'
    BY <1>20, <2>b DEF EnterRuntime
  <2>3. GateTypeOK'
    BY <1>20, <2>b DEF EnterRuntime
  <2>4. OrderInv' /\ ScopeInv' /\ CounterInv'
    BY <1>20, <2>b DEF EnterRuntime
  <2>5. HoleInv'
    BY <1>20, <2>b DEF EnterRuntime
  <2>6. WaitersAreWaiting' /\ OneGeneration'
    BY <1>20, <2>b DEF EnterRuntime
  <2>7. QED
    BY <2>1, <2>2, <2>3, <2>4, <2>5, <2>6
<1>21. ASSUME NEW o \in Orders, AcquireCancelled(o) PROVE IInv'
  <2>1. ListenerTypeOK'
    BY <1>21 DEF AcquireCancelled, CancelLocked
  <2>2. RequestTypeOK'
    BY <1>21 DEF AcquireCancelled, CancelLocked
  <2>3. GateTypeOK'
    BY <1>21 DEF AcquireCancelled, CancelLocked
  <2>4. OrderInv' /\ ScopeInv' /\ CounterInv'
    BY <1>21 DEF AcquireCancelled, CancelLocked
  <2>5. HoleInv'
    BY <1>21 DEF AcquireCancelled, CancelLocked
  <2>6. WaitersAreWaiting' /\ OneGeneration'
    BY <1>21 DEF AcquireCancelled, CancelLocked
  <2>7. QED
    BY <2>1, <2>2, <2>3, <2>4, <2>5, <2>6
<1>22. ASSUME NEW o \in Orders, AcquireAdmitted(o) PROVE IInv'
  <2>a. active_' \in BOOLEAN
    BY <1>22, Zenon DEF AcquireAdmitted
  <2>b. lease_acquires[o] = 0
    BY <1>22 DEF AcquireAdmitted
  <2>c. lease_acquires' = [lease_acquires EXCEPT ![o] = 1]
    BY <1>22, <2>b DEF AcquireAdmitted
  <2>1. ListenerTypeOK'
    BY <1>22, <2>a, <2>c DEF AcquireAdmitted, Admissible
  <2>2. RequestTypeOK'
    BY <1>22, <2>a, <2>c DEF AcquireAdmitted, Admissible
  <2>3. GateTypeOK'
    BY <1>22, <2>a, <2>c DEF AcquireAdmitted, Admissible
  <2>4. OrderInv' /\ ScopeInv' /\ CounterInv'
    BY <1>22, <2>a, <2>c DEF AcquireAdmitted, Admissible
  <2>5. HoleInv'
    BY <1>22, <2>a, <2>c DEF AcquireAdmitted, Admissible
  <2>6. WaitersAreWaiting' /\ OneGeneration'
    BY <1>22, <2>a, <2>c DEF AcquireAdmitted, Admissible
  <2>7. QED
    BY <2>1, <2>2, <2>3, <2>4, <2>5, <2>6
<1>23. ASSUME NEW o \in Orders, NEW outcome \in Terminal, RunEnds(o, outcome) PROVE IInv'
  <2>1. ListenerTypeOK'
    BY <1>23 DEF RunEnds, ObservedReasons
  <2>2. RequestTypeOK'
    BY <1>23 DEF RunEnds, ObservedReasons
  <2>3. GateTypeOK'
    BY <1>23 DEF RunEnds, ObservedReasons
  <2>4. OrderInv' /\ ScopeInv' /\ CounterInv'
    BY <1>23 DEF RunEnds, ObservedReasons
  <2>5. HoleInv'
    BY <1>23 DEF RunEnds, ObservedReasons
  <2>6. WaitersAreWaiting' /\ OneGeneration'
    BY <1>23 DEF RunEnds, ObservedReasons
  <2>7. QED
    BY <2>1, <2>2, <2>3, <2>4, <2>5, <2>6
<1>24. ASSUME NEW o \in Orders, ClassifyControl(o) PROVE IInv'
  <2>a. o \in Orders /\ o >= classified_through_ /\ MarkClassified(o)
    BY <1>24 DEF ClassifyControl, Classify
  <2>m. /\ classified_through_' \in 0..connection_order'
        /\ classified_through_' \notin classified_'
        /\ classified_' \subseteq {p \in Orders :
             classified_through_' <= p /\ p < connection_order'}
        /\ \A p \in Orders : (p < classified_through_' \/ p \in classified_')
                             <=> (p < classified_through_ \/ p \in classified_ \/ p = o)
    BY SMTT(60), <1>24, <2>a, MarkFact DEF ClassifyControl
  <2>1. ListenerTypeOK'
    BY <1>24, <2>a, <2>m DEF ClassifyControl, Classify
  <2>2. RequestTypeOK'
    BY <1>24, <2>a, <2>m DEF ClassifyControl, Classify
  <2>3. GateTypeOK'
    BY <1>24, <2>a, <2>m DEF ClassifyControl, Classify
  <2>4. OrderInv' /\ ScopeInv' /\ CounterInv'
    BY <1>24, <2>a, <2>m DEF ClassifyControl, Classify
  <2>5. HoleInv'
    BY <1>24, <2>a, <2>m DEF ClassifyControl, Classify
  <2>6. WaitersAreWaiting' /\ OneGeneration'
    BY <1>24, <2>a, <2>m DEF ClassifyControl, Classify
  <2>7. QED
    BY <2>1, <2>2, <2>3, <2>4, <2>5, <2>6
<1>25. ASSUME NEW o \in Orders, ClassifyGeneration(o) PROVE IInv'
  <2>a. o \in Orders /\ o >= classified_through_ /\ MarkClassified(o)
    BY <1>25 DEF ClassifyGeneration, Classify
  <2>m. /\ classified_through_' \in 0..connection_order'
        /\ classified_through_' \notin classified_'
        /\ classified_' \subseteq {p \in Orders :
             classified_through_' <= p /\ p < connection_order'}
        /\ \A p \in Orders : (p < classified_through_' \/ p \in classified_')
                             <=> (p < classified_through_ \/ p \in classified_ \/ p = o)
    BY SMTT(60), <1>25, <2>a, MarkFact DEF ClassifyGeneration
  <2>1. ListenerTypeOK'
    BY <1>25, <2>a, <2>m DEF ClassifyGeneration, Classify
  <2>2. RequestTypeOK'
    BY <1>25, <2>a, <2>m DEF ClassifyGeneration, Classify
  <2>3. GateTypeOK'
    BY <1>25, <2>a, <2>m DEF ClassifyGeneration, Classify
  <2>4. OrderInv' /\ ScopeInv' /\ CounterInv'
    BY <1>25, <2>a, <2>m DEF ClassifyGeneration, Classify
  <2>5. HoleInv'
    BY <1>25, <2>a, <2>m DEF ClassifyGeneration, Classify
  <2>6. WaitersAreWaiting' /\ OneGeneration'
    BY <1>25, <2>a, <2>m DEF ClassifyGeneration, Classify
  <2>7. QED
    BY <2>1, <2>2, <2>3, <2>4, <2>5, <2>6
<1>26. ASSUME NEW o \in Orders, Leave(o) PROVE IInv'
  <2>1. CASE scope[o] = "unclassified"
    <3>a. o \in Orders /\ o >= classified_through_ /\ MarkClassified(o)
      BY <1>26, <2>1 DEF Leave, Classify
    <3>m. /\ classified_through_' \in 0..connection_order'
          /\ classified_through_' \notin classified_'
          /\ classified_' \subseteq {p \in Orders :
               classified_through_' <= p /\ p < connection_order'}
          /\ \A p \in Orders : (p < classified_through_' \/ p \in classified_')
                               <=> (p < classified_through_ \/ p \in classified_ \/ p = o)
      BY <1>26, <3>a, MarkFact DEF Leave
    <3>1. ListenerTypeOK'
      BY <1>26, <2>1, <3>a, <3>m DEF Leave, Classify
    <3>2. RequestTypeOK'
      BY <1>26, <2>1, <3>a, <3>m DEF Leave, Classify
    <3>3. GateTypeOK'
      BY <1>26, <2>1, <3>a, <3>m DEF Leave, Classify
    <3>4. OrderInv' /\ ScopeInv' /\ CounterInv'
      BY <1>26, <2>1, <3>a, <3>m DEF Leave, Classify
    <3>5. HoleInv'
      BY <1>26, <2>1, <3>a, <3>m DEF Leave, Classify
    <3>6. WaitersAreWaiting' /\ OneGeneration'
      BY <1>26, <2>1, <3>a, <3>m DEF Leave, Classify
    <3>7. QED
      BY <3>1, <3>2, <3>3, <3>4, <3>5, <3>6
  <2>2. CASE scope[o] = "acquired"
    <3>a. active_' \in BOOLEAN
      BY <1>26, <2>2, Zenon DEF Leave
    <3>b. UNCHANGED <<connection_order, classified_, waiting_generations_, classified_through_,
                      total_admitted_, total_cancelled_before_admission_>>
      BY <1>26, <2>2 DEF Leave
    <3>c. lease_releases[o] = 0
      BY <2>2
    <3>d. lease_releases' = [lease_releases EXCEPT ![o] = 1]
      BY <1>26, <2>2, <3>c DEF Leave
    <3>1. ListenerTypeOK'
      BY <1>26, <2>2, <3>a, <3>b, <3>d DEF Leave
    <3>2. RequestTypeOK'
      BY <1>26, <2>2, <3>a, <3>b, <3>d DEF Leave
    <3>3. GateTypeOK'
      BY <3>a, <3>b, <3>d
    <3>4. OrderInv' /\ ScopeInv' /\ CounterInv'
      BY <1>26, <2>2, <3>a, <3>b, <3>d DEF Leave
    <3>5. HoleInv'
      BY <1>26, <2>2, <3>a, <3>b, <3>d DEF Leave
    <3>6. WaitersAreWaiting' /\ OneGeneration'
      BY <1>26, <2>2, <3>a, <3>b, <3>d DEF Leave
    <3>7. QED
      BY <3>1, <3>2, <3>3, <3>4, <3>5, <3>6
  <2>3. CASE scope[o] \in {"control", "generation"}
    <3>a. /\ CancelLocked(o) /\ UNCHANGED lease_releases
          /\ scope' = [scope EXCEPT ![o] = "destroyed"] /\ pc[o] = "leaving"
          /\ pc' = [pc EXCEPT ![o] = "closing"]
          /\ UNCHANGED <<listenerVars, shutdown_requested, peer, cancellation, state,
                         runtime_entry_count, lease_acquires, active_requests>>
      BY <1>26, <2>3 DEF Leave
    <3>1. ListenerTypeOK'
      BY <2>3, <3>a DEF CancelLocked
    <3>2. RequestTypeOK'
      BY <2>3, <3>a DEF CancelLocked
    <3>3. GateTypeOK'
      BY <2>3, <3>a DEF CancelLocked
    <3>4. OrderInv' /\ ScopeInv' /\ CounterInv'
      BY <2>3, <3>a DEF CancelLocked
    <3>5. HoleInv'
      BY <2>3, <3>a DEF CancelLocked
    <3>6. WaitersAreWaiting' /\ OneGeneration'
      BY <2>3, <3>a DEF CancelLocked
    <3>7. QED
      BY <3>1, <3>2, <3>3, <3>4, <3>5, <3>6
  <2>4. QED
    BY <1>26, <2>1, <2>2, <2>3 DEF Leave
<1> HIDE DEF IInv, TypeOK, ListenerTypeOK, RequestTypeOK, GateTypeOK, OrderInv, ScopeInv,
        CounterInv, HoleInv, WaitersAreWaiting, OneGeneration, vars, Orders, Terminal
<1>27. QED
  BY <1>1, <1>2, <1>3, <1>4, <1>5, <1>6, <1>7, <1>8, <1>9, <1>10, <1>11, <1>12, <1>13, <1>14, <1>15, <1>16, <1>17, <1>18, <1>19, <1>20, <1>21, <1>22, <1>23, <1>24, <1>25, <1>26
  DEF Next, Listener, Worker, Proceed, Acquire, Terminated

\* The invariant holds in every reachable state of the server.
LEMMA AlwaysIInv == Spec => []IInv
BY InitIInv, StepIInv, PTL DEF Spec

\* Every reachable state is well typed: the request counters never exceed one
\* and the classified orders lie between the frontier and the last order given out.
THEOREM TypeCorrect == Spec => []TypeOK
<1>1. IInv => TypeOK
  BY DEF IInv
<1>2. QED
  BY <1>1, AlwaysIInv, PTL

\* InferenceGate grants at most one generation lease, and active_ is exactly
\* the existence of a holder.
THEOREM MutualExclusion == Spec => []OneGeneration
<1>1. IInv => OneGeneration
  BY DEF IInv
<1>2. QED
  BY <1>1, AlwaysIInv, PTL

\* The frontier classified_through_ is the first connection still undecided,
\* however the earlier ones ended.
THEOREM NoHole == Spec => []NoFifoHole
<1>1. IInv => NoFifoHole
  <2> SUFFICES ASSUME IInv, NEW o \in Orders
               PROVE o < classified_through_ <=> \A p \in 0..o : Known(p)
    BY DEF NoFifoHole
  <2> USE GateAssumption DEF IInv, HoleInv, TypeOK, ListenerTypeOK, GateTypeOK, Orders
  <2>1. ASSUME o < classified_through_, NEW p \in 0..o PROVE Known(p)
    BY <2>1
  <2>2. ASSUME ~(o < classified_through_) PROVE ~Known(classified_through_)
    BY <2>2
  <2>3. ~(o < classified_through_) => classified_through_ \in 0..o
    OBVIOUS
  <2>4. QED
    BY <2>1, <2>2, <2>3
<1>2. QED
  BY <1>1, AlwaysIInv, PTL

\* The waiting set holds exactly the workers inside acquire: a request that
\* leaves acquire, for whatever reason, has left the set.
THEOREM WaitingSetExact == Spec => []WaitersAreWaiting
<1>1. IInv => WaitersAreWaiting
  BY DEF IInv
<1>2. QED
  BY <1>1, AlwaysIInv, PTL

\* A request whose cancellation has been recorded is never given the lease.
THEOREM CancelledStayOut == Spec => CancelledNeverAdmitted
<1>1. ASSUME IInv, [Next]_vars, NEW p \in Orders, cancellation[p] # "none"
      PROVE lease_acquires'[p] = lease_acquires[p]
  <2> USE <1>1 DEF requestVars
  <2>1. ASSUME NEW o \in Orders, AcquireAdmitted(o)
        PROVE lease_acquires'[p] = lease_acquires[p]
    <3>1. o # p
      BY <2>1 DEF AcquireAdmitted
    <3>2. QED
      BY <2>1, <3>1 DEF AcquireAdmitted, IInv, TypeOK, RequestTypeOK
  <2>2. CASE UNCHANGED vars
    BY <2>2 DEF vars
  <2>3. CASE Listener \/ Signal
    BY <2>3 DEF Listener, CheckShutdown, AcceptFails, Spawn, Reject, Drain, Exit, Signal
  <2>4. ASSUME NEW o \in Orders, Worker(o) \/ ClientLeaves(o) \/ ClientStalls(o), ~AcquireAdmitted(o)
        PROVE lease_acquires'[p] = lease_acquires[p]
    BY <2>4 DEF Worker, Proceed, Acquire, ClientLeaves, ClientStalls, RequestArrives, ReadFails,
       ClassifyControl, ParseFails, ClassifyGeneration, Respond, AcquireCancelled, AcquireBlocked,
       Wake, HeadersFail, ConfigFails, EnterRuntime, RunEnds, Leave, Close
  <2>5. QED
    BY <2>1, <2>2, <2>3, <2>4 DEF Next, Terminated
<1>2. ASSUME IInv, [Next]_vars
      PROVE [\A o \in Orders : cancellation[o] # "none"
                => lease_acquires'[o] = lease_acquires[o]]_vars
  BY <1>1, <1>2
<1>3. QED
  BY <1>2, AlwaysIInv, PTL DEF Spec, CancelledNeverAdmitted

-------------------------------------------------------------------------------
(* Refinement: where a connection stands in the abstract lock can be read off   *)
(* its worker alone, so a step moves at most the connection that takes it.      *)

WorkerPhase(o) ==
  IF scope[o] = "acquired" THEN "holding"
  ELSE IF pc[o] \in {"acquiring", "parked"} THEN "queued"
  ELSE IF Known(o) THEN "left"
  ELSE "pending"

\* The gate's sets and the worker's own program counter and scope agree on the
\* abstract phase of a connection.
LEMMA PhaseFact == IInv => \A o \in Orders : AbstractPhase(o) = WorkerPhase(o)
BY DEF IInv, HoleInv, WaitersAreWaiting, AbstractPhase, WorkerPhase

\* The same in the state after a step.
LEMMA PhaseFactPrime == IInv' => (\A o \in Orders : AbstractPhase(o) = WorkerPhase(o))'
BY DEF IInv, HoleInv, WaitersAreWaiting, AbstractPhase, WorkerPhase, Known

\* A step that changes pc and scope of connection o only, moves the abstract
\* phase of o only.
LEMMA OneMoves ==
  ASSUME IInv, IInv', NEW o \in Orders, NEW v,
         \A p \in Orders : p # o => pc'[p] = pc[p] /\ scope'[p] = scope[p],
         WorkerPhase(o)' = v
  PROVE  [p \in Orders |-> AbstractPhase(p)]'
           = [[p \in Orders |-> AbstractPhase(p)] EXCEPT ![o] = v]
<1>1. \A p \in Orders : p # o => WorkerPhase(p)' = WorkerPhase(p)
  BY DEF WorkerPhase, Known
<1>2. \A p \in Orders : AbstractPhase(p) = WorkerPhase(p) /\ AbstractPhase(p)' = WorkerPhase(p)'
  BY PhaseFact, PhaseFactPrime
<1>3. QED
  BY ZenonT(60), <1>1, <1>2

\* Every step of the server is a step of the abstract lock or leaves it alone.
LEMMA StepFifo ==
  ASSUME IInv, IInv', [Next]_vars
  PROVE  [Fifo!Next]_([o \in Orders |-> AbstractPhase(o)])
<1> DEFINE Ph == [o \in Orders |-> AbstractPhase(o)]
<1>o. Fifo!Orders = Orders
  BY DEF Fifo!Orders, Orders
<1>p. \A o \in Orders : Ph[o] = WorkerPhase(o)
  BY PhaseFact
<1>s. ASSUME \A o \in Orders : WorkerPhase(o)' = WorkerPhase(o)
      PROVE Ph' = Ph
  BY <1>s, PhaseFact, PhaseFactPrime
<1>v. pc \in [Orders -> PcValues] /\ scope \in [Orders -> Scopes]
  BY DEF IInv, TypeOK, RequestTypeOK
<1>i. ScopeInv /\ OrderInv
  BY DEF IInv
<1> USE DEF WorkerPhase, Known, Goto
<1>1. ASSUME \/ UNCHANGED vars \/ CheckShutdown \/ AcceptFails \/ Drain \/ Exit \/ Signal
      PROVE Ph' = Ph
  <2>1. UNCHANGED <<pc, scope>>
    BY <1>1 DEF vars, CheckShutdown, AcceptFails, Drain, Exit, Signal
  <2>2. QED
    BY <2>1, <1>s
<1>2. ASSUME NEW o \in Orders,
             \/ RequestArrives(o) \/ ReadFails(o) \/ ParseFails(o) \/ Respond(o)
             \/ AcquireBlocked(o) \/ Wake(o) \/ HeadersFail(o) \/ ConfigFails(o)
             \/ EnterRuntime(o) \/ Close(o) \/ ClientLeaves(o) \/ ClientStalls(o)
             \/ \E outcome \in Terminal : RunEnds(o, outcome)
      PROVE Ph' = Ph
  <2>1. scope' = scope /\ \A p \in Orders : p # o => pc'[p] = pc[p]
    BY <1>2, <1>v DEF RequestArrives, ReadFails, ParseFails, Respond, AcquireBlocked, Wake,
       HeadersFail, ConfigFails, EnterRuntime, Close, ClientLeaves, ClientStalls, RunEnds
  <2>2. /\ (pc'[o] # "rejected" /\ pc[o] # "rejected") \/ pc' = pc
        /\ pc[o] \in {"acquiring", "parked"} <=> pc'[o] \in {"acquiring", "parked"}
    BY <1>2, <1>v DEF RequestArrives, ReadFails, ParseFails, Respond, AcquireBlocked, Wake,
       HeadersFail, ConfigFails, EnterRuntime, Close, ClientLeaves, ClientStalls, RunEnds
  <2>3. QED
    BY <2>1, <2>2, <1>s
<1>3. ASSUME Spawn PROVE Ph' = Ph
  <2>1. connection_order \in Orders /\ pc[connection_order] = "idle"
    BY <1>3, <1>i DEF Spawn, OrderInv, IInv, TypeOK, ListenerTypeOK, Orders
  <2>2. QED
    BY <1>3, <1>s, <1>v, <2>1 DEF Spawn
<1>4. ASSUME Reject PROVE \E o \in Orders : Fifo!Pass(o)
  <2>1. PICK o \in Orders : /\ o = connection_order /\ scope' = scope
                            /\ pc' = [pc EXCEPT ![o] = "rejected"]
    <3>1. /\ connection_order < NConn /\ scope' = scope
          /\ pc' = [pc EXCEPT ![connection_order] = "rejected"]
      BY <1>4, Zenon DEF Reject
    <3>2. connection_order \in Orders
      BY <3>1, GateAssumption DEF IInv, TypeOK, ListenerTypeOK, Orders
    <3>3. QED
      BY <3>1, <3>2
  <2>2. pc[o] = "idle" /\ scope[o] = "unclassified"
    BY <2>1, <1>i DEF OrderInv, ScopeInv, Orders
  <2>3. WorkerPhase(o) = "pending" /\ WorkerPhase(o)' = "left"
    BY <1>v, <2>1, <2>2
  <2>4. \A p \in Orders : p # o => pc'[p] = pc[p] /\ scope'[p] = scope[p]
    BY <1>v, <2>1
  <2>5. QED
    BY <1>p, <2>3, <2>4, OneMoves DEF Fifo!Pass
<1>5. ASSUME NEW o \in Orders, ClassifyControl(o) PROVE Fifo!Pass(o)
  <2>1. WorkerPhase(o) = "pending" /\ WorkerPhase(o)' = "left"
    BY <1>5, <1>i, <1>v DEF ClassifyControl, ScopeInv
  <2>2. \A p \in Orders : p # o => pc'[p] = pc[p] /\ scope'[p] = scope[p]
    BY <1>5, <1>v DEF ClassifyControl
  <2>3. QED
    BY <1>p, <2>1, <2>2, OneMoves DEF Fifo!Pass
<1>6. ASSUME NEW o \in Orders, ClassifyGeneration(o) PROVE Fifo!Enqueue(o)
  <2>1. WorkerPhase(o) = "pending" /\ WorkerPhase(o)' = "queued"
    BY <1>6, <1>i, <1>v DEF ClassifyGeneration, ScopeInv
  <2>2. \A p \in Orders : p # o => pc'[p] = pc[p] /\ scope'[p] = scope[p]
    BY <1>6, <1>v DEF ClassifyGeneration
  <2>3. QED
    BY <1>p, <2>1, <2>2, OneMoves DEF Fifo!Enqueue
<1>7. ASSUME NEW o \in Orders, AcquireCancelled(o) PROVE Fifo!Abandon(o)
  <2>1. WorkerPhase(o) = "queued" /\ WorkerPhase(o)' = "left"
    BY <1>7, <1>i, <1>v DEF AcquireCancelled, ScopeInv
  <2>2. \A p \in Orders : p # o => pc'[p] = pc[p] /\ scope'[p] = scope[p]
    BY <1>7, <1>v DEF AcquireCancelled
  <2>3. QED
    BY <1>p, <2>1, <2>2, OneMoves DEF Fifo!Abandon
<1>8. ASSUME NEW o \in Orders, AcquireAdmitted(o) PROVE Fifo!Grant(o)
  <2>1. WorkerPhase(o) = "queued" /\ WorkerPhase(o)' = "holding"
    BY <1>8, <1>i, <1>v DEF AcquireAdmitted, ScopeInv
  <2>2. \A p \in Orders : p # o => pc'[p] = pc[p] /\ scope'[p] = scope[p]
    BY <1>8, <1>v DEF AcquireAdmitted
  <2>3. \A p \in Orders : scope[p] # "acquired"
    BY <1>8 DEF AcquireAdmitted, Admissible, IInv, OneGeneration
  <2>4. \A p \in Orders : p < o => Known(p) /\ pc[p] \notin {"acquiring", "parked"}
    <3> SUFFICES ASSUME NEW p \in Orders, p < o
                 PROVE Known(p) /\ p \notin waiting_generations_
      BY DEF IInv, WaitersAreWaiting
    <3>1. p < classified_through_ /\ ~(o <= p)
      BY <1>8 DEF AcquireAdmitted, Admissible, IInv, TypeOK, GateTypeOK, Orders
    <3>2. QED
      BY <1>8, <3>1 DEF AcquireAdmitted, Admissible, IInv, HoleInv
  <2>5. \A p \in Orders : (p < o => Ph[p] = "left") /\ Ph[p] # "holding"
    BY <1>p, <2>3, <2>4
  <2>6. QED
    BY <1>p, <1>o, <2>1, <2>2, <2>5, OneMoves DEF Fifo!Grant
<1>9. ASSUME NEW o \in Orders, Leave(o)
      PROVE Ph' = Ph \/ Fifo!Pass(o) \/ Fifo!Release(o)
  <2>1. \A p \in Orders : p # o => pc'[p] = pc[p] /\ scope'[p] = scope[p]
    BY <1>9, <1>v DEF Leave
  <2>2. WorkerPhase(o)' = "left"
    BY <1>9, <1>v DEF Leave
  <2>3. WorkerPhase(o) \in {"pending", "left", "holding"}
    BY <1>9, <1>v DEF Leave
  <2>4. CASE WorkerPhase(o) = "left"
    BY <1>s, <2>1, <2>2, <2>4
  <2>5. CASE WorkerPhase(o) = "pending"
    BY <1>p, <2>1, <2>2, <2>5, OneMoves DEF Fifo!Pass
  <2>6. CASE WorkerPhase(o) = "holding"
    BY <1>p, <2>1, <2>2, <2>6, OneMoves DEF Fifo!Release
  <2>7. QED
    BY <2>3, <2>4, <2>5, <2>6
<1> HIDE DEF Ph, WorkerPhase, Known, Goto
<1>10. Ph' = Ph \/ Fifo!Next
  BY <1>1, <1>2, <1>3, <1>4, <1>5, <1>6, <1>7, <1>8, <1>9, <1>o
  DEF Next, Listener, Worker, Proceed, Acquire, Terminated, Fifo!Next
<1>11. QED
  BY <1>10 DEF Ph

\* The gate implements a lock granted in the order of acceptance: no schedule,
\* cancellation or early departure lets a later connection overtake an earlier one.
THEOREM GateImplementsFifoLock == Spec => FifoAdmission
<1>1. Init => Fifo!Init
  BY DEF Init, Fifo!Init, Fifo!Orders, Orders, AbstractPhase
<1>2. IInv /\ IInv' /\ [Next]_vars => [Fifo!Next]_([o \in Orders |-> AbstractPhase(o)])
  BY StepFifo
<1>3. QED
  BY <1>1, <1>2, AlwaysIInv, PTL DEF Spec, FifoAdmission, Fifo!Spec

===============================================================================
