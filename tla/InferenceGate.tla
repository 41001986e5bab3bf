----------------------------- MODULE InferenceGate -----------------------------
(***************************************************************************)
(* Admission of generation requests in the compatibility server            *)
(* (integrations/ggml/tools/vbuf_compat_server.cpp).  One listener thread  *)
(* accepts connections, numbers them, and gives each to a worker thread;   *)
(* InferenceGate lets one worker at a time run the generation session, in  *)
(* the order the connections were accepted.  Clients may leave or stop     *)
(* reading at any moment, and a signal may ask the server to stop.         *)
(***************************************************************************)
EXTENDS Integers, FiniteSets

CONSTANTS NConn,        \* bound: connections accepted in a behaviour
          MaxWorkers    \* MAX_CONNECTION_WORKERS

ASSUME GateAssumption == NConn \in Nat /\ MaxWorkers \in Nat \ {0}

Orders == 0..(NConn - 1)

VARIABLES
  main,                 \* listener: checking | accepting | draining | joining | exited
  shutdown_requested,   \* set by the signal handler
  connection_order,     \* next order to assign
  workers,              \* orders of the ConnectionWorkers held by the listener
  pc,                   \* pc[o]: where the worker of connection o is
  peer,                 \* peer[o]: open | stalled (does not read) | gone
  scope,                \* InferenceAdmissionScope: unclassified | control | generation |
                        \* acquired | destroyed
  cancellation,         \* RequestCancellation: none or the reason that won
  state,                \* RequestLifecycle::state, "none" before lifecycle.emplace()
  runtime_entry_count, lease_acquires, lease_releases,    \* RequestLifecycle counters
  active_requests,      \* ServerRuntime::active_requests
  classified_, waiting_generations_, classified_through_, active_,
  total_admitted_, total_cancelled_before_admission_      \* InferenceGate

gateVars == <<classified_, waiting_generations_, classified_through_, active_,
              total_admitted_, total_cancelled_before_admission_>>
listenerVars == <<main, connection_order, workers>>
requestVars == <<cancellation, state, runtime_entry_count, lease_acquires, lease_releases>>
vars == <<main, shutdown_requested, connection_order, workers, pc, peer, scope,
          cancellation, state, runtime_entry_count, lease_acquires, lease_releases,
          active_requests, classified_, waiting_generations_, classified_through_,
          active_, total_admitted_, total_cancelled_before_admission_>>

Reasons == {"none", "client_disconnected", "server_shutdown"}
Scopes == {"unclassified", "control", "generation", "acquired", "destroyed"}
PcValues == {"idle", "reading", "parsing", "responding", "acquiring", "parked",
             "admitted", "running", "leaving", "closing", "done", "rejected"}
Terminal == {"Completed", "Failed", "Cancelled"}
States == {"none", "Waiting", "Admitted", "Active"} \cup Terminal

Init ==
  /\ main = "checking"
  /\ shutdown_requested = FALSE
  /\ connection_order = 0
  /\ workers = {}
  /\ pc = [o \in Orders |-> "idle"]
  /\ peer = [o \in Orders |-> "open"]
  /\ scope = [o \in Orders |-> "unclassified"]
  /\ cancellation = [o \in Orders |-> "none"]
  /\ state = [o \in Orders |-> "none"]
  /\ runtime_entry_count = [o \in Orders |-> 0]
  /\ lease_acquires = [o \in Orders |-> 0]
  /\ lease_releases = [o \in Orders |-> 0]
  /\ active_requests = 0
  /\ classified_ = {}
  /\ waiting_generations_ = {}
  /\ classified_through_ = 0
  /\ active_ = FALSE
  /\ total_admitted_ = 0
  /\ total_cancelled_before_admission_ = 0

-------------------------------------------------------------------------------
(* InferenceGate operations, each run under the gate's mutex. *)

\* The loop of mark_classified_locked consumes the longest run of classified
\* orders that starts at classified_through_.
MarkClassified(o) ==
  \E t \in classified_through_..NConn :
    LET marked == classified_ \cup {o}
        run    == classified_through_..(t - 1)
    IN  /\ run \subseteq marked
        /\ t \notin marked
        /\ classified_through_' = t
        /\ classified_' = marked \ run

Classify(o, generation) ==
  /\ waiting_generations_' = IF generation THEN waiting_generations_ \cup {o}
                                           ELSE waiting_generations_
  /\ MarkClassified(o)
  /\ UNCHANGED <<active_, total_admitted_, total_cancelled_before_admission_>>

CancelLocked(o) ==
  /\ waiting_generations_' = waiting_generations_ \ {o}
  /\ total_cancelled_before_admission_' =
       total_cancelled_before_admission_ + (IF o \in waiting_generations_ THEN 1 ELSE 0)
  /\ UNCHANGED <<classified_, classified_through_, active_, total_admitted_>>

\* Mutant: does not look at active_.
AdmissibleWhileActive(o) ==
  /\ classified_through_ > o
  /\ o \in waiting_generations_
  /\ \A p \in waiting_generations_ : o <= p

\* Mutant: does not wait for earlier connections to be classified.
AdmissibleUnclassified(o) ==
  /\ ~active_
  /\ o \in waiting_generations_
  /\ \A p \in waiting_generations_ : o <= p

Admissible(o) ==
  /\ ~active_
  /\ classified_through_ > o
  /\ o \in waiting_generations_
  /\ \A p \in waiting_generations_ : o <= p

\* RequestCancellation::cancel keeps the first reason.
Cancel(o, reason) == IF cancellation[o] = "none" THEN reason ELSE cancellation[o]

Goto(o, l) == pc' = [pc EXCEPT ![o] = l]

-------------------------------------------------------------------------------
(* Listener. *)

Live == {w \in workers : pc[w] # "done"}     \* what reap_workers keeps

CheckShutdown ==
  /\ main = "checking"
  /\ main' = IF shutdown_requested THEN "draining" ELSE "accepting"
  /\ UNCHANGED <<shutdown_requested, connection_order, workers, pc, peer, scope,
                 requestVars, active_requests, gateVars>>

\* accept() fails: the signal handler shut the listening socket, or a transient error.
AcceptFails ==
  /\ main = "accepting"
  /\ main' = IF shutdown_requested THEN "draining" ELSE "checking"
  /\ UNCHANGED <<shutdown_requested, connection_order, workers, pc, peer, scope,
                 requestVars, active_requests, gateVars>>

Spawn ==
  /\ main = "accepting" /\ connection_order < NConn
  /\ Cardinality(Live) < MaxWorkers
  /\ main' = "checking"
  /\ connection_order' = connection_order + 1
  /\ workers' = Live \cup {connection_order}
  /\ Goto(connection_order, "reading")
  /\ UNCHANGED <<shutdown_requested, peer, scope, requestVars, active_requests, gateVars>>

\* Mutant: answers 503 and forgets the order it consumed.
RejectUnclassified ==
  /\ main = "accepting" /\ connection_order < NConn
  /\ main' = "checking"
  /\ connection_order' = connection_order + 1
  /\ workers' = Live
  /\ Goto(connection_order, "rejected")
  /\ UNCHANGED <<shutdown_requested, peer, scope, requestVars, active_requests, gateVars>>

\* 503: the worker limit is reached, or the thread could not be created.
Reject ==
  /\ main = "accepting" /\ connection_order < NConn
  /\ main' = "checking"
  /\ connection_order' = connection_order + 1
  /\ workers' = Live
  /\ Classify(connection_order, FALSE)
  /\ Goto(connection_order, "rejected")
  /\ UNCHANGED <<shutdown_requested, peer, scope, requestVars, active_requests>>

\* Mutant: joins without shutting the sockets.
DrainWithoutShutdown ==
  /\ main = "draining"
  /\ main' = "joining"
  /\ UNCHANGED <<shutdown_requested, connection_order, workers, pc, peer, scope,
                 requestVars, active_requests, gateVars>>

\* Shut the socket of every tracked worker that has not closed it yet.
Drain ==
  /\ main = "draining"
  /\ main' = "joining"
  /\ peer' = [o \in Orders |-> IF o \in workers /\ pc[o] # "done" THEN "gone" ELSE peer[o]]
  /\ UNCHANGED <<shutdown_requested, connection_order, workers, pc, scope, requestVars,
                 active_requests, gateVars>>

Exit ==
  /\ main = "joining"
  /\ Live = {}
  /\ main' = "exited"
  /\ UNCHANGED <<shutdown_requested, connection_order, workers, pc, peer, scope,
                 requestVars, active_requests, gateVars>>

-------------------------------------------------------------------------------
(* Worker of connection o. *)

RequestArrives(o) ==
  /\ pc[o] = "reading"
  /\ Goto(o, "parsing")
  /\ active_requests' = active_requests + 1
  /\ UNCHANGED <<listenerVars, shutdown_requested, peer, scope, requestVars, gateVars>>

\* The peer closed before a whole request, or sent one that read_request rejects.
ReadFails(o) ==
  /\ pc[o] = "reading"
  /\ Goto(o, "leaving")
  /\ UNCHANGED <<listenerVars, shutdown_requested, peer, scope, requestVars,
                 active_requests, gateVars>>

ClassifyControl(o) ==
  /\ pc[o] = "parsing"
  /\ Classify(o, FALSE)
  /\ scope' = [scope EXCEPT ![o] = "control"]
  /\ Goto(o, "responding")
  /\ UNCHANGED <<listenerVars, shutdown_requested, peer, requestVars, active_requests>>

Respond(o) ==
  /\ pc[o] = "responding"
  /\ Goto(o, "leaving")
  /\ active_requests' = active_requests - 1
  /\ UNCHANGED <<listenerVars, shutdown_requested, peer, scope, requestVars, gateVars>>

\* Validation or tokenisation throws: the order is still unclassified.
ParseFails(o) ==
  /\ pc[o] = "parsing"
  /\ Goto(o, "leaving")
  /\ active_requests' = active_requests - 1
  /\ UNCHANGED <<listenerVars, shutdown_requested, peer, scope, requestVars, gateVars>>

ClassifyGeneration(o) ==
  /\ pc[o] = "parsing"
  /\ Classify(o, TRUE)
  /\ scope' = [scope EXCEPT ![o] = "generation"]
  /\ state' = [state EXCEPT ![o] = "Waiting"]
  /\ Goto(o, "acquiring")
  /\ UNCHANGED <<listenerVars, shutdown_requested, peer, cancellation, runtime_entry_count,
                 lease_acquires, lease_releases, active_requests>>

\* One pass of the loop in acquire, from taking the mutex to returning or waiting.
AcquireCancelled(o) ==
  /\ pc[o] = "acquiring"
  /\ cancellation[o] # "none" \/ shutdown_requested
  /\ cancellation' = [cancellation EXCEPT ![o] = Cancel(o, "server_shutdown")]
  /\ CancelLocked(o)
  /\ state' = [state EXCEPT ![o] = IF o \in waiting_generations_ THEN "Cancelled" ELSE @]
  /\ active_requests' = active_requests - 1
  /\ Goto(o, "leaving")
  /\ UNCHANGED <<listenerVars, shutdown_requested, peer, scope, runtime_entry_count,
                 lease_acquires, lease_releases>>

\* Mutant: tests for admission before it tests for cancellation.
AcquireAdmittedFirst(o) ==
  /\ pc[o] = "acquiring"
  /\ Admissible(o)
  /\ waiting_generations_' = waiting_generations_ \ {o}
  /\ active_' = TRUE
  /\ total_admitted_' = total_admitted_ + 1
  /\ scope' = [scope EXCEPT ![o] = "acquired"]
  /\ state' = [state EXCEPT ![o] = "Admitted"]
  /\ lease_acquires' = [lease_acquires EXCEPT ![o] = @ + 1]
  /\ Goto(o, "admitted")
  /\ UNCHANGED <<listenerVars, shutdown_requested, peer, cancellation, runtime_entry_count,
                 lease_releases, active_requests, classified_, classified_through_,
                 total_cancelled_before_admission_>>

AcquireAdmitted(o) ==
  /\ pc[o] = "acquiring"
  /\ cancellation[o] = "none" /\ ~shutdown_requested
  /\ Admissible(o)
  /\ waiting_generations_' = waiting_generations_ \ {o}
  /\ active_' = TRUE
  /\ total_admitted_' = total_admitted_ + 1
  /\ scope' = [scope EXCEPT ![o] = "acquired"]
  /\ state' = [state EXCEPT ![o] = "Admitted"]
  /\ lease_acquires' = [lease_acquires EXCEPT ![o] = @ + 1]
  /\ Goto(o, "admitted")
  /\ UNCHANGED <<listenerVars, shutdown_requested, peer, cancellation, runtime_entry_count,
                 lease_releases, active_requests, classified_, classified_through_,
                 total_cancelled_before_admission_>>

AcquireBlocked(o) ==
  /\ pc[o] = "acquiring"
  /\ cancellation[o] = "none" /\ ~shutdown_requested
  /\ ~Admissible(o)
  /\ Goto(o, "parked")
  /\ UNCHANGED <<listenerVars, shutdown_requested, peer, scope, requestVars,
                 active_requests, gateVars>>

\* wait_for returns (notified or after 50 ms); the socket is polled without the mutex.
Wake(o) ==
  /\ pc[o] = "parked"
  /\ cancellation' = [cancellation EXCEPT
       ![o] = IF peer[o] = "gone" THEN Cancel(o, "client_disconnected") ELSE @]
  /\ Goto(o, "acquiring")
  /\ UNCHANGED <<listenerVars, shutdown_requested, peer, scope, state, runtime_entry_count,
                 lease_acquires, lease_releases, active_requests, gateVars>>

\* send_sse_headers fails: the client of a stream has gone.
HeadersFail(o) ==
  /\ pc[o] = "admitted" /\ peer[o] = "gone"
  /\ cancellation' = [cancellation EXCEPT ![o] = Cancel(o, "client_disconnected")]
  /\ state' = [state EXCEPT ![o] = "Cancelled"]
  /\ active_requests' = active_requests - 1
  /\ Goto(o, "leaving")
  /\ UNCHANGED <<listenerVars, shutdown_requested, peer, scope, runtime_entry_count,
                 lease_acquires, lease_releases, gateVars>>

\* A late field of the body is malformed: the exception leaves state as it is.
ConfigFails(o) ==
  /\ pc[o] = "admitted"
  /\ active_requests' = active_requests - 1
  /\ Goto(o, "leaving")
  /\ UNCHANGED <<listenerVars, shutdown_requested, peer, scope, requestVars, gateVars>>

EnterRuntime(o) ==
  /\ pc[o] = "admitted"
  /\ state' = [state EXCEPT ![o] = IF @ = "Admitted" THEN "Active" ELSE @]
  /\ runtime_entry_count' = [runtime_entry_count EXCEPT ![o] = @ + 1]
  /\ Goto(o, "running")
  /\ UNCHANGED <<listenerVars, shutdown_requested, peer, scope, cancellation,
                 lease_acquires, lease_releases, active_requests, gateVars>>

\* What should_cancel and a failed send can report.
ObservedReasons(o) ==
  (IF shutdown_requested THEN {"server_shutdown"} ELSE {}) \cup
  (IF peer[o] = "gone" THEN {"client_disconnected"} ELSE {})

\* session->run returns.
RunEnds(o, outcome) ==
  /\ pc[o] = "running"
  /\ \/ outcome # "Cancelled" /\ UNCHANGED cancellation
     \/ /\ outcome = "Cancelled"
        /\ \E reason \in ObservedReasons(o) :
             cancellation' = [cancellation EXCEPT ![o] = Cancel(o, reason)]
  /\ state' = [state EXCEPT ![o] = IF @ = "Active" THEN outcome ELSE @]
  /\ active_requests' = active_requests - 1
  /\ Goto(o, "leaving")
  /\ UNCHANGED <<listenerVars, shutdown_requested, peer, scope, runtime_entry_count,
                 lease_acquires, lease_releases, gateVars>>

\* Mutant: the destructor does nothing for an order it never classified.
LeaveUnclassified(o) ==
  /\ pc[o] = "leaving"
  /\ \/ /\ scope[o] = "unclassified"
        /\ UNCHANGED <<gateVars, lease_releases>>
     \/ /\ scope[o] = "acquired"
        /\ active_' = FALSE
        /\ lease_releases' = [lease_releases EXCEPT ![o] = @ + 1]
        /\ UNCHANGED <<classified_, waiting_generations_, classified_through_,
                       total_admitted_, total_cancelled_before_admission_>>
     \/ /\ scope[o] \in {"control", "generation"}
        /\ CancelLocked(o)
        /\ UNCHANGED lease_releases
  /\ scope' = [scope EXCEPT ![o] = "destroyed"]
  /\ Goto(o, "closing")
  /\ UNCHANGED <<listenerVars, shutdown_requested, peer, cancellation, state,
                 runtime_entry_count, lease_acquires, active_requests>>

\* ~InferenceAdmissionScope, after the response and the terminal log record.
Leave(o) ==
  /\ pc[o] = "leaving"
  /\ \/ /\ scope[o] = "unclassified"
        /\ Classify(o, FALSE)
        /\ UNCHANGED lease_releases
     \/ /\ scope[o] = "acquired"
        /\ active_' = FALSE
        /\ lease_releases' = [lease_releases EXCEPT ![o] = @ + 1]
        /\ UNCHANGED <<classified_, waiting_generations_, classified_through_,
                       total_admitted_, total_cancelled_before_admission_>>
     \/ /\ scope[o] \in {"control", "generation"}
        /\ CancelLocked(o)
        /\ UNCHANGED lease_releases
  /\ scope' = [scope EXCEPT ![o] = "destroyed"]
  /\ Goto(o, "closing")
  /\ UNCHANGED <<listenerVars, shutdown_requested, peer, cancellation, state,
                 runtime_entry_count, lease_acquires, active_requests>>

\* Close the socket, forget the descriptor, set done.
Close(o) ==
  /\ pc[o] = "closing"
  /\ Goto(o, "done")
  /\ UNCHANGED <<listenerVars, shutdown_requested, peer, scope, requestVars,
                 active_requests, gateVars>>

-------------------------------------------------------------------------------
(* Environment. *)

Signal ==
  /\ ~shutdown_requested /\ main # "exited"
  /\ shutdown_requested' = TRUE
  /\ UNCHANGED <<listenerVars, pc, peer, scope, requestVars, active_requests, gateVars>>

Connected(o) == pc[o] \notin {"idle", "done", "rejected"}

ClientLeaves(o) ==
  /\ Connected(o) /\ peer[o] # "gone"
  /\ peer' = [peer EXCEPT ![o] = "gone"]
  /\ UNCHANGED <<listenerVars, shutdown_requested, pc, scope, requestVars,
                 active_requests, gateVars>>

ClientStalls(o) ==
  /\ Connected(o) /\ peer[o] = "open"
  /\ peer' = [peer EXCEPT ![o] = "stalled"]
  /\ UNCHANGED <<listenerVars, shutdown_requested, pc, scope, requestVars,
                 active_requests, gateVars>>

Terminated == main = "exited" /\ UNCHANGED vars

-------------------------------------------------------------------------------
Listener == CheckShutdown \/ AcceptFails \/ Spawn \/ Reject \/ Drain \/ Exit

Acquire(o) == AcquireCancelled(o) \/ AcquireAdmitted(o) \/ AcquireBlocked(o) \/ Wake(o)

\* Steps of a worker that wait for nobody.
Proceed(o) ==
  \/ ClassifyControl(o) \/ ParseFails(o) \/ ClassifyGeneration(o) \/ Respond(o)
  \/ Acquire(o)
  \/ HeadersFail(o) \/ ConfigFails(o) \/ EnterRuntime(o)
  \/ Leave(o) \/ Close(o)

Worker(o) ==
  \/ RequestArrives(o) \/ ReadFails(o)
  \/ Proceed(o)
  \/ \E outcome \in Terminal : RunEnds(o, outcome)

Next ==
  \/ Listener
  \/ \E o \in Orders : Worker(o) \/ ClientLeaves(o) \/ ClientStalls(o)
  \/ Signal
  \/ Terminated

Spec == Init /\ [][Next]_vars

\* The scheduler runs every thread; accept and recv may block for ever, and a
\* run blocks while its client does not read.  The source is assumed to answer.
ServerFairness ==
  /\ WF_vars((main # "accepting" \/ shutdown_requested) /\ Listener)
  /\ \A o \in Orders :
       /\ WF_vars(Proceed(o))
       /\ WF_vars(peer[o] = "gone" /\ ReadFails(o))
       /\ WF_vars(peer[o] # "stalled" /\ \E outcome \in Terminal : RunEnds(o, outcome))

\* Clients send their request or leave, and do not stay stalled.
ClientFairness ==
  \A o \in Orders :
    /\ WF_vars(RequestArrives(o) \/ ReadFails(o))
    /\ WF_vars(peer[o] = "stalled" /\ ClientLeaves(o))

ServerSpec == Spec /\ ServerFairness

-------------------------------------------------------------------------------
(* Properties. *)

ListenerTypeOK ==
  /\ main \in {"checking", "accepting", "draining", "joining", "exited"}
  /\ shutdown_requested \in BOOLEAN
  /\ connection_order \in 0..NConn
  /\ workers \subseteq {o \in Orders : o < connection_order}
  /\ active_requests \in Int

RequestTypeOK ==
  /\ pc \in [Orders -> PcValues]
  /\ peer \in [Orders -> {"open", "stalled", "gone"}]
  /\ scope \in [Orders -> Scopes]
  /\ cancellation \in [Orders -> Reasons]
  /\ state \in [Orders -> States]
  /\ runtime_entry_count \in [Orders -> 0..1]
  /\ lease_acquires \in [Orders -> 0..1]
  /\ lease_releases \in [Orders -> 0..1]

GateTypeOK ==
  /\ classified_through_ \in 0..NConn
  /\ classified_ \subseteq {o \in Orders : classified_through_ <= o /\ o < connection_order}
  /\ waiting_generations_ \subseteq Orders
  /\ active_ \in BOOLEAN
  /\ total_admitted_ \in Nat
  /\ total_cancelled_before_admission_ \in Nat

TypeOK == ListenerTypeOK /\ RequestTypeOK /\ GateTypeOK

\* At most one request holds the generation lease, and active_ says whether one does.
OneGeneration ==
  /\ active_ <=> \E o \in Orders : scope[o] = "acquired"
  /\ \A o, p \in Orders : scope[o] = "acquired" /\ scope[p] = "acquired" => o = p

\* The order is known not to need the gate any more, or is queued in it or holds it.
Known(o) == pc[o] = "rejected" \/ scope[o] # "unclassified"

\* classified_through_ is the first connection that is still undecided: every
\* way a connection can end closes its hole, and none is closed early.
NoFifoHole ==
  \A o \in Orders : o < classified_through_ <=> \A p \in 0..o : Known(p)

\* A worker is in the waiting set exactly while it is inside acquire.
WaitersAreWaiting ==
  waiting_generations_ = {o \in Orders : pc[o] \in {"acquiring", "parked"}}

\* Once cancelled while waiting, a request is never admitted.
CancelledNeverAdmitted ==
  [][\A o \in Orders : cancellation[o] # "none" => lease_acquires'[o] = lease_acquires[o]]_vars

\* Nothing is left in the gate and the counters balance.
CleanExit ==
  /\ ~active_ /\ waiting_generations_ = {} /\ classified_ = {}
  /\ classified_through_ = connection_order
  /\ active_requests = 0
  /\ lease_acquires = lease_releases
  /\ total_admitted_ + total_cancelled_before_admission_ =
       Cardinality({o \in Orders : state[o] # "none"})

\* The gate implements a lock granted in connection order.
AbstractPhase(o) ==
  IF scope[o] = "acquired" THEN "holding"
  ELSE IF o \in waiting_generations_ THEN "queued"
  ELSE IF o < classified_through_ \/ o \in classified_ THEN "left"
  ELSE "pending"

Fifo == INSTANCE FifoLock WITH phase <- [o \in Orders |-> AbstractPhase(o)]
FifoAdmission == Fifo!Spec

\* Every accepted connection is answered and its worker ends, if clients act.
EveryConnectionEnds == ClientFairness => \A o \in Orders : pc[o] = "reading" ~> pc[o] = "done"

\* A signal stops the server, whatever its clients do, and it stops cleanly.
ShutdownCompletes == shutdown_requested ~> (main = "exited" /\ CleanExit)
===============================================================================
