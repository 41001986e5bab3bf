---------------------------- MODULE SharedResidency ----------------------------
(***************************************************************************)
(* Generation sessions over one TensorResidencyStore.  A session runs      *)
(* positions; a position is a sequence of tensor waves (vbuf_tensor_wave), *)
(* a wave is a sequence of operations that each need some tensors.  The    *)
(* session gets them from its own ResidentTensorMaterializer               *)
(* (vbuf_residency.cpp), which looks in the shared store and falls back to *)
(* a private backing materializer that reads the source in a worker        *)
(* thread.                                                                 *)
(*                                                                         *)
(* A step ends where the code leaves a critical section of the store, so   *)
(* that everything another session can do in between is considered.        *)
(***************************************************************************)
EXTENDS ResidencyStore

CONSTANTS
  Sessions,
  Positions,     \* the wave sequences that a position may run
  SourceFails,   \* whether a read of the source may fail
  ComputeFails   \* whether a ggml operation may fail

\* What an operation reads, each tensor once.
Inputs == {inputs \in Seq(Tensors) : inputs # <<>> /\ IsInjective(inputs)}

Wave == [prefetch : Seq(Tensors), ops : Seq(Inputs) \ {<<>>}]

ASSUME SharedAssumption ==
  /\ IsFiniteSet(Sessions)
  /\ \A p \in Positions : p \in Seq(Wave) /\ p # <<>>
  /\ SourceFails \in BOOLEAN /\ ComputeFails \in BOOLEAN

VARIABLES
  requests,      \* requests[s]: requests_ of the session's materializer, a function from tensors
                 \* to [retained: counts one lease of the store, backing: backing_requested,
                 \* held: retained_tensor has a value]
  known_tensors, \* known_tensors[s]: refs it has seen
  backing,       \* backing[s][t]: state of t in the private materializer
  pc,            \* pc[s]: where the session's thread is
  waves,         \* waves[s]: waves of the position still to run, the current one first
  ops,           \* ops[s]: operations of the current wave still to run
  queue,         \* queue[s]: prefetches still to issue
  todo,          \* todo[s]: inputs of the current operation still to obtain
  active,        \* active[s]: the wave's `resident` map
  fault          \* fault[s]: a read or an operation of this run has failed

sessionVars == <<requests, known_tensors, backing, pc, waves, ops, queue, todo, active, fault>>
sharedVars == <<storeVars, sessionVars>>

SharedInit ==
  /\ StoreInit
  /\ requests = [s \in Sessions |-> <<>>]
  /\ known_tensors = [s \in Sessions |-> {}]
  /\ backing = [s \in Sessions |-> [t \in Tensors |-> "NotRequested"]]
  /\ pc = [s \in Sessions |-> "idle"]
  /\ waves = [s \in Sessions |-> <<>>]
  /\ ops = [s \in Sessions |-> <<>>]
  /\ queue = [s \in Sessions |-> <<>>]
  /\ todo = [s \in Sessions |-> <<>>]
  /\ active = [s \in Sessions |-> {}]
  /\ fault = [s \in Sessions |-> FALSE]

-------------------------------------------------------------------------------
(* Helpers. *)

Requested(s) == DOMAIN requests[s]
Retains(s, t) == t \in Requested(s) /\ requests[s][t].retained

\* requests_[t] = info
WithRequest(s, t, info) == [u \in Requested(s) \cup {t} |-> IF u = t THEN info ELSE requests[s][u]]

GoTo(s, place) == pc' = [pc EXCEPT ![s] = place]

\* An exception leaves the run; what it has obtained is released in EndRun.
Throw(s) == GoTo(s, "thrown")

\* The tensor that the session asks its materializer about: a prefetch while
\* there is one, else the next input of the operation.
Subject(s) == IF queue[s] # <<>> THEN Head(queue[s]) ELSE Head(todo[s])

\* After request() has returned to its caller: a prefetch ignores the result.
RequestDone(s, accepted) ==
  IF queue[s] # <<>>
  THEN /\ queue' = [queue EXCEPT ![s] = Tail(@)]
       /\ GoTo(s, IF Len(queue[s]) = 1 THEN "op" ELSE "request")
  ELSE /\ UNCHANGED queue
       /\ IF accepted THEN GoTo(s, "ready") ELSE Throw(s)

\* What the private materializer has in flight or ready counts against a
\* request, whose budget is its own length.
BackingBytes(s) == SizeOf({t \in Tensors : backing[s][t] \in {"InFlight", "Ready"}})

\* LocalVbufRangeMaterializer::request: a released or failed record is erased
\* even when the budget then refuses the new one.
BackingRequest(s, t) ==
  CASE backing[s][t] \in {"InFlight", "Ready"} -> backing[s][t]
    [] OTHER -> IF BackingBytes(s) + Bytes[t] <= Bytes[t] THEN "InFlight" ELSE "NotRequested"

\* Mutant: the ready bytes stay counted.
BackingReleaseKeeps(b) == b

\* LocalVbufRangeMaterializer::release gives back ready bytes; a read in flight goes on.
BackingRelease(b) == IF b = "Ready" THEN "Released" ELSE b

\* ResidentTensorMaterializer::release for each of ts: at most one lease of the
\* store and the backing record of each, then the request is gone.
ReleaseRequests(s, ts) ==
  LET rel == ts \cap Requested(s)
      leased == {t \in rel : Retains(s, t) /\ CanRelease(t)}
  IN  /\ active_leases' = [t \in Tensors |->
                             active_leases[t] - (IF t \in leased THEN 1 ELSE 0)]
      /\ backing' = [backing EXCEPT ![s] = [t \in Tensors |->
                       IF t \in rel /\ requests[s][t].backing THEN BackingRelease(@[t]) ELSE @[t]]]
      /\ requests' = [requests EXCEPT ![s] = Restrict(@, Requested(s) \ ts)]
      /\ UNCHANGED <<entries_, resident_bytes_, last_request_>>

-------------------------------------------------------------------------------
(* ResidentTensorMaterializer::request. *)

\* A request that exists is answered from its lease, from the store, or from
\* the backing read it has already started.
Request(s) ==
  LET t == Subject(s) IN
  /\ pc[s] = "request"
  /\ known_tensors' = [known_tensors EXCEPT ![s] = @ \cup {t}]
  /\ \/ /\ Retains(s, t)
        /\ RequestDone(s, TRUE)
        /\ UNCHANGED <<requests, storeVars>>
     \/ /\ t \in Requested(s) /\ ~Retains(s, t)
        /\ Acquire(t)
        /\ requests' = [requests EXCEPT ![s][t].retained = TRUE, ![s][t].held = TRUE]
        /\ RequestDone(s, TRUE)
     \/ /\ t \in Requested(s) /\ ~Retains(s, t) /\ t \notin entries_
        /\ backing[s][t] \in {"InFlight", "Ready"}
        /\ RequestDone(s, TRUE)
        /\ UNCHANGED <<requests, storeVars>>
     \/ /\ t \in Requested(s) =>
             ~Retains(s, t) /\ t \notin entries_ /\ backing[s][t] \notin {"InFlight", "Ready"}
        /\ GoTo(s, "note")
        /\ UNCHANGED <<requests, queue, storeVars>>
  /\ UNCHANGED <<backing, waves, ops, todo, active, fault>>

\* A new request record, and note_request.
Note(s) ==
  LET t == Subject(s) IN
  /\ pc[s] = "note"
  /\ requests' = [requests EXCEPT ![s] =
       WithRequest(s, t, [retained |-> FALSE, backing |-> FALSE, held |-> FALSE])]
  /\ NoteRequest(t)
  /\ GoTo(s, "lookup")
  /\ UNCHANGED <<known_tensors, backing, waves, ops, queue, todo, active, fault>>

\* Mutant: the source is asked first.
LookupNever(s) ==
  /\ pc[s] = "lookup"
  /\ GoTo(s, "missed")
  /\ UNCHANGED <<requests, known_tensors, backing, waves, ops, queue, todo, active, fault, storeVars>>

Lookup(s) ==
  LET t == Subject(s) IN
  /\ pc[s] = "lookup"
  /\ \/ /\ Acquire(t)
        /\ requests' = [requests EXCEPT ![s][t].retained = TRUE, ![s][t].held = TRUE]
        /\ RequestDone(s, TRUE)
     \/ /\ t \notin entries_
        /\ GoTo(s, "missed")
        /\ UNCHANGED <<requests, queue, storeVars>>
  /\ UNCHANGED <<known_tensors, backing, waves, ops, todo, active, fault>>

\* The request falls back to the private materializer.
Missed(s) ==
  LET t == Subject(s)
      state == BackingRequest(s, t)
  IN
  /\ pc[s] = "missed"
  /\ requests' = [requests EXCEPT ![s][t].backing = TRUE]
  /\ backing' = [backing EXCEPT ![s][t] = state]
  /\ RequestDone(s, state \in {"InFlight", "Ready"})
  /\ UNCHANGED <<known_tensors, waves, ops, todo, active, fault, storeVars>>

-------------------------------------------------------------------------------
(* The private materializer's workers. *)

WorkerReads(s, t) ==
  /\ backing[s][t] = "InFlight"
  /\ backing' = [backing EXCEPT ![s][t] = "Ready"]
  /\ UNCHANGED <<requests, known_tensors, pc, waves, ops, queue, todo, active, fault, storeVars>>

WorkerFails(s, t) ==
  /\ SourceFails
  /\ backing[s][t] = "InFlight"
  /\ backing' = [backing EXCEPT ![s][t] = "Failed"]
  /\ fault' = [fault EXCEPT ![s] = pc[s] # "idle"]
  /\ UNCHANGED <<requests, known_tensors, pc, waves, ops, queue, todo, active, storeVars>>

-------------------------------------------------------------------------------
(* obtain_ready of the tensor wave: state(), wait(), obtain_ready_tensor(). *)

\* Ready as far as the materializer can see, now and without a lease.
SeemsReady(s, t) == Retains(s, t) \/ t \in entries_

CheckState(s) ==
  LET t == Subject(s) IN
  /\ pc[s] = "ready"
  /\ IF SeemsReady(s, t) THEN GoTo(s, "obtain")
     ELSE CASE backing[s][t] = "Ready"    -> GoTo(s, "obtain")
            [] backing[s][t] = "InFlight" -> GoTo(s, "wait")
            [] backing[s][t] = "Failed"   -> Throw(s)
            [] OTHER                      -> GoTo(s, "request")
  /\ UNCHANGED <<requests, known_tensors, backing, waves, ops, queue, todo, active, fault, storeVars>>

Wait(s) ==
  /\ pc[s] = "wait"
  /\ GoTo(s, IF SeemsReady(s, Subject(s)) THEN "obtain" ELSE "join")
  /\ UNCHANGED <<requests, known_tensors, backing, waves, ops, queue, todo, active, fault, storeVars>>

\* Mutant: wakes up for a payload only.
JoinReady(s) ==
  /\ pc[s] = "join" /\ backing[s][Subject(s)] = "Ready"
  /\ GoTo(s, "obtain")
  /\ UNCHANGED <<requests, known_tensors, backing, waves, ops, queue, todo, active, fault, storeVars>>

Join(s) ==
  /\ pc[s] = "join" /\ backing[s][Subject(s)] # "InFlight"
  /\ IF backing[s][Subject(s)] = "Ready" THEN GoTo(s, "obtain") ELSE Throw(s)
  /\ UNCHANGED <<requests, known_tensors, backing, waves, ops, queue, todo, active, fault, storeVars>>

\* The wave has its input: the next one, or the operation.
Obtained(s) ==
  /\ active' = [active EXCEPT ![s] = @ \cup {Head(todo[s])}]
  /\ todo' = [todo EXCEPT ![s] = Tail(@)]
  /\ GoTo(s, IF Len(todo[s]) = 1 THEN "compute" ELSE "ready")

\* Mutant: looks the entry up without a lease.
ObtainUnleased(s) ==
  LET t == Subject(s) IN
  /\ pc[s] = "obtain" /\ t \in Requested(s)
  /\ \/ t \in entries_ /\ Obtained(s)
     \/ t \notin entries_ /\ backing[s][t] = "Ready" /\ GoTo(s, "insert") /\ UNCHANGED <<todo, active>>
     \/ t \notin entries_ /\ backing[s][t] # "Ready" /\ Throw(s) /\ UNCHANGED <<todo, active>>
  /\ UNCHANGED <<requests, known_tensors, backing, waves, ops, queue, fault, storeVars>>

\* ResidentTensorMaterializer::obtain_ready_tensor up to the insertion.  A
\* tensor that the session never requested cannot be obtained although it is
\* resident.  The lease taken here is not recorded in retained_tensor, so a
\* second call for the same request takes another.
Obtain(s) ==
  LET t == Subject(s)
      info == IF t \in Requested(s) THEN requests[s][t]
              ELSE [retained |-> FALSE, backing |-> FALSE, held |-> FALSE]
      record(i) == requests' = [requests EXCEPT ![s] = WithRequest(s, t, i)]
  IN
  /\ pc[s] = "obtain"
  /\ \/ /\ t \notin Requested(s) \cup known_tensors[s]
        /\ Throw(s)
        /\ UNCHANGED <<requests, todo, active, storeVars>>
     \/ /\ t \in Requested(s) \cup known_tensors[s]
        /\ \/ /\ info.retained /\ info.held
              /\ Obtained(s)
              /\ UNCHANGED <<requests, storeVars>>
           \/ /\ ~(info.retained /\ info.held)
              /\ Acquire(t)
              /\ record([info EXCEPT !.retained = TRUE])
              /\ Obtained(s)
           \/ /\ ~(info.retained /\ info.held) /\ t \notin entries_
              /\ IF backing[s][t] = "Ready" THEN GoTo(s, "insert") ELSE Throw(s)
              /\ record(info)
              /\ UNCHANGED <<todo, active, storeVars>>
  /\ UNCHANGED <<known_tensors, backing, waves, ops, queue, fault>>

\* The private payload is offered to the store.
Offer(s) ==
  LET t == Subject(s) IN
  /\ pc[s] = "insert"
  /\ (\E ev \in Evictions(t) : Insert(t, ev)) \/ InsertRejected(t) \/ InsertRefused(t)
  /\ GoTo(s, "inserted")
  /\ UNCHANGED <<requests, known_tensors, backing, waves, ops, queue, todo, active, fault>>

\* Mutant: believes its own insertion.
ReacquireBelieved(s) ==
  LET t == Subject(s) IN
  /\ pc[s] = "inserted"
  /\ IF t \in entries_ THEN Acquire(t) ELSE UNCHANGED storeVars
  /\ requests' = [requests EXCEPT ![s][t].retained = TRUE, ![s][t].held = TRUE]
  /\ Obtained(s)
  /\ UNCHANGED <<known_tensors, backing, waves, ops, queue, fault>>

\* The lease on what was inserted, by this session or another; when it is not
\* resident (any more) the session keeps its private payload.
Reacquire(s) ==
  LET t == Subject(s) IN
  /\ pc[s] = "inserted"
  /\ \/ /\ Acquire(t)
        /\ requests' = [requests EXCEPT ![s][t].retained = TRUE, ![s][t].held = TRUE]
     \/ /\ t \notin entries_
        /\ requests' = [requests EXCEPT ![s][t].retained = FALSE]
        /\ UNCHANGED storeVars
  /\ Obtained(s)
  /\ UNCHANGED <<known_tensors, backing, waves, ops, queue, fault>>

-------------------------------------------------------------------------------
(* Runs, waves, operations. *)

StartRun(s) ==
  /\ pc[s] = "idle"
  /\ GoTo(s, "position")
  /\ fault' = [fault EXCEPT ![s] = FALSE]
  /\ UNCHANGED <<requests, known_tensors, backing, waves, ops, queue, todo, active, storeVars>>

StartPosition(s) ==
  /\ pc[s] = "position"
  /\ \E p \in Positions : waves' = [waves EXCEPT ![s] = p]
  /\ GoTo(s, "wave")
  /\ UNCHANGED <<requests, known_tensors, backing, ops, queue, todo, active, fault, storeVars>>

StartWave(s) ==
  LET w == Head(waves[s]) IN
  /\ pc[s] = "wave"
  /\ queue' = [queue EXCEPT ![s] = w.prefetch]
  /\ ops' = [ops EXCEPT ![s] = w.ops]
  /\ GoTo(s, IF w.prefetch = <<>> THEN "op" ELSE "request")
  /\ UNCHANGED <<requests, known_tensors, backing, waves, todo, active, fault, storeVars>>

\* Inputs that are not active are obtained first, then the active ones again,
\* each group in the order of the operation.
NewFirst(s, inputs) ==
  LET isActive(i) == inputs[i] \in active[s]
      before(i, j) == IF isActive(i) = isActive(j) THEN i < j ELSE isActive(j)
      orders == {o \in [DOMAIN inputs -> DOMAIN inputs] :
                   \A i, j \in DOMAIN inputs : i < j => before(o[i], o[j])}
  IN  {[i \in DOMAIN inputs |-> inputs[o[i]]] : o \in orders}

StartOp(s) ==
  /\ pc[s] = "op"
  /\ \E inputs \in NewFirst(s, Head(ops[s])) : todo' = [todo EXCEPT ![s] = inputs]
  /\ GoTo(s, "ready")
  /\ UNCHANGED <<requests, known_tensors, backing, waves, ops, queue, active, fault, storeVars>>

\* The operation has run: inputs without another consumer in the wave are released.
Compute(s) ==
  LET later == UNION {ToSet(inputs) : inputs \in ToSet(Tail(ops[s]))}
      done == ToSet(Head(ops[s])) \ later
  IN
  /\ pc[s] = "compute"
  /\ ReleaseRequests(s, done)
  /\ active' = [active EXCEPT ![s] = @ \ done]
  /\ ops' = [ops EXCEPT ![s] = Tail(@)]
  /\ waves' = [waves EXCEPT ![s] = IF Len(ops[s]) = 1 THEN Tail(@) ELSE @]
  /\ GoTo(s, IF Len(ops[s]) > 1 THEN "op" ELSE IF Len(waves[s]) > 1 THEN "wave" ELSE "position")
  /\ UNCHANGED <<known_tensors, queue, todo, fault>>

\* Binding an input or computing fails, once all new inputs have been obtained.
ComputeFailure(s) ==
  /\ ComputeFails
  /\ pc[s] = "compute" \/ (pc[s] = "ready" /\ ToSet(todo[s]) \subseteq active[s])
  /\ fault' = [fault EXCEPT ![s] = TRUE]
  /\ Throw(s)
  /\ UNCHANGED <<requests, known_tensors, backing, waves, ops, queue, todo, active, storeVars>>

\* The run is over (cancelled, bound reached, or an exception): release_all.
EndRun(s) ==
  /\ pc[s] \in {"position", "thrown"}
  /\ ReleaseRequests(s, Requested(s))
  /\ GoTo(s, "idle")
  /\ waves' = [waves EXCEPT ![s] = <<>>]
  /\ ops' = [ops EXCEPT ![s] = <<>>]
  /\ queue' = [queue EXCEPT ![s] = <<>>]
  /\ todo' = [todo EXCEPT ![s] = <<>>]
  /\ active' = [active EXCEPT ![s] = {}]
  /\ fault' = [fault EXCEPT ![s] = FALSE]
  /\ UNCHANGED known_tensors

\* What the session's own thread does next while it runs.
Step(s) ==
  \/ Request(s) \/ Note(s) \/ Lookup(s) \/ Missed(s)
  \/ CheckState(s) \/ Wait(s) \/ Join(s) \/ Obtain(s) \/ Offer(s) \/ Reacquire(s)
  \/ StartPosition(s) \/ StartWave(s) \/ StartOp(s) \/ Compute(s) \/ ComputeFailure(s)
  \/ EndRun(s)

Worker(s, t) == WorkerReads(s, t) \/ WorkerFails(s, t)

SharedNext == \E s \in Sessions : StartRun(s) \/ Step(s) \/ \E t \in Tensors : Worker(s, t)

SharedSpec == SharedInit /\ [][SharedNext]_sharedVars

\* Threads are scheduled, and a read of the source returns or fails.
FairSharedSpec ==
  /\ SharedSpec
  /\ \A s \in Sessions :
       /\ WF_sharedVars(Step(s))
       /\ \A t \in Tensors : WF_sharedVars(Worker(s, t))

-------------------------------------------------------------------------------
(* Properties. *)

\* The leases of an entry are exactly those the sessions' requests will give
\* back: no lease is lost, none is given back twice.
LeaseAccounting ==
  \A t \in Tensors : active_leases[t] = Cardinality({s \in Sessions : Retains(s, t)})

\* A tensor that an operation reads is there and cannot be evicted: it is
\* resident with a lease of the session, or the session has the payload to itself.
InUseIsHeld ==
  \A s \in Sessions : \A t \in active[s] :
    (Retains(s, t) /\ CanRelease(t)) \/ backing[s][t] = "Ready"

\* A run that meets no failure of the source or of an operation does not fail.
FailsOnlyOnFault == \A s \in Sessions : pc[s] = "thrown" => fault[s]

\* A tensor is not read from the source while it is resident.
ReadsOnlyMissing ==
  [][\A s \in Sessions, t \in Tensors :
       backing[s][t] # "InFlight" /\ backing'[s][t] = "InFlight" => t \notin entries_]_sharedVars

\* A position that has begun ends, whatever other sessions take or evict.
PositionEnds ==
  \A s \in Sessions : pc[s] \notin {"idle", "position"} ~> pc[s] \in {"idle", "position"}
===============================================================================
