--------------------------- MODULE RangeMaterializer ---------------------------
(***************************************************************************)
(* LocalVbufRangeMaterializer (integrations/ggml/src/vbuf_materializer.cpp):*)
(* callers request, await and release tensors; one worker thread per        *)
(* request reads the source, then the fallback source.                     *)
(*                                                                         *)
(* Two locks: worker_mutex is held through request, wait and release, and  *)
(* while a thread is joined; mutex is held for one step at a time, so it   *)
(* is not a variable.                                                      *)
(***************************************************************************)
EXTENDS Integers, FiniteSets, FiniteSetsExt

CONSTANTS
  Callers,
  Tensors,
  Bytes,          \* Bytes[t]: payload length of t
  Budgets,        \* the byte budgets that callers give
  HasFallback,    \* whether there is a fallback source
  MaxCalls        \* bound: calls made in a behaviour

ASSUME MaterializerAssumption ==
  /\ IsFiniteSet(Tensors) /\ Bytes \in [Tensors -> Nat \ {0}]
  /\ IsFiniteSet(Budgets) /\ Budgets \subseteq Nat /\ Budgets # {}
  /\ HasFallback \in BOOLEAN /\ MaxCalls \in Nat
  /\ "nobody" \notin Callers /\ "owner" \notin Callers

VARIABLES
  state,          \* state[t]: the record of t, "NotRequested" when there is none
  inflight_bytes,
  ready_bytes,
  worker,         \* worker[t]: thread of t's last request; "none" when it cannot be joined
  worker_mutex,   \* its holder, or "nobody"
  pc,             \* pc[c]: where caller c is
  call,           \* call[c]: what c calls, and for which tensor
  calls,          \* number of calls made
  life            \* of the object: "open", "closing", "closed"

vars == <<state, inflight_bytes, ready_bytes, worker, worker_mutex, pc, call, calls, life>>

States == {"NotRequested", "InFlight", "Ready", "Released", "Failed"}
Reading == {"primary", "fallback", "hash"}     \* the thread uses its record without a lock
Calls == [op : {"request"}, tensor : Tensors, budget : Budgets] \cup
         [op : {"wait", "release"}, tensor : Tensors, budget : {0}]

Init ==
  /\ state = [t \in Tensors |-> "NotRequested"]
  /\ inflight_bytes = 0 /\ ready_bytes = 0
  /\ worker = [t \in Tensors |-> "none"]
  /\ worker_mutex = "nobody"
  /\ pc = [c \in Callers |-> "idle"]
  /\ call \in [Callers -> {[op |-> "wait", tensor |-> t, budget |-> 0] : t \in Tensors}]
  /\ calls = 0
  /\ life = "open"

-------------------------------------------------------------------------------
(* Callers. *)

Tensor(c) == call[c].tensor
GoTo(c, place) == pc' = [pc EXCEPT ![c] = place]
SetState(t, s) == state' = [state EXCEPT ![t] = s]

Call(c) ==
  /\ pc[c] = "idle" /\ life = "open" /\ calls < MaxCalls
  /\ \E k \in Calls : call' = [call EXCEPT ![c] = k]
  /\ calls' = calls + 1
  /\ GoTo(c, "enter")
  /\ UNCHANGED <<state, inflight_bytes, ready_bytes, worker, worker_mutex, life>>

\* Mutant: request does not wait for worker_mutex.
LockUnlessRequest(c, op) ==
  /\ pc[c] = "enter" /\ call[c].op = op
  /\ IF op = "request" THEN TRUE ELSE worker_mutex = "nobody"
  /\ UNCHANGED <<call, calls, life>>

\* The caller gets worker_mutex and begins op.
Enters(c, op) ==
  /\ pc[c] = "enter" /\ call[c].op = op
  /\ worker_mutex = "nobody"
  /\ UNCHANGED <<call, calls, life>>

\* request: a tensor that is read or ready is refused; an old record is erased
\* first, its thread is joined next.
RequestEnter(c) ==
  /\ Enters(c, "request")
  /\ \/ /\ state[Tensor(c)] \in {"InFlight", "Ready"}
        /\ GoTo(c, "idle")
        /\ UNCHANGED <<state, worker_mutex>>
     \/ /\ state[Tensor(c)] \in {"Released", "Failed"}
        /\ SetState(Tensor(c), "NotRequested")
        /\ worker_mutex' = c /\ GoTo(c, "stale")
     \/ /\ state[Tensor(c)] = "NotRequested"
        /\ worker_mutex' = c /\ GoTo(c, "admit")
        /\ UNCHANGED state
  /\ UNCHANGED <<inflight_bytes, ready_bytes, worker>>

JoinStale(c) ==
  /\ pc[c] = "stale" /\ worker[Tensor(c)] \in {"none", "ended"}
  /\ worker' = [worker EXCEPT ![Tensor(c)] = "none"]
  /\ GoTo(c, "admit")
  /\ UNCHANGED <<state, inflight_bytes, ready_bytes, worker_mutex, call, calls, life>>

\* Mutant: forgets what is already ready.
FitsInflight(t, budget) == inflight_bytes + Bytes[t] <= budget

Fits(t, budget) == Bytes[t] <= budget /\ inflight_bytes + ready_bytes + Bytes[t] <= budget

\* The budget admits the request and a thread is started, or it refuses it.
Admit(c) ==
  /\ pc[c] = "admit"
  /\ \/ /\ Fits(Tensor(c), call[c].budget)
        /\ SetState(Tensor(c), "InFlight")
        /\ inflight_bytes' = inflight_bytes + Bytes[Tensor(c)]
        /\ worker' = [worker EXCEPT ![Tensor(c)] = "primary"]
     \/ /\ ~Fits(Tensor(c), call[c].budget)
        /\ UNCHANGED <<state, inflight_bytes, worker>>
  /\ worker_mutex' = "nobody" /\ GoTo(c, "idle")
  /\ UNCHANGED <<ready_bytes, call, calls, life>>

\* wait: there is nothing to join, or the record is copied for the trace.
WaitEnter(c) ==
  /\ Enters(c, "wait")
  /\ \/ /\ state[Tensor(c)] = "NotRequested" \/ worker[Tensor(c)] = "none"
        /\ GoTo(c, "idle")
        /\ UNCHANGED worker_mutex
     \/ /\ state[Tensor(c)] # "NotRequested" /\ worker[Tensor(c)] # "none"
        /\ worker_mutex' = c /\ GoTo(c, "record")
  /\ UNCHANGED <<state, inflight_bytes, ready_bytes, worker>>

\* WAIT_START.
WaitRecord(c) ==
  /\ pc[c] = "record"
  /\ GoTo(c, "join")
  /\ UNCHANGED <<state, inflight_bytes, ready_bytes, worker, worker_mutex, call, calls, life>>

\* Mutant: waits for a payload, which a failed read never has.
WaitJoinReady(c) ==
  /\ pc[c] = "join" /\ worker[Tensor(c)] = "ended" /\ state[Tensor(c)] = "Ready"
  /\ worker' = [worker EXCEPT ![Tensor(c)] = "none"]
  /\ worker_mutex' = "nobody" /\ GoTo(c, "idle")
  /\ UNCHANGED <<state, inflight_bytes, ready_bytes, call, calls, life>>

WaitJoin(c) ==
  /\ pc[c] = "join" /\ worker[Tensor(c)] = "ended"
  /\ worker' = [worker EXCEPT ![Tensor(c)] = "none"]
  /\ worker_mutex' = "nobody" /\ GoTo(c, "idle")
  /\ UNCHANGED <<state, inflight_bytes, ready_bytes, call, calls, life>>

\* Mutant: releases what is being read.
ReleaseAny(c) ==
  LET t == Tensor(c) IN
  /\ Enters(c, "release")
  /\ IF state[t] \in {"Ready", "InFlight"} THEN SetState(t, "Released") ELSE UNCHANGED state
  /\ ready_bytes' = IF state[t] = "Ready" THEN ready_bytes - Bytes[t] ELSE ready_bytes
  /\ inflight_bytes' = IF state[t] = "InFlight" THEN inflight_bytes - Bytes[t] ELSE inflight_bytes
  /\ GoTo(c, "idle")
  /\ UNCHANGED <<worker, worker_mutex>>

\* release: only a ready payload is given back.
Release(c) ==
  LET t == Tensor(c) IN
  /\ Enters(c, "release")
  /\ IF state[t] = "Ready"
     THEN SetState(t, "Released") /\ ready_bytes' = ready_bytes - Bytes[t]
     ELSE UNCHANGED <<state, ready_bytes>>
  /\ GoTo(c, "idle")
  /\ UNCHANGED <<inflight_bytes, worker, worker_mutex>>

-------------------------------------------------------------------------------
(* Workers. *)

WorkerGoes(t, place) == worker' = [worker EXCEPT ![t] = place]

Rest == UNCHANGED <<worker_mutex, pc, call, calls, life>>

ReadSucceeds(t) ==
  /\ worker[t] \in {"primary", "fallback"}
  /\ WorkerGoes(t, "hash")
  /\ UNCHANGED <<state, inflight_bytes, ready_bytes>> /\ Rest

TryFallback(t) ==
  /\ HasFallback /\ worker[t] = "primary"
  /\ WorkerGoes(t, "fallback")
  /\ UNCHANGED <<state, inflight_bytes, ready_bytes>> /\ Rest

\* Mutant: a failed read stays counted.
ReadFailsKeeps(t) ==
  /\ worker[t] \in Reading
  /\ SetState(t, "Failed")
  /\ WorkerGoes(t, "exiting")
  /\ UNCHANGED <<inflight_bytes, ready_bytes>> /\ Rest

\* No memory, no source left, or a view that cannot be assigned.
ReadFails(t) ==
  /\ worker[t] \in Reading
  /\ SetState(t, "Failed")
  /\ inflight_bytes' = inflight_bytes - Bytes[t]
  /\ WorkerGoes(t, "exiting")
  /\ UNCHANGED ready_bytes /\ Rest

Publish(t) ==
  /\ worker[t] = "hash"
  /\ SetState(t, "Ready")
  /\ inflight_bytes' = inflight_bytes - Bytes[t]
  /\ ready_bytes' = ready_bytes + Bytes[t]
  /\ WorkerGoes(t, "exiting")
  /\ Rest

ThreadEnds(t) ==
  /\ worker[t] = "exiting"
  /\ WorkerGoes(t, "ended")
  /\ UNCHANGED <<state, inflight_bytes, ready_bytes>> /\ Rest

-------------------------------------------------------------------------------
(* The destructor: the owner has no call running. *)

CloseStart ==
  /\ life = "open" /\ \A c \in Callers : pc[c] = "idle"
  /\ life' = "closing" /\ worker_mutex' = "owner"
  /\ UNCHANGED <<state, inflight_bytes, ready_bytes, worker, pc, call, calls>>

CloseEnd ==
  /\ life = "closing" /\ \A t \in Tensors : worker[t] \in {"none", "ended"}
  /\ state' = [t \in Tensors |-> IF state[t] = "Ready" THEN "Released" ELSE state[t]]
  /\ ready_bytes' = 0
  /\ worker' = [t \in Tensors |-> "none"]
  /\ life' = "closed" /\ worker_mutex' = "nobody"
  /\ UNCHANGED <<inflight_bytes, pc, call, calls>>

-------------------------------------------------------------------------------
Caller(c) == RequestEnter(c) \/ JoinStale(c) \/ Admit(c) \/ WaitEnter(c) \/ WaitRecord(c)
             \/ WaitJoin(c) \/ Release(c)

Thread(t) == ReadSucceeds(t) \/ TryFallback(t) \/ ReadFails(t) \/ Publish(t) \/ ThreadEnds(t)

Finished == life = "closed" /\ UNCHANGED vars

Next ==
  \/ \E c \in Callers : Call(c) \/ Caller(c)
  \/ \E t \in Tensors : Thread(t)
  \/ CloseStart \/ CloseEnd \/ Finished

Spec == Init /\ [][Next]_vars

\* Threads run, and reads end.  A caller that waits for worker_mutex needs no
\* more: MaxCalls bounds how often others can take it first.
FairSpec ==
  /\ Spec
  /\ \A c \in Callers : WF_vars(Caller(c))
  /\ \A t \in Tensors : WF_vars(Thread(t))
  /\ WF_vars(CloseEnd)

-------------------------------------------------------------------------------
(* Properties. *)

ControlOK ==
  /\ state \in [Tensors -> States]
  /\ worker \in [Tensors -> Reading \cup {"none", "exiting", "ended"}]
  /\ worker_mutex \in Callers \cup {"nobody", "owner"}
  /\ pc \in [Callers -> {"idle", "enter", "stale", "admit", "record", "join"}]
  /\ call \in [Callers -> Calls]
  /\ life \in {"open", "closing", "closed"}

TypeOK == ControlOK /\ inflight_bytes \in Nat /\ ready_bytes \in Nat

\* The byte counters are what is being read and what is ready, whatever
\* fails, is released or is asked for again; unsigned, they never wrap.
BytesExact ==
  LET bytes(s) == MapThenSumSet(LAMBDA t : Bytes[t], {t \in Tensors : state[t] = s})
  IN  inflight_bytes = bytes("InFlight") /\ ready_bytes = bytes("Ready")

\* A thread that uses its record through a plain pointer finds it there: the
\* record of a read in progress is never erased or replaced.
RecordOutlivesRead == \A t \in Tensors : worker[t] \in Reading => state[t] = "InFlight"

\* So does a caller in wait, between its look-up and the end of the join.
RecordOutlivesWait ==
  \A c \in Callers : pc[c] \in {"record", "join"} =>
    state[Tensor(c)] # "NotRequested" /\ worker[Tensor(c)] # "none"

\* No thread runs and no byte is held.
Clean ==
  /\ \A t \in Tensors : worker[t] = "none" /\ state[t] \notin {"InFlight", "Ready"}
  /\ inflight_bytes = 0 /\ ready_bytes = 0

\* Every call returns although others hold worker_mutex while they join a
\* thread, and the destructor returns and leaves nothing.
CallsReturn ==
  /\ \A c \in Callers : pc[c] # "idle" ~> pc[c] = "idle"
  /\ life = "closing" ~> (life = "closed" /\ Clean)

\* The materializer keeps what its interface promises.
Lifecycle == INSTANCE PayloadLifecycle
  WITH life <- state, MaxBudget <- Max(Budgets)

ImplementsLifecycle == Lifecycle!LifecycleSpec
===============================================================================
