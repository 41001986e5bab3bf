------------------------- MODULE SharedResidencyProofs -------------------------
(* Theorems about ResidencyStore, for any tensors, sizes and budgets, and about *)
(* SharedResidency, for any sessions and waves over such a store.               *)
EXTENDS SharedResidency, CountingLemmas, SequenceTheorems, TLAPS

-------------------------------------------------------------------------------
(* The store, whoever calls it. *)

(***************************************************************************)
(* The inductive invariant needs no more than the leases' type: whatever   *)
(* leaves the store is a candidate, and a candidate has no lease.          *)
(***************************************************************************)
LeaseTypeOK == entries_ \subseteq Tensors /\ active_leases \in [Tensors -> Nat]

StoreIInv == LeaseTypeOK /\ LeasedIsResident

\* An empty store has no lease.
LEMMA InitStoreIInv == StoreInit => StoreIInv
  BY DEF StoreInit, StoreIInv, LeaseTypeOK, LeasedIsResident

\* Evictions are sets of candidates.
LEMMA EvictionsAreCandidates ==
  ASSUME NEW t \in Tensors, NEW ev \in Evictions(t)
  PROVE  ev \subseteq Candidates
  BY DEF Evictions

\* What drops only unleased entries, and adds what has no lease, keeps the invariant.
LEMMA DropKeeps ==
  ASSUME StoreIInv, entries_' \subseteq Tensors, entries_ \ Candidates \subseteq entries_',
         UNCHANGED active_leases
  PROVE  StoreIInv'
  BY DEF StoreIInv, LeaseTypeOK, LeasedIsResident, Candidates

\* No operation of the store breaks the invariant.
LEMMA StepStoreIInv == StoreIInv /\ [StoreNext]_storeVars => StoreIInv'
<1> SUFFICES ASSUME StoreIInv, [StoreNext]_storeVars PROVE StoreIInv'
  OBVIOUS
<1> USE DEF StoreIInv, LeaseTypeOK
<1>1. ASSUME UNCHANGED <<entries_, active_leases>> PROVE StoreIInv'
  BY <1>1 DEF LeasedIsResident
<1>2. ASSUME NEW t \in Tensors, NoteRequest(t) \/ InsertRefused(t) PROVE StoreIInv'
  BY <1>1, <1>2 DEF NoteRequest, InsertRefused, storeVars
<1>3. ASSUME NEW t \in Tensors, Acquire(t) \/ Release(t) PROVE StoreIInv'
  BY <1>3 DEF Acquire, Release, CanRelease, LeasedIsResident
<1>4. ASSUME NEW t \in Tensors, NEW ev \in Evictions(t), Insert(t, ev) PROVE StoreIInv'
  BY <1>4, EvictionsAreCandidates, DropKeeps DEF Insert, Candidates
<1>5. ASSUME NEW t \in Tensors, InsertRejected(t) \/ Evict(t) PROVE StoreIInv'
  BY <1>5, DropKeeps DEF InsertRejected, Evict, Candidates
<1>6. CASE Clear
  BY <1>6, DropKeeps DEF Clear, Candidates
<1>7. CASE UNCHANGED storeVars
  BY <1>1, <1>7 DEF storeVars
<1> HIDE DEF StoreIInv
<1>8. QED
  BY <1>2, <1>3, <1>4, <1>5, <1>6, <1>7 DEF StoreNext

\* Whatever insertions, evictions and clear do, a leased tensor stays resident
\* and one that has left has no lease.
THEOREM LeasesHold == StoreSpec => []LeasedIsResident
<1>1. StoreIInv => LeasedIsResident
  BY DEF StoreIInv
<1>2. QED
  BY <1>1, InitStoreIInv, StepStoreIInv, PTL DEF StoreSpec

-------------------------------------------------------------------------------
(***************************************************************************)
(* The counter.  Evictions take their bytes from it and an insertion adds  *)
(* its own, so that it is the sum over the entries; the sum is a fold over *)
(* a finite set (CountingLemmas).                                          *)
(***************************************************************************)
Counted == entries_ \subseteq Tensors /\ WithinBudget

LEMMA SizeIsTotal ==
  ASSUME NEW ts \in SUBSET Tensors
  PROVE  SizeOf(ts) = Total(Bytes, ts) /\ SizeOf(ts) \in Nat
<1>1. SizeOf(ts) = Total(Bytes, ts)
  BY DEF SizeOf, Total
<1>2. Total(Bytes, ts) \in Nat
  BY StoreAssumption, TotalNatural
<1> QED
  BY <1>1, <1>2

\* What goes takes its bytes with it.
LEMMA SizeDrops ==
  ASSUME NEW ts \in SUBSET Tensors, NEW ev \in SUBSET ts
  PROVE  SizeOf(ts \ ev) = SizeOf(ts) - SizeOf(ev)
<1>1. Bytes \in [Tensors -> Int] /\ IsFiniteSet(Tensors)
  BY StoreAssumption
<1>2. Total(Bytes, ts) = Total(Bytes, ev) + Total(Bytes, ts \ ev)
  BY <1>1, TotalSplits
<1>3. /\ SizeOf(ts) = Total(Bytes, ts) /\ SizeOf(ts) \in Nat
      /\ SizeOf(ev) = Total(Bytes, ev) /\ SizeOf(ev) \in Nat
      /\ SizeOf(ts \ ev) = Total(Bytes, ts \ ev) /\ SizeOf(ts \ ev) \in Nat
  BY SizeIsTotal
<1> QED
  BY <1>2, <1>3

LEMMA SizeAdds ==
  ASSUME NEW ts \in SUBSET Tensors, NEW t \in Tensors \ ts
  PROVE  SizeOf(ts \cup {t}) = SizeOf(ts) + Bytes[t]
<1>1. Bytes \in [Tensors -> Int] /\ IsFiniteSet(Tensors) /\ Bytes[t] \in Nat
  BY StoreAssumption
<1>2. ts \cup {t} \in SUBSET Tensors /\ (ts \cup {t}) \ {t} = ts
  OBVIOUS
<1>3. Total(Bytes, ts \cup {t}) = Bytes[t] + Total(Bytes, ts)
  <2>1. Total(Bytes, ts \cup {t}) = Bytes[t] + Total(Bytes, (ts \cup {t}) \ {t})
    BY <1>1, <1>2, TotalRemoves
  <2> QED
    BY <1>2, <2>1
<1>4. /\ SizeOf(ts) = Total(Bytes, ts) /\ SizeOf(ts) \in Nat
      /\ SizeOf(ts \cup {t}) = Total(Bytes, ts \cup {t})
  BY <1>2, SizeIsTotal
<1> QED
  BY <1>1, <1>2, <1>3, <1>4

LEMMA SizeOfNone == SizeOf({}) = 0
<1>1. Bytes \in [Tensors -> Int] /\ IsFiniteSet(Tensors)
  BY StoreAssumption
<1>2. Total(Bytes, {}) = 0
  BY <1>1, TotalUnfolds
<1>3. SizeOf({}) = Total(Bytes, {})
  BY SizeIsTotal
<1> QED
  BY <1>2, <1>3

LEMMA SizeOfOne ==
  ASSUME NEW t \in Tensors
  PROVE  SizeOf({t}) = Bytes[t]
<1>1. SizeOf({}) = 0
  BY SizeOfNone
<1>2. SizeOf({} \cup {t}) = SizeOf({}) + Bytes[t]
  BY SizeAdds
<1> QED
  BY <1>1, <1>2, StoreAssumption

LEMMA InsertCounts ==
  ASSUME Counted, NEW t \in Tensors, NEW ev \in Evictions(t), Insert(t, ev)
  PROVE  Counted'
<1>1. ev \subseteq entries_ /\ entries_ \ ev \in SUBSET Tensors /\ t \notin entries_ \ ev
  BY EvictionsAreCandidates DEF Candidates, Counted, Insert
<1>2. SizeOf((entries_ \ ev) \cup {t}) = SizeOf(entries_ \ ev) + Bytes[t]
  BY <1>1, SizeAdds
<1>3. SizeOf(entries_ \ ev) = SizeOf(entries_) - SizeOf(ev)
  BY <1>1, SizeDrops DEF Counted
<1> QED
  BY <1>1, <1>2, <1>3 DEF Counted, WithinBudget, Insert

\* Whatever is dropped with its bytes leaves the counter exact.
LEMMA DropCounts ==
  ASSUME Counted, NEW ev \in SUBSET entries_, entries_' = entries_ \ ev,
         resident_bytes_' = resident_bytes_ - SizeOf(ev)
  PROVE  Counted'
<1>1. SizeOf(entries_ \ ev) = SizeOf(entries_) - SizeOf(ev)
  BY SizeDrops DEF Counted
<1>2. SizeOf(entries_) \in Nat /\ SizeOf(ev) \in Nat /\ MaxBytes \in Nat
  BY SizeIsTotal, StoreAssumption DEF Counted
<1> QED
  BY <1>1, <1>2 DEF Counted, WithinBudget

LEMMA StepCounts == Counted /\ [StoreNext]_storeVars => Counted'
<1> SUFFICES ASSUME Counted, [StoreNext]_storeVars PROVE Counted'
  OBVIOUS
<1>1. ASSUME UNCHANGED <<entries_, resident_bytes_>> PROVE Counted'
  BY <1>1 DEF Counted, WithinBudget
<1>2. ASSUME NEW t \in Tensors, NoteRequest(t) \/ InsertRefused(t) \/ Acquire(t) \/ Release(t)
      PROVE  Counted'
  BY <1>1, <1>2 DEF NoteRequest, InsertRefused, Acquire, Release, storeVars
<1>3. ASSUME NEW t \in Tensors, NEW ev \in Evictions(t), Insert(t, ev) PROVE Counted'
  BY <1>3, InsertCounts
<1>4. ASSUME NEW t \in Tensors, Evict(t) PROVE Counted'
  BY <1>4, DropCounts, SizeOfOne DEF Evict, Candidates
<1>5. ASSUME NEW t \in Tensors, InsertRejected(t) PROVE Counted'
  BY <1>5, DropCounts DEF InsertRejected, Candidates
<1>6. CASE Clear
  BY <1>6, DropCounts DEF Clear, Candidates
<1>7. CASE UNCHANGED storeVars
  BY <1>1, <1>7 DEF storeVars
<1>8. QED
  BY <1>2, <1>3, <1>4, <1>5, <1>6, <1>7 DEF StoreNext

\* The counter is the size of what is resident and never exceeds the bound,
\* whatever is inserted, evicted, refused or cleared.
THEOREM BudgetHolds == StoreSpec => []WithinBudget
<1>1. StoreInit => Counted
  <2>1. SizeOf({}) = 0
    BY SizeOfNone
  <2> QED
    BY <2>1, StoreAssumption DEF StoreInit, Counted, WithinBudget
<1>2. Counted => WithinBudget
  BY DEF Counted
<1>3. QED
  BY <1>1, <1>2, StepCounts, PTL DEF StoreSpec

-------------------------------------------------------------------------------
(* The sessions over the store. *)

(***************************************************************************)
(* The inductive invariant.  What is in use is held because a session      *)
(* keeps one lease per retained request: Covered counts them.  It is an    *)
(* inequality, for a tensor that two operations of a wave obtain may take  *)
(* a lease more than its request gives back; LeaseAccounting needs that    *)
(* the operations of a wave share no input.                                *)
(*                                                                         *)
(* PlaceInv and SubjectInv say what the place of a session's thread tells  *)
(* about its sequences and about the tensor it is busy with.               *)
(***************************************************************************)
Info == [retained : BOOLEAN, backing : BOOLEAN, held : BOOLEAN]
Requests == UNION {[D -> Info] : D \in SUBSET Tensors}
BackingStates == {"NotRequested", "InFlight", "Ready", "Failed", "Released"}

Asks == {"request", "note", "lookup", "missed"}
Gets == {"ready", "wait", "join", "obtain", "insert", "inserted"}
Idles == {"idle", "position", "thrown"}
Places == Asks \cup Gets \cup Idles \cup {"wave", "op", "compute"}

StoreOK == entries_ \subseteq Tensors /\ active_leases \in [Tensors -> Nat]

RequestsOK ==
  /\ requests \in [Sessions -> Requests]
  /\ known_tensors \in [Sessions -> SUBSET Tensors]
  /\ backing \in [Sessions -> [Tensors -> BackingStates]]
  /\ active \in [Sessions -> SUBSET Tensors]

FlowOK ==
  /\ pc \in [Sessions -> Places]
  /\ waves \in [Sessions -> Seq(Wave)]
  /\ ops \in [Sessions -> Seq(Inputs)]
  /\ queue \in [Sessions -> Seq(Tensors)]
  /\ todo \in [Sessions -> Seq(Tensors)]

PlaceInv(s) ==
  /\ pc[s] \notin Idles => waves[s] # <<>>
  /\ pc[s] \in Asks \cup Gets \cup {"op", "compute"} => ops[s] # <<>>
  /\ pc[s] \in Asks => queue[s] # <<>> \/ todo[s] # <<>>
  /\ pc[s] \in Gets => todo[s] # <<>>
  /\ pc[s] \in Gets \cup {"op", "compute"} => queue[s] = <<>>

SubjectInv(s) ==
  LET t == Subject(s) IN
  /\ pc[s] = "note" => ~Retains(s, t) /\ t \notin active[s]
  /\ pc[s] = "lookup" => t \in Requested(s) /\ ~Retains(s, t)
  /\ pc[s] = "missed" => t \in Requested(s)
  /\ pc[s] \in {"insert", "inserted"} =>
       t \in Requested(s) /\ ~Retains(s, t) /\ backing[s][t] = "Ready"

UseInv(s) ==
  /\ active[s] \subseteq Requested(s)
  /\ \A t \in active[s] : Retains(s, t) \/ backing[s][t] = "Ready"

Holders(t) == {s \in Sessions : Retains(s, t)}
Covered == \A t \in Tensors : Cardinality(Holders(t)) <= active_leases[t]

SessionInv == \A s \in Sessions : PlaceInv(s) /\ SubjectInv(s) /\ UseInv(s)

IInv == StoreOK /\ RequestsOK /\ FlowOK /\ SessionInv /\ LeasedIsResident /\ Covered

-------------------------------------------------------------------------------
\* No session and no tensor: nothing is requested.
LEMMA InitIInv == SharedInit => IInv
<1> SUFFICES ASSUME SharedInit PROVE IInv
  OBVIOUS
<1> USE DEF SharedInit, StoreInit
<1>1. StoreOK /\ LeasedIsResident
  BY DEF StoreOK, LeasedIsResident
<1>2. <<>> \in Requests
  <2>1. <<>> \in [{} -> Info]
    OBVIOUS
  <2>2. QED
    BY <2>1 DEF Requests
<1>3. RequestsOK
  BY <1>2, Zenon DEF RequestsOK, BackingStates
<1>4. FlowOK
  <2>1. pc \in [Sessions -> Places]
    BY DEF Places, Idles
  <2>2. /\ waves \in [Sessions -> Seq(Wave)] /\ ops \in [Sessions -> Seq(Inputs)]
        /\ queue \in [Sessions -> Seq(Tensors)] /\ todo \in [Sessions -> Seq(Tensors)]
    <3>1. <<>> \in Seq(Wave) /\ <<>> \in Seq(Inputs) /\ <<>> \in Seq(Tensors)
      OBVIOUS
    <3>2. QED
      BY <3>1, Zenon
  <2>3. QED
    BY <2>1, <2>2 DEF FlowOK
<1>5. SessionInv
  BY DEF SessionInv, PlaceInv, SubjectInv, UseInv, Idles, Asks, Gets
<1>6. Covered
  <2>1. \A s \in Sessions : Requested(s) = {}
    BY DEF Requested
  <2>2. \A t \in Tensors : Holders(t) = {}
    BY <2>1 DEF Holders, Retains
  <2>3. Cardinality({}) = 0
    BY FS_EmptySet
  <2>4. \A t \in Tensors : Cardinality(Holders(t)) = 0 /\ active_leases[t] = 0
    BY <2>2, <2>3
  <2>5. QED
    BY <2>4 DEF Covered
<1>7. QED
  BY <1>1, <1>3, <1>4, <1>5, <1>6 DEF IInv

\* The tensor that a session asks for or obtains.
LEMMA SubjectType ==
  ASSUME FlowOK, NEW s \in Sessions, PlaceInv(s), pc[s] \in Asks \cup Gets
  PROVE  Subject(s) \in Tensors /\ (pc[s] \in Gets => Subject(s) = Head(todo[s]))
<1>1. queue[s] \in Seq(Tensors) /\ todo[s] \in Seq(Tensors)
  BY DEF FlowOK
<1>2. pc[s] \in Gets => todo[s] # <<>> /\ queue[s] = <<>>
  BY DEF PlaceInv
<1>3. queue[s] # <<>> \/ todo[s] # <<>>
  BY DEF PlaceInv
<1>4. QED
  BY <1>1, <1>2, <1>3 DEF Subject

\* A session's requests are records about tensors.
LEMMA RequestType ==
  ASSUME RequestsOK, NEW s \in Sessions
  PROVE  requests[s] \in [Requested(s) -> Info] /\ Requested(s) \subseteq Tensors
  BY DEF RequestsOK, Requests, Requested

-------------------------------------------------------------------------------
(* What a step of a session does to its requests. *)

\* The request for t becomes info.
Sets(s, t, info) == requests' = [requests EXCEPT ![s] = WithRequest(s, t, info)]

LEMMA SetsRequests ==
  ASSUME RequestsOK, NEW s \in Sessions, NEW t \in Tensors, NEW info \in Info, Sets(s, t, info)
  PROVE  /\ requests' \in [Sessions -> Requests]
         /\ \A q \in Sessions \ {s} : requests'[q] = requests[q]
         /\ Requested(s)' = Requested(s) \cup {t}
         /\ \A u : Retains(s, u)' <=> IF u = t THEN info.retained ELSE Retains(s, u)
<1> DEFINE r == WithRequest(s, t, info)
<1>1. requests[s] \in [Requested(s) -> Info] /\ Requested(s) \subseteq Tensors
  BY RequestType
<1>2. r \in [Requested(s) \cup {t} -> Info]
  BY <1>1 DEF WithRequest
<1>3. DOMAIN r = Requested(s) \cup {t} /\ \A u \in DOMAIN r : r[u] = IF u = t THEN info ELSE requests[s][u]
  BY DEF WithRequest
<1>4. r \in Requests
  BY <1>1, <1>2 DEF Requests
<1>5. requests \in [Sessions -> Requests]
  BY DEF RequestsOK
<1> HIDE DEF r
<1>6. requests' = [requests EXCEPT ![s] = r]
  BY DEF Sets, r
<1>7. requests' \in [Sessions -> Requests] /\ requests'[s] = r
      /\ \A q \in Sessions \ {s} : requests'[q] = requests[q]
  BY <1>4, <1>5, <1>6
<1>8. Requested(s)' = Requested(s) \cup {t}
  BY <1>3, <1>7 DEF Requested
<1>9. ASSUME NEW u PROVE Retains(s, u)' <=> IF u = t THEN info.retained ELSE Retains(s, u)
  <2>1. Retains(s, u)' <=> u \in DOMAIN r /\ r[u].retained
    BY <1>7 DEF Retains, Requested
  <2>2. QED
    BY <2>1, <1>3 DEF Retains
<1>10. QED
  BY <1>7, <1>8, <1>9

\* Assignments to fields of a request are such a change.
LEMMA RetainSets ==
  ASSUME RequestsOK, NEW s \in Sessions, NEW t \in Requested(s)
  PROVE  /\ requests' = [requests EXCEPT ![s][t].retained = TRUE, ![s][t].held = TRUE]
              => Sets(s, t, [requests[s][t] EXCEPT !.retained = TRUE, !.held = TRUE])
         /\ requests' = [requests EXCEPT ![s][t].retained = FALSE]
              => Sets(s, t, [requests[s][t] EXCEPT !.retained = FALSE])
         /\ requests' = [requests EXCEPT ![s][t].backing = TRUE]
              => Sets(s, t, [requests[s][t] EXCEPT !.backing = TRUE])
<1>1. requests \in [Sessions -> Requests]
  BY DEF RequestsOK
<1>2. requests[s] \in [Requested(s) -> Info]
  BY RequestType
<1>3. requests[s][t] \in Info
  BY <1>2
<1>4. ASSUME NEW i, requests' = [requests EXCEPT ![s][t] = i]
      PROVE  Sets(s, t, i)
  <2>1. [requests[s] EXCEPT ![t] = i] = WithRequest(s, t, i)
    BY <1>2 DEF WithRequest
  <2>2. requests' = [requests EXCEPT ![s] = [requests[s] EXCEPT ![t] = i]]
    BY <1>1, <1>4
  <2>3. QED
    BY <2>1, <2>2 DEF Sets
<1>5. [requests EXCEPT ![s][t].retained = TRUE, ![s][t].held = TRUE]
      = [requests EXCEPT ![s][t] = [requests[s][t] EXCEPT !.retained = TRUE, !.held = TRUE]]
  BY <1>1, <1>2, <1>3
<1>6. [requests EXCEPT ![s][t].retained = FALSE]
      = [requests EXCEPT ![s][t] = [requests[s][t] EXCEPT !.retained = FALSE]]
  BY <1>1, <1>2, <1>3
<1>7. [requests EXCEPT ![s][t].backing = TRUE]
      = [requests EXCEPT ![s][t] = [requests[s][t] EXCEPT !.backing = TRUE]]
  BY <1>1, <1>2, <1>3
<1>8. QED
  BY <1>4, <1>5, <1>6, <1>7

-------------------------------------------------------------------------------
(* What a step does to the leases. *)

LeasesOK == StoreOK /\ LeasedIsResident /\ Covered

LEMMA HoldersFinite == ASSUME NEW t PROVE IsFiniteSet(Holders(t))
  BY SharedAssumption, FS_Subset DEF Holders

\* Evictions and insertions leave the leases alone, and no session holds more than before.
LEMMA KeepsLeases ==
  ASSUME LeasesOK, UNCHANGED active_leases,
         entries_' \subseteq Tensors, entries_ \ Candidates \subseteq entries_',
         \A q \in Sessions : \A u \in Tensors : Retains(q, u)' => Retains(q, u)
  PROVE  LeasesOK'
<1>1. StoreOK'
  BY DEF LeasesOK, StoreOK
<1>2. LeasedIsResident'
  BY DEF LeasesOK, StoreOK, LeasedIsResident, Candidates
<1>3. Covered'
  <2> SUFFICES ASSUME NEW t \in Tensors PROVE Cardinality(Holders(t)') <= active_leases'[t]
    BY DEF Covered
  <2>1. Holders(t)' \subseteq Holders(t)
    BY DEF Holders
  <2>2. /\ Cardinality(Holders(t)') \in Nat /\ Cardinality(Holders(t)) \in Nat
        /\ Cardinality(Holders(t)') <= Cardinality(Holders(t))
    BY <2>1, HoldersFinite, FS_Subset, FS_CardinalityType
  <2>3. Cardinality(Holders(t)) <= active_leases[t] /\ active_leases[t] \in Nat
    BY DEF LeasesOK, Covered, StoreOK
  <2>4. QED
    BY <2>2, <2>3
<1>4. QED
  BY <1>1, <1>2, <1>3 DEF LeasesOK

\* A lease more, and at most one session that holds the tensor more.
LEMMA TakesLease ==
  ASSUME LeasesOK, NEW s \in Sessions, NEW t \in Tensors, Acquire(t),
         \A q \in Sessions : \A u \in Tensors : Retains(q, u)' => Retains(q, u) \/ (q = s /\ u = t)
  PROVE  LeasesOK'
<1> USE DEF Acquire
<1>1. StoreOK'
  BY DEF LeasesOK, StoreOK
<1>2. LeasedIsResident'
  BY DEF LeasesOK, StoreOK, LeasedIsResident
<1>3. Covered'
  <2> SUFFICES ASSUME NEW u \in Tensors PROVE Cardinality(Holders(u)') <= active_leases'[u]
    BY DEF Covered
  <2>1. Cardinality(Holders(u)) <= active_leases[u] /\ active_leases[u] \in Nat
    BY DEF LeasesOK, Covered, StoreOK
  <2>2. active_leases'[u] = IF u = t THEN active_leases[u] + 1 ELSE active_leases[u]
    BY DEF LeasesOK, StoreOK
  <2>3. CASE u = t
    <3>1. Holders(u)' \subseteq Holders(u) \cup {s}
      BY <2>3 DEF Holders
    <3>2. /\ IsFiniteSet(Holders(u) \cup {s})
          /\ Cardinality(Holders(u) \cup {s}) = IF s \in Holders(u) THEN Cardinality(Holders(u))
                                                ELSE Cardinality(Holders(u)) + 1
      BY HoldersFinite, FS_AddElement
    <3>3. /\ Cardinality(Holders(u)') <= Cardinality(Holders(u) \cup {s})
          /\ Cardinality(Holders(u)') \in Nat /\ Cardinality(Holders(u)) \in Nat
      BY <3>1, <3>2, HoldersFinite, FS_Subset, FS_CardinalityType
    <3>4. QED
      BY <2>1, <2>2, <2>3, <3>2, <3>3
  <2>4. CASE u # t
    <3>1. Holders(u)' \subseteq Holders(u)
      BY <2>4 DEF Holders
    <3>2. /\ Cardinality(Holders(u)') <= Cardinality(Holders(u))
          /\ Cardinality(Holders(u)') \in Nat /\ Cardinality(Holders(u)) \in Nat
      BY <3>1, HoldersFinite, FS_Subset, FS_CardinalityType
    <3>3. QED
      BY <2>1, <2>2, <2>4, <3>2
  <2>5. QED
    BY <2>3, <2>4
<1>4. QED
  BY <1>1, <1>2, <1>3 DEF LeasesOK

\* What a session retains is resident with a lease.
LEMMA RetainedIsLeased ==
  ASSUME LeasesOK, NEW s \in Sessions, NEW t \in Tensors, Retains(s, t)
  PROVE  CanRelease(t)
<1>1. s \in Holders(t)
  BY DEF Holders
<1>2. Cardinality(Holders(t)) # 0 /\ Cardinality(Holders(t)) \in Nat
  BY <1>1, HoldersFinite, FS_EmptySet, FS_CardinalityType
<1>3. active_leases[t] > 0
  BY <1>2 DEF LeasesOK, Covered, StoreOK
<1>4. QED
  BY <1>3 DEF CanRelease, LeasesOK, LeasedIsResident

\* Requests that end give back the lease they hold, and no other session holds less.
LEMMA GivesBack ==
  ASSUME LeasesOK, RequestsOK, NEW s \in Sessions, NEW ts, ReleaseRequests(s, ts)
  PROVE  /\ LeasesOK' /\ (LeaseAccounting => LeaseAccounting')
         /\ requests' \in [Sessions -> Requests] /\ Requested(s)' = Requested(s) \ ts
         /\ \A u \in Requested(s) \ ts : requests'[s][u] = requests[s][u]
         /\ backing' \in [Sessions -> [Tensors -> BackingStates]]
         /\ \A u \in Requested(s) \ ts : (Retains(s, u)' <=> Retains(s, u)) /\ backing'[s][u] = backing[s][u]
         /\ \A q \in Sessions \ {s} : requests'[q] = requests[q] /\ backing'[q] = backing[q]
<1> DEFINE r == Restrict(requests[s], Requested(s) \ ts)
           rel == ts \cap Requested(s)
           b == [t \in Tensors |-> IF t \in rel /\ requests[s][t].backing
                                   THEN BackingRelease(backing[s][t]) ELSE backing[s][t]]
<1>1. requests[s] \in [Requested(s) -> Info] /\ Requested(s) \subseteq Tensors
  BY RequestType
<1>2. r \in [Requested(s) \ ts -> Info] /\ DOMAIN r = Requested(s) \ ts
      /\ \A u \in Requested(s) \ ts : r[u] = requests[s][u]
  BY <1>1 DEF Restrict
<1>3. r \in Requests
  BY <1>1, <1>2 DEF Requests
<1>4. b \in [Tensors -> BackingStates] /\ \A u \in Tensors \ ts : b[u] = backing[s][u]
  <2>1. backing[s] \in [Tensors -> BackingStates]
    BY DEF RequestsOK
  <2>2. \A t \in Tensors : BackingRelease(backing[s][t]) \in BackingStates
    BY <2>1 DEF BackingRelease, BackingStates
  <2>3. QED
    BY <2>1, <2>2
<1> HIDE DEF r, b
<1>5. /\ requests' = [requests EXCEPT ![s] = r] /\ backing' = [backing EXCEPT ![s] = b]
      /\ entries_' = entries_
  BY DEF ReleaseRequests, r, b
<1>6. /\ requests' \in [Sessions -> Requests] /\ requests'[s] = r
      /\ backing' \in [Sessions -> [Tensors -> BackingStates]] /\ backing'[s] = b
      /\ \A q \in Sessions \ {s} : requests'[q] = requests[q] /\ backing'[q] = backing[q]
  BY <1>3, <1>4, <1>5 DEF RequestsOK
<1>7. Requested(s)' = Requested(s) \ ts
  BY <1>2, <1>6 DEF Requested
<1>8. \A u : Retains(s, u)' <=> u \notin ts /\ Retains(s, u)
  BY <1>2, <1>6, <1>7 DEF Retains
<1>9. \A q \in Sessions \ {s} : \A u : Retains(q, u)' <=> Retains(q, u)
  BY <1>6 DEF Retains, Requested
<1>10. ASSUME NEW t \in Tensors
       PROVE  /\ active_leases'[t] = IF t \in rel /\ Retains(s, t) /\ CanRelease(t)
                                     THEN active_leases[t] - 1 ELSE active_leases[t]
              /\ active_leases[t] \in Nat /\ active_leases'[t] \in Nat
  <2>1. active_leases[t] \in Nat
    BY DEF LeasesOK, StoreOK
  <2>2. active_leases'[t] = IF t \in rel /\ Retains(s, t) /\ CanRelease(t)
                            THEN active_leases[t] - 1 ELSE active_leases[t]
    BY <2>1 DEF ReleaseRequests
  <2>3. QED
    BY <2>1, <2>2 DEF CanRelease
<1>11. ASSUME NEW t \in Tensors
       PROVE  \/ /\ active_leases'[t] = active_leases[t] - 1
                 /\ Cardinality(Holders(t)') = Cardinality(Holders(t)) - 1
              \/ active_leases'[t] = active_leases[t] /\ Holders(t)' = Holders(t)
  <2>1. CASE t \in rel /\ Retains(s, t)
    <3>1. Holders(t)' = Holders(t) \ {s} /\ s \in Holders(t)
      BY <1>8, <1>9, <2>1 DEF Holders
    <3>2. Cardinality(Holders(t)') = Cardinality(Holders(t)) - 1
      BY <3>1, HoldersFinite, FS_RemoveElement
    <3>3. CanRelease(t)
      BY <2>1, RetainedIsLeased
    <3>4. QED
      BY <1>10, <2>1, <3>2, <3>3
  <2>2. CASE ~(t \in rel /\ Retains(s, t))
    <3>1. Holders(t)' = Holders(t)
      BY <1>8, <1>9, <2>2 DEF Holders, Retains
    <3>2. QED
      BY <1>10, <2>2, <3>1
  <2>3. QED
    BY <2>1, <2>2
<1>12. LeasesOK'
  <2>1. StoreOK'
    <3>1. active_leases' \in [Tensors -> Nat]
      BY <1>10 DEF ReleaseRequests
    <3>2. QED
      BY <1>5, <3>1 DEF LeasesOK, StoreOK
  <2>2. LeasedIsResident'
    BY <1>5, <1>10 DEF LeasesOK, LeasedIsResident
  <2>3. ASSUME NEW t \in Tensors PROVE Cardinality(Holders(t)') <= active_leases'[t]
    <3>1. Cardinality(Holders(t)) <= active_leases[t] /\ Cardinality(Holders(t)) \in Nat
      BY HoldersFinite, FS_CardinalityType DEF LeasesOK, Covered
    <3>2. QED
      BY <1>10, <1>11, <3>1
  <2>4. QED
    BY <2>1, <2>2, <2>3 DEF LeasesOK, Covered
<1>13. ASSUME LeaseAccounting PROVE LeaseAccounting'
  <2>1. ASSUME NEW t \in Tensors PROVE active_leases'[t] = Cardinality(Holders(t)')
    <3>1. Cardinality(Holders(t)) = active_leases[t]
      BY <1>13 DEF LeaseAccounting, Holders
    <3>2. QED
      BY <1>11, <3>1
  <2>2. QED
    BY <2>1 DEF LeaseAccounting, Holders
<1>14. \A u \in Requested(s) \ ts : requests'[s][u] = requests[s][u]
  BY <1>2, <1>6
<1>15. QED
  BY <1>1, <1>4, <1>6, <1>7, <1>8, <1>12, <1>13, <1>14

-------------------------------------------------------------------------------
(* What a step does to the session's place and its sequences. *)

\* The session s goes to a place with these waves, operations, prefetches and inputs to come.
Moves(s, place, w, o, q, d) ==
  /\ pc' = [pc EXCEPT ![s] = place]
  /\ waves' = [waves EXCEPT ![s] = w] /\ ops' = [ops EXCEPT ![s] = o]
  /\ queue' = [queue EXCEPT ![s] = q] /\ todo' = [todo EXCEPT ![s] = d]

\* What is kept of FlowOK and of the place after a move; the other sessions stay.
FlowStepOK(s) ==
  /\ FlowOK' /\ PlaceInv(s)'
  /\ \A r \in Sessions \ {s} : /\ pc'[r] = pc[r] /\ waves'[r] = waves[r] /\ ops'[r] = ops[r]
                               /\ queue'[r] = queue[r] /\ todo'[r] = todo[r]

Moved(s, place, w, o, q, d) ==
  /\ FlowOK'
  /\ pc'[s] = place /\ waves'[s] = w /\ ops'[s] = o /\ queue'[s] = q /\ todo'[s] = d
  /\ \A r \in Sessions \ {s} : /\ pc'[r] = pc[r] /\ waves'[r] = waves[r] /\ ops'[r] = ops[r]
                               /\ queue'[r] = queue[r] /\ todo'[r] = todo[r]

LEMMA MovesFlow ==
  ASSUME FlowOK, NEW s \in Sessions, NEW place \in Places,
         NEW w \in Seq(Wave), NEW o \in Seq(Inputs), NEW q \in Seq(Tensors), NEW d \in Seq(Tensors),
         Moves(s, place, w, o, q, d)
  PROVE  Moved(s, place, w, o, q, d)
<1> DEFINE W == Seq(Wave)  O == Seq(Inputs)  T == Seq(Tensors)
<1> USE DEF Moves
<1>1. /\ pc \in [Sessions -> Places] /\ waves \in [Sessions -> W] /\ ops \in [Sessions -> O]
      /\ queue \in [Sessions -> T] /\ todo \in [Sessions -> T]
  BY DEF FlowOK
<1>2. w \in W /\ o \in O /\ q \in T /\ d \in T
  OBVIOUS
<1> HIDE DEF W, O, T
<1>3. /\ pc' \in [Sessions -> Places] /\ waves' \in [Sessions -> W] /\ ops' \in [Sessions -> O]
      /\ queue' \in [Sessions -> T] /\ todo' \in [Sessions -> T]
  BY <1>1, <1>2
<1>4. pc'[s] = place /\ waves'[s] = w /\ ops'[s] = o /\ queue'[s] = q /\ todo'[s] = d
  BY <1>1
<1>5. \A r \in Sessions \ {s} : /\ pc'[r] = pc[r] /\ waves'[r] = waves[r] /\ ops'[r] = ops[r]
                                /\ queue'[r] = queue[r] /\ todo'[r] = todo[r]
  BY <1>1
<1>6. QED
  BY <1>3, <1>4, <1>5 DEF Moved, FlowOK, W, O, T

\* What a session has is of its type, and stays when it is not changed.
LEMMA FlowStays ==
  ASSUME FlowOK, NEW s \in Sessions
  PROVE  /\ pc[s] \in Places /\ waves[s] \in Seq(Wave) /\ ops[s] \in Seq(Inputs)
         /\ queue[s] \in Seq(Tensors) /\ todo[s] \in Seq(Tensors)
         /\ waves = [waves EXCEPT ![s] = waves[s]] /\ ops = [ops EXCEPT ![s] = ops[s]]
         /\ queue = [queue EXCEPT ![s] = queue[s]] /\ todo = [todo EXCEPT ![s] = todo[s]]
<1> DEFINE W == Seq(Wave)  O == Seq(Inputs)  T == Seq(Tensors)
<1>1. /\ pc \in [Sessions -> Places] /\ waves \in [Sessions -> W] /\ ops \in [Sessions -> O]
      /\ queue \in [Sessions -> T] /\ todo \in [Sessions -> T]
  BY DEF FlowOK
<1> HIDE DEF W, O, T
<1>2. /\ pc[s] \in Places /\ waves[s] \in W /\ ops[s] \in O /\ queue[s] \in T /\ todo[s] \in T
      /\ waves = [waves EXCEPT ![s] = waves[s]] /\ ops = [ops EXCEPT ![s] = ops[s]]
      /\ queue = [queue EXCEPT ![s] = queue[s]] /\ todo = [todo EXCEPT ![s] = todo[s]]
  BY <1>1
<1>3. QED
  BY <1>2 DEF W, O, T

\* A sequence of one element has an empty tail, a longer one has not.
LEMMA TailLemma ==
  ASSUME NEW S, NEW seq \in Seq(S), seq # <<>>
  PROVE  Tail(seq) \in Seq(S) /\ (Tail(seq) = <<>> <=> Len(seq) = 1) /\ Len(seq) \in Nat \ {0}
         /\ Head(seq) \in S
<1>1. Tail(seq) \in Seq(S) /\ Len(Tail(seq)) = Len(seq) - 1 /\ Head(seq) \in S
  BY HeadTailProperties
<1>2. Len(seq) \in Nat /\ Len(seq) # 0
  BY EmptySeq, LenProperties
<1>3. Tail(seq) = <<>> <=> Len(Tail(seq)) = 0
  BY <1>1, EmptySeq
<1>4. QED
  BY <1>1, <1>2, <1>3

\* The thread goes to another place and has the same before it.
LEMMA GoToFlow ==
  ASSUME FlowOK, NEW s \in Sessions, PlaceInv(s), NEW place \in Places, GoTo(s, place),
         UNCHANGED <<waves, ops, queue, todo>>,
         \/ place \in Idles
         \/ place \in Asks /\ pc[s] \in Asks \cup Gets
         \/ place \in Gets \cup {"compute"} /\ pc[s] \in Gets
  PROVE  FlowStepOK(s)
<1>1. Moves(s, place, waves[s], ops[s], queue[s], todo[s])
  BY FlowStays DEF GoTo, Moves
<1>2. /\ waves[s] \in Seq(Wave) /\ ops[s] \in Seq(Inputs)
      /\ queue[s] \in Seq(Tensors) /\ todo[s] \in Seq(Tensors)
  BY FlowStays
<1>3. Moved(s, place, waves[s], ops[s], queue[s], todo[s])
  BY <1>1, <1>2, MovesFlow
<1>4. PlaceInv(s)'
  BY <1>3 DEF Moved, PlaceInv, Idles, Asks, Gets
<1>5. QED
  BY <1>3, <1>4 DEF Moved, FlowStepOK

\* A prefetch has been issued, or the input that is asked for is obtained next.
LEMMA RequestDoneFlow ==
  ASSUME FlowOK, NEW s \in Sessions, PlaceInv(s), pc[s] \in Asks, NEW accepted \in BOOLEAN,
         RequestDone(s, accepted), UNCHANGED <<waves, ops, todo>>
  PROVE  FlowStepOK(s) /\ pc'[s] \in {"op", "request", "ready", "thrown"}
<1>1. /\ waves[s] \in Seq(Wave) /\ ops[s] \in Seq(Inputs) /\ waves[s] # <<>> /\ ops[s] # <<>>
      /\ queue[s] \in Seq(Tensors) /\ todo[s] \in Seq(Tensors)
      /\ queue[s] # <<>> \/ todo[s] # <<>>
  BY FlowStays DEF PlaceInv, Asks, Idles
<1>2. CASE queue[s] # <<>>
  <2> DEFINE place == IF Len(queue[s]) = 1 THEN "op" ELSE "request"
  <2>1. Tail(queue[s]) \in Seq(Tensors) /\ (Tail(queue[s]) = <<>> <=> Len(queue[s]) = 1)
    BY <1>1, <1>2, TailLemma
  <2>2. place \in Places
    BY DEF Places, Asks
  <2>3. Moves(s, place, waves[s], ops[s], Tail(queue[s]), todo[s])
    BY <1>2, FlowStays DEF RequestDone, GoTo, Moves
  <2> HIDE DEF place
  <2>4. Moved(s, place, waves[s], ops[s], Tail(queue[s]), todo[s])
    BY <1>1, <2>1, <2>2, <2>3, MovesFlow
  <2>5. PlaceInv(s)' /\ pc'[s] \in {"op", "request"}
    BY <1>1, <2>1, <2>4 DEF Moved, PlaceInv, Asks, Gets, Idles, place
  <2>6. QED
    BY <2>4, <2>5 DEF Moved, FlowStepOK
<1>3. CASE queue[s] = <<>>
  <2> DEFINE place == IF accepted THEN "ready" ELSE "thrown"
  <2>1. place \in Places
    BY DEF Places, Gets, Idles
  <2>2. Moves(s, place, waves[s], ops[s], queue[s], todo[s])
    BY <1>3, FlowStays DEF RequestDone, GoTo, Throw, Moves
  <2> HIDE DEF place
  <2>3. Moved(s, place, waves[s], ops[s], queue[s], todo[s])
    BY <1>1, <2>1, <2>2, MovesFlow
  <2>4. PlaceInv(s)' /\ pc'[s] \in {"ready", "thrown"}
    BY <1>1, <1>3, <2>3 DEF Moved, PlaceInv, Asks, Gets, Idles, place
  <2>5. QED
    BY <2>3, <2>4 DEF Moved, FlowStepOK
<1>4. QED
  BY <1>2, <1>3

\* The next input, or the operation.
LEMMA ObtainedFlow ==
  ASSUME FlowOK, NEW s \in Sessions, PlaceInv(s), pc[s] \in Gets, Obtained(s),
         UNCHANGED <<waves, ops, queue>>
  PROVE  FlowStepOK(s) /\ pc'[s] \in {"compute", "ready"}
<1> DEFINE place == IF Len(todo[s]) = 1 THEN "compute" ELSE "ready"
<1>1. /\ waves[s] \in Seq(Wave) /\ ops[s] \in Seq(Inputs) /\ waves[s] # <<>> /\ ops[s] # <<>>
      /\ queue[s] \in Seq(Tensors) /\ todo[s] \in Seq(Tensors) /\ queue[s] = <<>> /\ todo[s] # <<>>
  BY FlowStays DEF PlaceInv, Gets, Idles
<1>2. Tail(todo[s]) \in Seq(Tensors) /\ (Tail(todo[s]) = <<>> <=> Len(todo[s]) = 1)
  BY <1>1, TailLemma
<1>3. place \in Places
  BY DEF Places, Gets
<1>4. Moves(s, place, waves[s], ops[s], queue[s], Tail(todo[s]))
  BY FlowStays DEF Obtained, GoTo, Moves
<1> HIDE DEF place
<1>5. Moved(s, place, waves[s], ops[s], queue[s], Tail(todo[s]))
  BY <1>1, <1>2, <1>3, <1>4, MovesFlow
<1>6. PlaceInv(s)' /\ pc'[s] \in {"compute", "ready"}
  BY <1>1, <1>2, <1>5 DEF Moved, PlaceInv, Asks, Gets, Idles, place
<1>7. QED
  BY <1>5, <1>6 DEF Moved, FlowStepOK

\* The inputs of an operation in the order in which they are obtained.
LEMMA NewFirstType ==
  ASSUME NEW s \in Sessions, NEW inputs \in Inputs, NEW order \in NewFirst(s, inputs)
  PROVE  order \in Seq(Tensors) /\ order # <<>> /\ Len(order) = Len(inputs)
<1>1. inputs \in Seq(Tensors) /\ inputs # <<>>
  BY DEF Inputs
<1>2. /\ Len(inputs) \in Nat /\ DOMAIN inputs = 1..Len(inputs) /\ inputs \in [1..Len(inputs) -> Tensors]
      /\ Len(inputs) # 0
  BY <1>1, LenProperties, EmptySeq
<1>3. PICK o \in [DOMAIN inputs -> DOMAIN inputs] : order = [i \in DOMAIN inputs |-> inputs[o[i]]]
  BY DEF NewFirst
<1>4. order \in [1..Len(inputs) -> Tensors]
  BY <1>2, <1>3
<1>5. order \in Seq(Tensors) /\ Len(order) = Len(inputs)
  BY <1>2, <1>4, IsASeq, LenProperties
<1>6. QED
  BY <1>2, <1>5, EmptySeq

\* A position starts with its first wave, a wave with its prefetches.
LEMMA StartFlow ==
  ASSUME FlowOK, NEW s \in Sessions, PlaceInv(s), StartPosition(s) \/ StartWave(s)
  PROVE  FlowStepOK(s) /\ pc'[s] \in {"wave", "op", "request"}
<1>1. /\ waves[s] \in Seq(Wave) /\ ops[s] \in Seq(Inputs)
      /\ queue[s] \in Seq(Tensors) /\ todo[s] \in Seq(Tensors)
  BY FlowStays
<1>2. CASE StartPosition(s)
  <2>1. PICK p \in Positions : waves' = [waves EXCEPT ![s] = p]
    BY <1>2 DEF StartPosition
  <2>2. p \in Seq(Wave) /\ p # <<>> /\ "wave" \in Places
    BY SharedAssumption DEF Places
  <2>3. Moves(s, "wave", p, ops[s], queue[s], todo[s])
    BY <1>2, <2>1, FlowStays DEF StartPosition, GoTo, Moves
  <2>4. Moved(s, "wave", p, ops[s], queue[s], todo[s])
    BY <1>1, <2>2, <2>3, MovesFlow
  <2>5. PlaceInv(s)'
    BY <2>2, <2>4 DEF Moved, PlaceInv, Asks, Gets, Idles
  <2>6. QED
    BY <2>4, <2>5 DEF Moved, FlowStepOK
<1>3. CASE StartWave(s)
  <2> DEFINE w == Head(waves[s])
             place == IF w.prefetch = <<>> THEN "op" ELSE "request"
  <2>1. waves[s] # <<>> /\ pc[s] = "wave"
    BY <1>3 DEF StartWave, PlaceInv, Idles
  <2>2. w \in Wave
    BY <1>1, <2>1, TailLemma
  <2>3. w.prefetch \in Seq(Tensors) /\ w.ops \in Seq(Inputs) /\ w.ops # <<>>
    BY <2>2 DEF Wave
  <2>4. place \in Places
    BY DEF Places, Asks
  <2>5. Moves(s, place, waves[s], w.ops, w.prefetch, todo[s])
    BY <1>3, FlowStays DEF StartWave, GoTo, Moves
  <2> HIDE DEF w, place
  <2>6. Moved(s, place, waves[s], w.ops, w.prefetch, todo[s])
    BY <1>1, <2>3, <2>4, <2>5, MovesFlow
  <2>7. PlaceInv(s)' /\ pc'[s] \in {"op", "request"}
    BY <2>1, <2>3, <2>6 DEF Moved, PlaceInv, Asks, Gets, Idles, place
  <2>8. QED
    BY <2>6, <2>7 DEF Moved, FlowStepOK
<1>4. QED
  BY <1>2, <1>3

\* An operation starts with its inputs; after it comes the next one, or the next wave.
LEMMA OpFlow ==
  ASSUME FlowOK, NEW s \in Sessions, PlaceInv(s), StartOp(s) \/ Compute(s)
  PROVE  FlowStepOK(s) /\ pc'[s] \in {"ready", "op", "wave", "position"}
<1>1. /\ waves[s] \in Seq(Wave) /\ ops[s] \in Seq(Inputs)
      /\ queue[s] \in Seq(Tensors) /\ todo[s] \in Seq(Tensors)
  BY FlowStays
<1>2. pc[s] \in {"op", "compute"} /\ waves[s] # <<>> /\ ops[s] # <<>> /\ queue[s] = <<>>
  BY DEF StartOp, Compute, PlaceInv, Idles
<1>3. CASE StartOp(s)
  <2>1. Head(ops[s]) \in Inputs
    BY <1>1, <1>2, TailLemma
  <2>2. PICK order \in NewFirst(s, Head(ops[s])) : todo' = [todo EXCEPT ![s] = order]
    BY <1>3 DEF StartOp
  <2>3. order \in Seq(Tensors) /\ order # <<>> /\ "ready" \in Places
    BY <2>1, NewFirstType DEF Places, Gets
  <2>4. Moves(s, "ready", waves[s], ops[s], queue[s], order)
    BY <1>3, <2>2, FlowStays DEF StartOp, GoTo, Moves
  <2>5. Moved(s, "ready", waves[s], ops[s], queue[s], order)
    BY <1>1, <2>3, <2>4, MovesFlow
  <2>6. PlaceInv(s)'
    BY <1>2, <2>3, <2>5 DEF Moved, PlaceInv, Asks, Gets, Idles
  <2>7. QED
    BY <2>5, <2>6 DEF Moved, FlowStepOK
<1>4. CASE Compute(s)
  <2> DEFINE place == IF Len(ops[s]) > 1 THEN "op" ELSE IF Len(waves[s]) > 1 THEN "wave" ELSE "position"
             w == IF Len(ops[s]) = 1 THEN Tail(waves[s]) ELSE waves[s]
             o == Tail(ops[s])
  <2>1. /\ o \in Seq(Inputs) /\ (o = <<>> <=> Len(ops[s]) = 1) /\ Len(ops[s]) \in Nat \ {0}
        /\ Tail(waves[s]) \in Seq(Wave) /\ (Tail(waves[s]) = <<>> <=> Len(waves[s]) = 1)
        /\ Len(waves[s]) \in Nat \ {0}
    BY <1>1, <1>2, TailLemma
  <2>2. w \in Seq(Wave) /\ place \in Places
    BY <1>1, <2>1 DEF Places, Idles
  <2>3. Moves(s, place, w, o, queue[s], todo[s])
    BY <1>4, FlowStays DEF Compute, GoTo, Moves
  <2>4. /\ place = "op" => o # <<>> /\ w # <<>>
        /\ place = "wave" => w # <<>>
        /\ place \in {"op", "wave", "position"}
    <3>1. CASE Len(ops[s]) = 1
      <4>1. w = Tail(waves[s]) /\ place = IF Len(waves[s]) > 1 THEN "wave" ELSE "position"
        BY <3>1
      <4>2. Len(waves[s]) > 1 => w # <<>>
        BY <2>1, <4>1
      <4> HIDE DEF w, place
      <4>3. QED
        BY <4>1, <4>2
    <3>2. CASE Len(ops[s]) # 1
      <4>1. Len(ops[s]) > 1
        BY <2>1, <3>2
      <4>2. place = "op" /\ o # <<>> /\ w = waves[s]
        BY <2>1, <3>2, <4>1
      <4>3. QED
        BY <1>2, <4>2
    <3>3. QED
      BY <3>1, <3>2
  <2> HIDE DEF w, o, place
  <2>5. Moved(s, place, w, o, queue[s], todo[s])
    BY <1>1, <2>1, <2>2, <2>3, MovesFlow
  <2>6. PlaceInv(s)'
    BY <1>2, <2>4, <2>5 DEF Moved, PlaceInv, Asks, Gets, Idles
  <2>7. QED
    BY <2>4, <2>5, <2>6 DEF Moved, FlowStepOK
<1>5. QED
  BY <1>3, <1>4

\* The end of a run leaves nothing to do.
LEMMA EndFlow ==
  ASSUME FlowOK, NEW s \in Sessions, EndRun(s)
  PROVE  FlowStepOK(s) /\ pc'[s] = "idle"
<1>1. /\ <<>> \in Seq(Wave) /\ <<>> \in Seq(Inputs) /\ <<>> \in Seq(Tensors) /\ "idle" \in Places
  BY DEF Places, Idles
<1>2. Moves(s, "idle", <<>>, <<>>, <<>>, <<>>)
  BY DEF EndRun, GoTo, Moves
<1>3. Moved(s, "idle", <<>>, <<>>, <<>>, <<>>)
  BY <1>1, <1>2, MovesFlow
<1>4. PlaceInv(s)'
  BY <1>3 DEF Moved, PlaceInv, Asks, Gets, Idles
<1>5. QED
  BY <1>3, <1>4 DEF Moved, FlowStepOK

-------------------------------------------------------------------------------
(* Steps of a session keep the invariant. *)

Named == {"note", "lookup", "missed", "insert", "inserted"}

RestOK(s) == \A q \in Sessions \ {s} :
  requests'[q] = requests[q] /\ backing'[q] = backing[q] /\ active'[q] = active[q]

\* What a step of s must show: the other sessions keep what they have.
LEMMA KeepsIInv ==
  ASSUME IInv, NEW s \in Sessions, FlowStepOK(s), RestOK(s), RequestsOK', LeasesOK',
         SubjectInv(s)', UseInv(s)'
  PROVE  IInv'
<1>1. ASSUME NEW q \in Sessions PROVE (PlaceInv(q) /\ SubjectInv(q) /\ UseInv(q))'
  <2>1. CASE q = s
    BY <2>1 DEF FlowStepOK
  <2>2. CASE q # s
    <3>1. /\ pc'[q] = pc[q] /\ waves'[q] = waves[q] /\ ops'[q] = ops[q]
          /\ queue'[q] = queue[q] /\ todo'[q] = todo[q]
          /\ requests'[q] = requests[q] /\ backing'[q] = backing[q] /\ active'[q] = active[q]
      BY <2>2 DEF FlowStepOK, RestOK
    <3>2. Subject(q)' = Subject(q) /\ Requested(q)' = Requested(q)
          /\ \A t : Retains(q, t)' <=> Retains(q, t)
      BY <3>1 DEF Subject, Requested, Retains
    <3>3. PlaceInv(q) /\ SubjectInv(q) /\ UseInv(q)
      BY DEF IInv, SessionInv
    <3>4. PlaceInv(q)'
      BY <3>1, <3>3 DEF PlaceInv
    <3>5. SubjectInv(q)'
      BY <3>1, <3>2, <3>3 DEF SubjectInv
    <3>6. UseInv(q)'
      BY <3>1, <3>2, <3>3 DEF UseInv
    <3>7. QED
      BY <3>4, <3>5, <3>6
  <2>3. QED
    BY <2>1, <2>2
<1>2. QED
  BY <1>1 DEF IInv, SessionInv, LeasesOK, FlowStepOK

LEMMA UnnamedSubject ==
  ASSUME NEW s \in Sessions, pc'[s] \notin Named
  PROVE  SubjectInv(s)'
  BY DEF SubjectInv, Named

\* The leases stay when nothing that they depend on changes.
LEMMA SameLeases ==
  ASSUME IInv, UNCHANGED <<requests, entries_, active_leases>>
  PROVE  LeasesOK'
<1>1. LeasesOK /\ entries_' \subseteq Tensors /\ entries_ \ Candidates \subseteq entries_'
  BY DEF IInv, LeasesOK, StoreOK
<1>2. \A q \in Sessions : \A u \in Tensors : Retains(q, u)' => Retains(q, u)
  BY DEF Retains, Requested
<1>3. QED
  BY <1>1, <1>2, KeepsLeases

\* A thread that only goes on.
LEMMA QuietIInv ==
  ASSUME IInv, NEW s \in Sessions, FlowStepOK(s), pc'[s] \notin Named,
         UNCHANGED <<requests, backing, active, storeVars>>,
         known_tensors' \in [Sessions -> SUBSET Tensors]
  PROVE  IInv'
<1> USE DEF storeVars
<1>1. RestOK(s) /\ RequestsOK'
  BY DEF IInv, RestOK, RequestsOK
<1>2. UseInv(s)'
  BY DEF IInv, SessionInv, UseInv, Retains, Requested
<1>3. LeasesOK'
  BY SameLeases
<1>4. QED
  BY <1>1, <1>2, <1>3, UnnamedSubject, KeepsIInv

\* Steps between the calls of the materializer.
LEMMA PlaceStepIInv ==
  ASSUME IInv, NEW s \in Sessions,
         \/ StartRun(s) \/ StartPosition(s) \/ StartWave(s) \/ StartOp(s)
         \/ CheckState(s) \/ Wait(s) \/ Join(s) \/ ComputeFailure(s)
  PROVE  IInv'
<1>1. FlowOK /\ PlaceInv(s)
  BY DEF IInv, SessionInv
<1>2. UNCHANGED <<requests, known_tensors, backing, active, storeVars>>
  BY DEF StartRun, StartPosition, StartWave, StartOp, CheckState, Wait, Join, ComputeFailure
<1>3. FlowStepOK(s) /\ pc'[s] \notin Named
  <2>1. CASE StartPosition(s) \/ StartWave(s)
    BY <1>1, <2>1, StartFlow DEF Named
  <2>2. CASE StartOp(s)
    BY <1>1, <2>2, OpFlow DEF Named
  <2>3. CASE StartRun(s) \/ CheckState(s) \/ Wait(s) \/ Join(s) \/ ComputeFailure(s)
    <3>1. PICK place \in {"position", "obtain", "wait", "request", "join", "thrown"} :
            /\ GoTo(s, place) /\ UNCHANGED <<waves, ops, queue, todo>>
            /\ place \in {"position", "thrown"} \/ pc[s] \in Gets
      <4>1. CASE StartRun(s) \/ ComputeFailure(s)
        BY <4>1 DEF StartRun, ComputeFailure, Throw
      <4>2. CASE CheckState(s)
        BY <4>2, Zenon DEF CheckState, Throw, Gets
      <4>3. CASE Wait(s)
        BY <4>3 DEF Wait, Gets
      <4>4. CASE Join(s)
        BY <4>4 DEF Join, Throw, Gets
      <4>5. QED
        BY <2>3, <4>1, <4>2, <4>3, <4>4
    <3>2. place \in Places /\ place \in Idles \cup Asks \cup Gets /\ place \notin Named
      BY DEF Places, Idles, Asks, Gets, Named
    <3>3. \/ place \in Idles
          \/ place \in Asks /\ pc[s] \in Asks \cup Gets
          \/ place \in Gets \cup {"compute"} /\ pc[s] \in Gets
      BY <3>1, <3>2 DEF Idles
    <3>4. FlowStepOK(s)
      BY <1>1, <3>1, <3>2, <3>3, GoToFlow
    <3>5. pc'[s] = place
      BY <1>1, <3>1 DEF GoTo, FlowOK
    <3>6. QED
      BY <3>2, <3>4, <3>5
  <2>4. QED
    BY <2>1, <2>2, <2>3
<1>4. known_tensors' \in [Sessions -> SUBSET Tensors]
  BY <1>2 DEF IInv, RequestsOK
<1>5. QED
  BY <1>2, <1>3, <1>4, QuietIInv

\* A reader thread's answer touches only its tensor's backing state.
LEMMA WorkerIInv ==
  ASSUME IInv, NEW s \in Sessions, NEW t \in Tensors, Worker(s, t)
  PROVE  IInv'
<1> USE DEF storeVars
<1>1. /\ backing[s][t] = "InFlight"
      /\ UNCHANGED <<requests, known_tensors, pc, waves, ops, queue, todo, active, entries_, active_leases>>
      /\ \E b \in {"Ready", "Failed"} : backing' = [backing EXCEPT ![s][t] = b]
  BY DEF Worker, WorkerReads, WorkerFails
<1>2. backing \in [Sessions -> [Tensors -> BackingStates]]
  BY DEF IInv, RequestsOK
<1>3. /\ backing' \in [Sessions -> [Tensors -> BackingStates]]
      /\ \A q \in Sessions \ {s} : backing'[q] = backing[q]
      /\ \A u : backing[s][u] = "Ready" => backing'[s][u] = "Ready"
  BY <1>1, <1>2 DEF BackingStates
<1>4. RequestsOK' /\ RestOK(s)
  BY <1>1, <1>3 DEF IInv, RequestsOK, RestOK
<1>5. PlaceInv(s) /\ SubjectInv(s) /\ UseInv(s) /\ FlowOK
  BY DEF IInv, SessionInv
<1>6. FlowStepOK(s)
  <2>1. PlaceInv(s)'
    BY <1>1, <1>5 DEF PlaceInv
  <2>2. QED
    BY <1>1, <1>5, <2>1 DEF FlowStepOK, FlowOK
<1>7. Subject(s)' = Subject(s) /\ Requested(s)' = Requested(s)
      /\ \A u : Retains(s, u)' <=> Retains(s, u)
  BY <1>1 DEF Subject, Requested, Retains
<1>8. SubjectInv(s)'
  BY <1>1, <1>3, <1>5, <1>7 DEF SubjectInv
<1>9. UseInv(s)'
  BY <1>1, <1>3, <1>5, <1>7 DEF UseInv
<1>10. QED
  BY <1>1, <1>4, <1>6, <1>8, <1>9, SameLeases, KeepsIInv

\* A lease is taken for the request of t, which may be an input from now on.
LEMMA AcquireIInv ==
  ASSUME IInv, NEW s \in Sessions, FlowStepOK(s), pc'[s] \notin Named,
         NEW t \in Tensors, NEW info \in Info, info.retained, Sets(s, t, info), Acquire(t),
         UNCHANGED backing, known_tensors' \in [Sessions -> SUBSET Tensors],
         active' = active \/ active' = [active EXCEPT ![s] = @ \cup {t}]
  PROVE  IInv'
<1>1. RequestsOK /\ UseInv(s) /\ LeasesOK
  BY DEF IInv, SessionInv, LeasesOK
<1>2. /\ requests' \in [Sessions -> Requests]
      /\ \A q \in Sessions \ {s} : requests'[q] = requests[q]
      /\ Requested(s)' = Requested(s) \cup {t}
      /\ \A u : Retains(s, u)' <=> IF u = t THEN info.retained ELSE Retains(s, u)
  BY <1>1, SetsRequests
<1>3. /\ active' \in [Sessions -> SUBSET Tensors] /\ active'[s] \subseteq active[s] \cup {t}
      /\ \A q \in Sessions \ {s} : active'[q] = active[q]
  BY <1>1 DEF RequestsOK
<1>4. RequestsOK' /\ RestOK(s)
  BY <1>1, <1>2, <1>3 DEF RequestsOK, RestOK
<1>5. UseInv(s)'
  BY <1>1, <1>2, <1>3 DEF UseInv
<1>6. \A q \in Sessions : \A u \in Tensors : Retains(q, u)' => Retains(q, u) \/ (q = s /\ u = t)
  BY <1>2 DEF Retains, Requested
<1>7. LeasesOK'
  BY <1>1, <1>6, TakesLease
<1>8. QED
  BY <1>4, <1>5, <1>7, UnnamedSubject, KeepsIInv

\* A step that stops at a named place has its subject from before.
LEMMA NamedSubject ==
  ASSUME NEW s, UNCHANGED <<queue, todo>>
  PROVE  Subject(s)' = Subject(s)
  BY DEF Subject

\* A request that exists, and the decision to make one.
LEMMA RequestIInv ==
  ASSUME IInv, NEW s \in Sessions, Request(s)
  PROVE  IInv'
<1> DEFINE t == Subject(s)
<1>1. /\ FlowOK /\ PlaceInv(s) /\ UseInv(s) /\ RequestsOK /\ pc[s] = "request"
      /\ UNCHANGED <<backing, waves, ops, todo, active>>
  BY DEF IInv, SessionInv, Request
<1>2. t \in Tensors /\ pc[s] \in Asks
  BY <1>1, SubjectType DEF Asks
<1>3. known_tensors' \in [Sessions -> SUBSET Tensors]
  BY <1>1, <1>2 DEF Request, RequestsOK
<1> HIDE DEF t
<1>4. ASSUME RequestDone(s, TRUE) PROVE FlowStepOK(s) /\ pc'[s] \notin Named
  BY <1>1, <1>2, <1>4, RequestDoneFlow DEF Named
<1>5. CASE RequestDone(s, TRUE) /\ UNCHANGED <<requests, storeVars>>
  BY <1>1, <1>3, <1>4, <1>5, QuietIInv
<1>6. CASE /\ t \in Requested(s) /\ Acquire(t) /\ RequestDone(s, TRUE)
           /\ requests' = [requests EXCEPT ![s][t].retained = TRUE, ![s][t].held = TRUE]
  <2> DEFINE info == [requests[s][t] EXCEPT !.retained = TRUE, !.held = TRUE]
  <2>1. info \in Info /\ info.retained
    BY ZenonT(60), <1>1, <1>6, RequestType DEF Info
  <2>2. Sets(s, t, info)
    BY <1>1, <1>6, RetainSets
  <2> HIDE DEF info
  <2>3. QED
    BY <1>1, <1>2, <1>3, <1>4, <1>6, <2>1, <2>2, AcquireIInv
<1>7. CASE /\ t \in Requested(s) =>
                ~Retains(s, t) /\ t \notin entries_ /\ backing[s][t] \notin {"InFlight", "Ready"}
           /\ GoTo(s, "note") /\ UNCHANGED <<requests, queue, storeVars>>
  <2>1. FlowStepOK(s)
    <3>1. "note" \in Places /\ "note" \in Asks /\ GoTo(s, "note")
      BY <1>7 DEF Places, Asks
    <3>2. QED
      BY <1>1, <1>2, <1>7, <3>1, GoToFlow
  <2>2. pc'[s] = "note"
    BY <1>1, <1>7 DEF GoTo, FlowOK
  <2>3. ~Retains(s, t) /\ t \notin active[s]
    BY <1>1, <1>7 DEF UseInv, Retains
  <2>4. Subject(s)' = t
    BY <1>1, <1>7, NamedSubject DEF t
  <2>5. SubjectInv(s)'
    BY <1>1, <1>7, <2>2, <2>3, <2>4 DEF SubjectInv, Retains, Requested
  <2>6. UseInv(s)' /\ RequestsOK' /\ RestOK(s)
    BY <1>1, <1>3, <1>7 DEF UseInv, RequestsOK, RestOK, Retains, Requested
  <2>7. LeasesOK'
    BY <1>7, SameLeases DEF storeVars
  <2>8. QED
    BY <2>1, <2>5, <2>6, <2>7, KeepsIInv
<1>8. QED
  BY <1>5, <1>6, <1>7 DEF Request, t

\* A new request holds nothing.
LEMMA NoteIInv ==
  ASSUME IInv, NEW s \in Sessions, Note(s)
  PROVE  IInv'
<1> DEFINE t == Subject(s)
           info == [retained |-> FALSE, backing |-> FALSE, held |-> FALSE]
<1>1. /\ FlowOK /\ PlaceInv(s) /\ SubjectInv(s) /\ UseInv(s) /\ RequestsOK /\ LeasesOK /\ pc[s] = "note"
      /\ UNCHANGED <<known_tensors, backing, waves, ops, queue, todo, active, entries_, active_leases>>
      /\ GoTo(s, "lookup") /\ Sets(s, t, info)
  BY DEF IInv, SessionInv, LeasesOK, Note, NoteRequest, Sets
<1>2. t \in Tensors /\ pc[s] \in Asks /\ "lookup" \in Asks /\ "lookup" \in Places
  BY <1>1, SubjectType DEF Asks, Places
<1>3. info \in Info /\ ~info.retained
  BY DEF Info
<1>4. FlowStepOK(s)
  BY <1>1, <1>2, GoToFlow
<1>5. pc'[s] = "lookup"
  BY <1>1 DEF GoTo, FlowOK
<1>6. ~Retains(s, t) /\ t \notin active[s]
  BY <1>1 DEF SubjectInv
<1>7. Subject(s)' = t
  BY <1>1, NamedSubject
<1> HIDE DEF t, info
<1>8. /\ requests' \in [Sessions -> Requests]
      /\ \A q \in Sessions \ {s} : requests'[q] = requests[q]
      /\ Requested(s)' = Requested(s) \cup {t}
      /\ \A u : Retains(s, u)' <=> IF u = t THEN info.retained ELSE Retains(s, u)
  BY <1>1, <1>2, <1>3, SetsRequests
<1>9. RequestsOK' /\ RestOK(s)
  BY <1>1, <1>8 DEF RequestsOK, RestOK
<1>10. SubjectInv(s)'
  BY <1>3, <1>5, <1>7, <1>8 DEF SubjectInv
<1>11. UseInv(s)'
  BY <1>1, <1>6, <1>8 DEF UseInv
<1>12. \A q \in Sessions : \A u \in Tensors : Retains(q, u)' => Retains(q, u)
  BY <1>3, <1>8 DEF Retains, Requested
<1>13. LeasesOK'
  BY <1>1, <1>12, KeepsLeases DEF LeasesOK, StoreOK
<1>14. QED
  BY <1>4, <1>9, <1>10, <1>11, <1>13, KeepsIInv

\* The new request finds the tensor in the store, or goes to the source.
LEMMA LookupIInv ==
  ASSUME IInv, NEW s \in Sessions, Lookup(s)
  PROVE  IInv'
<1> DEFINE t == Subject(s)
<1>1. /\ FlowOK /\ PlaceInv(s) /\ SubjectInv(s) /\ UseInv(s) /\ RequestsOK /\ pc[s] = "lookup"
      /\ UNCHANGED <<known_tensors, backing, waves, ops, todo, active>>
  BY DEF IInv, SessionInv, Lookup
<1>2. t \in Tensors /\ pc[s] \in Asks /\ "missed" \in Asks /\ "missed" \in Places
  BY <1>1, SubjectType DEF Asks, Places
<1>3. known_tensors' \in [Sessions -> SUBSET Tensors] /\ t \in Requested(s) /\ ~Retains(s, t)
  BY <1>1 DEF RequestsOK, SubjectInv
<1> HIDE DEF t
<1>4. CASE /\ Acquire(t) /\ RequestDone(s, TRUE)
           /\ requests' = [requests EXCEPT ![s][t].retained = TRUE, ![s][t].held = TRUE]
  <2> DEFINE info == [requests[s][t] EXCEPT !.retained = TRUE, !.held = TRUE]
  <2>1. info \in Info /\ info.retained
    <3>1. requests[s][t] \in Info
      BY <1>1, <1>3, RequestType
    <3> QED
      BY <3>1 DEF Info
  <2>2. Sets(s, t, info)
    BY <1>1, <1>3, <1>4, RetainSets
  <2>3. FlowStepOK(s) /\ pc'[s] \notin Named
    BY <1>1, <1>2, <1>4, RequestDoneFlow DEF Named
  <2> HIDE DEF info
  <2>4. QED
    BY <1>1, <1>2, <1>3, <1>4, <2>1, <2>2, <2>3, AcquireIInv
<1>5. CASE GoTo(s, "missed") /\ UNCHANGED <<requests, queue, storeVars>>
  <2>1. FlowStepOK(s)
    BY <1>1, <1>2, <1>5, GoToFlow
  <2>2. pc'[s] = "missed"
    BY <1>1, <1>5 DEF GoTo, FlowOK
  <2>3. Subject(s)' = t
    BY <1>1, <1>5, NamedSubject DEF t
  <2>4. SubjectInv(s)'
    BY <1>3, <1>5, <2>2, <2>3 DEF SubjectInv, Requested
  <2>5. UseInv(s)' /\ RequestsOK' /\ RestOK(s)
    BY <1>1, <1>5 DEF UseInv, RequestsOK, RestOK, Retains, Requested
  <2>6. LeasesOK'
    BY <1>5, SameLeases DEF storeVars
  <2>7. QED
    BY <2>1, <2>4, <2>5, <2>6, KeepsIInv
<1>6. QED
  BY <1>4, <1>5 DEF Lookup, t

\* The private materializer keeps a payload that is ready.
LEMMA MissedIInv ==
  ASSUME IInv, NEW s \in Sessions, Missed(s)
  PROVE  IInv'
<1> DEFINE t == Subject(s)
           state == BackingRequest(s, t)
           info == [requests[s][t] EXCEPT !.backing = TRUE]
<1>1. /\ FlowOK /\ PlaceInv(s) /\ SubjectInv(s) /\ UseInv(s) /\ RequestsOK /\ LeasesOK /\ pc[s] = "missed"
      /\ UNCHANGED <<known_tensors, waves, ops, todo, active, entries_, active_leases>>
      /\ requests' = [requests EXCEPT ![s][t].backing = TRUE]
      /\ backing' = [backing EXCEPT ![s][t] = state]
      /\ RequestDone(s, state \in {"InFlight", "Ready"})
  BY DEF IInv, SessionInv, LeasesOK, Missed, storeVars
<1>2. t \in Tensors /\ pc[s] \in Asks
  BY <1>1, SubjectType DEF Asks
<1>3. t \in Requested(s)
  BY <1>1 DEF SubjectInv
<1>4. state \in BackingStates /\ (backing[s][t] = "Ready" => state = "Ready")
  BY DEF BackingRequest, BackingStates
<1> HIDE DEF t, state
<1>5. FlowStepOK(s) /\ pc'[s] \notin Named
  <2>1. (state \in {"InFlight", "Ready"}) \in BOOLEAN
    OBVIOUS
  <2>2. QED
    BY <1>1, <1>2, <2>1, RequestDoneFlow DEF Named
<1>6. info \in Info /\ info.retained = requests[s][t].retained
  BY ZenonT(60), <1>1, <1>3, RequestType DEF Info
<1>7. Sets(s, t, info)
  BY <1>1, <1>3, RetainSets
<1> HIDE DEF info
<1>8. /\ requests' \in [Sessions -> Requests]
      /\ \A q \in Sessions \ {s} : requests'[q] = requests[q]
      /\ Requested(s)' = Requested(s) \cup {t}
      /\ \A u : Retains(s, u)' <=> IF u = t THEN info.retained ELSE Retains(s, u)
  BY <1>1, <1>2, <1>6, <1>7, SetsRequests
<1>9. \A q \in Sessions : \A u : Retains(q, u)' <=> Retains(q, u)
  BY <1>3, <1>6, <1>8 DEF Retains, Requested
<1>10. /\ backing' \in [Sessions -> [Tensors -> BackingStates]]
       /\ \A q \in Sessions \ {s} : backing'[q] = backing[q]
       /\ \A u \in Tensors : backing[s][u] = "Ready" => backing'[s][u] = "Ready"
  BY <1>1, <1>2, <1>4 DEF RequestsOK
<1>11. RequestsOK' /\ RestOK(s)
  BY <1>1, <1>8, <1>10 DEF RequestsOK, RestOK
<1>12. UseInv(s)'
  BY <1>1, <1>8, <1>9, <1>10 DEF UseInv, RequestsOK
<1>13. LeasesOK'
  BY <1>1, <1>9, KeepsLeases DEF LeasesOK, StoreOK
<1>14. QED
  BY <1>5, <1>11, <1>12, <1>13, UnnamedSubject, KeepsIInv

\* An input is obtained: from its lease, from the store, or from the private payload.
LEMMA ObtainIInv ==
  ASSUME IInv, NEW s \in Sessions, Obtain(s)
  PROVE  IInv'
<1> DEFINE t == Subject(s)
           info == IF t \in Requested(s) THEN requests[s][t]
                   ELSE [retained |-> FALSE, backing |-> FALSE, held |-> FALSE]
           leased == [info EXCEPT !.retained = TRUE]
<1>1. /\ FlowOK /\ PlaceInv(s) /\ UseInv(s) /\ RequestsOK /\ LeasesOK /\ pc[s] = "obtain"
      /\ UNCHANGED <<known_tensors, backing, waves, ops, queue>>
  BY DEF IInv, SessionInv, LeasesOK, Obtain
<1>2. t \in Tensors /\ pc[s] \in Gets /\ t = Head(todo[s])
  BY <1>1, SubjectType DEF Gets
<1>3. known_tensors' \in [Sessions -> SUBSET Tensors]
  BY <1>1 DEF RequestsOK
<1>4. info \in Info /\ leased \in Info /\ leased.retained
  BY ZenonT(60), <1>1, RequestType DEF Info
<1>5. info.retained <=> Retains(s, t)
  BY DEF Retains
<1>6. \/ Throw(s) /\ UNCHANGED <<requests, todo, active, storeVars>>
      \/ info.retained /\ Obtained(s) /\ UNCHANGED <<requests, storeVars>>
      \/ Acquire(t) /\ Sets(s, t, leased) /\ Obtained(s)
      \/ /\ t \notin entries_ /\ Sets(s, t, info) /\ UNCHANGED <<todo, active, storeVars>>
         /\ IF backing[s][t] = "Ready" THEN GoTo(s, "insert") ELSE Throw(s)
  BY Zenon DEF Obtain, Sets
<1> HIDE DEF t, info, leased
<1>7. ASSUME Obtained(s)
      PROVE  /\ FlowStepOK(s) /\ pc'[s] \notin Named
             /\ active' = [active EXCEPT ![s] = @ \cup {t}]
  <2>1. FlowStepOK(s) /\ pc'[s] \notin Named
    BY <1>1, <1>2, <1>7, ObtainedFlow DEF Named
  <2>2. QED
    BY <1>2, <1>7, <2>1 DEF Obtained
<1>8. ASSUME Throw(s), UNCHANGED todo PROVE FlowStepOK(s) /\ pc'[s] \notin Named
  <2>1. "thrown" \in Places /\ "thrown" \in Idles
    BY DEF Places, Idles
  <2>2. pc'[s] = "thrown"
    BY <1>1, <1>8 DEF Throw, GoTo, FlowOK
  <2>3. QED
    BY <1>1, <1>8, <2>1, <2>2, GoToFlow DEF Throw, Named
<1>9. CASE Throw(s) /\ UNCHANGED <<requests, todo, active, storeVars>>
  BY <1>1, <1>3, <1>8, <1>9, QuietIInv
<1>10. CASE info.retained /\ Obtained(s) /\ UNCHANGED <<requests, storeVars>>
  <2>1. /\ active' \in [Sessions -> SUBSET Tensors] /\ active'[s] = active[s] \cup {t}
        /\ \A q \in Sessions \ {s} : active'[q] = active[q]
    BY <1>1, <1>2, <1>7, <1>10 DEF RequestsOK
  <2>2. RequestsOK' /\ RestOK(s)
    BY <1>1, <1>10, <2>1 DEF RequestsOK, RestOK
  <2>3. UseInv(s)'
    BY <1>1, <1>5, <1>10, <2>1 DEF UseInv, Retains, Requested
  <2>4. LeasesOK'
    BY <1>10, SameLeases DEF storeVars
  <2>5. QED
    BY <1>7, <1>10, <2>2, <2>3, <2>4, UnnamedSubject, KeepsIInv
<1>11. CASE Acquire(t) /\ Sets(s, t, leased) /\ Obtained(s)
  BY <1>1, <1>2, <1>3, <1>4, <1>7, <1>11, AcquireIInv
<1>12. CASE /\ t \notin entries_ /\ Sets(s, t, info) /\ UNCHANGED <<todo, active, storeVars>>
            /\ IF backing[s][t] = "Ready" THEN GoTo(s, "insert") ELSE Throw(s)
  <2>1. ~Retains(s, t) /\ ~info.retained
    BY <1>1, <1>2, <1>5, <1>12, RetainedIsLeased DEF CanRelease
  <2>2. /\ requests' \in [Sessions -> Requests]
        /\ \A q \in Sessions \ {s} : requests'[q] = requests[q]
        /\ Requested(s)' = Requested(s) \cup {t}
        /\ \A u : Retains(s, u)' <=> IF u = t THEN info.retained ELSE Retains(s, u)
    BY <1>1, <1>2, <1>4, <1>12, SetsRequests
  <2>3. RequestsOK' /\ RestOK(s)
    BY <1>1, <1>12, <2>2 DEF RequestsOK, RestOK
  <2>4. UseInv(s)'
    BY <1>1, <1>12, <2>1, <2>2 DEF UseInv
  <2>5. \A q \in Sessions : \A u \in Tensors : Retains(q, u)' => Retains(q, u)
    BY <2>1, <2>2 DEF Retains, Requested
  <2>6. LeasesOK'
    BY <1>1, <1>12, <2>5, KeepsLeases DEF LeasesOK, StoreOK, storeVars
  <2>7. FlowStepOK(s) /\ SubjectInv(s)'
    <3>1. CASE backing[s][t] = "Ready"
      <4>1. GoTo(s, "insert") /\ "insert" \in Places /\ "insert" \in Gets
        BY <1>12, <3>1 DEF Places, Gets
      <4>2. FlowStepOK(s)
        BY <1>1, <1>2, <1>12, <4>1, GoToFlow
      <4>3. pc'[s] = "insert"
        BY <1>1, <4>1 DEF GoTo, FlowOK
      <4>4. Subject(s)' = t
        BY <1>1, <1>12, NamedSubject DEF t
      <4>5. SubjectInv(s)'
        BY <1>1, <2>1, <2>2, <3>1, <4>3, <4>4 DEF SubjectInv
      <4>6. QED
        BY <4>2, <4>5
    <3>2. CASE backing[s][t] # "Ready"
      BY <1>8, <1>12, <3>2, UnnamedSubject
    <3>3. QED
      BY <3>1, <3>2
  <2>8. QED
    BY <2>3, <2>4, <2>6, <2>7, KeepsIInv
<1>13. QED
  BY <1>6, <1>9, <1>10, <1>11, <1>12

\* Whatever the store does with the payload, it evicts only what has no lease.
LEMMA OfferIInv ==
  ASSUME IInv, NEW s \in Sessions, Offer(s)
  PROVE  IInv'
<1> DEFINE t == Subject(s)
<1>1. /\ FlowOK /\ PlaceInv(s) /\ SubjectInv(s) /\ UseInv(s) /\ RequestsOK /\ LeasesOK /\ pc[s] = "insert"
      /\ UNCHANGED <<requests, known_tensors, backing, waves, ops, queue, todo, active>>
      /\ GoTo(s, "inserted")
  BY DEF IInv, SessionInv, LeasesOK, Offer
<1>2. t \in Tensors /\ pc[s] \in Gets /\ "inserted" \in Gets /\ "inserted" \in Places
  BY <1>1, SubjectType DEF Gets, Places
<1>3. /\ UNCHANGED active_leases
      /\ entries_' \subseteq Tensors /\ entries_ \ Candidates \subseteq entries_'
  <2>1. entries_ \subseteq Tensors
    BY <1>1 DEF LeasesOK, StoreOK
  <2>2. ASSUME NEW ev \in Evictions(t), Insert(t, ev)
        PROVE  /\ UNCHANGED active_leases
               /\ entries_' \subseteq Tensors /\ entries_ \ Candidates \subseteq entries_'
    <3>1. ev \subseteq Candidates
      BY DEF Evictions
    <3>2. QED
      BY <1>2, <2>1, <2>2, <3>1 DEF Insert
  <2>3. CASE InsertRejected(t)
    BY <2>1, <2>3 DEF InsertRejected
  <2>4. CASE InsertRefused(t)
    BY <2>1, <2>4 DEF InsertRefused, storeVars
  <2>5. QED
    BY <2>2, <2>3, <2>4 DEF Offer
<1>4. FlowStepOK(s)
  BY <1>1, <1>2, GoToFlow
<1>5. pc'[s] = "inserted"
  BY <1>1 DEF GoTo, FlowOK
<1>6. Subject(s)' = t
  BY <1>1, NamedSubject
<1>7. SubjectInv(s)'
  BY <1>1, <1>5, <1>6 DEF SubjectInv, Retains, Requested
<1>8. UseInv(s)' /\ RequestsOK' /\ RestOK(s)
  BY <1>1 DEF UseInv, RequestsOK, RestOK, Retains, Requested
<1>9. LeasesOK'
  <2>1. \A q \in Sessions : \A u \in Tensors : Retains(q, u)' => Retains(q, u)
    BY <1>1 DEF Retains, Requested
  <2>2. QED
    BY <1>1, <1>3, <2>1, KeepsLeases
<1>10. QED
  BY <1>4, <1>7, <1>8, <1>9, KeepsIInv

\* After the offer: a lease, or the private payload.
LEMMA ReacquireIInv ==
  ASSUME IInv, NEW s \in Sessions, Reacquire(s)
  PROVE  IInv'
<1> DEFINE t == Subject(s)
<1>1. /\ FlowOK /\ PlaceInv(s) /\ SubjectInv(s) /\ UseInv(s) /\ RequestsOK /\ LeasesOK
      /\ pc[s] = "inserted" /\ Obtained(s)
      /\ UNCHANGED <<known_tensors, backing, waves, ops, queue>>
  BY DEF IInv, SessionInv, LeasesOK, Reacquire
<1>2. t \in Tensors /\ pc[s] \in Gets /\ t = Head(todo[s])
  BY <1>1, SubjectType DEF Gets
<1>3. known_tensors' \in [Sessions -> SUBSET Tensors]
  BY <1>1 DEF RequestsOK
<1>4. t \in Requested(s) /\ ~Retains(s, t) /\ backing[s][t] = "Ready"
  BY <1>1 DEF SubjectInv
<1>5. FlowStepOK(s) /\ pc'[s] \notin Named
  BY <1>1, <1>2, ObtainedFlow DEF Named
<1>6. active' = [active EXCEPT ![s] = @ \cup {t}]
  BY <1>1, <1>2 DEF Obtained
<1> HIDE DEF t
<1>7. CASE /\ Acquire(t)
           /\ requests' = [requests EXCEPT ![s][t].retained = TRUE, ![s][t].held = TRUE]
  <2> DEFINE info == [requests[s][t] EXCEPT !.retained = TRUE, !.held = TRUE]
  <2>1. info \in Info /\ info.retained
    BY ZenonT(60), <1>1, <1>4, RequestType DEF Info
  <2>2. Sets(s, t, info)
    BY <1>1, <1>4, <1>7, RetainSets
  <2> HIDE DEF info
  <2>3. QED
    BY <1>1, <1>2, <1>3, <1>5, <1>6, <1>7, <2>1, <2>2, AcquireIInv
<1>8. CASE requests' = [requests EXCEPT ![s][t].retained = FALSE] /\ UNCHANGED storeVars
  <2> DEFINE info == [requests[s][t] EXCEPT !.retained = FALSE]
  <2>1. info \in Info /\ ~info.retained
    BY ZenonT(60), <1>1, <1>4, RequestType DEF Info
  <2>2. Sets(s, t, info)
    BY <1>1, <1>4, <1>8, RetainSets
  <2> HIDE DEF info
  <2>3. /\ requests' \in [Sessions -> Requests]
        /\ \A q \in Sessions \ {s} : requests'[q] = requests[q]
        /\ Requested(s)' = Requested(s) \cup {t}
        /\ \A u : Retains(s, u)' <=> IF u = t THEN info.retained ELSE Retains(s, u)
    BY <1>1, <1>2, <2>1, <2>2, SetsRequests
  <2>4. /\ active' \in [Sessions -> SUBSET Tensors] /\ active'[s] = active[s] \cup {t}
        /\ \A q \in Sessions \ {s} : active'[q] = active[q]
    BY <1>1, <1>2, <1>6 DEF RequestsOK
  <2>5. RequestsOK' /\ RestOK(s)
    BY <1>1, <2>3, <2>4 DEF RequestsOK, RestOK
  <2>6. UseInv(s)'
    BY <1>1, <1>4, <2>3, <2>4 DEF UseInv
  <2>7. \A q \in Sessions : \A u \in Tensors : Retains(q, u)' => Retains(q, u)
    BY <2>1, <2>3 DEF Retains, Requested
  <2>8. LeasesOK'
    BY <1>1, <1>8, <2>7, KeepsLeases DEF LeasesOK, StoreOK, storeVars
  <2>9. QED
    BY <1>5, <2>5, <2>6, <2>8, UnnamedSubject, KeepsIInv
<1>9. QED
  BY <1>7, <1>8 DEF Reacquire, t

\* What is given back is no longer in use.
LEMMA ReleaseIInv ==
  ASSUME IInv, NEW s \in Sessions, Compute(s) \/ EndRun(s)
  PROVE  IInv'
<1>1. FlowOK /\ PlaceInv(s) /\ UseInv(s) /\ RequestsOK /\ LeasesOK /\ UNCHANGED known_tensors
  BY DEF IInv, SessionInv, LeasesOK, Compute, EndRun
<1>2. PICK ts : /\ ReleaseRequests(s, ts)
                /\ \/ active' = [active EXCEPT ![s] = @ \ ts]
                   \/ active' = [active EXCEPT ![s] = {}]
  BY DEF Compute, EndRun
<1>3. FlowStepOK(s) /\ pc'[s] \notin Named
  BY <1>1, OpFlow, EndFlow DEF Named
<1>4. /\ LeasesOK'
      /\ requests' \in [Sessions -> Requests] /\ Requested(s)' = Requested(s) \ ts
      /\ backing' \in [Sessions -> [Tensors -> BackingStates]]
      /\ \A u \in Requested(s) \ ts : (Retains(s, u)' <=> Retains(s, u)) /\ backing'[s][u] = backing[s][u]
      /\ \A q \in Sessions \ {s} : requests'[q] = requests[q] /\ backing'[q] = backing[q]
  BY <1>1, <1>2, GivesBack
<1>5. /\ active' \in [Sessions -> SUBSET Tensors] /\ active'[s] \subseteq active[s] \ ts
      /\ \A q \in Sessions \ {s} : active'[q] = active[q]
  BY <1>1, <1>2 DEF RequestsOK
<1>6. RequestsOK' /\ RestOK(s)
  BY <1>1, <1>4, <1>5 DEF RequestsOK, RestOK
<1>7. UseInv(s)'
  BY <1>1, <1>4, <1>5 DEF UseInv
<1>8. QED
  BY <1>3, <1>4, <1>6, <1>7, UnnamedSubject, KeepsIInv

-------------------------------------------------------------------------------
\* No step of any session or reader breaks the invariant.
LEMMA StepIInv == IInv /\ [SharedNext]_sharedVars => IInv'
<1>1. ASSUME IInv, SharedNext PROVE IInv'
  <2>1. PICK s \in Sessions : StartRun(s) \/ Step(s) \/ \E t \in Tensors : Worker(s, t)
    BY <1>1 DEF SharedNext
  <2>2. QED
    BY <1>1, <2>1, PlaceStepIInv, WorkerIInv, RequestIInv, NoteIInv, LookupIInv, MissedIInv,
       ObtainIInv, OfferIInv, ReacquireIInv, ReleaseIInv DEF Step
<1>2. ASSUME IInv, UNCHANGED sharedVars PROVE IInv'
  BY <1>2 DEF sharedVars, sessionVars, storeVars, IInv, StoreOK, RequestsOK, FlowOK, SessionInv,
     LeasedIsResident, Covered, PlaceInv, SubjectInv, UseInv, Subject, Holders, Retains, Requested
<1>3. QED
  BY <1>1, <1>2

\* What an operation reads is resident with a lease of its session, or the
\* session has the payload to itself: no eviction by any session takes it away.
THEOREM InUseHolds == SharedSpec => []InUseIsHeld
<1>1. ASSUME IInv PROVE InUseIsHeld
  <2> SUFFICES ASSUME NEW s \in Sessions, NEW t \in active[s], backing[s][t] # "Ready"
               PROVE  Retains(s, t) /\ CanRelease(t)
    BY DEF InUseIsHeld
  <2>1. Retains(s, t) /\ t \in Tensors
    BY <1>1 DEF IInv, SessionInv, UseInv, RequestsOK
  <2>2. LeasesOK
    BY <1>1 DEF IInv, LeasesOK
  <2>3. QED
    BY <2>1, <2>2, RetainedIsLeased
<1>2. QED
  BY <1>1, InitIInv, StepIInv, PTL DEF SharedSpec

\* The sessions' steps keep the store's promise, although none checks it.
THEOREM SharedLeasesHold == SharedSpec => []LeasedIsResident
<1>1. IInv => LeasedIsResident
  BY DEF IInv
<1>2. QED
  BY <1>1, InitIInv, StepIInv, PTL DEF SharedSpec

-------------------------------------------------------------------------------
(***************************************************************************)
(* No lease is left over: where the operations of a wave share no input,   *)
(* Covered is an equation.  A second lease for one request would be taken  *)
(* by an operation that obtains what an earlier one of the wave has        *)
(* obtained; here nothing is active when an operation starts.              *)
(***************************************************************************)
Disjoint(list) == \A i, j \in DOMAIN list : i # j => ToSet(list[i]) \cap ToSet(list[j]) = {}

UsedOnce == \A p \in Positions : \A i \in DOMAIN p : Disjoint(p[i].ops)

\* The session obtains the inputs of an operation.
Obtaining(s) == pc[s] \in Gets \/ (pc[s] \in Asks /\ queue[s] = <<>>)

OnceSeqs(s) ==
  /\ \A i \in DOMAIN waves[s] : Disjoint(waves[s][i].ops)
  /\ Disjoint(ops[s])

OncePlace(s) ==
  /\ pc[s] \in {"idle", "position", "wave", "op"} => active[s] = {}
  /\ pc[s] \in Asks /\ queue[s] # <<>> => active[s] = {}
  /\ Obtaining(s) =>
       /\ IsInjective(todo[s]) /\ ToSet(todo[s]) \cap active[s] = {}
       /\ ToSet(todo[s]) \subseteq ToSet(Head(ops[s]))
  /\ Obtaining(s) \/ pc[s] = "compute" => active[s] \subseteq ToSet(Head(ops[s]))

\* A lease that the request does not find again is that of an active input.
OnceHeld(s) == \A t \in Requested(s) : requests[s][t].retained => requests[s][t].held \/ t \in active[s]

OnceInv == \A s \in Sessions : OnceSeqs(s) /\ OncePlace(s) /\ OnceHeld(s)

OnceIInv == IInv /\ OnceInv /\ LeaseAccounting

\* The first element of a sequence and the others.
LEMMA TailSet ==
  ASSUME NEW S, NEW seq \in Seq(S), seq # <<>>
  PROVE  /\ ToSet(seq) = {Head(seq)} \cup ToSet(Tail(seq))
         /\ IsInjective(seq) => IsInjective(Tail(seq)) /\ Head(seq) \notin ToSet(Tail(seq))
<1>1. /\ Len(seq) \in Nat \ {0} /\ DOMAIN seq = 1..Len(seq)
      /\ Tail(seq) \in Seq(S) /\ Len(Tail(seq)) = Len(seq) - 1 /\ DOMAIN Tail(seq) = 1..(Len(seq) - 1)
  BY TailLemma, HeadTailProperties, LenProperties
<1>2. Head(seq) = seq[1] /\ \A i \in 1..(Len(seq) - 1) : Tail(seq)[i] = seq[i + 1]
  BY <1>1, HeadTailProperties
<1>3. \A j \in 2..Len(seq) : j - 1 \in 1..(Len(seq) - 1) /\ Tail(seq)[j - 1] = seq[j]
  BY <1>1, <1>2
<1>4. ToSet(seq) = {Head(seq)} \cup ToSet(Tail(seq))
  <2>1. /\ ToSet(seq) = {seq[j] : j \in 1..Len(seq)}
        /\ ToSet(Tail(seq)) = {Tail(seq)[i] : i \in 1..(Len(seq) - 1)}
    BY <1>1 DEF ToSet
  <2>2. ASSUME NEW j \in 1..Len(seq) PROVE seq[j] \in {Head(seq)} \cup ToSet(Tail(seq))
    <3>1. j = 1 \/ j \in 2..Len(seq)
      BY <1>1
    <3>2. QED
      BY <1>2, <1>3, <2>1, <3>1
  <2>3. 1 \in 1..Len(seq) /\ \A i \in 1..(Len(seq) - 1) : i + 1 \in 1..Len(seq)
    BY <1>1
  <2>4. Head(seq) \in ToSet(seq) /\ \A i \in 1..(Len(seq) - 1) : Tail(seq)[i] \in ToSet(seq)
    BY <1>2, <2>1, <2>3
  <2>5. QED
    BY <2>1, <2>2, <2>4
<1>5. ASSUME IsInjective(seq) PROVE IsInjective(Tail(seq)) /\ Head(seq) \notin ToSet(Tail(seq))
  BY SMTT(60), <1>1, <1>2, <1>5 DEF IsInjective, ToSet
<1>6. QED
  BY <1>4, <1>5

\* What is disjoint stays so without its first member.
LEMMA TailDisjoint ==
  ASSUME NEW S, NEW list \in Seq(S), list # <<>>, Disjoint(list)
  PROVE  /\ Disjoint(Tail(list))
         /\ \A inputs \in ToSet(Tail(list)) : ToSet(inputs) \cap ToSet(Head(list)) = {}
<1>1. /\ Len(list) \in Nat \ {0} /\ DOMAIN list = 1..Len(list)
      /\ Tail(list) \in Seq(S) /\ Len(Tail(list)) = Len(list) - 1 /\ DOMAIN Tail(list) = 1..(Len(list) - 1)
  BY TailLemma, HeadTailProperties, LenProperties
<1>2. Head(list) = list[1] /\ \A i \in 1..(Len(list) - 1) : Tail(list)[i] = list[i + 1]
  BY <1>1, HeadTailProperties
<1>3. \A i, j \in 1..Len(list) : i # j => ToSet(list[i]) \cap ToSet(list[j]) = {}
  BY <1>1 DEF Disjoint
<1>4. \A i \in 1..(Len(list) - 1) : i + 1 \in 1..Len(list) /\ i + 1 # 1
  BY <1>1
<1>5. Disjoint(Tail(list))
  BY <1>1, <1>2, <1>3, <1>4 DEF Disjoint
<1>6. ASSUME NEW k \in 1..(Len(list) - 1) PROVE ToSet(Tail(list)[k]) \cap ToSet(Head(list)) = {}
  BY <1>1, <1>2, <1>3, <1>4
<1>7. ToSet(Tail(list)) = {Tail(list)[k] : k \in 1..(Len(list) - 1)}
  BY <1>1 DEF ToSet
<1>8. QED
  BY <1>5, <1>6, <1>7

\* The order in which inputs are obtained names each of them once.
LEMMA NewFirstOnce ==
  ASSUME NEW s \in Sessions, NEW inputs \in Inputs, NEW order \in NewFirst(s, inputs)
  PROVE  IsInjective(order) /\ ToSet(order) \subseteq ToSet(inputs)
<1> DEFINE D == DOMAIN inputs
           isActive(i) == inputs[i] \in active[s]
           before(i, j) == IF isActive(i) = isActive(j) THEN i < j ELSE isActive(j)
<1>1. D \subseteq Int
  BY LenProperties DEF Inputs
<1>2. IsInjective(inputs)
  BY DEF Inputs
<1>3. PICK o \in [D -> D] : /\ order = [i \in D |-> inputs[o[i]]]
                            /\ \A i, j \in D : i < j => before(o[i], o[j])
  BY DEF NewFirst
<1>4. ASSUME NEW i \in D, NEW j \in D, i # j PROVE o[i] # o[j]
  <2>1. i < j \/ j < i
    BY <1>1, <1>4
  <2>2. before(o[i], o[j]) \/ before(o[j], o[i])
    BY <1>3, <2>1
  <2>3. o[i] \in Int /\ o[j] \in Int
    BY <1>1, <1>3
  <2>4. QED
    BY <2>2, <2>3
<1> HIDE DEF D
<1>5. \A i, j \in D : inputs[i] = inputs[j] => i = j
  BY <1>2 DEF IsInjective, D
<1>6. DOMAIN order = D /\ \A i \in D : order[i] = inputs[o[i]] /\ o[i] \in D
  BY <1>3
<1>7. IsInjective(order)
  BY <1>4, <1>5, <1>6 DEF IsInjective
<1>8. ToSet(order) \subseteq ToSet(inputs)
  BY <1>6 DEF ToSet, D
<1>9. QED
  BY <1>7, <1>8

\* Nothing is taken and nothing given back.
LEMMA BalanceKept ==
  ASSUME LeaseAccounting, UNCHANGED active_leases,
         \A q \in Sessions : \A u \in Tensors : Retains(q, u)' <=> Retains(q, u)
  PROVE  LeaseAccounting'
<1>1. \A u \in Tensors : Holders(u)' = Holders(u)
  BY DEF Holders
<1>2. QED
  BY <1>1 DEF LeaseAccounting, Holders

\* A lease is taken for a request that had none.
LEMMA BalanceTaken ==
  ASSUME LeasesOK, LeaseAccounting, NEW s \in Sessions, NEW t \in Tensors, Acquire(t), ~Retains(s, t),
         \A q \in Sessions : \A u \in Tensors : Retains(q, u)' <=> Retains(q, u) \/ (q = s /\ u = t)
  PROVE  LeaseAccounting'
<1>1. ASSUME NEW u \in Tensors PROVE active_leases'[u] = Cardinality(Holders(u)')
  <2>1. active_leases[u] = Cardinality(Holders(u)) /\ active_leases[u] \in Nat
    BY DEF LeaseAccounting, Holders, LeasesOK, StoreOK
  <2>2. active_leases'[u] = IF u = t THEN active_leases[u] + 1 ELSE active_leases[u]
    BY DEF Acquire, LeasesOK, StoreOK
  <2>3. CASE u = t
    <3>1. Holders(u)' = Holders(u) \cup {s} /\ s \notin Holders(u)
      BY <2>3 DEF Holders
    <3>2. Cardinality(Holders(u)') = Cardinality(Holders(u)) + 1
      BY <3>1, HoldersFinite, FS_AddElement
    <3>3. QED
      BY <2>1, <2>2, <2>3, <3>2
  <2>4. CASE u # t
    <3>1. Holders(u)' = Holders(u)
      BY <2>4 DEF Holders
    <3>2. QED
      BY <2>1, <2>2, <2>4, <3>1
  <2>5. QED
    BY <2>3, <2>4
<1>2. QED
  BY <1>1 DEF LeaseAccounting, Holders

\* The tensor that is asked for or obtained, and what the request of it becomes.
LEMMA SetsBalance ==
  ASSUME RequestsOK, NEW s \in Sessions, NEW t \in Tensors, NEW info \in Info, Sets(s, t, info)
  PROVE  /\ ~Retains(s, t) /\ info.retained =>
              \A q \in Sessions : \A u : Retains(q, u)' <=> Retains(q, u) \/ (q = s /\ u = t)
         /\ (info.retained <=> Retains(s, t)) =>
              \A q \in Sessions : \A u : Retains(q, u)' <=> Retains(q, u)
<1>1. /\ \A q \in Sessions \ {s} : requests'[q] = requests[q]
      /\ \A u : Retains(s, u)' <=> IF u = t THEN info.retained ELSE Retains(s, u)
  BY SetsRequests
<1>2. \A q \in Sessions \ {s} : \A u : Retains(q, u)' <=> Retains(q, u)
  BY <1>1 DEF Retains, Requested
<1>3. QED
  BY <1>1, <1>2

LEMMA HeldSets ==
  ASSUME RequestsOK, NEW s \in Sessions, OnceHeld(s), NEW t \in Tensors, NEW info \in Info,
         Sets(s, t, info), info.retained => info.held \/ t \in active'[s], active[s] \subseteq active'[s]
  PROVE  OnceHeld(s)'
<1>1. requests'[s] = WithRequest(s, t, info)
  BY DEF Sets, RequestsOK
<1>2. Requested(s)' = Requested(s) \cup {t}
  BY SetsRequests
<1>3. \A u \in Requested(s) \cup {t} : requests'[s][u] = IF u = t THEN info ELSE requests[s][u]
  BY <1>1 DEF WithRequest
<1>4. QED
  BY <1>2, <1>3 DEF OnceHeld

\* A step of s that leaves the requests alone.
LEMMA QuietBalance ==
  ASSUME LeaseAccounting, NEW s \in Sessions, OnceHeld(s),
         UNCHANGED <<requests, active_leases>>, active[s] \subseteq active'[s]
  PROVE  LeaseAccounting' /\ OnceHeld(s)'
<1>1. \A q \in Sessions : \A u \in Tensors : Retains(q, u)' <=> Retains(q, u)
  BY DEF Retains, Requested
<1>2. LeaseAccounting'
  BY <1>1, BalanceKept
<1>3. OnceHeld(s)'
  BY DEF OnceHeld, Requested
<1>4. QED
  BY <1>2, <1>3

\* A step of s that takes a lease for a request that had none.
LEMMA TakenBalance ==
  ASSUME RequestsOK, LeasesOK, LeaseAccounting, NEW s \in Sessions, OnceHeld(s), NEW t \in Tensors,
         NEW info \in Info, info.retained, info.held \/ t \in active'[s], ~Retains(s, t),
         Acquire(t), Sets(s, t, info), active[s] \subseteq active'[s]
  PROVE  LeaseAccounting' /\ OnceHeld(s)'
<1>1. \A q \in Sessions : \A u \in Tensors : Retains(q, u)' <=> Retains(q, u) \/ (q = s /\ u = t)
  BY SetsBalance
<1>2. QED
  BY <1>1, BalanceTaken, HeldSets

\* A step of s that changes a request and no lease.
LEMMA SetsOnly ==
  ASSUME RequestsOK, LeaseAccounting, NEW s \in Sessions, OnceHeld(s), NEW t \in Tensors,
         NEW info \in Info, info.retained <=> Retains(s, t),
         info.retained => info.held \/ t \in active'[s],
         UNCHANGED active_leases, Sets(s, t, info), active[s] \subseteq active'[s]
  PROVE  LeaseAccounting' /\ OnceHeld(s)'
<1>1. \A q \in Sessions : \A u \in Tensors : Retains(q, u)' <=> Retains(q, u)
  BY SetsBalance
<1>2. QED
  BY <1>1, BalanceKept, HeldSets

\* Leases and requests stay balanced.  Only Obtain needs that its input is not active yet.
LEMMA BalanceStep ==
  ASSUME OnceIInv, NEW s \in Sessions, StartRun(s) \/ Step(s) \/ (\E t \in Tensors : Worker(s, t))
  PROVE  LeaseAccounting' /\ OnceHeld(s)'
<1> DEFINE t == Subject(s)
<1>1. /\ FlowOK /\ PlaceInv(s) /\ SubjectInv(s) /\ UseInv(s) /\ RequestsOK /\ LeasesOK
      /\ OncePlace(s) /\ OnceHeld(s) /\ LeaseAccounting
  BY DEF OnceIInv, IInv, SessionInv, LeasesOK, OnceInv
<1>2. pc[s] \in Asks \cup Gets => t \in Tensors /\ (pc[s] \in Gets => t = Head(todo[s]))
  BY <1>1, SubjectType
<1> DEFINE kept == [requests[s][t] EXCEPT !.retained = TRUE, !.held = TRUE]
<1>3. ASSUME t \in Requested(s) PROVE requests[s][t] \in Info /\ kept \in Info /\ kept.retained /\ kept.held
  BY ZenonT(60), <1>1, <1>3, RequestType DEF Info
<1>4. ASSUME t \in Requested(s), requests' = [requests EXCEPT ![s][t].retained = TRUE, ![s][t].held = TRUE]
      PROVE  Sets(s, t, kept)
  BY <1>1, <1>4, RetainSets
<1>5. ASSUME Obtained(s) PROVE active'[s] = active[s] \cup {Head(todo[s])}
  BY <1>1, <1>5 DEF Obtained, RequestsOK
<1> HIDE DEF t, kept
<1>6. CASE \/ StartRun(s) \/ StartPosition(s) \/ StartWave(s) \/ StartOp(s) \/ CheckState(s) \/ Wait(s)
           \/ Join(s) \/ ComputeFailure(s) \/ Offer(s) \/ \E u \in Tensors : Worker(s, u)
  <2>1. UNCHANGED <<requests, active_leases, active>>
    BY <1>6 DEF StartRun, StartPosition, StartWave, StartOp, CheckState, Wait, Join, ComputeFailure,
       Offer, Insert, InsertRejected, InsertRefused, Worker, WorkerReads, WorkerFails, storeVars
  <2>2. QED
    BY <1>1, <2>1, QuietBalance
<1>7. CASE Request(s)
  <2>1. pc[s] \in Asks /\ UNCHANGED active
    BY <1>7 DEF Request, Asks
  <2>2. CASE UNCHANGED <<requests, storeVars>>
    BY <1>1, <2>1, <2>2, QuietBalance DEF storeVars
  <2>3. CASE /\ t \in Requested(s) /\ ~Retains(s, t) /\ Acquire(t)
             /\ requests' = [requests EXCEPT ![s][t].retained = TRUE, ![s][t].held = TRUE]
    BY <1>1, <1>2, <1>3, <1>4, <2>1, <2>3, TakenBalance
  <2>4. QED
    BY <1>7, <2>2, <2>3 DEF Request, t
<1>8. CASE Note(s)
  <2> DEFINE info == [retained |-> FALSE, backing |-> FALSE, held |-> FALSE]
  <2>1. pc[s] \in Asks /\ UNCHANGED <<active, active_leases>> /\ Sets(s, t, info) /\ pc[s] = "note"
    BY <1>8 DEF Note, NoteRequest, Asks, Sets, t
  <2>2. info \in Info /\ ~info.retained /\ ~Retains(s, t)
    BY <1>1, <2>1 DEF Info, SubjectInv, t
  <2> HIDE DEF info
  <2>3. QED
    BY <1>1, <1>2, <2>1, <2>2, SetsOnly
<1>9. CASE Lookup(s)
  <2>1. /\ pc[s] \in Asks /\ UNCHANGED active /\ t \in Requested(s) /\ ~Retains(s, t)
    BY <1>1, <1>9 DEF Lookup, Asks, SubjectInv, t
  <2>2. CASE UNCHANGED <<requests, storeVars>>
    BY <1>1, <2>1, <2>2, QuietBalance DEF storeVars
  <2>3. CASE /\ Acquire(t)
             /\ requests' = [requests EXCEPT ![s][t].retained = TRUE, ![s][t].held = TRUE]
    BY <1>1, <1>2, <1>3, <1>4, <2>1, <2>3, TakenBalance
  <2>4. QED
    BY <1>9, <2>2, <2>3 DEF Lookup, t
<1>10. CASE Missed(s)
  <2> DEFINE info == [requests[s][t] EXCEPT !.backing = TRUE]
  <2>1. /\ pc[s] \in Asks /\ UNCHANGED <<active, active_leases>> /\ t \in Requested(s)
        /\ requests' = [requests EXCEPT ![s][t].backing = TRUE]
    BY <1>1, <1>10 DEF Missed, Asks, SubjectInv, storeVars, t
  <2>2. Sets(s, t, info)
    BY <1>1, <2>1, RetainSets
  <2>3. info \in Info /\ (info.retained <=> Retains(s, t)) /\ info.held = requests[s][t].held
    BY <1>3, <2>1 DEF Info, Retains
  <2>4. info.retained => info.held \/ t \in active'[s]
    BY <1>1, <2>1, <2>3 DEF OnceHeld, Retains
  <2> HIDE DEF info
  <2>5. QED
    BY <1>1, <1>2, <2>1, <2>2, <2>3, <2>4, SetsOnly
<1>11. CASE Obtain(s)
  <2> DEFINE info == IF t \in Requested(s) THEN requests[s][t]
                     ELSE [retained |-> FALSE, backing |-> FALSE, held |-> FALSE]
             leased == [info EXCEPT !.retained = TRUE]
  <2>1. pc[s] \in Gets /\ todo[s] # <<>>
    BY <1>1, <1>11 DEF Obtain, Gets, PlaceInv
  <2>2. info \in Info /\ leased \in Info /\ leased.retained
    BY <1>3 DEF Info
  <2>3. info.retained <=> Retains(s, t)
    BY DEF Retains
  <2>4. \/ UNCHANGED <<requests, active, storeVars>>
        \/ Obtained(s) /\ UNCHANGED <<requests, storeVars>>
        \/ ~(info.retained /\ info.held) /\ Acquire(t) /\ Sets(s, t, leased) /\ Obtained(s)
        \/ t \notin entries_ /\ Sets(s, t, info) /\ UNCHANGED <<active, storeVars>>
    BY <1>11, Zenon DEF Obtain, Sets, t
  <2>5. ~(info.retained /\ info.held) => ~Retains(s, t)
    <3>1. t \notin active[s]
      <4>1. Head(todo[s]) \in ToSet(todo[s])
        <5>1. todo[s] \in Seq(Tensors)
          BY <1>1, FlowStays
        <5>2. QED
          BY <2>1, <5>1, TailSet
      <4>2. QED
        BY <1>1, <1>2, <2>1, <4>1 DEF OncePlace, Obtaining
    <3>2. QED
      BY <1>1, <2>3, <3>1 DEF OnceHeld, Retains
  <2> HIDE DEF info, leased
  <2>6. CASE UNCHANGED <<requests, active, storeVars>>
    BY <1>1, <2>6, QuietBalance DEF storeVars
  <2>7. CASE Obtained(s) /\ UNCHANGED <<requests, storeVars>>
    BY <1>1, <1>5, <2>7, QuietBalance DEF storeVars
  <2>8. CASE ~(info.retained /\ info.held) /\ Acquire(t) /\ Sets(s, t, leased) /\ Obtained(s)
    BY <1>1, <1>2, <1>5, <2>1, <2>2, <2>5, <2>8, TakenBalance
  <2>9. CASE t \notin entries_ /\ Sets(s, t, info) /\ UNCHANGED <<active, storeVars>>
    <3>1. ~Retains(s, t)
      BY <1>1, <1>2, <2>1, <2>9, RetainedIsLeased DEF CanRelease
    <3>2. QED
      BY <1>1, <1>2, <2>1, <2>2, <2>3, <2>9, <3>1, SetsOnly DEF storeVars
  <2>10. QED
    BY <2>4, <2>6, <2>7, <2>8, <2>9
<1>12. CASE Reacquire(s)
  <2>1. /\ pc[s] \in Gets /\ Obtained(s) /\ t \in Requested(s) /\ ~Retains(s, t)
    BY <1>1, <1>12 DEF Reacquire, Gets, SubjectInv, t
  <2>2. CASE /\ Acquire(t)
             /\ requests' = [requests EXCEPT ![s][t].retained = TRUE, ![s][t].held = TRUE]
    BY <1>1, <1>2, <1>3, <1>4, <1>5, <2>1, <2>2, TakenBalance
  <2>3. CASE requests' = [requests EXCEPT ![s][t].retained = FALSE] /\ UNCHANGED storeVars
    <3> DEFINE info == [requests[s][t] EXCEPT !.retained = FALSE]
    <3>1. info \in Info /\ ~info.retained
      BY <1>3, <2>1 DEF Info
    <3>2. Sets(s, t, info)
      BY <1>1, <2>1, <2>3, RetainSets
    <3> HIDE DEF info
    <3>3. QED
      BY <1>1, <1>2, <1>5, <2>1, <2>3, <3>1, <3>2, SetsOnly DEF storeVars
  <2>4. QED
    BY <1>12, <2>2, <2>3 DEF Reacquire, t
<1>13. CASE Compute(s) \/ EndRun(s)
  <2>1. PICK ts : /\ ReleaseRequests(s, ts)
                  /\ \/ active' = [active EXCEPT ![s] = @ \ ts]
                     \/ ts = Requested(s)
    BY <1>13 DEF Compute, EndRun
  <2>2. /\ LeaseAccounting' /\ Requested(s)' = Requested(s) \ ts
        /\ \A u \in Requested(s) \ ts : requests'[s][u] = requests[s][u]
    BY <1>1, <2>1, GivesBack
  <2>3. ts = Requested(s) \/ active'[s] = active[s] \ ts
    BY <1>1, <2>1 DEF RequestsOK
  <2>4. OnceHeld(s)'
    BY <1>1, <2>2, <2>3 DEF OnceHeld
  <2>5. QED
    BY <2>2, <2>4
<1>14. QED
  BY <1>6, <1>7, <1>8, <1>9, <1>10, <1>11, <1>12, <1>13 DEF Step

\* A step of s touches nothing of another session.
SameSession(q) ==
  /\ pc'[q] = pc[q] /\ waves'[q] = waves[q] /\ ops'[q] = ops[q]
  /\ queue'[q] = queue[q] /\ todo'[q] = todo[q]
  /\ requests'[q] = requests[q] /\ active'[q] = active[q]

LEMMA OthersStay ==
  ASSUME IInv, NEW s \in Sessions, StartRun(s) \/ Step(s) \/ (\E t \in Tensors : Worker(s, t)),
         NEW q \in Sessions, q # s
  PROVE  SameSession(q)
<1>1. /\ pc = [r \in Sessions |-> pc[r]] /\ waves = [r \in Sessions |-> waves[r]]
      /\ ops = [r \in Sessions |-> ops[r]] /\ queue = [r \in Sessions |-> queue[r]]
      /\ todo = [r \in Sessions |-> todo[r]] /\ requests = [r \in Sessions |-> requests[r]]
      /\ active = [r \in Sessions |-> active[r]]
  BY DEF IInv, FlowOK, RequestsOK
<1> USE DEF SameSession, GoTo, Throw
<1>2. CASE StartRun(s) \/ StartPosition(s) \/ StartWave(s) \/ StartOp(s)
  BY <1>1, <1>2 DEF StartRun, StartPosition, StartWave, StartOp
<1>3. CASE CheckState(s) \/ Wait(s) \/ Join(s) \/ ComputeFailure(s) \/ Offer(s)
  BY <1>1, <1>3 DEF CheckState, Wait, Join, ComputeFailure, Offer
<1>4. CASE \E u \in Tensors : Worker(s, u)
  BY <1>1, <1>4 DEF Worker, WorkerReads, WorkerFails
<1>5. CASE Request(s)
  BY <1>1, <1>5 DEF Request, RequestDone
<1>6. CASE Note(s) \/ Lookup(s)
  BY <1>1, <1>6 DEF Note, Lookup, RequestDone
<1>7. CASE Missed(s)
  BY <1>1, <1>7 DEF Missed, RequestDone
<1>8. CASE Obtain(s)
  BY <1>1, <1>8 DEF Obtain, Obtained
<1>9. CASE Reacquire(s)
  BY <1>1, <1>9 DEF Reacquire, Obtained
<1>10. CASE Compute(s) \/ EndRun(s)
  BY <1>1, <1>10 DEF Compute, EndRun, ReleaseRequests
<1>11. QED
  BY <1>2, <1>3, <1>4, <1>5, <1>6, <1>7, <1>8, <1>9, <1>10 DEF Step

\* The operations to come share no input.
LEMMA SeqsStep ==
  ASSUME UsedOnce, OnceIInv, NEW s \in Sessions,
         StartRun(s) \/ Step(s) \/ (\E t \in Tensors : Worker(s, t))
  PROVE  OnceSeqs(s)'
<1>1. FlowOK /\ PlaceInv(s) /\ OnceSeqs(s)
  BY DEF OnceIInv, IInv, SessionInv, OnceInv
<1>2. waves[s] \in Seq(Wave) /\ ops[s] \in Seq(Inputs)
  BY <1>1, FlowStays
<1>3. ASSUME UNCHANGED <<waves, ops>> PROVE OnceSeqs(s)'
  BY <1>1, <1>3 DEF OnceSeqs
<1>4. CASE StartPosition(s)
  <2>1. PICK p \in Positions : waves'[s] = p
    BY <1>1, <1>4 DEF StartPosition, FlowOK
  <2>2. ops' = ops
    BY <1>4 DEF StartPosition
  <2>3. QED
    BY <1>1, <2>1, <2>2 DEF OnceSeqs, UsedOnce
<1>5. CASE StartWave(s)
  <2>1. /\ waves[s] # <<>> /\ waves' = waves /\ ops'[s] = Head(waves[s]).ops
    BY <1>1, <1>5 DEF StartWave, PlaceInv, Idles, FlowOK
  <2>2. Head(waves[s]) = waves[s][1] /\ 1 \in DOMAIN waves[s]
    BY <1>2, <2>1, TailLemma, LenProperties
  <2>3. QED
    BY <1>1, <2>1, <2>2 DEF OnceSeqs
<1>6. CASE Compute(s)
  <2>1. /\ ops[s] # <<>> /\ waves[s] # <<>> /\ ops'[s] = Tail(ops[s])
        /\ waves'[s] = Tail(waves[s]) \/ waves'[s] = waves[s]
    BY <1>1, <1>6 DEF Compute, PlaceInv, Idles, FlowOK
  <2>2. Disjoint(ops'[s])
    BY <1>1, <1>2, <2>1, TailDisjoint DEF OnceSeqs
  <2>3. /\ DOMAIN Tail(waves[s]) = 1..(Len(waves[s]) - 1) /\ DOMAIN waves[s] = 1..Len(waves[s])
        /\ Len(waves[s]) \in Nat
        /\ \A i \in 1..(Len(waves[s]) - 1) : Tail(waves[s])[i] = waves[s][i + 1]
    BY <1>2, <2>1, TailLemma, HeadTailProperties, LenProperties
  <2>4. \A i \in DOMAIN Tail(waves[s]) : i + 1 \in DOMAIN waves[s]
    BY <2>3
  <2>5. \A i \in DOMAIN Tail(waves[s]) : Disjoint(Tail(waves[s])[i].ops)
    BY <1>1, <2>3, <2>4 DEF OnceSeqs
  <2>6. QED
    BY <1>1, <2>1, <2>2, <2>5 DEF OnceSeqs
<1>7. CASE EndRun(s)
  <2>1. waves'[s] = <<>> /\ ops'[s] = <<>>
    BY <1>1, <1>7 DEF EndRun, FlowOK
  <2>2. DOMAIN <<>> = {}
    BY SMTT(60)
  <2>3. QED
    BY <2>1, <2>2 DEF OnceSeqs, Disjoint
<1>8. CASE \/ StartRun(s) \/ StartOp(s) \/ CheckState(s) \/ Wait(s) \/ Join(s) \/ ComputeFailure(s)
           \/ Offer(s) \/ (\E t \in Tensors : Worker(s, t)) \/ Request(s) \/ Note(s) \/ Lookup(s)
           \/ Missed(s) \/ Obtain(s) \/ Reacquire(s)
  BY <1>3, <1>8 DEF StartRun, StartOp, CheckState, Wait, Join, ComputeFailure, Offer, Worker,
     WorkerReads, WorkerFails, Request, Note, Lookup, Missed, Obtain, Reacquire
<1>9. QED
  BY <1>4, <1>5, <1>6, <1>7, <1>8 DEF Step

\* A thread that goes on with the same inputs, or throws.
LEMMA GoToPlace ==
  ASSUME FlowOK, NEW s \in Sessions, PlaceInv(s), OncePlace(s), NEW place, GoTo(s, place),
         UNCHANGED <<ops, queue, todo, active>>,
         \/ place = "thrown"
         \/ place = "position" /\ pc[s] = "idle"
         \/ place \in Asks /\ pc[s] \in Asks \cup Gets
         \/ place \in Gets /\ pc[s] \in Gets
  PROVE  OncePlace(s)'
<1>1. pc'[s] = place
  BY DEF GoTo, FlowOK
<1>2. pc[s] \in Gets => queue[s] = <<>>
  BY DEF PlaceInv
<1>3. QED
  BY <1>1, <1>2 DEF OncePlace, Obtaining, Asks, Gets

\* A prefetch has been issued while nothing was active, or an input is obtained next.
LEMMA RequestDonePlace ==
  ASSUME FlowOK, NEW s \in Sessions, PlaceInv(s), pc[s] \in Asks, OncePlace(s),
         NEW accepted \in BOOLEAN, RequestDone(s, accepted), UNCHANGED <<ops, todo, active>>
  PROVE  OncePlace(s)'
<1>1. queue[s] \in Seq(Tensors)
  BY FlowStays
<1>2. CASE queue[s] # <<>>
  <2>1. /\ queue'[s] = Tail(queue[s]) /\ (Tail(queue[s]) = <<>> <=> Len(queue[s]) = 1)
        /\ pc'[s] = IF Len(queue[s]) = 1 THEN "op" ELSE "request"
    BY <1>1, <1>2, TailLemma DEF RequestDone, GoTo, FlowOK
  <2>2. active'[s] = {}
    BY <1>2 DEF OncePlace
  <2>3. ~Obtaining(s)' /\ pc'[s] # "compute"
    BY <2>1 DEF Obtaining, Gets, Asks
  <2>4. QED
    BY <2>2, <2>3 DEF OncePlace
<1>3. CASE queue[s] = <<>>
  <2>1. queue' = queue /\ pc'[s] \in {"ready", "thrown"}
    BY <1>3 DEF RequestDone, GoTo, Throw, FlowOK
  <2>2. QED
    BY <1>3, <2>1 DEF OncePlace, Obtaining, Asks, Gets
<1>4. QED
  BY <1>2, <1>3

\* An input is active from now on and not obtained again.
LEMMA ObtainedPlace ==
  ASSUME FlowOK, RequestsOK, NEW s \in Sessions, PlaceInv(s), pc[s] \in Gets, OncePlace(s),
         Obtained(s), UNCHANGED <<ops, queue>>
  PROVE  OncePlace(s)'
<1>1. todo[s] \in Seq(Tensors) /\ todo[s] # <<>> /\ queue[s] = <<>>
  BY FlowStays DEF PlaceInv
<1>2. /\ todo'[s] = Tail(todo[s]) /\ active'[s] = active[s] \cup {Head(todo[s])}
      /\ pc'[s] \in {"compute", "ready"}
  BY DEF Obtained, GoTo, FlowOK, RequestsOK
<1>3. /\ IsInjective(todo[s]) /\ ToSet(todo[s]) \cap active[s] = {}
      /\ ToSet(todo[s]) \subseteq ToSet(Head(ops[s])) /\ active[s] \subseteq ToSet(Head(ops[s]))
  BY DEF OncePlace, Obtaining
<1>4. /\ ToSet(todo[s]) = {Head(todo[s])} \cup ToSet(Tail(todo[s]))
      /\ IsInjective(Tail(todo[s])) /\ Head(todo[s]) \notin ToSet(Tail(todo[s]))
  BY <1>1, <1>3, TailSet
<1>5. /\ IsInjective(todo'[s]) /\ ToSet(todo'[s]) \cap active'[s] = {}
      /\ ToSet(todo'[s]) \subseteq ToSet(Head(ops'[s])) /\ active'[s] \subseteq ToSet(Head(ops'[s]))
  BY <1>2, <1>3, <1>4
<1>6. QED
  BY <1>2, <1>5 DEF OncePlace, Asks

\* Where nothing is active yet, and that each input is obtained once.
LEMMA PlaceStep ==
  ASSUME OnceIInv, NEW s \in Sessions, StartRun(s) \/ Step(s) \/ (\E t \in Tensors : Worker(s, t))
  PROVE  OncePlace(s)'
<1>1. FlowOK /\ RequestsOK /\ PlaceInv(s) /\ OncePlace(s) /\ OnceSeqs(s)
  BY DEF OnceIInv, IInv, SessionInv, OnceInv
<1>2. waves[s] \in Seq(Wave) /\ ops[s] \in Seq(Inputs) /\ queue[s] \in Seq(Tensors)
  BY <1>1, FlowStays
<1>3. CASE \E t \in Tensors : Worker(s, t)
  <2>1. UNCHANGED <<pc, ops, queue, todo, active>>
    BY <1>3 DEF Worker, WorkerReads, WorkerFails
  <2>2. QED
    BY <1>1, <2>1 DEF OncePlace, Obtaining
<1>4. CASE StartRun(s) \/ CheckState(s) \/ Wait(s) \/ Join(s) \/ ComputeFailure(s) \/ Offer(s)
  <2>1. UNCHANGED <<ops, queue, todo, active>>
    BY <1>4 DEF StartRun, CheckState, Wait, Join, ComputeFailure, Offer
  <2>2. \E place : /\ GoTo(s, place)
                   /\ \/ place = "thrown"
                      \/ place = "position" /\ pc[s] = "idle"
                      \/ place \in Asks /\ pc[s] \in Asks \cup Gets
                      \/ place \in Gets /\ pc[s] \in Gets
    <3>1. CASE StartRun(s) \/ ComputeFailure(s)
      BY <3>1 DEF StartRun, ComputeFailure, Throw
    <3>2. CASE CheckState(s)
      BY <3>2, Zenon DEF CheckState, Throw, Gets, Asks
    <3>3. CASE Wait(s)
      BY <3>3 DEF Wait, Gets
    <3>4. CASE Join(s)
      BY <3>4 DEF Join, Throw, Gets
    <3>5. CASE Offer(s)
      BY <3>5 DEF Offer, Gets
    <3>6. QED
      BY <1>4, <3>1, <3>2, <3>3, <3>4, <3>5
  <2>3. QED
    BY <1>1, <2>1, <2>2, GoToPlace
<1>5. CASE Request(s) \/ Note(s) \/ Lookup(s) \/ Missed(s)
  <2>1. pc[s] \in Asks /\ UNCHANGED <<ops, todo, active>>
    BY <1>5 DEF Request, Note, Lookup, Missed, Asks
  <2>2. \/ \E accepted \in BOOLEAN : RequestDone(s, accepted)
        \/ \E place \in Asks : GoTo(s, place) /\ UNCHANGED queue
    <3>1. CASE Request(s)
      BY <3>1 DEF Request, Asks
    <3>2. CASE Note(s)
      BY <3>2 DEF Note, Asks
    <3>3. CASE Lookup(s)
      BY <3>3 DEF Lookup, Asks
    <3>4. CASE Missed(s)
      <4>1. PICK state : RequestDone(s, state \in {"InFlight", "Ready"})
        BY <3>4 DEF Missed
      <4>2. (state \in {"InFlight", "Ready"}) \in BOOLEAN
        OBVIOUS
      <4>3. QED
        BY <4>1, <4>2
    <3>5. QED
      BY <1>5, <3>1, <3>2, <3>3, <3>4
  <2>3. QED
    BY <1>1, <2>1, <2>2, RequestDonePlace, GoToPlace
<1>6. CASE Obtain(s) \/ Reacquire(s)
  <2>1. pc[s] \in Gets /\ UNCHANGED <<ops, queue>>
    BY <1>6 DEF Obtain, Reacquire, Gets
  <2>2. \/ Obtained(s)
        \/ UNCHANGED <<todo, active>> /\ \E place \in {"thrown", "insert"} : GoTo(s, place)
    <3>1. CASE Obtain(s)
      BY <3>1, Zenon DEF Obtain, Throw
    <3>2. CASE Reacquire(s)
      BY <3>2 DEF Reacquire
    <3>3. QED
      BY <1>6, <3>1, <3>2
  <2>3. CASE Obtained(s)
    BY <1>1, <2>1, <2>3, ObtainedPlace
  <2>4. CASE UNCHANGED <<todo, active>> /\ \E place \in {"thrown", "insert"} : GoTo(s, place)
    BY <1>1, <2>1, <2>4, GoToPlace DEF Gets
  <2>5. QED
    BY <2>2, <2>3, <2>4
<1>7. CASE StartPosition(s)
  <2>1. pc'[s] = "wave" /\ active'[s] = {}
    BY <1>1, <1>7 DEF StartPosition, GoTo, FlowOK, OncePlace
  <2>2. QED
    BY <2>1 DEF OncePlace, Obtaining, Asks, Gets
<1>8. CASE StartWave(s)
  <2>1. /\ active'[s] = {} /\ queue'[s] = Head(waves[s]).prefetch
        /\ pc'[s] = IF Head(waves[s]).prefetch = <<>> THEN "op" ELSE "request"
    BY <1>1, <1>8 DEF StartWave, GoTo, FlowOK, OncePlace
  <2>2. ~Obtaining(s)' /\ pc'[s] # "compute"
    BY <2>1 DEF Obtaining, Asks, Gets
  <2>3. QED
    BY <2>1, <2>2 DEF OncePlace
<1>9. CASE StartOp(s)
  <2>1. /\ active'[s] = {} /\ ops' = ops /\ queue' = queue /\ queue[s] = <<>> /\ pc'[s] = "ready"
        /\ ops[s] # <<>>
    BY <1>1, <1>9 DEF StartOp, GoTo, FlowOK, OncePlace, PlaceInv
  <2>2. Head(ops[s]) \in Inputs
    BY <1>2, <2>1, TailLemma
  <2>3. PICK order \in NewFirst(s, Head(ops[s])) : todo'[s] = order
    BY <1>1, <1>9 DEF StartOp, FlowOK
  <2>4. IsInjective(order) /\ ToSet(order) \subseteq ToSet(Head(ops[s]))
    BY <2>2, NewFirstOnce
  <2>5. QED
    BY <2>1, <2>3, <2>4 DEF OncePlace, Asks
<1>10. CASE Compute(s)
  <2> DEFINE later == UNION {ToSet(inputs) : inputs \in ToSet(Tail(ops[s]))}
             done == ToSet(Head(ops[s])) \ later
  <2>1. /\ pc[s] = "compute" /\ ops[s] # <<>> /\ active'[s] = active[s] \ done
        /\ pc'[s] \in {"op", "wave", "position"}
    BY <1>1, <1>10 DEF Compute, GoTo, FlowOK, RequestsOK, PlaceInv
  <2>2. \A inputs \in ToSet(Tail(ops[s])) : ToSet(inputs) \cap ToSet(Head(ops[s])) = {}
    BY <1>1, <1>2, <2>1, TailDisjoint DEF OnceSeqs
  <2>3. done = ToSet(Head(ops[s]))
    BY <2>2
  <2>4. active'[s] = {}
    BY <1>1, <2>1, <2>3 DEF OncePlace
  <2>5. QED
    BY <2>1, <2>4 DEF OncePlace, Obtaining, Asks, Gets
<1>11. CASE EndRun(s)
  <2>1. pc'[s] = "idle" /\ active'[s] = {}
    BY <1>1, <1>11 DEF EndRun, GoTo, FlowOK, RequestsOK
  <2>2. QED
    BY <2>1 DEF OncePlace, Obtaining, Asks, Gets
<1>12. QED
  BY <1>3, <1>4, <1>5, <1>6, <1>7, <1>8, <1>9, <1>10, <1>11 DEF Step

-------------------------------------------------------------------------------
LEMMA InitOnce == SharedInit => OnceIInv
<1> SUFFICES ASSUME SharedInit PROVE OnceIInv
  OBVIOUS
<1>1. IInv
  BY InitIInv
<1>2. ASSUME NEW s \in Sessions
      PROVE  /\ waves[s] = <<>> /\ ops[s] = <<>> /\ pc[s] = "idle" /\ active[s] = {}
             /\ Requested(s) = {}
  BY DEF SharedInit, Requested
<1>3. DOMAIN <<>> = {}
  OBVIOUS
<1>4. OnceInv
  BY <1>2, <1>3 DEF OnceInv, OnceSeqs, OncePlace, OnceHeld, Disjoint, Obtaining, Asks, Gets
<1>5. LeaseAccounting
  <2>1. \A t \in Tensors : {s \in Sessions : Retains(s, t)} = {}
    BY <1>2 DEF Retains
  <2>2. Cardinality({}) = 0 /\ \A t \in Tensors : active_leases[t] = 0
    BY FS_EmptySet DEF SharedInit, StoreInit
  <2>3. QED
    BY <2>1, <2>2 DEF LeaseAccounting
<1>6. QED
  BY <1>1, <1>4, <1>5 DEF OnceIInv

LEMMA StepOnce ==
  ASSUME UsedOnce, OnceIInv, [SharedNext]_sharedVars
  PROVE  OnceIInv'
<1>1. IInv'
  BY StepIInv DEF OnceIInv
<1>2. CASE SharedNext
  <2>1. PICK s \in Sessions : StartRun(s) \/ Step(s) \/ \E t \in Tensors : Worker(s, t)
    BY <1>2 DEF SharedNext
  <2>2. OnceSeqs(s)' /\ OncePlace(s)' /\ OnceHeld(s)' /\ LeaseAccounting'
    BY <2>1, SeqsStep, PlaceStep, BalanceStep
  <2>3. ASSUME NEW q \in Sessions, q # s PROVE (OnceSeqs(q) /\ OncePlace(q) /\ OnceHeld(q))'
    <3>1. OnceSeqs(q) /\ OncePlace(q) /\ OnceHeld(q)
      BY DEF OnceIInv, OnceInv
    <3>2. SameSession(q)
      BY <2>1, <2>3, OthersStay DEF OnceIInv
    <3>3. QED
      BY <3>1, <3>2 DEF SameSession, OnceSeqs, OncePlace, OnceHeld, Obtaining, Requested
  <2>4. QED
    BY <1>1, <2>2, <2>3 DEF OnceIInv, OnceInv
<1>3. CASE UNCHANGED sharedVars
  BY <1>1, <1>3 DEF sharedVars, sessionVars, storeVars, OnceIInv, OnceInv, OnceSeqs, OncePlace, OnceHeld,
     Obtaining, Requested, LeaseAccounting, Retains
<1>4. QED
  BY <1>2, <1>3

\* The leases of an entry are those that the sessions' requests will give back,
\* where every wave uses an input in one of its operations: no entry stays
\* leased after the runs that used it.
THEOREM LeasesBalance ==
  ASSUME UsedOnce
  PROVE  SharedSpec => []LeaseAccounting
<1>1. OnceIInv /\ [SharedNext]_sharedVars => OnceIInv'
  BY StepOnce
<1>2. OnceIInv => LeaseAccounting
  BY DEF OnceIInv
<1>3. QED
  BY <1>1, <1>2, InitOnce, PTL DEF SharedSpec

-------------------------------------------------------------------------------
(***************************************************************************)
(* A session that has the store to itself: between its lookup and its call *)
(* of the private materializer nobody inserts the tensor.                  *)
(***************************************************************************)
MissedIsAbsent == \A s \in Sessions : pc[s] = "missed" => Subject(s) \notin entries_

Alone == \A r, s \in Sessions : r = s

\* The lookup goes on to the source only without an entry; no other step arrives there.
LEMMA StepMissed ==
  ASSUME Alone, IInv, MissedIsAbsent, SharedNext
  PROVE  MissedIsAbsent'
<1>1. PICK s \in Sessions : StartRun(s) \/ Step(s) \/ \E t \in Tensors : Worker(s, t)
  BY DEF SharedNext
<1> USE DEF GoTo, Throw, RequestDone
<1>2. pc \in [Sessions -> Places]
  BY DEF IInv, FlowOK
<1>3. SUFFICES ASSUME pc'[s] = "missed" PROVE Subject(s)' \notin entries_'
  BY DEF Alone, MissedIsAbsent
<1>4. CASE \E t \in Tensors : Worker(s, t)
  BY SMTT(60), <1>3, <1>4 DEF Worker, WorkerReads, WorkerFails, MissedIsAbsent, Subject, storeVars
<1>5. CASE Lookup(s)
  BY <1>2, <1>3, <1>5 DEF Lookup, Subject, storeVars
<1>6. CASE StartRun(s) \/ StartPosition(s) \/ StartWave(s) \/ StartOp(s) \/ Compute(s) \/ EndRun(s)
  BY <1>2, <1>3, <1>6 DEF StartRun, StartPosition, StartWave, StartOp, Compute, EndRun
<1>7. CASE CheckState(s)
  BY <1>2, <1>3, <1>7, Zenon DEF CheckState
<1>8. CASE Wait(s) \/ Join(s) \/ ComputeFailure(s) \/ Offer(s) \/ Note(s)
  BY <1>2, <1>3, <1>8 DEF Wait, Join, ComputeFailure, Offer, Note
<1>9. CASE Request(s) \/ Missed(s)
  BY <1>2, <1>3, <1>9 DEF Request, Missed
<1>10. CASE Obtain(s) \/ Reacquire(s)
  BY SMTT(60), <1>2, <1>3, <1>10 DEF Obtain, Reacquire, Obtained
<1>11. QED
  BY <1>1, <1>4, <1>5, <1>6, <1>7, <1>8, <1>9, <1>10 DEF Step

\* Only the call of the private materializer starts a read.
LEMMA ReadStarts ==
  ASSUME IInv, MissedIsAbsent, SharedNext, NEW s \in Sessions, NEW t \in Tensors,
         backing[s][t] # "InFlight", backing'[s][t] = "InFlight"
  PROVE  t \notin entries_
<1>1. PICK r \in Sessions : StartRun(r) \/ Step(r) \/ \E u \in Tensors : Worker(r, u)
  BY DEF SharedNext
<1>2. backing \in [Sessions -> [Tensors -> BackingStates]]
  BY DEF IInv, RequestsOK
<1>3. CASE Missed(r)
  <2>1. s = r /\ t = Subject(r) /\ pc[r] = "missed"
    BY <1>2, <1>3 DEF Missed
  <2>2. QED
    BY <2>1 DEF MissedIsAbsent
<1>4. CASE Compute(r) \/ EndRun(r)
  <2>1. PICK ts : backing' = [backing EXCEPT ![r] = [u \in Tensors |->
                    IF u \in ts \cap Requested(r) /\ requests[r][u].backing
                    THEN BackingRelease(backing[r][u]) ELSE backing[r][u]]]
    BY <1>4 DEF Compute, EndRun, ReleaseRequests
  <2>2. backing'[s][t] \in {backing[s][t], BackingRelease(backing[s][t])}
    BY <1>2, <2>1
  <2>3. QED
    BY <2>2 DEF BackingRelease
<1>5. CASE \E u \in Tensors : Worker(r, u)
  BY <1>2, <1>5 DEF Worker, WorkerReads, WorkerFails
<1>6. ASSUME UNCHANGED backing PROVE FALSE
  BY <1>6
<1>7. QED
  BY <1>1, <1>3, <1>4, <1>5, <1>6 DEF Step, StartRun, StartPosition, StartWave, StartOp, CheckState, Wait,
     Join, ComputeFailure, Offer, Request, Note, Lookup, Obtain, Reacquire

\* A session that has the store to itself reads from the source only what is not resident.
THEOREM ReadsMissing ==
  ASSUME Alone
  PROVE  SharedSpec => ReadsOnlyMissing
<1>1. SharedInit => MissedIsAbsent
  BY DEF SharedInit, MissedIsAbsent
<1>2. Alone /\ IInv /\ MissedIsAbsent /\ [SharedNext]_sharedVars => MissedIsAbsent'
  <2>1. ASSUME MissedIsAbsent, UNCHANGED sharedVars PROVE MissedIsAbsent'
    BY <2>1 DEF sharedVars, sessionVars, storeVars, MissedIsAbsent, Subject
  <2>2. QED
    BY <2>1, StepMissed
<1>3. IInv /\ MissedIsAbsent /\ [SharedNext]_sharedVars
      => [\A s \in Sessions, t \in Tensors :
            backing[s][t] # "InFlight" /\ backing'[s][t] = "InFlight" => t \notin entries_]_sharedVars
  BY ReadStarts
<1>4. QED
  BY <1>1, <1>2, <1>3, InitIInv, StepIInv, PTL DEF SharedSpec, ReadsOnlyMissing

-------------------------------------------------------------------------------
(***************************************************************************)
(* The budget of the store, with sessions at every place of a request.     *)
(***************************************************************************)

\* Only an offer changes what is resident, and it counts what it changes.
LEMMA StepCountsShared ==
  ASSUME IInv, Counted, [SharedNext]_sharedVars
  PROVE  Counted'
<1>1. ASSUME UNCHANGED <<entries_, resident_bytes_>> PROVE Counted'
  BY <1>1 DEF Counted, WithinBudget
<1>2. CASE UNCHANGED sharedVars
  BY <1>1, <1>2 DEF sharedVars, storeVars
<1>3. ASSUME NEW s \in Sessions, Offer(s) PROVE Counted'
  <2>1. PICK t \in Tensors : (\E ev \in Evictions(t) : Insert(t, ev)) \/ InsertRejected(t) \/ InsertRefused(t)
    <3>1. pc[s] \in Asks \cup Gets /\ FlowOK /\ PlaceInv(s)
      BY <1>3 DEF Offer, Gets, IInv, SessionInv
    <3> QED
      BY <1>3, <3>1, SubjectType DEF Offer
  <2>2. CASE \E ev \in Evictions(t) : Insert(t, ev)
    BY <2>2, InsertCounts
  <2>3. CASE InsertRejected(t)
    BY <2>3, DropCounts DEF InsertRejected, Candidates
  <2>4. CASE InsertRefused(t)
    BY <1>1, <2>4 DEF InsertRefused, storeVars
  <2> QED
    BY <2>1, <2>2, <2>3, <2>4
<1>4. ASSUME NEW s \in Sessions, Compute(s) \/ EndRun(s) PROVE Counted'
  BY <1>1, <1>4 DEF Compute, EndRun, ReleaseRequests
<1>5. ASSUME NEW s \in Sessions, Request(s) \/ Note(s) \/ Lookup(s) \/ Missed(s) PROVE Counted'
  BY <1>1, <1>5 DEF Request, Note, Lookup, Missed, Acquire, NoteRequest, storeVars
<1>6. ASSUME NEW s \in Sessions, Obtain(s) \/ Reacquire(s) PROVE Counted'
  BY <1>1, <1>6 DEF Obtain, Reacquire, Acquire, storeVars
<1>7. ASSUME NEW s \in Sessions,
             \/ StartRun(s) \/ StartPosition(s) \/ StartWave(s) \/ StartOp(s) \/ ComputeFailure(s)
             \/ CheckState(s) \/ Wait(s) \/ Join(s) \/ \E t \in Tensors : Worker(s, t)
      PROVE  Counted'
  BY <1>1, <1>7 DEF StartRun, StartPosition, StartWave, StartOp, ComputeFailure, CheckState, Wait, Join,
     Worker, WorkerReads, WorkerFails, storeVars
<1> QED
  BY <1>2, <1>3, <1>4, <1>5, <1>6, <1>7 DEF SharedNext, Step

\* However the requests, reads and releases of the sessions interleave, the
\* store's counter is the size of what is resident and stays within its bound.
THEOREM SharedBudgetHolds == SharedSpec => []WithinBudget
<1>1. SharedInit => Counted
  <2>1. SizeOf({}) = 0
    BY SizeOfNone
  <2> QED
    BY <2>1, StoreAssumption DEF SharedInit, StoreInit, Counted, WithinBudget
<1>2. IInv /\ Counted /\ [SharedNext]_sharedVars => Counted'
  BY StepCountsShared
<1>3. Counted => WithinBudget
  BY DEF Counted
<1>4. QED
  BY <1>1, <1>2, <1>3, InitIInv, StepIInv, PTL DEF SharedSpec

-------------------------------------------------------------------------------
(***************************************************************************)
(* A session that is alone, and a source and operations that do not fail:  *)
(* the run does not fail either.  The private materializer refuses a       *)
(* request while it holds another payload, so this depends on the order of *)
(* the waves: each operation reads one tensor, a tensor feeds one          *)
(* operation of its wave, and the prefetches follow the operations.  Then  *)
(* whatever an operation comes before in its wave is obtained before the   *)
(* private materializer takes anything that comes later (Ahead).           *)
(***************************************************************************)
Single(o) == (\A j \in DOMAIN o : Len(o[j]) = 1) /\ Disjoint(o)

Needs(o) == {o[j][1] : j \in DOMAIN o}

\* An operation on u comes before one on t.
Before(o, u, t) == \E j, k \in DOMAIN o : j < k /\ o[j][1] = u /\ o[k][1] = t

InOrder(w) ==
  /\ Single(w.ops)
  /\ \A i \in DOMAIN w.prefetch :
       /\ w.prefetch[i] \in Needs(w.ops)
       /\ \A u \in Tensors : Before(w.ops, u, w.prefetch[i]) =>
            \E h \in DOMAIN w.prefetch : h < i /\ w.prefetch[h] = u

UsesInOrder == \A p \in Positions : \A i \in DOMAIN p : InOrder(p[i])

Private(s) == {t \in Tensors : backing[s][t] \in {"InFlight", "Ready"}}
Got(s, t) == Retains(s, t) \/ t \in Private(s)

\* A request for t has been accepted, or refused for what it still finds there.
Tried(s, t) == Got(s, t) \/ BackingBytes(s) > 0

Ahead(s) == \A t \in Private(s) :
  t \in Needs(ops[s]) /\ \A u \in Tensors : Before(ops[s], u, t) => Got(s, u)

QueueInv(s) == \A i \in DOMAIN queue[s] :
  /\ queue[s][i] \in Needs(ops[s])
  /\ \A u \in Tensors : Before(ops[s], u, queue[s][i]) =>
       Tried(s, u) \/ \E h \in DOMAIN queue[s] : h < i /\ queue[s][h] = u

KnownInv(s) ==
  /\ Requested(s) \cup entries_ \subseteq known_tensors[s]
  /\ \A t \in Private(s) : t \in Requested(s) /\ requests[s][t].backing
  /\ \A t \in Tensors : backing[s][t] # "Failed" /\ (backing[s][t] = "InFlight" => t \notin entries_)

WaveInv(s) ==
  /\ \A i \in DOMAIN waves[s] : InOrder(waves[s][i])
  /\ Single(ops[s]) /\ Ahead(s)
  /\ pc[s] \in {"idle", "position", "wave"} => Private(s) = {}
  /\ pc[s] \in Asks /\ queue[s] # <<>> => QueueInv(s)
  /\ Obtaining(s) => todo[s] = Head(ops[s])

AskInv(s) ==
  LET t == Subject(s) IN
  /\ pc[s] # "thrown"
  /\ pc[s] \in Asks /\ queue[s] = <<>> => Private(s) = {}
  /\ pc[s] \in Asks \ {"request"} => t \in known_tensors[s] /\ t \notin Private(s)
  /\ pc[s] = "missed" => t \notin entries_
  /\ pc[s] \in {"wait", "join"} => t \in Private(s)
  /\ pc[s] = "obtain" => t \in entries_ \/ backing[s][t] = "Ready"
  /\ pc[s] = "compute" => backing[s][Head(Head(ops[s]))] # "InFlight"

LoneInv == \A s \in Sessions : KnownInv(s) /\ WaveInv(s) /\ AskInv(s)

Unfailing == Alone /\ UsesInOrder /\ ~SourceFails /\ ~ComputeFails

LoneOK(s) == KnownInv(s) /\ WaveInv(s) /\ AskInv(s)

\* The first operation reads its one tensor before all others.
LEMMA FirstNeed ==
  ASSUME NEW o \in Seq(Inputs), o # <<>>, Single(o)
  PROVE  LET x == Head(Head(o)) IN
         /\ Head(o) \in Seq(Tensors) /\ Len(Head(o)) = 1 /\ x = o[1][1] /\ x \in Tensors
         /\ ToSet(Head(o)) = {x}
         /\ x \in Needs(o) /\ \A u : ~Before(o, u, x)
         /\ \A t \in Needs(o) : t # x => Before(o, x, t)
<1> DEFINE x == Head(Head(o))
<1>1. Len(o) \in Nat \ {0} /\ DOMAIN o = 1..Len(o) /\ Head(o) = o[1] /\ Head(o) \in Inputs
  BY TailLemma, LenProperties, HeadTailProperties
<1>2. 1 \in DOMAIN o
  BY <1>1
<1>3. Head(o) \in Seq(Tensors) /\ Len(Head(o)) = 1
  BY <1>1, <1>2 DEF Single, Inputs
<1>4. DOMAIN Head(o) = {1} /\ x = o[1][1] /\ x \in Tensors
  BY <1>1, <1>3, LenProperties, ElementOfSeq
<1>5. ToSet(Head(o)) = {x}
  BY <1>1, <1>4 DEF ToSet
<1>6. ASSUME NEW k \in DOMAIN o, o[k][1] = x PROVE k = 1
  <2>1. SUFFICES ASSUME k # 1 PROVE FALSE
    OBVIOUS
  <2>2. o[k] \in Seq(Tensors) /\ Len(o[k]) = 1
    BY ElementOfSeq, <1>1 DEF Single, Inputs
  <2>3. x \in ToSet(o[k])
    BY <1>6, <2>2, LenProperties DEF ToSet
  <2>4. ToSet(o[k]) \cap ToSet(o[1]) = {}
    BY <1>2, <2>1 DEF Single, Disjoint
  <2> QED
    BY <1>1, <1>5, <2>3, <2>4
<1>7. \A u : ~Before(o, u, x)
  BY <1>1, <1>6 DEF Before
<1>8. ASSUME NEW t \in Needs(o), t # x PROVE Before(o, x, t)
  <2>1. PICK k \in DOMAIN o : o[k][1] = t
    BY DEF Needs
  <2>2. 1 < k
    BY <1>1, <1>4, <1>8, <2>1
  <2> QED
    BY <1>2, <1>4, <2>1, <2>2 DEF Before
<1> QED
  BY <1>2, <1>3, <1>4, <1>5, <1>7, <1>8 DEF Needs

\* What is left of a wave after its first operation.
LEMMA RestNeeds ==
  ASSUME NEW o \in Seq(Inputs), o # <<>>, Single(o)
  PROVE  LET x == Head(Head(o)) IN
         /\ Single(Tail(o)) /\ Needs(o) \ {x} \subseteq Needs(Tail(o))
         /\ \A u, t : Before(Tail(o), u, t) => Before(o, u, t) /\ u # x
<1> DEFINE x == Head(Head(o))
<1>1. /\ Len(o) \in Nat \ {0} /\ DOMAIN o = 1..Len(o)
      /\ Tail(o) \in Seq(Inputs) /\ DOMAIN Tail(o) = 1..(Len(o) - 1)
      /\ \A i \in 1..(Len(o) - 1) : Tail(o)[i] = o[i + 1]
  BY TailLemma, LenProperties, HeadTailProperties
<1>2. Single(Tail(o))
  BY <1>1, TailDisjoint DEF Single
<1>3. x = o[1][1] /\ \A u : ~Before(o, u, x)
  BY FirstNeed
<1>4. ASSUME NEW t \in Needs(o) \ {x} PROVE t \in Needs(Tail(o))
  <2>1. PICK k \in DOMAIN o : o[k][1] = t
    BY DEF Needs
  <2>2. k # 1
    BY <1>3, <2>1
  <2>3. k - 1 \in DOMAIN Tail(o) /\ Tail(o)[k - 1][1] = t
    BY <1>1, <2>1, <2>2
  <2> QED
    BY <2>3 DEF Needs
<1>5. ASSUME NEW u, NEW t, Before(Tail(o), u, t) PROVE Before(o, u, t) /\ u # x
  <2>1. PICK j \in DOMAIN Tail(o), k \in DOMAIN Tail(o) : j < k /\ Tail(o)[j][1] = u /\ Tail(o)[k][1] = t
    BY <1>5 DEF Before
  <2>2. j + 1 \in DOMAIN o /\ k + 1 \in DOMAIN o /\ 1 \in DOMAIN o /\ j + 1 < k + 1 /\ 1 < j + 1
        /\ o[j + 1][1] = u /\ o[k + 1][1] = t
    BY <1>1, <2>1
  <2>3. Before(o, u, t) /\ Before(o, o[1][1], u)
    BY <2>2 DEF Before
  <2> QED
    BY <1>3, <2>3
<1> HIDE DEF x
<1> QED
  BY <1>2, <1>4, <1>5 DEF x

\* A prefetch that has been tried need not come before the others any more.
LEMMA QueueTail ==
  ASSUME FlowOK, NEW s \in Sessions, QueueInv(s), queue[s] # <<>>, queue'[s] = Tail(queue[s]), ops'[s] = ops[s],
         \A u \in Tensors : Tried(s, u) => Tried(s, u)', NEW t, t = Head(queue[s]), Tried(s, t)'
  PROVE  QueueInv(s)'
<1> DEFINE q == queue[s]
<1>1. /\ Len(q) \in Nat \ {0} /\ DOMAIN q = 1..Len(q) /\ Head(q) = q[1]
      /\ DOMAIN Tail(q) = 1..(Len(q) - 1) /\ \A i \in 1..(Len(q) - 1) : Tail(q)[i] = q[i + 1]
  <2>1. q \in Seq(Tensors)
    BY DEF FlowOK
  <2> QED
    BY <2>1, TailLemma, LenProperties, HeadTailProperties
<1>2. ASSUME NEW i \in DOMAIN Tail(q)
      PROVE  /\ Tail(q)[i] \in Needs(ops[s])
             /\ \A u \in Tensors : Before(ops[s], u, Tail(q)[i]) =>
                  Tried(s, u)' \/ \E h \in DOMAIN Tail(q) : h < i /\ Tail(q)[h] = u
  <2>1. i + 1 \in DOMAIN q /\ Tail(q)[i] = q[i + 1]
    BY <1>1
  <2>2. ASSUME NEW u \in Tensors, Before(ops[s], u, Tail(q)[i]), ~Tried(s, u)'
        PROVE  \E h \in DOMAIN Tail(q) : h < i /\ Tail(q)[h] = u
    <3>1. ~Tried(s, u)
      BY <2>2
    <3>2. PICK h \in DOMAIN q : h < i + 1 /\ q[h] = u
      BY <2>1, <2>2, <3>1 DEF QueueInv
    <3>3. h # 1
      BY <1>1, <2>2, <3>2
    <3>4. h - 1 \in DOMAIN Tail(q) /\ h - 1 < i /\ Tail(q)[h - 1] = u
      BY SMTT(60), <1>1, <3>2, <3>3
    <3> QED
      BY <3>4
  <2> QED
    BY <2>1, <2>2 DEF QueueInv
<1> QED
  BY <1>2 DEF QueueInv

\* What the private materializer holds is worth its bytes, and more is worth more.
LEMMA BackingCounts ==
  ASSUME NEW s \in Sessions
  PROVE  /\ BackingBytes(s) \in Nat /\ (Private(s) = {} => BackingBytes(s) = 0)
         /\ Private(s) \subseteq Private(s)' => BackingBytes(s) <= BackingBytes(s)' /\ BackingBytes(s)' \in Nat
<1>1. BackingBytes(s) = SizeOf(Private(s)) /\ BackingBytes(s)' = SizeOf(Private(s)')
  BY DEF BackingBytes, Private
<1>2. Private(s) \in SUBSET Tensors /\ Private(s)' \in SUBSET Tensors
  BY DEF Private
<1>3. SizeOf(Private(s)) \in Nat /\ SizeOf(Private(s)') \in Nat /\ SizeOf(Private(s)' \ Private(s)) \in Nat
  <2>1. Private(s)' \ Private(s) \in SUBSET Tensors
    BY <1>2
  <2> QED
    BY <1>2, <2>1, SizeIsTotal
<1>4. ASSUME Private(s) \subseteq Private(s)' PROVE SizeOf(Private(s)) <= SizeOf(Private(s)')
  <2>1. SizeOf(Private(s)' \ Private(s)) = SizeOf(Private(s)') - SizeOf(Private(s))
    BY <1>2, <1>4, SizeDrops
  <2> QED
    BY <1>3, <2>1
<1> QED
  BY <1>1, <1>3, <1>4, SizeOfNone

\* Nothing that was obtained is given back.
Keeps(s) ==
  /\ \A u \in Tensors : Retains(s, u) => Retains(s, u)'
  /\ Private(s) \subseteq Private(s)'

LEMMA KeepsTried ==
  ASSUME NEW s \in Sessions, Keeps(s)
  PROVE  \A u \in Tensors : (Got(s, u) => Got(s, u)') /\ (Tried(s, u) => Tried(s, u)')
<1>1. \A u \in Tensors : Got(s, u) => Got(s, u)'
  BY DEF Keeps, Got
<1>2. BackingBytes(s) > 0 => BackingBytes(s)' > 0
  BY BackingCounts DEF Keeps
<1> QED
  BY <1>1, <1>2 DEF Tried

LEMMA KeepsAhead ==
  ASSUME NEW s \in Sessions, Keeps(s), Private(s)' = Private(s), ops'[s] = ops[s], Ahead(s)
  PROVE  Ahead(s)'
  BY KeepsTried DEF Ahead

LEMMA KeepsQueue ==
  ASSUME NEW s \in Sessions, Keeps(s), queue'[s] = queue[s], ops'[s] = ops[s], QueueInv(s)
  PROVE  QueueInv(s)'
  BY KeepsTried DEF QueueInv

\* The record of a request that is set.
LEMMA SetsRecords ==
  ASSUME RequestsOK, NEW s \in Sessions, NEW t \in Tensors, NEW info \in Info, Sets(s, t, info)
  PROVE  \A u \in Requested(s) \cup {t} : requests'[s][u] = IF u = t THEN info ELSE requests[s][u]
<1>1. requests'[s] = WithRequest(s, t, info)
  BY DEF Sets, RequestsOK
<1> QED
  BY <1>1 DEF WithRequest

\* A request that is set for a tensor the session has asked about, and that stays
\* in the private materializer if it is there.
LEMMA SetsKnown ==
  ASSUME RequestsOK, NEW s \in Sessions, KnownInv(s), NEW t \in known_tensors[s], NEW info \in Info, Sets(s, t, info),
         t \in Private(s) => info.backing, Retains(s, t) => info.retained,
         UNCHANGED <<backing, known_tensors, entries_>>
  PROVE  KnownInv(s)' /\ Keeps(s) /\ Private(s)' = Private(s) /\ (Retains(s, t)' <=> info.retained)
<1>0. t \in Tensors
  BY DEF RequestsOK
<1>1. /\ Requested(s)' = Requested(s) \cup {t}
      /\ \A u : Retains(s, u)' <=> IF u = t THEN info.retained ELSE Retains(s, u)
  BY <1>0, SetsRequests
<1>2. \A u \in Requested(s) \cup {t} : requests'[s][u] = IF u = t THEN info ELSE requests[s][u]
  BY <1>0, SetsRecords
<1>3. Private(s)' = Private(s)
  BY DEF Private
<1>4. KnownInv(s)'
  BY <1>1, <1>2, <1>3 DEF KnownInv
<1> QED
  BY <1>1, <1>3, <1>4 DEF Keeps

\* What the session retains is resident.
LEMMA RetainedIsResident ==
  ASSUME IInv, NEW s \in Sessions, NEW t \in Tensors, Retains(s, t)
  PROVE  t \in entries_
  BY RetainedIsLeased DEF IInv, LeasesOK, CanRelease

\* A request returns: the prefetch is tried, or the input is asked for again when it is ready.
LEMMA RequestDoneLone ==
  ASSUME IInv, NEW s \in Sessions, LoneOK(s), pc[s] \in Asks, NEW accepted \in BOOLEAN, RequestDone(s, accepted),
         UNCHANGED <<waves, ops, todo>>, KnownInv(s)', Ahead(s)',
         \A u \in Tensors : Tried(s, u) => Tried(s, u)',
         NEW t, t = Subject(s), Tried(s, t)', queue[s] = <<>> => accepted
  PROVE  LoneOK(s)'
<1>1. FlowOK /\ queue[s] \in Seq(Tensors)
  BY DEF IInv, FlowOK
<1>2. CASE queue[s] # <<>>
  <2>1. /\ queue'[s] = Tail(queue[s]) /\ (Tail(queue[s]) = <<>> <=> Len(queue[s]) = 1)
        /\ pc'[s] = IF Len(queue[s]) = 1 THEN "op" ELSE "request"
    BY <1>1, <1>2, TailLemma DEF RequestDone, GoTo, FlowOK
  <2>2. QueueInv(s)'
    <3>1. QueueInv(s) /\ t = Head(queue[s])
      BY <1>2 DEF LoneOK, WaveInv, Subject
    <3> QED
      BY <1>1, <1>2, <2>1, <3>1, QueueTail
  <2>3. WaveInv(s)'
    BY <2>1, <2>2 DEF LoneOK, WaveInv, Obtaining, Asks, Gets
  <2>4. AskInv(s)'
    BY <2>1 DEF AskInv, Asks
  <2> QED
    BY <2>3, <2>4 DEF LoneOK
<1>3. CASE queue[s] = <<>>
  <2>1. queue' = queue /\ pc'[s] = "ready"
    BY <1>1, <1>3 DEF RequestDone, GoTo, FlowOK
  <2>2. WaveInv(s)'
    BY <1>3, <2>1 DEF LoneOK, WaveInv, Obtaining, Asks, Gets
  <2>3. AskInv(s)'
    BY <2>1 DEF AskInv, Asks
  <2> QED
    BY <2>2, <2>3 DEF LoneOK
<1> QED
  BY <1>2, <1>3

\* What the invariants say of the tensor a session is busy with.
LEMMA LoneSubject ==
  ASSUME IInv, NEW s \in Sessions, LoneOK(s), pc[s] \in Asks \cup Gets
  PROVE  /\ Subject(s) \in Tensors
         /\ queue[s] = <<>> => Subject(s) = Head(Head(ops[s]))
         /\ pc[s] \in Gets => queue[s] = <<>> /\ todo[s] = Head(ops[s])
         /\ ops[s] \in Seq(Inputs) /\ ops[s] # <<>> /\ Single(ops[s])
<1>1. FlowOK /\ PlaceInv(s) /\ WaveInv(s)
  BY DEF IInv, SessionInv, LoneOK
<1>2. queue[s] = <<>> => todo[s] = Head(ops[s]) /\ Subject(s) = Head(todo[s])
  BY <1>1 DEF WaveInv, Obtaining, Subject
<1>3. pc[s] \in Gets => queue[s] = <<>>
  BY <1>1 DEF PlaceInv
<1>4. ops[s] \in Seq(Inputs) /\ ops[s] # <<>> /\ Single(ops[s])
  BY <1>1 DEF FlowOK, PlaceInv, WaveInv
<1> QED
  BY <1>1, <1>2, <1>3, <1>4, SubjectType

LEMMA RequestLone ==
  ASSUME IInv, NEW s \in Sessions, LoneOK(s), Request(s)
  PROVE  LoneOK(s)'
<1>0. PICK t : t = Subject(s)
  OBVIOUS
<1>1. /\ pc[s] = "request" /\ UNCHANGED <<backing, waves, ops, todo, active, fault>>
      /\ known_tensors' = [known_tensors EXCEPT ![s] = @ \cup {t}]
  BY <1>0 DEF Request
<1>2. pc[s] \in Asks /\ t \in Tensors /\ RequestsOK /\ FlowOK
  BY <1>0, <1>1, LoneSubject DEF Asks, IInv
<1>3. known_tensors'[s] = known_tensors[s] \cup {t} /\ Private(s)' = Private(s)
  BY <1>1, <1>2 DEF RequestsOK, Private
<1>4. ASSUME UNCHANGED <<requests, entries_>> PROVE KnownInv(s)' /\ Keeps(s) /\ Ahead(s)'
  <2>1. Keeps(s)
    BY <1>3, <1>4 DEF Keeps, Retains, Requested
  <2>2. KnownInv(s)'
    BY <1>1, <1>3, <1>4 DEF LoneOK, KnownInv, Requested
  <2> QED
    BY <1>1, <1>3, <2>1, <2>2, KeepsAhead DEF LoneOK, WaveInv
<1>5. CASE Retains(s, t) /\ RequestDone(s, TRUE) /\ UNCHANGED <<requests, storeVars>>
  <2>1. KnownInv(s)' /\ Keeps(s) /\ Ahead(s)' /\ Retains(s, t)'
    BY <1>4, <1>5 DEF storeVars, Retains, Requested
  <2>2. Tried(s, t)'
    BY <2>1 DEF Tried, Got
  <2> QED
    BY <1>0, <1>1, <1>2, <1>5, <2>1, <2>2, KeepsTried, RequestDoneLone
<1>6. CASE /\ t \in Requested(s) /\ ~Retains(s, t) /\ Acquire(t)
           /\ requests' = [requests EXCEPT ![s][t].retained = TRUE, ![s][t].held = TRUE]
           /\ RequestDone(s, TRUE)
  <2>1. Sets(s, t, [requests[s][t] EXCEPT !.retained = TRUE, !.held = TRUE]) /\ requests[s][t] \in Info
    BY <1>2, <1>6, RetainSets, RequestType
  <2> DEFINE info == [requests[s][t] EXCEPT !.retained = TRUE, !.held = TRUE]
  <2>2. info \in Info /\ info.retained /\ info.backing = requests[s][t].backing
    BY <2>1 DEF Info
  <2> HIDE DEF info
  <2>3. /\ Requested(s)' = Requested(s) \cup {t}
        /\ \A u : Retains(s, u)' <=> IF u = t THEN info.retained ELSE Retains(s, u)
    BY <1>2, <2>1, <2>2, SetsRequests DEF info
  <2>4. \A u \in Requested(s) \cup {t} : requests'[s][u] = IF u = t THEN info ELSE requests[s][u]
    BY <1>2, <2>1, <2>2, SetsRecords DEF info
  <2>5. KnownInv(s)'
    BY <1>1, <1>3, <1>6, <2>2, <2>3, <2>4 DEF LoneOK, KnownInv, Acquire
  <2>6. Keeps(s) /\ Retains(s, t)'
    BY <1>3, <2>2, <2>3 DEF Keeps
  <2>7. Ahead(s)' /\ Tried(s, t)'
    BY <1>1, <1>3, <2>6, KeepsAhead DEF LoneOK, WaveInv, Tried, Got
  <2> QED
    BY <1>0, <1>1, <1>2, <1>6, <2>5, <2>6, <2>7, KeepsTried, RequestDoneLone
<1>7. CASE /\ backing[s][t] \in {"InFlight", "Ready"}
           /\ RequestDone(s, TRUE) /\ UNCHANGED <<requests, storeVars>>
  <2>1. KnownInv(s)' /\ Keeps(s) /\ Ahead(s)'
    BY <1>4, <1>7 DEF storeVars
  <2>2. Tried(s, t)'
    BY <1>2, <1>3, <1>7 DEF Tried, Got, Private
  <2> QED
    BY <1>0, <1>1, <1>2, <1>7, <2>1, <2>2, KeepsTried, RequestDoneLone
<1>8. CASE /\ t \in Requested(s) => backing[s][t] \notin {"InFlight", "Ready"}
           /\ GoTo(s, "note") /\ UNCHANGED <<requests, queue, storeVars>>
  <2>1. KnownInv(s)' /\ Keeps(s) /\ Ahead(s)'
    BY <1>4, <1>8 DEF storeVars
  <2>2. pc'[s] = "note" /\ Subject(s)' = t
    BY <1>0, <1>1, <1>2, <1>8 DEF GoTo, FlowOK, Subject
  <2>3. t \notin Private(s) /\ t \in known_tensors'[s]
    BY <1>3, <1>8 DEF LoneOK, KnownInv, Private
  <2>4. WaveInv(s)'
    BY <1>1, <1>8, <2>1, <2>2, KeepsQueue DEF LoneOK, WaveInv, Obtaining, Asks, Gets
  <2>5. AskInv(s)'
    BY <1>1, <1>3, <1>8, <2>2, <2>3 DEF LoneOK, AskInv, Asks
  <2> QED
    BY <2>1, <2>4, <2>5 DEF LoneOK
<1> QED
  BY <1>0, <1>5, <1>6, <1>7, <1>8 DEF Request

LEMMA NoteLone ==
  ASSUME IInv, NEW s \in Sessions, LoneOK(s), Note(s)
  PROVE  LoneOK(s)'
<1>0. PICK t : t = Subject(s)
  OBVIOUS
<1> DEFINE info == [retained |-> FALSE, backing |-> FALSE, held |-> FALSE]
<1>1. /\ pc[s] = "note" /\ UNCHANGED <<known_tensors, backing, waves, ops, queue, todo, active, entries_>>
      /\ Sets(s, t, info) /\ GoTo(s, "lookup")
  BY <1>0 DEF Note, NoteRequest, Sets
<1>2. pc[s] \in Asks /\ t \in Tensors /\ RequestsOK /\ FlowOK /\ ~Retains(s, t)
  BY <1>0, <1>1, LoneSubject DEF Asks, IInv, SessionInv, SubjectInv
<1>3. t \in known_tensors[s] /\ t \notin Private(s) /\ KnownInv(s) /\ info \in Info
  BY <1>0, <1>1 DEF LoneOK, AskInv, Asks, Info
<1> HIDE DEF info
<1>4. KnownInv(s)' /\ Keeps(s) /\ Private(s)' = Private(s)
  BY <1>1, <1>2, <1>3, SetsKnown
<1>5. pc'[s] = "lookup" /\ Subject(s)' = t
  BY <1>0, <1>1, <1>2 DEF GoTo, FlowOK, Subject
<1>6. WaveInv(s)'
  BY <1>1, <1>4, <1>5, KeepsQueue, KeepsAhead DEF LoneOK, WaveInv, Obtaining, Asks, Gets
<1>7. AskInv(s)'
  BY <1>1, <1>3, <1>4, <1>5 DEF LoneOK, AskInv, Asks
<1> QED
  BY <1>4, <1>6, <1>7 DEF LoneOK

LEMMA LookupLone ==
  ASSUME IInv, NEW s \in Sessions, LoneOK(s), Lookup(s)
  PROVE  LoneOK(s)'
<1>0. PICK t : t = Subject(s)
  OBVIOUS
<1>1. pc[s] = "lookup" /\ UNCHANGED <<known_tensors, backing, waves, ops, todo, active, entries_>>
  BY DEF Lookup, Acquire, storeVars
<1>2. pc[s] \in Asks /\ t \in Tensors /\ RequestsOK /\ FlowOK /\ ~Retains(s, t) /\ t \in Requested(s)
  BY <1>0, <1>1, LoneSubject DEF Asks, IInv, SessionInv, SubjectInv
<1>3. t \in known_tensors[s] /\ t \notin Private(s) /\ KnownInv(s)
  BY <1>0, <1>1 DEF LoneOK, AskInv, Asks
<1>4. CASE /\ requests' = [requests EXCEPT ![s][t].retained = TRUE, ![s][t].held = TRUE]
           /\ RequestDone(s, TRUE)
  <2>1. Sets(s, t, [requests[s][t] EXCEPT !.retained = TRUE, !.held = TRUE]) /\ requests[s][t] \in Info
    BY <1>2, <1>4, RetainSets, RequestType
  <2> DEFINE info == [requests[s][t] EXCEPT !.retained = TRUE, !.held = TRUE]
  <2>2. info \in Info /\ info.retained
    BY <2>1 DEF Info
  <2> HIDE DEF info
  <2>3. KnownInv(s)' /\ Keeps(s) /\ Private(s)' = Private(s) /\ Retains(s, t)'
    BY <1>1, <1>2, <1>3, <2>1, <2>2, SetsKnown DEF info
  <2>4. Ahead(s)' /\ Tried(s, t)'
    BY <1>1, <2>3, KeepsAhead DEF LoneOK, WaveInv, Tried, Got
  <2> QED
    BY <1>0, <1>1, <1>2, <1>4, <2>3, <2>4, KeepsTried, RequestDoneLone
<1>5. CASE t \notin entries_ /\ GoTo(s, "missed") /\ UNCHANGED <<requests, queue>>
  <2>1. Keeps(s) /\ Private(s)' = Private(s)
    BY <1>1, <1>5 DEF Keeps, Retains, Requested, Private
  <2>2. KnownInv(s)'
    BY <1>1, <1>5, <2>1 DEF LoneOK, KnownInv, Requested
  <2>3. pc'[s] = "missed" /\ Subject(s)' = t
    BY <1>0, <1>1, <1>2, <1>5 DEF GoTo, FlowOK, Subject
  <2>4. WaveInv(s)'
    BY <1>1, <1>5, <2>1, <2>3, KeepsQueue, KeepsAhead DEF LoneOK, WaveInv, Obtaining, Asks, Gets
  <2>5. AskInv(s)'
    BY <1>1, <1>3, <1>5, <2>1, <2>3 DEF LoneOK, AskInv, Asks
  <2> QED
    BY <2>2, <2>4, <2>5 DEF LoneOK
<1> QED
  BY <1>0, <1>4, <1>5 DEF Lookup

\* A read is refused only for another payload, and with an empty materializer it
\* starts; what comes before it in the wave has been obtained by then.
LEMMA MissedLone ==
  ASSUME IInv, NEW s \in Sessions, LoneOK(s), Missed(s)
  PROVE  LoneOK(s)'
<1>0. PICK t : t = Subject(s)
  OBVIOUS
<1> DEFINE state == BackingRequest(s, t)
           accepted == state \in {"InFlight", "Ready"}
           info == [requests[s][t] EXCEPT !.backing = TRUE]
<1>1. /\ pc[s] = "missed" /\ UNCHANGED <<known_tensors, waves, ops, todo, active, entries_>>
      /\ requests' = [requests EXCEPT ![s][t].backing = TRUE]
      /\ backing' = [backing EXCEPT ![s][t] = state]
      /\ RequestDone(s, accepted)
  BY <1>0 DEF Missed, storeVars
<1>2. pc[s] \in Asks /\ t \in Tensors /\ RequestsOK /\ FlowOK /\ t \in Requested(s)
  BY <1>0, <1>1, LoneSubject DEF Asks, IInv, SessionInv, SubjectInv
<1>3. t \in known_tensors[s] /\ t \notin Private(s) /\ t \notin entries_ /\ KnownInv(s) /\ Ahead(s)
  BY <1>0, <1>1 DEF LoneOK, AskInv, Asks, WaveInv
<1>4. state = IF BackingBytes(s) + Bytes[t] <= Bytes[t] THEN "InFlight" ELSE "NotRequested"
  BY <1>2, <1>3 DEF BackingRequest, Private
<1>5. BackingBytes(s) \in Nat /\ Bytes[t] \in Nat
  BY <1>2, BackingCounts, StoreAssumption
<1>6. IF BackingBytes(s) = 0 THEN state = "InFlight" ELSE state = "NotRequested"
  BY <1>4, <1>5
<1> HIDE DEF state
<1>7. requests[s][t] \in Info
  BY <1>2, RequestType
<1>8. info \in Info /\ info.retained = requests[s][t].retained /\ info.backing
  BY <1>7 DEF Info
<1>9. Sets(s, t, info)
  BY <1>1, <1>2, RetainSets
<1> HIDE DEF info
<1>10. /\ Requested(s)' = Requested(s) \cup {t}
       /\ \A u : Retains(s, u)' <=> IF u = t THEN info.retained ELSE Retains(s, u)
  BY <1>2, <1>8, <1>9, SetsRequests
<1>11. \A u \in Requested(s) \cup {t} : requests'[s][u] = IF u = t THEN info ELSE requests[s][u]
  BY <1>2, <1>8, <1>9, SetsRecords
<1>12. \A u \in Tensors : backing'[s][u] = IF u = t THEN state ELSE backing[s][u]
  BY <1>1, <1>2 DEF RequestsOK
<1>13. Private(s)' = Private(s) \cup (IF state = "InFlight" THEN {t} ELSE {})
  BY <1>2, <1>3, <1>6, <1>12 DEF Private
<1>14. Keeps(s)
  BY <1>2, <1>8, <1>10, <1>13 DEF Keeps, Retains
<1>15. KnownInv(s)'
  BY <1>1, <1>3, <1>6, <1>8, <1>10, <1>11, <1>12, <1>13 DEF KnownInv
<1>16. CASE BackingBytes(s) = 0
  <2>1. accepted /\ t \in Private(s)'
    BY <1>6, <1>13, <1>16
  <2>2. \A u \in Tensors : Tried(s, u) => Got(s, u)
    BY <1>16 DEF Tried
  <2>3. t \in Needs(ops[s]) /\ \A u \in Tensors : Before(ops[s], u, t) => Got(s, u)
    <3>1. CASE queue[s] # <<>>
      <4>1. t = queue[s][1] /\ DOMAIN queue[s] = 1..Len(queue[s]) /\ Len(queue[s]) \in Nat \ {0} /\ QueueInv(s)
        <5>1. queue[s] \in Seq(Tensors)
          BY <1>2 DEF FlowOK
        <5>2. QueueInv(s)
          BY <1>2, <3>1 DEF LoneOK, WaveInv
        <5> QED
          BY <1>0, <3>1, <5>1, <5>2, TailLemma, LenProperties, HeadTailProperties DEF Subject
      <4>2. 1 \in DOMAIN queue[s] /\ \A h \in DOMAIN queue[s] : ~(h < 1)
        BY <4>1
      <4>3. t \in Needs(ops[s]) /\ \A u \in Tensors : Before(ops[s], u, t) => Tried(s, u)
        BY <4>1, <4>2 DEF QueueInv
      <4> QED
        BY <2>2, <4>3
    <3>2. CASE queue[s] = <<>>
      BY ZenonT(60), <1>0, <1>2, <3>2, LoneSubject, FirstNeed
    <3> QED
      BY <3>1, <3>2
  <2>4. Ahead(s)'
    BY <1>1, <1>3, <1>6, <1>13, <1>14, <1>16, <2>3, KeepsTried DEF Ahead
  <2>5. Tried(s, t)'
    BY <2>1 DEF Tried, Got
  <2>6. accepted \in BOOLEAN
    OBVIOUS
  <2> QED
    BY <1>0, <1>1, <1>2, <1>14, <1>15, <2>1, <2>4, <2>5, <2>6, KeepsTried, RequestDoneLone
<1>17. CASE BackingBytes(s) # 0
  <2>1. Private(s)' = Private(s)
    BY <1>6, <1>13, <1>17
  <2>2. queue[s] # <<>>
    BY <1>2, <1>17, BackingCounts DEF LoneOK, AskInv
  <2>3. BackingBytes(s)' > 0
    BY <1>5, <1>14, <1>17, BackingCounts DEF Keeps
  <2>4. Ahead(s)' /\ Tried(s, t)'
    BY <1>1, <1>3, <1>14, <2>1, <2>3, KeepsAhead DEF Tried
  <2>5. accepted \in BOOLEAN
    OBVIOUS
  <2> QED
    BY <1>0, <1>1, <1>2, <1>14, <1>15, <2>2, <2>4, <2>5, KeepsTried, RequestDoneLone
<1> QED
  BY <1>16, <1>17

\* Waiting for an input that is there, or that the private materializer reads.
LEMMA WaitLone ==
  ASSUME IInv, NEW s \in Sessions, LoneOK(s), CheckState(s) \/ Wait(s) \/ Join(s)
  PROVE  LoneOK(s)'
<1>0. PICK t : t = Subject(s)
  OBVIOUS
<1>1. /\ UNCHANGED <<requests, known_tensors, backing, waves, ops, queue, todo, active, storeVars>>
      /\ pc[s] \in {"ready", "wait", "join"}
  BY DEF CheckState, Wait, Join
<1>2. pc[s] \in Asks \cup Gets /\ queue[s] = <<>> /\ t \in Tensors /\ FlowOK /\ RequestsOK
      /\ todo[s] = Head(ops[s]) /\ t = Head(Head(ops[s])) /\ ops[s] \in Seq(Inputs) /\ ops[s] # <<>> /\ Single(ops[s])
  BY <1>0, <1>1, LoneSubject DEF Gets, IInv
<1>3. Keeps(s) /\ Private(s)' = Private(s) /\ Subject(s)' = t
  BY <1>0, <1>1 DEF Keeps, Retains, Requested, Private, Subject
<1>4. KnownInv(s)' /\ Ahead(s)'
  BY <1>1, <1>3, KeepsAhead DEF LoneOK, WaveInv, KnownInv, Requested, storeVars
<1>5. SeemsReady(s, t) => t \in entries_
  BY <1>2, RetainedIsResident DEF SeemsReady
<1>6. backing[s][t] # "Failed" /\ (t \in Private(s) <=> backing[s][t] \in {"InFlight", "Ready"})
  BY <1>2 DEF LoneOK, KnownInv, Private
<1>7. ASSUME NEW place \in {"obtain", "wait", "join", "request"}, GoTo(s, place),
             place = "obtain" => t \in entries_ \/ backing[s][t] = "Ready",
             place \in {"wait", "join"} => t \in Private(s),
             place = "request" => Private(s) = {}
      PROVE  LoneOK(s)'
  <2>1. pc'[s] = place
    BY <1>2, <1>7 DEF GoTo, FlowOK
  <2>2. WaveInv(s)'
    BY <1>1, <1>2, <1>4, <2>1 DEF LoneOK, WaveInv, Obtaining, Asks, Gets
  <2>3. AskInv(s)'
    BY <1>1, <1>3, <1>7, <2>1 DEF AskInv, Asks, storeVars
  <2> QED
    BY <1>4, <2>2, <2>3 DEF LoneOK
<1>8. CASE CheckState(s)
  <2>1. CASE SeemsReady(s, t) \/ backing[s][t] = "Ready"
    <3>1. GoTo(s, "obtain")
      BY <1>0, <1>8, <2>1, Zenon DEF CheckState
    <3> QED
      BY <1>5, <1>7, <2>1, <3>1
  <2>2. CASE ~SeemsReady(s, t) /\ backing[s][t] = "InFlight"
    <3>1. GoTo(s, "wait")
      BY <1>0, <1>8, <2>2 DEF CheckState
    <3> QED
      BY <1>6, <1>7, <2>2, <3>1
  <2>3. CASE ~SeemsReady(s, t) /\ backing[s][t] \notin {"InFlight", "Ready"}
    <3>1. GoTo(s, "request")
      BY <1>0, <1>6, <1>8, <2>3 DEF CheckState
    <3>2. ~Got(s, t)
      BY <1>6, <2>3 DEF Got, SeemsReady
    <3>3. ASSUME NEW u \in Private(s) PROVE FALSE
      <4>1. u # t /\ u \in Needs(ops[s]) /\ (Before(ops[s], t, u) => Got(s, t))
        BY <1>2, <3>2, <3>3 DEF LoneOK, WaveInv, Ahead, Got
      <4> QED
        BY <1>2, <3>2, <4>1, FirstNeed
    <3> QED
      BY <1>7, <3>1, <3>3
  <2> QED
    BY <2>1, <2>2, <2>3
<1>9. CASE Wait(s)
  <2>1. t \in Private(s)
    BY <1>0, <1>9 DEF Wait, LoneOK, AskInv
  <2>2. GoTo(s, IF SeemsReady(s, t) THEN "obtain" ELSE "join")
    BY <1>0, <1>9 DEF Wait
  <2> QED
    BY <1>5, <1>7, <2>1, <2>2
<1>10. CASE Join(s)
  <2>1. t \in Private(s) /\ backing[s][t] # "InFlight"
    BY <1>0, <1>10 DEF Join, LoneOK, AskInv
  <2>2. backing[s][t] = "Ready" /\ GoTo(s, "obtain")
    BY <1>0, <1>6, <1>10, <2>1 DEF Join
  <2> QED
    BY <1>7, <2>2
<1> QED
  BY <1>8, <1>9, <1>10

\* The one input of the operation has been obtained: it is resident, or read to its end.
LEMMA ObtainedLone ==
  ASSUME IInv, NEW s \in Sessions, LoneOK(s), pc[s] \in Gets, Obtained(s), UNCHANGED <<waves, ops, queue, backing>>,
         KnownInv(s)', Keeps(s), backing[s][Subject(s)] # "InFlight"
  PROVE  LoneOK(s)'
<1>1. /\ queue[s] = <<>> /\ todo[s] = Head(ops[s]) /\ Subject(s) = Head(Head(ops[s]))
      /\ ops[s] \in Seq(Inputs) /\ ops[s] # <<>> /\ Single(ops[s]) /\ FlowOK
  BY LoneSubject DEF IInv
<1>2. Len(todo[s]) = 1
  BY <1>1, FirstNeed
<1>3. pc'[s] = "compute"
  BY <1>1, <1>2 DEF Obtained, GoTo, FlowOK
<1>4. Private(s)' = Private(s) /\ Ahead(s)'
  BY KeepsAhead DEF Private, LoneOK, WaveInv
<1>5. WaveInv(s)'
  BY <1>3, <1>4 DEF LoneOK, WaveInv, Obtaining, Asks, Gets
<1>6. AskInv(s)'
  BY <1>1, <1>3 DEF AskInv, Asks
<1> QED
  BY <1>5, <1>6 DEF LoneOK

LEMMA ObtainLone ==
  ASSUME IInv, NEW s \in Sessions, LoneOK(s), Obtain(s)
  PROVE  LoneOK(s)'
<1>0. PICK t : t = Subject(s)
  OBVIOUS
<1> DEFINE info == IF t \in Requested(s) THEN requests[s][t]
                   ELSE [retained |-> FALSE, backing |-> FALSE, held |-> FALSE]
<1>1. pc[s] = "obtain" /\ UNCHANGED <<known_tensors, backing, waves, ops, queue, entries_>>
  BY DEF Obtain, Acquire, storeVars
<1>2. pc[s] \in Gets /\ queue[s] = <<>> /\ t \in Tensors /\ RequestsOK /\ FlowOK /\ KnownInv(s)
  BY <1>0, <1>1, LoneSubject DEF Gets, IInv, LoneOK
<1>3. t \in entries_ \/ backing[s][t] = "Ready"
  BY <1>0, <1>1 DEF LoneOK, AskInv
<1>4. t \in known_tensors[s] /\ (t \in Private(s) => t \in Requested(s) /\ requests[s][t].backing)
  BY <1>2, <1>3 DEF KnownInv, Private
<1>5. backing[s][t] # "InFlight"
  BY <1>2, <1>3 DEF KnownInv
<1>6. info \in Info /\ (Retains(s, t) <=> info.retained) /\ (t \in Private(s) => info.backing)
  <2>1. t \in Requested(s) => requests[s][t] \in Info
    BY <1>2, RequestType
  <2> QED
    BY <1>4, <2>1 DEF Info, Retains
<1>7. \/ info.retained /\ Obtained(s) /\ UNCHANGED requests
      \/ Acquire(t) /\ Sets(s, t, [info EXCEPT !.retained = TRUE]) /\ Obtained(s)
      \/ /\ t \notin entries_ /\ (IF backing[s][t] = "Ready" THEN GoTo(s, "insert") ELSE Throw(s))
         /\ Sets(s, t, info) /\ UNCHANGED todo
  BY <1>0, <1>4 DEF Obtain, Sets
<1> HIDE DEF info
<1>8. CASE info.retained /\ Obtained(s) /\ UNCHANGED requests
  <2>1. Keeps(s) /\ KnownInv(s)'
    BY <1>1, <1>2, <1>8 DEF Keeps, KnownInv, Retains, Requested, Private
  <2> QED
    BY <1>0, <1>1, <1>2, <1>5, <1>8, <2>1, ObtainedLone
<1>9. CASE Acquire(t) /\ Sets(s, t, [info EXCEPT !.retained = TRUE]) /\ Obtained(s)
  <2> DEFINE new == [info EXCEPT !.retained = TRUE]
  <2>1. new \in Info /\ new.retained /\ new.backing = info.backing
    BY <1>6 DEF Info
  <2> HIDE DEF new
  <2>2. Keeps(s) /\ KnownInv(s)'
    BY <1>1, <1>2, <1>4, <1>6, <1>9, <2>1, SetsKnown DEF new
  <2> QED
    BY <1>0, <1>1, <1>2, <1>5, <1>9, <2>2, ObtainedLone
<1>10. CASE /\ t \notin entries_ /\ (IF backing[s][t] = "Ready" THEN GoTo(s, "insert") ELSE Throw(s))
            /\ Sets(s, t, info) /\ UNCHANGED todo
  <2>1. pc'[s] = "insert"
    BY <1>2, <1>3, <1>10 DEF GoTo, FlowOK
  <2>2. Keeps(s) /\ KnownInv(s)' /\ Private(s)' = Private(s)
    BY <1>1, <1>2, <1>4, <1>6, <1>10, SetsKnown
  <2>3. WaveInv(s)'
    BY <1>1, <1>2, <1>10, <2>1, <2>2, KeepsAhead DEF LoneOK, WaveInv, Obtaining, Asks, Gets
  <2>4. AskInv(s)'
    BY <2>1 DEF AskInv, Asks
  <2> QED
    BY <2>2, <2>3, <2>4 DEF LoneOK
<1> QED
  BY <1>7, <1>8, <1>9, <1>10

LEMMA OfferLone ==
  ASSUME IInv, NEW s \in Sessions, LoneOK(s), Offer(s)
  PROVE  LoneOK(s)'
<1>0. PICK t : t = Subject(s)
  OBVIOUS
<1>1. /\ pc[s] = "insert" /\ UNCHANGED <<requests, known_tensors, backing, waves, ops, queue, todo, active>>
      /\ entries_' \subseteq entries_ \cup {t} /\ GoTo(s, "inserted")
  BY <1>0 DEF Offer, Insert, InsertRejected, InsertRefused, storeVars
<1>2. pc[s] \in Gets /\ t \in Requested(s) /\ backing[s][t] = "Ready" /\ FlowOK
  BY <1>0, <1>1 DEF Gets, IInv, SessionInv, SubjectInv
<1>3. Keeps(s) /\ Private(s)' = Private(s)
  BY <1>1 DEF Keeps, Retains, Requested, Private
<1>4. KnownInv(s)'
  BY <1>1, <1>2, <1>3 DEF LoneOK, KnownInv, Requested
<1>5. pc'[s] = "inserted"
  BY <1>1, <1>2 DEF GoTo, FlowOK
<1>6. WaveInv(s)'
  BY <1>1, <1>2, <1>3, <1>5, KeepsAhead DEF LoneOK, WaveInv, Obtaining, Asks, Gets
<1>7. AskInv(s)'
  BY <1>5 DEF AskInv, Asks
<1> QED
  BY <1>4, <1>6, <1>7 DEF LoneOK

LEMMA ReacquireLone ==
  ASSUME IInv, NEW s \in Sessions, LoneOK(s), Reacquire(s)
  PROVE  LoneOK(s)'
<1>0. PICK t : t = Subject(s)
  OBVIOUS
<1>1. /\ pc[s] = "inserted" /\ UNCHANGED <<known_tensors, backing, waves, ops, queue, entries_>>
      /\ Obtained(s)
      /\ \/ requests' = [requests EXCEPT ![s][t].retained = TRUE, ![s][t].held = TRUE]
         \/ requests' = [requests EXCEPT ![s][t].retained = FALSE]
  BY <1>0 DEF Reacquire, Acquire, storeVars
<1>2. pc[s] \in Gets /\ t \in Requested(s) /\ ~Retains(s, t) /\ backing[s][t] = "Ready" /\ FlowOK /\ RequestsOK
      /\ t \in Tensors /\ KnownInv(s)
  BY <1>0, <1>1, LoneSubject DEF Gets, IInv, SessionInv, SubjectInv, LoneOK
<1>3. requests[s][t] \in Info /\ requests[s][t].backing /\ t \in known_tensors[s]
  BY <1>2, RequestType DEF KnownInv, Private
<1>4. PICK info \in Info : info.backing /\ Sets(s, t, info)
  <2>1. /\ [requests[s][t] EXCEPT !.retained = TRUE, !.held = TRUE] \in Info
        /\ [requests[s][t] EXCEPT !.retained = TRUE, !.held = TRUE].backing
        /\ [requests[s][t] EXCEPT !.retained = FALSE] \in Info
        /\ [requests[s][t] EXCEPT !.retained = FALSE].backing
    BY <1>3 DEF Info
  <2> QED
    BY ZenonT(60), <1>1, <1>2, <2>1, RetainSets
<1>5. Keeps(s) /\ KnownInv(s)'
  BY <1>1, <1>2, <1>3, <1>4, SetsKnown
<1> QED
  BY <1>0, <1>1, <1>2, <1>5, ObtainedLone

\* A run, a position, a wave and an operation begin.
LEMMA StartLone ==
  ASSUME UsesInOrder, IInv, NEW s \in Sessions, LoneOK(s),
         StartRun(s) \/ StartPosition(s) \/ StartWave(s) \/ StartOp(s)
  PROVE  LoneOK(s)'
<1>1. UNCHANGED <<requests, known_tensors, backing, active, storeVars>>
  BY DEF StartRun, StartPosition, StartWave, StartOp
<1>2. FlowOK /\ PlaceInv(s) /\ WaveInv(s)
  BY DEF IInv, SessionInv, LoneOK
<1>3. Keeps(s) /\ Private(s)' = Private(s)
  BY <1>1 DEF Keeps, Retains, Requested, Private
<1>4. KnownInv(s)'
  BY <1>1, <1>3 DEF LoneOK, KnownInv, Requested, storeVars
<1>5. AskInv(s)'
  <2>1. pc'[s] \in {"position", "wave", "op", "request", "ready"}
    BY <1>2 DEF StartRun, StartPosition, StartWave, StartOp, GoTo, FlowOK
  <2>2. pc'[s] = "request" => queue'[s] # <<>>
    BY <1>2 DEF StartRun, StartPosition, StartWave, StartOp, GoTo, FlowOK
  <2> QED
    BY <2>1, <2>2 DEF AskInv, Asks
<1>6. CASE StartRun(s)
  <2>1. pc'[s] = "position" /\ Private(s) = {} /\ UNCHANGED <<waves, ops, queue, todo>>
    BY <1>2, <1>6 DEF StartRun, GoTo, FlowOK, WaveInv
  <2>2. WaveInv(s)'
    BY <1>2, <1>3, <2>1, KeepsAhead DEF WaveInv, Obtaining, Asks, Gets
  <2> QED
    BY <1>4, <1>5, <2>2 DEF LoneOK
<1>7. CASE StartPosition(s)
  <2>1. PICK p \in Positions : waves'[s] = p
    BY <1>2, <1>7 DEF StartPosition, FlowOK
  <2>2. pc'[s] = "wave" /\ Private(s) = {} /\ UNCHANGED <<ops, queue, todo>>
    BY <1>2, <1>7 DEF StartPosition, GoTo, FlowOK, WaveInv
  <2>3. \A i \in DOMAIN waves'[s] : InOrder(waves'[s][i])
    BY <2>1 DEF UsesInOrder
  <2>4. WaveInv(s)'
    BY <1>2, <1>3, <2>2, <2>3, KeepsAhead DEF WaveInv, Obtaining, Asks, Gets
  <2> QED
    BY <1>4, <1>5, <2>4 DEF LoneOK
<1>8. CASE StartWave(s)
  <2> DEFINE w == Head(waves[s])
  <2>1. /\ queue'[s] = w.prefetch /\ ops'[s] = w.ops /\ UNCHANGED <<waves, todo>> /\ Private(s) = {}
        /\ pc'[s] = IF w.prefetch = <<>> THEN "op" ELSE "request"
    BY <1>2, <1>8 DEF StartWave, GoTo, FlowOK, WaveInv
  <2>2. InOrder(w)
    <3>1. waves[s] \in Seq(Wave) /\ waves[s] # <<>>
      BY <1>2, <1>8 DEF FlowOK, PlaceInv, StartWave, Idles
    <3>2. 1 \in DOMAIN waves[s] /\ w = waves[s][1]
      BY <3>1, TailLemma, LenProperties, HeadTailProperties
    <3> QED
      BY <1>2, <3>2 DEF WaveInv
  <2> HIDE DEF w
  <2>3. Ahead(s)'
    BY <1>3, <2>1 DEF Ahead
  <2>4. QueueInv(s)'
    BY <2>1, <2>2 DEF InOrder, QueueInv
  <2>5. Single(ops'[s])
    BY <2>1, <2>2 DEF InOrder
  <2>6. WaveInv(s)'
    BY <1>2, <1>3, <2>1, <2>3, <2>4, <2>5 DEF WaveInv, Obtaining, Asks, Gets
  <2> QED
    BY <1>4, <1>5, <2>6 DEF LoneOK
<1>9. CASE StartOp(s)
  <2>1. /\ pc'[s] = "ready" /\ UNCHANGED <<waves, ops, queue>>
        /\ \E inputs \in NewFirst(s, Head(ops[s])) : todo'[s] = inputs
    BY <1>2, <1>9 DEF StartOp, GoTo, FlowOK
  <2>2. ops[s] \in Seq(Inputs) /\ ops[s] # <<>> /\ Single(ops[s])
    BY <1>2, <1>9 DEF FlowOK, PlaceInv, WaveInv, StartOp
  <2>3. PICK inputs \in NewFirst(s, Head(ops[s])) : todo'[s] = inputs
    BY <2>1
  <2>4. Head(ops[s]) \in Inputs
    BY <2>2, TailLemma
  <2>5. /\ inputs \in Seq(Tensors) /\ inputs # <<>> /\ Len(inputs) = Len(Head(ops[s]))
        /\ ToSet(inputs) \subseteq ToSet(Head(ops[s]))
    BY <2>4, NewFirstType, NewFirstOnce
  <2>6. Len(Head(ops[s])) = 1 /\ Head(ops[s]) \in Seq(Tensors) /\ ToSet(Head(ops[s])) = {Head(Head(ops[s]))}
    BY <2>2, FirstNeed
  <2>7. inputs[1] = Head(Head(ops[s])) /\ Head(ops[s])[1] = Head(Head(ops[s]))
    <3>1. inputs[1] \in ToSet(inputs) /\ DOMAIN inputs = 1..1
      BY <2>5, <2>6, LenProperties DEF ToSet
    <3>2. Head(ops[s])[1] \in ToSet(Head(ops[s]))
      BY <2>6, LenProperties DEF ToSet
    <3> QED
      BY <2>5, <2>6, <3>1, <3>2
  <2>8. inputs = Head(ops[s])
    BY <2>5, <2>6, <2>7, SeqEqual
  <2>9. WaveInv(s)'
    BY <1>2, <1>3, <2>1, <2>3, <2>8, KeepsAhead DEF WaveInv, Obtaining, Asks, Gets
  <2> QED
    BY <1>4, <1>5, <2>9 DEF LoneOK
<1> QED
  BY <1>6, <1>7, <1>8, <1>9

\* What a release leaves: the released payloads are gone unless they are still being read.
LEMMA ReleaseLone ==
  ASSUME IInv, NEW s \in Sessions, KnownInv(s), NEW ts, ReleaseRequests(s, ts), UNCHANGED known_tensors,
         \A t \in ts \cap Private(s) : backing[s][t] # "InFlight"
  PROVE  /\ KnownInv(s)' /\ Private(s)' = Private(s) \ ts
         /\ \A u \in Tensors \ ts : Retains(s, u) => Retains(s, u)'
<1>1. RequestsOK /\ LeasesOK
  BY DEF IInv, LeasesOK
<1>2. /\ Requested(s)' = Requested(s) \ ts
      /\ \A u \in Requested(s) \ ts : requests'[s][u] = requests[s][u] /\ (Retains(s, u)' <=> Retains(s, u))
  BY <1>1, GivesBack
<1>3. /\ \A t \in Tensors : backing'[s][t] = IF t \in ts \cap Requested(s) /\ requests[s][t].backing
                                             THEN BackingRelease(backing[s][t]) ELSE backing[s][t]
      /\ entries_' = entries_
  BY <1>1 DEF ReleaseRequests, RequestsOK
<1>4. \A t \in Private(s) : t \in Requested(s) /\ requests[s][t].backing
  BY DEF KnownInv
<1>5. ASSUME NEW t \in Tensors
      PROVE  /\ t \in Private(s)' <=> t \in Private(s) \ ts
             /\ backing'[s][t] # "Failed" /\ (backing'[s][t] = "InFlight" => backing[s][t] = "InFlight")
  <2>1. backing[s][t] # "Failed"
    BY DEF KnownInv
  <2>2. CASE t \in ts \cap Private(s)
    BY <1>3, <1>4, <2>2 DEF Private, BackingRelease
  <2>3. CASE t \notin ts
    BY <1>3, <2>1, <2>3 DEF Private
  <2>4. CASE t \notin Private(s)
    BY <1>3, <2>1, <2>4 DEF Private, BackingRelease
  <2> QED
    BY <2>2, <2>3, <2>4
<1>6. Private(s)' = Private(s) \ ts
  <2>1. Private(s) \subseteq Tensors /\ Private(s)' \subseteq Tensors
    BY DEF Private
  <2> QED
    BY <1>5, <2>1
<1>7. KnownInv(s)'
  BY <1>2, <1>3, <1>4, <1>5, <1>6 DEF KnownInv
<1> QED
  BY <1>2, <1>6, <1>7 DEF Retains

LEMMA ComputeLone ==
  ASSUME IInv, NEW s \in Sessions, LoneOK(s), Compute(s)
  PROVE  LoneOK(s)'
<1> DEFINE later == UNION {ToSet(inputs) : inputs \in ToSet(Tail(ops[s]))}
           done == ToSet(Head(ops[s])) \ later
           x == Head(Head(ops[s]))
<1>1. /\ pc[s] = "compute" /\ ReleaseRequests(s, done) /\ UNCHANGED <<known_tensors, queue, todo>>
      /\ ops'[s] = Tail(ops[s]) /\ waves'[s] = IF Len(ops[s]) = 1 THEN Tail(waves[s]) ELSE waves[s]
      /\ pc'[s] = IF Len(ops[s]) > 1 THEN "op" ELSE IF Len(waves[s]) > 1 THEN "wave" ELSE "position"
  BY DEF Compute, GoTo, IInv, FlowOK
<1>2. /\ ops[s] \in Seq(Inputs) /\ ops[s] # <<>> /\ Single(ops[s]) /\ waves[s] \in Seq(Wave) /\ waves[s] # <<>>
      /\ WaveInv(s) /\ KnownInv(s)
  BY <1>1 DEF IInv, FlowOK, SessionInv, PlaceInv, LoneOK, WaveInv, Idles
<1>3. backing[s][x] # "InFlight"
  BY <1>1 DEF LoneOK, AskInv
<1>4. done = {x}
  <2>1. \A inputs \in ToSet(Tail(ops[s])) : ToSet(inputs) \cap ToSet(Head(ops[s])) = {}
    BY <1>2, TailDisjoint DEF Single
  <2>2. ToSet(Head(ops[s])) = {x}
    BY <1>2, FirstNeed
  <2> QED
    BY <2>1, <2>2
<1>5. /\ Single(Tail(ops[s])) /\ Needs(ops[s]) \ {x} \subseteq Needs(Tail(ops[s]))
      /\ \A u, t : Before(Tail(ops[s]), u, t) => Before(ops[s], u, t) /\ u # x
  BY <1>2, RestNeeds
<1> HIDE DEF x, done
<1>6. /\ KnownInv(s)' /\ Private(s)' = Private(s) \ {x}
      /\ \A u \in Tensors \ {x} : Retains(s, u) => Retains(s, u)'
  BY <1>1, <1>2, <1>3, <1>4, ReleaseLone
<1>7. \A u \in Tensors : u # x /\ Got(s, u) => Got(s, u)'
  BY <1>6 DEF Got
<1>8. Ahead(s)'
  BY <1>1, <1>2, <1>5, <1>6, <1>7 DEF WaveInv, Ahead
<1>9. Len(ops[s]) \in Nat \ {0} /\ (Tail(ops[s]) = <<>> <=> Len(ops[s]) = 1)
  BY <1>2, TailLemma
<1>10. pc'[s] \in {"wave", "position"} => Private(s)' = {}
  <2>1. SUFFICES ASSUME pc'[s] \in {"wave", "position"} PROVE Private(s)' = {}
    OBVIOUS
  <2>2. ops'[s] = <<>>
    BY <1>1, <1>9, <2>1
  <2>3. Needs(ops'[s]) = {}
    BY <2>2 DEF Needs
  <2> QED
    BY <1>8, <2>3 DEF Ahead
<1>11. \A i \in DOMAIN waves'[s] : InOrder(waves'[s][i])
  <2>1. /\ Len(waves[s]) \in Nat \ {0} /\ DOMAIN waves[s] = 1..Len(waves[s])
        /\ DOMAIN Tail(waves[s]) = 1..(Len(waves[s]) - 1)
        /\ \A i \in 1..(Len(waves[s]) - 1) : Tail(waves[s])[i] = waves[s][i + 1]
    BY <1>2, TailLemma, LenProperties, HeadTailProperties
  <2>2. \A i \in 1..(Len(waves[s]) - 1) : i + 1 \in 1..Len(waves[s])
    BY <2>1
  <2>3. \A i \in DOMAIN Tail(waves[s]) : InOrder(Tail(waves[s])[i])
    BY <1>2, <2>1, <2>2 DEF WaveInv
  <2> QED
    BY <1>1, <1>2, <2>3 DEF WaveInv
<1>12. pc'[s] \in {"op", "wave", "position"}
  BY <1>1
<1>13. WaveInv(s)'
  BY <1>1, <1>5, <1>8, <1>10, <1>11, <1>12 DEF WaveInv, Obtaining, Asks, Gets
<1>14. AskInv(s)'
  BY <1>12 DEF AskInv, Asks
<1> QED
  BY <1>6, <1>13, <1>14 DEF LoneOK

\* A run ends where nothing is left in the private materializer.
LEMMA EndLone ==
  ASSUME IInv, NEW s \in Sessions, LoneOK(s), EndRun(s)
  PROVE  LoneOK(s)'
<1>1. /\ ReleaseRequests(s, Requested(s)) /\ UNCHANGED known_tensors
      /\ pc'[s] = "idle" /\ waves'[s] = <<>> /\ ops'[s] = <<>>
  BY DEF EndRun, GoTo, IInv, FlowOK
<1>2. Private(s) = {} /\ KnownInv(s)
  BY DEF EndRun, LoneOK, AskInv, WaveInv
<1>3. KnownInv(s)' /\ Private(s)' = {}
  BY <1>1, <1>2, ReleaseLone
<1>4. DOMAIN <<>> = {}
  OBVIOUS
<1>5. WaveInv(s)'
  BY <1>1, <1>3, <1>4 DEF WaveInv, Single, Disjoint, Ahead, Obtaining, Asks, Gets
<1>6. AskInv(s)'
  BY <1>1 DEF AskInv, Asks
<1> QED
  BY <1>3, <1>5, <1>6 DEF LoneOK

\* A read returns.
LEMMA WorkerLone ==
  ASSUME ~SourceFails, IInv, NEW s \in Sessions, LoneOK(s), NEW t \in Tensors, Worker(s, t)
  PROVE  LoneOK(s)'
<1>1. /\ UNCHANGED <<requests, known_tensors, pc, waves, ops, queue, todo, entries_>>
      /\ backing[s][t] = "InFlight" /\ backing' = [backing EXCEPT ![s][t] = "Ready"]
  BY DEF Worker, WorkerReads, WorkerFails, storeVars
<1>2. \A u \in Tensors : backing'[s][u] = IF u = t THEN "Ready" ELSE backing[s][u]
  BY <1>1 DEF IInv, RequestsOK
<1>3. Private(s)' = Private(s) /\ Keeps(s)
  BY <1>1, <1>2 DEF Private, Keeps, Retains, Requested
<1>4. KnownInv(s)'
  BY <1>1, <1>2, <1>3 DEF LoneOK, KnownInv, Requested
<1>5. WaveInv(s)'
  BY <1>1, <1>3, KeepsAhead, KeepsQueue DEF LoneOK, WaveInv, Obtaining
<1>6. pc[s] = "obtain" => Subject(s) \in Tensors
  BY LoneSubject DEF Gets
<1>7. pc[s] = "compute" => Head(Head(ops[s])) \in Tensors
  <2>1. pc[s] = "compute" => ops[s] \in Seq(Inputs) /\ ops[s] # <<>> /\ Single(ops[s])
    BY DEF IInv, FlowOK, SessionInv, PlaceInv, LoneOK, WaveInv
  <2> QED
    BY <2>1, FirstNeed
<1>8. AskInv(s)'
  BY <1>1, <1>2, <1>3, <1>6, <1>7 DEF LoneOK, AskInv, Subject
<1> QED
  BY <1>4, <1>5, <1>8 DEF LoneOK

LEMMA StepLone ==
  ASSUME Unfailing, IInv, LoneInv, [SharedNext]_sharedVars
  PROVE  LoneInv'
<1>1. CASE SharedNext
  <2>1. PICK s \in Sessions : StartRun(s) \/ Step(s) \/ \E t \in Tensors : Worker(s, t)
    BY <1>1 DEF SharedNext
  <2>2. LoneOK(s)
    BY DEF LoneInv, LoneOK
  <2>3. ~ComputeFailure(s)
    BY DEF Unfailing, ComputeFailure
  <2>4. LoneOK(s)'
    BY <2>1, <2>2, <2>3, RequestLone, NoteLone, LookupLone, MissedLone, WaitLone, ObtainLone, OfferLone,
       ReacquireLone, StartLone, ComputeLone, EndLone, WorkerLone DEF Step, Unfailing
  <2> QED
    BY <2>4 DEF LoneInv, LoneOK, Unfailing, Alone
<1>2. CASE UNCHANGED sharedVars
  <2>1. \A s \in Sessions : Keeps(s) /\ Private(s)' = Private(s)
    BY <1>2 DEF sharedVars, sessionVars, Keeps, Private, Retains, Requested
  <2>2. \A s \in Sessions : Ahead(s) => Ahead(s)'
    BY <1>2, <2>1, KeepsAhead DEF sharedVars, sessionVars
  <2>3. \A s \in Sessions : QueueInv(s) => QueueInv(s)'
    BY <1>2, <2>1, KeepsQueue DEF sharedVars, sessionVars
  <2> QED
    BY <1>2, <2>1, <2>2, <2>3 DEF sharedVars, sessionVars, storeVars, LoneInv, KnownInv, WaveInv, AskInv,
       Requested, Obtaining, Subject
<1> QED
  BY <1>1, <1>2

\* Where neither the source nor an operation fails, no run of a lone session is
\* thrown out: no request of its waves meets a refusal, and no input it waits
\* for is lost between its request and its use.
THEOREM RunsFailOnlyOnFault ==
  ASSUME Unfailing
  PROVE  SharedSpec => []FailsOnlyOnFault
<1>1. SharedInit => LoneInv
  <2> SUFFICES ASSUME SharedInit, NEW s \in Sessions PROVE KnownInv(s) /\ WaveInv(s) /\ AskInv(s)
    BY DEF LoneInv
  <2>1. /\ Requested(s) = {} /\ entries_ = {} /\ waves[s] = <<>> /\ ops[s] = <<>> /\ pc[s] = "idle"
        /\ \A t \in Tensors : backing[s][t] = "NotRequested"
    BY DEF SharedInit, StoreInit, Requested
  <2>2. Private(s) = {} /\ DOMAIN <<>> = {}
    BY <2>1 DEF Private
  <2>3. KnownInv(s)
    BY <2>1, <2>2 DEF KnownInv
  <2>4. WaveInv(s)
    BY <2>1, <2>2 DEF WaveInv, Single, Disjoint, Ahead, Obtaining, Asks, Gets
  <2> QED
    BY <2>1, <2>3, <2>4 DEF AskInv, Asks
<1>2. Unfailing /\ IInv /\ LoneInv /\ [SharedNext]_sharedVars => LoneInv'
  BY StepLone
<1>3. LoneInv => FailsOnlyOnFault
  BY DEF LoneInv, AskInv, FailsOnlyOnFault
<1>4. QED
  BY <1>1, <1>2, <1>3, InitIInv, StepIInv, PTL DEF SharedSpec
===============================================================================
