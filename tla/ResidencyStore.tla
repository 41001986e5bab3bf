---------------------------- MODULE ResidencyStore ----------------------------
(***************************************************************************)
(* TensorResidencyStore (integrations/ggml/src/vbuf_residency.cpp): the    *)
(* bounded set of materialised tensors that sessions share.  Every         *)
(* operation runs under the store's mutex, so each is one action.  An      *)
(* entry with leases is never evicted; an insertion evicts unleased        *)
(* entries, in the order of the replacement policy, until the new tensor   *)
(* fits.                                                                   *)
(***************************************************************************)
EXTENDS Integers, FiniteSets, Sequences, SequencesExt

CONSTANTS Tensors,      \* tensor refs, ordered as in the entries_ map
          Bytes,        \* Bytes[t]: payload length of t
          MaxBytes,     \* max_resident_bytes_
          Policy,       \* "LRU" or "CostAware"
          MaxLeases     \* bound: leases a tensor has in StoreNext

ASSUME StoreAssumption ==
  /\ Tensors \subseteq Nat /\ IsFiniteSet(Tensors)
  /\ Bytes \in [Tensors -> Nat]
  /\ MaxBytes \in Nat
  /\ Policy \in {"LRU", "CostAware"}
  /\ MaxLeases \in Nat

VARIABLES
  entries_,             \* resident tensors
  active_leases,        \* active_leases[t]: leases of entry t, 0 when t is not resident
  resident_bytes_,
  last_request_         \* requested tensors, by last_request_ordinal_, oldest first (LRU only)

storeVars == <<entries_, active_leases, resident_bytes_, last_request_>>

StoreInit ==
  /\ entries_ = {}
  /\ active_leases = [t \in Tensors |-> 0]
  /\ resident_bytes_ = 0
  /\ last_request_ = <<>>

-------------------------------------------------------------------------------
(* Replacement. *)

SizeOf(ts) == MapThenSumSet(LAMBDA t : Bytes[t], ts)

\* Mutant: leased entries are candidates too.
CandidatesLeased == entries_

\* What evict_one offers to the policy.
Candidates == {t \in entries_ : active_leases[t] = 0}

\* LruReplacementPolicy: a tensor never requested has ordinal 0; ties go to the smaller ref.
Older(t, u) ==
  LET ordinal(v) == IF v \in ToSet(last_request_)
                    THEN CHOOSE i \in DOMAIN last_request_ : last_request_[i] = v
                    ELSE 0
  IN  ordinal(t) < ordinal(u) \/ (ordinal(t) = ordinal(u) /\ t < u)

\* The sets of entries that the loop of insert may evict, one by one, to make
\* room for t: each eviction was needed, and the loop stops when t fits or no
\* candidate is left.  LRU leaves one choice; the score of CostAware, which
\* depends on how often and how recently a tensor was requested, is left open.
Evictions(t) ==
  LET fits(ev) == resident_bytes_ - SizeOf(ev) + Bytes[t] <= MaxBytes
      latest(ev) == {u \in ev : Policy = "LRU" => \A v \in ev \ {u} : Older(v, u)}
  IN  {ev \in SUBSET Candidates :
         /\ fits(ev) \/ ev = Candidates
         /\ ev # {} => \E u \in latest(ev) : ~fits(ev \ {u})
         /\ Policy = "LRU" => \A u \in ev, v \in Candidates \ ev : Older(u, v)}

-------------------------------------------------------------------------------
(* Operations. *)

\* A request makes t the last of the requested tensors, once each.
AskedLast(t) == Append(RemoveFirst(last_request_, t), t)

\* The score of CostAware is left open, so nothing is kept for it.
NoteRequest(t) ==
  /\ last_request_' = IF Policy = "LRU" THEN AskedLast(t) ELSE last_request_
  /\ UNCHANGED <<entries_, active_leases, resident_bytes_>>

\* acquire and acquire_materialized find the entry.
Acquire(t) ==
  /\ t \in entries_
  /\ active_leases' = [active_leases EXCEPT ![t] = @ + 1]
  /\ UNCHANGED <<entries_, resident_bytes_, last_request_>>

CanRelease(t) == t \in entries_ /\ active_leases[t] > 0

Release(t) ==
  /\ CanRelease(t)
  /\ active_leases' = [active_leases EXCEPT ![t] = @ - 1]
  /\ UNCHANGED <<entries_, resident_bytes_, last_request_>>

\* Mutant: inserts whatever the loop has achieved.
InsertOverfull(t, ev) ==
  /\ t \notin entries_ /\ Bytes[t] <= MaxBytes
  /\ ev \in Evictions(t)
  /\ entries_' = (entries_ \ ev) \cup {t}
  /\ resident_bytes_' = resident_bytes_ - SizeOf(ev) + Bytes[t]
  /\ UNCHANGED <<active_leases, last_request_>>

\* insert accepts t after evicting ev.
Insert(t, ev) ==
  /\ t \notin entries_ /\ Bytes[t] <= MaxBytes
  /\ ev \in Evictions(t)
  /\ resident_bytes_ - SizeOf(ev) + Bytes[t] <= MaxBytes
  /\ entries_' = (entries_ \ ev) \cup {t}
  /\ resident_bytes_' = resident_bytes_ - SizeOf(ev) + Bytes[t]
  /\ UNCHANGED <<active_leases, last_request_>>

\* insert refuses t, although it has evicted every candidate.
InsertRejected(t) ==
  /\ t \notin entries_ /\ Bytes[t] <= MaxBytes
  /\ resident_bytes_ - SizeOf(Candidates) + Bytes[t] > MaxBytes
  /\ entries_' = entries_ \ Candidates
  /\ resident_bytes_' = resident_bytes_ - SizeOf(Candidates)
  /\ UNCHANGED <<active_leases, last_request_>>

\* insert refuses t at once: it is resident, or larger than the store.
InsertRefused(t) ==
  /\ t \in entries_ \/ Bytes[t] > MaxBytes
  /\ UNCHANGED storeVars

Evict(t) ==
  /\ t \in Candidates
  /\ entries_' = entries_ \ {t}
  /\ resident_bytes_' = resident_bytes_ - Bytes[t]
  /\ UNCHANGED <<active_leases, last_request_>>

\* clear keeps the leased entries.
Clear ==
  /\ entries_' = entries_ \ Candidates
  /\ resident_bytes_' = resident_bytes_ - SizeOf(Candidates)
  /\ UNCHANGED <<active_leases, last_request_>>

-------------------------------------------------------------------------------
(* Callers in any order, with at most MaxLeases leases on an entry. *)

StoreNext ==
  \/ \E t \in Tensors :
       \/ NoteRequest(t)
       \/ active_leases[t] < MaxLeases /\ Acquire(t)
       \/ Release(t)
       \/ \E ev \in Evictions(t) : Insert(t, ev)
       \/ InsertRejected(t) \/ InsertRefused(t)
       \/ Evict(t)
  \/ Clear

StoreSpec == StoreInit /\ [][StoreNext]_storeVars

-------------------------------------------------------------------------------
(* Properties. *)

\* resident_bytes_ is the size of what is resident, so its unsigned arithmetic
\* never wraps and room once evicted is never lost; and whatever is inserted,
\* evicted or refused, the configured bound holds for it.
WithinBudget == resident_bytes_ = SizeOf(entries_) /\ resident_bytes_ <= MaxBytes

\* A tensor with a lease stays resident, and a tensor that has left has no lease.
LeasedIsResident == \A t \in Tensors : active_leases[t] > 0 => t \in entries_
===============================================================================
