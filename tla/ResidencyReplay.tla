---------------------------- MODULE ResidencyReplay ----------------------------
(* The offline replays of a residency trace: the trace that the resident       *)
(* materializer and its store leave behind (multi_layer_poc16.cpp prints it),  *)
(* and what five scripts make of it, namely replacement policies and an oracle *)
(* (qualify_residency_policy_poc17.py, qualify_cost_aware_residency_poc20.py), *)
(* two tiers (qualify_tiered_residency_poc18.py) and reports of reuse,         *)
(* retention and classes (also qualify_deep_stack_poc19.py and                 *)
(* report_cost_aware_residency_poc20.py).                                      *)
(*                                                                             *)
(* An event is <<kind, ref>>; its bytes are Bytes[ref], and indices of         *)
(* requests and ordinals of events start at 1.                                 *)
EXTENDS ResidencyStore

CONSTANTS Class,         \* Class[t]: the semantic class of t
          MaxRequests,   \* bound: requests in a trace
          MaxHeld,       \* bound: tensors asked for or obtained at once
          HotCapacity, WarmCapacity

ASSUME ReplayAssumption == HotCapacity \in Nat /\ WarmCapacity \in Nat

VARIABLES
  requests_,     \* requests_[t]: "none", "refused", "reading", "read" or "leased"
  trace_,        \* events of the store
  boundary       \* events before the second token began, NoPhase until then

replayVars == <<storeVars, requests_, trace_, boundary>>

NoPhase == -1

-----------------------------------------------------------------------------
(* Requests and sets of a trace.                                               *)

RequestsOf(events) ==
  FoldLeft(LAMBDA seq, e : IF e[1] = "REQUEST" THEN Append(seq, e[2]) ELSE seq, <<>>, events)

\* Mutant: what was inserted stays.
ResidentEver(events) ==
  {e[2] : e \in {x \in Range(events) : x[1] \in {"INSERT", "LEASE_ACQUIRE"}}}

\* What is resident after some events; clear leaves no event.
ResidentAfter(events) ==
  FoldLeft(LAMBDA res, e : CASE e[1] \in {"INSERT", "LEASE_ACQUIRE"} -> res \cup {e[2]}
                             [] e[1] = "EVICT" -> res \ {e[2]}
                             [] OTHER -> res, {}, events)

\* Mutant: what is resident may not be evicted, leased or not.
PinnedResident(s) == s.resident

\* What may not be evicted.
Pinned(s) == {t \in s.resident : s.leases[t] # 0}

\* One event: what is resident, its leases, and for each request what was pinned.
Tell(s, e) ==
  CASE e[1] = "REQUEST" -> [s EXCEPT !.active = Append(@, Pinned(s))]
    [] e[1] = "INSERT" -> [s EXCEPT !.resident = @ \cup {e[2]}]
    [] e[1] = "EVICT" -> [s EXCEPT !.resident = @ \ {e[2]}, !.leases[e[2]] = 0]
    [] e[1] = "LEASE_ACQUIRE" -> [s EXCEPT !.resident = @ \cup {e[2]}, !.leases[e[2]] = @ + 1]
    [] e[1] = "LEASE_RELEASE" /\ s.leases[e[2]] # 0 -> [s EXCEPT !.leases[e[2]] = @ - 1]
    [] OTHER -> s

Told(events) ==
  FoldLeft(Tell, [resident |-> {}, leases |-> [t \in Tensors |-> 0], active |-> <<>>], events)

ActiveSets(events) == Told(events).active

NoneActive(events) == [k \in DOMAIN RequestsOf(events) |-> {}]

-----------------------------------------------------------------------------
(* Replay of a flat store.                                                     *)

Never == 1000      \* position of a use that does not come (10**9)

\* The next request of t after index i.
NextUse(seq, i, t) ==
  LET later == {j \in (i + 1)..Len(seq) : seq[j] = t}
  IN  IF later = {} THEN Never ELSE Min(later)

\* State of a replay: per resident tensor its last use and count, and totals.
Fresh(capacity) ==
  [capacity |-> capacity, res |-> <<>>, hits |-> 0, evictions |-> 0,
   loads |-> 0, reloads |-> 0, bytes |-> 0, again |-> 0, loaded |-> {}, seen |-> {}]

\* The score of cost-aware as a fraction <<n, d>>: nine parts requests for each
\* byte, one part recency, each relative to the best candidate.
Score(seq, i, s, among, t) ==
  LET asked(u) == Cardinality({j \in 1..i : seq[j] = u})
      age(u) == i - s.res[u].last + 1
      denser(u, v) == asked(u) * Bytes[v] >= asked(v) * Bytes[u]
      dense == CHOOSE u \in among : \A v \in among : denser(u, v)
      young == Min({age(u) : u \in among})
  IN  <<9 * asked(t) * Bytes[dense] * age(t) + young * Bytes[t] * asked(dense),
        Bytes[t] * asked(dense) * age(t)>>

\* Whether u goes before v; ties go to the smaller tensor, for min the larger.
Before(policy, seq, i, s, among, u, v) ==
  LET key(t) == CASE policy = "min" -> <<-NextUse(seq, i, t), -t>>
                  [] policy = "lfu" -> <<s.res[t].count, s.res[t].last, t>>
                  [] OTHER -> <<s.res[t].last, t>>
      su == Score(seq, i, s, among, u)
      sv == Score(seq, i, s, among, v)
      smaller(a, b) ==
        \E k \in DOMAIN a : a[k] < b[k] /\ \A j \in 1..(k - 1) : a[j] = b[j]
  IN  IF policy = "cost-aware" THEN smaller(<<su[1] * sv[2], u>>, <<sv[1] * su[2], v>>)
      ELSE smaller(key(u), key(v))

\* The candidates that stay once there is room for bytes, or none is left.
Kept(policy, seq, i, s, pinned, size) ==
  LET resident == DOMAIN s.res
      victim(among) == CHOOSE u \in among :
                         \A v \in among \ {u} : Before(policy, seq, i, s, among, u, v)
      kept[among \in SUBSET (resident \ pinned)] ==
        IF among = {} \/ SizeOf(among \cup (resident \cap pinned)) + size <= s.capacity
        THEN among ELSE kept[among \ {victim(among)}]
  IN  kept[resident \ pinned] \cup (resident \cap pinned)

With(entries, t, entry) == [u \in DOMAIN entries \cup {t} |-> IF u = t THEN entry ELSE entries[u]]

\* One request.  What does not fit is left out after the evictions for it.
Use(s, t, i) ==
  [s EXCEPT !.hits = @ + 1, !.res[t] = [last |-> i, count |-> @.count + 1]]

Load(s, t, again) ==
  [s EXCEPT !.seen = @ \cup {t}, !.loads = @ + 1, !.bytes = @ + Bytes[t],
            !.reloads = @ + (IF again THEN 1 ELSE 0),
            !.again = @ + (IF again THEN Bytes[t] ELSE 0)]

Keep(s, stay) ==
  [s EXCEPT !.res = [u \in stay |-> s.res[u]],
            !.evictions = @ + Cardinality(DOMAIN s.res \ stay)]

Place(s, t, i) ==
  IF SizeOf(DOMAIN s.res) + Bytes[t] > s.capacity THEN s
  ELSE [Load(s, t, t \in s.seen) EXCEPT
          !.res = With(@, t, [last |-> i, count |-> 1]), !.loaded = @ \cup {i}]

Serve(policy, seq, active, s, i) ==
  IF seq[i] \in DOMAIN s.res THEN Use(s, seq[i], i)
  ELSE IF policy = "admission-repeated" /\ seq[i] \notin s.seen
  THEN Load(s, seq[i], FALSE)
  ELSE Place(Keep(s, Kept(policy, seq, i, s, active[i], Bytes[seq[i]])), seq[i], i)

Simulate(seq, active, capacity, policy) ==
  FoldLeft(LAMBDA s, i : Serve(policy, seq, active, s, i), Fresh(capacity),
           [i \in DOMAIN seq |-> i])

\* What the policy read again at the capacity, what the oracle would have saved
\* of it (negative if it reads more), and what the new policy saves.
Savings(again) ==
  [lru |-> again["lru"], min |-> again["min"], cost |-> again["cost-aware"],
   available |-> again["lru"] - again["min"], saved |-> again["lru"] - again["cost-aware"]]

Again(policies, seq, active, capacity) ==
  [policy \in policies |-> Simulate(seq, active, capacity, policy).again]

Offline(seq, active, capacity) ==
  Savings(Again({"lru", "min", "cost-aware"}, seq, active, capacity))

\* No trace without events; the phase of the second token may be missing.
NoTrace == [events |-> <<>>, phase |-> NoPhase]
ParseTrace(events, phase) == IF events = <<>> THEN NoTrace ELSE [events |-> events, phase |-> phase]

-----------------------------------------------------------------------------
(* Reports.                                                                    *)

\* Consecutive uses of a tensor.
Reuses(seq) ==
  {p \in (DOMAIN seq) \X (DOMAIN seq) :
     /\ p[1] < p[2] /\ seq[p[1]] = seq[p[2]]
     /\ \A k \in (p[1] + 1)..(p[2] - 1) : seq[k] # seq[p[1]]}

\* Mutant: the later use counts among those between.
ReuseRowsClosed(seq, loaded) ==
  {[from |-> p[1], to |-> p[2], between |-> {seq[k] : k \in (p[1] + 1)..p[2]},
    reload |-> p[2] \in loaded] : p \in Reuses(seq)}

\* Each with the distinct tensors requested between.
ReuseRows(seq, loaded) ==
  {[from |-> p[1], to |-> p[2], between |-> {seq[k] : k \in (p[1] + 1)..(p[2] - 1)},
    reload |-> p[2] \in loaded] : p \in Reuses(seq)}

\* Per class: requests, those not loaded, and loads of a tensor requested before.
ClassRow(seq, loaded, class) ==
  LET of == {i \in DOMAIN seq : Class[seq[i]] = class}
      again == {i \in of \cap loaded : \E j \in 1..(i - 1) : seq[j] = seq[i]}
  IN  [requests |-> Cardinality(of), hits |-> Cardinality(of \ loaded),
       unique |-> {seq[i] : i \in of}, reloads |-> Cardinality(again),
       bytes |-> MapThenSumSet(LAMBDA i : Bytes[seq[i]], again)]

\* The events of a phase, up to the next phase or the end.
PhaseEvents(events, from, next) ==
  SubSeq(events, from + 1, IF next = NoPhase THEN Len(events) ELSE next)

Used(events) == {e[2] : e \in {x \in Range(events) : x[1] = "REQUEST"}}

\* Of what both tokens use: what was still resident between them, and what the
\* second token had to read again; and what was kept for nothing.
Shared(token0, token1, resident) ==
  LET reusable == Used(token0) \cap Used(token1)
  IN  [reusable |-> reusable, retained |-> reusable \cap resident,
       reloaded |-> reusable \cap {e[2] : e \in {x \in Range(token1) : x[1] = "MATERIALIZE"}},
       dead |-> resident \ Used(token1)]

Retention(events, begin) ==
  Shared(PhaseEvents(events, 0, begin), PhaseEvents(events, begin, NoPhase),
         ResidentAfter(PhaseEvents(events, 0, begin)))

\* The report of a trace at one capacity, and both policies over a sweep of them.
ReportOf(seq, baseline, minimum, runs) ==
  [baseline |-> baseline, min |-> minimum, avoidable |-> baseline.again - minimum.again,
   sweep |-> runs, reuse |-> ReuseRows(seq, baseline.loaded),
   classes |-> [c \in {Class[seq[i]] : i \in DOMAIN seq} |-> ClassRow(seq, baseline.loaded, c)]]

ReportFor(seq, active, capacity, sweep) ==
  ReportOf(seq, Simulate(seq, active, capacity, "lru"), Simulate(seq, active, capacity, "min"),
           [c \in sweep, p \in {"lru", "min"} |-> Simulate(seq, active, c, p)])

Report(events, capacity, sweep) ==
  ReportFor(RequestsOf(events), ActiveSets(events), capacity, sweep)

\* Evictions of what is requested again later, and of what is not.
EvictionQuality(events) ==
  LET evicted == {i \in DOMAIN events : events[i][1] = "EVICT"}
      again(i) == \E j \in (i + 1)..Len(events) : events[j] = <<"REQUEST", events[i][2]>>
  IN  [reused |-> Cardinality({i \in evicted : again(i)}),
       never |-> Cardinality({i \in evicted : ~ again(i)})]

-----------------------------------------------------------------------------
(* Replay of two tiers.  hot and warm are the counters the script keeps.       *)

Tiers == [entries |-> <<>>, hot |-> 0, warm |-> 0, hotPeak |-> 0, warmPeak |-> 0,
          misses |-> 0, promoted |-> 0, demoted |-> 0]

InTier(s, tier) == {t \in DOMAIN s.entries : s.entries[t].tier = tier}

Oldest(s, tier) ==
  CHOOSE t \in InTier(s, tier) :
    \A u \in InTier(s, tier) : s.entries[t].last <= s.entries[u].last

Times(n) == [i \in 1..n |-> i]

\* Drops the oldest of the warm tier until required fits or none is left.
EvictWarm(s, required) ==
  FoldLeft(LAMBDA st, i :
             IF st.warm + required <= WarmCapacity \/ InTier(st, "WARM") = {} THEN st
             ELSE LET v == Oldest(st, "WARM")
                  IN  [st EXCEPT !.entries = [t \in DOMAIN st.entries \ {v} |-> st.entries[t]],
                                 !.warm = @ - Bytes[v]],
           s, Times(Cardinality(Tensors)))

WarmFits(s, required) == s.warm + required <= WarmCapacity

\* Moves the oldest of the hot tier to the warm one until required fits; the
\* warm tier may drop for it the very entry that is about to be promoted.
Moved(w, v) ==
  IF ~ WarmFits(w, Bytes[v]) THEN w
  ELSE [w EXCEPT !.entries[v].tier = "WARM", !.hot = @ - Bytes[v],
                 !.warm = @ + Bytes[v], !.demoted = @ + 1]

Demote(s, v) == Moved(EvictWarm(s, Bytes[v]), v)

MakeHotRoom(s, required) ==
  FoldLeft(LAMBDA st, i :
             IF st.hot + required <= HotCapacity \/ InTier(st, "HOT") = {} THEN st
             ELSE Demote(st, Oldest(st, "HOT")),
           s, Times(Cardinality(Tensors)))

OldAfterReuses == 2

Touched(s, t, i) ==
  [s EXCEPT !.entries[t].count = @ + 1, !.entries[t].last = i]

PutHot(room, t) ==
  IF room.hot + Bytes[t] > HotCapacity THEN room
  ELSE [room EXCEPT
          !.entries = IF t \in DOMAIN @ THEN [@ EXCEPT ![t].tier = "HOT"] ELSE @,
          !.warm = @ - Bytes[t], !.hot = @ + Bytes[t], !.promoted = @ + 1]

Promote(s, t) == PutHot(MakeHotRoom(s, Bytes[t]), t)

PutWarm(room, t, i) ==
  IF ~ WarmFits(room, Bytes[t]) THEN room
  ELSE [room EXCEPT !.warm = @ + Bytes[t],
          !.entries = With(@, t, [tier |-> "WARM", count |-> 1, last |-> i])]

Admit(s, t, i) ==
  PutWarm(EvictWarm([s EXCEPT !.misses = @ + 1], Bytes[t]), t, i)

Peaks(s) ==
  [s EXCEPT !.hotPeak = IF @ < s.hot THEN s.hot ELSE @,
            !.warmPeak = IF @ < s.warm THEN s.warm ELSE @]

Reused(s, t) ==
  IF s.entries[t].count > OldAfterReuses /\ s.entries[t].tier = "WARM"
  THEN Promote(s, t) ELSE s

ServeTiers(s, t, i) ==
  Peaks(IF t \in DOMAIN s.entries THEN Reused(Touched(s, t, i), t) ELSE Admit(s, t, i))

RunTiered(seq) ==
  FoldLeft(LAMBDA s, i : ServeTiers(s, seq[i], i), Tiers, Times(Len(seq)))

\* The flat store of one capacity against the two tiers; its peak is its capacity.
Compared(flat, tiered) ==
  [flat |-> [misses |-> flat.loads, hits |-> flat.hits, hotPeak |-> HotCapacity, warmPeak |-> 0],
   tiered |-> tiered]

TieredResults(seq) ==
  Compared(Simulate(seq, [i \in DOMAIN seq |-> {}], HotCapacity, "lru"), RunTiered(seq))

-----------------------------------------------------------------------------
(* The program that leaves the trace: one session, whose waves ask for tensors *)
(* ahead of their use, obtain them one by one and release them in any order,   *)
(* and which begins its second token once.  The materializer behind it reads   *)
(* one tensor at a time, since callers give it the size of a tensor as budget. *)

ReplayInit ==
  StoreInit /\ requests_ = [t \in Tensors |-> "none"] /\ trace_ = <<>> /\ boundary = NoPhase

Emits(events) == trace_' = trace_ \o events

Evicted(ev) == [i \in 1..Cardinality(ev) |-> <<"EVICT", SetToSeq(ev)[i]>>]

Count(kind) == Cardinality({i \in DOMAIN trace_ : trace_[i][1] = kind})

\* Bounded: requests, and tensors obtained without one.
Uses == Count("LEASE_ACQUIRE") - Count("INSERT") + Count("MISS")

Becomes(t, state) == requests_' = [requests_ EXCEPT ![t] = state] /\ UNCHANGED boundary

Held == {t \in Tensors : requests_[t] # "none"}

\* The budget is taken until what was read for t is released.
Busy == \E t \in Tensors : requests_[t] \in {"reading", "read"}

Asks(t) ==
  /\ Uses < MaxRequests
  /\ Cardinality(Held \cup {t}) <= MaxHeld
  /\ last_request_' = AskedLast(t)
  /\ UNCHANGED <<entries_, resident_bytes_>>

\* Resident: leased from now on.
RequestHit(t) ==
  /\ Asks(t) /\ requests_[t] = "none" /\ t \in entries_
  /\ active_leases' = [active_leases EXCEPT ![t] = @ + 1]
  /\ Emits(<<<<"REQUEST", t>>, <<"LEASE_ACQUIRE", t>>>>)
  /\ Becomes(t, "leased")

\* Not resident: read if the budget is free, else refused, to be asked for again.
RequestMiss(t) ==
  /\ Asks(t) /\ requests_[t] \in {"none", "refused"} /\ t \notin entries_
  /\ Emits(<<<<"REQUEST", t>>, <<"MISS", t>>>>)
  /\ Becomes(t, IF Busy THEN "refused" ELSE "reading")
  /\ UNCHANGED active_leases

\* obtain_ready_tensor of what was read: the store drops ev, then keeps t or not.
Obtains(t, ev, outcome) ==
  /\ requests_[t] = "reading" /\ Becomes(t, "read")
  /\ Emits(<<<<"MATERIALIZE", t>>>> \o Evicted(ev) \o outcome)
  /\ resident_bytes_' = SizeOf(entries_')
  /\ UNCHANGED last_request_

\* Inserted after evictions, and leased.
ObtainKept(t) ==
  \E ev \in Evictions(t) :
    /\ Bytes[t] <= MaxBytes /\ resident_bytes_ - SizeOf(ev) + Bytes[t] <= MaxBytes
    /\ entries_' = (entries_ \ ev) \cup {t}
    /\ active_leases' = [active_leases EXCEPT ![t] = @ + 1]
    /\ Obtains(t, ev, <<<<"INSERT", t>>, <<"LEASE_ACQUIRE", t>>>>)

\* Refused by the store, at once or after evictions, and used without it.
ObtainUnkept(t) ==
  \E ev \in {{}, Candidates} :
    /\ IF Bytes[t] > MaxBytes THEN ev = {}
       ELSE ev = Candidates /\ resident_bytes_ - SizeOf(ev) + Bytes[t] > MaxBytes
    /\ entries_' = entries_ \ ev
    /\ Obtains(t, ev, <<<<"INSERT_REJECTED", t>>>>) /\ UNCHANGED active_leases

\* obtain_ready_tensor of what is resident and was not asked for.
ObtainUnasked(t) ==
  /\ requests_[t] = "none" /\ Cardinality(Held) < MaxHeld
  /\ Uses < MaxRequests
  /\ Acquire(t)
  /\ Emits(<<<<"LEASE_ACQUIRE", t>>>>) /\ Becomes(t, "leased")

GiveBack(t) ==
  /\ requests_[t] \in {"read", "leased"} /\ Becomes(t, "none")
  /\ IF active_leases[t] > 0 THEN Release(t) /\ Emits(<<<<"LEASE_RELEASE", t>>>>)
     ELSE UNCHANGED <<storeVars, trace_>>

SecondToken ==
  /\ boundary = NoPhase /\ Held = {} /\ trace_ # <<>>
  /\ boundary' = Len(trace_)
  /\ UNCHANGED <<storeVars, requests_, trace_>>

ReplayNext ==
  \/ \E t \in Tensors :
       \/ RequestHit(t) \/ RequestMiss(t)
       \/ ObtainKept(t) \/ ObtainUnkept(t) \/ ObtainUnasked(t) \/ GiveBack(t)
  \/ SecondToken

ReplaySpec == ReplayInit /\ [][ReplayNext]_replayVars

-----------------------------------------------------------------------------
(* Properties.                                                                 *)

Seen == RequestsOf(trace_)
Fits == \A t \in Range(Seen) : Bytes[t] <= MaxBytes

\* What the trace has leased after i events, and the events from the miss at event
\* i until its tensor is read.
LeasedAfter(i) == {t \in Tensors : Told(SubSeq(trace_, 1, i)).leases[t] # 0}
Pending(i) == {k \in i..Len(trace_) : \A j \in i..k : trace_[j] # <<"MATERIALIZE", trace_[i][2]>>}

\* What misses may be read much later, after other requests and after being
\* refused.  Nothing comes of the delay if nothing is leased where it begins and
\* ends, and all requests meanwhile miss, too, and fit the store together.
Undisturbed ==
  /\ \A i \in DOMAIN trace_ : trace_[i][1] \in {"MISS", "MATERIALIZE"} => LeasedAfter(i) = {}
  /\ \A i \in DOMAIN trace_ : trace_[i][1] = "MISS" =>
       /\ \A k \in Pending(i) : trace_[k][1] = "REQUEST" => trace_[k + 1][1] = "MISS"
       /\ SizeOf({trace_[k][2] : k \in {j \in Pending(i) : trace_[j][1] = "MISS"}}) <= MaxBytes

\* At rest, and as long as the delays of reads disturb nothing, the replay of the
\* store's own policy over every request, the repeated ones too, keeps, loads and
\* evicts exactly what the store did; its hits are the requests that led to no
\* insertion of their own, so not the lookups that hit (simulate, active_sets).
ReplayIsRuntime ==
  Policy = "LRU" /\ Held = {} /\ Undisturbed =>
    \A lru \in {Simulate(Seen, ActiveSets(trace_), MaxBytes, "lru")} :
      /\ DOMAIN lru.res = entries_
      /\ lru.evictions = Count("EVICT") /\ lru.loads = Count("INSERT")
      /\ lru.hits = Len(Seen) - Count("INSERT")
      /\ lru.reloads = Count("INSERT") - Cardinality({e \in Range(trace_) : e[1] = "INSERT"})

\* Where the requested tensors have one size and none is leased, the oracle reads
\* no more again than the policies it is the bound of (available, saved), and no
\* policy of the sweep reads more when it has more room.
OneSize == \A s, t \in Range(Seen) : Bytes[s] = Bytes[t]

OracleIsABound ==
  Held = {} /\ OneSize =>
    \A seq \in {Seen}, none \in {NoneActive(trace_)} :
      \A offline \in {Offline(seq, none, MaxBytes)},
         now \in {Again({"lru", "min", "lfu"}, seq, none, MaxBytes)},
         more \in {Again({"lru", "min"}, seq, none, MaxBytes + 1)} :
        /\ offline.available >= 0 /\ offline.saved <= offline.available
        /\ now["lfu"] >= offline.min
        /\ Fits => \A policy \in DOMAIN more : more[policy] <= now[policy]

\* Without leases a tensor is read again exactly when it and what was requested
\* since its last use exceed the capacity: reuse distance alone decides, which
\* the report's causes are read from (reuse_report).
DistanceDecides ==
  Held = {} /\ Fits =>
    \A seq \in {Seen} :
      \A row \in ReuseRows(seq, Simulate(seq, NoneActive(trace_), MaxBytes, "lru").loaded) :
        row.reload <=> Bytes[seq[row.to]] + SizeOf(row.between) > MaxBytes

\* Over three runs of the program the hot tier holds no more than its counter says,
\* neither counter exceeds its capacity, and both together are what the tiers hold:
\* a promotion that drops the promoted entry mistakes the tier, not the sum.
TiersAddUp ==
  \A tiers \in {TieredResults(Seen \o Seen \o Seen).tiered} :
    /\ SizeOf(InTier(tiers, "HOT")) <= tiers.hot /\ tiers.hot <= HotCapacity
    /\ tiers.warm <= WarmCapacity
    /\ tiers.hot + tiers.warm = SizeOf(InTier(tiers, "HOT")) + SizeOf(InTier(tiers, "WARM"))

\* Each tier's counter is what that tier holds: "Promotion and demotion are explicit,
\* immutable-weight transfers with separately accounted bytes"
\* (architecture-audit.md of POC18; run_tiered).
TiersAreTheirOwn ==
  \A tiers \in {TieredResults(Seen \o Seen \o Seen).tiered} :
    tiers.hot = SizeOf(InTier(tiers, "HOT")) /\ tiers.warm = SizeOf(InTier(tiers, "WARM"))

\* Where the replay leaves nothing out, classes partition its reloads, each of
\* which is a pair of uses; where delays disturb nothing, these are the store's
\* evictions of what is asked for again (class_report, eviction_quality).
ReloadsAgree ==
  Held = {} =>
    \A report \in {Report(trace_, MaxBytes, {})}, quality \in {EvictionQuality(trace_)} :
      /\ report.baseline.hits + report.baseline.loads = Len(Seen) =>
           /\ MapThenSumSet(LAMBDA c : report.classes[c].reloads, DOMAIN report.classes)
                = report.baseline.reloads
           /\ MapThenSumSet(LAMBDA c : report.classes[c].bytes, DOMAIN report.classes)
                = report.baseline.again
           /\ Cardinality({row \in report.reuse : row.reload}) = report.baseline.reloads
      /\ Undisturbed =>
           /\ quality.reused = report.baseline.reloads
           /\ quality.reused + quality.never = report.baseline.evictions

\* What a replay reads again is accounted for: the oracle bounds it, more room
\* never makes it worse, distance decides it, classes and evictions add up to it,
\* and so do two tiers.
ReloadsAreAccounted == OracleIsABound /\ DistanceDecides /\ TiersAddUp /\ ReloadsAgree

\* What the second token shares with the first was still resident between them or
\* was read again, and what was resident and read again had been evicted; so the
\* retained and the repeated bytes of the report are about the store's own
\* evictions (retention).
RetentionAgrees ==
  \A trace \in {ParseTrace(trace_, boundary)} :
    trace.phase # NoPhase =>
      \A kept \in {Retention(trace.events, trace.phase)} :
        /\ Held = {} => kept.reusable \ kept.retained \subseteq kept.reloaded
        /\ \A t \in kept.retained \cap kept.reloaded :
             \E i \in (boundary + 1)..Len(trace_) : trace_[i] = <<"EVICT", t>>
=============================================================================
