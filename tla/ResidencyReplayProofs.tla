------------------------ MODULE ResidencyReplayProofs --------------------------
(* Theorems about ResidencyReplay for any tensors, sizes, budgets and lengths  *)
(* of the trace: what the trace says of the store is what the store did.       *)
EXTENDS ResidencyReplay, CountingLemmas, SequenceTheorems, TLAPS

Kinds == {"REQUEST", "MISS", "MATERIALIZE", "EVICT", "INSERT", "INSERT_REJECTED",
          "LEASE_ACQUIRE", "LEASE_RELEASE"}

Event == Kinds \X Tensors

-----------------------------------------------------------------------------
(* The folds over a trace: what one more event makes of each.                  *)

AskedStep(seq, e) == IF e[1] = "REQUEST" THEN Append(seq, e[2]) ELSE seq

ResidentStep(res, e) ==
  CASE e[1] \in {"INSERT", "LEASE_ACQUIRE"} -> res \cup {e[2]}
    [] e[1] = "EVICT" -> res \ {e[2]}
    [] OTHER -> res

ToldState == [resident : SUBSET Tensors, leases : [Tensors -> Nat], active : Seq(SUBSET Tensors)]
Untold == [resident |-> {}, leases |-> [t \in Tensors |-> 0], active |-> <<>>]

AskedSteps(tr) == [k \in 1..Len(tr) |-> [v \in Seq(Tensors) |-> AskedStep(v, tr[k])]]
ResidentSteps(tr) == [k \in 1..Len(tr) |-> [v \in SUBSET Tensors |-> ResidentStep(v, tr[k])]]
ToldSteps(tr) == [k \in 1..Len(tr) |-> [v \in ToldState |-> Tell(v, tr[k])]]

\* What was told stays of its kind.
LEMMA TellKeeps ==
  ASSUME NEW s \in ToldState, NEW e \in Event
  PROVE  Tell(s, e) \in ToldState
<1> USE DEF ToldState
<1>1. e[2] \in Tensors /\ Pinned(s) \in SUBSET Tensors
  BY DEF Event, Pinned
<1>2. CASE e[1] = "REQUEST"
  BY <1>1, <1>2 DEF Tell
<1>3. CASE e[1] = "INSERT"
  BY <1>1, <1>3 DEF Tell
<1>4. CASE e[1] = "EVICT"
  <2>1. [s.leases EXCEPT ![e[2]] = 0] \in [Tensors -> Nat] /\ s.resident \ {e[2]} \in SUBSET Tensors
    BY <1>1
  <2> QED
    BY <1>4, <2>1 DEF Tell
<1>5. CASE e[1] = "LEASE_ACQUIRE"
  <2>1. /\ [s.leases EXCEPT ![e[2]] = @ + 1] \in [Tensors -> Nat]
        /\ s.resident \cup {e[2]} \in SUBSET Tensors
    BY <1>1
  <2> QED
    BY <1>5, <2>1 DEF Tell
<1>6. CASE e[1] = "LEASE_RELEASE" /\ s.leases[e[2]] # 0
  <2>1. [s.leases EXCEPT ![e[2]] = @ - 1] \in [Tensors -> Nat]
    BY <1>1, <1>6
  <2> QED
    BY <1>6, <2>1 DEF Tell
<1>7. CASE /\ e[1] \notin {"REQUEST", "INSERT", "EVICT", "LEASE_ACQUIRE"}
           /\ ~ (e[1] = "LEASE_RELEASE" /\ s.leases[e[2]] # 0)
  BY <1>7 DEF Tell
<1> QED
  BY <1>2, <1>3, <1>4, <1>5, <1>6, <1>7

LEMMA AskedRuns ==
  ASSUME NEW tr \in Seq(Event)
  PROVE  \E r : Runs(r, Len(tr), Seq(Tensors), <<>>, AskedSteps(tr)) /\ r[Len(tr)] = RequestsOf(tr)
<1> DEFINE n == Len(tr)
           is(f) == f = [s \in SUBSET (DOMAIN tr) |->
                           IF s = {} THEN <<>> ELSE AskedStep(f[s \ {Max(s)}], tr[Max(s)])]
           f == CHOOSE g : is(g)
<1>1. /\ n \in Nat /\ DOMAIN tr = 1..n /\ <<>> \in Seq(Tensors)
      /\ \A k \in 1..n : tr[k] \in Event
  OBVIOUS
<1>2. Steps(1..n, Seq(Tensors), AskedSteps(tr))
  <2>1. ASSUME NEW k \in 1..n, NEW v \in Seq(Tensors) PROVE AskedStep(v, tr[k]) \in Seq(Tensors)
    BY <1>1 DEF AskedStep, Event
  <2> QED
    BY <2>1 DEF Steps, AskedSteps
<1> HIDE DEF n
<1>3. PICK g : FoldsOn(g, 1..n, Seq(Tensors), <<>>, Latest(n), AskedSteps(tr))
  <2> DEFINE V == Seq(Tensors)
             base == <<>>
  <2>1. n \in Nat /\ base \in V /\ Steps(1..n, V, AskedSteps(tr))
    BY <1>1, <1>2
  <2> HIDE DEF V, base
  <2>2. \E g : FoldsOn(g, 1..n, V, base, Latest(n), AskedSteps(tr))
    BY <2>1, FoldFinds
  <2> QED
    BY <2>2 DEF V, base
<1>4. \A s \in SUBSET (1..n) : s # {} => Max(s) \in s /\ Latest(n)[s] = Max(s)
  BY <1>1, LatestPicks DEF Picks, Latest
<1>5. ASSUME NEW s \in SUBSET (1..n), s # {}
      PROVE  \A v \in Seq(Tensors) : AskedSteps(tr)[Max(s)][v] = AskedStep(v, tr[Max(s)])
  BY <1>4, <1>5 DEF AskedSteps, n
<1>6. is(g)
  <2>1. g = [s \in SUBSET (1..n) |-> g[s]] /\ g[{}] = <<>>
    BY <1>3 DEF FoldsOn, Folds, FoldStep
  <2>2. ASSUME NEW s \in SUBSET (1..n), s # {} PROVE g[s] = AskedStep(g[s \ {Max(s)}], tr[Max(s)])
    <3>1. g[s] = AskedSteps(tr)[Max(s)][g[s \ {Max(s)}]]
      BY <1>3, <1>4, <2>2 DEF FoldsOn, Folds, FoldStep
    <3>2. g[s \ {Max(s)}] \in Seq(Tensors)
      BY <1>3 DEF FoldsOn
    <3> QED
      BY <1>5, <2>2, <3>1, <3>2
  <2> QED
    BY <1>1, <2>1, <2>2
<1>7. is(f)
  BY <1>6
<1>8. RequestsOf(tr) = f[DOMAIN tr]
  BY DEF RequestsOf, FoldLeft, MapThenFoldSet, AskedStep
<1> HIDE DEF f
<1>9. FoldsWithin(f, n, Seq(Tensors), <<>>, AskedSteps(tr))
  <2>1. f[{}] = <<>>
    BY <1>7
  <2>2. ASSUME NEW s \in SUBSET (1..n), s # {} PROVE f[s] = AskedStep(f[s \ {Max(s)}], tr[Max(s)])
    BY <1>1, <1>7, <2>2
  <2> QED
    BY <1>5, <2>1, <2>2 DEF FoldsWithin
<1>10. \E r : Runs(r, n, Seq(Tensors), <<>>, AskedSteps(tr)) /\ r[n] = f[1..n]
  <2> DEFINE V == Seq(Tensors)
             base == <<>>
  <2>1. n \in Nat /\ base \in V /\ Steps(1..n, V, AskedSteps(tr)) /\ FoldsWithin(f, n, V, base, AskedSteps(tr))
    BY <1>1, <1>2, <1>9
  <2> HIDE DEF V, base
  <2>2. \E r : Runs(r, n, V, base, AskedSteps(tr)) /\ r[n] = f[1..n]
    BY <2>1, FoldRuns
  <2> QED
    BY <2>2 DEF V, base
<1> QED
  BY <1>1, <1>8, <1>10 DEF n

LEMMA AskedAppends ==
  ASSUME NEW tr \in Seq(Event), NEW e \in Event
  PROVE  RequestsOf(tr) \in Seq(Tensors) /\ RequestsOf(Append(tr, e)) = AskedStep(RequestsOf(tr), e)
<1> DEFINE n == Len(tr)
           longer == Append(tr, e)
<1>1. n \in Nat /\ longer \in Seq(Event) /\ Len(longer) = n + 1 /\ longer[n + 1] = e
      /\ \A k \in 1..n : longer[k] = tr[k]
  OBVIOUS
<1>2. PICK r : Runs(r, n, Seq(Tensors), <<>>, AskedSteps(tr)) /\ r[n] = RequestsOf(tr)
  BY AskedRuns
<1>3. PICK q : Runs(q, n + 1, Seq(Tensors), <<>>, AskedSteps(longer)) /\ q[n + 1] = RequestsOf(longer)
  BY <1>1, AskedRuns
<1>4. SameSteps(n, Seq(Tensors), AskedSteps(tr), AskedSteps(longer))
  BY <1>1 DEF AskedSteps, SameSteps
<1>5. \A v \in Seq(Tensors) : AskedSteps(longer)[n + 1][v] = AskedStep(v, e)
  BY <1>1 DEF AskedSteps
<1> HIDE DEF n, longer
<1>6. r[n] \in Seq(Tensors) /\ q[n + 1] = AskedSteps(longer)[n + 1][r[n]]
  <2> DEFINE V == Seq(Tensors)
             base == <<>>
             m == n + 1
  <2>1. /\ n \in Nat /\ m = n + 1 /\ SameSteps(n, V, AskedSteps(tr), AskedSteps(longer))
        /\ Runs(r, n, V, base, AskedSteps(tr)) /\ Runs(q, m, V, base, AskedSteps(longer))
    BY <1>1, <1>2, <1>3, <1>4
  <2> HIDE DEF V, base, m
  <2>2. r[n] \in V /\ q[m] = AskedSteps(longer)[m][r[n]]
    BY <2>1, RunsExtend
  <2> QED
    BY <2>2 DEF V, m
<1> QED
  BY <1>2, <1>3, <1>5, <1>6 DEF longer

LEMMA ResidentRuns ==
  ASSUME NEW tr \in Seq(Event)
  PROVE  \E r : Runs(r, Len(tr), SUBSET Tensors, {}, ResidentSteps(tr)) /\ r[Len(tr)] = ResidentAfter(tr)
<1> DEFINE n == Len(tr)
           is(f) == f = [s \in SUBSET (DOMAIN tr) |->
                           IF s = {} THEN {} ELSE ResidentStep(f[s \ {Max(s)}], tr[Max(s)])]
           f == CHOOSE g : is(g)
<1>1. /\ n \in Nat /\ DOMAIN tr = 1..n /\ {} \in SUBSET Tensors
      /\ \A k \in 1..n : tr[k] \in Event
  OBVIOUS
<1>2. Steps(1..n, SUBSET Tensors, ResidentSteps(tr))
  <2>1. ASSUME NEW k \in 1..n, NEW v \in SUBSET Tensors PROVE ResidentStep(v, tr[k]) \in SUBSET Tensors
    BY <1>1 DEF ResidentStep, Event
  <2> QED
    BY <2>1 DEF Steps, ResidentSteps
<1> HIDE DEF n
<1>3. PICK g : FoldsOn(g, 1..n, SUBSET Tensors, {}, Latest(n), ResidentSteps(tr))
  <2> DEFINE V == SUBSET Tensors
             base == {}
  <2>1. n \in Nat /\ base \in V /\ Steps(1..n, V, ResidentSteps(tr))
    BY <1>1, <1>2
  <2> HIDE DEF V, base
  <2>2. \E g : FoldsOn(g, 1..n, V, base, Latest(n), ResidentSteps(tr))
    BY <2>1, FoldFinds
  <2> QED
    BY <2>2 DEF V, base
<1>4. \A s \in SUBSET (1..n) : s # {} => Max(s) \in s /\ Latest(n)[s] = Max(s)
  BY <1>1, LatestPicks DEF Picks, Latest
<1>5. ASSUME NEW s \in SUBSET (1..n), s # {}
      PROVE  \A v \in SUBSET Tensors : ResidentSteps(tr)[Max(s)][v] = ResidentStep(v, tr[Max(s)])
  BY <1>4, <1>5 DEF ResidentSteps, n
<1>6. is(g)
  <2>1. g = [s \in SUBSET (1..n) |-> g[s]] /\ g[{}] = {}
    BY <1>3 DEF FoldsOn, Folds, FoldStep
  <2>2. ASSUME NEW s \in SUBSET (1..n), s # {} PROVE g[s] = ResidentStep(g[s \ {Max(s)}], tr[Max(s)])
    <3>1. g[s] = ResidentSteps(tr)[Max(s)][g[s \ {Max(s)}]]
      BY <1>3, <1>4, <2>2 DEF FoldsOn, Folds, FoldStep
    <3>2. g[s \ {Max(s)}] \in SUBSET Tensors
      BY <1>3 DEF FoldsOn
    <3> QED
      BY <1>5, <2>2, <3>1, <3>2
  <2> QED
    BY <1>1, <2>1, <2>2
<1>7. is(f)
  BY <1>6
<1>8. ResidentAfter(tr) = f[DOMAIN tr]
  BY DEF ResidentAfter, FoldLeft, MapThenFoldSet, ResidentStep
<1> HIDE DEF f
<1>9. FoldsWithin(f, n, SUBSET Tensors, {}, ResidentSteps(tr))
  <2>1. f[{}] = {}
    BY <1>7
  <2>2. ASSUME NEW s \in SUBSET (1..n), s # {} PROVE f[s] = ResidentStep(f[s \ {Max(s)}], tr[Max(s)])
    BY <1>1, <1>7, <2>2
  <2> QED
    BY <1>5, <2>1, <2>2 DEF FoldsWithin
<1>10. \E r : Runs(r, n, SUBSET Tensors, {}, ResidentSteps(tr)) /\ r[n] = f[1..n]
  <2> DEFINE V == SUBSET Tensors
             base == {}
  <2>1. n \in Nat /\ base \in V /\ Steps(1..n, V, ResidentSteps(tr)) /\ FoldsWithin(f, n, V, base, ResidentSteps(tr))
    BY <1>1, <1>2, <1>9
  <2> HIDE DEF V, base
  <2>2. \E r : Runs(r, n, V, base, ResidentSteps(tr)) /\ r[n] = f[1..n]
    BY <2>1, FoldRuns
  <2> QED
    BY <2>2 DEF V, base
<1> QED
  BY <1>1, <1>8, <1>10 DEF n

LEMMA ResidentAppends ==
  ASSUME NEW tr \in Seq(Event), NEW e \in Event
  PROVE  ResidentAfter(tr) \in SUBSET Tensors /\ ResidentAfter(Append(tr, e)) = ResidentStep(ResidentAfter(tr), e)
<1> DEFINE n == Len(tr)
           longer == Append(tr, e)
<1>1. n \in Nat /\ longer \in Seq(Event) /\ Len(longer) = n + 1 /\ longer[n + 1] = e
      /\ \A k \in 1..n : longer[k] = tr[k]
  OBVIOUS
<1>2. PICK r : Runs(r, n, SUBSET Tensors, {}, ResidentSteps(tr)) /\ r[n] = ResidentAfter(tr)
  BY ResidentRuns
<1>3. PICK q : Runs(q, n + 1, SUBSET Tensors, {}, ResidentSteps(longer)) /\ q[n + 1] = ResidentAfter(longer)
  BY <1>1, ResidentRuns
<1>4. SameSteps(n, SUBSET Tensors, ResidentSteps(tr), ResidentSteps(longer))
  BY <1>1 DEF ResidentSteps, SameSteps
<1>5. \A v \in SUBSET Tensors : ResidentSteps(longer)[n + 1][v] = ResidentStep(v, e)
  BY <1>1 DEF ResidentSteps
<1> HIDE DEF n, longer
<1>6. r[n] \in SUBSET Tensors /\ q[n + 1] = ResidentSteps(longer)[n + 1][r[n]]
  <2> DEFINE V == SUBSET Tensors
             base == {}
             m == n + 1
  <2>1. /\ n \in Nat /\ m = n + 1 /\ SameSteps(n, V, ResidentSteps(tr), ResidentSteps(longer))
        /\ Runs(r, n, V, base, ResidentSteps(tr)) /\ Runs(q, m, V, base, ResidentSteps(longer))
    BY <1>1, <1>2, <1>3, <1>4
  <2> HIDE DEF V, base, m
  <2>2. r[n] \in V /\ q[m] = ResidentSteps(longer)[m][r[n]]
    BY <2>1, RunsExtend
  <2> QED
    BY <2>2 DEF V, m
<1> QED
  BY <1>2, <1>3, <1>5, <1>6 DEF longer

LEMMA ToldRuns ==
  ASSUME NEW tr \in Seq(Event)
  PROVE  \E r : Runs(r, Len(tr), ToldState, Untold, ToldSteps(tr)) /\ r[Len(tr)] = Told(tr)
<1> DEFINE n == Len(tr)
           is(f) == f = [s \in SUBSET (DOMAIN tr) |->
                           IF s = {} THEN Untold ELSE Tell(f[s \ {Max(s)}], tr[Max(s)])]
           f == CHOOSE g : is(g)
<1>1. /\ n \in Nat /\ DOMAIN tr = 1..n /\ Untold \in ToldState
      /\ \A k \in 1..n : tr[k] \in Event
  BY DEF Untold, ToldState
<1>2. Steps(1..n, ToldState, ToldSteps(tr))
  <2>1. ASSUME NEW k \in 1..n, NEW v \in ToldState PROVE Tell(v, tr[k]) \in ToldState
    BY <1>1, TellKeeps
  <2> QED
    BY <2>1 DEF Steps, ToldSteps
<1> HIDE DEF n
<1>3. PICK g : FoldsOn(g, 1..n, ToldState, Untold, Latest(n), ToldSteps(tr))
  <2> DEFINE V == ToldState
             base == Untold
  <2>1. n \in Nat /\ base \in V /\ Steps(1..n, V, ToldSteps(tr))
    BY <1>1, <1>2
  <2> HIDE DEF V, base
  <2>2. \E g : FoldsOn(g, 1..n, V, base, Latest(n), ToldSteps(tr))
    BY <2>1, FoldFinds
  <2> QED
    BY <2>2 DEF V, base
<1>4. \A s \in SUBSET (1..n) : s # {} => Max(s) \in s /\ Latest(n)[s] = Max(s)
  BY <1>1, LatestPicks DEF Picks, Latest
<1>5. ASSUME NEW s \in SUBSET (1..n), s # {}
      PROVE  \A v \in ToldState : ToldSteps(tr)[Max(s)][v] = Tell(v, tr[Max(s)])
  BY <1>4, <1>5 DEF ToldSteps, n
<1>6. is(g)
  <2>1. g = [s \in SUBSET (1..n) |-> g[s]] /\ g[{}] = Untold
    BY <1>3 DEF FoldsOn, Folds, FoldStep
  <2>2. ASSUME NEW s \in SUBSET (1..n), s # {} PROVE g[s] = Tell(g[s \ {Max(s)}], tr[Max(s)])
    <3>1. g[s] = ToldSteps(tr)[Max(s)][g[s \ {Max(s)}]]
      BY <1>3, <1>4, <2>2 DEF FoldsOn, Folds, FoldStep
    <3>2. g[s \ {Max(s)}] \in ToldState
      BY <1>3 DEF FoldsOn
    <3> QED
      BY <1>5, <2>2, <3>1, <3>2
  <2> QED
    BY <1>1, <2>1, <2>2
<1>7. is(f)
  BY <1>6
<1>8. Told(tr) = f[DOMAIN tr]
  BY DEF Told, Untold, FoldLeft, MapThenFoldSet
<1> HIDE DEF f
<1>9. FoldsWithin(f, n, ToldState, Untold, ToldSteps(tr))
  <2>1. f[{}] = Untold
    BY <1>7
  <2>2. ASSUME NEW s \in SUBSET (1..n), s # {} PROVE f[s] = Tell(f[s \ {Max(s)}], tr[Max(s)])
    BY <1>1, <1>7, <2>2
  <2> QED
    BY <1>5, <2>1, <2>2 DEF FoldsWithin
<1>10. \E r : Runs(r, n, ToldState, Untold, ToldSteps(tr)) /\ r[n] = f[1..n]
  <2> DEFINE V == ToldState
             base == Untold
  <2>1. n \in Nat /\ base \in V /\ Steps(1..n, V, ToldSteps(tr)) /\ FoldsWithin(f, n, V, base, ToldSteps(tr))
    BY <1>1, <1>2, <1>9
  <2> HIDE DEF V, base
  <2>2. \E r : Runs(r, n, V, base, ToldSteps(tr)) /\ r[n] = f[1..n]
    BY <2>1, FoldRuns
  <2> QED
    BY <2>2 DEF V, base
<1> QED
  BY <1>1, <1>8, <1>10 DEF n

LEMMA ToldAppends ==
  ASSUME NEW tr \in Seq(Event), NEW e \in Event
  PROVE  Told(tr) \in ToldState /\ Told(Append(tr, e)) = Tell(Told(tr), e)
<1> DEFINE n == Len(tr)
           longer == Append(tr, e)
<1>1. n \in Nat /\ longer \in Seq(Event) /\ Len(longer) = n + 1 /\ longer[n + 1] = e
      /\ \A k \in 1..n : longer[k] = tr[k]
  OBVIOUS
<1>2. PICK r : Runs(r, n, ToldState, Untold, ToldSteps(tr)) /\ r[n] = Told(tr)
  BY ToldRuns
<1>3. PICK q : Runs(q, n + 1, ToldState, Untold, ToldSteps(longer)) /\ q[n + 1] = Told(longer)
  BY <1>1, ToldRuns
<1>4. SameSteps(n, ToldState, ToldSteps(tr), ToldSteps(longer))
  BY <1>1 DEF ToldSteps, SameSteps
<1>5. \A v \in ToldState : ToldSteps(longer)[n + 1][v] = Tell(v, e)
  BY <1>1 DEF ToldSteps
<1> HIDE DEF n, longer
<1>6. r[n] \in ToldState /\ q[n + 1] = ToldSteps(longer)[n + 1][r[n]]
  <2> DEFINE V == ToldState
             base == Untold
             m == n + 1
  <2>1. /\ n \in Nat /\ m = n + 1 /\ SameSteps(n, V, ToldSteps(tr), ToldSteps(longer))
        /\ Runs(r, n, V, base, ToldSteps(tr)) /\ Runs(q, m, V, base, ToldSteps(longer))
    BY <1>1, <1>2, <1>3, <1>4
  <2> HIDE DEF V, base, m
  <2>2. r[n] \in V /\ q[m] = ToldSteps(longer)[m][r[n]]
    BY <2>1, RunsExtend
  <2> QED
    BY <2>2 DEF V, m
<1> QED
  BY <1>2, <1>3, <1>5, <1>6 DEF longer

-----------------------------------------------------------------------------
(* What a trace tells, and how it counts, event by event.                      *)

\* How many events of a kind, and the insertions among them.
Events(tr, kind) == {i \in DOMAIN tr : tr[i][1] = kind}
Inserted(tr) == {e \in Range(tr) : e[1] = "INSERT"}

\* The requests, the residency, the leases and the pinned sets of a trace.
Tells(tr, asked, resident, leases, active) ==
  /\ tr \in Seq(Event) /\ RequestsOf(tr) = asked /\ ResidentAfter(tr) = resident
  /\ Told(tr) = [resident |-> resident, leases |-> leases, active |-> active]

Counts(tr, evicts, inserts, inserted) ==
  /\ tr \in Seq(Event)
  /\ Cardinality(Events(tr, "EVICT")) = evicts
  /\ Cardinality(Events(tr, "INSERT")) = inserts
  /\ Inserted(tr) = inserted

\* An empty trace.
LEMMA NothingTold ==
  /\ Tells(<<>>, <<>>, {}, [t \in Tensors |-> 0], <<>>)
  /\ Counts(<<>>, 0, 0, {})
<1> DEFINE none == <<>>
<1>1. none \in Seq(Event) /\ Len(none) = 0
  OBVIOUS
<1>2. RequestsOf(none) = <<>>
  <2>1. PICK r : Runs(r, Len(none), Seq(Tensors), <<>>, AskedSteps(none)) /\ r[Len(none)] = RequestsOf(none)
    BY <1>1, AskedRuns
  <2> HIDE DEF none
  <2> QED
    BY <1>1, <2>1 DEF Runs
<1>3. ResidentAfter(none) = {}
  <2>1. PICK r : Runs(r, Len(none), SUBSET Tensors, {}, ResidentSteps(none)) /\ r[Len(none)] = ResidentAfter(none)
    BY <1>1, ResidentRuns
  <2> HIDE DEF none
  <2> QED
    BY <1>1, <2>1 DEF Runs
<1>4. Told(none) = Untold
  <2>1. PICK r : Runs(r, Len(none), ToldState, Untold, ToldSteps(none)) /\ r[Len(none)] = Told(none)
    BY <1>1, ToldRuns
  <2> HIDE DEF none
  <2> QED
    BY <1>1, <2>1 DEF Runs
<1>5. \A kind : Events(none, kind) = {}
  BY DEF Events
<1>6. Inserted(none) = {}
  BY DEF Inserted, Range
<1> HIDE DEF none
<1>7. Tells(none, <<>>, {}, [t \in Tensors |-> 0], <<>>)
  BY <1>1, <1>2, <1>3, <1>4 DEF Tells, Untold
<1>8. Counts(none, 0, 0, {})
  BY <1>1, <1>5, <1>6, FS_EmptySet DEF Counts
<1> QED
  BY <1>7, <1>8 DEF none

\* The events of a kind are finitely many.
LEMMA EventsType ==
  ASSUME NEW tr \in Seq(Event), NEW kind
  PROVE  IsFiniteSet(Events(tr, kind)) /\ Cardinality(Events(tr, kind)) \in Nat
<1> DEFINE D == 1..Len(tr)
<1>1. Events(tr, kind) \subseteq D /\ IsFiniteSet(D)
  BY FS_Interval DEF Events
<1> HIDE DEF D
<1> QED
  BY <1>1, FS_Subset, FS_CardinalityType

\* One event more of a kind, if it is of that kind.
LEMMA EventsAppend ==
  ASSUME NEW tr \in Seq(Event), NEW e \in Event, NEW kind
  PROVE  /\ Cardinality(Events(tr, kind)) \in Nat
         /\ Cardinality(Events(Append(tr, e), kind)) =
              Cardinality(Events(tr, kind)) + (IF e[1] = kind THEN 1 ELSE 0)
<1> DEFINE n == Len(tr)
           new == n + 1
           old == Events(tr, kind)
           now == Events(Append(tr, e), kind)
<1>1. n \in Nat /\ DOMAIN tr = 1..n /\ DOMAIN Append(tr, e) = 1..new
      /\ Append(tr, e)[new] = e /\ \A i \in 1..n : Append(tr, e)[i] = tr[i]
  OBVIOUS
<1>2. IsFiniteSet(old)
  BY EventsType
<1>3. new \notin old
  BY <1>1 DEF Events
<1>4. now = IF e[1] = kind THEN old \cup {new} ELSE old
  <2> HIDE DEF n
  <2> QED
    BY <1>1 DEF Events
<1> HIDE DEF old, now, new
<1>5. Cardinality(old) \in Nat /\ Cardinality(old \cup {new}) = Cardinality(old) + 1
  BY <1>2, <1>3, FS_CardinalityType, FS_AddElement
<1> QED
  BY <1>4, <1>5 DEF old, now

LEMMA InsertedAppend ==
  ASSUME NEW tr \in Seq(Event), NEW e \in Event
  PROVE  Inserted(Append(tr, e)) = IF e[1] = "INSERT" THEN Inserted(tr) \cup {e} ELSE Inserted(tr)
<1> DEFINE n == Len(tr)
           now == Append(tr, e)
<1>1. Range(now) = Range(tr) \cup {e}
  <2>1. n \in Nat /\ DOMAIN tr = 1..n /\ DOMAIN now = 1..(n + 1) /\ now[n + 1] = e
        /\ \A i \in 1..n : now[i] = tr[i]
    OBVIOUS
  <2> HIDE DEF n, now
  <2> QED
    BY <2>1 DEF Range
<1> QED
  BY <1>1 DEF Inserted

\* Which events count.
LEMMA CountsQuiet ==
  ASSUME NEW tr, NEW evicts, NEW inserts, NEW inserted,
         Counts(tr, evicts, inserts, inserted),
         NEW e \in Event, e[1] \notin {"EVICT", "INSERT"}
  PROVE  Counts(Append(tr, e), evicts, inserts, inserted)
  BY EventsAppend, InsertedAppend DEF Counts

LEMMA CountsEvict ==
  ASSUME NEW tr, NEW evicts, NEW inserts, NEW inserted,
         Counts(tr, evicts, inserts, inserted), NEW e \in Event, e[1] = "EVICT"
  PROVE  Counts(Append(tr, e), evicts + 1, inserts, inserted)
  BY EventsAppend, InsertedAppend DEF Counts

LEMMA CountsInsert ==
  ASSUME NEW tr, NEW evicts, NEW inserts, NEW inserted,
         Counts(tr, evicts, inserts, inserted), NEW e \in Event, e[1] = "INSERT"
  PROVE  Counts(Append(tr, e), evicts, inserts + 1, inserted \cup {e})
  BY EventsAppend, InsertedAppend DEF Counts

\* What is told, of one event more.
LEMMA TellsOneMore ==
  ASSUME NEW tr, NEW asked, NEW res, NEW leases, NEW active, Tells(tr, asked, res, leases, active),
         NEW e \in Event
  PROVE  /\ res \in SUBSET Tensors /\ leases \in [Tensors -> Nat] /\ active \in Seq(SUBSET Tensors)
         /\ asked \in Seq(Tensors)
         /\ Append(tr, e) \in Seq(Event)
         /\ RequestsOf(Append(tr, e)) = AskedStep(asked, e)
         /\ ResidentAfter(Append(tr, e)) = ResidentStep(res, e)
         /\ Told(Append(tr, e)) = Tell([resident |-> res, leases |-> leases, active |-> active], e)
<1> USE DEF Tells
<1>1. Told(tr) \in ToldState /\ Told(Append(tr, e)) = Tell(Told(tr), e)
  BY ToldAppends
<1>2. RequestsOf(tr) \in Seq(Tensors) /\ RequestsOf(Append(tr, e)) = AskedStep(RequestsOf(tr), e)
  BY AskedAppends
<1>3. ResidentAfter(Append(tr, e)) = ResidentStep(ResidentAfter(tr), e)
  BY ResidentAppends
<1>4. Append(tr, e) \in Seq(Event)
  OBVIOUS
<1>5. res \in SUBSET Tensors /\ leases \in [Tensors -> Nat] /\ active \in Seq(SUBSET Tensors)
  BY <1>1 DEF ToldState
<1> QED
  BY <1>1, <1>2, <1>3, <1>4, <1>5

\* A request takes its place among the requests, and what is pinned is noted.
LEMMA TellsRequest ==
  ASSUME NEW tr, NEW asked, NEW res, NEW leases, NEW active, Tells(tr, asked, res, leases, active),
         NEW t \in Tensors
  PROVE  Tells(Append(tr, <<"REQUEST", t>>), Append(asked, t), res, leases,
               Append(active, {u \in res : leases[u] # 0}))
<1> DEFINE e == <<"REQUEST", t>>
           s == [resident |-> res, leases |-> leases, active |-> active]
<1>1. e \in Event /\ e[1] = "REQUEST" /\ e[2] = t
  BY DEF Event, Kinds
<1> HIDE DEF e
<1>2. /\ Append(tr, e) \in Seq(Event) /\ RequestsOf(Append(tr, e)) = AskedStep(asked, e)
      /\ ResidentAfter(Append(tr, e)) = ResidentStep(res, e) /\ Told(Append(tr, e)) = Tell(s, e)
  BY <1>1, TellsOneMore
<1>3. AskedStep(asked, e) = Append(asked, t) /\ ResidentStep(res, e) = res
  BY <1>1 DEF AskedStep, ResidentStep
<1>4. Tell(s, e) = [resident |-> res, leases |-> leases, active |-> Append(active, {u \in res : leases[u] # 0})]
  BY <1>1 DEF Tell, Pinned
<1> QED
  BY <1>2, <1>3, <1>4 DEF Tells, e

\* What the replay does not read changes nothing of it.
LEMMA TellsQuiet ==
  ASSUME NEW tr, NEW asked, NEW res, NEW leases, NEW active, Tells(tr, asked, res, leases, active),
         NEW t \in Tensors, NEW kind \in {"MISS", "MATERIALIZE", "INSERT_REJECTED"}
  PROVE  Tells(Append(tr, <<kind, t>>), asked, res, leases, active)
<1> DEFINE e == <<kind, t>>
           s == [resident |-> res, leases |-> leases, active |-> active]
<1>1. e \in Event /\ e[1] \in {"MISS", "MATERIALIZE", "INSERT_REJECTED"} /\ e[2] = t
  BY DEF Event, Kinds
<1> HIDE DEF e
<1>2. /\ Append(tr, e) \in Seq(Event) /\ RequestsOf(Append(tr, e)) = AskedStep(asked, e)
      /\ ResidentAfter(Append(tr, e)) = ResidentStep(res, e) /\ Told(Append(tr, e)) = Tell(s, e)
  BY <1>1, TellsOneMore
<1>3. AskedStep(asked, e) = asked /\ ResidentStep(res, e) = res
  BY <1>1 DEF AskedStep, ResidentStep
<1>4. Tell(s, e) = s
  BY <1>1 DEF Tell
<1> QED
  BY <1>2, <1>3, <1>4 DEF Tells, e

\* An eviction takes the tensor and its leases.
LEMMA TellsEvict ==
  ASSUME NEW tr, NEW asked, NEW res, NEW leases, NEW active, Tells(tr, asked, res, leases, active),
         NEW t \in Tensors, leases[t] = 0
  PROVE  Tells(Append(tr, <<"EVICT", t>>), asked, res \ {t}, leases, active)
<1> DEFINE e == <<"EVICT", t>>
           s == [resident |-> res, leases |-> leases, active |-> active]
<1>1. e \in Event /\ e[1] = "EVICT" /\ e[2] = t
  BY DEF Event, Kinds
<1> HIDE DEF e
<1>2. /\ Append(tr, e) \in Seq(Event) /\ RequestsOf(Append(tr, e)) = AskedStep(asked, e)
      /\ ResidentAfter(Append(tr, e)) = ResidentStep(res, e) /\ Told(Append(tr, e)) = Tell(s, e)
      /\ leases \in [Tensors -> Nat]
  BY <1>1, TellsOneMore
<1>3. AskedStep(asked, e) = asked /\ ResidentStep(res, e) = res \ {t}
  BY <1>1 DEF AskedStep, ResidentStep
<1>4. [leases EXCEPT ![t] = 0] = leases
  BY <1>2
<1>5. Tell(s, e) = [resident |-> res \ {t}, leases |-> [leases EXCEPT ![t] = 0], active |-> active]
  BY <1>1 DEF Tell
<1> QED
  BY <1>2, <1>3, <1>4, <1>5 DEF Tells, e

LEMMA TellsInsert ==
  ASSUME NEW tr, NEW asked, NEW res, NEW leases, NEW active, Tells(tr, asked, res, leases, active),
         NEW t \in Tensors
  PROVE  Tells(Append(tr, <<"INSERT", t>>), asked, res \cup {t}, leases, active)
<1> DEFINE e == <<"INSERT", t>>
           s == [resident |-> res, leases |-> leases, active |-> active]
<1>1. e \in Event /\ e[1] = "INSERT" /\ e[2] = t
  BY DEF Event, Kinds
<1> HIDE DEF e
<1>2. /\ Append(tr, e) \in Seq(Event) /\ RequestsOf(Append(tr, e)) = AskedStep(asked, e)
      /\ ResidentAfter(Append(tr, e)) = ResidentStep(res, e) /\ Told(Append(tr, e)) = Tell(s, e)
  BY <1>1, TellsOneMore
<1>3. AskedStep(asked, e) = asked /\ ResidentStep(res, e) = res \cup {t}
  BY <1>1 DEF AskedStep, ResidentStep
<1>4. Tell(s, e) = [resident |-> res \cup {t}, leases |-> leases, active |-> active]
  BY <1>1 DEF Tell
<1> QED
  BY <1>2, <1>3, <1>4 DEF Tells, e

\* A lease is of what is resident.
LEMMA TellsAcquire ==
  ASSUME NEW tr, NEW asked, NEW res, NEW leases, NEW active, Tells(tr, asked, res, leases, active),
         NEW t \in Tensors, t \in res
  PROVE  Tells(Append(tr, <<"LEASE_ACQUIRE", t>>), asked, res, [leases EXCEPT ![t] = @ + 1], active)
<1> DEFINE e == <<"LEASE_ACQUIRE", t>>
           s == [resident |-> res, leases |-> leases, active |-> active]
<1>1. e \in Event /\ e[1] = "LEASE_ACQUIRE" /\ e[2] = t
  BY DEF Event, Kinds
<1> HIDE DEF e
<1>2. /\ Append(tr, e) \in Seq(Event) /\ RequestsOf(Append(tr, e)) = AskedStep(asked, e)
      /\ ResidentAfter(Append(tr, e)) = ResidentStep(res, e) /\ Told(Append(tr, e)) = Tell(s, e)
  BY <1>1, TellsOneMore
<1>3. AskedStep(asked, e) = asked /\ ResidentStep(res, e) = res /\ res \cup {t} = res
  BY <1>1 DEF AskedStep, ResidentStep
<1>4. Tell(s, e) = [resident |-> res \cup {t}, leases |-> [leases EXCEPT ![t] = @ + 1], active |-> active]
  BY <1>1 DEF Tell
<1> QED
  BY <1>2, <1>3, <1>4 DEF Tells, e

LEMMA TellsRelease ==
  ASSUME NEW tr, NEW asked, NEW res, NEW leases, NEW active, Tells(tr, asked, res, leases, active),
         NEW t \in Tensors, leases[t] # 0
  PROVE  Tells(Append(tr, <<"LEASE_RELEASE", t>>), asked, res, [leases EXCEPT ![t] = @ - 1], active)
<1> DEFINE e == <<"LEASE_RELEASE", t>>
           s == [resident |-> res, leases |-> leases, active |-> active]
<1>1. e \in Event /\ e[1] = "LEASE_RELEASE" /\ e[2] = t
  BY DEF Event, Kinds
<1> HIDE DEF e
<1>2. /\ Append(tr, e) \in Seq(Event) /\ RequestsOf(Append(tr, e)) = AskedStep(asked, e)
      /\ ResidentAfter(Append(tr, e)) = ResidentStep(res, e) /\ Told(Append(tr, e)) = Tell(s, e)
  BY <1>1, TellsOneMore
<1>3. AskedStep(asked, e) = asked /\ ResidentStep(res, e) = res
  BY <1>1 DEF AskedStep, ResidentStep
<1>4. Tell(s, e) = [resident |-> res, leases |-> [leases EXCEPT ![t] = @ - 1], active |-> active]
  BY <1>1 DEF Tell
<1> QED
  BY <1>2, <1>3, <1>4 DEF Tells, e

\* The sequence of a finite set has each of its elements once.
LEMMA SetListed ==
  ASSUME NEW S, IsFiniteSet(S)
  PROVE  /\ Cardinality(S) \in Nat /\ SetToSeq(S) \in [1..Cardinality(S) -> S]
         /\ \A i, j \in 1..Cardinality(S) : SetToSeq(S)[i] = SetToSeq(S)[j] => i = j
         /\ \A x \in S : \E i \in 1..Cardinality(S) : SetToSeq(S)[i] = x
<1> DEFINE n == Cardinality(S)
           D == 1..n
           listed(f) == f \in [D -> S] /\ IsInjective(f)
<1>1. n \in Nat /\ IsFiniteSet(D) /\ Cardinality(D) = n
  <2>1. n \in Nat
    BY FS_CardinalityType
  <2>2. IsFiniteSet(1..n) /\ Cardinality(1..n) = n
    BY <2>1, FS_Interval
  <2> QED
    BY <2>1, <2>2
<1>2. \E f : listed(f)
  <2> HIDE DEF D
  <2>1. ExistsBijection(D, S)
    BY <1>1, FS_SameCardinalityBij
  <2>2. PICK f : f \in Bijection(D, S)
    BY <2>1 DEF ExistsBijection
  <2> QED
    BY <2>2 DEF Bijection, Injection, IsInjective
<1>3. listed(SetToSeq(S))
  BY <1>2 DEF SetToSeq
<1> HIDE DEF D, n
<1>4. SetToSeq(S) \in Injection(D, S)
  BY <1>3 DEF Injection, IsInjective
<1>5. SetToSeq(S) \in Surjection(D, S)
  BY <1>1, <1>4, FS_Injection DEF n
<1>6. \A i, j \in D : SetToSeq(S)[i] = SetToSeq(S)[j] => i = j
  BY <1>3 DEF IsInjective
<1>7. \A x \in S : \E i \in D : SetToSeq(S)[i] = x
  BY <1>5 DEF Surjection
<1> QED
  BY <1>1, <1>3, <1>6, <1>7 DEF D, n

\* The evictions of a set, one after the other.
LEMMA TellsEvicted ==
  ASSUME NEW tr, NEW asked, NEW res, NEW leases, NEW active, Tells(tr, asked, res, leases, active),
         NEW evicts, NEW inserts, NEW inserted, Counts(tr, evicts, inserts, inserted),
         NEW ev \in SUBSET Tensors, \A t \in ev : leases[t] = 0
  PROVE  /\ Evicted(ev) \in Seq(Event)
         /\ Tells(tr \o Evicted(ev), asked, res \ ev, leases, active)
         /\ Counts(tr \o Evicted(ev), evicts + Cardinality(ev), inserts, inserted)
<1> DEFINE n == Cardinality(ev)
           D == 1..n
           list == SetToSeq(ev)
           part(k) == [i \in 1..k |-> <<"EVICT", list[i]>>]
           gone(k) == {list[i] : i \in 1..k}
           Good == {k \in 0..n : /\ Tells(tr \o part(k), asked, res \ gone(k), leases, active)
                                 /\ Counts(tr \o part(k), evicts + k, inserts, inserted)}
<1>1. /\ n \in Nat /\ list \in [1..n -> ev]
      /\ \A x \in ev : \E i \in 1..n : list[i] = x
  <2>1. IsFiniteSet(ev)
    BY StoreAssumption, FS_Subset
  <2> QED
    BY <2>1, SetListed
<1>2. part(n) = Evicted(ev) /\ gone(n) = ev
  BY <1>1 DEF Evicted
<1> HIDE DEF n, list
<1>3. \A k \in 0..n : part(k) \in Seq(Event) /\ Len(part(k)) = k
  BY <1>1 DEF Event, Kinds
<1>4. 0 \in Good
  <2>1. part(0) = <<>> /\ gone(0) = {} /\ tr \o <<>> = tr
    BY DEF Tells
  <2>2. evicts \in Nat
    BY EventsType DEF Counts
  <2>3. Tells(tr \o part(0), asked, res \ gone(0), leases, active)
    BY <2>1
  <2>4. Counts(tr \o part(0), evicts + 0, inserts, inserted)
    BY <2>1, <2>2
  <2> QED
    BY <1>1, <2>3, <2>4
<1>5. ASSUME NEW k \in 1..n, k - 1 \in Good PROVE k \in Good
  <2> DEFINE before == tr \o part(k - 1)
             e == <<"EVICT", list[k]>>
  <2>1. list[k] \in Tensors /\ leases[list[k]] = 0 /\ e \in Event /\ e[1] = "EVICT" /\ k - 1 \in 0..n
    BY <1>1, <1>5 DEF Event, Kinds
  <2>2. part(k) = Append(part(k - 1), e)
    BY <1>1, <1>3, <1>5
  <2>3. tr \o part(k) = Append(before, e)
    <3> DEFINE p == part(k - 1)
    <3>1. tr \in Seq(Event) /\ p \in Seq(Event) /\ e \in Event
      BY <1>3, <2>1 DEF Tells
    <3> HIDE DEF p, e
    <3>2. tr \o Append(p, e) = Append(tr \o p, e)
      BY <3>1
    <3> QED
      BY <2>2, <3>2 DEF p
  <2>4. gone(k) = gone(k - 1) \cup {list[k]}
    BY <1>5
  <2>5. Tells(before, asked, res \ gone(k - 1), leases, active)
        /\ Counts(before, evicts + (k - 1), inserts, inserted)
    BY <1>5
  <2> HIDE DEF before, part, gone
  <2>6. Tells(Append(before, e), asked, (res \ gone(k - 1)) \ {list[k]}, leases, active)
    BY <2>1, <2>5, TellsEvict
  <2>7. (res \ gone(k - 1)) \ {list[k]} = res \ gone(k)
    BY <2>4
  <2> HIDE DEF e
  <2>8. Counts(Append(before, e), evicts + k, inserts, inserted)
    <3>1. evicts \in Nat
      BY EventsType DEF Counts
    <3>2. Counts(Append(before, e), evicts + (k - 1) + 1, inserts, inserted)
      BY <2>1, <2>5, CountsEvict
    <3>3. evicts + (k - 1) + 1 = evicts + k
      BY <1>1, <3>1
    <3> QED
      BY <3>2, <3>3
  <2>9. /\ Tells(tr \o part(k), asked, res \ gone(k), leases, active)
        /\ Counts(tr \o part(k), evicts + k, inserts, inserted)
    BY <2>3, <2>6, <2>7, <2>8
  <2> QED
    BY <2>9
<1> HIDE DEF Good
<1>6. 0..n \subseteq Good
  BY <1>1, <1>4, <1>5, CountingUp
<1>7. n \in Good
  BY <1>1, <1>6
<1> HIDE DEF part, gone
<1>8. /\ Tells(tr \o part(n), asked, res \ gone(n), leases, active)
      /\ Counts(tr \o part(n), evicts + n, inserts, inserted)
  BY <1>7 DEF Good
<1>9. part(n) \in Seq(Event)
  BY <1>1, <1>3
<1> QED
  BY <1>2, <1>8, <1>9 DEF n

-----------------------------------------------------------------------------
(* What each action adds to what the trace tells: it tells the store.          *)

TraceTells == Tells(trace_, Seen, entries_, active_leases, ActiveSets(trace_))

\* What the store could not evict.
Leased == {u \in entries_ : active_leases[u] # 0}

LEMMA TraceTellsTypes ==
  ASSUME TraceTells
  PROVE  /\ trace_ \in Seq(Event) /\ entries_ \in SUBSET Tensors /\ active_leases \in [Tensors -> Nat]
         /\ Seen \in Seq(Tensors) /\ ActiveSets(trace_) \in Seq(SUBSET Tensors)
<1> PICK r : Runs(r, Len(trace_), ToldState, Untold, ToldSteps(trace_)) /\ r[Len(trace_)] = Told(trace_)
  BY ToldRuns DEF TraceTells, Tells
<1> PICK q : Runs(q, Len(trace_), Seq(Tensors), <<>>, AskedSteps(trace_)) /\ q[Len(trace_)] = Seen
  BY AskedRuns DEF TraceTells, Tells, Seen
<1> Len(trace_) \in Nat /\ Len(trace_) \in 0..Len(trace_)
  BY DEF TraceTells, Tells
<1>1. Told(trace_) \in ToldState /\ Seen \in Seq(Tensors)
  BY DEF Runs
<1> QED
  BY <1>1 DEF TraceTells, Tells, ToldState, ActiveSets

LEMMA TwoAppends ==
  ASSUME NEW tr \in Seq(Event), NEW a \in Event, NEW b \in Event
  PROVE  tr \o <<a, b>> = Append(Append(tr, a), b) /\ Append(tr, a) \in Seq(Event)
  OBVIOUS

\* A request that hits is followed by a lease, one that misses by a miss.
LEMMA HitTells ==
  ASSUME TraceTells, NEW t \in Tensors, RequestHit(t),
         NEW evicts, NEW inserts, NEW inserted, Counts(trace_, evicts, inserts, inserted)
  PROVE  /\ Tells(trace_', Append(Seen, t), entries_', active_leases', Append(ActiveSets(trace_), Leased))
         /\ Counts(trace_', evicts, inserts, inserted)
<1> DEFINE a == <<"REQUEST", t>>
           b == <<"LEASE_ACQUIRE", t>>
           tr == Append(trace_, a)
           asked == Append(Seen, t)
           active == Append(ActiveSets(trace_), Leased)
<1>1. /\ t \in entries_ /\ active_leases' = [active_leases EXCEPT ![t] = @ + 1] /\ entries_' = entries_
      /\ trace_' = trace_ \o <<a, b>>
  BY DEF RequestHit, Asks, Emits
<1>2. a \in Event /\ b \in Event /\ a[1] = "REQUEST" /\ b[1] = "LEASE_ACQUIRE"
  BY DEF Event, Kinds
<1>3. Tells(tr, asked, entries_, active_leases, active)
  BY TellsRequest DEF TraceTells, Leased
<1>4. trace_ \in Seq(Event)
  BY TraceTellsTypes
<1> HIDE DEF asked, active
<1>5. Tells(Append(tr, b), asked, entries_, [active_leases EXCEPT ![t] = @ + 1], active)
  BY <1>1, <1>3, TellsAcquire
<1> HIDE DEF a, b
<1>6. trace_' = Append(tr, b)
  BY <1>1, <1>2, <1>4, TwoAppends
<1>7. Counts(trace_', evicts, inserts, inserted)
  BY <1>2, <1>6, CountsQuiet
<1> QED
  BY <1>1, <1>5, <1>6, <1>7 DEF active, asked

LEMMA MissTells ==
  ASSUME TraceTells, NEW t \in Tensors, RequestMiss(t),
         NEW evicts, NEW inserts, NEW inserted, Counts(trace_, evicts, inserts, inserted)
  PROVE  /\ Tells(trace_', Append(Seen, t), entries_', active_leases', Append(ActiveSets(trace_), Leased))
         /\ Counts(trace_', evicts, inserts, inserted)
<1> DEFINE a == <<"REQUEST", t>>
           b == <<"MISS", t>>
           tr == Append(trace_, a)
           asked == Append(Seen, t)
           active == Append(ActiveSets(trace_), Leased)
<1>1. /\ active_leases' = active_leases /\ entries_' = entries_
      /\ trace_' = trace_ \o <<a, b>>
  BY DEF RequestMiss, Asks, Emits
<1>2. a \in Event /\ b \in Event /\ a[1] = "REQUEST" /\ b[1] = "MISS"
  BY DEF Event, Kinds
<1>3. Tells(tr, asked, entries_, active_leases, active)
  BY TellsRequest DEF TraceTells, Leased
<1>4. trace_ \in Seq(Event)
  BY TraceTellsTypes
<1> HIDE DEF asked, active
<1>5. Tells(Append(tr, b), asked, entries_, active_leases, active)
  BY <1>1, <1>3, TellsQuiet
<1> HIDE DEF a, b
<1>6. trace_' = Append(tr, b)
  BY <1>1, <1>2, <1>4, TwoAppends
<1>7. Counts(trace_', evicts, inserts, inserted)
  BY <1>2, <1>6, CountsQuiet
<1> QED
  BY <1>1, <1>5, <1>6, <1>7 DEF active, asked

\* What is read is told with the evictions that the store made for it.
LEMMA ObtainTells ==
  ASSUME TraceTells, NEW t \in Tensors, NEW ev \in SUBSET Candidates, NEW out \in Seq(Event), Obtains(t, ev, out),
         NEW evicts, NEW inserts, NEW inserted, Counts(trace_, evicts, inserts, inserted)
  PROVE  \E tr \in Seq(Event) :
           /\ trace_' = tr \o out
           /\ Tells(tr, Seen, entries_ \ ev, active_leases, ActiveSets(trace_))
           /\ Counts(tr, evicts + Cardinality(ev), inserts, inserted)
<1> DEFINE c == <<"MATERIALIZE", t>>
           read == Append(trace_, c)
           tr == read \o Evicted(ev)
           active == ActiveSets(trace_)
<1>1. c \in Event /\ c[1] = "MATERIALIZE"
  BY DEF Event, Kinds
<1>2. trace_' = trace_ \o (<<c>> \o Evicted(ev) \o out)
  BY DEF Obtains, Emits
<1>3. Tells(read, Seen, entries_, active_leases, active) /\ Counts(read, evicts, inserts, inserted)
  BY <1>1, TellsQuiet, CountsQuiet DEF TraceTells
<1>4. ev \in SUBSET Tensors /\ \A u \in ev : active_leases[u] = 0
  BY TraceTellsTypes DEF Candidates
<1> HIDE DEF active, read
<1>5. /\ Evicted(ev) \in Seq(Event) /\ Tells(tr, Seen, entries_ \ ev, active_leases, active)
      /\ Counts(tr, evicts + Cardinality(ev), inserts, inserted)
  BY <1>3, <1>4, TellsEvicted
<1>6. trace_' = tr \o out /\ tr \in Seq(Event)
  <2> DEFINE e == Evicted(ev)
             x == <<c>>
  <2>1. trace_ \in Seq(Event) /\ e \in Seq(Event)
    BY <1>5, TraceTellsTypes
  <2> HIDE DEF c, e
  <2>2. x \in Seq(Event) /\ read = trace_ \o x
    BY <1>1, <2>1 DEF read
  <2> HIDE DEF x
  <2>3. trace_ \o ((x \o e) \o out) = ((trace_ \o x) \o e) \o out /\ (trace_ \o x) \o e \in Seq(Event)
    BY <2>1, <2>2
  <2> QED
    BY <1>2, <2>2, <2>3 DEF e, x
<1> QED
  BY <1>5, <1>6 DEF active

LEMMA KeptTells ==
  ASSUME TraceTells, NEW t \in Tensors, NEW ev \in SUBSET Candidates,
         entries_' = (entries_ \ ev) \cup {t}, active_leases' = [active_leases EXCEPT ![t] = @ + 1],
         Obtains(t, ev, <<<<"INSERT", t>>, <<"LEASE_ACQUIRE", t>>>>),
         NEW evicts, NEW inserts, NEW inserted, Counts(trace_, evicts, inserts, inserted)
  PROVE  /\ Tells(trace_', Seen, entries_', active_leases', ActiveSets(trace_))
         /\ Counts(trace_', evicts + Cardinality(ev), inserts + 1, inserted \cup {<<"INSERT", t>>})
<1> DEFINE a == <<"INSERT", t>>
           b == <<"LEASE_ACQUIRE", t>>
           out == <<a, b>>
           active == ActiveSets(trace_)
<1>1. a \in Event /\ b \in Event /\ a[1] = "INSERT" /\ b[1] = "LEASE_ACQUIRE" /\ out \in Seq(Event)
  BY DEF Event, Kinds
<1>2. PICK tr \in Seq(Event) :
        /\ trace_' = tr \o out
        /\ Tells(tr, Seen, entries_ \ ev, active_leases, active)
        /\ Counts(tr, evicts + Cardinality(ev), inserts, inserted)
  BY <1>1, ObtainTells
<1> HIDE DEF active
<1>3. Tells(Append(tr, a), Seen, entries_', active_leases, active)
  BY <1>2, TellsInsert
<1>4. Tells(Append(Append(tr, a), b), Seen, entries_', active_leases', active)
  BY <1>3, TellsAcquire
<1>5. Counts(Append(tr, a), evicts + Cardinality(ev), inserts + 1, inserted \cup {a})
  BY <1>1, <1>2, CountsInsert
<1> HIDE DEF a, b
<1>6. trace_' = Append(Append(tr, a), b)
  BY <1>1, <1>2, TwoAppends
<1>7. Counts(trace_', evicts + Cardinality(ev), inserts + 1, inserted \cup {a})
  BY <1>1, <1>5, <1>6, CountsQuiet
<1> QED
  BY <1>4, <1>6, <1>7 DEF a, active

LEMMA UnkeptTells ==
  ASSUME TraceTells, NEW t \in Tensors, NEW ev \in SUBSET Candidates,
         entries_' = entries_ \ ev, UNCHANGED active_leases, Obtains(t, ev, <<<<"INSERT_REJECTED", t>>>>),
         NEW evicts, NEW inserts, NEW inserted, Counts(trace_, evicts, inserts, inserted)
  PROVE  /\ Tells(trace_', Seen, entries_', active_leases', ActiveSets(trace_))
         /\ Counts(trace_', evicts + Cardinality(ev), inserts, inserted)
<1> DEFINE a == <<"INSERT_REJECTED", t>>
           out == <<a>>
           active == ActiveSets(trace_)
<1>1. a \in Event /\ a[1] = "INSERT_REJECTED" /\ out \in Seq(Event)
  BY DEF Event, Kinds
<1>2. PICK tr \in Seq(Event) :
        /\ trace_' = tr \o out
        /\ Tells(tr, Seen, entries_ \ ev, active_leases, active)
        /\ Counts(tr, evicts + Cardinality(ev), inserts, inserted)
  BY <1>1, ObtainTells
<1> HIDE DEF active
<1>3. Tells(Append(tr, a), Seen, entries_', active_leases', active)
  BY <1>2, TellsQuiet
<1> HIDE DEF a
<1>4. trace_' = Append(tr, a)
  BY <1>1, <1>2
<1>5. Counts(trace_', evicts + Cardinality(ev), inserts, inserted)
  BY <1>1, <1>2, <1>4, CountsQuiet
<1> QED
  BY <1>3, <1>4, <1>5 DEF active

\* Leases taken without a request, and leases given back.
LEMMA UnaskedTells ==
  ASSUME TraceTells, NEW t \in Tensors, ObtainUnasked(t),
         NEW evicts, NEW inserts, NEW inserted, Counts(trace_, evicts, inserts, inserted)
  PROVE  /\ Tells(trace_', Seen, entries_', active_leases', ActiveSets(trace_))
         /\ Counts(trace_', evicts, inserts, inserted) /\ UNCHANGED entries_
<1> DEFINE a == <<"LEASE_ACQUIRE", t>>
<1>1. a \in Event /\ a[1] = "LEASE_ACQUIRE"
  BY DEF Event, Kinds
<1>2. /\ t \in entries_ /\ entries_' = entries_ /\ active_leases' = [active_leases EXCEPT ![t] = @ + 1]
      /\ trace_' = trace_ \o <<a>> /\ trace_ \in Seq(Event)
  BY TraceTellsTypes DEF ObtainUnasked, Acquire, Emits
<1>3. Tells(Append(trace_, a), Seen, entries_', active_leases', ActiveSets(trace_))
  BY <1>2, TellsAcquire DEF TraceTells
<1> HIDE DEF a
<1>4. trace_' = Append(trace_, a)
  BY <1>1, <1>2
<1> QED
  BY <1>1, <1>2, <1>3, <1>4, CountsQuiet

LEMMA ReleaseTells ==
  ASSUME TraceTells, NEW t \in Tensors, GiveBack(t),
         NEW evicts, NEW inserts, NEW inserted, Counts(trace_, evicts, inserts, inserted)
  PROVE  /\ Tells(trace_', Seen, entries_', active_leases', ActiveSets(trace_))
         /\ Counts(trace_', evicts, inserts, inserted) /\ UNCHANGED entries_
<1>1. CASE active_leases[t] > 0
  <2> DEFINE a == <<"LEASE_RELEASE", t>>
  <2>1. a \in Event /\ a[1] = "LEASE_RELEASE"
    BY DEF Event, Kinds
  <2>2. trace_' = Append(trace_, a) /\ active_leases' = [active_leases EXCEPT ![t] = @ - 1] /\ entries_' = entries_
        /\ active_leases[t] # 0
    <3>1. trace_' = trace_ \o <<a>> /\ trace_ \in Seq(Event)
      BY <1>1, TraceTellsTypes DEF GiveBack, Emits
    <3>2. active_leases' = [active_leases EXCEPT ![t] = @ - 1] /\ entries_' = entries_ /\ active_leases[t] # 0
      BY <1>1, TraceTellsTypes DEF GiveBack, Release
    <3> HIDE DEF a
    <3> QED
      BY <2>1, <3>1, <3>2
  <2>3. Tells(trace_', Seen, entries_', active_leases', ActiveSets(trace_))
    BY <2>2, TellsRelease DEF TraceTells
  <2> QED
    BY <2>1, <2>2, <2>3, CountsQuiet
<1>2. CASE ~ active_leases[t] > 0
  BY <1>2 DEF GiveBack, storeVars, TraceTells
<1> QED
  BY <1>1, <1>2

-----------------------------------------------------------------------------
(* Sizes.  What is resident has the sum of its bytes (CountingLemmas).         *)

LEMMA SizeIsTotal ==
  ASSUME NEW ts \in SUBSET Tensors
  PROVE  SizeOf(ts) = Total(Bytes, ts) /\ SizeOf(ts) \in Nat
<1>1. SizeOf(ts) = Total(Bytes, ts)
  BY DEF SizeOf, Total
<1>2. Total(Bytes, ts) \in Nat
  BY StoreAssumption, TotalNatural
<1> QED
  BY <1>1, <1>2

LEMMA SizeDrops ==
  ASSUME NEW ts \in SUBSET Tensors, NEW ev \in SUBSET ts
  PROVE  /\ SizeOf(ts \ ev) = SizeOf(ts) - SizeOf(ev) /\ SizeOf(ev) <= SizeOf(ts)
         /\ SizeOf(ts) \in Nat /\ SizeOf(ev) \in Nat /\ SizeOf(ts \ ev) \in Nat
<1>1. Bytes \in [Tensors -> Int] /\ IsFiniteSet(Tensors)
  BY StoreAssumption
<1>2. Total(Bytes, ts) = Total(Bytes, ev) + Total(Bytes, ts \ ev)
  BY <1>1, TotalSplits
<1>3. /\ SizeOf(ts) = Total(Bytes, ts) /\ SizeOf(ts) \in Nat
      /\ SizeOf(ev) = Total(Bytes, ev) /\ SizeOf(ev) \in Nat
      /\ SizeOf(ts \ ev) = Total(Bytes, ts \ ev) /\ SizeOf(ts \ ev) \in Nat
  BY SizeIsTotal
<1> QED
  BY <1>2, <1>3

LEMMA SizeOfNone == SizeOf({}) = 0
<1> DEFINE none == {}
<1>1. none \in SUBSET Tensors /\ none \in SUBSET none /\ none \ none = none
  OBVIOUS
<1> HIDE DEF none
<1>2. SizeOf(none \ none) = SizeOf(none) - SizeOf(none) /\ SizeOf(none) \in Nat
  BY <1>1, SizeDrops
<1>3. SizeOf(none) = 0
  BY <1>1, <1>2
<1> QED
  BY <1>3 DEF none

LEMMA SizeOfOne ==
  ASSUME NEW t \in Tensors
  PROVE  SizeOf({t}) = Bytes[t] /\ Bytes[t] \in Nat
<1> DEFINE one == {t}
           none == {}
<1>1. /\ Bytes \in [Tensors -> Int] /\ IsFiniteSet(Tensors) /\ Bytes[t] \in Nat
      /\ one \in SUBSET Tensors /\ t \in one /\ one \ {t} = none
  BY StoreAssumption
<1> HIDE DEF one, none
<1>2. Total(Bytes, one) = Bytes[t] + Total(Bytes, none)
  <2>1. Total(Bytes, one) = Bytes[t] + Total(Bytes, one \ {t})
    BY <1>1, TotalRemoves
  <2> QED
    BY <1>1, <2>1
<1>3. Total(Bytes, none) = 0
  BY <1>1, TotalUnfolds DEF none
<1>4. SizeOf(one) = Total(Bytes, one)
  BY <1>1, SizeIsTotal
<1> QED
  BY <1>1, <1>2, <1>3, <1>4 DEF one

LEMMA SizeWithout ==
  ASSUME NEW ts \in SUBSET Tensors, NEW t \in ts
  PROVE  SizeOf(ts \ {t}) = SizeOf(ts) - Bytes[t] /\ SizeOf(ts) \in Nat /\ Bytes[t] \in Nat
<1>1. {t} \in SUBSET ts /\ t \in Tensors
  OBVIOUS
<1>2. SizeOf(ts \ {t}) = SizeOf(ts) - SizeOf({t}) /\ SizeOf(ts) \in Nat
  BY <1>1, SizeDrops
<1> QED
  BY <1>1, <1>2, SizeOfOne

LEMMA SizeWith ==
  ASSUME NEW ts \in SUBSET Tensors, NEW t \in Tensors, t \notin ts
  PROVE  SizeOf(ts \cup {t}) = SizeOf(ts) + Bytes[t] /\ SizeOf(ts) \in Nat /\ Bytes[t] \in Nat
<1> DEFINE more == ts \cup {t}
<1>1. more \in SUBSET Tensors /\ t \in more /\ more \ {t} = ts
  OBVIOUS
<1> HIDE DEF more
<1>2. SizeOf(more \ {t}) = SizeOf(more) - Bytes[t] /\ SizeOf(more) \in Nat /\ Bytes[t] \in Nat
  BY <1>1, SizeWithout
<1>3. SizeOf(ts) \in Nat
  BY SizeIsTotal
<1>4. SizeOf(more) = SizeOf(ts) + Bytes[t]
  <2>1. SizeOf(ts) = SizeOf(more) - Bytes[t]
    BY <1>1, <1>2, Zenon
  <2> QED
    BY <1>2, <1>3, <2>1
<1> QED
  BY <1>2, <1>3, <1>4 DEF more

-----------------------------------------------------------------------------
(* Last uses.  What was requested since the last use of a tensor, it included, *)
(* grows with every request of another one.                                    *)

\* The tensors requested from i to k.
Between(seq, i, k) == {seq[j] : j \in i..k}

LastUse(seq, u) == Max({i \in DOMAIN seq : seq[i] = u})
LastUses(seq) == [u \in Range(seq) |-> [last |-> LastUse(seq, u), count |-> 1]]
Since(seq, u) == Between(seq, LastUse(seq, u), Len(seq))

LEMMA LastUseIs ==
  ASSUME NEW seq \in Seq(Tensors), NEW u \in Range(seq)
  PROVE  /\ u \in Tensors /\ LastUse(seq, u) \in 1..Len(seq) /\ seq[LastUse(seq, u)] = u
         /\ \A i \in 1..Len(seq) : seq[i] = u => i <= LastUse(seq, u)
<1> DEFINE n == Len(seq)
           D == 1..n
           uses == {i \in D : seq[i] = u}
<1>1. n \in Nat /\ DOMAIN seq = D /\ \A i \in D : seq[i] \in Tensors
  OBVIOUS
<1>2. IsFiniteSet(D) /\ D \subseteq Int
  <2>1. IsFiniteSet(1..n)
    BY <1>1, FS_Interval
  <2> QED
    BY <1>1, <2>1
<1>3. uses \subseteq D /\ uses # {}
  BY <1>1 DEF Range
<1>4. IsFiniteSet(uses)
  <2> HIDE DEF uses, D
  <2> QED
    BY <1>2, <1>3, FS_Subset
<1>5. LastUse(seq, u) = Max(uses)
  BY <1>1 DEF LastUse
<1>6. Max(uses) \in uses /\ \A y \in uses : y <= Max(uses)
  <2> HIDE DEF uses, D
  <2>1. uses \in SUBSET Int
    BY <1>2, <1>3
  <2> QED
    BY <1>3, <1>4, <2>1, MaxIsGreatest
<1> QED
  BY <1>1, <1>5, <1>6

\* It is the only use after which none comes.
LEMMA LastUseOnly ==
  ASSUME NEW seq \in Seq(Tensors), NEW i \in 1..Len(seq), \A j \in 1..Len(seq) : seq[j] = seq[i] => j <= i
  PROVE  seq[i] \in Range(seq) /\ LastUse(seq, seq[i]) = i
<1>1. seq[i] \in Range(seq)
  BY DEF Range
<1>2. LastUse(seq, seq[i]) \in 1..Len(seq) /\ seq[LastUse(seq, seq[i])] = seq[i] /\ i <= LastUse(seq, seq[i])
  BY <1>1, LastUseIs
<1>3. LastUse(seq, seq[i]) <= i
  BY <1>2
<1> QED
  BY <1>1, <1>2, <1>3

LEMMA LastUseAppends ==
  ASSUME NEW seq \in Seq(Tensors), NEW t \in Tensors, NEW longer, longer = Append(seq, t)
  PROVE  /\ longer \in Seq(Tensors) /\ Len(longer) = Len(seq) + 1 /\ longer[Len(longer)] = t
         /\ \A i \in 1..Len(seq) : longer[i] = seq[i]
         /\ Range(longer) = Range(seq) \cup {t} /\ LastUse(longer, t) = Len(longer)
<1> DEFINE n == Len(seq)
<1>1. /\ n \in Nat /\ longer \in Seq(Tensors) /\ Len(longer) = n + 1 /\ longer[n + 1] = t
      /\ DOMAIN seq = 1..n /\ DOMAIN longer = 1..(n + 1) /\ \A i \in 1..n : longer[i] = seq[i]
  OBVIOUS
<1>2. \A i \in 1..(n + 1) : i \in 1..n \/ i = n + 1
  BY <1>1
<1>3. Range(longer) = Range(seq) \cup {t}
  <2>1. 1..n \subseteq 1..(n + 1) /\ n + 1 \in 1..(n + 1)
    BY <1>1
  <2> HIDE DEF n
  <2> QED
    BY <1>1, <1>2, <2>1 DEF Range
<1>4. LastUse(longer, t) = n + 1
  <2>1. n + 1 \in 1..Len(longer) /\ \A j \in 1..Len(longer) : j <= n + 1
    BY <1>1
  <2> QED
    BY <1>1, <2>1, LastUseOnly
<1> QED
  BY <1>1, <1>3, <1>4

LEMMA LastUseStays ==
  ASSUME NEW seq \in Seq(Tensors), NEW t \in Tensors, NEW longer, longer = Append(seq, t),
         NEW u \in Range(seq), u # t
  PROVE  LastUse(longer, u) = LastUse(seq, u)
<1> DEFINE n == Len(seq)
           i == LastUse(seq, u)
<1>1. n \in Nat /\ longer \in Seq(Tensors) /\ Len(longer) = n + 1 /\ longer[n + 1] = t
      /\ \A k \in 1..n : longer[k] = seq[k]
  OBVIOUS
<1>2. i \in 1..n /\ seq[i] = u /\ \A j \in 1..n : seq[j] = u => j <= i
  BY LastUseIs
<1> HIDE DEF i
<1>3. i \in 1..Len(longer) /\ longer[i] = u
  BY <1>1, <1>2
<1>4. \A j \in 1..Len(longer) : longer[j] = longer[i] => j <= i
  BY <1>1, <1>2, <1>3
<1>5. LastUse(longer, longer[i]) = i
  BY <1>1, <1>3, <1>4, LastUseOnly
<1> QED
  BY <1>3, <1>5 DEF i

\* What was used since is nested in the order of last uses.
LEMMA SinceIs ==
  ASSUME NEW seq \in Seq(Tensors), NEW u \in Range(seq)
  PROVE  /\ Since(seq, u) \in SUBSET Tensors /\ Since(seq, u) \subseteq Range(seq) /\ u \in Since(seq, u)
         /\ SizeOf(Since(seq, u)) \in Nat
         /\ \A v \in Range(seq) :
              /\ v \in Since(seq, u) <=> LastUse(seq, u) <= LastUse(seq, v)
              /\ LastUse(seq, u) <= LastUse(seq, v) => Since(seq, v) \subseteq Since(seq, u)
<1> DEFINE n == Len(seq)
           i == LastUse(seq, u)
<1>1. n \in Nat /\ DOMAIN seq = 1..n /\ \A j \in 1..n : seq[j] \in Tensors
  OBVIOUS
<1>2. i \in 1..n /\ seq[i] = u
  BY LastUseIs
<1>3. Since(seq, u) = {seq[j] : j \in i..n}
  BY DEF Since, Between
<1> HIDE DEF i
<1>4. i..n \subseteq 1..n /\ i \in i..n
  BY <1>1, <1>2
<1>5. Since(seq, u) \in SUBSET Tensors /\ Since(seq, u) \subseteq Range(seq) /\ u \in Since(seq, u)
  BY <1>1, <1>2, <1>3, <1>4 DEF Range
<1>6. ASSUME NEW v \in Range(seq)
      PROVE  /\ v \in Since(seq, u) <=> i <= LastUse(seq, v)
             /\ i <= LastUse(seq, v) => Since(seq, v) \subseteq Since(seq, u)
  <2> DEFINE j == LastUse(seq, v)
  <2>1. j \in 1..n /\ seq[j] = v /\ \A k \in 1..n : seq[k] = v => k <= j
    BY <1>6, LastUseIs
  <2>2. Since(seq, v) = {seq[k] : k \in j..n}
    BY DEF Since, Between
  <2> HIDE DEF j
  <2>3. i <= j => j..n \subseteq i..n /\ j \in i..n
    BY <1>1, <1>2, <2>1
  <2>4. ASSUME v \in Since(seq, u) PROVE i <= j
    <3>1. PICK k \in i..n : seq[k] = v
      BY <1>3, <2>4
    <3>2. k <= j /\ i <= k /\ k \in Nat /\ i \in Nat /\ j \in Nat
      BY <1>1, <1>2, <1>4, <2>1, <3>1
    <3> QED
      BY <3>2
  <2>5. i <= j => v \in Since(seq, u) /\ Since(seq, v) \subseteq Since(seq, u)
    BY <1>3, <2>1, <2>2, <2>3
  <2> QED
    BY <2>4, <2>5 DEF j
<1> QED
  BY <1>5, <1>6, SizeIsTotal DEF i

LEMMA SinceLast ==
  ASSUME NEW seq \in Seq(Tensors), NEW t \in Tensors, NEW longer, longer = Append(seq, t)
  PROVE  Since(longer, t) = {t}
<1> DEFINE m == Len(longer)
<1>1. m \in Nat /\ longer[m] = t /\ LastUse(longer, t) = m
  <2>1. Len(longer) = Len(seq) + 1 /\ longer[Len(longer)] = t /\ Len(seq) \in Nat
    BY LastUseAppends
  <2>2. LastUse(longer, t) = Len(longer)
    BY LastUseAppends
  <2> QED
    BY <2>1, <2>2
<1>2. m..m = {m}
  BY <1>1
<1> HIDE DEF m
<1> QED
  BY <1>1, <1>2 DEF Since, Between, m

LEMMA SinceGrows ==
  \A seq \in Seq(Tensors), t \in Tensors : \A longer : longer = Append(seq, t) =>
    \A u \in Range(seq) : u # t => Since(longer, u) = Since(seq, u) \cup {t}
<1> SUFFICES ASSUME NEW seq \in Seq(Tensors), NEW t \in Tensors, NEW longer, longer = Append(seq, t),
                    NEW u \in Range(seq), u # t
             PROVE  Since(longer, u) = Since(seq, u) \cup {t}
  OBVIOUS
<1> DEFINE n == Len(seq)
           m == n + 1
           i == LastUse(seq, u)
<1>1. n \in Nat /\ Len(longer) = m /\ longer[m] = t /\ \A j \in 1..n : longer[j] = seq[j]
  OBVIOUS
<1>2. LastUse(longer, u) = i /\ i \in 1..n
  BY LastUseStays, LastUseIs
<1>3. Since(longer, u) = {longer[j] : j \in i..m} /\ Since(seq, u) = {seq[j] : j \in i..n}
  BY <1>1, <1>2 DEF Since, Between
<1> HIDE DEF i
<1>4. i..m = (i..n) \cup {m} /\ i..n \subseteq 1..n
  BY <1>1, <1>2
<1> HIDE DEF m
<1> QED
  BY <1>1, <1>3, <1>4

-----------------------------------------------------------------------------
(* The order of the replay.  Before compares last uses, ties going to the      *)
(* smaller tensor, so that there is always one oldest candidate.               *)

Entries == UNION {[S -> [last : Nat, count : Nat]] : S \in SUBSET Tensors}

LruBefore(s, u, v) ==
  s.res[u].last < s.res[v].last \/ (s.res[u].last = s.res[v].last /\ u < v)

IsOldest(s, u, among) == u \in among /\ \A v \in among \ {u} : LruBefore(s, u, v)

LEMMA EntriesAre ==
  ASSUME NEW r \in Entries
  PROVE  /\ DOMAIN r \in SUBSET Tensors /\ IsFiniteSet(DOMAIN r)
         /\ \A t \in DOMAIN r : r[t] \in [last : Nat, count : Nat] /\ r[t].last \in Nat /\ t \in Nat
<1>1. PICK S \in SUBSET Tensors : r \in [S -> [last : Nat, count : Nat]]
  BY DEF Entries
<1>2. DOMAIN r = S
  BY <1>1
<1>3. IsFiniteSet(S)
  BY StoreAssumption, FS_Subset
<1> QED
  BY <1>1, <1>2, <1>3, StoreAssumption

LEMMA LruIsBefore ==
  ASSUME NEW seq, NEW i, NEW s, NEW among, NEW u \in Nat, NEW v \in Nat,
         s.res[u].last \in Nat, s.res[v].last \in Nat
  PROVE  Before("lru", seq, i, s, among, u, v) <=> LruBefore(s, u, v)
<1> DEFINE a == s.res[u].last
           b == s.res[v].last
           x == <<a, u>>
           y == <<b, v>>
<1>1. Before("lru", seq, i, s, among, u, v) <=>
        \E k \in DOMAIN x : x[k] < y[k] /\ \A j \in 1..(k - 1) : x[j] = y[j]
  BY DEF Before
<1>2. a \in Nat /\ b \in Nat /\ (LruBefore(s, u, v) <=> a < b \/ (a = b /\ u < v))
  BY DEF LruBefore
<1> HIDE DEF a, b
<1>3. DOMAIN x = {1, 2} /\ 1..(1 - 1) = {} /\ 1..(2 - 1) = {1}
  OBVIOUS
<1>4. (\E k \in DOMAIN x : x[k] < y[k] /\ \A j \in 1..(k - 1) : x[j] = y[j]) <=> a < b \/ (a = b /\ u < v)
  <2>1. x[1] = a /\ x[2] = u /\ y[1] = b /\ y[2] = v
    OBVIOUS
  <2>2. (x[1] < y[1] /\ \A j \in 1..(1 - 1) : x[j] = y[j]) <=> a < b
    BY <1>3, <2>1
  <2>3. (x[2] < y[2] /\ \A j \in 1..(2 - 1) : x[j] = y[j]) <=> (a = b /\ u < v)
    BY <1>3, <2>1
  <2> HIDE DEF x, y
  <2> QED
    BY <1>3, <2>2, <2>3
<1> QED
  BY <1>1, <1>2, <1>4

\* Among finitely many there is an oldest, and only one.
LEMMA OldestExists ==
  ASSUME NEW s, s.res \in Entries, NEW among \in SUBSET (DOMAIN s.res), among # {}
  PROVE  \E u \in among : IsOldest(s, u, among)
<1> DEFINE D == DOMAIN s.res
           Good == {A \in SUBSET D : A # {} => \E u \in A : IsOldest(s, u, A)}
<1>1. IsFiniteSet(D) /\ \A t \in D : s.res[t].last \in Nat /\ t \in Nat
  BY EntriesAre
<1> HIDE DEF D
<1>2. ASSUME NEW A \in SUBSET D, \A B \in SUBSET A : B # A => B \in Good
      PROVE  A \in Good
  <2> SUFFICES ASSUME A # {} PROVE \E u \in A : IsOldest(s, u, A)
    OBVIOUS
  <2>1. PICK z \in A : TRUE
    OBVIOUS
  <2>2. CASE A = {z}
    BY <2>2 DEF IsOldest
  <2>3. CASE A # {z}
    <3>1. A \ {z} \in SUBSET A /\ A \ {z} # A /\ A \ {z} # {}
      BY <2>1, <2>3
    <3>2. PICK x \in A \ {z} : IsOldest(s, x, A \ {z})
      BY <1>2, <3>1
    <3>3. x \in D /\ z \in D /\ \A v \in A : v \in D
      OBVIOUS
    <3>4. CASE LruBefore(s, x, z)
      BY <3>2, <3>4 DEF IsOldest
    <3>5. CASE ~ LruBefore(s, x, z)
      <4>1. LruBefore(s, z, x)
        BY <1>1, <3>2, <3>3, <3>5 DEF LruBefore
      <4>2. ASSUME NEW v \in A \ {z} PROVE LruBefore(s, z, v)
        BY <1>1, <3>2, <3>3, <4>1, <4>2 DEF LruBefore, IsOldest
      <4> QED
        BY <2>1, <4>2 DEF IsOldest
    <3> QED
      BY <3>4, <3>5
  <2> QED
    BY <2>2, <2>3
<1> HIDE DEF Good
<1>3. among \in Good
  BY <1>1, <1>2, FiniteInduction DEF D
<1> QED
  BY <1>3 DEF Good

LEMMA OldestIsOne ==
  ASSUME NEW s, s.res \in Entries, NEW among \in SUBSET (DOMAIN s.res), NEW u, NEW v,
         IsOldest(s, u, among), IsOldest(s, v, among)
  PROVE  u = v
<1>1. \A t \in DOMAIN s.res : s.res[t].last \in Nat /\ t \in Nat
  BY EntriesAre
<1> QED
  BY <1>1 DEF IsOldest, LruBefore

-----------------------------------------------------------------------------
(* The evictions of the replay: the oldest of what may go, as long as there is *)
(* no room.                                                                    *)

Room(s, P, size, among) == SizeOf(among \cup (DOMAIN s.res \cap P)) + size <= s.capacity

\* Drops[among]: what stays of among.
Drops(g, s, P, size) ==
  \A among \in SUBSET (DOMAIN s.res \ P) :
    IF among = {} \/ Room(s, P, size, among) THEN g[among] = among
    ELSE \E u \in among : IsOldest(s, u, among) /\ g[among] = g[among \ {u}]

Stays(g, s, P) == g[DOMAIN s.res \ P] \cup (DOMAIN s.res \cap P)

LEMMA KeptDrops ==
  ASSUME NEW seq, NEW i, NEW s, s.res \in Entries, NEW P, NEW size
  PROVE  \E g : Drops(g, s, P, size) /\ Kept("lru", seq, i, s, P, size) = Stays(g, s, P)
<1> DEFINE resident == DOMAIN s.res
           C == resident \ P
           victim(among) == CHOOSE u \in among :
                              \A v \in among \ {u} : Before("lru", seq, i, s, among, u, v)
           is(kept) == kept = [among \in SUBSET C |->
             IF among = {} \/ SizeOf(among \cup (resident \cap P)) + size <= s.capacity
             THEN among ELSE kept[among \ {victim(among)}]]
           f == CHOOSE kept : is(kept)
           stop == [among \in SUBSET C |-> among = {} \/ Room(s, P, size, among)]
           pick == [among \in SUBSET C |-> victim(among)]
<1>1. Kept("lru", seq, i, s, P, size) = f[C] \cup (resident \cap P)
  BY DEF Kept
<1>2. ASSUME NEW among \in SUBSET C, among # {}
      PROVE  IsOldest(s, victim(among), among)
  <2>1. \A t \in DOMAIN s.res : s.res[t].last \in Nat /\ t \in Nat
    BY EntriesAre
  <2>2. PICK u \in among : IsOldest(s, u, among)
    BY <1>2, OldestExists
  <2>3. \A w, v \in among : Before("lru", seq, i, s, among, w, v) <=> LruBefore(s, w, v)
    BY <2>1, LruIsBefore
  <2>4. \E w \in among : \A v \in among \ {w} : Before("lru", seq, i, s, among, w, v)
    BY <2>2, <2>3 DEF IsOldest
  <2>5. /\ victim(among) \in among
        /\ \A v \in among \ {victim(among)} : Before("lru", seq, i, s, among, victim(among), v)
    BY <2>4
  <2> HIDE DEF victim
  <2> QED
    BY <2>3, <2>5 DEF IsOldest
<1> HIDE DEF victim
<1>3. PICK g : Descends(g, C, stop, pick)
  <2>1. IsFiniteSet(C)
    <3>1. IsFiniteSet(DOMAIN s.res)
      BY EntriesAre
    <3> QED
      BY <3>1, FS_Subset
  <2>2. \A S \in SUBSET C : ~ stop[S] => pick[S] \in S
    BY <1>2 DEF IsOldest
  <2> HIDE DEF C, stop, pick
  <2> QED
    BY <2>1, <2>2, DescentExists
<1>4. is(g)
  <2>1. g = [among \in SUBSET C |-> g[among]]
    BY <1>3 DEF Descends
  <2>2. ASSUME NEW among \in SUBSET C
        PROVE  g[among] = IF among = {} \/ SizeOf(among \cup (resident \cap P)) + size <= s.capacity
                          THEN among ELSE g[among \ {victim(among)}]
    <3>1. g[among] = IF stop[among] THEN among ELSE g[among \ {pick[among]}]
      BY <1>3 DEF Descends
    <3> QED
      BY <3>1 DEF Room
  <2> HIDE DEF C
  <2> QED
    BY <2>1, <2>2
<1>5. is(f)
  <2> HIDE DEF is
  <2> QED
    BY <1>4
<1> HIDE DEF f
<1>6. Drops(f, s, P, size)
  <2> SUFFICES ASSUME NEW among \in SUBSET C
               PROVE  IF among = {} \/ Room(s, P, size, among) THEN f[among] = among
                      ELSE \E u \in among : IsOldest(s, u, among) /\ f[among] = f[among \ {u}]
    BY DEF Drops
  <2>1. f[among] = IF among = {} \/ Room(s, P, size, among)
                   THEN among ELSE f[among \ {victim(among)}]
    BY <1>5 DEF Room
  <2>2. among # {} => victim(among) \in among /\ IsOldest(s, victim(among), among)
    BY <1>2 DEF IsOldest
  <2> QED
    BY <2>1, <2>2
<1> QED
  BY <1>1, <1>6 DEF Stays

\* What stays was there.
LEMMA DropsOnly ==
  ASSUME NEW s, s.res \in Entries, NEW P, NEW size, NEW g, Drops(g, s, P, size),
         NEW among \in SUBSET (DOMAIN s.res \ P)
  PROVE  g[among] \subseteq among
<1> DEFINE D == DOMAIN s.res \ P
           Good == {A \in SUBSET D : g[A] \subseteq A}
<1>1. IsFiniteSet(D)
  <2>1. IsFiniteSet(DOMAIN s.res)
    BY EntriesAre
  <2> QED
    BY <2>1, FS_Subset
<1>2. ASSUME NEW A \in SUBSET D, \A B \in SUBSET A : B # A => B \in Good
      PROVE  A \in Good
  <2>1. CASE A = {} \/ Room(s, P, size, A)
    BY <2>1 DEF Drops
  <2>2. CASE ~ (A = {} \/ Room(s, P, size, A))
    <3>1. PICK u \in A : g[A] = g[A \ {u}]
      BY <2>2 DEF Drops
    <3>2. A \ {u} \in Good
      BY <1>2
    <3> QED
      BY <3>1, <3>2
  <2> QED
    BY <2>1, <2>2
<1> HIDE DEF D, Good
<1>3. \A A \in SUBSET D : A \in Good
  BY <1>1, <1>2, FiniteInduction
<1> QED
  BY <1>3 DEF D, Good

\* There is one way to drop.
LEMMA DropsUnique ==
  ASSUME NEW s, s.res \in Entries, NEW P, NEW size, NEW g, Drops(g, s, P, size),
         NEW h, Drops(h, s, P, size), NEW among \in SUBSET (DOMAIN s.res \ P)
  PROVE  g[among] = h[among]
<1> DEFINE D == DOMAIN s.res \ P
           Good == {A \in SUBSET D : g[A] = h[A]}
<1>1. IsFiniteSet(D)
  <2>1. IsFiniteSet(DOMAIN s.res)
    BY EntriesAre
  <2> QED
    BY <2>1, FS_Subset
<1>2. ASSUME NEW A \in SUBSET D, \A B \in SUBSET A : B # A => B \in Good
      PROVE  A \in Good
  <2>1. CASE A = {} \/ Room(s, P, size, A)
    BY <2>1 DEF Drops
  <2>2. CASE ~ (A = {} \/ Room(s, P, size, A))
    <3>1. PICK u \in A : IsOldest(s, u, A) /\ g[A] = g[A \ {u}]
      BY <2>2 DEF Drops
    <3>2. PICK v \in A : IsOldest(s, v, A) /\ h[A] = h[A \ {v}]
      BY <2>2 DEF Drops
    <3>3. u = v
      <4>1. A \in SUBSET (DOMAIN s.res)
        OBVIOUS
      <4> QED
        BY <3>1, <3>2, <4>1, OldestIsOne
    <3>4. A \ {u} \in Good
      BY <1>2
    <3> QED
      BY <3>1, <3>2, <3>3, <3>4
  <2> QED
    BY <2>1, <2>2
<1> HIDE DEF D, Good
<1>3. \A A \in SUBSET D : A \in Good
  BY <1>1, <1>2, FiniteInduction
<1> QED
  BY <1>3 DEF D, Good

\* So the replay of the store's policy looks neither at the requests to come nor
\* at their number.
LEMMA KeptIsOne ==
  ASSUME NEW s, s.res \in Entries, NEW P, NEW size, NEW seq, NEW i, NEW longer, NEW j
  PROVE  /\ Kept("lru", seq, i, s, P, size) \subseteq DOMAIN s.res
         /\ Kept("lru", seq, i, s, P, size) = Kept("lru", longer, j, s, P, size)
<1> DEFINE C == DOMAIN s.res \ P
<1>1. PICK g : Drops(g, s, P, size) /\ Kept("lru", seq, i, s, P, size) = Stays(g, s, P)
  BY KeptDrops
<1>2. PICK h : Drops(h, s, P, size) /\ Kept("lru", longer, j, s, P, size) = Stays(h, s, P)
  BY KeptDrops
<1>3. g[C] \subseteq C
  BY <1>1, DropsOnly
<1>4. g[C] = h[C]
  BY <1>1, <1>2, DropsUnique
<1> QED
  BY <1>1, <1>2, <1>3, <1>4 DEF Stays

\* The evictions end at E if E goes before the rest, makes room or leaves no
\* candidate, and no part of it that goes before the rest makes room.
Leaves(s, P, size, C, E) ==
  /\ Room(s, P, size, C \ E) \/ E = C
  /\ \A u \in E, v \in C \ E : LruBefore(s, u, v)
  /\ \A A \in SUBSET C :
       C \ E \subseteq A /\ A # C \ E /\ (\A u \in C \ A, v \in A : LruBefore(s, u, v))
         => ~ Room(s, P, size, A)

LEMMA KeptLeaves ==
  ASSUME NEW s, s.res \in Entries, NEW P, NEW size, NEW seq, NEW i,
         NEW C, C = DOMAIN s.res \ P, NEW E \in SUBSET C, NEW K, K = DOMAIN s.res \ E,
         Leaves(s, P, size, C, E)
  PROVE  Kept("lru", seq, i, s, P, size) = K
<1> DEFINE rest == C \ E
<1>1. PICK g : Drops(g, s, P, size) /\ Kept("lru", seq, i, s, P, size) = Stays(g, s, P)
  BY KeptDrops
<1> DEFINE Ends == {A \in SUBSET C : rest \subseteq A /\ (\A u \in C \ A, v \in A : LruBefore(s, u, v))
                                       => g[A] = rest}
<1>2. \A t \in DOMAIN s.res : s.res[t].last \in Nat /\ t \in Nat
  BY EntriesAre
<1>3. ASSUME NEW A \in SUBSET C, \A B \in SUBSET A : B # A => B \in Ends
      PROVE  A \in Ends
  <2> SUFFICES ASSUME rest \subseteq A, \A u \in C \ A, v \in A : LruBefore(s, u, v)
               PROVE  g[A] = rest
    OBVIOUS
  <2>1. CASE A = rest
    <3>1. A = {} \/ Room(s, P, size, A)
      BY <2>1 DEF Leaves
    <3> QED
      BY <1>1, <2>1, <3>1 DEF Drops
  <2>2. CASE A # rest
    <3>1. ~ Room(s, P, size, A) /\ A # {}
      BY <2>2 DEF Leaves
    <3>2. PICK u \in A : IsOldest(s, u, A) /\ g[A] = g[A \ {u}]
      BY <1>1, <3>1 DEF Drops
    <3>3. PICK x \in A : x \in E
      BY <2>2
    <3>4. u \in E
      <4> SUFFICES ASSUME u \notin E PROVE FALSE
        OBVIOUS
      <4>1. LruBefore(s, x, u) /\ x # u /\ x \in DOMAIN s.res /\ u \in DOMAIN s.res
        BY <3>3 DEF Leaves
      <4>2. LruBefore(s, u, x)
        BY <3>2, <4>1 DEF IsOldest
      <4> QED
        BY <1>2, <4>1, <4>2 DEF LruBefore
    <3>5. A \ {u} \in SUBSET A /\ A \ {u} # A /\ rest \subseteq A \ {u}
      BY <3>4
    <3>6. \A w \in C \ (A \ {u}), v \in A \ {u} : LruBefore(s, w, v)
      BY <3>2 DEF IsOldest
    <3>7. A \ {u} \in Ends
      BY <1>3, <3>5
    <3> QED
      BY <3>2, <3>5, <3>6, <3>7
  <2> QED
    BY <2>1, <2>2
<1>4. IsFiniteSet(C)
  <2>1. IsFiniteSet(DOMAIN s.res)
    BY EntriesAre
  <2> QED
    BY <2>1, FS_Subset
<1>5. C \in Ends
  <2> HIDE DEF Ends
  <2> QED
    <3>1. \A A \in SUBSET C : (\A B \in SUBSET A : B # A => B \in Ends) => A \in Ends
      BY <1>3
    <3>2. \A A \in SUBSET C : A \in Ends
      BY ONLY <1>4, <3>1, FiniteInduction
    <3> QED
      BY <3>2
<1>6. g[C] = rest
  BY <1>5
<1> QED
  BY <1>1, <1>6 DEF Stays

-----------------------------------------------------------------------------
(* One request of the replay.                                                  *)

ReplayState ==
  [capacity : {MaxBytes}, res : Entries, hits : Nat, evictions : Nat, loads : Nat, reloads : Nat,
   bytes : Nat, again : Nat, loaded : SUBSET Nat, seen : SUBSET Tensors]

\* x has these totals, and t was used last at i.
Served(x, s, t, i, resident, hits, evictions, loads, reloads, seen) ==
  /\ x \in ReplayState /\ DOMAIN x.res = resident
  /\ x.hits = hits /\ x.evictions = evictions /\ x.loads = loads /\ x.reloads = reloads /\ x.seen = seen
  /\ \A u \in resident : x.res[u].last = IF u = t THEN i ELSE s.res[u].last

LEMMA EntriesIntro ==
  ASSUME NEW S \in SUBSET Tensors, NEW r \in [S -> [last : Nat, count : Nat]]
  PROVE  r \in Entries /\ DOMAIN r = S
  BY DEF Entries

LEMMA ServeHit ==
  ASSUME NEW seq, NEW active, NEW s \in ReplayState, NEW i \in Nat, seq[i] \in DOMAIN s.res
  PROVE  Served(Serve("lru", seq, active, s, i), s, seq[i], i, DOMAIN s.res,
                s.hits + 1, s.evictions, s.loads, s.reloads, s.seen)
<1> DEFINE t == seq[i]
           x == Use(s, t, i)
           entry == [last |-> i, count |-> s.res[t].count + 1]
           r == [s.res EXCEPT ![t] = entry]
<1>1. Serve("lru", seq, active, s, i) = x
  BY DEF Serve
<1>2. s.res \in Entries /\ DOMAIN s.res \in SUBSET Tensors
      /\ \A u \in DOMAIN s.res : s.res[u] \in [last : Nat, count : Nat]
  BY EntriesAre DEF ReplayState
<1>3. entry \in [last : Nat, count : Nat]
  BY <1>2
<1>4. s.res \in [DOMAIN s.res -> [last : Nat, count : Nat]]
  <2>1. PICK S \in SUBSET Tensors : s.res \in [S -> [last : Nat, count : Nat]]
    BY <1>2 DEF Entries
  <2> QED
    BY <2>1
<1>5. r \in [DOMAIN s.res -> [last : Nat, count : Nat]]
  BY <1>3, <1>4
<1>6. r \in Entries /\ DOMAIN r = DOMAIN s.res
  BY <1>2, <1>5, EntriesIntro
<1>7. \A u \in DOMAIN s.res : r[u].last = IF u = t THEN i ELSE s.res[u].last
  BY <1>4
<1>8. x = [s EXCEPT !.hits = @ + 1, !.res = r]
  BY DEF Use
<1> HIDE DEF x, r, t
<1>9. x \in ReplayState /\ x.res = r /\ x.hits = s.hits + 1 /\ x.evictions = s.evictions
      /\ x.loads = s.loads /\ x.reloads = s.reloads /\ x.seen = s.seen
  <2> DEFINE y == [s EXCEPT !.hits = @ + 1]
  <2>1. y \in ReplayState
    BY DEF ReplayState
  <2>2. x = [y EXCEPT !.res = r]
    BY <1>8
  <2> HIDE DEF y
  <2>3. x \in ReplayState
    BY <1>6, <2>1, <2>2 DEF ReplayState
  <2> QED
    BY <1>8, <2>3 DEF ReplayState
<1> QED
  BY <1>1, <1>6, <1>7, <1>9 DEF Served, t

LEMMA KeepGives ==
  ASSUME NEW s \in ReplayState, NEW K \in SUBSET (DOMAIN s.res)
  PROVE  /\ Keep(s, K) \in ReplayState
         /\ DOMAIN Keep(s, K).res = K /\ \A u \in K : Keep(s, K).res[u] = s.res[u]
         /\ Keep(s, K).evictions = s.evictions + Cardinality(DOMAIN s.res \ K)
         /\ Keep(s, K).hits = s.hits /\ Keep(s, K).loads = s.loads
         /\ Keep(s, K).reloads = s.reloads /\ Keep(s, K).seen = s.seen
<1> DEFINE x == Keep(s, K)
           r == [u \in K |-> s.res[u]]
           gone == Cardinality(DOMAIN s.res \ K)
<1>1. s.res \in Entries /\ DOMAIN s.res \in SUBSET Tensors /\ IsFiniteSet(DOMAIN s.res)
      /\ \A u \in DOMAIN s.res : s.res[u] \in [last : Nat, count : Nat]
  BY EntriesAre DEF ReplayState
<1>2. r \in Entries /\ DOMAIN r = K
  <2>1. K \in SUBSET Tensors /\ r \in [K -> [last : Nat, count : Nat]]
    BY <1>1
  <2> QED
    BY <2>1, EntriesIntro
<1>3. gone \in Nat
  <2>1. IsFiniteSet(DOMAIN s.res \ K)
    BY <1>1, FS_Subset
  <2> QED
    BY <2>1, FS_CardinalityType
<1>4. x = [s EXCEPT !.res = r, !.evictions = @ + gone]
  BY DEF Keep
<1>5. \A u \in K : r[u] = s.res[u]
  OBVIOUS
<1> HIDE DEF x, r, gone
<1>6. x \in ReplayState /\ x.res = r /\ x.hits = s.hits /\ x.evictions = s.evictions + gone
      /\ x.loads = s.loads /\ x.reloads = s.reloads /\ x.seen = s.seen
  <2> DEFINE y == [s EXCEPT !.res = r]
  <2>1. y \in ReplayState
    BY <1>2 DEF ReplayState
  <2>2. x = [y EXCEPT !.evictions = @ + gone] /\ y.evictions = s.evictions
    BY <1>4 DEF ReplayState
  <2> HIDE DEF y
  <2>3. x \in ReplayState
    BY <1>3, <2>1, <2>2 DEF ReplayState
  <2> QED
    BY <1>4, <2>3 DEF ReplayState
<1> QED
  BY <1>2, <1>5, <1>6 DEF x, gone

LEMMA LoadGives ==
  ASSUME NEW s \in ReplayState, NEW t \in Tensors, NEW again \in BOOLEAN
  PROVE  /\ Load(s, t, again) \in ReplayState
         /\ Load(s, t, again).res = s.res /\ Load(s, t, again).capacity = s.capacity
         /\ Load(s, t, again).hits = s.hits /\ Load(s, t, again).evictions = s.evictions
         /\ Load(s, t, again).loads = s.loads + 1
         /\ Load(s, t, again).reloads = s.reloads + (IF again THEN 1 ELSE 0)
         /\ Load(s, t, again).seen = s.seen \cup {t}
<1> DEFINE one == IF again THEN 1 ELSE 0
           size == IF again THEN Bytes[t] ELSE 0
           a == [s EXCEPT !.seen = @ \cup {t}]
           b == [a EXCEPT !.loads = @ + 1]
           c == [b EXCEPT !.bytes = @ + Bytes[t]]
           d == [c EXCEPT !.reloads = @ + one]
           x == [d EXCEPT !.again = @ + size]
<1>1. one \in Nat /\ size \in Nat /\ Bytes[t] \in Nat
  BY StoreAssumption
<1>2. Load(s, t, again) = x
  BY DEF Load, ReplayState
<1> HIDE DEF one, size
<1>3. a \in ReplayState /\ a.res = s.res /\ a.capacity = s.capacity /\ a.hits = s.hits
      /\ a.evictions = s.evictions /\ a.loads = s.loads /\ a.reloads = s.reloads /\ a.seen = s.seen \cup {t}
  BY DEF ReplayState
<1> HIDE DEF a
<1>4. b \in ReplayState /\ b.res = a.res /\ b.capacity = a.capacity /\ b.hits = a.hits
      /\ b.evictions = a.evictions /\ b.loads = a.loads + 1 /\ b.reloads = a.reloads /\ b.seen = a.seen
  BY <1>1, <1>3 DEF ReplayState
<1> HIDE DEF b
<1>5. c \in ReplayState /\ c.res = b.res /\ c.capacity = b.capacity /\ c.hits = b.hits
      /\ c.evictions = b.evictions /\ c.loads = b.loads /\ c.reloads = b.reloads /\ c.seen = b.seen
  BY <1>1, <1>4 DEF ReplayState
<1> HIDE DEF c
<1>6. d \in ReplayState /\ d.res = c.res /\ d.capacity = c.capacity /\ d.hits = c.hits
      /\ d.evictions = c.evictions /\ d.loads = c.loads /\ d.reloads = c.reloads + one /\ d.seen = c.seen
  BY <1>1, <1>5 DEF ReplayState
<1> HIDE DEF d
<1>7. x \in ReplayState /\ x.res = d.res /\ x.capacity = d.capacity /\ x.hits = d.hits
      /\ x.evictions = d.evictions /\ x.loads = d.loads /\ x.reloads = d.reloads /\ x.seen = d.seen
  BY <1>1, <1>6 DEF ReplayState
<1> HIDE DEF x
<1> QED
  BY <1>2, <1>3, <1>4, <1>5, <1>6, <1>7 DEF one

LEMMA PlaceGives ==
  ASSUME NEW s \in ReplayState, NEW t \in Tensors, t \notin DOMAIN s.res, NEW i \in Nat
  PROVE  /\ SizeOf(DOMAIN s.res) + Bytes[t] > MaxBytes => Place(s, t, i) = s
         /\ SizeOf(DOMAIN s.res) + Bytes[t] <= MaxBytes =>
              Served(Place(s, t, i), s, t, i, DOMAIN s.res \cup {t}, s.hits, s.evictions, s.loads + 1,
                     s.reloads + (IF t \in s.seen THEN 1 ELSE 0), s.seen \cup {t})
<1> DEFINE l == Load(s, t, t \in s.seen)
           entry == [last |-> i, count |-> 1]
           r == With(s.res, t, entry)
           y == [l EXCEPT !.res = r]
           x == [y EXCEPT !.loaded = @ \cup {i}]
<1>1. s.capacity = MaxBytes /\ s.res \in Entries /\ DOMAIN s.res \in SUBSET Tensors
      /\ \A u \in DOMAIN s.res : s.res[u] \in [last : Nat, count : Nat]
  BY EntriesAre DEF ReplayState
<1>2. SizeOf(DOMAIN s.res) \in Nat /\ Bytes[t] \in Nat
  BY <1>1, SizeIsTotal, StoreAssumption
<1>3. ASSUME SizeOf(DOMAIN s.res) + Bytes[t] > MaxBytes PROVE Place(s, t, i) = s
  BY <1>1, <1>3 DEF Place
<1>4. ASSUME SizeOf(DOMAIN s.res) + Bytes[t] <= MaxBytes
      PROVE  Served(Place(s, t, i), s, t, i, DOMAIN s.res \cup {t}, s.hits, s.evictions, s.loads + 1,
                    s.reloads + (IF t \in s.seen THEN 1 ELSE 0), s.seen \cup {t})
  <2>1. /\ l \in ReplayState /\ l.res = s.res /\ l.hits = s.hits /\ l.evictions = s.evictions
        /\ l.loads = s.loads + 1 /\ l.reloads = s.reloads + (IF t \in s.seen THEN 1 ELSE 0)
        /\ l.seen = s.seen \cup {t}
    <3> DEFINE old == t \in s.seen
    <3>1. old \in BOOLEAN
      OBVIOUS
    <3> HIDE DEF old
    <3>2. /\ Load(s, t, old) \in ReplayState /\ Load(s, t, old).res = s.res
          /\ Load(s, t, old).hits = s.hits /\ Load(s, t, old).evictions = s.evictions
          /\ Load(s, t, old).loads = s.loads + 1
          /\ Load(s, t, old).reloads = s.reloads + (IF old THEN 1 ELSE 0)
          /\ Load(s, t, old).seen = s.seen \cup {t}
      BY <3>1, LoadGives
    <3> QED
      BY <3>2 DEF old
  <2>2. r \in Entries /\ DOMAIN r = DOMAIN s.res \cup {t}
        /\ \A u \in DOMAIN s.res \cup {t} : r[u].last = IF u = t THEN i ELSE s.res[u].last
    <3> DEFINE S == DOMAIN s.res \cup {t}
    <3>1. S \in SUBSET Tensors /\ r \in [S -> [last : Nat, count : Nat]]
      BY <1>1 DEF With
    <3>2. \A u \in S : r[u].last = IF u = t THEN i ELSE s.res[u].last
      BY DEF With
    <3> HIDE DEF S, r
    <3>3. r \in Entries /\ DOMAIN r = S
      BY <3>1, EntriesIntro
    <3> QED
      BY <3>2, <3>3 DEF S
  <2>3. ~ (SizeOf(DOMAIN s.res) + Bytes[t] > s.capacity)
    BY <1>1, <1>2, <1>4, StoreAssumption
  <2>4. Place(s, t, i) = x
    BY <2>1, <2>3 DEF Place
  <2> HIDE DEF l, r
  <2>5. y \in ReplayState
    BY <2>1, <2>2 DEF ReplayState
  <2>6. x \in ReplayState
    BY <2>5 DEF ReplayState
  <2>7. x.res = r /\ x.hits = l.hits /\ x.evictions = l.evictions /\ x.loads = l.loads
        /\ x.reloads = l.reloads /\ x.seen = l.seen
    BY <2>1, <2>5 DEF ReplayState
  <2> HIDE DEF x
  <2> QED
    BY <2>1, <2>2, <2>4, <2>6, <2>7 DEF Served
<1> QED
  BY <1>3, <1>4

\* A request that misses drops what Kept leaves out, and then loads or not.
LEMMA ServeMiss ==
  ASSUME NEW seq, NEW active, NEW s \in ReplayState, NEW i \in Nat,
         seq[i] \in Tensors, seq[i] \notin DOMAIN s.res,
         NEW K, K = Kept("lru", seq, i, s, active[i], Bytes[seq[i]])
  PROVE  /\ K \in SUBSET (DOMAIN s.res)
         /\ SizeOf(K) + Bytes[seq[i]] <= MaxBytes =>
              Served(Serve("lru", seq, active, s, i), s, seq[i], i, K \cup {seq[i]}, s.hits,
                     s.evictions + Cardinality(DOMAIN s.res \ K), s.loads + 1,
                     s.reloads + (IF seq[i] \in s.seen THEN 1 ELSE 0), s.seen \cup {seq[i]})
         /\ SizeOf(K) + Bytes[seq[i]] > MaxBytes =>
              Served(Serve("lru", seq, active, s, i), s, seq[i], i, K, s.hits,
                     s.evictions + Cardinality(DOMAIN s.res \ K), s.loads, s.reloads, s.seen)
<1> DEFINE t == seq[i]
           P == active[i]
           size == Bytes[t]
           y == Keep(s, K)
           gone == Cardinality(DOMAIN s.res \ K)
<1>1. t \in Tensors /\ t \notin DOMAIN s.res /\ K = Kept("lru", seq, i, s, P, size)
  OBVIOUS
<1>2. Serve("lru", seq, active, s, i) = Place(y, t, i)
  BY <1>1 DEF Serve
<1>3. s.res \in Entries
  BY DEF ReplayState
<1> HIDE DEF t, P, size
<1>4. K \in SUBSET (DOMAIN s.res)
  BY <1>1, <1>3, KeptIsOne
<1>5. /\ y \in ReplayState /\ DOMAIN y.res = K /\ \A u \in K : y.res[u] = s.res[u]
      /\ y.evictions = s.evictions + gone /\ y.hits = s.hits /\ y.loads = s.loads
      /\ y.reloads = s.reloads /\ y.seen = s.seen
  BY <1>4, KeepGives
<1> HIDE DEF y, gone
<1>6. t \notin DOMAIN y.res /\ t \notin K
  BY <1>1, <1>4, <1>5
<1>7. /\ SizeOf(K) + Bytes[t] > MaxBytes => Place(y, t, i) = y
      /\ SizeOf(K) + Bytes[t] <= MaxBytes =>
           Served(Place(y, t, i), y, t, i, K \cup {t}, y.hits, y.evictions, y.loads + 1,
                  y.reloads + (IF t \in y.seen THEN 1 ELSE 0), y.seen \cup {t})
  BY <1>1, <1>5, <1>6, PlaceGives
<1>8. ASSUME SizeOf(K) + Bytes[t] <= MaxBytes
      PROVE  Served(Place(y, t, i), s, t, i, K \cup {t}, s.hits, s.evictions + gone, s.loads + 1,
                    s.reloads + (IF t \in s.seen THEN 1 ELSE 0), s.seen \cup {t})
  <2> DEFINE x == Place(y, t, i)
  <2>1. Served(x, y, t, i, K \cup {t}, s.hits, s.evictions + gone, s.loads + 1,
               s.reloads + (IF t \in s.seen THEN 1 ELSE 0), s.seen \cup {t})
    BY <1>5, <1>7, <1>8
  <2> HIDE DEF x
  <2>2. \A u \in K \cup {t} : x.res[u].last = IF u = t THEN i ELSE s.res[u].last
    <3> TAKE u \in K \cup {t}
    <3>1. x.res[u].last = IF u = t THEN i ELSE y.res[u].last
      BY <2>1 DEF Served
    <3>2. u # t => y.res[u] = s.res[u]
      BY <1>5
    <3> QED
      BY <3>1, <3>2
  <2>3. Served(x, s, t, i, K \cup {t}, s.hits, s.evictions + gone, s.loads + 1,
               s.reloads + (IF t \in s.seen THEN 1 ELSE 0), s.seen \cup {t})
    BY <2>1, <2>2 DEF Served
  <2> QED
    BY <2>3 DEF x
<1>9. ASSUME SizeOf(K) + Bytes[t] > MaxBytes
      PROVE  Served(Place(y, t, i), s, t, i, K, s.hits, s.evictions + gone, s.loads, s.reloads, s.seen)
  BY <1>5, <1>6, <1>7, <1>9 DEF Served
<1> QED
  BY <1>2, <1>4, <1>8, <1>9 DEF t, gone

LEMMA ServeKeeps ==
  ASSUME NEW seq, NEW active, NEW s \in ReplayState, NEW i \in Nat, seq[i] \in Tensors
  PROVE  Serve("lru", seq, active, s, i) \in ReplayState
<1>1. CASE seq[i] \in DOMAIN s.res
  BY <1>1, ServeHit DEF Served
<1>2. CASE seq[i] \notin DOMAIN s.res
  <2> DEFINE K == Kept("lru", seq, i, s, active[i], Bytes[seq[i]])
             x == Serve("lru", seq, active, s, i)
  <2>1. K \in SUBSET (DOMAIN s.res) /\ s.res \in Entries
    <3>1. s.res \in Entries
      BY DEF ReplayState
    <3> QED
      BY <3>1, KeptIsOne
  <2>2. SizeOf(K) \in Nat /\ Bytes[seq[i]] \in Nat
    <3>1. K \in SUBSET Tensors
      BY <2>1, EntriesAre
    <3> QED
      BY <3>1, SizeIsTotal, StoreAssumption
  <2> HIDE DEF K
  <2>3. \/ SizeOf(K) + Bytes[seq[i]] <= MaxBytes
        \/ SizeOf(K) + Bytes[seq[i]] > MaxBytes
    BY <2>2, StoreAssumption
  <2>4. K = Kept("lru", seq, i, s, active[i], Bytes[seq[i]])
    BY DEF K
  <2>5. \/ Served(x, s, seq[i], i, K \cup {seq[i]}, s.hits,
                  s.evictions + Cardinality(DOMAIN s.res \ K), s.loads + 1,
                  s.reloads + (IF seq[i] \in s.seen THEN 1 ELSE 0), s.seen \cup {seq[i]})
        \/ Served(x, s, seq[i], i, K, s.hits,
                  s.evictions + Cardinality(DOMAIN s.res \ K), s.loads, s.reloads, s.seen)
    BY <1>2, <2>3, <2>4, ServeMiss
  <2> QED
    BY <2>5 DEF Served
<1> QED
  BY <1>1, <1>2

\* It looks at its own request only.
LEMMA ServeLooksAtOne ==
  ASSUME NEW seq, NEW active, NEW longer, NEW more, NEW s \in ReplayState, NEW i,
         longer[i] = seq[i], more[i] = active[i]
  PROVE  Serve("lru", longer, more, s, i) = Serve("lru", seq, active, s, i)
<1>1. s.res \in Entries
  BY DEF ReplayState
<1>2. Kept("lru", longer, i, s, active[i], Bytes[seq[i]]) = Kept("lru", seq, i, s, active[i], Bytes[seq[i]])
  BY <1>1, KeptIsOne
<1> QED
  BY <1>2 DEF Serve

-----------------------------------------------------------------------------
(* The replay as a run through the requests.                                   *)

LruSteps(seq, active) ==
  [k \in 1..Len(seq) |-> [s \in ReplayState |-> Serve("lru", seq, active, s, k)]]

LruReplay(seq, active) == Simulate(seq, active, MaxBytes, "lru")

LEMMA FreshIs == Fresh(MaxBytes) \in ReplayState
<1>1. <<>> \in Entries
  <2> DEFINE r == <<>>
             S == {}
  <2>1. S \in SUBSET Tensors /\ DOMAIN r = S /\ r = [u \in S |-> r[u]]
    OBVIOUS
  <2>2. r \in [S -> [last : Nat, count : Nat]]
    BY <2>1
  <2> HIDE DEF r, S
  <2>3. r \in Entries
    BY <2>1, <2>2 DEF Entries
  <2> QED
    BY <2>3 DEF r
<1> QED
  BY <1>1, StoreAssumption DEF Fresh, ReplayState

LEMMA LruRuns ==
  ASSUME NEW seq \in Seq(Tensors), NEW active
  PROVE  \E r : Runs(r, Len(seq), ReplayState, Fresh(MaxBytes), LruSteps(seq, active)) /\ r[Len(seq)] = LruReplay(seq, active)
<1> DEFINE n == Len(seq)
           at == [i \in DOMAIN seq |-> i]
           is(f) == f = [s \in SUBSET (DOMAIN at) |->
                           IF s = {} THEN Fresh(MaxBytes) ELSE Serve("lru", seq, active, f[s \ {Max(s)}], at[Max(s)])]
           f == CHOOSE g : is(g)
<1>1. /\ n \in Nat /\ DOMAIN at = 1..n /\ Fresh(MaxBytes) \in ReplayState
      /\ \A k \in 1..n : seq[k] \in Tensors /\ k \in Nat /\ at[k] = k
  BY FreshIs
<1>2. Steps(1..n, ReplayState, LruSteps(seq, active))
  <2>1. ASSUME NEW k \in 1..n, NEW v \in ReplayState PROVE Serve("lru", seq, active, v, k) \in ReplayState
    BY <1>1, ServeKeeps
  <2> QED
    BY <2>1 DEF Steps, LruSteps
<1> HIDE DEF n
<1>3. PICK g : FoldsOn(g, 1..n, ReplayState, Fresh(MaxBytes), Latest(n), LruSteps(seq, active))
  <2> DEFINE V == ReplayState
             base == Fresh(MaxBytes)
  <2>1. n \in Nat /\ base \in V /\ Steps(1..n, V, LruSteps(seq, active))
    BY <1>1, <1>2
  <2> HIDE DEF V, base
  <2>2. \E g : FoldsOn(g, 1..n, V, base, Latest(n), LruSteps(seq, active))
    BY <2>1, FoldFinds
  <2> QED
    BY <2>2 DEF V, base
<1>4. \A s \in SUBSET (1..n) : s # {} => Max(s) \in s /\ Latest(n)[s] = Max(s)
  BY <1>1, LatestPicks DEF Picks, Latest
<1>5. ASSUME NEW s \in SUBSET (1..n), s # {}
      PROVE  \A v \in ReplayState : LruSteps(seq, active)[Max(s)][v] = Serve("lru", seq, active, v, at[Max(s)])
  <2>1. Max(s) \in 1..n /\ at[Max(s)] = Max(s)
    BY <1>1, <1>4, <1>5
  <2> HIDE DEF at
  <2> QED
    BY <2>1 DEF LruSteps, n
<1>6. is(g)
  <2>1. g = [s \in SUBSET (1..n) |-> g[s]] /\ g[{}] = Fresh(MaxBytes)
    BY <1>3 DEF FoldsOn, Folds, FoldStep
  <2>2. ASSUME NEW s \in SUBSET (1..n), s # {} PROVE g[s] = Serve("lru", seq, active, g[s \ {Max(s)}], at[Max(s)])
    <3>1. g[s] = LruSteps(seq, active)[Max(s)][g[s \ {Max(s)}]]
      BY <1>3, <1>4, <2>2 DEF FoldsOn, Folds, FoldStep
    <3>2. g[s \ {Max(s)}] \in ReplayState
      BY <1>3 DEF FoldsOn
    <3> QED
      BY <1>5, <2>2, <3>1, <3>2
  <2> QED
    BY <1>1, <2>1, <2>2
<1>7. is(f)
  BY <1>6
<1>8. LruReplay(seq, active) = f[DOMAIN at]
  BY DEF LruReplay, Simulate, FoldLeft, MapThenFoldSet
<1> HIDE DEF f
<1>9. FoldsWithin(f, n, ReplayState, Fresh(MaxBytes), LruSteps(seq, active))
  <2>1. f[{}] = Fresh(MaxBytes)
    BY <1>7
  <2>2. ASSUME NEW s \in SUBSET (1..n), s # {} PROVE f[s] = Serve("lru", seq, active, f[s \ {Max(s)}], at[Max(s)])
    BY <1>1, <1>7, <2>2
  <2> QED
    BY <1>5, <2>1, <2>2 DEF FoldsWithin
<1>10. \E r : Runs(r, n, ReplayState, Fresh(MaxBytes), LruSteps(seq, active)) /\ r[n] = f[1..n]
  <2> DEFINE V == ReplayState
             base == Fresh(MaxBytes)
  <2>1. n \in Nat /\ base \in V /\ Steps(1..n, V, LruSteps(seq, active)) /\ FoldsWithin(f, n, V, base, LruSteps(seq, active))
    BY <1>1, <1>2, <1>9
  <2> HIDE DEF V, base
  <2>2. \E r : Runs(r, n, V, base, LruSteps(seq, active)) /\ r[n] = f[1..n]
    BY <2>1, FoldRuns
  <2> QED
    BY <2>2 DEF V, base
<1> QED
  BY <1>1, <1>8, <1>10 DEF n

LEMMA LruAppends ==
  ASSUME NEW seq \in Seq(Tensors), NEW t \in Tensors, NEW active, NEW P, Len(active) = Len(seq),
         active \in Seq(SUBSET Tensors), P \in SUBSET Tensors
  PROVE  /\ LruReplay(seq, active) \in ReplayState
         /\ LruReplay(Append(seq, t), Append(active, P)) =
              Serve("lru", Append(seq, t), Append(active, P), LruReplay(seq, active), Len(seq) + 1)
<1> DEFINE n == Len(seq)
           longer == Append(seq, t)
           more == Append(active, P)
<1>1. /\ n \in Nat /\ longer \in Seq(Tensors) /\ Len(longer) = n + 1
      /\ \A k \in 1..n : longer[k] = seq[k] /\ more[k] = active[k]
  OBVIOUS
<1>2. PICK r : Runs(r, n, ReplayState, Fresh(MaxBytes), LruSteps(seq, active)) /\ r[n] = LruReplay(seq, active)
  BY LruRuns
<1>3. PICK q : /\ Runs(q, n + 1, ReplayState, Fresh(MaxBytes), LruSteps(longer, more))
               /\ q[n + 1] = LruReplay(longer, more)
  BY <1>1, LruRuns
<1> HIDE DEF longer, more
<1>4. SameSteps(n, ReplayState, LruSteps(seq, active), LruSteps(longer, more))
  <2>1. ASSUME NEW k \in 1..n, NEW v \in ReplayState
        PROVE  Serve("lru", longer, more, v, k) = Serve("lru", seq, active, v, k)
    BY <1>1, ServeLooksAtOne
  <2>2. 1..n \subseteq 1..(n + 1)
    BY <1>1
  <2> QED
    BY <1>1, <2>1, <2>2 DEF LruSteps, SameSteps
<1>5. \A v \in ReplayState : LruSteps(longer, more)[n + 1][v] = Serve("lru", longer, more, v, n + 1)
  BY <1>1 DEF LruSteps
<1> HIDE DEF n
<1>6. r[n] \in ReplayState /\ q[n + 1] = LruSteps(longer, more)[n + 1][r[n]]
  <2> DEFINE V == ReplayState
             base == Fresh(MaxBytes)
             m == n + 1
             step == LruSteps(seq, active)
             wider == LruSteps(longer, more)
  <2>1. /\ n \in Nat /\ m = n + 1 /\ SameSteps(n, V, step, wider)
        /\ Runs(r, n, V, base, step) /\ Runs(q, m, V, base, wider)
    BY <1>1, <1>2, <1>3, <1>4
  <2> HIDE DEF V, base, m, step, wider
  <2>2. r[n] \in V /\ q[m] = wider[m][r[n]]
    BY <2>1, RunsExtend
  <2> QED
    BY <2>2 DEF V, m, wider
<1> QED
  BY <1>2, <1>3, <1>5, <1>6 DEF longer, more, n

-----------------------------------------------------------------------------
(* The order of the store.  It keeps the requested tensors in a list, which    *)
(* must put what is resident in the order of the last uses of the replay.      *)

Ordered(q, r) ==
  /\ q \in Seq(Tensors) /\ \A a, b \in DOMAIN q : q[a] = q[b] => a = b
  /\ \A u \in DOMAIN r : \E a \in DOMAIN q : q[a] = u
  /\ \A a, b \in DOMAIN q : a < b /\ q[a] \in DOMAIN r /\ q[b] \in DOMAIN r => r[q[a]].last < r[q[b]].last

\* Where each element of the shorter list was.
Moves(f, w, q) ==
  /\ f \in [DOMAIN w -> DOMAIN q] /\ \A a, b \in DOMAIN w : a < b => f[a] < f[b]
  /\ \A a \in DOMAIN w : w[a] = q[f[a]]

LEMMA RemoveOne ==
  ASSUME NEW q \in Seq(Tensors), \A a, b \in DOMAIN q : q[a] = q[b] => a = b, NEW t
  PROVE  LET w == RemoveFirst(q, t)
         IN  /\ w \in Seq(Tensors) /\ \A a \in DOMAIN w : w[a] # t
             /\ \E f : Moves(f, w, q) /\ \A b \in DOMAIN q : q[b] # t => \E a \in DOMAIN w : f[a] = b
<1> DEFINE w == RemoveFirst(q, t)
           n == Len(q)
<1>1. n \in Nat /\ DOMAIN q = 1..n /\ \A a \in 1..n : q[a] \in Tensors
  OBVIOUS
<1>2. CASE ~ \E j \in 1..n : q[j] = t
  <2>1. w = q
    BY <1>2 DEF RemoveFirst
  <2> DEFINE f == [a \in DOMAIN q |-> a]
  <2> HIDE DEF w
  <2>2. Moves(f, w, q) /\ \A b \in DOMAIN q : q[b] # t => \E a \in DOMAIN w : f[a] = b
    BY <2>1 DEF Moves
  <2> QED
    BY <1>1, <1>2, <2>1, <2>2 DEF w
<1>3. CASE \E j \in 1..n : q[j] = t
  <2>1. PICK j \in 1..n : q[j] = t
    BY <1>3
  <2>2. \A i \in 1..n : q[i] = t <=> i = j
    BY <1>1, <2>1
  <2>3. {i \in 1..n : q[i] = t} = {j}
    BY <2>2
  <2>4. Min({j}) = j
    <3>1. \E x \in {j} : \A y \in {j} : x =< y
      BY <1>1
    <3> QED
      BY <3>1 DEF Min
  <2>5. w = SubSeq(q, 1, j - 1) \o SubSeq(q, j + 1, n)
    <3>1. w = RemoveAt(q, IF {i \in 1..n : q[i] = t} # {} THEN Min({i \in 1..n : q[i] = t}) ELSE 0)
      BY <1>3 DEF RemoveFirst, SelectInSeq
    <3>2. w = RemoveAt(q, j)
      BY <2>3, <2>4, <3>1
    <3> QED
      BY <3>2 DEF RemoveAt
  <2> DEFINE x == SubSeq(q, 1, j - 1)
             y == SubSeq(q, j + 1, n)
             m == n - 1
  <2>6. x \in Seq(Tensors) /\ Len(x) = j - 1 /\ \A a \in 1..(j - 1) : x[a] = q[a]
    BY <1>1
  <2>7. y \in Seq(Tensors) /\ Len(y) = n - j /\ \A a \in 1..(n - j) : y[a] = q[a + j]
    <3> DEFINE low == j + 1
    <3>1. low \in Int /\ n \in Int /\ \A a \in low..n : q[a] \in Tensors
      BY <1>1
    <3> HIDE DEF low
    <3>2. /\ SubSeq(q, low, n) \in Seq(Tensors)
          /\ Len(SubSeq(q, low, n)) = IF low <= n THEN n - low + 1 ELSE 0
          /\ \A a \in 1..(n - low + 1) : SubSeq(q, low, n)[a] = q[low + a - 1]
      BY <3>1, SubSeqProperties
    <3>3. low = j + 1 /\ j \in 1..n /\ n \in Nat
      BY <1>1 DEF low
    <3>4. y = SubSeq(q, low, n)
      BY DEF low
    <3> HIDE DEF y, n
    <3>5. Len(y) = n - j
      BY <3>2, <3>3, <3>4
    <3>6. ASSUME NEW a \in 1..(n - j) PROVE y[a] = q[a + j]
      <4>1. a \in 1..(n - low + 1) /\ low + a - 1 = a + j
        BY <3>3
      <4> QED
        BY <3>2, <3>4, <4>1
    <3> QED
      BY <3>2, <3>4, <3>5, <3>6
  <2> HIDE DEF x, y, w
  <2>8. w \in Seq(Tensors) /\ Len(w) = n - 1
        /\ \A a \in 1..(n - 1) : w[a] = IF a < j THEN q[a] ELSE q[a + 1]
    <3>1. w = x \o y
      BY <2>5 DEF x, y
    <3>2. w \in Seq(Tensors) /\ Len(w) = n - 1
      <4>1. w \in Seq(Tensors) /\ Len(w) = Len(x) + Len(y)
        BY <2>6, <2>7, <3>1, ConcatProperties
      <4> HIDE DEF n
      <4> QED
        BY <1>1, <2>6, <2>7, <4>1
    <3>3. ASSUME NEW a \in 1..(n - 1) PROVE w[a] = IF a < j THEN q[a] ELSE q[a + 1]
      <4>1. CASE a < j
        BY <1>1, <2>6, <2>7, <3>1, <4>1
      <4>2. CASE ~ (a < j)
        <5>1. w[a] = y[a - (j - 1)] /\ a - (j - 1) \in 1..(n - j)
          BY <1>1, <2>6, <2>7, <3>1, <4>2
        <5>2. y[a - (j - 1)] = q[(a - (j - 1)) + j] /\ (a - (j - 1)) + j = a + 1
          BY <1>1, <2>7, <5>1
        <5> QED
          BY <4>2, <5>1, <5>2
      <4> QED
        BY <4>1, <4>2
    <3> QED
      BY <3>2, <3>3
  <2> DEFINE f == [a \in 1..(n - 1) |-> IF a < j THEN a ELSE a + 1]
  <2>9. DOMAIN w = 1..(n - 1)
    BY <1>1, <2>8
  <2>10. f \in [1..(n - 1) -> 1..n] /\ \A a, b \in 1..(n - 1) : a < b => f[a] < f[b]
    BY <1>1
  <2>11. \A a \in 1..(n - 1) : w[a] = q[f[a]] /\ f[a] # j
    BY <1>1, <2>8
  <2>12. \A b \in 1..n : b # j => \E a \in 1..(n - 1) : f[a] = b
    <3> SUFFICES ASSUME NEW b \in 1..n, b # j PROVE \E a \in 1..(n - 1) : f[a] = b
      OBVIOUS
    <3>1. CASE b < j
      <4>1. b \in 1..(n - 1) /\ f[b] = b
        BY <1>1, <3>1
      <4> QED
        BY <4>1
    <3>2. CASE ~ (b < j)
      <4>1. b - 1 \in 1..(n - 1) /\ ~ (b - 1 < j) /\ (b - 1) + 1 = b
        BY <1>1, <3>2
      <4>2. f[b - 1] = b
        BY <4>1
      <4> QED
        BY <4>1, <4>2
    <3> QED
      BY <3>1, <3>2
  <2> HIDE DEF f
  <2>13. Moves(f, w, q) /\ \A b \in DOMAIN q : q[b] # t => \E a \in DOMAIN w : f[a] = b
    BY <1>1, <2>2, <2>9, <2>10, <2>11, <2>12 DEF Moves
  <2>14. \A a \in DOMAIN w : w[a] # t
    BY <2>2, <2>9, <2>10, <2>11
  <2> QED
    BY <2>8, <2>13, <2>14 DEF w
<1> QED
  BY <1>2, <1>3

\* A request moves its tensor to the end of the list and of the order.
LEMMA AskedKeepsOrder ==
  ASSUME NEW r, Ordered(last_request_, r), NEW t \in Tensors, NEW i \in Nat,
         \A u \in DOMAIN r : r[u].last \in Nat /\ r[u].last < i,
         NEW s, DOMAIN s \subseteq DOMAIN r \cup {t},
         \A u \in DOMAIN s : s[u].last = IF u = t THEN i ELSE r[u].last
  PROVE  Ordered(AskedLast(t), s)
<1> DEFINE q == last_request_
           w == RemoveFirst(q, t)
           n == Len(w)
           p == Append(w, t)
<1>1. q \in Seq(Tensors) /\ \A a, b \in DOMAIN q : q[a] = q[b] => a = b
  BY DEF Ordered
<1> DEFINE D == DOMAIN q
<1>2. /\ w \in Seq(Tensors) /\ \A a \in DOMAIN w : w[a] # t
      /\ \E f : Moves(f, w, q) /\ \A b \in DOMAIN q : q[b] # t => \E a \in DOMAIN w : f[a] = b
  BY <1>1, RemoveOne
<1> HIDE DEF q, w
<1>3. PICK f : Moves(f, w, q) /\ \A b \in DOMAIN q : q[b] # t => \E a \in DOMAIN w : f[a] = b
  BY <1>2
<1>4. /\ n \in Nat /\ DOMAIN w = 1..n /\ p \in Seq(Tensors) /\ DOMAIN p = 1..(n + 1)
      /\ p[n + 1] = t /\ \A a \in 1..n : p[a] = w[a]
  BY <1>2
<1> HIDE DEF p, n
<1>5. AskedLast(t) = p
  BY DEF AskedLast, p, w, q
<1>6. \A a, b \in 1..n : p[a] = p[b] => a = b
  <2> SUFFICES ASSUME NEW a \in 1..n, NEW b \in 1..n, p[a] = p[b] PROVE a = b
    OBVIOUS
  <2>1. q[f[a]] = q[f[b]] /\ f[a] \in DOMAIN q /\ f[b] \in DOMAIN q
    BY <1>3, <1>4 DEF Moves
  <2>2. f[a] = f[b]
    BY <1>1, <2>1
  <2>3. DOMAIN q \subseteq Nat
    BY <1>1
  <2>4. ~ (f[a] < f[b]) /\ ~ (f[b] < f[a])
    BY <2>1, <2>2, <2>3
  <2>5. ~ (a < b) /\ ~ (b < a)
    BY <1>3, <1>4, <2>4 DEF Moves
  <2> QED
    BY <1>4, <2>5
<1>7. \A a, b \in 1..(n + 1) : p[a] = p[b] => a = b
  <2>1. \A a \in 1..n : p[a] # t
    BY <1>2, <1>4
  <2>2. \A a \in 1..(n + 1) : a \in 1..n \/ a = n + 1
    BY <1>4
  <2> QED
    BY <1>4, <1>6, <2>1, <2>2
<1>8. \A u \in DOMAIN s : \E a \in 1..(n + 1) : p[a] = u
  <2> SUFFICES ASSUME NEW u \in DOMAIN s, u # t PROVE \E a \in 1..n : p[a] = u
    BY <1>4
  <2>1. PICK b \in DOMAIN q : q[b] = u
    BY DEF Ordered, q
  <2>2. PICK a \in DOMAIN w : f[a] = b
    BY <1>3, <2>1
  <2> QED
    BY <1>3, <1>4, <2>1, <2>2 DEF Moves
<1>9. ASSUME NEW a \in 1..(n + 1), NEW b \in 1..(n + 1), a < b, p[a] \in DOMAIN s, p[b] \in DOMAIN s
      PROVE  s[p[a]].last < s[p[b]].last
  <2>1. a \in 1..n /\ p[a] # t /\ p[a] \in DOMAIN r /\ s[p[a]].last = r[p[a]].last
    <3>1. a \in 1..n
      BY <1>4, <1>9
    <3> QED
      BY <1>2, <1>4, <1>9, <3>1
  <2>2. CASE b = n + 1
    BY <1>4, <1>9, <2>1, <2>2
  <2>3. CASE b # n + 1
    <3>1. b \in 1..n
      BY <1>4, <2>3
    <3>2. p[b] # t /\ p[b] \in DOMAIN r /\ s[p[b]].last = r[p[b]].last
      BY <1>2, <1>4, <1>9, <3>1
    <3>3. f[a] < f[b] /\ f[a] \in DOMAIN q /\ f[b] \in DOMAIN q /\ q[f[a]] = p[a] /\ q[f[b]] = p[b]
      BY <1>3, <1>4, <1>9, <2>1, <3>1 DEF Moves
    <3>4. r[p[a]].last < r[p[b]].last
      BY <2>1, <3>2, <3>3 DEF Ordered, q
    <3> QED
      BY <2>1, <3>2, <3>4
  <2> QED
    BY <2>2, <2>3
<1> QED
  BY <1>4, <1>5, <1>7, <1>8, <1>9 DEF Ordered

\* So both orders are one on what is resident.
LEMMA OlderIsBefore ==
  ASSUME NEW s, s.res \in Entries, Ordered(last_request_, s.res),
         NEW u \in DOMAIN s.res, NEW v \in DOMAIN s.res
  PROVE  Older(u, v) <=> LruBefore(s, u, v)
<1> DEFINE q == last_request_
           ordinal(x) == IF x \in ToSet(last_request_)
                         THEN CHOOSE i \in DOMAIN last_request_ : last_request_[i] = x
                         ELSE 0
<1>1. Older(u, v) <=> ordinal(u) < ordinal(v) \/ (ordinal(u) = ordinal(v) /\ u < v)
  BY DEF Older
<1>2. ASSUME NEW x \in DOMAIN s.res PROVE ordinal(x) \in DOMAIN q /\ q[ordinal(x)] = x
  <2>1. \E i \in DOMAIN q : q[i] = x
    BY DEF Ordered
  <2>2. x \in ToSet(q)
    BY <2>1 DEF ToSet
  <2>3. ordinal(x) = CHOOSE i \in DOMAIN q : q[i] = x
    BY <2>2
  <2> HIDE DEF ordinal
  <2> QED
    BY <2>1, <2>3
<1> HIDE DEF ordinal
<1>3. DOMAIN q \subseteq Nat
  BY DEF Ordered
<1>4. /\ s.res[u].last \in Nat /\ s.res[v].last \in Nat /\ u \in Nat /\ v \in Nat
      /\ ordinal(u) \in Nat /\ ordinal(v) \in Nat
  BY <1>2, <1>3, EntriesAre
<1>5. ordinal(u) < ordinal(v) => s.res[u].last < s.res[v].last
  BY <1>2 DEF Ordered
<1>6. ordinal(v) < ordinal(u) => s.res[v].last < s.res[u].last
  BY <1>2 DEF Ordered
<1>7. ordinal(u) = ordinal(v) => u = v
  BY <1>2
<1> QED
  BY <1>1, <1>4, <1>5, <1>6, <1>7 DEF LruBefore

\* The order of the list is that of the last uses in the trace.
LEMMA LastUsesAre ==
  ASSUME NEW seq \in Seq(Tensors)
  PROVE  /\ LastUses(seq) \in Entries /\ DOMAIN LastUses(seq) = Range(seq)
         /\ \A u \in Range(seq) : LastUses(seq)[u].last = LastUse(seq, u) /\ LastUse(seq, u) \in Nat
<1> DEFINE S == Range(seq)
           r == LastUses(seq)
<1>1. S \in SUBSET Tensors
  BY DEF Range
<1>2. \A u \in S : LastUse(seq, u) \in Nat
  <2> TAKE u \in S
  <2>1. LastUse(seq, u) \in 1..Len(seq)
    BY LastUseIs
  <2> QED
    BY <2>1
<1>3. r = [u \in S |-> [last |-> LastUse(seq, u), count |-> 1]]
  BY DEF LastUses
<1> HIDE DEF r, S
<1>4. r \in [S -> [last : Nat, count : Nat]] /\ \A u \in S : r[u].last = LastUse(seq, u)
  BY <1>2, <1>3
<1>5. r \in Entries /\ DOMAIN r = S
  BY <1>1, <1>4, EntriesIntro
<1> QED
  BY <1>2, <1>4, <1>5 DEF r, S

LEMMA OrderStarts ==
  ASSUME last_request_ = <<>>, NEW seq, seq = <<>>
  PROVE  Ordered(last_request_, LastUses(seq))
<1>1. seq \in Seq(Tensors) /\ Range(seq) = {}
  BY DEF Range
<1>2. DOMAIN LastUses(seq) = {}
  BY <1>1, LastUsesAre
<1> QED
  BY <1>2 DEF Ordered

LEMMA AskedOrders ==
  ASSUME NEW seq \in Seq(Tensors), Ordered(last_request_, LastUses(seq)), NEW t \in Tensors,
         NEW longer, longer = Append(seq, t)
  PROVE  Ordered(AskedLast(t), LastUses(longer))
<1> DEFINE r == LastUses(seq)
           s == LastUses(longer)
           i == Len(longer)
<1>1. longer \in Seq(Tensors) /\ i = Len(seq) + 1 /\ Range(longer) = Range(seq) \cup {t} /\ LastUse(longer, t) = i
  BY LastUseAppends
<1>2. i \in Nat
  BY <1>1
<1>3. DOMAIN r = Range(seq) /\ \A u \in Range(seq) : r[u].last = LastUse(seq, u)
  BY LastUsesAre
<1>4. DOMAIN s = Range(longer) /\ \A u \in Range(longer) : s[u].last = LastUse(longer, u)
  BY <1>1, LastUsesAre
<1>5. ASSUME NEW u \in DOMAIN r PROVE r[u].last \in Nat /\ r[u].last < i
  <2>1. r[u].last \in 1..Len(seq)
    BY <1>3, LastUseIs
  <2> QED
    BY <1>1, <2>1
<1>6. ASSUME NEW u \in DOMAIN s PROVE s[u].last = IF u = t THEN i ELSE r[u].last
  <2>1. CASE u = t
    BY <1>1, <1>4, <2>1
  <2>2. CASE u # t
    <3>1. u \in Range(seq)
      BY <1>1, <1>4, <2>2
    <3> QED
      BY <1>3, <1>4, <2>2, <3>1, LastUseStays
  <2> QED
    BY <2>1, <2>2
<1>7. DOMAIN s \subseteq DOMAIN r \cup {t}
  BY <1>1, <1>3, <1>4
<1>8. Ordered(last_request_, r)
  OBVIOUS
<1> HIDE DEF r, s, i
<1>9. Ordered(AskedLast(t), s)
  BY <1>2, <1>5, <1>6, <1>7, <1>8, AskedKeepsOrder
<1> QED
  BY <1>9 DEF s

LEMMA OlderIsEarlier ==
  ASSUME NEW seq \in Seq(Tensors), Ordered(last_request_, LastUses(seq)),
         NEW u \in Range(seq), NEW v \in Range(seq)
  PROVE  Older(u, v) <=> LastUse(seq, u) < LastUse(seq, v)
<1> DEFINE r == LastUses(seq)
           s == [res |-> r]
<1>1. r \in Entries /\ DOMAIN r = Range(seq) /\ r[u].last = LastUse(seq, u) /\ r[v].last = LastUse(seq, v)
  BY LastUsesAre
<1>2. s.res = r
  OBVIOUS
<1> HIDE DEF s, r
<1>3. s.res \in Entries /\ u \in DOMAIN s.res /\ v \in DOMAIN s.res /\ Ordered(last_request_, s.res)
  BY <1>1, <1>2 DEF r
<1>4. Older(u, v) <=> LruBefore(s, u, v)
  BY <1>3, OlderIsBefore
<1>5. LastUse(seq, u) \in Nat /\ LastUse(seq, v) \in Nat /\ u \in Nat /\ v \in Nat
      /\ (LastUse(seq, u) = LastUse(seq, v) => u = v)
  <2>1. u \in Tensors /\ v \in Tensors
    BY LastUseIs
  <2>2. LastUse(seq, u) \in Nat /\ LastUse(seq, v) \in Nat
    BY LastUsesAre
  <2>3. seq[LastUse(seq, u)] = u /\ seq[LastUse(seq, v)] = v
    BY LastUseIs
  <2> QED
    BY <2>1, <2>2, <2>3, StoreAssumption
<1>6. LruBefore(s, u, v) <=> LastUse(seq, u) < LastUse(seq, v)
  BY <1>1, <1>2, <1>5 DEF LruBefore
<1> QED
  BY <1>4, <1>6

-----------------------------------------------------------------------------
(* Reuse distance.  What was requested since the last use of a tensor decides  *)
(* whether it is resident: where nothing is leased the replay holds the        *)
(* longest row of last uses that fits, so that eviction in order of age is     *)
(* membership in that row.                                                     *)

IsLastUse(seq, i, k) == \A j \in (i + 1)..k : seq[j] # seq[i]

\* After k requests s is the replay of a store where distance decides.
Stacked(s, seq, k) ==
  /\ s \in ReplayState /\ s.loaded \subseteq 1..k
  /\ \A u \in DOMAIN s.res :
       s.res[u].last \in 1..k /\ seq[s.res[u].last] = u /\ IsLastUse(seq, s.res[u].last, k)
  /\ \A i \in 1..k :
       IsLastUse(seq, i, k) =>
         (seq[i] \in DOMAIN s.res <=> SizeOf(Between(seq, i, k)) <= MaxBytes)
  /\ \A i, j \in 1..k :
       i < j /\ seq[i] = seq[j] /\ IsLastUse(seq, i, j - 1) =>
         (j \in s.loaded <=> SizeOf(Between(seq, i, j - 1)) > MaxBytes)

LEMMA BetweenIs ==
  ASSUME NEW seq \in Seq(Tensors), NEW k \in 1..Len(seq)
  PROVE  /\ \A i \in 1..k : Between(seq, i, k) \in SUBSET Tensors /\ Between(seq, i, k - 1) \in SUBSET Tensors
         /\ \A i \in 1..(k - 1) : Between(seq, i, k) = Between(seq, i, k - 1) \cup {seq[k]}
         /\ \A i, j \in 1..k : i <= j => Between(seq, j, k - 1) \subseteq Between(seq, i, k - 1)
         /\ Between(seq, k, k) = {seq[k]}
<1>1. k \in Nat /\ Len(seq) \in Nat /\ \A j \in 1..k : seq[j] \in Tensors
  OBVIOUS
<1>2. ASSUME NEW i \in 1..k
      PROVE  Between(seq, i, k) \in SUBSET Tensors /\ Between(seq, i, k - 1) \in SUBSET Tensors
  BY <1>1 DEF Between
<1>3. ASSUME NEW i \in 1..(k - 1) PROVE Between(seq, i, k) = Between(seq, i, k - 1) \cup {seq[k]}
  <2>1. i..k = (i..(k - 1)) \cup {k}
    BY <1>1
  <2> QED
    BY <2>1 DEF Between
<1>4. ASSUME NEW i \in 1..k, NEW j \in 1..k, i <= j
      PROVE  Between(seq, j, k - 1) \subseteq Between(seq, i, k - 1)
  <2>1. j..(k - 1) \subseteq i..(k - 1)
    BY <1>1, <1>4
  <2> QED
    BY <2>1 DEF Between
<1>5. Between(seq, k, k) = {seq[k]}
  <2>1. k..k = {k}
    BY <1>1
  <2> QED
    BY <2>1 DEF Between
<1> QED
  BY <1>2, <1>3, <1>4, <1>5

\* A larger set is no smaller.
LEMMA SizeGrows ==
  ASSUME NEW big \in SUBSET Tensors, NEW small \in SUBSET big
  PROVE  SizeOf(small) <= SizeOf(big) /\ SizeOf(small) \in Nat /\ SizeOf(big) \in Nat
  BY SizeDrops

\* A hit loads nothing.
LEMMA HitLoads ==
  ASSUME NEW seq, NEW active, NEW s \in ReplayState, NEW i \in Nat, seq[i] \in DOMAIN s.res
  PROVE  Serve("lru", seq, active, s, i).loaded = s.loaded
<1> DEFINE t == seq[i]
           x == Serve("lru", seq, active, s, i)
<1>1. x = Use(s, t, i)
  BY DEF Serve
<1> HIDE DEF x, t
<1>2. x.loaded = s.loaded
  BY <1>1 DEF Use, ReplayState
<1> QED
  BY <1>2 DEF x

\* A miss that is kept loads at its request.
LEMMA MissLoads ==
  ASSUME NEW seq, NEW active, NEW s \in ReplayState, NEW i \in Nat, seq[i] \in Tensors,
         seq[i] \notin DOMAIN s.res, NEW K, K = Kept("lru", seq, i, s, active[i], Bytes[seq[i]]),
         SizeOf(K) + Bytes[seq[i]] <= MaxBytes
  PROVE  Serve("lru", seq, active, s, i).loaded = s.loaded \cup {i}
<1> DEFINE t == seq[i]
           x == Serve("lru", seq, active, s, i)
           y == Keep(s, K)
<1>1. x = Place(y, t, i) /\ SizeOf(K) + Bytes[t] <= MaxBytes
  BY DEF Serve
<1>2. K \in SUBSET (DOMAIN s.res)
  <2>1. s.res \in Entries
    BY DEF ReplayState
  <2> QED
    BY <2>1, KeptIsOne
<1>3. y \in ReplayState /\ DOMAIN y.res = K
  BY <1>2, KeepGives
<1>4. y.loaded = s.loaded
  BY DEF Keep, ReplayState
<1> HIDE DEF x, y
<1>5. t \in Tensors
  OBVIOUS
<1> HIDE DEF t
<1>6. SizeOf(K) \in Nat /\ Bytes[t] \in Nat
  <2>1. K \in SUBSET Tensors
    BY <1>2, EntriesAre DEF ReplayState
  <2> QED
    BY <2>1, <1>5, SizeIsTotal, StoreAssumption
<1>7. ~ (SizeOf(DOMAIN y.res) + Bytes[t] > y.capacity)
  BY <1>1, <1>3, <1>6, StoreAssumption DEF ReplayState
<1> DEFINE l == Load(y, t, t \in y.seen)
<1>8. x = [l EXCEPT !.res = With(@, t, [last |-> i, count |-> 1]), !.loaded = @ \cup {i}]
  BY <1>1, <1>7 DEF Place
<1>9. l \in ReplayState /\ l.loaded = y.loaded
  <2> DEFINE again == t \in y.seen
  <2>1. again \in BOOLEAN
    OBVIOUS
  <2> HIDE DEF again
  <2>2. Load(y, t, again) \in ReplayState
    BY <1>3, <1>5, <2>1, LoadGives
  <2>3. Load(y, t, again).loaded = y.loaded
    BY <1>3 DEF Load, ReplayState
  <2> QED
    BY <2>2, <2>3 DEF again
<1> HIDE DEF l
<1>10. x.loaded = s.loaded \cup {i}
  BY <1>4, <1>8, <1>9 DEF ReplayState
<1> QED
  BY <1>10 DEF x

\* A resident tensor is behind exactly what was used since.
LEMMA RowsOfResidents ==
  ASSUME NEW seq \in Seq(Tensors), NEW k \in 1..Len(seq), NEW s, Stacked(s, seq, k - 1)
  PROVE  /\ \A u \in DOMAIN s.res :
              /\ s.res[u].last \in 1..(k - 1) /\ seq[s.res[u].last] = u /\ u \in Tensors /\ u \in Nat
              /\ Between(seq, s.res[u].last, k - 1) \in SUBSET (DOMAIN s.res)
              /\ SizeOf(Between(seq, s.res[u].last, k - 1)) <= MaxBytes
              /\ SizeOf(Between(seq, s.res[u].last, k - 1)) \in Nat
         /\ \A u, v \in DOMAIN s.res :
              s.res[u].last <= s.res[v].last =>
                v \in Between(seq, s.res[u].last, k - 1)
                  /\ SizeOf(Between(seq, s.res[v].last, k - 1)) <= SizeOf(Between(seq, s.res[u].last, k - 1))
         /\ \A u, v \in DOMAIN s.res :
              v \in Between(seq, s.res[u].last, k - 1) => s.res[u].last <= s.res[v].last
         /\ \A u, v \in DOMAIN s.res : s.res[u].last = s.res[v].last => u = v
<1> DEFINE row(i) == Between(seq, i, k - 1)
           last(u) == s.res[u].last
<1>1. k \in Nat /\ k - 1 \in Nat /\ Len(seq) \in Nat /\ \A j \in 1..k : seq[j] \in Tensors
  OBVIOUS
<1>2. \A u \in DOMAIN s.res : last(u) \in 1..(k - 1) /\ seq[last(u)] = u /\ IsLastUse(seq, last(u), k - 1)
  BY DEF Stacked
<1>3. DOMAIN s.res \in SUBSET Tensors /\ \A u \in DOMAIN s.res : u \in Nat
  BY EntriesAre DEF Stacked, ReplayState
<1>4. \A i \in 1..(k - 1) : IsLastUse(seq, i, k - 1) => (seq[i] \in DOMAIN s.res <=> SizeOf(row(i)) <= MaxBytes)
  BY DEF Stacked
<1>5. \A i \in 1..(k - 1) : row(i) \in SUBSET Tensors
  BY <1>1, BetweenIs
<1>6. \A i \in 1..(k - 1) : SizeOf(row(i)) \in Nat
  BY <1>5, SizeIsTotal
<1>7. \A i, j \in 1..(k - 1) : i <= j => SizeOf(row(j)) <= SizeOf(row(i))
  <2> TAKE i, j \in 1..(k - 1)
  <2> HAVE i <= j
  <2>1. row(j) \in SUBSET row(i)
    BY <1>1, BetweenIs
  <2>2. row(i) \in SUBSET Tensors
    BY <1>5
  <2> HIDE DEF row
  <2> QED
    BY <2>1, <2>2, SizeGrows
\* Every tensor of the row has a last use in it, so that it is resident as well.
<1>8. ASSUME NEW u \in DOMAIN s.res, NEW w \in row(last(u))
      PROVE  w \in DOMAIN s.res /\ last(u) <= last(w)
  <2> DEFINE uses == {j \in last(u)..(k - 1) : seq[j] = w}
             m == Max(uses)
  <2>1. last(u) \in 1..(k - 1)
    BY <1>2
  <2>2. uses # {} /\ uses \in SUBSET Int /\ \A j \in uses : j \in last(u)..(k - 1)
    BY <1>8, <2>1 DEF Between
  <2>3. IsFiniteSet(uses)
    <3> DEFINE span == last(u)..(k - 1)
    <3>1. last(u) \in Int /\ k - 1 \in Int
      BY <1>1, <2>1
    <3> HIDE DEF last
    <3>2. IsFiniteSet(span)
      BY <3>1, FS_Interval
    <3>3. uses \in SUBSET span
      OBVIOUS
    <3> HIDE DEF span, uses
    <3> QED
      BY <3>2, <3>3, FS_Subset
  <2>4. m \in uses /\ \A j \in uses : j <= m
    <3> HIDE DEF uses
    <3> QED
      BY <2>2, <2>3, MaxIsGreatest
  <2> HIDE DEF m
  <2>5. m \in 1..(k - 1) /\ last(u) <= m /\ seq[m] = w
    BY <1>1, <2>1, <2>4
  <2>6. IsLastUse(seq, m, k - 1)
    <3> SUFFICES ASSUME NEW j \in (m + 1)..(k - 1), seq[j] = w PROVE FALSE
      BY <2>5 DEF IsLastUse
    <3>1. j \in uses
      BY <1>1, <2>1, <2>5
    <3> QED
      BY <1>1, <2>1, <2>4, <2>5, <3>1
  <2>7. SizeOf(row(m)) <= MaxBytes
    <3>1. IsLastUse(seq, last(u), k - 1) /\ seq[last(u)] \in DOMAIN s.res
      BY <1>2
    <3>2. SizeOf(row(last(u))) <= MaxBytes
      BY <1>4, <2>1, <3>1
    <3>3. SizeOf(row(m)) <= SizeOf(row(last(u))) /\ SizeOf(row(m)) \in Nat /\ SizeOf(row(last(u))) \in Nat
      BY <1>6, <1>7, <2>1, <2>5
    <3> HIDE DEF row
    <3> QED
      BY <3>2, <3>3, StoreAssumption
  <2>8. w \in DOMAIN s.res
    BY <1>4, <2>5, <2>6, <2>7
  <2>9. last(w) \in 1..(k - 1) /\ seq[last(w)] = w /\ IsLastUse(seq, last(w), k - 1)
    BY <1>2, <2>8
  <2>10. ~ last(w) < m
    <3> SUFFICES ASSUME last(w) < m PROVE FALSE
      OBVIOUS
    <3>1. m \in (last(w) + 1)..(k - 1)
      BY <1>1, <2>5, <2>9
    <3> QED
      BY <2>5, <2>9, <3>1 DEF IsLastUse
  <2> QED
    BY <1>1, <2>1, <2>5, <2>8, <2>9, <2>10
<1>9. ASSUME NEW u \in DOMAIN s.res, NEW v \in DOMAIN s.res, last(u) <= last(v)
      PROVE  v \in row(last(u)) /\ SizeOf(row(last(v))) <= SizeOf(row(last(u)))
  <2>1. last(v) \in last(u)..(k - 1) /\ seq[last(v)] = v /\ last(u) \in 1..(k - 1) /\ last(v) \in 1..(k - 1)
    BY <1>1, <1>2, <1>9
  <2> QED
    BY <1>7, <1>9, <2>1 DEF Between
<1>10. ASSUME NEW u \in DOMAIN s.res
       PROVE  /\ last(u) \in 1..(k - 1) /\ seq[last(u)] = u /\ u \in Tensors /\ u \in Nat
              /\ row(last(u)) \in SUBSET (DOMAIN s.res)
              /\ SizeOf(row(last(u))) <= MaxBytes /\ SizeOf(row(last(u))) \in Nat
  BY <1>2, <1>3, <1>4, <1>6, <1>8
<1>11. \A u, v \in DOMAIN s.res : last(u) = last(v) => u = v
  BY <1>2
<1> QED
  BY <1>8, <1>9, <1>10, <1>11

\* With nothing leased, a request that misses keeps the residents whose row, with
\* the request before it, still fits.
Nearer(s, seq, k) ==
  {u \in DOMAIN s.res : SizeOf(Between(seq, s.res[u].last, k - 1)) + Bytes[seq[k]] <= MaxBytes}

LEMMA NearerIsKept ==
  ASSUME NEW seq \in Seq(Tensors), NEW k \in 1..Len(seq), NEW s, Stacked(s, seq, k - 1),
         NEW K, K = Nearer(s, seq, k), Bytes[seq[k]] <= MaxBytes
  PROVE  /\ Kept("lru", seq, k, s, {}, Bytes[seq[k]]) = K
         /\ K \in SUBSET (DOMAIN s.res) /\ SizeOf(K) + Bytes[seq[k]] <= MaxBytes
<1> DEFINE C == DOMAIN s.res
           E == C \ K
           P == {}
           size == Bytes[seq[k]]
           last(u) == s.res[u].last
           row(u) == Between(seq, s.res[u].last, k - 1)
<1>1. K \in SUBSET C
  BY DEF Nearer
<1>2. /\ s.res \in Entries /\ s.capacity = MaxBytes /\ C \in SUBSET Tensors /\ IsFiniteSet(C)
      /\ size \in Nat /\ seq[k] \in Tensors
  <2>1. s.res \in Entries /\ s.capacity = MaxBytes
    BY DEF Stacked, ReplayState
  <2>2. seq[k] \in Tensors
    OBVIOUS
  <2> QED
    BY <2>1, <2>2, EntriesAre, StoreAssumption
<1>3. \A u \in C : /\ u \in Nat /\ last(u) \in Nat /\ row(u) \in SUBSET C
                   /\ SizeOf(row(u)) \in Nat
                   /\ (u \in K <=> SizeOf(row(u)) + size <= MaxBytes)
  <2>1. \A u \in C : u \in Nat /\ last(u) \in 1..(k - 1) /\ row(u) \in SUBSET C /\ SizeOf(row(u)) \in Nat
    BY RowsOfResidents
  <2> QED
    BY <2>1 DEF Nearer
<1>4. /\ \A u, v \in C : last(u) <= last(v) => v \in row(u) /\ SizeOf(row(v)) <= SizeOf(row(u))
      /\ \A u, v \in C : v \in row(u) => last(u) <= last(v)
      /\ \A u, v \in C : last(u) = last(v) => u = v
  BY RowsOfResidents
<1> HIDE DEF row, size, last
\* What is kept fits: it is no more than the row of its oldest.
<1>5. SizeOf(K) + size <= MaxBytes
  <2>1. CASE K = {}
    BY <1>2, <2>1, SizeOfNone, StoreAssumption DEF size
  <2>2. CASE K # {}
    <3>1. PICK v \in K : IsOldest(s, v, K)
      BY <1>1, <1>2, <2>2, OldestExists
    <3>2. \A u \in K : last(v) <= last(u)
      <4> TAKE u \in K
      <4>1. u = v \/ LruBefore(s, v, u)
        BY <3>1 DEF IsOldest
      <4>2. last(u) \in Nat /\ last(v) \in Nat
        BY <1>1, <1>3
      <4> QED
        BY <4>1, <4>2 DEF LruBefore, last
    <3>6. K \in SUBSET row(v) /\ v \in C
      BY <1>1, <1>4, <3>2
    <3>7. row(v) \in SUBSET Tensors /\ SizeOf(row(v)) + size <= MaxBytes
      BY <1>2, <1>3, <3>6
    <3>8. SizeOf(K) <= SizeOf(row(v)) /\ SizeOf(K) \in Nat /\ SizeOf(row(v)) \in Nat
      <4> DEFINE big == row(v)
      <4>1. big \in SUBSET Tensors /\ K \in SUBSET big
        BY <3>6, <3>7
      <4> HIDE DEF big
      <4>2. SizeOf(K) <= SizeOf(big) /\ SizeOf(K) \in Nat /\ SizeOf(big) \in Nat
        BY <4>1, SizeGrows
      <4> QED
        BY <4>2 DEF big
    <3> QED
      BY <1>2, <3>7, <3>8, StoreAssumption
  <2> QED
    BY <2>1, <2>2
\* What is dropped is older.
<1>6. ASSUME NEW u \in E, NEW v \in K PROVE LruBefore(s, u, v)
  <2>1. u \in C /\ v \in C /\ ~ SizeOf(row(u)) + size <= MaxBytes /\ SizeOf(row(v)) + size <= MaxBytes
    BY <1>1, <1>3
  <2>2. ~ last(v) <= last(u)
    <3> SUFFICES ASSUME last(v) <= last(u) PROVE FALSE
      OBVIOUS
    <3>1. SizeOf(row(u)) <= SizeOf(row(v)) /\ SizeOf(row(u)) \in Nat /\ SizeOf(row(v)) \in Nat
      BY <1>3, <1>4, <2>1
    <3> QED
      BY <1>2, <2>1, <3>1, StoreAssumption
  <2>3. last(u) < last(v)
    BY <1>3, <2>1, <2>2
  <2> QED
    BY <2>3 DEF LruBefore, last
\* Nothing more can be kept: the row of what would be does not fit.
<1>7. ASSUME NEW A \in SUBSET C, K \subseteq A, A # K, \A u \in C \ A, v \in A : LruBefore(s, u, v)
      PROVE  ~ SizeOf(A) + size <= MaxBytes
  <2>1. PICK v \in A : v \notin K
    BY <1>7
  <2>2. v \in C /\ ~ SizeOf(row(v)) + size <= MaxBytes /\ SizeOf(row(v)) \in Nat
    BY <1>3, <2>1
  <2>3. row(v) \in SUBSET A
    <3> SUFFICES ASSUME NEW w \in row(v), w \notin A PROVE FALSE
      OBVIOUS
    <3>1. w \in C /\ last(v) <= last(w)
      BY <1>3, <1>4, <2>2
    <3>2. last(w) < last(v) \/ (last(w) = last(v) /\ w < v)
      BY <1>7, <2>1, <3>1 DEF LruBefore, last
    <3>3. last(w) \in Nat /\ last(v) \in Nat
      BY <1>3, <2>2, <3>1
    <3>4. last(w) = last(v)
      BY <3>1, <3>2, <3>3
    <3>5. w = v
      BY <1>4, <2>2, <3>1, <3>4
    <3> QED
      BY <2>1, <3>5
  <2>4. SizeOf(row(v)) <= SizeOf(A) /\ SizeOf(A) \in Nat
    <3> DEFINE small == row(v)
    <3>1. A \in SUBSET Tensors /\ small \in SUBSET A
      BY <1>2, <2>3
    <3> HIDE DEF small
    <3>2. SizeOf(small) <= SizeOf(A) /\ SizeOf(A) \in Nat
      BY <3>1, SizeGrows
    <3> QED
      BY <3>2 DEF small
  <2> QED
    BY <1>2, <2>2, <2>4, StoreAssumption
<1>8. Leaves(s, P, size, C, E)
  <2>1. C \ E = K /\ C \cap P = {}
    BY <1>1
  <2>2. \A A : Room(s, P, size, A) <=> SizeOf(A) + size <= MaxBytes
    <3>1. \A A : A \cup (C \cap P) = A
      BY <2>1
    <3> QED
      BY <1>2, <3>1 DEF Room
  <2> HIDE DEF C, E, P
  <2>3. Room(s, P, size, C \ E)
    BY <1>5, <2>1, <2>2
  <2> QED
    BY <1>6, <1>7, <2>1, <2>2, <2>3 DEF Leaves
<1>9. Kept("lru", seq, k, s, P, size) = K
  <2>1. C = DOMAIN s.res \ P /\ E \in SUBSET C /\ K = DOMAIN s.res \ E
    BY <1>1
  <2> HIDE DEF C, E, P
  <2> QED
    BY <1>2, <1>8, <2>1, KeptLeaves
<1> QED
  BY <1>1, <1>5, <1>9 DEF size

\* A request of what is resident changes the order, not what fits.
LEMMA HitStacks ==
  ASSUME NEW seq \in Seq(Tensors), NEW k \in 1..Len(seq), NEW s, Stacked(s, seq, k - 1),
         NEW active, Bytes[seq[k]] <= MaxBytes, seq[k] \in DOMAIN s.res
  PROVE  Stacked(Serve("lru", seq, active, s, k), seq, k)
<1> DEFINE t == seq[k]
           x == Serve("lru", seq, active, s, k)
           p == s.res[t].last
           row(i) == Between(seq, i, k - 1)
<1>1. k \in Nat /\ k - 1 \in Nat /\ k \in 1..k /\ (1..(k - 1)) \subseteq 1..k /\ t \in Tensors
      /\ \A i \in 1..k : i \in 1..(k - 1) \/ i = k
  OBVIOUS
<1>2. x \in ReplayState /\ DOMAIN x.res = DOMAIN s.res
      /\ \A u \in DOMAIN s.res : x.res[u].last = IF u = t THEN k ELSE s.res[u].last
  <2>1. s \in ReplayState /\ k \in Nat
    BY <1>1 DEF Stacked
  <2> QED
    BY <2>1, ServeHit DEF Served
<1>3. x.loaded = s.loaded /\ s.loaded \subseteq 1..(k - 1)
  <2>1. s \in ReplayState /\ s.loaded \subseteq 1..(k - 1) /\ k \in Nat
    BY <1>1 DEF Stacked
  <2> QED
    BY <2>1, HitLoads
<1> HIDE DEF x
<1>4. \A i \in 1..(k - 1) : IsLastUse(seq, i, k) <=> IsLastUse(seq, i, k - 1) /\ seq[i] # t
  BY <1>1 DEF IsLastUse
<1>5. p \in 1..(k - 1) /\ seq[p] = t /\ IsLastUse(seq, p, k - 1) /\ SizeOf(row(p)) <= MaxBytes
      /\ SizeOf(row(p)) \in Nat
  BY RowsOfResidents DEF Stacked
<1>6. ASSUME NEW u \in DOMAIN x.res
      PROVE  x.res[u].last \in 1..k /\ seq[x.res[u].last] = u /\ IsLastUse(seq, x.res[u].last, k)
  <2>1. CASE u = t
    BY <1>1, <1>2, <2>1 DEF IsLastUse
  <2>2. CASE u # t
    <3>1. s.res[u].last \in 1..(k - 1) /\ seq[s.res[u].last] = u /\ IsLastUse(seq, s.res[u].last, k - 1)
      BY <1>2, <1>6 DEF Stacked
    <3> QED
      BY <1>1, <1>2, <1>4, <1>6, <2>2, <3>1
  <2> QED
    BY <2>1, <2>2
<1>7. ASSUME NEW i \in 1..k, IsLastUse(seq, i, k)
      PROVE  seq[i] \in DOMAIN x.res <=> SizeOf(Between(seq, i, k)) <= MaxBytes
  <2>1. CASE i = k
    <3>1. Between(seq, k, k) = {t}
      BY BetweenIs
    <3>2. SizeOf(Between(seq, k, k)) = Bytes[t]
      BY <1>1, <3>1, SizeOfOne
    <3> QED
      BY <1>2, <2>1, <3>2
  <2>2. CASE i # k
    <3>1. i \in 1..(k - 1) /\ IsLastUse(seq, i, k - 1) /\ seq[i] # t
      BY <1>1, <1>4, <1>7, <2>2
    <3>2. Between(seq, i, k) = row(i) \cup {t} /\ row(i) \in SUBSET Tensors
      BY <1>1, <3>1, BetweenIs
    <3>3. seq[i] \in DOMAIN s.res <=> SizeOf(row(i)) <= MaxBytes
      BY <3>1 DEF Stacked
    <3>4. i < p \/ p < i
      BY <1>5, <3>1
    <3>5. CASE i < p
      <4>1. t \in row(i)
        <5>1. p \in i..(k - 1)
          BY <1>5, <3>1, <3>5
        <5> QED
          BY <1>5, <5>1 DEF Between
      <4>2. Between(seq, i, k) = row(i)
        BY <3>2, <4>1
      <4> QED
        BY <1>2, <3>3, <4>2
    <3>6. CASE p < i
      <4> DEFINE big == row(p)
                 small == row(i)
                 more == Between(seq, i, k)
      <4>1. small \in SUBSET big /\ big \in SUBSET Tensors
        BY <1>1, <1>5, <3>1, <3>6, BetweenIs
      <4>2. t \in big
        <5>1. p \in p..(k - 1)
          BY <1>5
        <5> QED
          BY <1>5, <5>1 DEF Between
      <4>3. more \in SUBSET big
        BY <3>2, <4>1, <4>2
      <4> HIDE DEF big, small, more
      <4>4. SizeOf(small) <= SizeOf(big) /\ SizeOf(more) <= SizeOf(big)
            /\ SizeOf(small) \in Nat /\ SizeOf(more) \in Nat /\ SizeOf(big) \in Nat
        BY <4>1, <4>3, SizeGrows
      <4>5. SizeOf(small) <= MaxBytes /\ SizeOf(more) <= MaxBytes
        BY <1>5, <4>4, StoreAssumption DEF big
      <4> QED
        BY <1>2, <3>3, <4>5 DEF small, more
    <3> QED
      BY <3>4, <3>5, <3>6
  <2> QED
    BY <2>1, <2>2
<1>8. ASSUME NEW i \in 1..k, NEW j \in 1..k, i < j, seq[i] = seq[j], IsLastUse(seq, i, j - 1)
      PROVE  j \in x.loaded <=> SizeOf(Between(seq, i, j - 1)) > MaxBytes
  <2>1. CASE j # k
    <3>1. i \in 1..(k - 1) /\ j \in 1..(k - 1)
      BY <1>8, <2>1
    <3> QED
      BY <1>3, <1>8, <3>1 DEF Stacked
  <2>2. CASE j = k
    <3>1. i \in 1..(k - 1) /\ IsLastUse(seq, i, k - 1) /\ seq[i] = t
      BY <1>8, <2>2
    <3>2. SizeOf(row(i)) <= MaxBytes
      BY <3>1 DEF Stacked
    <3>3. SizeOf(row(i)) \in Nat
      <4>1. row(i) \in SUBSET Tensors
        BY <1>1, <3>1, BetweenIs
      <4> QED
        BY <4>1, SizeIsTotal
    <3>4. k \notin x.loaded
      BY <1>1, <1>3
    <3>5. ~ SizeOf(row(i)) > MaxBytes
      BY <3>2, <3>3, StoreAssumption
    <3> QED
      BY <2>2, <3>4, <3>5
  <2> QED
    BY <2>1, <2>2
<1>9. x.loaded \subseteq 1..k
  BY <1>1, <1>3
<1>10. Stacked(x, seq, k)
  BY <1>2, <1>6, <1>7, <1>8, <1>9 DEF Stacked
<1> QED
  BY <1>10 DEF x

\* A request that misses pushes out what it does not leave room for.
LEMMA MissStacks ==
  ASSUME NEW seq \in Seq(Tensors), NEW k \in 1..Len(seq), NEW s, Stacked(s, seq, k - 1),
         NEW active, active[k] = {}, Bytes[seq[k]] <= MaxBytes, seq[k] \notin DOMAIN s.res
  PROVE  Stacked(Serve("lru", seq, active, s, k), seq, k)
<1> DEFINE t == seq[k]
           x == Serve("lru", seq, active, s, k)
           K == Nearer(s, seq, k)
           row(i) == Between(seq, i, k - 1)
<1>1. k \in Nat /\ k - 1 \in Nat /\ k \in 1..k /\ (1..(k - 1)) \subseteq 1..k /\ t \in Tensors
      /\ (\A i \in 1..k : i \in 1..(k - 1) \/ i = k) /\ Bytes[t] \in Nat
  <2>1. k \in Nat /\ k - 1 \in Nat /\ k \in 1..k /\ (1..(k - 1)) \subseteq 1..k /\ t \in Tensors
        /\ \A i \in 1..k : i \in 1..(k - 1) \/ i = k
    OBVIOUS
  <2>2. Bytes[t] \in Nat
    BY <2>1, StoreAssumption
  <2> QED
    BY <2>1, <2>2
<1>2. K \in SUBSET (DOMAIN s.res) /\ SizeOf(K) + Bytes[t] <= MaxBytes
      /\ K = Kept("lru", seq, k, s, active[k], Bytes[t])
  BY NearerIsKept
<1>3. s \in ReplayState /\ s.loaded \subseteq 1..(k - 1)
  BY DEF Stacked
<1>4. x \in ReplayState /\ DOMAIN x.res = K \cup {t}
      /\ \A u \in K \cup {t} : x.res[u].last = IF u = t THEN k ELSE s.res[u].last
  <2> DEFINE gone == s.evictions + Cardinality(DOMAIN s.res \ K)
             loads == s.loads + 1
             reloads == s.reloads + (IF seq[k] \in s.seen THEN 1 ELSE 0)
             seen == s.seen \cup {seq[k]}
  <2> HIDE DEF K
  <2>1. k \in Nat /\ seq[k] \in Tensors /\ SizeOf(K) + Bytes[seq[k]] <= MaxBytes
        /\ K = Kept("lru", seq, k, s, active[k], Bytes[seq[k]]) /\ s \in ReplayState
    BY <1>1, <1>2, <1>3
  <2>2. Served(Serve("lru", seq, active, s, k), s, seq[k], k, K \cup {seq[k]}, s.hits,
               gone, loads, reloads, seen)
    BY <2>1, ServeMiss, ZenonT(60)
  <2> HIDE DEF gone, loads, reloads, seen
  <2> QED
    BY <2>2 DEF Served
<1>5. x.loaded = s.loaded \cup {k}
  <2> HIDE DEF K
  <2>1. k \in Nat /\ seq[k] \in Tensors /\ s \in ReplayState /\ seq[k] \notin DOMAIN s.res
        /\ K = Kept("lru", seq, k, s, active[k], Bytes[seq[k]])
    BY <1>1, <1>2, <1>3
  <2>2. SizeOf(K) + Bytes[seq[k]] <= MaxBytes
    BY <1>2
  <2>3. ASSUME NEW A, A = K, SizeOf(A) + Bytes[seq[k]] <= MaxBytes, A = Kept("lru", seq, k, s, active[k], Bytes[seq[k]])
        PROVE  Serve("lru", seq, active, s, k).loaded = s.loaded \cup {k}
    <3>1. s \in ReplayState
      BY <2>1
    <3>2. k \in Nat
      BY <2>1
    <3>3. seq[k] \in Tensors
      BY <2>1
    <3>4. seq[k] \notin DOMAIN s.res
      BY <2>1
    <3> QED
      BY ONLY <3>1, <3>2, <3>3, <3>4, <2>3, MissLoads
  <2> QED
    BY <2>1, <2>2, <2>3
<1> HIDE DEF x
<1>6. \A i \in 1..(k - 1) : IsLastUse(seq, i, k) <=> IsLastUse(seq, i, k - 1) /\ seq[i] # t
  BY <1>1 DEF IsLastUse
<1>7. \A i \in 1..(k - 1) : row(i) \in SUBSET Tensors /\ SizeOf(row(i)) \in Nat
  <2> TAKE i \in 1..(k - 1)
  <2>1. row(i) \in SUBSET Tensors
    BY <1>1, BetweenIs
  <2> QED
    BY <2>1, SizeIsTotal
<1>8. ASSUME NEW u \in DOMAIN x.res
      PROVE  x.res[u].last \in 1..k /\ seq[x.res[u].last] = u /\ IsLastUse(seq, x.res[u].last, k)
  <2>1. CASE u = t
    BY <1>1, <1>4, <2>1 DEF IsLastUse
  <2>2. CASE u # t
    <3>1. u \in DOMAIN s.res
      BY <1>2, <1>4, <1>8, <2>2
    <3>2. s.res[u].last \in 1..(k - 1) /\ seq[s.res[u].last] = u /\ IsLastUse(seq, s.res[u].last, k - 1)
      BY <3>1 DEF Stacked
    <3> QED
      BY <1>1, <1>4, <1>6, <1>8, <2>2, <3>2
  <2> QED
    BY <2>1, <2>2
<1>9. ASSUME NEW i \in 1..k, IsLastUse(seq, i, k)
      PROVE  seq[i] \in DOMAIN x.res <=> SizeOf(Between(seq, i, k)) <= MaxBytes
  <2>1. CASE i = k
    <3>1. Between(seq, k, k) = {t}
      BY BetweenIs
    <3>2. SizeOf(Between(seq, k, k)) = Bytes[t]
      BY <1>1, <3>1, SizeOfOne
    <3> QED
      BY <1>4, <2>1, <3>2
  <2>2. CASE i # k
    <3> DEFINE u == seq[i]
               more == Between(seq, i, k)
               less == row(i)
    <3>1. i \in 1..(k - 1) /\ IsLastUse(seq, i, k - 1) /\ u # t
      BY <1>1, <1>6, <1>9, <2>2
    <3>2. more = less \cup {t} /\ less \in SUBSET Tensors /\ SizeOf(less) \in Nat
      BY <1>1, <1>7, <3>1, BetweenIs
    <3>3. u \in DOMAIN s.res <=> SizeOf(less) <= MaxBytes
      BY <3>1 DEF Stacked
    <3>4. u \in DOMAIN x.res <=> u \in K
      BY <1>4, <3>1
    <3>5. CASE u \in DOMAIN s.res
      <4>1. s.res[u].last = i
        <5>1. s.res[u].last \in 1..(k - 1) /\ seq[s.res[u].last] = u /\ IsLastUse(seq, s.res[u].last, k - 1)
          BY <3>5 DEF Stacked
        <5> DEFINE l == s.res[u].last
        <5>2. ~ l < i
          <6> SUFFICES ASSUME l < i PROVE FALSE
            OBVIOUS
          <6>1. i \in (l + 1)..(k - 1)
            BY <3>1, <5>1
          <6> QED
            BY <5>1, <6>1 DEF IsLastUse
        <5>3. ~ i < l
          <6> SUFFICES ASSUME i < l PROVE FALSE
            OBVIOUS
          <6>1. l \in (i + 1)..(k - 1)
            BY <3>1, <5>1
          <6> QED
            BY <3>1, <5>1, <6>1 DEF IsLastUse
        <5> QED
          BY <3>1, <5>1, <5>2, <5>3
      <4>2. less \in SUBSET (DOMAIN s.res)
        BY <3>5, <4>1, RowsOfResidents
      <4>3. t \notin less
        BY <4>2
      <4>4. u \in K <=> SizeOf(less) + Bytes[t] <= MaxBytes
        BY <3>5, <4>1 DEF Nearer
      <4>5. SizeOf(more) = SizeOf(less) + Bytes[t]
        <5> HIDE DEF more, less
        <5>1. SizeOf(less \cup {t}) = SizeOf(less) + Bytes[t]
          BY <1>1, <3>2, <4>3, SizeWith
        <5> QED
          BY <3>2, <5>1
      <4> QED
        BY <3>4, <4>4, <4>5
    <3>6. CASE u \notin DOMAIN s.res
      <4>1. u \notin K
        BY <1>2, <3>6
      <4>2. SizeOf(less) <= SizeOf(more) /\ SizeOf(more) \in Nat
        <5>1. more \in SUBSET Tensors /\ less \in SUBSET more
          BY <1>1, <3>2
        <5> HIDE DEF more, less
        <5> QED
          BY <5>1, SizeGrows
      <4>3. ~ SizeOf(more) <= MaxBytes
        BY <3>2, <3>3, <3>6, <4>2, StoreAssumption
      <4> QED
        BY <3>4, <4>1, <4>3
    <3> QED
      BY <3>5, <3>6
  <2> QED
    BY <2>1, <2>2
<1>10. ASSUME NEW i \in 1..k, NEW j \in 1..k, i < j, seq[i] = seq[j], IsLastUse(seq, i, j - 1)
       PROVE  j \in x.loaded <=> SizeOf(Between(seq, i, j - 1)) > MaxBytes
  <2>1. CASE j # k
    <3>1. i \in 1..(k - 1) /\ j \in 1..(k - 1)
      BY <1>10, <2>1
    <3>2. j \in x.loaded <=> j \in s.loaded
      BY <1>5, <2>1
    <3> QED
      BY <1>10, <3>1, <3>2 DEF Stacked
  <2>2. CASE j = k
    <3>1. i \in 1..(k - 1) /\ IsLastUse(seq, i, k - 1) /\ seq[i] = t
      BY <1>10, <2>2
    <3>2. ~ SizeOf(row(i)) <= MaxBytes
      BY <3>1 DEF Stacked
    <3>3. SizeOf(row(i)) > MaxBytes
      BY <1>7, <3>1, <3>2, StoreAssumption
    <3> QED
      BY <1>5, <2>2, <3>3
  <2> QED
    BY <2>1, <2>2
<1>11. x.loaded \subseteq 1..k
  BY <1>1, <1>3, <1>5
<1>12. Stacked(x, seq, k)
  BY <1>4, <1>8, <1>9, <1>10, <1>11 DEF Stacked
<1> QED
  BY <1>12 DEF x

\* However long the trace is, without leases distance decides what is loaded.
LEMMA LruStacks ==
  ASSUME NEW seq \in Seq(Tensors), NEW active, \A k \in 1..Len(seq) : active[k] = {},
         \A k \in 1..Len(seq) : Bytes[seq[k]] <= MaxBytes
  PROVE  Stacked(LruReplay(seq, active), seq, Len(seq))
<1> DEFINE n == Len(seq)
<1>1. n \in Nat
  OBVIOUS
<1>2. PICK r : Runs(r, n, ReplayState, Fresh(MaxBytes), LruSteps(seq, active)) /\ r[n] = LruReplay(seq, active)
  BY LruRuns
<1> DEFINE Good == {k \in 0..n : Stacked(r[k], seq, k)}
<1>3. 0 \in Good
  <2>1. r[0] = Fresh(MaxBytes) /\ Fresh(MaxBytes) \in ReplayState
    BY <1>2, FreshIs DEF Runs
  <2>2. Fresh(MaxBytes).loaded = {} /\ DOMAIN Fresh(MaxBytes).res = {}
    BY DEF Fresh
  <2>3. Stacked(Fresh(MaxBytes), seq, 0)
    BY <2>1, <2>2 DEF Stacked
  <2> QED
    BY <1>1, <2>1, <2>3
<1>4. ASSUME NEW k \in 1..n, k - 1 \in Good PROVE k \in Good
  <2>1. k \in 1..Len(seq) /\ k \in 0..n /\ Stacked(r[k - 1], seq, k - 1)
        /\ active[k] = {} /\ Bytes[seq[k]] <= MaxBytes
    BY <1>4
  <2>2. r[k] = Serve("lru", seq, active, r[k - 1], k)
    <3>1. r[k - 1] \in ReplayState
      BY <2>1 DEF Stacked
    <3>2. r[k] = LruSteps(seq, active)[k][r[k - 1]]
      BY <1>2, <1>4 DEF Runs
    <3> QED
      BY <2>1, <3>1, <3>2 DEF LruSteps
  <2> DEFINE s == r[k - 1]
  <2>3. Stacked(s, seq, k - 1)
    BY <2>1
  <2> HIDE DEF s
  <2>4. Stacked(Serve("lru", seq, active, s, k), seq, k)
    <3>1. CASE seq[k] \in DOMAIN s.res
      BY <2>1, <2>3, <3>1, HitStacks
    <3>2. CASE seq[k] \notin DOMAIN s.res
      BY <2>1, <2>3, <3>2, MissStacks
    <3> QED
      BY <3>1, <3>2
  <2> QED
    BY <2>1, <2>2, <2>4 DEF s
<1> HIDE DEF Good
<1>5. 0..n \subseteq Good
  <2> HIDE DEF n
  <2> QED
    BY <1>1, <1>3, <1>4, CountingUp
<1>6. n \in Good
  BY <1>1, <1>5
<1> QED
  BY <1>2, <1>6 DEF Good

\* Distance decides for each requested tensor by its last use.
LEMMA StackedIs ==
  ASSUME NEW seq \in Seq(Tensors), NEW s, Stacked(s, seq, Len(seq))
  PROVE  /\ s \in ReplayState /\ DOMAIN s.res \subseteq Range(seq) /\ IsFiniteSet(DOMAIN s.res)
         /\ \A u \in Range(seq) : u \in DOMAIN s.res <=> SizeOf(Since(seq, u)) <= MaxBytes
<1> DEFINE n == Len(seq)
<1>1. n \in Nat /\ DOMAIN seq = 1..n
  OBVIOUS
<1>2. s \in ReplayState /\ IsFiniteSet(DOMAIN s.res)
  BY EntriesAre DEF Stacked, ReplayState
<1>3. ASSUME NEW u \in DOMAIN s.res PROVE u \in Range(seq)
  <2>1. s.res[u].last \in 1..n /\ seq[s.res[u].last] = u
    BY DEF Stacked
  <2> QED
    BY <1>1, <2>1 DEF Range
<1>4. ASSUME NEW u \in Range(seq) PROVE u \in DOMAIN s.res <=> SizeOf(Since(seq, u)) <= MaxBytes
  <2> DEFINE i == LastUse(seq, u)
  <2>1. i \in 1..n /\ seq[i] = u /\ \A j \in 1..n : seq[j] = u => j <= i
    BY LastUseIs
  <2>2. Since(seq, u) = Between(seq, i, n)
    BY DEF Since
  <2> HIDE DEF i
  <2>3. IsLastUse(seq, i, n)
    <3> SUFFICES ASSUME NEW j \in (i + 1)..n, seq[j] = seq[i] PROVE FALSE
      BY DEF IsLastUse
    <3>1. j \in 1..n /\ ~ j <= i
      BY <1>1, <2>1
    <3> QED
      BY <2>1, <3>1
  <2>4. seq[i] \in DOMAIN s.res <=> SizeOf(Between(seq, i, n)) <= MaxBytes
    BY <2>1, <2>3 DEF Stacked
  <2> QED
    BY <2>1, <2>2, <2>4
<1> QED
  BY <1>2, <1>3, <1>4

LEMMA StackedLonger ==
  ASSUME NEW seq \in Seq(Tensors), NEW s, Stacked(s, seq, Len(seq)), NEW t \in Tensors,
         NEW longer, longer = Append(seq, t)
  PROVE  Stacked(s, longer, Len(longer) - 1)
<1> DEFINE n == Len(seq)
<1>1. n \in Nat /\ Len(longer) - 1 = n /\ \A i \in 1..n : longer[i] = seq[i]
  OBVIOUS
<1>2. \A i \in 1..n : IsLastUse(longer, i, n) <=> IsLastUse(seq, i, n)
  BY <1>1 DEF IsLastUse
<1>3. \A i, j \in 1..n : IsLastUse(longer, i, j - 1) <=> IsLastUse(seq, i, j - 1)
  BY <1>1 DEF IsLastUse
<1>4. \A i \in 1..n : Between(longer, i, n) = Between(seq, i, n)
  BY <1>1 DEF Between
<1>5. \A i, j \in 1..n : Between(longer, i, j - 1) = Between(seq, i, j - 1)
  BY <1>1 DEF Between
<1>6. s \in ReplayState /\ s.loaded \subseteq 1..n
  BY DEF Stacked
<1>7. ASSUME NEW u \in DOMAIN s.res
      PROVE  s.res[u].last \in 1..n /\ longer[s.res[u].last] = u /\ IsLastUse(longer, s.res[u].last, n)
  <2>1. s.res[u].last \in 1..n /\ seq[s.res[u].last] = u /\ IsLastUse(seq, s.res[u].last, n)
    BY DEF Stacked
  <2> QED
    BY <1>1, <1>2, <2>1
<1>8. ASSUME NEW i \in 1..n, IsLastUse(longer, i, n)
      PROVE  longer[i] \in DOMAIN s.res <=> SizeOf(Between(longer, i, n)) <= MaxBytes
  <2>1. seq[i] \in DOMAIN s.res <=> SizeOf(Between(seq, i, n)) <= MaxBytes
    BY <1>2, <1>8 DEF Stacked
  <2> QED
    BY <1>1, <1>4, <2>1
<1>9. ASSUME NEW i \in 1..n, NEW j \in 1..n, i < j, longer[i] = longer[j], IsLastUse(longer, i, j - 1)
      PROVE  j \in s.loaded <=> SizeOf(Between(longer, i, j - 1)) > MaxBytes
  <2>1. seq[i] = seq[j] /\ IsLastUse(seq, i, j - 1)
    BY <1>1, <1>3, <1>9
  <2>2. j \in s.loaded <=> SizeOf(Between(seq, i, j - 1)) > MaxBytes
    BY <1>9, <2>1 DEF Stacked
  <2> QED
    BY <1>5, <2>2
<1> HIDE DEF n
<1>10. Stacked(s, longer, n)
  BY <1>6, <1>7, <1>8, <1>9 DEF Stacked
<1> QED
  BY <1>1, <1>10

-----------------------------------------------------------------------------
(* What holds of every state: the trace tells the store, what waits to be read *)
(* is not resident, and the store's list is in the order of the last uses.     *)

\* Asked for and not yet read.
Waiting == {t \in Tensors : requests_[t] \in {"refused", "reading"}}

\* No trace ends with a request: a lease or a miss follows.
Answered(tr) == \A i \in DOMAIN tr : tr[i][1] = "REQUEST" => i # Len(tr)

StoreInv ==
  /\ TraceTells /\ Len(ActiveSets(trace_)) = Len(Seen)
  /\ resident_bytes_ = SizeOf(entries_) /\ resident_bytes_ <= MaxBytes
  /\ requests_ \in [Tensors -> {"none", "refused", "reading", "read", "leased"}]
  /\ Waiting \cap entries_ = {}
  /\ Answered(trace_)
  /\ Ordered(last_request_, LastUses(Seen))

\* What the trace tells counts its events.
LEMMA CountsNow ==
  ASSUME TraceTells
  PROVE  /\ Counts(trace_, Count("EVICT"), Count("INSERT"), Inserted(trace_))
         /\ Count("EVICT") \in Nat /\ Count("INSERT") \in Nat
<1>1. trace_ \in Seq(Event)
  BY TraceTellsTypes
<1>2. \A kind : Count(kind) = Cardinality(Events(trace_, kind))
  BY DEF Count, Events
<1>3. \A kind : Cardinality(Events(trace_, kind)) \in Nat
  BY <1>1, EventsType
<1> QED
  BY <1>1, <1>2, <1>3 DEF Counts

LEMMA TellsNext ==
  ASSUME NEW asked, NEW active, Tells(trace_', asked, entries_', active_leases', active),
         NEW evicts, NEW inserts, NEW inserted, Counts(trace_', evicts, inserts, inserted)
  PROVE  /\ TraceTells' /\ Seen' = asked /\ ActiveSets(trace_)' = active
         /\ Count("EVICT")' = evicts /\ Count("INSERT")' = inserts /\ Inserted(trace_)' = inserted
<1>1. Seen' = asked /\ ActiveSets(trace_)' = active
  BY DEF Tells, Seen, ActiveSets
<1>2. TraceTells'
  BY <1>1 DEF TraceTells
<1>3. Count("EVICT")' = evicts /\ Count("INSERT")' = inserts /\ Inserted(trace_)' = inserted
  BY DEF Counts, Count, Events
<1> QED
  BY <1>1, <1>2, <1>3

\* A request makes its tensor the last of the requests, and notes what is leased.
LEMMA AskGives ==
  ASSUME TraceTells, NEW t \in Tensors, RequestHit(t) \/ RequestMiss(t)
  PROVE  /\ TraceTells' /\ Seen' = Append(Seen, t) /\ ActiveSets(trace_)' = Append(ActiveSets(trace_), Leased)
         /\ Count("EVICT")' = Count("EVICT") /\ Count("INSERT")' = Count("INSERT")
         /\ Inserted(trace_)' = Inserted(trace_)
<1>1. Counts(trace_, Count("EVICT"), Count("INSERT"), Inserted(trace_))
  BY CountsNow
<1> DEFINE asked == Append(Seen, t)
<1> DEFINE active == Append(ActiveSets(trace_), Leased)
<1>2. /\ Tells(trace_', asked, entries_', active_leases', active)
      /\ Counts(trace_', Count("EVICT"), Count("INSERT"), Inserted(trace_))
  BY <1>1, HitTells, MissTells
<1>3. /\ TraceTells' /\ Seen' = asked /\ ActiveSets(trace_)' = active
      /\ Count("EVICT")' = Count("EVICT") /\ Count("INSERT")' = Count("INSERT")
      /\ Inserted(trace_)' = Inserted(trace_)
  <2> HIDE DEF asked, active
  <2> QED
    BY <1>2, TellsNext
<1> QED
  BY <1>3

\* A tensor that is kept is inserted, after the evictions for it.
LEMMA KeptGives ==
  ASSUME TraceTells, NEW t \in Tensors, NEW ev \in Evictions(t),
         entries_' = (entries_ \ ev) \cup {t}, active_leases' = [active_leases EXCEPT ![t] = @ + 1],
         Obtains(t, ev, <<<<"INSERT", t>>, <<"LEASE_ACQUIRE", t>>>>)
  PROVE  /\ TraceTells' /\ Seen' = Seen /\ ActiveSets(trace_)' = ActiveSets(trace_)
         /\ Count("EVICT")' = Count("EVICT") + Cardinality(ev) /\ Count("INSERT")' = Count("INSERT") + 1
         /\ Inserted(trace_)' = Inserted(trace_) \cup {<<"INSERT", t>>}
<1>1. Counts(trace_, Count("EVICT"), Count("INSERT"), Inserted(trace_))
  BY CountsNow
<1>2. ev \in SUBSET Candidates
  BY DEF Evictions
<1>3. /\ Tells(trace_', Seen, entries_', active_leases', ActiveSets(trace_))
      /\ Counts(trace_', Count("EVICT") + Cardinality(ev), Count("INSERT") + 1, Inserted(trace_) \cup {<<"INSERT", t>>})
  BY <1>1, <1>2, KeptTells
<1> QED
  BY <1>3, TellsNext

\* One that is refused only evicts.
LEMMA UnkeptGives ==
  ASSUME TraceTells, NEW t \in Tensors, ObtainUnkept(t)
  PROVE  /\ TraceTells' /\ Seen' = Seen /\ ActiveSets(trace_)' = ActiveSets(trace_)
<1>1. Counts(trace_, Count("EVICT"), Count("INSERT"), Inserted(trace_))
  BY CountsNow
<1>2. PICK ev \in {{}, Candidates} :
        /\ entries_' = entries_ \ ev
        /\ Obtains(t, ev, <<<<"INSERT_REJECTED", t>>>>) /\ UNCHANGED active_leases
  BY DEF ObtainUnkept
<1>3. ev \in SUBSET Candidates
  OBVIOUS
<1>4. /\ Tells(trace_', Seen, entries_', active_leases', ActiveSets(trace_))
      /\ Counts(trace_', Count("EVICT") + Cardinality(ev), Count("INSERT"), Inserted(trace_))
  BY <1>1, <1>2, <1>3, UnkeptTells
<1> QED
  BY <1>4, TellsNext

\* The rest is leases.
LEMMA LeaseGives ==
  ASSUME TraceTells, NEW t \in Tensors, ObtainUnasked(t) \/ GiveBack(t)
  PROVE  /\ TraceTells' /\ Seen' = Seen /\ ActiveSets(trace_)' = ActiveSets(trace_) /\ entries_' = entries_
         /\ Count("EVICT")' = Count("EVICT") /\ Count("INSERT")' = Count("INSERT")
         /\ Inserted(trace_)' = Inserted(trace_)
<1>1. Counts(trace_, Count("EVICT"), Count("INSERT"), Inserted(trace_))
  BY CountsNow
<1>2. /\ Tells(trace_', Seen, entries_', active_leases', ActiveSets(trace_))
      /\ Counts(trace_', Count("EVICT"), Count("INSERT"), Inserted(trace_)) /\ entries_' = entries_
  BY <1>1, UnaskedTells, ReleaseTells
<1> QED
  BY <1>2, TellsNext

-----------------------------------------------------------------------------
(* What each step adds to the trace.                                           *)

States == {"none", "refused", "reading", "read", "leased"}

LEMMA OfOne ==
  ASSUME NEW a \in Event
  PROVE  <<a>> \in Seq(Event) /\ Len(<<a>>) = 1 /\ <<a>>[1] = a /\ Range(<<a>>) = {a}
<1> DEFINE p == <<a>>
<1>1. p \in Seq(Event) /\ Len(p) = 1 /\ DOMAIN p = {1} /\ p[1] = a
  OBVIOUS
<1> HIDE DEF p
<1>2. Range(p) = {a}
  BY <1>1 DEF Range
<1> QED
  BY <1>1, <1>2 DEF p

LEMMA OfTwo ==
  ASSUME NEW a \in Event, NEW b \in Event
  PROVE  /\ <<a, b>> \in Seq(Event) /\ Len(<<a, b>>) = 2 /\ <<a, b>>[1] = a /\ <<a, b>>[2] = b
         /\ Range(<<a, b>>) = {a, b}
<1> DEFINE p == <<a, b>>
<1>1. p \in Seq(Event) /\ Len(p) = 2 /\ DOMAIN p = {1, 2} /\ p[1] = a /\ p[2] = b
  OBVIOUS
<1> HIDE DEF p
<1>2. Range(p) = {a, b}
  BY <1>1 DEF Range
<1> QED
  BY <1>1, <1>2 DEF p

LEMMA RangeConcat ==
  ASSUME NEW S, NEW p \in Seq(S), NEW q \in Seq(S)
  PROVE  p \o q \in Seq(S) /\ Range(p \o q) = Range(p) \cup Range(q)
<1> DEFINE n == Len(p)
           m == Len(q)
           all == p \o q
<1>1. /\ n \in Nat /\ m \in Nat /\ all \in Seq(S) /\ DOMAIN all = 1..(n + m)
      /\ DOMAIN p = 1..n /\ DOMAIN q = 1..m
      /\ \A i \in 1..(n + m) : all[i] = IF i <= n THEN p[i] ELSE q[i - n]
  OBVIOUS
<1> HIDE DEF n, m, all
<1>2. \A i \in 1..(n + m) : i \in 1..n \/ (i - n \in 1..m /\ ~ i <= n)
  BY <1>1
<1>3. Range(all) \subseteq Range(p) \cup Range(q)
  <2>1. ASSUME NEW i \in 1..(n + m) PROVE all[i] \in Range(p) \cup Range(q)
    <3>1. (all[i] = p[i] /\ i \in 1..n) \/ (all[i] = q[i - n] /\ i - n \in 1..m)
      BY <1>1, <1>2
    <3> QED
      BY <1>1, <3>1 DEF Range
  <2> QED
    BY <1>1, <2>1 DEF Range
<1>4. \A i \in 1..n : i \in 1..(n + m) /\ all[i] = p[i]
  BY <1>1
<1>5. \A i \in 1..m : i + n \in 1..(n + m) /\ all[i + n] = q[i]
  BY <1>1
<1>6. Range(p) \cup Range(q) \subseteq Range(all)
  <2>1. \A i \in 1..n : p[i] \in Range(all)
    BY <1>1, <1>4 DEF Range
  <2>2. \A i \in 1..m : q[i] \in Range(all)
    BY <1>1, <1>5 DEF Range
  <2> QED
    BY <1>1, <2>1, <2>2 DEF Range
<1> QED
  BY <1>1, <1>3, <1>6 DEF all

\* new is what the step tells: a tensor it asks for is resident or waits, one that
\* waits no more was read, what is read was absent and does not wait, what leaves
\* is evicted and what comes is read.
Shows(new) ==
  /\ new \in Seq(Event) /\ trace_' = trace_ \o new
  /\ new # <<>> => new[Len(new)][1] # "REQUEST"
  /\ \A u \in Tensors :
       /\ <<"REQUEST", u>> \in Range(new) => u \in entries_ \cup Waiting'
       /\ u \in Waiting \ Waiting' => <<"MATERIALIZE", u>> \in Range(new)
       /\ <<"MATERIALIZE", u>> \in Range(new) => u \notin entries_ \cup Waiting'
       /\ u \in entries_ \ entries_' => <<"EVICT", u>> \in Range(new)
       /\ u \in entries_' \ entries_ => <<"MATERIALIZE", u>> \in Range(new)

LEMMA WaitingNext ==
  ASSUME requests_ \in [Tensors -> States], NEW t \in Tensors, NEW v \in States, Becomes(t, v)
  PROVE  /\ requests_' \in [Tensors -> States] /\ boundary' = boundary
         /\ Waiting' = IF v \in {"refused", "reading"} THEN Waiting \cup {t} ELSE Waiting \ {t}
<1>1. requests_' = [u \in Tensors |-> IF u = t THEN v ELSE requests_[u]] /\ boundary' = boundary
  BY DEF Becomes
<1>2. requests_' \in [Tensors -> States]
  BY <1>1
<1>3. Waiting' = {u \in Tensors : requests_'[u] \in {"refused", "reading"}}
  BY DEF Waiting
<1>4. \A u \in Tensors : requests_'[u] = IF u = t THEN v ELSE requests_[u]
  BY <1>1
<1> QED
  BY <1>1, <1>2, <1>3, <1>4 DEF Waiting

\* A request waits where it misses.
LEMMA AskWaits ==
  ASSUME StoreInv, NEW t \in Tensors
  PROVE  /\ RequestHit(t) => t \in entries_ /\ t \notin Waiting /\ Waiting' = Waiting
         /\ RequestMiss(t) => t \notin entries_ /\ Waiting' = Waiting \cup {t}
         /\ RequestHit(t) \/ RequestMiss(t) => requests_' \in [Tensors -> States] /\ boundary' = boundary
<1>1. requests_ \in [Tensors -> States]
  BY DEF StoreInv, States
<1>2. ASSUME RequestHit(t)
      PROVE  /\ t \in entries_ /\ t \notin Waiting /\ Waiting' = Waiting
             /\ requests_' \in [Tensors -> States] /\ boundary' = boundary
  <2>1. requests_[t] = "none" /\ Becomes(t, "leased") /\ "leased" \in States /\ t \in entries_
    BY <1>2 DEF RequestHit, States
  <2>2. t \notin Waiting
    BY <2>1 DEF Waiting
  <2>3. Waiting' = Waiting \ {t} /\ requests_' \in [Tensors -> States] /\ boundary' = boundary
    BY <1>1, <2>1, WaitingNext
  <2> QED
    BY <2>1, <2>2, <2>3
<1>3. ASSUME RequestMiss(t)
      PROVE  /\ t \notin entries_ /\ Waiting' = Waiting \cup {t}
             /\ requests_' \in [Tensors -> States] /\ boundary' = boundary
  <2>1. PICK v \in {"refused", "reading"} : Becomes(t, v)
    BY <1>3 DEF RequestMiss
  <2>2. v \in States
    BY DEF States
  <2>3. Waiting' = Waiting \cup {t} /\ requests_' \in [Tensors -> States] /\ boundary' = boundary
    BY <1>1, <2>1, <2>2, WaitingNext
  <2> QED
    BY <1>3, <2>3 DEF RequestMiss
<1> QED
  BY <1>2, <1>3

\* A request tells itself and its outcome.
LEMMA AskShows ==
  ASSUME StoreInv, NEW t \in Tensors, NEW outcome,
         \/ RequestHit(t) /\ outcome = "LEASE_ACQUIRE"
         \/ RequestMiss(t) /\ outcome = "MISS"
  PROVE  Shows(<<<<"REQUEST", t>>, <<outcome, t>>>>)
<1> DEFINE a == <<"REQUEST", t>>
           b == <<outcome, t>>
           new == <<a, b>>
<1>1. a \in Event /\ b \in Event /\ b[1] # "REQUEST"
  BY DEF Event, Kinds
<1>2. entries_' = entries_ /\ trace_' = trace_ \o new
  BY DEF RequestHit, RequestMiss, Asks, Emits
<1>3. t \in entries_ \cup Waiting' /\ Waiting \subseteq Waiting'
  BY AskWaits
<1>4. \A u : <<"MATERIALIZE", u>> \notin {a, b} /\ (<<"REQUEST", u>> \in {a, b} => u = t)
  OBVIOUS
<1> HIDE DEF a, b
<1>5. new \in Seq(Event) /\ Len(new) = 2 /\ new[2] = b /\ Range(new) = {a, b}
  BY <1>1, OfTwo
<1> HIDE DEF new
<1>6. Shows(new)
  BY <1>1, <1>2, <1>3, <1>4, <1>5 DEF Shows
<1> QED
  BY <1>6 DEF new, a, b

\* What is obtained was waiting, and waits no more.
LEMMA ObtainWaits ==
  ASSUME StoreInv, NEW t \in Tensors, NEW ev, NEW out, Obtains(t, ev, out)
  PROVE  /\ t \in Waiting /\ t \notin entries_ /\ Waiting' = Waiting \ {t}
         /\ requests_' \in [Tensors -> States] /\ boundary' = boundary
<1>1. requests_[t] = "reading" /\ Becomes(t, "read") /\ "read" \in States /\ requests_ \in [Tensors -> States]
  BY DEF Obtains, StoreInv, States
<1>2. t \in Waiting /\ t \notin entries_
  BY <1>1 DEF Waiting, StoreInv
<1>3. Waiting' = Waiting \ {t} /\ requests_' \in [Tensors -> States] /\ boundary' = boundary
  BY <1>1, WaitingNext
<1> QED
  BY <1>2, <1>3

\* What is obtained tells its read, the evictions for it and what came of it.
LEMMA ObtainShows ==
  ASSUME StoreInv, NEW t \in Tensors, NEW ev \in SUBSET Candidates, NEW out \in Seq(Event), out # <<>>,
         \A j \in DOMAIN out : out[j][1] \notin {"REQUEST", "MATERIALIZE", "EVICT"},
         Obtains(t, ev, out), entries_' \in {entries_ \ ev, (entries_ \ ev) \cup {t}}
  PROVE  \E new \in Seq(Event) : Shows(new)
<1> DEFINE c == <<"MATERIALIZE", t>>
           one == <<c>>
           e == Evicted(ev)
           n == Cardinality(ev)
<1>1. c \in Event
  BY DEF Event, Kinds
<1>2. ev \in SUBSET Tensors /\ IsFiniteSet(ev)
  <2>1. ev \in SUBSET Tensors
    BY TraceTellsTypes DEF Candidates, StoreInv
  <2> QED
    BY <2>1, StoreAssumption, FS_Subset
<1>3. /\ n \in Nat /\ SetToSeq(ev) \in [1..n -> ev]
      /\ \A x \in ev : \E i \in 1..n : SetToSeq(ev)[i] = x
  BY <1>2, SetListed
<1>4. e \in Seq(Event) /\ DOMAIN e = 1..n /\ \A u : <<"EVICT", u>> \in Range(e) <=> u \in ev
  <2>1. e = [i \in 1..n |-> <<"EVICT", SetToSeq(ev)[i]>>]
    BY DEF Evicted
  <2>2. \A i \in 1..n : <<"EVICT", SetToSeq(ev)[i]>> \in Event
    BY <1>2, <1>3 DEF Event, Kinds
  <2>3. e \in Seq(Event) /\ DOMAIN e = 1..n
    BY <1>3, <2>1, <2>2
  <2> HIDE DEF e
  <2>4. Range(e) = {<<"EVICT", SetToSeq(ev)[i]>> : i \in 1..n}
    BY <2>1, <2>3 DEF Range
  <2> QED
    BY <1>3, <2>3, <2>4
<1>5. \A x \in Range(e) : x[1] = "EVICT"
  <2>1. \A i \in 1..n : e[i] = <<"EVICT", SetToSeq(ev)[i]>>
    BY DEF Evicted
  <2> HIDE DEF e
  <2> QED
    BY <1>4, <2>1 DEF Range
<1>6. one \in Seq(Event) /\ Range(one) = {c}
  BY <1>1, OfOne
<1>7. \A x \in Range(out) : x[1] \notin {"REQUEST", "MATERIALIZE", "EVICT"}
  BY DEF Range
<1>8. trace_' = trace_ \o (one \o e \o out)
  BY DEF Obtains, Emits
<1> HIDE DEF one, e
<1> DEFINE new == one \o e \o out
<1>9. new \in Seq(Event) /\ Range(new) = {c} \cup Range(e) \cup Range(out) /\ new[Len(new)][1] # "REQUEST"
  <2> DEFINE x == one \o e
  <2>1. x \in Seq(Event) /\ Range(x) = {c} \cup Range(e)
    BY <1>4, <1>6, RangeConcat
  <2> HIDE DEF x
  <2>2. x \o out \in Seq(Event) /\ Range(x \o out) = Range(x) \cup Range(out)
    BY <2>1, RangeConcat
  <2>3. Len(out) \in DOMAIN out /\ (x \o out)[Len(x \o out)] = out[Len(out)]
    <3> HIDE DEF c
    <3> QED
      BY <2>1
  <2>4. out[Len(out)][1] # "REQUEST"
    BY <2>3
  <2> QED
    BY <2>1, <2>2, <2>3, <2>4 DEF x
<1> HIDE DEF new
<1>10. t \in Waiting /\ t \notin entries_ /\ Waiting' = Waiting \ {t}
  BY ObtainWaits
<1>11. ASSUME NEW u \in Tensors
      PROVE  /\ <<"REQUEST", u>> \notin Range(new)
             /\ <<"MATERIALIZE", u>> \in Range(new) <=> u = t
             /\ <<"EVICT", u>> \in Range(new) <=> u \in ev
  <2>1. <<"REQUEST", u>> \notin Range(e) /\ <<"MATERIALIZE", u>> \notin Range(e)
    BY <1>5
  <2>2. <<"REQUEST", u>> \notin Range(out) /\ <<"MATERIALIZE", u>> \notin Range(out) /\ <<"EVICT", u>> \notin Range(out)
    BY <1>7
  <2> QED
    BY <1>4, <1>9, <2>1, <2>2
<1>12. trace_' = trace_ \o new
  BY <1>8 DEF new
<1>13. Shows(new)
  BY <1>9, <1>10, <1>11, <1>12 DEF Shows
<1> QED
  BY <1>9, <1>13

\* Leases tell no more than themselves.
LEMMA LeaseShows ==
  ASSUME StoreInv, NEW t \in Tensors, ObtainUnasked(t) \/ GiveBack(t)
  PROVE  /\ \E new \in Seq(Event) : Shows(new)
         /\ Waiting' = Waiting /\ requests_' \in [Tensors -> States] /\ boundary' = boundary
         /\ entries_' = entries_ /\ resident_bytes_' = resident_bytes_ /\ last_request_' = last_request_
<1>1. requests_ \in [Tensors -> States] /\ {"none", "leased"} \subseteq States
  BY DEF StoreInv, States
<1>2. requests_[t] \in {"none", "read", "leased"} /\ \E v \in {"none", "leased"} : Becomes(t, v)
  BY DEF ObtainUnasked, GiveBack
<1>3. t \notin Waiting
  BY <1>2 DEF Waiting
<1>4. PICK v \in {"none", "leased"} : Becomes(t, v)
  BY <1>2
<1>5. Waiting' = Waiting \ {t} /\ requests_' \in [Tensors -> States] /\ boundary' = boundary
  BY <1>1, <1>4, WaitingNext
<1>6. Waiting' = Waiting
  BY <1>3, <1>5
<1>7. entries_' = entries_ /\ resident_bytes_' = resident_bytes_ /\ last_request_' = last_request_
  BY DEF ObtainUnasked, GiveBack, Acquire, Release, storeVars
<1>8. trace_ \in Seq(Event)
  BY TraceTellsTypes DEF StoreInv
<1>9. CASE UNCHANGED trace_
  <2> DEFINE new == <<>>
  <2>1. new \in Seq(Event) /\ trace_' = trace_ \o new /\ Range(new) = {}
    BY <1>8, <1>9 DEF Range
  <2>2. Shows(new)
    <3>1. new = <<>>
      OBVIOUS
    <3> HIDE DEF new
    <3> QED
      BY <1>6, <1>7, <2>1, <3>1 DEF Shows
  <2> QED
    BY <1>5, <1>6, <1>7, <2>1, <2>2
<1>10. CASE \E kind \in {"LEASE_ACQUIRE", "LEASE_RELEASE"} : trace_' = trace_ \o <<<<kind, t>>>>
  <2> PICK kind \in {"LEASE_ACQUIRE", "LEASE_RELEASE"} : trace_' = trace_ \o <<<<kind, t>>>>
    BY <1>10
  <2> DEFINE a == <<kind, t>>
             new == <<a>>
  <2>1. a \in Event /\ a[1] # "REQUEST"
    BY DEF Event, Kinds
  <2>2. \A u : <<"MATERIALIZE", u>> # a /\ <<"REQUEST", u>> # a
    OBVIOUS
  <2>3. trace_' = trace_ \o new
    OBVIOUS
  <2> HIDE DEF a
  <2>4. new \in Seq(Event) /\ Len(new) = 1 /\ new[1] = a /\ Range(new) = {a}
    BY <2>1, OfOne
  <2> HIDE DEF new
  <2>5. Shows(new)
    BY <1>6, <1>7, <2>1, <2>2, <2>3, <2>4 DEF Shows
  <2> QED
    BY <1>5, <1>6, <1>7, <2>4, <2>5
<1>11. \/ UNCHANGED trace_
       \/ \E kind \in {"LEASE_ACQUIRE", "LEASE_RELEASE"} : trace_' = trace_ \o <<<<kind, t>>>>
  BY DEF ObtainUnasked, GiveBack, Emits
<1> QED
  BY <1>9, <1>10, <1>11

\* What is obtained and kept, or not.
LEMMA KeptShows ==
  ASSUME StoreInv, NEW t \in Tensors, ObtainKept(t) \/ ObtainUnkept(t)
  PROVE  /\ \E new \in Seq(Event) : Shows(new)
         /\ t \in Waiting /\ t \notin entries_ /\ Waiting' = Waiting \ {t}
         /\ requests_' \in [Tensors -> States] /\ boundary' = boundary
<1>1. CASE ObtainKept(t)
  <2> DEFINE a == <<"INSERT", t>>
             b == <<"LEASE_ACQUIRE", t>>
             out == <<a, b>>
  <2>1. PICK ev \in Evictions(t) : entries_' = (entries_ \ ev) \cup {t} /\ Obtains(t, ev, out)
    BY <1>1 DEF ObtainKept
  <2>2. a \in Event /\ b \in Event /\ a[1] = "INSERT" /\ b[1] = "LEASE_ACQUIRE"
    BY DEF Event, Kinds
  <2>3. ev \in SUBSET Candidates
    BY DEF Evictions
  <2> HIDE DEF a, b
  <2>4. out \in Seq(Event) /\ \A j \in DOMAIN out : out[j][1] \notin {"REQUEST", "MATERIALIZE", "EVICT"}
    <3>1. out \in Seq(Event) /\ DOMAIN out = {1, 2} /\ out[1] = a /\ out[2] = b
      BY <2>2
    <3> QED
      BY <2>2, <3>1
  <2>5. out # <<>>
    OBVIOUS
  <2> HIDE DEF out
  <2>6. \E new \in Seq(Event) : Shows(new)
    BY <2>1, <2>3, <2>4, <2>5, ObtainShows
  <2> QED
    BY <2>1, <2>6, ObtainWaits
<1>2. CASE ObtainUnkept(t)
  <2> DEFINE a == <<"INSERT_REJECTED", t>>
             out == <<a>>
  <2>1. PICK ev \in {{}, Candidates} : entries_' = entries_ \ ev /\ Obtains(t, ev, out)
    BY <1>2 DEF ObtainUnkept
  <2>2. a \in Event /\ a[1] = "INSERT_REJECTED"
    BY DEF Event, Kinds
  <2>3. ev \in SUBSET Candidates
    OBVIOUS
  <2> HIDE DEF a
  <2>4. out \in Seq(Event) /\ \A j \in DOMAIN out : out[j][1] \notin {"REQUEST", "MATERIALIZE", "EVICT"}
    <3>1. out \in Seq(Event) /\ DOMAIN out = {1} /\ out[1] = a
      BY <2>2
    <3> QED
      BY <2>2, <3>1
  <2>5. out # <<>>
    OBVIOUS
  <2> HIDE DEF out
  <2>6. \E new \in Seq(Event) : Shows(new)
    BY <2>1, <2>3, <2>4, <2>5, ObtainShows
  <2> QED
    BY <2>1, <2>6, ObtainWaits
<1> QED
  BY <1>1, <1>2

LEMMA AnsweredGrows ==
  ASSUME NEW tr \in Seq(Event), NEW new \in Seq(Event), new # <<>> => new[Len(new)][1] # "REQUEST",
         Answered(tr), NEW longer, longer = tr \o new
  PROVE  Answered(longer)
<1>1. CASE new = <<>>
  <2>1. longer = tr
    BY <1>1
  <2> QED
    BY <2>1
<1>2. CASE new # <<>>
  <2>1. Len(new) \in Nat /\ Len(new) > 0 /\ Len(tr) \in Nat /\ Len(longer) = Len(tr) + Len(new)
    BY <1>2
  <2>2. longer[Len(longer)] = new[Len(new)]
    BY <2>1
  <2> QED
    BY <1>2, <2>2 DEF Answered
<1> QED
  BY <1>1, <1>2

-----------------------------------------------------------------------------
(* The trace tells the store, step by step.                                    *)

\* What is left of a set, and one more, is as large as the totals say.
LEMMA SizeMoves ==
  ASSUME NEW S \in SUBSET Tensors, NEW T \in SUBSET S, NEW t \in Tensors \ S
  PROVE  /\ SizeOf((S \ T) \cup {t}) = SizeOf(S) - SizeOf(T) + Bytes[t]
         /\ SizeOf(S \ T) = SizeOf(S) - SizeOf(T)
         /\ SizeOf(S) \in Nat /\ SizeOf(T) \in Nat /\ SizeOf(T) <= SizeOf(S) /\ Bytes[t] \in Nat
<1>1. SizeOf(S \ T) = SizeOf(S) - SizeOf(T) /\ SizeOf(T) <= SizeOf(S) /\ SizeOf(S) \in Nat /\ SizeOf(T) \in Nat
  BY SizeDrops
<1> DEFINE R == S \ T
<1>2. R \in SUBSET Tensors /\ t \notin R /\ Bytes[t] \in Nat
  BY StoreAssumption
<1> HIDE DEF R
<1>3. SizeOf(R \cup {t}) = SizeOf(R) + Bytes[t]
  BY <1>2, SizeWith
<1> QED
  BY <1>1, <1>2, <1>3 DEF R

LEMMA StoreStarts ==
  ASSUME ReplayInit
  PROVE  StoreInv /\ Seen = <<>> /\ ActiveSets(trace_) = <<>> /\ trace_ = <<>> /\ Waiting = {}
<1>1. entries_ = {} /\ active_leases = [t \in Tensors |-> 0] /\ resident_bytes_ = 0
      /\ last_request_ = <<>> /\ trace_ = <<>> /\ requests_ = [t \in Tensors |-> "none"]
  BY DEF ReplayInit, StoreInit
<1>2. Tells(trace_, <<>>, entries_, active_leases, <<>>) /\ Counts(trace_, 0, 0, {})
  BY <1>1, NothingTold
<1>3. Seen = <<>> /\ ActiveSets(trace_) = <<>>
  BY <1>2 DEF Tells, Seen, ActiveSets
<1>4. TraceTells
  BY <1>2, <1>3 DEF TraceTells
<1>5. resident_bytes_ = SizeOf(entries_) /\ resident_bytes_ <= MaxBytes
  BY <1>1, SizeOfNone, StoreAssumption
<1>6. Waiting = {} /\ requests_ \in [Tensors -> {"none", "refused", "reading", "read", "leased"}]
  BY <1>1 DEF Waiting
<1>7. Answered(trace_)
  BY <1>1 DEF Answered
<1>8. Ordered(last_request_, LastUses(Seen))
  BY <1>1, <1>3, OrderStarts
<1> QED
  BY <1>1, <1>3, <1>4, <1>5, <1>6, <1>7, <1>8 DEF StoreInv

LEMMA AskKeepsStore ==
  ASSUME StoreInv, NEW t \in Tensors, RequestHit(t) \/ RequestMiss(t)
  PROVE  StoreInv'
<1>1. /\ TraceTells /\ Seen \in Seq(Tensors) /\ trace_ \in Seq(Event)
      /\ ActiveSets(trace_) \in Seq(SUBSET Tensors) /\ Len(ActiveSets(trace_)) = Len(Seen)
  BY TraceTellsTypes DEF StoreInv
<1>2. TraceTells' /\ Seen' = Append(Seen, t) /\ ActiveSets(trace_)' = Append(ActiveSets(trace_), Leased)
  BY <1>1, AskGives
<1>3. Len(ActiveSets(trace_)') = Len(Seen')
  BY <1>1, <1>2
<1>4. UNCHANGED <<entries_, resident_bytes_>> /\ last_request_' = AskedLast(t)
  BY DEF RequestHit, RequestMiss, Asks
<1>5. resident_bytes_' = SizeOf(entries_') /\ resident_bytes_' <= MaxBytes
  BY <1>4 DEF StoreInv
<1>6. requests_' \in [Tensors -> States] /\ Waiting' \cap entries_' = {}
  BY <1>4, AskWaits DEF StoreInv
<1>7. Answered(trace_')
  <2>1. PICK outcome : Shows(<<<<"REQUEST", t>>, <<outcome, t>>>>)
    BY AskShows
  <2> DEFINE new == <<<<"REQUEST", t>>, <<outcome, t>>>>
  <2>2. Shows(new)
    BY <2>1
  <2> HIDE DEF new
  <2>3. Answered(trace_) /\ new \in Seq(Event) /\ (new # <<>> => new[Len(new)][1] # "REQUEST")
        /\ trace_' = trace_ \o new
    BY <2>2 DEF Shows, StoreInv
  <2> QED
    BY <1>1, <2>3, AnsweredGrows
<1>8. Ordered(last_request_', LastUses(Seen'))
  <2>1. Ordered(last_request_, LastUses(Seen))
    BY DEF StoreInv
  <2> QED
    BY <1>1, <1>2, <1>4, <2>1, AskedOrders
<1> QED
  BY <1>2, <1>3, <1>5, <1>6, <1>7, <1>8 DEF StoreInv, States

LEMMA ObtainKeepsStore ==
  ASSUME StoreInv, NEW t \in Tensors, ObtainKept(t) \/ ObtainUnkept(t)
  PROVE  StoreInv' /\ UNCHANGED <<Seen, ActiveSets(trace_), last_request_>>
<1>1. /\ TraceTells /\ trace_ \in Seq(Event) /\ entries_ \in SUBSET Tensors
  BY TraceTellsTypes DEF StoreInv
<1>2. t \in Waiting /\ t \notin entries_ /\ Waiting' = Waiting \ {t} /\ requests_' \in [Tensors -> States]
  BY KeptShows
<1>3. /\ TraceTells' /\ Seen' = Seen /\ ActiveSets(trace_)' = ActiveSets(trace_)
      /\ last_request_' = last_request_
      /\ resident_bytes_' = SizeOf(entries_') /\ resident_bytes_' <= MaxBytes
      /\ entries_' \subseteq entries_ \cup {t}
  <2>1. CASE ObtainKept(t)
    <3>1. PICK ev \in Evictions(t) :
            /\ resident_bytes_ - SizeOf(ev) + Bytes[t] <= MaxBytes
            /\ entries_' = (entries_ \ ev) \cup {t}
            /\ active_leases' = [active_leases EXCEPT ![t] = @ + 1]
            /\ Obtains(t, ev, <<<<"INSERT", t>>, <<"LEASE_ACQUIRE", t>>>>)
      BY <2>1 DEF ObtainKept
    <3>2. TraceTells' /\ Seen' = Seen /\ ActiveSets(trace_)' = ActiveSets(trace_)
      BY <1>1, <3>1, KeptGives
    <3>3. ev \in SUBSET entries_ /\ t \in Tensors \ entries_
      BY <1>2 DEF Evictions, Candidates
    <3>4. SizeOf((entries_ \ ev) \cup {t}) = SizeOf(entries_) - SizeOf(ev) + Bytes[t]
      BY <1>1, <3>3, SizeMoves
    <3>5. resident_bytes_' = SizeOf(entries_') /\ last_request_' = last_request_
      BY <3>1 DEF Obtains
    <3>6. SizeOf(entries_') <= MaxBytes
      BY <3>1, <3>4 DEF StoreInv
    <3> QED
      BY <3>1, <3>2, <3>5, <3>6
  <2>2. CASE ObtainUnkept(t)
    <3>1. PICK ev \in {{}, Candidates} :
            entries_' = entries_ \ ev /\ Obtains(t, ev, <<<<"INSERT_REJECTED", t>>>>)
      BY <2>2 DEF ObtainUnkept
    <3>2. TraceTells' /\ Seen' = Seen /\ ActiveSets(trace_)' = ActiveSets(trace_)
      BY <1>1, <2>2, UnkeptGives
    <3>3. ev \in SUBSET entries_
      BY DEF Candidates
    <3>4. SizeOf(entries_ \ ev) = SizeOf(entries_) - SizeOf(ev) /\ SizeOf(ev) \in Nat /\ SizeOf(entries_) \in Nat
      BY <1>1, <3>3, SizeDrops
    <3>5. resident_bytes_' = SizeOf(entries_') /\ last_request_' = last_request_
      BY <3>1 DEF Obtains
    <3>6. SizeOf(entries_') <= MaxBytes
      <4>1. SizeOf(entries_) <= MaxBytes /\ MaxBytes \in Nat /\ SizeOf(entries_') = SizeOf(entries_ \ ev)
        BY <3>1, StoreAssumption DEF StoreInv
      <4> QED
        BY <3>4, <4>1
    <3> QED
      BY <3>1, <3>2, <3>5, <3>6
  <2> QED
    BY <2>1, <2>2
<1>4. Waiting' \cap entries_' = {}
  BY <1>2, <1>3 DEF StoreInv
<1>5. Answered(trace_')
  <2>1. PICK new \in Seq(Event) : Shows(new)
    BY KeptShows
  <2>2. Answered(trace_) /\ (new # <<>> => new[Len(new)][1] # "REQUEST") /\ trace_' = trace_ \o new
    BY <2>1 DEF Shows, StoreInv
  <2> QED
    BY <1>1, <2>2, AnsweredGrows
<1>6. Len(ActiveSets(trace_)') = Len(Seen') /\ Ordered(last_request_', LastUses(Seen'))
  BY <1>3 DEF StoreInv
<1> QED
  BY <1>2, <1>3, <1>4, <1>5, <1>6 DEF StoreInv, States

LEMMA LeaseKeepsStore ==
  ASSUME StoreInv, NEW t \in Tensors, ObtainUnasked(t) \/ GiveBack(t)
  PROVE  StoreInv'
<1>1. TraceTells /\ trace_ \in Seq(Event)
  BY TraceTellsTypes DEF StoreInv
<1>2. TraceTells' /\ Seen' = Seen /\ ActiveSets(trace_)' = ActiveSets(trace_)
  BY <1>1, LeaseGives
<1>3. /\ Waiting' = Waiting /\ requests_' \in [Tensors -> States]
      /\ entries_' = entries_ /\ resident_bytes_' = resident_bytes_ /\ last_request_' = last_request_
  BY LeaseShows
<1>4. Answered(trace_')
  <2>1. PICK new \in Seq(Event) : Shows(new)
    BY LeaseShows
  <2>2. Answered(trace_) /\ (new # <<>> => new[Len(new)][1] # "REQUEST") /\ trace_' = trace_ \o new
    BY <2>1 DEF Shows, StoreInv
  <2> QED
    BY <1>1, <2>2, AnsweredGrows
<1>5. Len(ActiveSets(trace_)') = Len(Seen') /\ Ordered(last_request_', LastUses(Seen'))
  BY <1>2, <1>3 DEF StoreInv
<1>6. Waiting' \cap entries_' = {} /\ resident_bytes_' = SizeOf(entries_') /\ resident_bytes_' <= MaxBytes
  BY <1>3 DEF StoreInv
<1> QED
  BY <1>2, <1>3, <1>4, <1>5, <1>6 DEF StoreInv, States

\* The start of the second token leaves the store and its trace as they are.
LEMMA RestKeepsStore ==
  ASSUME StoreInv, UNCHANGED <<storeVars, requests_, trace_>>
  PROVE  StoreInv'
<1>1. Seen' = Seen /\ ActiveSets(trace_)' = ActiveSets(trace_) /\ Waiting' = Waiting
  BY DEF Seen, ActiveSets, Waiting
<1>2. TraceTells'
  BY <1>1 DEF TraceTells, StoreInv, storeVars
<1> QED
  BY <1>1, <1>2 DEF StoreInv, storeVars

LEMMA StoreStep ==
  ASSUME StoreInv, [ReplayNext]_replayVars
  PROVE  StoreInv'
<1>1. ASSUME NEW t \in Tensors,
             \/ RequestHit(t) \/ RequestMiss(t)
             \/ ObtainKept(t) \/ ObtainUnkept(t) \/ ObtainUnasked(t) \/ GiveBack(t)
      PROVE  StoreInv'
  <2>1. CASE RequestHit(t) \/ RequestMiss(t)
    BY <2>1, AskKeepsStore
  <2>2. CASE ObtainKept(t) \/ ObtainUnkept(t)
    BY <2>2, ObtainKeepsStore
  <2>3. CASE ObtainUnasked(t) \/ GiveBack(t)
    BY <2>3, LeaseKeepsStore
  <2> QED
    BY <1>1, <2>1, <2>2, <2>3
<1>2. CASE SecondToken
  BY <1>2, RestKeepsStore DEF SecondToken
<1>3. CASE UNCHANGED replayVars
  BY <1>3, RestKeepsStore DEF replayVars
<1> QED
  BY <1>1, <1>2, <1>3 DEF ReplayNext

\* The trace tells what the store is: from the events alone the scripts that read
\* it recover what is resident, with its leases (ResidentAfter, Told).
THEOREM TraceTellsTheStore == ReplaySpec => []TraceTells
<1>1. ReplayInit => StoreInv
  BY StoreStarts
<1>2. StoreInv /\ [ReplayNext]_replayVars => StoreInv'
  BY StoreStep
<1>3. StoreInv => TraceTells
  BY DEF StoreInv
<1> QED
  BY <1>1, <1>2, <1>3, PTL DEF ReplaySpec

Later(tr, from, e) == \E i \in (from + 1)..Len(tr) : tr[i] = e

LEMMA LaterGrows ==
  ASSUME NEW tr \in Seq(Event), NEW new \in Seq(Event), NEW b \in 0..Len(tr)
  PROVE  /\ b \in 0..Len(tr \o new) /\ SubSeq(tr \o new, 1, b) = SubSeq(tr, 1, b)
         /\ \A e : Later(tr \o new, b, e) <=> Later(tr, b, e) \/ e \in Range(new)
<1> DEFINE n == Len(tr)
           m == Len(new)
           all == tr \o new
<1>1. /\ n \in Nat /\ m \in Nat /\ all \in Seq(Event) /\ Len(all) = n + m /\ b \in 0..n
      /\ DOMAIN new = 1..m
      /\ \A i \in 1..(n + m) : all[i] = IF i <= n THEN tr[i] ELSE new[i - n]
  OBVIOUS
<1>2. SubSeq(all, 1, b) = SubSeq(tr, 1, b)
  <2>1. \A i \in 1..b : all[i] = tr[i]
    BY <1>1
  <2> HIDE DEF all
  <2>2. SubSeq(all, 1, b) = [i \in 1..b |-> all[i]] /\ SubSeq(tr, 1, b) = [i \in 1..b |-> tr[i]]
    BY <1>1
  <2> QED
    BY <2>1, <2>2
<1> HIDE DEF all
<1>3. ASSUME NEW e, Later(all, b, e) PROVE Later(tr, b, e) \/ e \in Range(new)
  <2>1. PICK i \in (b + 1)..(n + m) : all[i] = e
    BY <1>1, <1>3 DEF Later
  <2>2. CASE i <= n
    BY <1>1, <2>1, <2>2 DEF Later
  <2>3. CASE ~ i <= n
    <3>1. i - n \in 1..m /\ new[i - n] = e
      BY <1>1, <2>1, <2>3
    <3> QED
      BY <1>1, <3>1 DEF Range
  <2> QED
    BY <2>2, <2>3
<1>4. ASSUME NEW e, Later(tr, b, e) PROVE Later(all, b, e)
  <2>1. PICK i \in (b + 1)..n : tr[i] = e
    BY <1>4 DEF Later
  <2>2. i \in (b + 1)..(n + m) /\ all[i] = e
    BY <1>1, <2>1
  <2> QED
    BY <1>1, <2>2 DEF Later
<1>5. ASSUME NEW e, e \in Range(new) PROVE Later(all, b, e)
  <2>1. PICK j \in 1..m : new[j] = e
    BY <1>1, <1>5 DEF Range
  <2>2. j + n \in (b + 1)..(n + m) /\ all[j + n] = e
    BY <1>1, <2>1
  <2> QED
    BY <1>1, <2>2 DEF Later
<1> QED
  BY <1>1, <1>2, <1>3, <1>4, <1>5 DEF all

-----------------------------------------------------------------------------
(* What waits, waits since a miss.  Where delays disturb nothing, what was     *)
(* requested since fits the store.                                             *)

LeasedIn(tr, i) == {t \in Tensors : Told(SubSeq(tr, 1, i)).leases[t] # 0}
PendingIn(tr, i) == {k \in i..Len(tr) : \A j \in i..k : tr[j] # <<"MATERIALIZE", tr[i][2]>>}
Missed(tr, i) == {tr[k][2] : k \in {j \in PendingIn(tr, i) : tr[j][1] = "MISS"}}

\* Undisturbed, of any trace.
Calm(tr) ==
  /\ \A i \in DOMAIN tr : tr[i][1] \in {"MISS", "MATERIALIZE"} => LeasedIn(tr, i) = {}
  /\ \A i \in DOMAIN tr : tr[i][1] = "MISS" =>
       /\ \A k \in PendingIn(tr, i) : tr[k][1] = "REQUEST" => tr[k + 1][1] = "MISS"
       /\ SizeOf(Missed(tr, i)) <= MaxBytes

\* Each of W was missed at some event m and not read since, and every request
\* after its last one came after m, too.
WaitsAt(tr, seq, w, m) ==
  /\ tr[m] = <<"MISS", w>>
  /\ \A k \in m..Len(tr) : tr[k] # <<"MATERIALIZE", w>>
  /\ \A u \in Since(seq, w) :
       u = w \/ \E k \in m..(Len(tr) - 1) : tr[k] = <<"REQUEST", u>> /\ tr[k + 1][2] = u

Waits(tr, seq, W) == \A w \in W : w \in Range(seq) /\ \E m \in 1..Len(tr) : WaitsAt(tr, seq, w, m)

LEMMA CalmIs == Undisturbed <=> Calm(trace_)
<1>1. \A i : LeasedAfter(i) = LeasedIn(trace_, i) /\ Pending(i) = PendingIn(trace_, i)
  BY DEF LeasedAfter, LeasedIn, Pending, PendingIn
<1> QED
  BY <1>1 DEF Undisturbed, Calm, Missed

LEMMA MissedAre ==
  ASSUME NEW tr \in Seq(Event), NEW i \in 1..Len(tr)
  PROVE  Missed(tr, i) \in SUBSET Tensors /\ PendingIn(tr, i) \subseteq 1..Len(tr)
<1>1. PendingIn(tr, i) \subseteq 1..Len(tr)
  BY DEF PendingIn
<1>2. \A k \in 1..Len(tr) : tr[k][2] \in Tensors
  BY DEF Event
<1> QED
  BY <1>1, <1>2 DEF Missed

\* What more the trace tells cannot calm what it told before.
LEMMA CalmBefore ==
  ASSUME NEW tr \in Seq(Event), NEW new \in Seq(Event), Answered(tr), NEW longer, longer = tr \o new, Calm(longer)
  PROVE  Calm(tr)
<1> DEFINE n == Len(tr)
           m == Len(longer)
<1>1. /\ n \in Nat /\ m \in Nat /\ n <= m /\ longer \in Seq(Event) /\ DOMAIN tr = 1..n /\ DOMAIN longer = 1..m
      /\ \A i \in 1..n : longer[i] = tr[i]
  OBVIOUS
<1>2. 1..n \subseteq 1..m
  BY <1>1
<1>3. \A i \in 1..n : LeasedIn(longer, i) = LeasedIn(tr, i)
  <2> TAKE i \in 1..n
  <2>1. i \in 0..Len(tr)
    OBVIOUS
  <2>2. SubSeq(longer, 1, i) = SubSeq(tr, 1, i)
    BY <2>1, LaterGrows
  <2> QED
    BY <2>2 DEF LeasedIn
<1>4. ASSUME NEW i \in 1..n
      PROVE  /\ PendingIn(tr, i) \subseteq PendingIn(longer, i) /\ Missed(tr, i) \subseteq Missed(longer, i)
             /\ PendingIn(tr, i) \subseteq 1..n
  <2>1. ASSUME NEW k \in PendingIn(tr, i) PROVE k \in PendingIn(longer, i) /\ k \in 1..n
    <3>1. k \in i..n /\ \A j \in i..k : tr[j] # <<"MATERIALIZE", tr[i][2]>>
      BY DEF PendingIn
    <3>2. k \in i..m /\ k \in 1..n /\ \A j \in i..k : j \in 1..n
      BY <1>1, <3>1
    <3>3. \A j \in i..k : longer[j] # <<"MATERIALIZE", longer[i][2]>>
      BY <1>1, <3>1, <3>2
    <3> QED
      BY <3>2, <3>3 DEF PendingIn
  <2>2. Missed(tr, i) \subseteq Missed(longer, i)
    BY <1>1, <2>1 DEF Missed
  <2> QED
    BY <2>1, <2>2
<1>5. ASSUME NEW i \in 1..n, tr[i][1] = "MISS"
      PROVE  /\ \A k \in PendingIn(tr, i) : tr[k][1] = "REQUEST" => tr[k + 1][1] = "MISS"
             /\ SizeOf(Missed(tr, i)) <= MaxBytes
  <2>1. i \in 1..m /\ longer[i][1] = "MISS"
    BY <1>1, <1>2, <1>5
  <2>2. /\ \A k \in PendingIn(longer, i) : longer[k][1] = "REQUEST" => longer[k + 1][1] = "MISS"
        /\ SizeOf(Missed(longer, i)) <= MaxBytes
    BY <1>1, <2>1 DEF Calm
  <2>3. ASSUME NEW k \in PendingIn(tr, i), tr[k][1] = "REQUEST" PROVE tr[k + 1][1] = "MISS"
    <3>1. k \in 1..n /\ k \in PendingIn(longer, i) /\ longer[k] = tr[k]
      BY <1>1, <1>4
    <3>2. k # n
      BY <1>1, <2>3, <3>1 DEF Answered
    <3>3. k + 1 \in 1..n
      <4>1. n \in Nat /\ k \in 1..n
        BY <1>1, <3>1
      <4> HIDE DEF n
      <4> QED
        BY <3>2, <4>1
    <3> QED
      BY <1>1, <2>2, <2>3, <3>1, <3>3
  <2>4. SizeOf(Missed(tr, i)) <= MaxBytes
    <3> DEFINE big == Missed(longer, i)
               small == Missed(tr, i)
    <3>1. big \in SUBSET Tensors /\ small \in SUBSET big
      BY <1>1, <1>4, <2>1, MissedAre
    <3> HIDE DEF big, small
    <3>2. SizeOf(small) <= SizeOf(big) /\ SizeOf(small) \in Nat /\ SizeOf(big) \in Nat
      BY <3>1, SizeGrows
    <3>3. SizeOf(big) <= MaxBytes /\ MaxBytes \in Nat
      BY <2>2, StoreAssumption DEF big
    <3>4. SizeOf(small) <= MaxBytes
      BY <3>2, <3>3
    <3> QED
      BY <3>4 DEF small
  <2> QED
    BY <2>3, <2>4
<1>6. ASSUME NEW i \in 1..n, tr[i][1] \in {"MISS", "MATERIALIZE"} PROVE LeasedIn(tr, i) = {}
  <2>1. LeasedIn(longer, i) = {}
    BY <1>1, <1>2, <1>6 DEF Calm
  <2> QED
    BY <1>3, <2>1
<1> QED
  BY <1>1, <1>5, <1>6 DEF Calm

\* In calm, what waits and what was requested since fits the store.
LEMMA WaitsFit ==
  ASSUME NEW tr \in Seq(Event), NEW seq \in Seq(Tensors), NEW W, Waits(tr, seq, W), Calm(tr), NEW w \in W
  PROVE  SizeOf(Since(seq, w)) <= MaxBytes
<1> DEFINE n == Len(tr)
<1>1. PICK m \in 1..n : WaitsAt(tr, seq, w, m)
  BY DEF Waits
<1>2. w \in Range(seq) /\ tr[m] = <<"MISS", w>> /\ m \in DOMAIN tr /\ n \in Nat
  BY <1>1 DEF Waits, WaitsAt
<1>3. PendingIn(tr, m) = m..n
  <2>1. \A k \in m..n : \A j \in m..k : j \in m..n
    BY <1>2
  <2>2. \A j \in m..n : tr[j] # <<"MATERIALIZE", tr[m][2]>>
    BY <1>1, <1>2 DEF WaitsAt
  <2> QED
    BY <2>1, <2>2 DEF PendingIn
<1>4. /\ \A k \in m..n : tr[k][1] = "REQUEST" => tr[k + 1][1] = "MISS"
      /\ SizeOf(Missed(tr, m)) <= MaxBytes
  <2>1. tr[m][1] = "MISS"
    BY <1>2
  <2>2. /\ \A k \in PendingIn(tr, m) : tr[k][1] = "REQUEST" => tr[k + 1][1] = "MISS"
        /\ SizeOf(Missed(tr, m)) <= MaxBytes
    BY <1>2, <2>1 DEF Calm
  <2> QED
    BY <1>3, <2>2
<1>5. \A k \in m..n : tr[k][1] = "MISS" => tr[k][2] \in Missed(tr, m)
  BY <1>3 DEF Missed
<1>6. ASSUME NEW u \in Since(seq, w) PROVE u \in Missed(tr, m)
  <2>1. CASE u = w
    <3>1. m \in m..n
      BY <1>2
    <3> QED
      BY <1>2, <1>5, <2>1, <3>1
  <2>2. CASE u # w
    <3>1. PICK k \in m..(n - 1) : tr[k] = <<"REQUEST", u>> /\ tr[k + 1][2] = u
      BY <1>1, <2>2 DEF WaitsAt
    <3>2. k \in m..n /\ k + 1 \in m..n
      BY <1>2, <3>1
    <3>3. tr[k + 1][1] = "MISS"
      BY <1>4, <3>1, <3>2
    <3> QED
      BY <1>5, <3>1, <3>2, <3>3
  <2> QED
    BY <2>1, <2>2
<1> DEFINE big == Missed(tr, m)
           small == Since(seq, w)
<1>7. big \in SUBSET Tensors /\ small \in SUBSET big
  BY <1>6, MissedAre
<1>8. SizeOf(big) <= MaxBytes /\ MaxBytes \in Nat
  BY <1>4, StoreAssumption
<1> HIDE DEF big, small
<1>9. SizeOf(small) <= SizeOf(big) /\ SizeOf(small) \in Nat /\ SizeOf(big) \in Nat
  BY <1>7, SizeGrows
<1>10. SizeOf(small) <= MaxBytes
  BY <1>8, <1>9
<1> QED
  BY <1>10 DEF small

\* In calm, only misses come while something waits.
LEMMA WaitsMiss ==
  ASSUME NEW tr \in Seq(Event), NEW seq, NEW W, Waits(tr, seq, W), NEW w \in W,
         NEW a, NEW b, a[1] = "REQUEST", b[1] # "MISS", a \in Event, b \in Event,
         NEW longer, longer = tr \o <<a, b>>
  PROVE  ~ Calm(longer)
<1> DEFINE n == Len(tr)
<1>1. PICK m \in 1..n : WaitsAt(tr, seq, w, m)
  BY DEF Waits
<1>2. n \in Nat /\ Len(longer) = n + 2 /\ DOMAIN longer = 1..(n + 2) /\ longer[n + 1] = a /\ longer[n + 2] = b
      /\ \A k \in 1..n : longer[k] = tr[k]
  <2> HIDE DEF n
  <2>1. Len(tr) = n /\ n \in Nat
    BY DEF n
  <2> QED
    BY <2>1
<1>3. longer[m] = <<"MISS", w>> /\ m \in DOMAIN longer
  BY <1>1, <1>2 DEF WaitsAt
<1>4. \A k \in m..(n + 1) : longer[k] # <<"MATERIALIZE", w>>
  <2> TAKE k \in m..(n + 1)
  <2>1. CASE k = n + 1
    BY <1>2, <2>1
  <2>2. CASE k # n + 1
    <3>1. k \in m..n /\ k \in 1..n
      BY <1>2, <2>2
    <3> QED
      BY <1>1, <1>2, <3>1 DEF WaitsAt
  <2> QED
    BY <2>1, <2>2
<1>5. n + 1 \in PendingIn(longer, m)
  <2>1. n + 1 \in m..Len(longer)
    BY <1>2
  <2>2. longer[m][2] = w
    BY <1>3
  <2>3. \A k \in m..(n + 1) : longer[k] # <<"MATERIALIZE", longer[m][2]>>
    BY <1>4, <2>2
  <2> HIDE DEF n
  <2> QED
    BY <2>1, <2>3 DEF PendingIn
<1> SUFFICES ASSUME Calm(longer) PROVE FALSE
  OBVIOUS
<1>6. longer[m][1] = "MISS"
  BY <1>3
<1>7. longer[n + 1][1] = "REQUEST" => longer[(n + 1) + 1][1] = "MISS"
  BY <1>3, <1>5, <1>6 DEF Calm
<1>8. (n + 1) + 1 = n + 2
  BY <1>2
<1> HIDE DEF n
<1> QED
  BY <1>2, <1>7, <1>8

LEMMA TwoMore ==
  ASSUME NEW tr \in Seq(Event), NEW a \in Event, NEW b \in Event, NEW longer, longer = tr \o <<a, b>>,
         NEW n, n = Len(tr)
  PROVE  /\ n \in Nat /\ Len(longer) = n + 2 /\ longer[n + 1] = a /\ longer[n + 2] = b
         /\ \A k \in 1..n : longer[k] = tr[k]
  OBVIOUS

LEMMA SomeMore ==
  ASSUME NEW tr \in Seq(Event), NEW new \in Seq(Event), NEW longer, longer = tr \o new,
         NEW n, n = Len(tr), NEW p, p = Len(new)
  PROVE  /\ n \in Nat /\ p \in Nat /\ Len(longer) = n + p /\ DOMAIN new = 1..p
         /\ \A k \in 1..n : longer[k] = tr[k]
         /\ \A k \in (n + 1)..(n + p) : longer[k] = new[k - n] /\ k - n \in 1..p
  OBVIOUS

\* A request is one more that came since; where it misses, it waits from there.
LEMMA WaitsAsk ==
  ASSUME NEW tr \in Seq(Event), NEW seq \in Seq(Tensors), NEW W \in SUBSET Tensors, Waits(tr, seq, W),
         NEW t \in Tensors, NEW outcome, NEW a, NEW b, a = <<"REQUEST", t>>, b = <<outcome, t>>,
         a \in Event, b \in Event, outcome \in {"MISS", "LEASE_ACQUIRE"},
         NEW longer, longer = tr \o <<a, b>>, NEW asked, asked = Append(seq, t),
         NEW V \in SUBSET Tensors, V \subseteq W \cup {t}, t \in V => outcome = "MISS"
  PROVE  Waits(longer, asked, V)
<1> DEFINE n == Len(tr)
<1>1. n \in Nat /\ Len(longer) = n + 2 /\ longer[n + 1] = a /\ longer[n + 2] = b
      /\ \A k \in 1..n : longer[k] = tr[k]
  <2>1. n = Len(tr)
    OBVIOUS
  <2> HIDE DEF n
  <2> QED
    BY <2>1, TwoMore
<1>2. Range(asked) = Range(seq) \cup {t}
  BY LastUseAppends
<1>3. Since(asked, t) = {t} /\ \A u \in Range(seq) : u # t => Since(asked, u) = Since(seq, u) \cup {t}
  <2>1. Since(asked, t) = {t}
    BY SinceLast
  <2>2. \A l : l = Append(seq, t) => \A u \in Range(seq) : u # t => Since(l, u) = Since(seq, u) \cup {t}
    BY SinceGrows
  <2>3. \A u \in Range(seq) : u # t => Since(asked, u) = Since(seq, u) \cup {t}
    BY <2>2, Zenon
  <2> QED
    BY <2>1, <2>3
<1>b. \A w : b # <<"MATERIALIZE", w>>
  <2> TAKE w
  <2>1. CASE outcome = "MISS"
    <3>1. b = <<"MISS", t>>
      BY <2>1
    <3> QED
      BY <3>1
  <2>2. CASE outcome = "LEASE_ACQUIRE"
    <3>1. b = <<"LEASE_ACQUIRE", t>>
      BY <2>2
    <3> QED
      BY <3>1
  <2> QED
    BY <2>1, <2>2
<1>4. n \in Nat /\ n + 1 \in 1..(n + 2) /\ n + 2 \in 1..(n + 2) /\ (n + 2) - 1 = n + 1 /\ (n + 1) + 1 = n + 2
  BY <1>1
<1> HIDE DEF n
<1>5. ASSUME t \in V PROVE WaitsAt(longer, asked, t, n + 2)
  <2>1. longer[n + 2] = <<"MISS", t>>
    BY <1>1, <1>5
  <2>2. \A k \in (n + 2)..Len(longer) : k = n + 2
    BY <1>1
  <2>3. \A k \in (n + 2)..Len(longer) : longer[k] # <<"MATERIALIZE", t>>
    BY <2>1, <2>2
  <2>4. \A u \in Since(asked, t) : u = t
    BY <1>3
  <2> QED
    BY <2>1, <2>3, <2>4 DEF WaitsAt
<1>6. ASSUME NEW w \in W, w # t
      PROVE  w \in Range(seq) /\ \E m \in 1..(n + 2) : WaitsAt(longer, asked, w, m)
  <2>1. PICK m \in 1..n : WaitsAt(tr, seq, w, m)
    BY DEF Waits, n
  <2>2. w \in Range(seq)
    BY DEF Waits
  <2>3. m \in 1..(n + 2) /\ longer[m] = <<"MISS", w>>
    BY <1>1, <2>1 DEF WaitsAt
  <2>4. \A k \in m..(n + 2) : longer[k] # <<"MATERIALIZE", w>>
    <3> TAKE k \in m..(n + 2)
    <3>1. k \in m..n \/ k = n + 1 \/ k = n + 2
      BY <1>1
    <3>2. CASE k \in m..n
      <4>1. k \in 1..n
        BY <1>1, <3>2
      <4> QED
        BY <1>1, <2>1, <3>2, <4>1 DEF WaitsAt, n
    <3>3. CASE k = n + 1
      BY <1>1, <3>3
    <3>4. CASE k = n + 2
      <4>1. longer[k] = b
        BY <1>1, <3>4
      <4> QED
        BY <1>b, <4>1
    <3> QED
      BY <3>1, <3>2, <3>3, <3>4
  <2>5. ASSUME NEW u \in Since(asked, w), u # w
        PROVE  \E k \in m..((n + 2) - 1) : longer[k] = <<"REQUEST", u>> /\ longer[k + 1][2] = u
    <3>1. CASE u = t
      <4>1. n + 1 \in m..((n + 2) - 1)
        BY <1>1
      <4>2. longer[n + 1] = <<"REQUEST", u>> /\ longer[(n + 1) + 1][2] = u
        BY <1>1, <1>4, <3>1
      <4> QED
        BY <4>1, <4>2
    <3>2. CASE u # t
      <4>1. u \in Since(seq, w)
        BY <1>3, <1>6, <2>2, <3>2
      <4>2. PICK k \in m..(n - 1) : tr[k] = <<"REQUEST", u>> /\ tr[k + 1][2] = u
        BY <2>1, <2>5, <4>1 DEF WaitsAt, n
      <4>3. k \in m..((n + 2) - 1) /\ k \in 1..n /\ k + 1 \in 1..n
        BY <1>4
      <4> QED
        BY <1>1, <4>2, <4>3
    <3> QED
      BY <3>1, <3>2
  <2>6. WaitsAt(longer, asked, w, m)
    BY <1>1, <2>3, <2>4, <2>5 DEF WaitsAt
  <2> QED
    BY <2>2, <2>3, <2>6
<1>7. ASSUME NEW w \in V PROVE w \in Range(asked) /\ \E m \in 1..(n + 2) : WaitsAt(longer, asked, w, m)
  <2>1. CASE w = t
    BY <1>2, <1>4, <1>5, <2>1
  <2>2. CASE w # t
    <3>1. w \in W
      BY <2>2
    <3> QED
      BY <1>2, <1>6, <2>2, <3>1
  <2> QED
    BY <2>1, <2>2
<1> QED
  BY <1>1, <1>7 DEF Waits

\* What is not read goes on waiting.
LEMMA WaitsStay ==
  ASSUME NEW tr \in Seq(Event), NEW seq, NEW W, Waits(tr, seq, W), NEW new \in Seq(Event),
         NEW longer, longer = tr \o new,
         NEW V, V \subseteq W, \A w \in V : <<"MATERIALIZE", w>> \notin Range(new)
  PROVE  Waits(longer, seq, V)
<1> DEFINE n == Len(tr)
           p == Len(new)
<1>1. n \in Nat /\ p \in Nat /\ Len(longer) = n + p /\ (\A k \in 1..n : longer[k] = tr[k]) /\ DOMAIN new = 1..p
      /\ \A k \in (n + 1)..(n + p) : longer[k] = new[k - n] /\ k - n \in 1..p
  <2>1. n = Len(tr) /\ p = Len(new)
    OBVIOUS
  <2> HIDE DEF n, p
  <2> QED
    BY <2>1, SomeMore
<1> HIDE DEF n, p
<1>2. ASSUME NEW w \in V PROVE w \in Range(seq) /\ \E m \in 1..(n + p) : WaitsAt(longer, seq, w, m)
  <2>1. PICK m \in 1..n : WaitsAt(tr, seq, w, m)
    BY DEF Waits, n
  <2>2. w \in Range(seq)
    BY DEF Waits
  <2>3. m \in 1..(n + p) /\ longer[m] = <<"MISS", w>>
    BY <1>1, <2>1 DEF WaitsAt
  <2>4. \A k \in m..(n + p) : longer[k] # <<"MATERIALIZE", w>>
    <3> TAKE k \in m..(n + p)
    <3>1. CASE k \in m..n
      <4>1. k \in 1..n
        BY <1>1, <3>1
      <4> QED
        BY <1>1, <2>1, <3>1, <4>1 DEF WaitsAt, n
    <3>2. CASE k \in (n + 1)..(n + p)
      <4>1. longer[k] \in Range(new)
        BY <1>1, <3>2 DEF Range
      <4> QED
        BY <4>1
    <3> QED
      BY <1>1, <3>1, <3>2
  <2>5. ASSUME NEW u \in Since(seq, w), u # w
        PROVE  \E k \in m..((n + p) - 1) : longer[k] = <<"REQUEST", u>> /\ longer[k + 1][2] = u
    <3>1. PICK k \in m..(n - 1) : tr[k] = <<"REQUEST", u>> /\ tr[k + 1][2] = u
      BY <2>1, <2>5 DEF WaitsAt, n
    <3>2. k \in m..((n + p) - 1) /\ k \in 1..n /\ k + 1 \in 1..n
      BY <1>1
    <3> QED
      BY <1>1, <3>1, <3>2
  <2>6. WaitsAt(longer, seq, w, m)
    BY <1>1, <2>3, <2>4, <2>5 DEF WaitsAt
  <2> QED
    BY <2>2, <2>3, <2>6
<1> QED
  BY <1>1, <1>2 DEF Waits

\* In calm, nothing is leased where a request misses or what it missed is read.
LEMMA CalmLeases ==
  ASSUME NEW e \in Event, e[1] \in {"MISS", "MATERIALIZE"}, NEW tr \in Seq(Event),
         NEW seq, NEW resident, NEW leases \in [Tensors -> Nat], NEW active, Tells(Append(tr, e), seq, resident, leases, active),
         NEW rest \in Seq(Event), NEW longer, longer = Append(tr, e) \o rest, Calm(longer)
  PROVE  \A u \in Tensors : leases[u] = 0
<1> DEFINE p == Append(tr, e)
           i == Len(p)
<1>1. p \in Seq(Event) /\ i \in 1..Len(p) /\ i \in 0..Len(p) /\ p[i] = e /\ i \in Nat
  <2> HIDE DEF p
  <2>1. p \in Seq(Event) /\ Len(p) = Len(tr) + 1 /\ Len(tr) \in Nat /\ p[Len(tr) + 1] = e
    BY DEF p
  <2> QED
    BY <2>1
<1> HIDE DEF p
<1>2. i \in DOMAIN longer /\ longer[i] = p[i]
  BY <1>1 DEF p
<1>3. SubSeq(longer, 1, i) = SubSeq(p, 1, i)
  BY <1>1, LaterGrows DEF p
<1>4. SubSeq(p, 1, i) = p
  BY <1>1
<1>5. LeasedIn(longer, i) = {}
  BY <1>1, <1>2 DEF Calm
<1>6. Told(p).leases = leases
  BY DEF p, Tells
<1> QED
  BY <1>3, <1>4, <1>5, <1>6 DEF LeasedIn

-----------------------------------------------------------------------------
(* The replay runs ahead of the store by what waits: it has loaded that        *)
(* already, and evicted what the store will evict for it.                      *)

Inserting(inserted, W) == inserted \cup {<<"INSERT", w>> : w \in W}

\* s is the replay of seq, E is resident and W waits; distance decides in both.
Trails(s, seq, E, W, evicts, inserts, inserted) ==
  /\ Stacked(s, seq, Len(seq))
  /\ E \in SUBSET Range(seq) /\ W \in SUBSET DOMAIN s.res /\ E \cap W = {}
  /\ DOMAIN s.res \subseteq E \cup W
  /\ \A u \in E \cup W : Since(seq, u) \subseteq E \cup W
  /\ s.evictions = evicts + Cardinality(E \ DOMAIN s.res)
  /\ s.loads = inserts + Cardinality(W) /\ s.hits + s.loads = Len(seq)
  /\ IsFiniteSet(Inserting(inserted, W))
  /\ s.reloads = s.loads - Cardinality(Inserting(inserted, W))
  /\ s.seen = {u \in Tensors : <<"INSERT", u>> \in Inserting(inserted, W)}

LEMMA TrailsAre ==
  ASSUME NEW seq \in Seq(Tensors), NEW s, NEW E, NEW W, NEW evicts, NEW inserts, NEW inserted,
         Trails(s, seq, E, W, evicts, inserts, inserted)
  PROVE  /\ s \in ReplayState /\ DOMAIN s.res \in SUBSET Range(seq) /\ Range(seq) \in SUBSET Tensors
         /\ s.hits \in Nat /\ s.loads \in Nat /\ s.evictions \in Nat /\ s.reloads \in Nat
         /\ IsFiniteSet(E) /\ IsFiniteSet(W) /\ IsFiniteSet(DOMAIN s.res)
         /\ Cardinality(W) \in Nat /\ Cardinality(E \ DOMAIN s.res) \in Nat
<1>1. Stacked(s, seq, Len(seq)) /\ E \in SUBSET Range(seq) /\ W \in SUBSET DOMAIN s.res
  BY DEF Trails
<1>2. s \in ReplayState /\ DOMAIN s.res \in SUBSET Range(seq)
  <2>1. s \in ReplayState /\ DOMAIN s.res \subseteq Range(seq)
    BY <1>1, StackedIs
  <2> QED
    BY <2>1
<1>3. s.hits \in Nat /\ s.loads \in Nat /\ s.evictions \in Nat /\ s.reloads \in Nat
  BY <1>2 DEF ReplayState
<1>4. Range(seq) \in SUBSET Tensors
  BY DEF Range
<1> DEFINE R == Range(seq)
           D == DOMAIN s.res
           G == E \ D
<1>5. IsFiniteSet(R)
  BY <1>4, StoreAssumption, FS_Subset
<1>6. E \in SUBSET R /\ W \in SUBSET R /\ D \in SUBSET R /\ G \in SUBSET R
  BY <1>1, <1>2
<1> HIDE DEF R, D, G
<1>7. IsFiniteSet(E) /\ IsFiniteSet(W) /\ IsFiniteSet(D) /\ IsFiniteSet(G)
  BY <1>5, <1>6, FS_Subset
<1>8. Cardinality(W) \in Nat /\ Cardinality(G) \in Nat
  BY <1>7, FS_CardinalityType
<1> QED
  BY <1>2, <1>3, <1>4, <1>7, <1>8 DEF G, D

\* What was requested since, after one more request.
LEMMA SinceStays ==
  \A seq \in Seq(Tensors), t \in Tensors : \A longer : longer = Append(seq, t) =>
    \A S \in SUBSET Range(seq) : (\A u \in S : Since(seq, u) \subseteq S) =>
      \A T : T = S \cup {t} => Range(longer) = Range(seq) \cup {t} /\ \A u \in T : Since(longer, u) \subseteq T
<1> SUFFICES ASSUME NEW seq \in Seq(Tensors), NEW t \in Tensors, NEW longer, longer = Append(seq, t),
                    NEW S \in SUBSET Range(seq), \A u \in S : Since(seq, u) \subseteq S, NEW T, T = S \cup {t}
             PROVE  Range(longer) = Range(seq) \cup {t} /\ \A u \in T : Since(longer, u) \subseteq T
  OBVIOUS
<1>1. Since(longer, t) = {t}
  BY SinceLast
<1>2. \A l : l = Append(seq, t) => \A u \in Range(seq) : u # t => Since(l, u) = Since(seq, u) \cup {t}
  BY SinceGrows
<1>3. \A u \in Range(seq) : u # t => Since(longer, u) = Since(seq, u) \cup {t}
  BY <1>2, Zenon
<1>4. ASSUME NEW u \in T PROVE Since(longer, u) \subseteq T
  <2>1. CASE u = t
    BY <1>1, <2>1
  <2>2. CASE u # t
    <3>1. u \in S /\ u \in Range(seq)
      BY <2>2
    <3>2. Since(longer, u) = Since(seq, u) \cup {t}
      BY <1>3, <2>2, <3>1
    <3> QED
      BY <3>1, <3>2
  <2> QED
    BY <2>1, <2>2
<1>5. Range(longer) = Range(seq) \cup {t}
  BY LastUseAppends
<1> QED
  BY <1>4, <1>5

\* A request of what the replay keeps is a hit.
LEMMA TrailsHit ==
  ASSUME NEW seq \in Seq(Tensors), NEW s, NEW E, NEW W, NEW evicts, NEW inserts, NEW inserted,
         Trails(s, seq, E, W, evicts, inserts, inserted),
         NEW t \in Tensors, t \in DOMAIN s.res, Bytes[t] <= MaxBytes,
         NEW longer, longer = Append(seq, t), NEW k, k = Len(seq) + 1, NEW active,
         NEW x, x = Serve("lru", longer, active, s, k)
  PROVE  Trails(x, longer, E, W, evicts, inserts, inserted)
<1>1. /\ Stacked(s, seq, Len(seq)) /\ E \in SUBSET Range(seq) /\ W \in SUBSET DOMAIN s.res
      /\ DOMAIN s.res \subseteq E \cup W
  BY DEF Trails
<1>2. longer \in Seq(Tensors) /\ longer[k] = t /\ Len(longer) = k /\ k \in 1..Len(longer) /\ k \in Nat /\ Len(seq) \in Nat
  OBVIOUS
<1>3. Stacked(s, longer, k - 1)
  BY <1>1, <1>2, StackedLonger
<1>4. Stacked(x, longer, k)
  BY <1>2, <1>3, HitStacks
<1>5. s \in ReplayState /\ s.hits \in Nat /\ s.loads \in Nat /\ Range(seq) \in SUBSET Tensors
  BY TrailsAre
<1>6. Served(x, s, t, k, DOMAIN s.res, s.hits + 1, s.evictions, s.loads, s.reloads, s.seen)
  BY <1>2, <1>5, ServeHit
<1>7. /\ DOMAIN x.res = DOMAIN s.res /\ x.hits = s.hits + 1 /\ x.evictions = s.evictions
      /\ x.loads = s.loads /\ x.reloads = s.reloads /\ x.seen = s.seen
  BY <1>6 DEF Served
<1>8. E \in SUBSET Range(longer) /\ \A u \in E \cup W : Since(longer, u) \subseteq E \cup W
  <2> DEFINE S == E \cup W
  <2>1. S \in SUBSET Range(seq) /\ S = S \cup {t} /\ \A u \in S : Since(seq, u) \subseteq S
    <3>1. DOMAIN s.res \in SUBSET Range(seq)
      BY TrailsAre
    <3> QED
      BY <1>1, <3>1 DEF Trails
  <2> HIDE DEF S
  <2>2. \A l : l = Append(seq, t) =>
          \A A \in SUBSET Range(seq) : (\A u \in A : Since(seq, u) \subseteq A) =>
            \A B : B = A \cup {t} => Range(l) = Range(seq) \cup {t} /\ \A u \in B : Since(l, u) \subseteq B
    BY SinceStays, Zenon
  <2>3. Range(longer) = Range(seq) \cup {t} /\ \A u \in S : Since(longer, u) \subseteq S
    BY <2>1, <2>2, Zenon
  <2> QED
    BY <1>1, <2>3 DEF S
<1>9. x.hits + x.loads = Len(longer)
  <2>1. s.hits + s.loads = Len(seq)
    BY DEF Trails
  <2> QED
    BY <1>2, <1>5, <1>7, <2>1
<1> QED
  BY <1>1, <1>2, <1>4, <1>7, <1>8, <1>9 DEF Trails

\* Sets and counts: what the replay drops is no more resident in it, but is in E.
LEMMA DropsAdd ==
  ASSUME NEW E, IsFiniteSet(E), NEW D, IsFiniteSet(D), NEW K \in SUBSET D, D \ K \subseteq E, NEW t, t \notin E
  PROVE  /\ Cardinality(E \ (K \cup {t})) = Cardinality(E \ D) + Cardinality(D \ K)
         /\ Cardinality(E \ D) \in Nat /\ Cardinality(D \ K) \in Nat
<1> DEFINE A == E \ D
           B == D \ K
           C == E \ (K \cup {t})
<1>1. C = A \cup B /\ A \cap B = {}
  OBVIOUS
<1>2. IsFiniteSet(A) /\ IsFiniteSet(B)
  <2>1. A \in SUBSET E /\ B \in SUBSET D
    OBVIOUS
  <2> HIDE DEF A, B
  <2> QED
    BY <2>1, FS_Subset
<1> HIDE DEF A, B, C
<1>3. Cardinality(A \cup B) = Cardinality(A) + Cardinality(B) - Cardinality(A \cap B)
  BY <1>2, FS_Union
<1>4. Cardinality(A) \in Nat /\ Cardinality(B) \in Nat
  BY <1>2, FS_CardinalityType
<1>5. Cardinality(A \cap B) = 0
  BY <1>1, FS_EmptySet
<1>6. Cardinality(C) = Cardinality(A) + Cardinality(B)
  BY <1>1, <1>3, <1>4, <1>5
<1> QED
  BY <1>4, <1>6 DEF A, B, C

\* A request of what is neither resident nor waits loads it in the replay.
LEMMA TrailsMiss ==
  ASSUME NEW seq \in Seq(Tensors), NEW s, NEW E, NEW W, NEW evicts \in Nat, NEW inserts \in Nat, NEW inserted,
         Trails(s, seq, E, W, evicts, inserts, inserted),
         NEW t \in Tensors, t \notin E \cup W, Bytes[t] <= MaxBytes,
         NEW longer, longer = Append(seq, t), NEW k, k = Len(seq) + 1, NEW active, active[k] = {},
         NEW x, x = Serve("lru", longer, active, s, k),
         NEW V, V = W \cup {t}, \A w \in V : SizeOf(Since(longer, w)) <= MaxBytes
  PROVE  Trails(x, longer, E, V, evicts, inserts, inserted)
<1>1. /\ Stacked(s, seq, Len(seq)) /\ E \in SUBSET Range(seq) /\ W \in SUBSET DOMAIN s.res /\ E \cap W = {}
      /\ DOMAIN s.res \subseteq E \cup W
  BY DEF Trails
<1>2. longer \in Seq(Tensors) /\ longer[k] = t /\ Len(longer) = k /\ k \in 1..Len(longer) /\ k \in Nat /\ Len(seq) \in Nat
  OBVIOUS
<1>3. Stacked(s, longer, k - 1)
  BY <1>1, <1>2, StackedLonger
<1>4. t \notin DOMAIN s.res
  BY <1>1
<1>5. Stacked(x, longer, k)
  BY <1>2, <1>3, <1>4, MissStacks
<1>6. /\ s \in ReplayState /\ s.hits \in Nat /\ s.loads \in Nat /\ s.evictions \in Nat /\ s.reloads \in Nat
      /\ Range(seq) \in SUBSET Tensors /\ DOMAIN s.res \in SUBSET Range(seq)
      /\ IsFiniteSet(E) /\ IsFiniteSet(DOMAIN s.res) /\ IsFiniteSet(W)
  BY TrailsAre
<1> DEFINE K == Nearer(s, longer, k)
           D == DOMAIN s.res
<1>7. /\ Kept("lru", longer, k, s, {}, Bytes[longer[k]]) = K
      /\ K \in SUBSET D /\ SizeOf(K) + Bytes[longer[k]] <= MaxBytes
  BY <1>2, <1>3, NearerIsKept
<1> HIDE DEF K
<1>8. Served(x, s, t, k, K \cup {t}, s.hits, s.evictions + Cardinality(D \ K), s.loads + 1,
             s.reloads + (IF t \in s.seen THEN 1 ELSE 0), s.seen \cup {t})
  <2>1. K = Kept("lru", longer, k, s, active[k], Bytes[longer[k]])
    BY <1>7, Zenon
  <2>2. /\ longer[k] \in Tensors /\ longer[k] \notin DOMAIN s.res /\ k \in Nat /\ s \in ReplayState
        /\ longer[k] = t /\ SizeOf(K) + Bytes[longer[k]] <= MaxBytes
    BY <1>2, <1>4, <1>6, <1>7
  <2>3. Served(Serve("lru", longer, active, s, k), s, longer[k], k, K \cup {longer[k]}, s.hits,
               s.evictions + Cardinality(DOMAIN s.res \ K), s.loads + 1,
               s.reloads + (IF longer[k] \in s.seen THEN 1 ELSE 0), s.seen \cup {longer[k]})
    BY ONLY <2>1, <2>2, ServeMiss
  <2> QED
    BY <2>2, <2>3, Zenon
<1>9. /\ DOMAIN x.res = K \cup {t} /\ x.hits = s.hits /\ x.evictions = s.evictions + Cardinality(D \ K)
      /\ x.loads = s.loads + 1 /\ x.reloads = s.reloads + (IF t \in s.seen THEN 1 ELSE 0)
      /\ x.seen = s.seen \cup {t}
  BY <1>8 DEF Served
<1>10. Range(longer) = Range(seq) \cup {t} /\ \A u \in E \cup V : Since(longer, u) \subseteq E \cup V
  <2> DEFINE S == E \cup W
             T == E \cup V
  <2>1. S \in SUBSET Range(seq) /\ T = S \cup {t} /\ \A u \in S : Since(seq, u) \subseteq S
    BY <1>1, <1>6 DEF Trails
  <2> HIDE DEF S, T
  <2>2. \A l : l = Append(seq, t) =>
          \A A \in SUBSET Range(seq) : (\A u \in A : Since(seq, u) \subseteq A) =>
            \A B : B = A \cup {t} => Range(l) = Range(seq) \cup {t} /\ \A u \in B : Since(l, u) \subseteq B
    BY SinceStays, Zenon
  <2>3. Range(longer) = Range(seq) \cup {t} /\ \A u \in T : Since(longer, u) \subseteq T
    BY <2>1, <2>2, Zenon
  <2> QED
    BY <2>3 DEF T
<1>11. V \in SUBSET DOMAIN x.res
  <2>1. \A u \in Range(longer) : u \in DOMAIN x.res <=> SizeOf(Since(longer, u)) <= MaxBytes
    <3>1. Stacked(x, longer, Len(longer))
      BY <1>2, <1>5
    <3> QED
      BY <1>2, <3>1, StackedIs
  <2> QED
    BY <1>1, <1>6, <1>10, <2>1
<1>12. W \subseteq K
  BY <1>9, <1>11
<1>13. /\ Cardinality(E \ DOMAIN x.res) = Cardinality(E \ D) + Cardinality(D \ K)
       /\ Cardinality(E \ D) \in Nat /\ Cardinality(D \ K) \in Nat
  <2>1. D \ K \subseteq E /\ t \notin E
    BY <1>1, <1>12
  <2>2. IsFiniteSet(E) /\ IsFiniteSet(D) /\ K \in SUBSET D
    BY <1>6, <1>7
  <2> HIDE DEF D
  <2>3. /\ Cardinality(E \ (K \cup {t})) = Cardinality(E \ D) + Cardinality(D \ K)
        /\ Cardinality(E \ D) \in Nat /\ Cardinality(D \ K) \in Nat
    BY ONLY <2>1, <2>2, DropsAdd
  <2> QED
    BY <1>9, <2>3
<1>14. x.evictions = evicts + Cardinality(E \ DOMAIN x.res)
  <2>1. s.evictions = evicts + Cardinality(E \ D)
    BY DEF Trails
  <2> QED
    BY <1>9, <1>13, <2>1
<1>15. x.loads = inserts + Cardinality(V) /\ x.hits + x.loads = Len(longer)
  <2>1. Cardinality(V) = Cardinality(W) + 1 /\ Cardinality(W) \in Nat
    BY <1>6, FS_AddElement, FS_CardinalityType
  <2>2. s.loads = inserts + Cardinality(W) /\ s.hits + s.loads = Len(seq)
    BY DEF Trails
  <2> QED
    BY <1>2, <1>6, <1>9, <2>1, <2>2
<1>16. /\ IsFiniteSet(Inserting(inserted, V))
       /\ x.reloads = x.loads - Cardinality(Inserting(inserted, V))
       /\ x.seen = {u \in Tensors : <<"INSERT", u>> \in Inserting(inserted, V)}
  <2> DEFINE e == <<"INSERT", t>>
             I == Inserting(inserted, W)
             J == Inserting(inserted, V)
  <2>1. J = I \cup {e}
    BY DEF Inserting
  <2>2. IsFiniteSet(I) /\ s.reloads = s.loads - Cardinality(I) /\ s.seen = {u \in Tensors : <<"INSERT", u>> \in I}
    BY DEF Trails
  <2>3. t \in s.seen <=> e \in I
    BY <2>2
  <2>4. \A u \in Tensors : <<"INSERT", u>> = e <=> u = t
    OBVIOUS
  <2> HIDE DEF e, I, J
  <2>5. IsFiniteSet(J) /\ Cardinality(J) = (IF e \in I THEN Cardinality(I) ELSE Cardinality(I) + 1)
        /\ Cardinality(I) \in Nat
    BY <2>1, <2>2, FS_AddElement, FS_CardinalityType
  <2>6. x.reloads = x.loads - Cardinality(J)
    BY <1>6, <1>9, <2>2, <2>3, <2>5
  <2>7. x.seen = {u \in Tensors : <<"INSERT", u>> \in J}
    BY <1>9, <2>1, <2>2, <2>4
  <2> QED
    BY <2>5, <2>6, <2>7 DEF J
<1>17. E \in SUBSET Range(longer) /\ E \cap V = {} /\ DOMAIN x.res \subseteq E \cup V
  BY <1>1, <1>7, <1>9, <1>10
<1> HIDE DEF D
<1> QED
  BY <1>2, <1>5, <1>10, <1>11, <1>14, <1>15, <1>16, <1>17 DEF Trails

\* What is read and kept is inserted by the store, too, which evicts for it what
\* the replay does not keep.
LEMMA TrailsKept ==
  ASSUME NEW seq \in Seq(Tensors), NEW s, NEW E, NEW W, NEW evicts \in Nat, NEW inserts \in Nat, NEW inserted,
         Trails(s, seq, E, W, evicts, inserts, inserted),
         NEW t \in W, NEW ev \in SUBSET E, ev \cap DOMAIN s.res = {},
         \A u \in (E \cup W) \ ev : Since(seq, u) \cap ev = {},
         NEW F, F = (E \ ev) \cup {t}, NEW V, V = W \ {t}
  PROVE  Trails(s, seq, F, V, evicts + Cardinality(ev), inserts + 1, inserted \cup {<<"INSERT", t>>})
<1> DEFINE D == DOMAIN s.res
<1>1. /\ Stacked(s, seq, Len(seq)) /\ E \in SUBSET Range(seq) /\ W \in SUBSET D /\ E \cap W = {}
      /\ D \subseteq E \cup W /\ \A u \in E \cup W : Since(seq, u) \subseteq E \cup W
  BY DEF Trails
<1>2. /\ s.evictions \in Nat /\ s.loads \in Nat /\ D \in SUBSET Range(seq)
      /\ IsFiniteSet(E) /\ IsFiniteSet(W) /\ Cardinality(W) \in Nat /\ Cardinality(E \ D) \in Nat
  BY TrailsAre
<1> HIDE DEF D
<1>3. F \cup V = (E \cup W) \ ev /\ F \cap V = {} /\ V \in SUBSET D /\ F \in SUBSET Range(seq) /\ D \subseteq F \cup V
  BY <1>1, <1>2 DEF D
<1>4. \A u \in F \cup V : Since(seq, u) \subseteq F \cup V
  BY <1>1, <1>3
<1>5. s.evictions = (evicts + Cardinality(ev)) + Cardinality(F \ D)
  <2>1. F \ D = (E \ D) \ ev /\ (E \ D) \cap ev = ev
    BY <1>1 DEF D
  <2>2. IsFiniteSet(E \ D)
    BY <1>2, FS_Difference
  <2> DEFINE A == E \ D
  <2> HIDE DEF A
  <2>3. Cardinality(A \ ev) = Cardinality(A) - Cardinality(A \cap ev)
    BY <2>2, FS_Difference DEF A
  <2>4. Cardinality(F \ D) = Cardinality(E \ D) - Cardinality(ev)
    BY <2>1, <2>3 DEF A
  <2>5. Cardinality(ev) \in Nat
    BY <1>2, FS_Subset, FS_CardinalityType
  <2>6. s.evictions = evicts + Cardinality(E \ D)
    BY DEF Trails, D
  <2> QED
    BY <1>2, <2>4, <2>5, <2>6
<1>6. s.loads = (inserts + 1) + Cardinality(V) /\ s.hits + s.loads = Len(seq)
  <2>1. Cardinality(V) = Cardinality(W) - 1
    BY <1>2, FS_RemoveElement
  <2>2. s.loads = inserts + Cardinality(W) /\ s.hits + s.loads = Len(seq)
    BY DEF Trails
  <2> QED
    BY <1>2, <2>1, <2>2
<1>7. Inserting(inserted \cup {<<"INSERT", t>>}, V) = Inserting(inserted, W)
  BY DEF Inserting
<1>8. /\ IsFiniteSet(Inserting(inserted, W))
      /\ s.reloads = s.loads - Cardinality(Inserting(inserted, W))
      /\ s.seen = {u \in Tensors : <<"INSERT", u>> \in Inserting(inserted, W)}
  BY DEF Trails
<1> DEFINE more == inserted \cup {<<"INSERT", t>>}
           gone == evicts + Cardinality(ev)
           come == inserts + 1
<1> HIDE DEF more, gone, come
<1>9. Trails(s, seq, F, V, gone, come, more)
  BY <1>1, <1>3, <1>4, <1>5, <1>6, <1>7, <1>8 DEF Trails, D, more, gone, come
<1> QED
  BY <1>9 DEF more, gone, come

\* Where nothing waits, all that is resident fits, and the replay keeps it.
LEMMA TrailsRest ==
  ASSUME NEW seq \in Seq(Tensors), NEW s, NEW E, NEW W, NEW evicts \in Nat, NEW inserts \in Nat, NEW inserted,
         Trails(s, seq, E, W, evicts, inserts, inserted), W = {}, SizeOf(E) <= MaxBytes
  PROVE  /\ DOMAIN s.res = E /\ s.evictions = evicts /\ s.loads = inserts /\ s.hits + s.loads = Len(seq)
         /\ s.hits \in Nat /\ s.reloads = inserts - Cardinality(inserted)
<1>1. /\ Stacked(s, seq, Len(seq)) /\ E \in SUBSET Range(seq) /\ DOMAIN s.res \subseteq E
      /\ \A u \in E : Since(seq, u) \subseteq E
  BY DEF Trails
<1>2. Range(seq) \in SUBSET Tensors /\ s.hits \in Nat
  BY TrailsAre
<1>3. ASSUME NEW u \in E PROVE u \in DOMAIN s.res
  <2> DEFINE S == Since(seq, u)
  <2>1. E \in SUBSET Tensors /\ S \in SUBSET E
    BY <1>1, <1>2
  <2> HIDE DEF S
  <2>2. SizeOf(S) <= SizeOf(E) /\ SizeOf(S) \in Nat /\ SizeOf(E) \in Nat
    BY <2>1, SizeGrows
  <2>3. SizeOf(S) <= MaxBytes
    BY <2>2, StoreAssumption
  <2>4. \A v \in Range(seq) : v \in DOMAIN s.res <=> SizeOf(Since(seq, v)) <= MaxBytes
    BY <1>1, StackedIs
  <2> QED
    BY <1>1, <2>3, <2>4 DEF S
<1>4. DOMAIN s.res = E
  BY <1>1, <1>3
<1>5. E \ DOMAIN s.res = {} /\ Inserting(inserted, W) = inserted
  BY <1>4 DEF Inserting
<1>6. Cardinality(E \ DOMAIN s.res) = 0 /\ Cardinality(W) = 0
  BY <1>5, FS_EmptySet
<1> QED
  BY <1>2, <1>4, <1>5, <1>6 DEF Trails

-----------------------------------------------------------------------------
(* The store follows the replay: what it reads late it reads as the replay did *)
(* at once, as long as nothing is leased and what was asked since fits.        *)

\* The store evicts for what waits only what the replay has left behind.
LEMMA EvictsBehind ==
  ASSUME StoreInv, Policy = "LRU", \A u \in Tensors : active_leases[u] = 0,
         NEW seq, seq = Seen, NEW s, NEW W, NEW evicts, NEW inserts, NEW inserted,
         Trails(s, seq, entries_, W, evicts, inserts, inserted),
         NEW t \in W, NEW ev \in Evictions(t)
  PROVE  /\ ev \in SUBSET entries_ /\ ev \cap DOMAIN s.res = {}
         /\ \A u \in (entries_ \cup W) \ ev : Since(seq, u) \cap ev = {}
<1> DEFINE D == DOMAIN s.res
           fits(gone) == resident_bytes_ - SizeOf(gone) + Bytes[t] <= MaxBytes
<1>1. /\ seq \in Seq(Tensors) /\ entries_ \in SUBSET Tensors /\ Ordered(last_request_, LastUses(seq))
      /\ resident_bytes_ = SizeOf(entries_)
  BY TraceTellsTypes DEF StoreInv
<1>2. Candidates = entries_
  BY <1>1 DEF Candidates
<1>3. /\ Stacked(s, seq, Len(seq)) /\ entries_ \in SUBSET Range(seq) /\ W \in SUBSET D
      /\ entries_ \cap W = {}
  BY DEF Trails
<1>4. /\ D \subseteq Range(seq) /\ Range(seq) \in SUBSET Tensors
      /\ \A u \in Range(seq) : u \in D <=> SizeOf(Since(seq, u)) <= MaxBytes
  BY <1>1, <1>3, StackedIs, TrailsAre
<1>5. /\ ev \in SUBSET entries_
      /\ \A u \in ev, v \in entries_ \ ev : Older(u, v)
      /\ ev # {} => \E u \in ev : (\A v \in ev \ {u} : Older(v, u)) /\ ~ fits(ev \ {u})
  BY <1>2 DEF Evictions
<1>6. \A u, v \in Range(seq) : Older(u, v) <=> LastUse(seq, u) < LastUse(seq, v)
  BY <1>1, OlderIsEarlier
<1>7. \A u \in Range(seq) : LastUse(seq, u) \in Nat
  BY <1>1, LastUsesAre
<1>8. ASSUME NEW u \in Range(seq), NEW v \in Range(seq)
      PROVE  /\ Since(seq, u) \in SUBSET Tensors /\ u \in Since(seq, u)
             /\ v \in Since(seq, u) <=> LastUse(seq, u) <= LastUse(seq, v)
             /\ LastUse(seq, u) <= LastUse(seq, v) => Since(seq, v) \subseteq Since(seq, u)
  BY <1>1, SinceIs
<1> HIDE DEF D
\* What fits is kept, and so is what was used later.
<1>9. ASSUME NEW u \in D, NEW v \in Range(seq), LastUse(seq, u) <= LastUse(seq, v) PROVE v \in D
  <2> DEFINE big == Since(seq, u)
             small == Since(seq, v)
  <2>1. big \in SUBSET Tensors /\ small \in SUBSET big /\ SizeOf(big) <= MaxBytes
    BY <1>4, <1>8, <1>9
  <2> HIDE DEF big, small
  <2>2. SizeOf(small) <= SizeOf(big) /\ SizeOf(small) \in Nat /\ SizeOf(big) \in Nat
    BY <2>1, SizeGrows
  <2>3. SizeOf(small) <= MaxBytes
    BY <2>1, <2>2, StoreAssumption
  <2> QED
    BY <1>4, <2>3 DEF small
<1>10. ev \cap D = {}
  <2> SUFFICES ASSUME NEW x \in ev, x \in D PROVE FALSE
    OBVIOUS
  <2>1. PICK u \in ev : (\A v \in ev \ {u} : Older(v, u)) /\ ~ fits(ev \ {u})
    BY <1>5
  <2>2. u \in Range(seq) /\ x \in Range(seq) /\ t \in Range(seq) /\ t \in D /\ t \in Tensors \ entries_
    BY <1>3, <1>4, <1>5
  <2>3. u \in D
    <3>1. LastUse(seq, x) <= LastUse(seq, u)
      BY <1>6, <1>7, <2>1, <2>2
    <3> QED
      BY <1>9, <2>2, <3>1
  <2>4. PICK y \in D : LastUse(seq, y) <= LastUse(seq, u) /\ LastUse(seq, y) <= LastUse(seq, t)
    <3>1. LastUse(seq, u) \in Nat /\ LastUse(seq, t) \in Nat
      BY <1>7, <2>2
    <3>2. CASE LastUse(seq, u) <= LastUse(seq, t)
      BY <2>3, <3>1, <3>2
    <3>3. CASE LastUse(seq, t) <= LastUse(seq, u)
      BY <2>2, <3>1, <3>3
    <3> QED
      BY <3>1, <3>2, <3>3
  <2> DEFINE big == Since(seq, y)
             gone == ev \ {u}
             small == (entries_ \ gone) \cup {t}
  <2>5. y \in Range(seq) /\ big \in SUBSET Tensors /\ SizeOf(big) <= MaxBytes
    BY <1>4, <1>8
  <2>6. small \in SUBSET big
    <3>1. t \in big /\ u \in big
      BY <1>8, <2>2, <2>4, <2>5
    <3>2. ASSUME NEW v \in entries_ \ ev PROVE v \in big
      <4>1. v \in Range(seq) /\ LastUse(seq, u) < LastUse(seq, v)
        BY <1>3, <1>5, <1>6, <2>2
      <4>2. LastUse(seq, y) <= LastUse(seq, v)
        BY <1>7, <2>2, <2>4, <2>5, <4>1
      <4> QED
        BY <1>8, <2>5, <4>1, <4>2
    <3> QED
      BY <3>1, <3>2
  <2>7. gone \in SUBSET entries_ /\ ~ fits(gone)
    BY <1>5, <2>1
  <2> HIDE DEF big, gone
  <2>8. SizeOf(small) = SizeOf(entries_) - SizeOf(gone) + Bytes[t]
        /\ SizeOf(entries_) \in Nat /\ SizeOf(gone) \in Nat /\ Bytes[t] \in Nat
    BY <1>1, <2>2, <2>7, SizeMoves
  <2> HIDE DEF small
  <2>9. SizeOf(small) <= SizeOf(big) /\ SizeOf(small) \in Nat /\ SizeOf(big) \in Nat
    BY <2>5, <2>6, SizeGrows
  <2> QED
    BY <1>1, <2>5, <2>7, <2>8, <2>9, StoreAssumption
<1>11. ASSUME NEW u \in (entries_ \cup W) \ ev, NEW v \in ev, v \in Since(seq, u) PROVE FALSE
  <2>1. u \in Range(seq) /\ v \in Range(seq)
    BY <1>3, <1>4, <1>5
  <2>2. LastUse(seq, u) <= LastUse(seq, v) /\ LastUse(seq, u) \in Nat /\ LastUse(seq, v) \in Nat
    BY <1>7, <1>8, <1>11, <2>1
  <2>3. CASE u \in entries_
    <3>1. LastUse(seq, v) < LastUse(seq, u)
      BY <1>5, <1>6, <2>1, <2>3
    <3> QED
      BY <2>2, <3>1
  <2>4. CASE u \in W
    <3>1. v \in D
      BY <1>3, <1>9, <2>1, <2>2, <2>4
    <3> QED
      BY <1>10, <3>1
  <2> QED
    BY <2>3, <2>4
<1> QED
  BY <1>5, <1>10, <1>11 DEF D

\* In calm, nothing is leased where something is read.
LEMMA ObtainCalm ==
  ASSUME StoreInv, NEW t \in Tensors, NEW ev \in SUBSET Candidates, NEW out \in Seq(Event),
         Obtains(t, ev, out), Calm(trace_')
  PROVE  \A u \in Tensors : active_leases[u] = 0
<1> DEFINE c == <<"MATERIALIZE", t>>
           one == <<c>>
           e == Evicted(ev)
           rest == e \o out
           active == ActiveSets(trace_)
<1>1. TraceTells /\ trace_ \in Seq(Event) /\ active_leases \in [Tensors -> Nat] /\ entries_ \in SUBSET Tensors
  BY TraceTellsTypes DEF StoreInv
<1>2. c \in Event /\ c[1] \in {"MISS", "MATERIALIZE"}
  BY DEF Event, Kinds
<1>3. Tells(Append(trace_, c), Seen, entries_, active_leases, active)
  BY <1>1, TellsQuiet DEF TraceTells
<1>4. e \in Seq(Event)
  <2>1. ev \in SUBSET Tensors /\ IsFiniteSet(ev)
    <3>1. ev \in SUBSET Tensors
      BY <1>1 DEF Candidates
    <3> QED
      BY <3>1, StoreAssumption, FS_Subset
  <2>2. Cardinality(ev) \in Nat /\ SetToSeq(ev) \in [1..Cardinality(ev) -> ev]
    BY <2>1, SetListed
  <2>3. e = [i \in 1..Cardinality(ev) |-> <<"EVICT", SetToSeq(ev)[i]>>]
    BY DEF Evicted
  <2>4. \A i \in 1..Cardinality(ev) : <<"EVICT", SetToSeq(ev)[i]>> \in Event
    BY <2>1, <2>2 DEF Event, Kinds
  <2> QED
    BY <2>2, <2>3, <2>4
<1>5. trace_' = trace_ \o (one \o e \o out)
  BY DEF Obtains, Emits
<1>6. one \in Seq(Event)
  BY <1>2
<1> HIDE DEF e, active
<1>7. rest \in Seq(Event) /\ trace_' = Append(trace_, c) \o rest
  <2> HIDE DEF c
  <2>1. Append(trace_, c) = trace_ \o one
    BY <1>1, <1>2
  <2> HIDE DEF one
  <2>2. trace_ \in Seq(Event) /\ one \in Seq(Event) /\ e \in Seq(Event) /\ out \in Seq(Event)
    BY <1>1, <1>4, <1>6
  <2>3. trace_ \o (one \o e \o out) = (trace_ \o one) \o (e \o out)
    BY ONLY <2>2, SMTT(60)
  <2>4. e \o out \in Seq(Event)
    BY ONLY <2>2
  <2> QED
    BY <1>5, <2>1, <2>3, <2>4
<1> HIDE DEF c, rest, one
<1> DEFINE asked == Seen
           longer == trace_'
<1>8. c \in Event /\ c[1] \in {"MISS", "MATERIALIZE"} /\ trace_ \in Seq(Event)
      /\ active_leases \in [Tensors -> Nat]
      /\ Tells(Append(trace_, c), asked, entries_, active_leases, active)
      /\ rest \in Seq(Event) /\ longer = Append(trace_, c) \o rest /\ Calm(longer)
  BY <1>1, <1>2, <1>3, <1>7
<1> HIDE DEF asked, longer
<1> QED
  BY ONLY <1>8, CalmLeases, ZenonT(90)

\* In calm, nothing is leased where a request misses.
LEMMA MissCalm ==
  ASSUME StoreInv, NEW t \in Tensors, RequestMiss(t), Calm(trace_')
  PROVE  \A u \in Tensors : active_leases[u] = 0
<1> DEFINE a == <<"REQUEST", t>>
           b == <<"MISS", t>>
           tr == Append(trace_, a)
           rest == <<>>
<1>1. TraceTells /\ trace_ \in Seq(Event) /\ active_leases \in [Tensors -> Nat]
  BY TraceTellsTypes DEF StoreInv
<1>2. a \in Event /\ b \in Event /\ b[1] \in {"MISS", "MATERIALIZE"}
  BY DEF Event, Kinds
<1>3. trace_' = trace_ \o <<a, b>> /\ active_leases' = active_leases
  BY DEF RequestMiss, Asks, Emits
<1>4. Tells(trace_', Seen', entries_', active_leases', ActiveSets(trace_)')
  BY <1>1, AskGives DEF TraceTells
<1> HIDE DEF a, b
<1>5. trace_' = Append(tr, b) /\ tr \in Seq(Event) /\ Append(tr, b) \in Seq(Event)
  BY <1>1, <1>2, <1>3, TwoAppends
<1>6. rest \in Seq(Event) /\ trace_' = Append(tr, b) \o rest
  <2> HIDE DEF tr
  <2> QED
    BY <1>5
<1>7. Tells(Append(tr, b), Seen', entries_', active_leases, ActiveSets(trace_)')
  BY <1>3, <1>4, <1>5
<1> HIDE DEF tr, rest
<1> DEFINE asked == Seen'
           now == entries_'
           active == ActiveSets(trace_)'
           longer == trace_'
<1>8. b \in Event /\ b[1] \in {"MISS", "MATERIALIZE"} /\ tr \in Seq(Event)
      /\ active_leases \in [Tensors -> Nat]
      /\ Tells(Append(tr, b), asked, now, active_leases, active)
      /\ rest \in Seq(Event) /\ longer = Append(tr, b) \o rest /\ Calm(longer)
  BY <1>1, <1>2, <1>5, <1>6, <1>7
<1> HIDE DEF asked, now, active, longer
<1> QED
  BY ONLY <1>8, CalmLeases, ZenonT(90)

-----------------------------------------------------------------------------
(* The inductive invariant of the program that leaves the trace: it tells the  *)
(* store, what waits waits since a miss, and in calm the replay is ahead of    *)
(* the store by what waits.                                                    *)

RuntimeInv ==
  /\ StoreInv /\ Waits(trace_, Seen, Waiting)
  /\ Policy = "LRU" /\ Calm(trace_) =>
       Trails(LruReplay(Seen, ActiveSets(trace_)), Seen, entries_, Waiting,
              Count("EVICT"), Count("INSERT"), Inserted(trace_))

LEMMA RuntimeStarts ==
  ASSUME ReplayInit
  PROVE  RuntimeInv
<1> DEFINE none == <<>>
           empty == {}
           s == LruReplay(none, none)
<1>1. StoreInv /\ Seen = none /\ ActiveSets(trace_) = none /\ trace_ = none /\ Waiting = empty /\ entries_ = empty
  BY StoreStarts DEF ReplayInit, StoreInit
<1>2. Waits(trace_, Seen, Waiting)
  BY <1>1 DEF Waits
<1>3. Counts(none, 0, 0, empty)
  BY NothingTold
<1>4. Count("EVICT") = 0 /\ Count("INSERT") = 0 /\ Inserted(trace_) = empty
  BY <1>1, <1>3 DEF Counts, Count, Events
<1>5. none \in Seq(Tensors) /\ Len(none) = 0 /\ Range(none) = {}
  BY DEF Range
<1>6. Stacked(s, none, Len(none))
  <2> DEFINE active == none
  <2>1. \A k \in 1..Len(none) : active[k] = {} /\ Bytes[none[k]] <= MaxBytes
    BY <1>5
  <2> HIDE DEF active, none
  <2>2. Stacked(LruReplay(none, active), none, Len(none))
    BY <1>5, <2>1, LruStacks
  <2> QED
    BY <2>2 DEF active
<1>7. s = Fresh(MaxBytes)
  <2>1. PICK r : Runs(r, 0, ReplayState, Fresh(MaxBytes), LruSteps(none, none)) /\ r[0] = s
    <3> DEFINE active == none
    <3> HIDE DEF active, none, s
    <3>1. \E r : Runs(r, Len(none), ReplayState, Fresh(MaxBytes), LruSteps(none, active))
                 /\ r[Len(none)] = LruReplay(none, active)
      BY <1>5, LruRuns
    <3> QED
      BY <1>5, <3>1 DEF active, s
  <2>2. r[0] = Fresh(MaxBytes)
    BY <2>1 DEF Runs
  <2> QED
    BY <2>1, <2>2
<1>8. s.evictions = 0 /\ s.loads = 0 /\ s.hits = 0 /\ s.reloads = 0 /\ s.seen = {} /\ DOMAIN s.res = {}
  BY <1>7 DEF Fresh
<1>9. Inserting(empty, empty) = {}
  BY DEF Inserting
<1>10. IsFiniteSet({}) /\ Cardinality({}) = 0
  BY FS_EmptySet
<1> DEFINE zero == 0
<1> HIDE DEF s, none
<1>11. Trails(s, none, empty, empty, zero, zero, empty)
  BY <1>5, <1>6, <1>8, <1>9, <1>10 DEF Trails
<1> QED
  BY <1>1, <1>2, <1>4, <1>11 DEF RuntimeInv, s

\* What was calm before the step.
LEMMA CalmWas ==
  ASSUME StoreInv, NEW new, Shows(new), Calm(trace_')
  PROVE  Calm(trace_)
<1> DEFINE longer == trace_'
<1>1. trace_ \in Seq(Event) /\ new \in Seq(Event) /\ Answered(trace_) /\ longer = trace_ \o new /\ Calm(longer)
  BY TraceTellsTypes DEF StoreInv, Shows
<1> HIDE DEF longer
<1> QED
  BY ONLY <1>1, CalmBefore

\* A request goes on waiting, or is over.
LEMMA WaitsLess ==
  ASSUME StoreInv, Waits(trace_, Seen, Waiting), NEW new, Shows(new), Seen' = Seen, Waiting' \subseteq Waiting
  PROVE  Waits(trace_', Seen', Waiting')
<1> DEFINE longer == trace_'
           W == Waiting
           V == Waiting'
<1>1. trace_ \in Seq(Event) /\ new \in Seq(Event) /\ longer = trace_ \o new
  BY TraceTellsTypes DEF StoreInv, Shows
<1>2. V \subseteq W /\ V \subseteq Tensors
  BY DEF Waiting
<1>3. \A w \in V : <<"MATERIALIZE", w>> \notin Range(new)
  BY <1>2 DEF Shows
<1>4. Waits(trace_, Seen, W)
  OBVIOUS
<1> HIDE DEF longer, W, V
<1>5. Waits(longer, Seen, V)
  BY <1>1, <1>2, <1>3, <1>4, WaitsStay
<1> QED
  BY <1>5 DEF longer, V

\* The replay of one more request.
LEMMA ReplayAppends ==
  ASSUME StoreInv, NEW t \in Tensors, RequestHit(t) \/ RequestMiss(t)
  PROVE  LruReplay(Seen', ActiveSets(trace_)')
           = Serve("lru", Seen', ActiveSets(trace_)', LruReplay(Seen, ActiveSets(trace_)), Len(Seen) + 1)
<1> DEFINE seq == Seen
           active == ActiveSets(trace_)
           P == Leased
<1>1. /\ TraceTells /\ seq \in Seq(Tensors) /\ active \in Seq(SUBSET Tensors) /\ Len(active) = Len(seq)
      /\ P \in SUBSET Tensors
  BY TraceTellsTypes DEF StoreInv, Leased
<1>2. Seen' = Append(seq, t) /\ ActiveSets(trace_)' = Append(active, P)
  BY <1>1, AskGives
<1> HIDE DEF seq, active, P
<1>3. LruReplay(Append(seq, t), Append(active, P))
        = Serve("lru", Append(seq, t), Append(active, P), LruReplay(seq, active), Len(seq) + 1)
  BY <1>1, LruAppends
<1> QED
  BY <1>2, <1>3 DEF seq, active

LEMMA AskWaitsOn ==
  ASSUME RuntimeInv, NEW t \in Tensors, RequestHit(t) \/ RequestMiss(t)
  PROVE  Waits(trace_', Seen', Waiting')
<1> DEFINE longer == trace_'
           asked == Seen'
           V == Waiting'
           W == Waiting
           seq == Seen
<1>1. /\ TraceTells /\ trace_ \in Seq(Event) /\ seq \in Seq(Tensors) /\ Waits(trace_, seq, W)
      /\ W \in SUBSET Tensors /\ V \in SUBSET Tensors
  BY TraceTellsTypes DEF StoreInv, RuntimeInv, Waiting
<1>2. PICK outcome \in {"MISS", "LEASE_ACQUIRE"} :
        /\ longer = trace_ \o <<<<"REQUEST", t>>, <<outcome, t>>>>
        /\ V \subseteq W \cup {t} /\ (t \in V => outcome = "MISS")
  <2>1. CASE RequestHit(t)
    <3>1. longer = trace_ \o <<<<"REQUEST", t>>, <<"LEASE_ACQUIRE", t>>>> /\ t \notin W /\ V = W
      BY <2>1, AskWaits DEF RequestHit, Emits, RuntimeInv
    <3> QED
      BY <3>1
  <2>2. CASE RequestMiss(t)
    <3>1. longer = trace_ \o <<<<"REQUEST", t>>, <<"MISS", t>>>> /\ V = W \cup {t}
      BY <2>2, AskWaits DEF RequestMiss, Emits, RuntimeInv
    <3> QED
      BY <3>1
  <2> QED
    BY <2>1, <2>2
<1> DEFINE a == <<"REQUEST", t>>
           b == <<outcome, t>>
<1>3. a \in Event /\ b \in Event /\ longer = trace_ \o <<a, b>> /\ a = <<"REQUEST", t>> /\ b = <<outcome, t>>
  BY <1>2 DEF Event, Kinds
<1>4. asked = Append(seq, t)
  BY <1>1, AskGives
<1> HIDE DEF longer, asked, V, W, a, b, seq
<1>5. Waits(longer, asked, V)
  BY <1>1, <1>2, <1>3, <1>4, WaitsAsk
<1> QED
  BY <1>5 DEF longer, asked, V

\* A hit: nothing waits, so that the replay keeps just what is resident.
LEMMA HitTrails ==
  ASSUME RuntimeInv, NEW t \in Tensors, RequestHit(t), Policy = "LRU", Calm(trace_')
  PROVE  Trails(LruReplay(Seen', ActiveSets(trace_)'), Seen', entries_', Waiting',
                Count("EVICT")', Count("INSERT")', Inserted(trace_)')
<1> DEFINE a == <<"REQUEST", t>>
           b == <<"LEASE_ACQUIRE", t>>
           new == <<a, b>>
           longer == trace_'
           asked == Seen'
           active == ActiveSets(trace_)'
           s == LruReplay(Seen, ActiveSets(trace_))
           x == LruReplay(asked, active)
           seq == Seen
           W == Waiting
           evicts == Count("EVICT")
           inserts == Count("INSERT")
           inserted == Inserted(trace_)
           k == Len(seq) + 1
<1>1. /\ StoreInv /\ TraceTells /\ trace_ \in Seq(Event) /\ seq \in Seq(Tensors) /\ entries_ \in SUBSET Tensors
      /\ evicts \in Nat /\ inserts \in Nat /\ SizeOf(entries_) <= MaxBytes
  BY TraceTellsTypes, CountsNow DEF StoreInv, RuntimeInv
<1>2. Shows(new)
  BY <1>1, AskShows
<1>3. Calm(trace_)
  <2> HIDE DEF new
  <2> QED
    BY <1>1, <1>2, CalmWas
<1>4. Trails(s, seq, entries_, W, evicts, inserts, inserted)
  BY <1>3 DEF RuntimeInv
<1>5. W = {}
  <2> SUFFICES ASSUME NEW w \in W PROVE FALSE
    OBVIOUS
  <2>1. /\ trace_ \in Seq(Event) /\ Waits(trace_, seq, W)
        /\ a[1] = "REQUEST" /\ b[1] # "MISS" /\ a \in Event /\ b \in Event
    BY <1>1 DEF RuntimeInv, Event, Kinds
  <2>2. longer = trace_ \o <<a, b>> /\ Calm(longer) /\ w \in W
    BY <1>2 DEF Shows
  <2> HIDE DEF a, b, longer, W, seq
  <2> QED
    BY <2>1, <2>2, WaitsMiss
<1>6. asked = Append(seq, t) /\ Count("EVICT")' = evicts /\ Count("INSERT")' = inserts /\ Inserted(trace_)' = inserted
  BY <1>1, AskGives
<1>7. x = Serve("lru", asked, active, s, k)
  BY <1>1, ReplayAppends
<1>8. t \in entries_ /\ entries_' = entries_ /\ Waiting' = W
  BY <1>1, AskWaits DEF RequestHit, Asks
<1>9. Bytes[t] <= MaxBytes
  <2> DEFINE one == {t}
  <2>1. one \in SUBSET entries_ /\ SizeOf(one) = Bytes[t]
    BY <1>8, SizeOfOne
  <2> HIDE DEF one
  <2>2. SizeOf(one) <= SizeOf(entries_) /\ SizeOf(one) \in Nat /\ SizeOf(entries_) \in Nat
    BY <1>1, <2>1, SizeGrows
  <2> QED
    BY <1>1, <2>1, <2>2, StoreAssumption
<1> HIDE DEF a, b, new, longer, asked, active, s, x, seq, W, evicts, inserts, inserted
<1>10. t \in DOMAIN s.res
  <2>1. DOMAIN s.res = entries_
    BY <1>1, <1>4, <1>5, TrailsRest
  <2> QED
    BY <1>8, <2>1
<1>11. k = Len(seq) + 1
  OBVIOUS
<1> HIDE DEF k
<1>12. Trails(x, asked, entries_, W, evicts, inserts, inserted)
  BY <1>1, <1>4, <1>6, <1>7, <1>9, <1>10, <1>11, TrailsHit
<1> QED
  BY <1>6, <1>8, <1>12 DEF x, asked, active

\* A miss: the replay loads at once what now waits, if it does not wait already.
LEMMA MissTrails ==
  ASSUME RuntimeInv, NEW t \in Tensors, RequestMiss(t), Policy = "LRU", Calm(trace_')
  PROVE  Trails(LruReplay(Seen', ActiveSets(trace_)'), Seen', entries_', Waiting',
                Count("EVICT")', Count("INSERT")', Inserted(trace_)')
<1> DEFINE new == <<<<"REQUEST", t>>, <<"MISS", t>>>>
           longer == trace_'
           asked == Seen'
           active == ActiveSets(trace_)'
           s == LruReplay(Seen, ActiveSets(trace_))
           x == LruReplay(asked, active)
           seq == Seen
           W == Waiting
           V == Waiting'
           evicts == Count("EVICT")
           inserts == Count("INSERT")
           inserted == Inserted(trace_)
           k == Len(seq) + 1
<1>1. /\ StoreInv /\ TraceTells /\ trace_ \in Seq(Event) /\ seq \in Seq(Tensors) /\ entries_ \in SUBSET Tensors
      /\ evicts \in Nat /\ inserts \in Nat
      /\ ActiveSets(trace_) \in Seq(SUBSET Tensors) /\ Len(ActiveSets(trace_)) = Len(seq)
  BY TraceTellsTypes, CountsNow DEF StoreInv, RuntimeInv
<1>2. Shows(new)
  BY <1>1, AskShows
<1>3. Calm(trace_)
  <2> HIDE DEF new
  <2> QED
    BY <1>1, <1>2, CalmWas
<1>4. Trails(s, seq, entries_, W, evicts, inserts, inserted)
  BY <1>3 DEF RuntimeInv
<1>5. Leased = {}
  <2>1. \A u \in Tensors : active_leases[u] = 0
    BY <1>1, MissCalm
  <2> QED
    BY <1>1, <2>1 DEF Leased
<1>6. asked = Append(seq, t) /\ active = Append(ActiveSets(trace_), Leased)
      /\ Count("EVICT")' = evicts /\ Count("INSERT")' = inserts /\ Inserted(trace_)' = inserted
  BY <1>1, AskGives
<1>7. x = Serve("lru", asked, active, s, k) /\ k = Len(seq) + 1
  BY <1>1, ReplayAppends
<1>8. active[k] = {}
  <2> DEFINE before == ActiveSets(trace_)
  <2>1. before \in Seq(SUBSET Tensors) /\ Len(before) = Len(seq) /\ active = Append(before, {})
    BY <1>1, <1>5, <1>6
  <2> HIDE DEF before, active, seq
  <2> QED
    BY <2>1
<1>9. t \notin entries_ /\ entries_' = entries_ /\ V = W \cup {t}
  BY <1>1, AskWaits DEF RequestMiss, Asks
<1>10. \A w \in V : SizeOf(Since(asked, w)) <= MaxBytes
  <2> TAKE w \in V
  <2>1. trace_' \in Seq(Event) /\ asked \in Seq(Tensors)
    <3>1. longer = trace_ \o new /\ new \in Seq(Event)
      BY <1>2 DEF Shows
    <3> HIDE DEF new, longer
    <3>2. longer \in Seq(Event)
      BY <1>1, <3>1
    <3>3. asked \in Seq(Tensors)
      BY <1>1, <1>6
    <3> QED
      BY <3>2, <3>3 DEF longer
  <2>2. Waits(trace_', asked, V)
    BY AskWaitsOn
  <2>3. longer \in Seq(Event) /\ Waits(longer, asked, V) /\ Calm(longer)
    BY <2>1, <2>2
  <2> HIDE DEF longer, asked, V
  <2> QED
    BY <2>1, <2>3, WaitsFit
<1>11. Bytes[t] <= MaxBytes
  <2>1. Since(asked, t) = {t}
    <3> HIDE DEF asked, seq
    <3> QED
      BY <1>1, <1>6, SinceLast
  <2>2. SizeOf({t}) <= MaxBytes
    BY <1>9, <1>10, <2>1
  <2> QED
    BY <2>2, SizeOfOne
<1> HIDE DEF new, longer, asked, active, s, x, seq, W, V, evicts, inserts, inserted, k
<1>12. Trails(x, asked, entries_, V, evicts, inserts, inserted)
  <2>1. CASE t \in W
    <3>1. t \in DOMAIN s.res
      BY <1>4, <2>1 DEF Trails
    <3>2. Trails(x, asked, entries_, W, evicts, inserts, inserted)
      BY <1>1, <1>4, <1>6, <1>7, <1>11, <3>1, TrailsHit
    <3>3. V = W
      BY <1>9, <2>1
    <3> QED
      BY <3>2, <3>3
  <2>2. CASE t \notin W
    <3>1. t \notin entries_ \cup W
      BY <1>9, <2>2
    <3>2. /\ seq \in Seq(Tensors) /\ evicts \in Nat /\ inserts \in Nat
          /\ Trails(s, seq, entries_, W, evicts, inserts, inserted)
          /\ t \in Tensors /\ t \notin entries_ \cup W /\ Bytes[t] <= MaxBytes
          /\ asked = Append(seq, t) /\ k = Len(seq) + 1 /\ active[k] = {}
          /\ x = Serve("lru", asked, active, s, k)
          /\ V = W \cup {t} /\ \A w \in V : SizeOf(Since(asked, w)) <= MaxBytes
      BY <1>1, <1>4, <1>6, <1>7, <1>8, <1>9, <1>10, <1>11, <3>1
    <3> QED
      BY ONLY <3>2, TrailsMiss, ZenonT(90)
  <2> QED
    BY <2>1, <2>2
<1> QED
  BY <1>6, <1>9, <1>12 DEF x, asked, active, V

\* What is read and kept was ahead in the replay already.
LEMMA KeptTrails ==
  ASSUME RuntimeInv, NEW t \in Tensors, ObtainKept(t), Policy = "LRU", Calm(trace_'), Calm(trace_)
  PROVE  Trails(LruReplay(Seen', ActiveSets(trace_)'), Seen', entries_', Waiting',
                Count("EVICT")', Count("INSERT")', Inserted(trace_)')
<1> DEFINE a == <<"INSERT", t>>
           b == <<"LEASE_ACQUIRE", t>>
           out == <<a, b>>
           s == LruReplay(Seen, ActiveSets(trace_))
           seq == Seen
           W == Waiting
           V == Waiting'
           now == entries_'
           evicts == Count("EVICT")
           inserts == Count("INSERT")
           inserted == Inserted(trace_)
<1>1. /\ StoreInv /\ TraceTells /\ seq \in Seq(Tensors) /\ evicts \in Nat /\ inserts \in Nat
      /\ Trails(s, seq, entries_, W, evicts, inserts, inserted)
  BY TraceTellsTypes, CountsNow DEF StoreInv, RuntimeInv
<1>2. PICK ev \in Evictions(t) :
        /\ now = (entries_ \ ev) \cup {t}
        /\ active_leases' = [active_leases EXCEPT ![t] = @ + 1]
        /\ Obtains(t, ev, out)
  BY DEF ObtainKept
<1>3. out \in Seq(Event)
  <2>1. a \in Event /\ b \in Event
    BY DEF Event, Kinds
  <2> HIDE DEF a, b
  <2> QED
    BY <2>1
<1>4. \A u \in Tensors : active_leases[u] = 0
  <2>1. ev \in SUBSET Candidates
    BY DEF Evictions
  <2> HIDE DEF out
  <2> QED
    BY <1>1, <1>2, <1>3, <2>1, ObtainCalm
<1>5. t \in W /\ V = W \ {t}
  BY <1>1, <1>2, ObtainWaits
<1>6. /\ Seen' = seq /\ ActiveSets(trace_)' = ActiveSets(trace_)
      /\ Count("EVICT")' = evicts + Cardinality(ev) /\ Count("INSERT")' = inserts + 1
      /\ Inserted(trace_)' = inserted \cup {<<"INSERT", t>>}
  BY <1>1, <1>2, KeptGives
<1>7. seq = Seen
  OBVIOUS
<1> HIDE DEF out, s, seq, W, V, now, evicts, inserts, inserted
<1>8. /\ ev \in SUBSET entries_ /\ ev \cap DOMAIN s.res = {}
      /\ \A u \in (entries_ \cup W) \ ev : Since(seq, u) \cap ev = {}
  BY <1>1, <1>4, <1>5, <1>7, EvictsBehind
<1> DEFINE more == inserted \cup {<<"INSERT", t>>}
           gone == evicts + Cardinality(ev)
           come == inserts + 1
<1>9. Trails(s, seq, now, V, gone, come, more)
  <2>1. /\ seq \in Seq(Tensors) /\ evicts \in Nat /\ inserts \in Nat
        /\ Trails(s, seq, entries_, W, evicts, inserts, inserted)
        /\ t \in W /\ ev \in SUBSET entries_ /\ ev \cap DOMAIN s.res = {}
        /\ \A u \in (entries_ \cup W) \ ev : Since(seq, u) \cap ev = {}
        /\ now = (entries_ \ ev) \cup {t} /\ V = W \ {t}
    BY <1>1, <1>2, <1>5, <1>8
  <2> QED
    BY ONLY <2>1, TrailsKept, ZenonT(90)
<1> HIDE DEF more, gone, come
<1>10. LruReplay(Seen', ActiveSets(trace_)') = s
  BY <1>6 DEF s, seq
<1> QED
  BY <1>6, <1>9, <1>10 DEF V, now, more, gone, come

\* In calm the store refuses nothing that it reads.
LEMMA UnkeptDisturbs ==
  ASSUME RuntimeInv, NEW t \in Tensors, ObtainUnkept(t), Calm(trace_'), Calm(trace_)
  PROVE  FALSE
<1> DEFINE a == <<"INSERT_REJECTED", t>>
           out == <<a>>
<1>1. /\ StoreInv /\ TraceTells /\ trace_ \in Seq(Event) /\ Seen \in Seq(Tensors) /\ entries_ \in SUBSET Tensors
      /\ resident_bytes_ = SizeOf(entries_) /\ Waits(trace_, Seen, Waiting)
  BY TraceTellsTypes DEF StoreInv, RuntimeInv
<1>2. PICK ev \in {{}, Candidates} :
        /\ IF Bytes[t] > MaxBytes THEN ev = {}
           ELSE ev = Candidates /\ resident_bytes_ - SizeOf(ev) + Bytes[t] > MaxBytes
        /\ Obtains(t, ev, out)
  BY DEF ObtainUnkept
<1>3. out \in Seq(Event)
  <2>1. a \in Event
    BY DEF Event, Kinds
  <2> HIDE DEF a
  <2> QED
    BY <2>1
<1>4. \A u \in Tensors : active_leases[u] = 0
  <2>1. ev \in SUBSET Candidates
    OBVIOUS
  <2> HIDE DEF out
  <2> QED
    BY <1>1, <1>2, <1>3, <2>1, ObtainCalm
<1>5. t \in Waiting
  BY <1>1, <1>2, ObtainWaits
<1> DEFINE seq == Seen
           W == Waiting
           big == Since(seq, t)
           one == {t}
<1>6. SizeOf(big) <= MaxBytes /\ t \in Range(seq)
  <2>1. Waits(trace_, seq, W) /\ t \in W /\ seq \in Seq(Tensors) /\ trace_ \in Seq(Event)
    BY <1>1, <1>5
  <2> HIDE DEF seq, W
  <2>2. t \in Range(seq)
    BY <2>1 DEF Waits
  <2> QED
    BY <2>1, <2>2, WaitsFit
<1>7. big \in SUBSET Tensors /\ one \in SUBSET big
  <2> HIDE DEF seq
  <2>1. Since(seq, t) \in SUBSET Tensors /\ t \in Since(seq, t)
    BY <1>1, <1>6, SinceIs DEF seq
  <2> QED
    BY <2>1
<1>8. SizeOf(one) = Bytes[t] /\ Bytes[t] \in Nat
  BY SizeOfOne
<1> HIDE DEF big, one
<1>9. Bytes[t] <= MaxBytes /\ MaxBytes \in Nat
  <2>1. SizeOf(one) <= SizeOf(big) /\ SizeOf(one) \in Nat /\ SizeOf(big) \in Nat
    BY <1>7, SizeGrows
  <2> QED
    BY <1>6, <1>8, <2>1, StoreAssumption
<1>10. ev = entries_ /\ resident_bytes_ - SizeOf(ev) + Bytes[t] > MaxBytes
  <2>1. Candidates = entries_
    BY <1>1, <1>4 DEF Candidates
  <2> QED
    BY <1>2, <1>8, <1>9, <2>1
<1>11. SizeOf(entries_) \in Nat
  BY <1>1, SizeIsTotal
<1> QED
  BY <1>1, <1>8, <1>9, <1>10, <1>11

LEMMA RuntimeStep ==
  ASSUME RuntimeInv, [ReplayNext]_replayVars
  PROVE  RuntimeInv'
<1>1. StoreInv /\ StoreInv'
  BY StoreStep DEF RuntimeInv
<1>2. ASSUME NEW t \in Tensors, RequestHit(t) \/ RequestMiss(t) PROVE RuntimeInv'
  <2>1. Waits(trace_', Seen', Waiting')
    BY <1>2, AskWaitsOn
  <2>2. ASSUME Policy = "LRU", Calm(trace_')
        PROVE  Trails(LruReplay(Seen', ActiveSets(trace_)'), Seen', entries_', Waiting',
                      Count("EVICT")', Count("INSERT")', Inserted(trace_)')
    BY <1>2, <2>2, HitTrails, MissTrails
  <2> QED
    BY <1>1, <2>1, <2>2 DEF RuntimeInv
<1>3. ASSUME NEW t \in Tensors, ObtainKept(t) \/ ObtainUnkept(t) PROVE RuntimeInv'
  <2>1. PICK new \in Seq(Event) : Shows(new)
    BY <1>1, <1>3, KeptShows
  <2>2. Seen' = Seen /\ Waiting' = Waiting \ {t}
    BY <1>1, <1>3, KeptShows, ObtainKeepsStore
  <2>3. Waits(trace_', Seen', Waiting')
    BY <1>1, <2>1, <2>2, WaitsLess DEF RuntimeInv
  <2>4. Calm(trace_') => Calm(trace_)
    BY <1>1, <2>1, CalmWas
  <2>5. ASSUME Policy = "LRU", Calm(trace_')
        PROVE  Trails(LruReplay(Seen', ActiveSets(trace_)'), Seen', entries_', Waiting',
                      Count("EVICT")', Count("INSERT")', Inserted(trace_)')
    BY <1>3, <2>4, <2>5, KeptTrails, UnkeptDisturbs
  <2> QED
    BY <1>1, <2>3, <2>5 DEF RuntimeInv
<1>4. ASSUME NEW t \in Tensors, ObtainUnasked(t) \/ GiveBack(t) PROVE RuntimeInv'
  <2>1. PICK new \in Seq(Event) : Shows(new)
    BY <1>1, <1>4, LeaseShows
  <2>2. /\ Seen' = Seen /\ ActiveSets(trace_)' = ActiveSets(trace_) /\ entries_' = entries_
        /\ Count("EVICT")' = Count("EVICT") /\ Count("INSERT")' = Count("INSERT")
        /\ Inserted(trace_)' = Inserted(trace_)
    BY <1>1, <1>4, LeaseGives DEF StoreInv
  <2>3. Waiting' = Waiting
    BY <1>1, <1>4, LeaseShows
  <2>4. Waits(trace_', Seen', Waiting')
    BY <1>1, <2>1, <2>2, <2>3, WaitsLess DEF RuntimeInv
  <2>5. Calm(trace_') => Calm(trace_)
    BY <1>1, <2>1, CalmWas
  <2> QED
    BY <1>1, <2>2, <2>3, <2>4, <2>5 DEF RuntimeInv
<1>5. CASE UNCHANGED <<storeVars, requests_, trace_>>
  <2>1. Seen' = Seen /\ ActiveSets(trace_)' = ActiveSets(trace_) /\ Waiting' = Waiting
        /\ entries_' = entries_ /\ trace_' = trace_
    BY <1>5 DEF Seen, ActiveSets, Waiting, storeVars
  <2>2. /\ Count("EVICT")' = Count("EVICT") /\ Count("INSERT")' = Count("INSERT")
        /\ Inserted(trace_)' = Inserted(trace_)
    BY <2>1 DEF Count, Inserted
  <2> QED
    BY <1>1, <2>1, <2>2 DEF RuntimeInv
<1>6. CASE \E t \in Tensors :
             \/ RequestHit(t) \/ RequestMiss(t)
             \/ ObtainKept(t) \/ ObtainUnkept(t) \/ ObtainUnasked(t) \/ GiveBack(t)
  BY <1>2, <1>3, <1>4, <1>6
<1>7. CASE SecondToken \/ UNCHANGED replayVars
  BY <1>5, <1>7 DEF SecondToken, replayVars
<1> QED
  BY <1>6, <1>7 DEF ReplayNext

\* At rest, and as long as the delays of reads disturb nothing, the offline replay
\* of the store's own policy over every request of the trace, those repeated after
\* a refused prefetch too, keeps, loads and evicts exactly what the store did, for
\* any sizes, budgets and waves (simulate and active_sets of
\* qualify_residency_policy_poc17.py).
THEOREM TheReplayIsTheRuntime == ReplaySpec => []ReplayIsRuntime
<1>1. ReplayInit => RuntimeInv
  BY RuntimeStarts
<1>2. RuntimeInv /\ [ReplayNext]_replayVars => RuntimeInv'
  BY RuntimeStep
<1>3. RuntimeInv => ReplayIsRuntime
  <2> SUFFICES ASSUME RuntimeInv, Policy = "LRU", Held = {}, Undisturbed
               PROVE  \A lru \in {Simulate(Seen, ActiveSets(trace_), MaxBytes, "lru")} :
                        /\ DOMAIN lru.res = entries_
                        /\ lru.evictions = Count("EVICT") /\ lru.loads = Count("INSERT")
                        /\ lru.hits = Len(Seen) - Count("INSERT")
                        /\ lru.reloads = Count("INSERT") - Cardinality({e \in Range(trace_) : e[1] = "INSERT"})
    BY DEF ReplayIsRuntime
  <2> DEFINE s == LruReplay(Seen, ActiveSets(trace_))
             seq == Seen
             W == Waiting
             evicts == Count("EVICT")
             inserts == Count("INSERT")
             inserted == Inserted(trace_)
  <2>1. Trails(s, seq, entries_, W, evicts, inserts, inserted)
    BY CalmIs DEF RuntimeInv
  <2>2. /\ seq \in Seq(Tensors) /\ evicts \in Nat /\ inserts \in Nat /\ SizeOf(entries_) <= MaxBytes
    BY TraceTellsTypes, CountsNow DEF RuntimeInv, StoreInv
  <2>3. W = {}
    BY DEF Held, Waiting
  <2>4. Len(seq) \in Nat
    BY <2>2
  <2> HIDE DEF s, seq, W, evicts, inserts, inserted
  <2>5. /\ DOMAIN s.res = entries_ /\ s.evictions = evicts /\ s.loads = inserts /\ s.hits + s.loads = Len(seq)
        /\ s.hits \in Nat /\ s.reloads = inserts - Cardinality(inserted)
    BY <2>1, <2>2, <2>3, TrailsRest
  <2>6. s.hits = Len(seq) - inserts
    BY <2>2, <2>4, <2>5
  <2> QED
    BY <2>5, <2>6 DEF s, seq, evicts, inserts, inserted, LruReplay, Inserted
<1> QED
  BY <1>1, <1>2, <1>3, PTL DEF ReplaySpec

-----------------------------------------------------------------------------
(* Between the tokens.  What is told after the boundary explains how the       *)
(* resident set has changed since, and what was asked for and not resident     *)
(* then has been read or waits.                                                *)

Retained ==
  LET between == ResidentAfter(SubSeq(trace_, 1, boundary))
  IN  /\ boundary \in 0..Len(trace_)
      /\ \A t \in Tensors :
           /\ Later(trace_, boundary, <<"REQUEST", t>>) /\ t \notin between
                => Later(trace_, boundary, <<"MATERIALIZE", t>>) \/ t \in Waiting
           /\ t \in between => t \in entries_ \/ Later(trace_, boundary, <<"EVICT", t>>)
           /\ t \in entries_ => t \in between \/ Later(trace_, boundary, <<"MATERIALIZE", t>>)
           /\ t \in between /\ Later(trace_, boundary, <<"MATERIALIZE", t>>)
                => Later(trace_, boundary, <<"EVICT", t>>)

RetentionInv == StoreInv /\ (boundary # NoPhase => Retained)

LEMMA RetainedGrows ==
  ASSUME StoreInv, Retained, NEW new, Shows(new), boundary' = boundary
  PROVE  Retained'
<1> DEFINE between == ResidentAfter(SubSeq(trace_, 1, boundary))
<1>1. /\ boundary \in 0..Len(trace_) /\ trace_ \in Seq(Event)
      /\ new \in Seq(Event) /\ trace_' = trace_ \o new
  BY TraceTellsTypes DEF Retained, StoreInv, Shows
<1>2. /\ boundary' \in 0..Len(trace_') /\ SubSeq(trace_', 1, boundary') = SubSeq(trace_, 1, boundary)
      /\ \A e : Later(trace_', boundary', e) <=> Later(trace_, boundary, e) \/ e \in Range(new)
  BY <1>1, LaterGrows
<1>3. between' = between
  BY <1>2
<1>4. \A t \in Tensors :
           /\ Later(trace_, boundary, <<"REQUEST", t>>) /\ t \notin between
                => Later(trace_, boundary, <<"MATERIALIZE", t>>) \/ t \in Waiting
           /\ t \in between => t \in entries_ \/ Later(trace_, boundary, <<"EVICT", t>>)
           /\ t \in entries_ => t \in between \/ Later(trace_, boundary, <<"MATERIALIZE", t>>)
           /\ t \in between /\ Later(trace_, boundary, <<"MATERIALIZE", t>>)
                => Later(trace_, boundary, <<"EVICT", t>>)
  BY DEF Retained
<1>5. \A u \in Tensors :
       /\ <<"REQUEST", u>> \in Range(new) => u \in entries_ \cup Waiting'
       /\ u \in Waiting \ Waiting' => <<"MATERIALIZE", u>> \in Range(new)
       /\ <<"MATERIALIZE", u>> \in Range(new) => u \notin entries_
       /\ u \in entries_ \ entries_' => <<"EVICT", u>> \in Range(new)
       /\ u \in entries_' \ entries_ => <<"MATERIALIZE", u>> \in Range(new)
  BY DEF Shows
<1> HIDE DEF between
<1>6. ASSUME NEW t \in Tensors
      PROVE  /\ Later(trace_', boundary', <<"REQUEST", t>>) /\ t \notin between
                  => Later(trace_', boundary', <<"MATERIALIZE", t>>) \/ t \in Waiting'
             /\ t \in between => t \in entries_' \/ Later(trace_', boundary', <<"EVICT", t>>)
             /\ t \in entries_' => t \in between \/ Later(trace_', boundary', <<"MATERIALIZE", t>>)
             /\ t \in between /\ Later(trace_', boundary', <<"MATERIALIZE", t>>)
                  => Later(trace_', boundary', <<"EVICT", t>>)
  BY <1>2, <1>4, <1>5
<1> QED
  BY <1>2, <1>3, <1>6 DEF Retained, between

\* Nothing has happened since the second token began.
LEMMA SecondTokenRetains ==
  ASSUME RetentionInv, SecondToken
  PROVE  Retained'
<1>1. /\ trace_ \in Seq(Event) /\ ResidentAfter(trace_) = entries_
      /\ boundary' = Len(trace_) /\ trace_' = trace_ /\ entries_' = entries_
  BY TraceTellsTypes DEF RetentionInv, StoreInv, TraceTells, Tells, SecondToken, storeVars
<1>2. SubSeq(trace_, 1, Len(trace_)) = trace_ /\ Len(trace_) \in 0..Len(trace_)
  BY <1>1
<1>3. \A e : ~ Later(trace_, Len(trace_), e)
  <2>1. (Len(trace_) + 1)..Len(trace_) = {}
    BY <1>1
  <2> QED
    BY <2>1 DEF Later
<1> QED
  BY <1>1, <1>2, <1>3 DEF Retained

LEMMA RetentionStep ==
  ASSUME RetentionInv, [ReplayNext]_replayVars
  PROVE  RetentionInv'
<1>1. StoreInv /\ StoreInv'
  BY StoreStep DEF RetentionInv
<1>2. ASSUME NEW t \in Tensors,
             \/ RequestHit(t) \/ RequestMiss(t)
             \/ ObtainKept(t) \/ ObtainUnkept(t) \/ ObtainUnasked(t) \/ GiveBack(t),
             boundary' # NoPhase
      PROVE  Retained'
  <2>1. (\E new : Shows(new)) /\ boundary' = boundary
    <3>1. CASE RequestHit(t) \/ RequestMiss(t)
      <4>1. boundary' = boundary
        BY <1>1, <3>1, AskWaits
      <4>2. CASE RequestHit(t)
        BY <1>1, <4>1, <4>2, AskShows
      <4>3. CASE RequestMiss(t)
        BY <1>1, <4>1, <4>3, AskShows
      <4> QED
        BY <3>1, <4>2, <4>3
    <3>2. CASE ObtainKept(t) \/ ObtainUnkept(t)
      BY <1>1, <3>2, KeptShows
    <3>3. CASE ObtainUnasked(t) \/ GiveBack(t)
      BY <1>1, <3>3, LeaseShows
    <3> QED
      BY <1>2, <3>1, <3>2, <3>3
  <2>2. Retained
    BY <1>2, <2>1 DEF RetentionInv
  <2> QED
    BY <1>1, <2>1, <2>2, RetainedGrows
<1>3. CASE SecondToken
  BY <1>1, <1>3, SecondTokenRetains DEF RetentionInv
<1>4. CASE UNCHANGED replayVars
  BY <1>1, <1>4 DEF RetentionInv, Retained, Waiting, replayVars, storeVars
<1> QED
  BY <1>1, <1>2, <1>3, <1>4 DEF ReplayNext, RetentionInv

\* What the second token shares with the first was still resident between them or
\* was read again, and what was resident and read again had been evicted, for every
\* trace (retention of report_cost_aware_residency_poc20.py).
THEOREM RetentionIsAboutEvictions == ReplaySpec => []RetentionAgrees
<1>1. ReplayInit => RetentionInv
  BY StoreStarts DEF RetentionInv, ReplayInit
<1>2. RetentionInv /\ [ReplayNext]_replayVars => RetentionInv'
  BY RetentionStep
<1>3. RetentionInv => RetentionAgrees
  <2> SUFFICES ASSUME RetentionInv, NEW trace \in {ParseTrace(trace_, boundary)}, trace.phase # NoPhase,
                      NEW kept \in {Retention(trace.events, trace.phase)}
               PROVE  /\ Held = {} => kept.reusable \ kept.retained \subseteq kept.reloaded
                      /\ \A t \in kept.retained \cap kept.reloaded :
                           \E i \in (boundary + 1)..Len(trace_) : trace_[i] = <<"EVICT", t>>
    BY DEF RetentionAgrees
  <2> DEFINE first == SubSeq(trace_, 1, boundary)
             second == SubSeq(trace_, boundary + 1, Len(trace_))
             between == ResidentAfter(first)
  <2>1. trace.events = trace_ /\ trace.phase = boundary
    BY DEF ParseTrace, NoTrace
  <2>2. Retained /\ trace_ \in Seq(Event) /\ boundary \in 0..Len(trace_) /\ boundary # NoPhase
    BY <2>1, TraceTellsTypes DEF RetentionInv, StoreInv, Retained
  <2>3. PhaseEvents(trace_, 0, boundary) = first /\ PhaseEvents(trace_, boundary, NoPhase) = second
    BY <2>1, <2>2 DEF PhaseEvents
  <2>4. kept = Shared(first, second, between)
    BY <2>1, <2>3 DEF Retention
  <2>5. \A e : e \in Range(second) <=> Later(trace_, boundary, e)
    <3>1. /\ second \in Seq(Event) /\ Len(second) = Len(trace_) - boundary
          /\ \A i \in 1..(Len(trace_) - boundary) : second[i] = trace_[i + boundary]
      BY <2>2
    <3> HIDE DEF second
    <3>2. DOMAIN second = 1..(Len(trace_) - boundary)
      BY <3>1
    <3>3. ASSUME NEW e, e \in Range(second) PROVE Later(trace_, boundary, e)
      <4>1. PICK i \in DOMAIN second : second[i] = e
        BY <3>3 DEF Range
      <4>2. i + boundary \in (boundary + 1)..Len(trace_) /\ trace_[i + boundary] = e
        BY <2>2, <3>1, <3>2, <4>1
      <4> QED
        BY <4>2 DEF Later
    <3>4. ASSUME NEW e, Later(trace_, boundary, e) PROVE e \in Range(second)
      <4>1. PICK i \in (boundary + 1)..Len(trace_) : trace_[i] = e
        BY <3>4 DEF Later
      <4>2. i - boundary \in 1..(Len(trace_) - boundary) /\ second[i - boundary] = e
        BY <2>2, <3>1, <4>1
      <4> QED
        BY <3>2, <4>2 DEF Range
    <3> QED
      BY <3>3, <3>4
  <2> HIDE DEF second
  <2>6. Range(second) \subseteq Event
    <3>1. \A i \in (boundary + 1)..Len(trace_) : trace_[i] \in Event
      BY <2>2
    <3> QED
      BY <2>5, <3>1 DEF Later
  <2>7. \A t \in Used(second) : t \in Tensors /\ Later(trace_, boundary, <<"REQUEST", t>>)
    <3>1. ASSUME NEW e \in Range(second), e[1] = "REQUEST" PROVE e[2] \in Tensors /\ e = <<"REQUEST", e[2]>>
      BY <2>6, <3>1 DEF Event
    <3> QED
      BY <2>5, <3>1 DEF Used
  <2>8. kept.reusable \subseteq Used(second) /\ kept.retained = kept.reusable \cap between
    BY <2>4 DEF Shared
  <2>9. \A t : Later(trace_, boundary, <<"MATERIALIZE", t>>) /\ t \in kept.reusable => t \in kept.reloaded
    <3>1. ASSUME NEW t, <<"MATERIALIZE", t>> \in Range(second), t \in kept.reusable
          PROVE  t \in {e[2] : e \in {x \in Range(second) : x[1] = "MATERIALIZE"}}
      <4> DEFINE e == <<"MATERIALIZE", t>>
      <4>1. e \in Range(second) /\ e[1] = "MATERIALIZE" /\ e[2] = t
        BY <3>1
      <4> QED
        BY <4>1
    <3> QED
      BY <2>4, <2>5, <3>1 DEF Shared
  <2>10. \A t \in kept.reloaded : t \in kept.reusable /\ Later(trace_, boundary, <<"MATERIALIZE", t>>)
    <3>1. ASSUME NEW e \in Range(second), e[1] = "MATERIALIZE" PROVE e = <<"MATERIALIZE", e[2]>>
      BY <2>6, <3>1 DEF Event
    <3> QED
      BY <2>4, <2>5, <3>1 DEF Shared
  <2>11. \A t \in Tensors :
           /\ Later(trace_, boundary, <<"REQUEST", t>>) /\ t \notin between
                => Later(trace_, boundary, <<"MATERIALIZE", t>>) \/ t \in Waiting
           /\ t \in between /\ Later(trace_, boundary, <<"MATERIALIZE", t>>)
                => Later(trace_, boundary, <<"EVICT", t>>)
    BY <2>2 DEF Retained
  <2> HIDE DEF between
  <2>12. ASSUME Held = {} PROVE kept.reusable \ kept.retained \subseteq kept.reloaded
    <3>1. \A t \in Tensors : t \notin Waiting
      BY <2>12 DEF Held, Waiting
    <3> QED
      BY <2>7, <2>8, <2>9, <2>11, <3>1
  <2>13. \A t \in kept.retained \cap kept.reloaded : Later(trace_, boundary, <<"EVICT", t>>)
    BY <2>7, <2>8, <2>10, <2>11
  <2> QED
    BY <2>12, <2>13 DEF Later
<1> QED
  BY <1>1, <1>2, <1>3, PTL DEF ReplaySpec

-----------------------------------------------------------------------------
(* Two tiers.  Every step keeps the counters in balance with what the tiers    *)
(* hold: the hot counter may be too high, by what the warm one is too low.     *)

TierEntry == [tier : {"HOT", "WARM"}, count : Nat, last : Nat]
TierEntries == UNION {[S -> TierEntry] : S \in SUBSET Tensors}

TierState ==
  [entries : TierEntries, hot : Int, warm : Int, hotPeak : Int, warmPeak : Int,
   misses : Nat, promoted : Nat, demoted : Nat]

Balanced ==
  {s \in TierState :
     /\ SizeOf(InTier(s, "HOT")) <= s.hot /\ s.hot <= HotCapacity /\ s.warm <= WarmCapacity
     /\ s.hot + s.warm = SizeOf(InTier(s, "HOT")) + SizeOf(InTier(s, "WARM"))}

LEMMA TiersAre ==
  ASSUME NEW s \in TierState
  PROVE  /\ DOMAIN s.entries \in SUBSET Tensors /\ s.entries \in [DOMAIN s.entries -> TierEntry]
         /\ \A t \in DOMAIN s.entries : s.entries[t] \in TierEntry
         /\ InTier(s, "HOT") \in SUBSET Tensors /\ InTier(s, "WARM") \in SUBSET Tensors
         /\ InTier(s, "HOT") \subseteq DOMAIN s.entries /\ InTier(s, "WARM") \subseteq DOMAIN s.entries
         /\ IsFiniteSet(DOMAIN s.entries)
<1>1. s.entries \in TierEntries
  BY DEF TierState
<1>2. PICK S \in SUBSET Tensors : s.entries \in [S -> TierEntry]
  BY <1>1 DEF TierEntries
<1>3. DOMAIN s.entries = S
  BY <1>2
<1>4. IsFiniteSet(S)
  BY StoreAssumption, FS_Subset
<1> QED
  BY <1>2, <1>3, <1>4 DEF InTier

LEMMA TiersIntro ==
  ASSUME NEW S \in SUBSET Tensors, NEW r \in [S -> TierEntry]
  PROVE  r \in TierEntries /\ DOMAIN r = S
  BY DEF TierEntries

\* A tier that is not empty has an oldest entry.
LEMMA OldestIsIn ==
  ASSUME NEW s \in TierState, NEW tier \in {"HOT", "WARM"}, InTier(s, tier) # {}
  PROVE  Oldest(s, tier) \in InTier(s, tier)
<1> DEFINE D == InTier(s, tier)
           last == [t \in D |-> s.entries[t].last]
<1>1. D \subseteq DOMAIN s.entries /\ IsFiniteSet(DOMAIN s.entries) /\ \A t \in D : s.entries[t].last \in Nat
  BY TiersAre DEF TierEntry
<1>2. IsFiniteSet(D) /\ D # {} /\ last \in [D -> Nat]
  BY <1>1, FS_Subset
<1> DEFINE Good == {A \in SUBSET D : A # {} => \E u \in A : \A v \in A : last[u] <= last[v]}
<1> HIDE DEF D, last
<1>3. ASSUME NEW A \in SUBSET D, \A B \in SUBSET A : B # A => B \in Good
      PROVE  A \in Good
  <2> SUFFICES ASSUME A # {} PROVE \E u \in A : \A v \in A : last[u] <= last[v]
    OBVIOUS
  <2>1. PICK z \in A : TRUE
    OBVIOUS
  <2>2. \A v \in A : last[v] \in Nat
    BY <1>2
  <2>3. CASE A = {z}
    BY <2>2, <2>3
  <2>4. CASE A # {z}
    <3>1. A \ {z} \in SUBSET A /\ A \ {z} # A /\ A \ {z} # {}
      BY <2>1, <2>4
    <3>2. PICK x \in A \ {z} : \A v \in A \ {z} : last[x] <= last[v]
      BY <1>3, <3>1
    <3> QED
      BY <2>1, <2>2, <3>2
  <2> QED
    BY <2>3, <2>4
<1> HIDE DEF Good
<1>4. D \in Good
  BY <1>2, <1>3, FiniteInduction
<1>5. \E u \in D : \A v \in D : last[u] <= last[v]
  BY <1>2, <1>4 DEF Good
<1>6. \A u \in D : last[u] = s.entries[u].last
  BY DEF last
<1>7. \E t \in InTier(s, tier) : \A v \in InTier(s, tier) : s.entries[t].last <= s.entries[v].last
  BY <1>5, <1>6 DEF D
<1> QED
  BY <1>7 DEF Oldest

\* Dropping the oldest warm entry.
DropOldest(st, required) ==
  IF st.warm + required <= WarmCapacity \/ InTier(st, "WARM") = {} THEN st
  ELSE LET v == Oldest(st, "WARM")
       IN  [st EXCEPT !.entries = [t \in DOMAIN st.entries \ {v} |-> st.entries[t]],
                      !.warm = @ - Bytes[v]]

\* What making warm room leaves of a state.
WarmRoom(s) ==
  {st \in Balanced : /\ DOMAIN st.entries \subseteq DOMAIN s.entries
                     /\ InTier(st, "HOT") = InTier(s, "HOT") /\ st.hot = s.hot}

LEMMA DropBalances ==
  ASSUME NEW s \in Balanced, NEW st \in WarmRoom(s), NEW required
  PROVE  DropOldest(st, required) \in WarmRoom(s)
<1>1. CASE st.warm + required <= WarmCapacity \/ InTier(st, "WARM") = {}
  BY <1>1 DEF DropOldest
<1>2. CASE ~ (st.warm + required <= WarmCapacity \/ InTier(st, "WARM") = {})
  <2> DEFINE v == Oldest(st, "WARM")
             r == [t \in DOMAIN st.entries \ {v} |-> st.entries[t]]
             x == [st EXCEPT !.entries = r, !.warm = @ - Bytes[v]]
             W == InTier(st, "WARM")
             H == InTier(st, "HOT")
  <2>1. DropOldest(st, required) = x
    BY <1>2 DEF DropOldest
  <2>2. st \in TierState /\ st \in Balanced
    BY DEF WarmRoom, Balanced
  <2>3. v \in W
    BY <1>2, <2>2, OldestIsIn
  <2>4. /\ DOMAIN st.entries \in SUBSET Tensors /\ W \subseteq DOMAIN st.entries
        /\ W \in SUBSET Tensors /\ H \in SUBSET Tensors
        /\ st.entries \in [DOMAIN st.entries -> TierEntry]
    BY <2>2, TiersAre
  <2> HIDE DEF v
  <2>5. r \in TierEntries /\ DOMAIN r = DOMAIN st.entries \ {v}
    <3> DEFINE S == DOMAIN st.entries \ {v}
    <3>1. S \in SUBSET Tensors /\ r \in [S -> TierEntry]
      BY <2>4
    <3> HIDE DEF S, r
    <3>2. r \in TierEntries /\ DOMAIN r = S
      BY <3>1, TiersIntro
    <3> QED
      BY <3>2 DEF S
  <2>6. \A t \in DOMAIN r : r[t] = st.entries[t]
    BY <2>5
  <2>7. Bytes[v] \in Nat /\ SizeOf(W \ {v}) = SizeOf(W) - Bytes[v] /\ SizeOf(W) \in Nat
    BY <2>3, <2>4, SizeWithout
  <2> HIDE DEF r
  <2>8. /\ x \in TierState /\ x.entries = r /\ x.warm = st.warm - Bytes[v] /\ x.hot = st.hot
    <3> DEFINE w == st.warm - Bytes[v]
    <3>1. w \in Int /\ r \in TierEntries /\ x = [st EXCEPT !.entries = r, !.warm = w]
      BY <2>2, <2>5, <2>7 DEF TierState
    <3> HIDE DEF w, x
    <3>2. x \in TierState /\ x.entries = r /\ x.warm = w /\ x.hot = st.hot
      BY <2>2, <3>1 DEF TierState
    <3> QED
      BY <3>2 DEF w
  <2> HIDE DEF x
  <2>9. InTier(x, "WARM") = W \ {v} /\ InTier(x, "HOT") = H
    <3>1. v \notin H
      BY <2>3 DEF InTier
    <3> QED
      BY <2>5, <2>6, <2>8, <3>1 DEF InTier
  <2>10. x \in Balanced
    <3>1. /\ SizeOf(H) <= st.hot /\ st.hot <= HotCapacity /\ st.warm <= WarmCapacity
          /\ st.hot + st.warm = SizeOf(H) + SizeOf(W) /\ st.hot \in Int /\ st.warm \in Int
      BY <2>2 DEF Balanced, TierState
    <3>2. SizeOf(H) \in Nat
      BY <2>4, SizeIsTotal
    <3>3. SizeOf(InTier(x, "HOT")) = SizeOf(H) /\ SizeOf(InTier(x, "WARM")) = SizeOf(W) - Bytes[v]
      BY <2>7, <2>9, Zenon
    <3> HIDE DEF H, W
    <3>4. /\ SizeOf(InTier(x, "HOT")) <= x.hot /\ x.hot <= HotCapacity /\ x.warm <= WarmCapacity
          /\ x.hot + x.warm = SizeOf(InTier(x, "HOT")) + SizeOf(InTier(x, "WARM"))
      BY <2>7, <2>8, <3>1, <3>2, <3>3, ReplayAssumption
    <3> QED
      BY <2>8, <3>4 DEF Balanced
  <2>11. DOMAIN x.entries \subseteq DOMAIN s.entries /\ InTier(x, "HOT") = InTier(s, "HOT") /\ x.hot = s.hot
    BY <2>5, <2>8, <2>9 DEF WarmRoom
  <2> QED
    BY <2>1, <2>10, <2>11 DEF WarmRoom
<1> QED
  BY <1>1, <1>2

EvictSteps(s, required) ==
  [k \in 1..Cardinality(Tensors) |-> [st \in WarmRoom(s) |-> DropOldest(st, required)]]

LEMMA EvictWarmBalances ==
  ASSUME NEW s \in Balanced, NEW required
  PROVE  EvictWarm(s, required) \in WarmRoom(s)
<1> DEFINE n == Cardinality(Tensors)
           V == WarmRoom(s)
           step == EvictSteps(s, required)
           at == Times(n)
           is(f) == f = [S \in SUBSET (DOMAIN at) |->
                           IF S = {} THEN s ELSE DropOldest(f[S \ {Max(S)}], required)]
           f == CHOOSE g : is(g)
<1>1. n \in Nat /\ DOMAIN at = 1..n
  BY StoreAssumption, FS_CardinalityType DEF Times
<1>2. s \in V
  BY DEF WarmRoom
<1>3. \A k \in 1..n, v \in V : step[k][v] = DropOldest(v, required) /\ DropOldest(v, required) \in V
  BY DropBalances DEF EvictSteps
<1>4. EvictWarm(s, required) = f[DOMAIN at]
  BY DEF EvictWarm, FoldLeft, MapThenFoldSet, DropOldest
<1> HIDE DEF n, V, step, at
<1>5. Steps(1..n, V, step)
  BY <1>3 DEF Steps
<1>6. PICK g : FoldsOn(g, 1..n, V, s, Latest(n), step)
  BY <1>1, <1>2, <1>5, FoldFinds
<1>7. \A S \in SUBSET (1..n) : S # {} => Max(S) \in 1..n /\ Latest(n)[S] = Max(S) /\ S \ {Max(S)} \in SUBSET (1..n)
  BY <1>1, LatestPicks DEF Picks, Latest
<1>8. is(g)
  <2>1. g = [S \in SUBSET (1..n) |-> g[S]] /\ g[{}] = s
    BY <1>6 DEF FoldsOn, Folds, FoldStep
  <2>2. ASSUME NEW S \in SUBSET (1..n), S # {} PROVE g[S] = DropOldest(g[S \ {Max(S)}], required)
    <3>1. g[S] = step[Max(S)][g[S \ {Max(S)}]]
      BY <1>6, <1>7, <2>2 DEF FoldsOn, Folds, FoldStep
    <3>2. g[S \ {Max(S)}] \in V
      BY <1>6, <1>7, <2>2 DEF FoldsOn
    <3> QED
      BY <1>3, <1>7, <2>2, <3>1, <3>2
  <2> QED
    BY <1>1, <2>1, <2>2
<1>9. is(f)
  BY <1>8
<1> HIDE DEF f
<1>10. FoldsWithin(f, n, V, s, step)
  <2>1. f[{}] = s
    BY <1>9
  <2>2. ASSUME NEW S \in SUBSET (1..n), S # {} PROVE f[S] = DropOldest(f[S \ {Max(S)}], required)
    BY <1>1, <1>9, <2>2
  <2> QED
    BY <1>3, <1>7, <2>1, <2>2 DEF FoldsWithin
<1>11. PICK r : Runs(r, n, V, s, step) /\ r[n] = f[1..n]
  BY <1>1, <1>2, <1>5, <1>10, FoldRuns
<1>12. r[n] \in V
  BY <1>1, <1>11 DEF Runs
<1> QED
  BY <1>1, <1>4, <1>11, <1>12 DEF V

\* An entry in place of another.
LEMMA EntryChanges ==
  ASSUME NEW s \in TierState, NEW t \in DOMAIN s.entries, NEW entry \in TierEntry,
         NEW r, r = [s.entries EXCEPT ![t] = entry]
  PROVE  /\ r \in TierEntries /\ DOMAIN r = DOMAIN s.entries
         /\ \A u \in DOMAIN r : r[u] = IF u = t THEN entry ELSE s.entries[u]
<1> DEFINE S == DOMAIN s.entries
<1>1. S \in SUBSET Tensors /\ s.entries \in [S -> TierEntry] /\ t \in S
  BY TiersAre
<1> HIDE DEF S
<1>2. r \in [S -> TierEntry] /\ DOMAIN r = S /\ \A u \in S : r[u] = IF u = t THEN entry ELSE s.entries[u]
  BY <1>1
<1>3. r \in TierEntries
  BY <1>1, <1>2, TiersIntro
<1> QED
  BY <1>2, <1>3 DEF S

LEMMA BalanceIs ==
  ASSUME NEW s \in Balanced
  PROVE  /\ s \in TierState /\ s.hot \in Int /\ s.warm \in Int
         /\ SizeOf(InTier(s, "HOT")) \in Nat /\ SizeOf(InTier(s, "WARM")) \in Nat
         /\ SizeOf(InTier(s, "HOT")) <= s.hot /\ s.hot <= HotCapacity /\ s.warm <= WarmCapacity
         /\ s.hot + s.warm = SizeOf(InTier(s, "HOT")) + SizeOf(InTier(s, "WARM"))
<1>1. s \in TierState
  BY DEF Balanced
<1>2. InTier(s, "HOT") \in SUBSET Tensors /\ InTier(s, "WARM") \in SUBSET Tensors
  BY <1>1, TiersAre
<1>3. SizeOf(InTier(s, "HOT")) \in Nat /\ SizeOf(InTier(s, "WARM")) \in Nat
  BY <1>2, SizeIsTotal
<1>4. s.hot \in Int /\ s.warm \in Int
  BY <1>1 DEF TierState
<1> QED
  BY <1>1, <1>3, <1>4 DEF Balanced

\* What changes tiers takes its bytes along.
LEMMA DemoteBalances ==
  ASSUME NEW s \in Balanced, NEW v \in InTier(s, "HOT")
  PROVE  Demote(s, v) \in Balanced
<1> DEFINE w == EvictWarm(s, Bytes[v])
<1>1. w \in WarmRoom(s)
  BY EvictWarmBalances
<1>2. Demote(s, v) = Moved(w, v)
  BY DEF Demote
<1> HIDE DEF w
<1>3. w \in Balanced /\ v \in InTier(w, "HOT")
  BY <1>1 DEF WarmRoom
<1>4. CASE ~ WarmFits(w, Bytes[v])
  BY <1>2, <1>3, <1>4 DEF Moved
<1>5. CASE WarmFits(w, Bytes[v])
  <2> DEFINE H == InTier(w, "HOT")
             W == InTier(w, "WARM")
             entry == [w.entries[v] EXCEPT !.tier = "WARM"]
             r == [w.entries EXCEPT ![v] = entry]
             x == Moved(w, v)
  <2>1. /\ w \in TierState /\ H \in SUBSET Tensors /\ W \in SUBSET Tensors
        /\ v \in DOMAIN w.entries /\ v \in H /\ v \notin W /\ v \in Tensors
        /\ w.entries[v] \in TierEntry
    <3>1. w \in TierState
      BY <1>3, BalanceIs
    <3>2. H \in SUBSET Tensors /\ W \in SUBSET Tensors /\ H \subseteq DOMAIN w.entries
          /\ \A t \in DOMAIN w.entries : w.entries[t] \in TierEntry
      BY <3>1, TiersAre
    <3>3. v \in H /\ v \notin W
      BY <1>3 DEF InTier
    <3> QED
      BY <3>1, <3>2, <3>3
  <2>2. entry \in TierEntry /\ entry.tier = "WARM"
    BY <2>1 DEF TierEntry
  <2>3. x = [w EXCEPT !.entries = r, !.hot = @ - Bytes[v], !.warm = @ + Bytes[v], !.demoted = @ + 1]
    BY <1>5 DEF Moved
  <2> HIDE DEF entry
  <2>4. /\ r \in TierEntries /\ DOMAIN r = DOMAIN w.entries
        /\ \A u \in DOMAIN r : r[u] = IF u = v THEN entry ELSE w.entries[u]
    BY <2>1, <2>2, EntryChanges
  <2>5. /\ SizeOf(H \ {v}) = SizeOf(H) - Bytes[v] /\ SizeOf(W \cup {v}) = SizeOf(W) + Bytes[v]
        /\ Bytes[v] \in Nat
    BY <2>1, SizeWithout, SizeWith
  <2> HIDE DEF r, x
  <2>6. x \in TierState /\ x.entries = r /\ x.hot = w.hot - Bytes[v] /\ x.warm = w.warm + Bytes[v]
    <3> DEFINE h == w.hot - Bytes[v]
               k == w.warm + Bytes[v]
               d == w.demoted + 1
    <3>1. h \in Int /\ k \in Int /\ d \in Nat /\ r \in TierEntries
          /\ x = [w EXCEPT !.entries = r, !.hot = h, !.warm = k, !.demoted = d]
      BY <2>1, <2>3, <2>4, <2>5 DEF TierState
    <3> HIDE DEF h, k, d
    <3>2. x \in TierState /\ x.entries = r /\ x.hot = h /\ x.warm = k
      BY <2>1, <3>1 DEF TierState
    <3> QED
      BY <3>2 DEF h, k
  <2>7. InTier(x, "HOT") = H \ {v} /\ InTier(x, "WARM") = W \cup {v}
    BY <2>1, <2>2, <2>4, <2>6 DEF InTier
  <2>8. SizeOf(InTier(x, "HOT")) = SizeOf(H) - Bytes[v] /\ SizeOf(InTier(x, "WARM")) = SizeOf(W) + Bytes[v]
    BY <2>5, <2>7, Zenon
  <2>9. /\ SizeOf(H) <= w.hot /\ w.hot <= HotCapacity /\ w.warm <= WarmCapacity
        /\ w.hot + w.warm = SizeOf(H) + SizeOf(W) /\ w.hot \in Int /\ w.warm \in Int
        /\ SizeOf(H) \in Nat /\ SizeOf(W) \in Nat
    BY <1>3, BalanceIs
  <2>10. w.warm + Bytes[v] <= WarmCapacity
    BY <1>5 DEF WarmFits
  <2> HIDE DEF H, W
  <2>11. /\ SizeOf(InTier(x, "HOT")) <= x.hot /\ x.hot <= HotCapacity /\ x.warm <= WarmCapacity
         /\ x.hot + x.warm = SizeOf(InTier(x, "HOT")) + SizeOf(InTier(x, "WARM"))
    BY <2>5, <2>6, <2>8, <2>9, <2>10, ReplayAssumption
  <2>12. x \in Balanced
    BY <2>6, <2>11 DEF Balanced
  <2> QED
    BY <1>2, <2>12 DEF x
<1> QED
  BY <1>4, <1>5

\* Demoting the oldest hot entry.
DemoteOldest(st, required) ==
  IF st.hot + required <= HotCapacity \/ InTier(st, "HOT") = {} THEN st
  ELSE Demote(st, Oldest(st, "HOT"))

DemoteSteps(required) ==
  [k \in 1..Cardinality(Tensors) |-> [st \in Balanced |-> DemoteOldest(st, required)]]

LEMMA DemoteOldestBalances ==
  ASSUME NEW st \in Balanced, NEW required
  PROVE  DemoteOldest(st, required) \in Balanced
<1>1. InTier(st, "HOT") # {} => Oldest(st, "HOT") \in InTier(st, "HOT")
  BY OldestIsIn, BalanceIs
<1> QED
  BY <1>1, DemoteBalances DEF DemoteOldest

LEMMA HotRoomBalances ==
  ASSUME NEW s \in Balanced, NEW required
  PROVE  MakeHotRoom(s, required) \in Balanced
<1> DEFINE n == Cardinality(Tensors)
           step == DemoteSteps(required)
           at == Times(n)
           is(f) == f = [S \in SUBSET (DOMAIN at) |->
                           IF S = {} THEN s ELSE DemoteOldest(f[S \ {Max(S)}], required)]
           f == CHOOSE g : is(g)
<1>1. n \in Nat /\ DOMAIN at = 1..n
  BY StoreAssumption, FS_CardinalityType DEF Times
<1>2. \A k \in 1..n, v \in Balanced : step[k][v] = DemoteOldest(v, required) /\ DemoteOldest(v, required) \in Balanced
  BY DemoteOldestBalances DEF DemoteSteps
<1>3. MakeHotRoom(s, required) = f[DOMAIN at]
  BY DEF MakeHotRoom, FoldLeft, MapThenFoldSet, DemoteOldest
<1> HIDE DEF n, step, at
<1>4. Steps(1..n, Balanced, step)
  BY <1>2 DEF Steps
<1>5. PICK g : FoldsOn(g, 1..n, Balanced, s, Latest(n), step)
  BY <1>1, <1>4, FoldFinds
<1>6. \A S \in SUBSET (1..n) : S # {} => Max(S) \in 1..n /\ Latest(n)[S] = Max(S) /\ S \ {Max(S)} \in SUBSET (1..n)
  BY <1>1, LatestPicks DEF Picks, Latest
<1>7. is(g)
  <2>1. g = [S \in SUBSET (1..n) |-> g[S]] /\ g[{}] = s
    BY <1>5 DEF FoldsOn, Folds, FoldStep
  <2>2. ASSUME NEW S \in SUBSET (1..n), S # {} PROVE g[S] = DemoteOldest(g[S \ {Max(S)}], required)
    <3>1. g[S] = step[Max(S)][g[S \ {Max(S)}]]
      BY <1>5, <1>6, <2>2 DEF FoldsOn, Folds, FoldStep
    <3>2. g[S \ {Max(S)}] \in Balanced
      BY <1>5, <1>6, <2>2 DEF FoldsOn
    <3> QED
      BY <1>2, <1>6, <2>2, <3>1, <3>2
  <2> QED
    BY <1>1, <2>1, <2>2
<1>8. is(f)
  BY <1>7
<1> HIDE DEF f
<1>9. FoldsWithin(f, n, Balanced, s, step)
  <2>1. f[{}] = s
    BY <1>8
  <2>2. ASSUME NEW S \in SUBSET (1..n), S # {} PROVE f[S] = DemoteOldest(f[S \ {Max(S)}], required)
    BY <1>1, <1>8, <2>2
  <2> QED
    BY <1>2, <1>6, <2>1, <2>2 DEF FoldsWithin
<1>10. PICK r : Runs(r, n, Balanced, s, step) /\ r[n] = f[1..n]
  BY <1>1, <1>4, <1>9, FoldRuns
<1>11. r[n] \in Balanced
  BY <1>1, <1>10 DEF Runs
<1> QED
  BY <1>1, <1>3, <1>10, <1>11

\* An entry that is promoted after it was dropped leaves both tiers as they are,
\* and the counters with the same sum.
LEMMA PutHotBalances ==
  ASSUME NEW s \in Balanced, NEW t \in Tensors
  PROVE  PutHot(s, t) \in Balanced
<1> DEFINE H == InTier(s, "HOT")
           W == InTier(s, "WARM")
           x == PutHot(s, t)
           r == x.entries
<1>1. /\ s \in TierState /\ H \in SUBSET Tensors /\ W \in SUBSET Tensors /\ W \subseteq DOMAIN s.entries
      /\ \A u \in DOMAIN s.entries : s.entries[u] \in TierEntry
  BY BalanceIs, TiersAre
<1>2. /\ SizeOf(H) <= s.hot /\ s.hot <= HotCapacity /\ s.warm <= WarmCapacity
      /\ s.hot + s.warm = SizeOf(H) + SizeOf(W) /\ s.hot \in Int /\ s.warm \in Int
      /\ SizeOf(H) \in Nat /\ SizeOf(W) \in Nat
  BY BalanceIs
<1>3. Bytes[t] \in Nat /\ HotCapacity \in Nat /\ WarmCapacity \in Nat
  BY StoreAssumption, ReplayAssumption
<1>4. CASE s.hot + Bytes[t] > HotCapacity
  BY <1>4 DEF PutHot
<1>5. CASE ~ s.hot + Bytes[t] > HotCapacity
  <2> DEFINE q == IF t \in DOMAIN s.entries THEN [s.entries EXCEPT ![t].tier = "HOT"] ELSE s.entries
  <2>1. q \in TierEntries /\ DOMAIN q = DOMAIN s.entries
        /\ \A u \in DOMAIN q : q[u].tier = IF u = t THEN "HOT" ELSE s.entries[u].tier
    <3>1. CASE t \in DOMAIN s.entries
      <4> DEFINE entry == [s.entries[t] EXCEPT !.tier = "HOT"]
      <4>1. entry \in TierEntry /\ entry.tier = "HOT"
        BY <1>1, <3>1 DEF TierEntry
      <4>2. q = [s.entries EXCEPT ![t] = entry]
        BY <3>1
      <4> HIDE DEF entry, q
      <4>3. q \in TierEntries /\ DOMAIN q = DOMAIN s.entries
            /\ \A u \in DOMAIN q : q[u] = IF u = t THEN entry ELSE s.entries[u]
        BY <1>1, <3>1, <4>1, <4>2, EntryChanges
      <4> QED
        BY <4>1, <4>3
    <3>2. CASE t \notin DOMAIN s.entries
      BY <1>1, <3>2 DEF TierState
    <3> QED
      BY <3>1, <3>2
  <2>2. x = [s EXCEPT !.entries = q, !.warm = @ - Bytes[t], !.hot = @ + Bytes[t], !.promoted = @ + 1]
    BY <1>5 DEF PutHot
  <2> HIDE DEF q, x
  <2>3. x \in TierState /\ x.entries = q /\ x.hot = s.hot + Bytes[t] /\ x.warm = s.warm - Bytes[t]
    <3> DEFINE h == s.hot + Bytes[t]
               k == s.warm - Bytes[t]
               p == s.promoted + 1
    <3>1. h \in Int /\ k \in Int /\ p \in Nat
          /\ x = [s EXCEPT !.entries = q, !.warm = k, !.hot = h, !.promoted = p]
      BY <1>1, <1>2, <1>3, <2>2 DEF TierState
    <3> HIDE DEF h, k, p
    <3>2. x \in TierState /\ x.entries = q /\ x.hot = h /\ x.warm = k
      BY <1>1, <2>1, <3>1 DEF TierState
    <3> QED
      BY <3>2 DEF h, k
  <2>4. /\ SizeOf(InTier(x, "HOT")) <= SizeOf(H) + Bytes[t]
        /\ SizeOf(InTier(x, "HOT")) + SizeOf(InTier(x, "WARM")) = SizeOf(H) + SizeOf(W)
        /\ SizeOf(InTier(x, "HOT")) \in Nat /\ SizeOf(InTier(x, "WARM")) \in Nat
    <3>1. CASE t \in W
      <4>1. t \notin H /\ InTier(x, "HOT") = H \cup {t} /\ InTier(x, "WARM") = W \ {t}
        BY <1>1, <2>1, <2>3, <3>1 DEF InTier
      <4>2. SizeOf(H \cup {t}) = SizeOf(H) + Bytes[t] /\ SizeOf(W \ {t}) = SizeOf(W) - Bytes[t]
        BY <1>1, <3>1, <4>1, SizeWith, SizeWithout
      <4>3. SizeOf(InTier(x, "HOT")) = SizeOf(H) + Bytes[t] /\ SizeOf(InTier(x, "WARM")) = SizeOf(W) - Bytes[t]
        BY <4>1, <4>2, Zenon
      <4>4. SizeOf(W \ {t}) \in Nat
        BY <1>1, SizeIsTotal
      <4>5. SizeOf(W) - Bytes[t] \in Nat
        BY <4>2, <4>4
      <4> HIDE DEF H, W
      <4> QED
        BY <1>2, <1>3, <4>3, <4>5
    <3>2. CASE t \notin W
      <4>1. InTier(x, "HOT") = H /\ InTier(x, "WARM") = W
        BY <1>1, <2>1, <2>3, <3>2 DEF InTier, TierEntry
      <4>2. SizeOf(InTier(x, "HOT")) = SizeOf(H) /\ SizeOf(InTier(x, "WARM")) = SizeOf(W)
        BY <4>1, Zenon
      <4> HIDE DEF H, W
      <4> QED
        BY <1>2, <1>3, <4>2
    <3> QED
      BY <3>1, <3>2
  <2> HIDE DEF H, W
  <2>5. /\ SizeOf(InTier(x, "HOT")) <= x.hot /\ x.hot <= HotCapacity /\ x.warm <= WarmCapacity
        /\ x.hot + x.warm = SizeOf(InTier(x, "HOT")) + SizeOf(InTier(x, "WARM"))
    BY <1>2, <1>3, <1>5, <2>3, <2>4
  <2>6. x \in Balanced
    BY <2>3, <2>5 DEF Balanced
  <2> QED
    BY <2>6 DEF x
<1> QED
  BY <1>4, <1>5

LEMMA PutWarmBalances ==
  ASSUME NEW s \in Balanced, NEW t \in Tensors, t \notin DOMAIN s.entries, NEW i \in Nat
  PROVE  PutWarm(s, t, i) \in Balanced
<1> DEFINE H == InTier(s, "HOT")
           W == InTier(s, "WARM")
           x == PutWarm(s, t, i)
           entry == [tier |-> "WARM", count |-> 1, last |-> i]
           S == DOMAIN s.entries \cup {t}
           r == With(s.entries, t, entry)
<1>1. /\ s \in TierState /\ H \in SUBSET Tensors /\ W \in SUBSET Tensors
      /\ H \subseteq DOMAIN s.entries /\ W \subseteq DOMAIN s.entries /\ DOMAIN s.entries \in SUBSET Tensors
      /\ \A u \in DOMAIN s.entries : s.entries[u] \in TierEntry
  BY BalanceIs, TiersAre
<1>2. /\ SizeOf(H) <= s.hot /\ s.hot <= HotCapacity /\ s.warm <= WarmCapacity
      /\ s.hot + s.warm = SizeOf(H) + SizeOf(W) /\ s.hot \in Int /\ s.warm \in Int
      /\ SizeOf(H) \in Nat /\ SizeOf(W) \in Nat
  BY BalanceIs
<1>3. CASE ~ WarmFits(s, Bytes[t])
  BY <1>3 DEF PutWarm
<1>4. CASE WarmFits(s, Bytes[t])
  <2>1. entry \in TierEntry /\ entry.tier = "WARM"
    BY DEF TierEntry
  <2>2. x = [s EXCEPT !.warm = @ + Bytes[t], !.entries = r]
    BY <1>4 DEF PutWarm
  <2> HIDE DEF entry
  <2>3. r = [u \in S |-> IF u = t THEN entry ELSE s.entries[u]] /\ S \in SUBSET Tensors
    BY <1>1 DEF With
  <2>4. r \in [S -> TierEntry] /\ DOMAIN r = S /\ \A u \in S : r[u] = IF u = t THEN entry ELSE s.entries[u]
    BY <1>1, <2>1, <2>3
  <2> HIDE DEF r, x
  <2>5. r \in TierEntries
    <3> HIDE DEF S
    <3> QED
      BY <2>3, <2>4, TiersIntro
  <2>6. t \notin W /\ t \notin H
    BY <1>1
  <2>7. SizeOf(W \cup {t}) = SizeOf(W) + Bytes[t] /\ Bytes[t] \in Nat
    BY <1>1, <2>6, SizeWith
  <2>8. x \in TierState /\ x.entries = r /\ x.hot = s.hot /\ x.warm = s.warm + Bytes[t]
    <3> DEFINE k == s.warm + Bytes[t]
    <3>1. k \in Int /\ x = [s EXCEPT !.warm = k, !.entries = r]
      BY <1>1, <1>2, <2>2, <2>7 DEF TierState
    <3> HIDE DEF k
    <3>2. x \in TierState /\ x.entries = r /\ x.hot = s.hot /\ x.warm = k
      BY <1>1, <2>5, <3>1 DEF TierState
    <3> QED
      BY <3>2 DEF k
  <2>9. InTier(x, "HOT") = H /\ InTier(x, "WARM") = W \cup {t}
    BY <2>1, <2>4, <2>6, <2>8 DEF InTier
  <2>10. SizeOf(InTier(x, "HOT")) = SizeOf(H) /\ SizeOf(InTier(x, "WARM")) = SizeOf(W) + Bytes[t]
    BY <2>7, <2>9, Zenon
  <2>11. s.warm + Bytes[t] <= WarmCapacity
    BY <1>4 DEF WarmFits
  <2> HIDE DEF H, W
  <2>12. /\ SizeOf(InTier(x, "HOT")) <= x.hot /\ x.hot <= HotCapacity /\ x.warm <= WarmCapacity
         /\ x.hot + x.warm = SizeOf(InTier(x, "HOT")) + SizeOf(InTier(x, "WARM"))
    BY <1>2, <2>7, <2>8, <2>10, <2>11, ReplayAssumption
  <2>13. x \in Balanced
    BY <2>8, <2>12 DEF Balanced
  <2> QED
    BY <2>13 DEF x
<1> QED
  BY <1>3, <1>4

\* A state with the same entries and counters.
LEMMA SameBalance ==
  ASSUME NEW s \in Balanced, NEW x \in TierState, x.hot = s.hot, x.warm = s.warm,
         DOMAIN x.entries = DOMAIN s.entries, \A u \in DOMAIN s.entries : x.entries[u].tier = s.entries[u].tier
  PROVE  x \in Balanced
<1>1. InTier(x, "HOT") = InTier(s, "HOT") /\ InTier(x, "WARM") = InTier(s, "WARM")
  BY DEF InTier
<1>2. SizeOf(InTier(x, "HOT")) = SizeOf(InTier(s, "HOT")) /\ SizeOf(InTier(x, "WARM")) = SizeOf(InTier(s, "WARM"))
  BY <1>1, Zenon
<1> QED
  BY <1>2 DEF Balanced

LEMMA ServeTiersBalances ==
  ASSUME NEW s \in Balanced, NEW t \in Tensors, NEW i \in Nat
  PROVE  ServeTiers(s, t, i) \in Balanced
<1> DEFINE y == IF t \in DOMAIN s.entries THEN Reused(Touched(s, t, i), t) ELSE Admit(s, t, i)
<1>1. s \in TierState /\ \A u \in DOMAIN s.entries : s.entries[u] \in TierEntry
  BY BalanceIs, TiersAre
<1>2. ASSUME t \in DOMAIN s.entries PROVE y \in Balanced
  <2> DEFINE old == s.entries[t]
             entry == [old EXCEPT !.count = @ + 1, !.last = i]
             r == [s.entries EXCEPT ![t] = entry]
             x == Touched(s, t, i)
  <2>1. entry \in TierEntry /\ entry.tier = old.tier
    <3> HIDE DEF old
    <3> DEFINE c == old.count + 1
    <3>1. old \in TierEntry /\ c \in Nat /\ entry = [old EXCEPT !.count = c, !.last = i]
      BY <1>1, <1>2 DEF old, TierEntry
    <3> HIDE DEF c, entry
    <3> QED
      BY <3>1 DEF TierEntry
  <2>2. x = [s EXCEPT !.entries = r]
    <3>1. x = [s EXCEPT !.entries[t].count = @ + 1, !.entries[t].last = i]
      BY DEF Touched
    <3>2. r = [s.entries EXCEPT ![t].count = @ + 1, ![t].last = i]
      BY <1>1, <1>2, TiersAre
    <3> QED
      BY <1>1, <3>1, <3>2 DEF TierState
  <2> HIDE DEF entry
  <2>3. /\ r \in TierEntries /\ DOMAIN r = DOMAIN s.entries
        /\ \A u \in DOMAIN r : r[u] = IF u = t THEN entry ELSE s.entries[u]
    BY <1>1, <1>2, <2>1, EntryChanges
  <2> HIDE DEF r, x
  <2>4. x \in TierState /\ x.entries = r /\ x.hot = s.hot /\ x.warm = s.warm
    BY <1>1, <2>2, <2>3 DEF TierState
  <2>5. x \in Balanced
    BY <2>1, <2>3, <2>4, SameBalance
  <2>6. Promote(x, t) \in Balanced
    BY <2>5, HotRoomBalances, PutHotBalances DEF Promote
  <2>7. Reused(x, t) \in Balanced
    BY <2>5, <2>6 DEF Reused
  <2> QED
    BY <1>2, <2>7 DEF x
<1>3. ASSUME t \notin DOMAIN s.entries PROVE y \in Balanced
  <2> DEFINE x == [s EXCEPT !.misses = @ + 1]
             w == EvictWarm(x, Bytes[t])
  <2>1. x \in TierState /\ x.entries = s.entries /\ x.hot = s.hot /\ x.warm = s.warm
    BY <1>1 DEF TierState
  <2> HIDE DEF x
  <2>2. x \in Balanced
    BY <2>1, SameBalance
  <2>3. w \in WarmRoom(x)
    BY <2>2, EvictWarmBalances
  <2> HIDE DEF w
  <2>4. w \in Balanced /\ t \notin DOMAIN w.entries
    BY <1>3, <2>1, <2>3 DEF WarmRoom
  <2>5. PutWarm(w, t, i) \in Balanced
    BY <2>4, PutWarmBalances
  <2>6. Admit(s, t, i) = PutWarm(w, t, i)
    BY DEF Admit, w, x
  <2> QED
    BY <1>3, <2>5, <2>6
<1>4. y \in Balanced
  BY <1>2, <1>3
<1>5. ServeTiers(s, t, i) = Peaks(y)
  BY DEF ServeTiers
<1> HIDE DEF y
<1> DEFINE z == Peaks(y)
           hp == IF y.hotPeak < y.hot THEN y.hot ELSE y.hotPeak
           wp == IF y.warmPeak < y.warm THEN y.warm ELSE y.warmPeak
<1>6. y \in TierState /\ hp \in Int /\ wp \in Int /\ z = [y EXCEPT !.hotPeak = hp, !.warmPeak = wp]
  BY <1>4, BalanceIs DEF Peaks, TierState
<1> HIDE DEF z, hp, wp
<1>7. z \in TierState /\ z.entries = y.entries /\ z.hot = y.hot /\ z.warm = y.warm
  BY <1>6 DEF TierState
<1>8. z \in Balanced
  BY <1>4, <1>7, SameBalance
<1> QED
  BY <1>5, <1>8 DEF z

TierSteps(seq) == [k \in 1..Len(seq) |-> [st \in Balanced |-> ServeTiers(st, seq[k], k)]]

LEMMA TiersStart == Tiers \in Balanced
<1> DEFINE none == <<>>
           S == {}
<1>1. S \in SUBSET Tensors /\ none \in [S -> TierEntry]
  OBVIOUS
<1>2. Tiers.entries = none /\ Tiers.hot = 0 /\ Tiers.warm = 0
  BY DEF Tiers
<1> HIDE DEF none, S
<1>3. none \in TierEntries /\ DOMAIN none = S
  BY <1>1, TiersIntro
<1>4. Tiers \in TierState
  BY <1>3 DEF Tiers, TierState, none
<1>5. InTier(Tiers, "HOT") = {} /\ InTier(Tiers, "WARM") = {}
  BY <1>2, <1>3 DEF InTier, S
<1>6. SizeOf(InTier(Tiers, "HOT")) = 0 /\ SizeOf(InTier(Tiers, "WARM")) = 0
  BY <1>5, SizeOfNone
<1> QED
  BY <1>2, <1>4, <1>6, ReplayAssumption DEF Balanced

LEMMA TiersBalance ==
  ASSUME NEW seq \in Seq(Tensors)
  PROVE  RunTiered(seq) \in Balanced
<1> DEFINE n == Len(seq)
           step == TierSteps(seq)
           at == Times(n)
           is(f) == f = [S \in SUBSET (DOMAIN at) |->
                           IF S = {} THEN Tiers ELSE ServeTiers(f[S \ {Max(S)}], seq[at[Max(S)]], at[Max(S)])]
           f == CHOOSE g : is(g)
<1>1. n \in Nat /\ DOMAIN at = 1..n /\ \A k \in 1..n : at[k] = k /\ seq[k] \in Tensors /\ k \in Nat
  BY DEF Times
<1>2. \A k \in 1..n, v \in Balanced :
        step[k][v] = ServeTiers(v, seq[at[k]], at[k]) /\ ServeTiers(v, seq[at[k]], at[k]) \in Balanced
  BY <1>1, ServeTiersBalances DEF TierSteps
<1>3. RunTiered(seq) = f[DOMAIN at]
  BY DEF RunTiered, FoldLeft, MapThenFoldSet
<1> HIDE DEF n, step, at
<1>4. Steps(1..n, Balanced, step)
  BY <1>2 DEF Steps
<1>5. PICK g : FoldsOn(g, 1..n, Balanced, Tiers, Latest(n), step)
  BY <1>1, <1>4, FoldFinds, TiersStart
<1>6. \A S \in SUBSET (1..n) : S # {} => Max(S) \in 1..n /\ Latest(n)[S] = Max(S) /\ S \ {Max(S)} \in SUBSET (1..n)
  BY <1>1, LatestPicks DEF Picks, Latest
<1>7. is(g)
  <2>1. g = [S \in SUBSET (1..n) |-> g[S]] /\ g[{}] = Tiers
    BY <1>5 DEF FoldsOn, Folds, FoldStep
  <2>2. ASSUME NEW S \in SUBSET (1..n), S # {} PROVE g[S] = ServeTiers(g[S \ {Max(S)}], seq[at[Max(S)]], at[Max(S)])
    <3>1. g[S] = step[Max(S)][g[S \ {Max(S)}]]
      BY <1>5, <1>6, <2>2 DEF FoldsOn, Folds, FoldStep
    <3>2. g[S \ {Max(S)}] \in Balanced
      BY <1>5, <1>6, <2>2 DEF FoldsOn
    <3> QED
      BY <1>2, <1>6, <2>2, <3>1, <3>2
  <2> QED
    BY <1>1, <2>1, <2>2
<1>8. is(f)
  BY <1>7
<1> HIDE DEF f
<1>9. FoldsWithin(f, n, Balanced, Tiers, step)
  <2>1. f[{}] = Tiers
    BY <1>8
  <2>2. ASSUME NEW S \in SUBSET (1..n), S # {} PROVE f[S] = ServeTiers(f[S \ {Max(S)}], seq[at[Max(S)]], at[Max(S)])
    BY <1>1, <1>8, <2>2
  <2> QED
    BY <1>2, <1>6, <2>1, <2>2 DEF FoldsWithin
<1>10. PICK r : Runs(r, n, Balanced, Tiers, step) /\ r[n] = f[1..n]
  BY <1>1, <1>4, <1>9, FoldRuns, TiersStart
<1>11. r[n] \in Balanced
  BY <1>1, <1>10 DEF Runs
<1> QED
  BY <1>1, <1>3, <1>10, <1>11

\* Whatever is requested in whatever order, and even where making room drops the very
\* entry that is promoted, the counters of the two tiers stay within their capacities,
\* the hot one is no less than what that tier holds, and their sum is what both hold
\* (run_tiered of qualify_tiered_residency_poc18.py).
THEOREM TiersStayInBalance == ReplaySpec => []TiersAddUp
<1>1. ReplaySpec => []TraceTells
  BY TraceTellsTheStore
<1>2. TraceTells => TiersAddUp
  <2> SUFFICES ASSUME TraceTells, NEW tiers \in {TieredResults(Seen \o Seen \o Seen).tiered}
               PROVE  /\ SizeOf(InTier(tiers, "HOT")) <= tiers.hot /\ tiers.hot <= HotCapacity
                      /\ tiers.warm <= WarmCapacity
                      /\ tiers.hot + tiers.warm = SizeOf(InTier(tiers, "HOT")) + SizeOf(InTier(tiers, "WARM"))
    BY DEF TiersAddUp
  <2> DEFINE thrice == Seen \o Seen \o Seen
  <2>1. thrice \in Seq(Tensors)
    BY TraceTellsTypes
  <2>2. tiers = RunTiered(thrice)
    BY DEF TieredResults, Compared
  <2> HIDE DEF thrice
  <2> QED
    BY <2>1, <2>2, TiersBalance, BalanceIs
<1> QED
  BY <1>1, <1>2, PTL

\* Whatever the sizes and the length of the trace: without leases a tensor is read
\* again exactly when it and the distinct tensors requested since its last use
\* exceed the capacity, so that the causes the report names are the causes
\* (reuse_report and simulate of qualify_residency_policy_poc17.py).
THEOREM ReuseDistanceDecides == ReplaySpec => []DistanceDecides
<1>1. ReplaySpec => []TraceTells
  BY TraceTellsTheStore
<1>2. TraceTells => DistanceDecides
  <2> DEFINE none == NoneActive(trace_)
             lru == LruReplay(Seen, none)
  <2> SUFFICES ASSUME TraceTells, Fits, Held = {}, NEW row \in ReuseRows(Seen, lru.loaded)
               PROVE  row.reload <=> Bytes[Seen[row.to]] + SizeOf(row.between) > MaxBytes
    BY DEF DistanceDecides, LruReplay
  <2> DEFINE n == Len(Seen)
  <2>1. Seen \in Seq(Tensors) /\ n \in Nat /\ DOMAIN Seen = 1..n /\ \A k \in 1..n : Seen[k] \in Tensors
    BY TraceTellsTypes
  <2>2. \A k \in 1..n : none[k] = {} /\ Bytes[Seen[k]] <= MaxBytes
    BY <2>1 DEF NoneActive, Seen, Fits, Range
  <2> HIDE DEF none
  <2>3. Stacked(lru, Seen, n)
    BY <2>1, <2>2, LruStacks
  <2> HIDE DEF lru
  <2>4. PICK p \in Reuses(Seen) :
          row = [from |-> p[1], to |-> p[2], between |-> {Seen[k] : k \in (p[1] + 1)..(p[2] - 1)},
                 reload |-> p[2] \in lru.loaded]
    BY DEF ReuseRows
  <2> DEFINE i == p[1]
             j == p[2]
             t == Seen[j]
             between == {Seen[k] : k \in (i + 1)..(j - 1)}
  <2>5. i \in 1..n /\ j \in 1..n /\ i < j /\ Seen[i] = t /\ \A k \in (i + 1)..(j - 1) : Seen[k] # Seen[i]
    BY <2>1, <2>4 DEF Reuses
  <2>6. row.to = j /\ row.between = between /\ (row.reload <=> j \in lru.loaded)
    BY <2>4
  <2> HIDE DEF i, j
  <2>7. j \in lru.loaded <=> SizeOf(Between(Seen, i, j - 1)) > MaxBytes
    BY <2>3, <2>5 DEF Stacked, IsLastUse
  <2>8. between \in SUBSET Tensors /\ t \notin between /\ t \in Tensors
    BY <2>1, <2>5
  <2>9. Between(Seen, i, j - 1) = between \cup {t}
    <3>1. i..(j - 1) = {i} \cup ((i + 1)..(j - 1))
      BY <2>1, <2>5
    <3> QED
      BY <2>5, <3>1 DEF Between
  <2> HIDE DEF between, t
  <2>10. SizeOf(between \cup {t}) = SizeOf(between) + Bytes[t] /\ SizeOf(between) \in Nat /\ Bytes[t] \in Nat
    BY <2>8, SizeWith
  <2>11. SizeOf(Between(Seen, i, j - 1)) = Bytes[t] + SizeOf(between)
    <3>1. SizeOf(Between(Seen, i, j - 1)) = SizeOf(between \cup {t})
      BY <2>9, Zenon
    <3> QED
      BY <2>10, <3>1
  <2> QED
    BY <2>6, <2>7, <2>11 DEF t
<1> QED
  BY <1>1, <1>2, PTL
=============================================================================
