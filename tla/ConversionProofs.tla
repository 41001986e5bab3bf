--------------------------- MODULE ConversionProofs ---------------------------
(* For any sources, any number of converters, manifests, kills, failed writes   *)
(* and replacements of the source: a whole target is what its plan says, its    *)
(* plan is of one file where no replacement came between two reads, and an      *)
(* unfinished target was put in place by another than its writer.  A placement  *)
(* gives every tensor a place of its own.                                       *)
EXTENDS Conversion, CountingLemmas

\* A manifest that no replacement disturbed is the one of the file it names.
Built(m) ==
  m \notin {NoFile, Torn} /\ m.calm =>
    m.source \in DOMAIN Files /\ m.ok /\ m = Manifests[m.source]

Planned(made, undisturbed) == made.source \in DOMAIN Files /\ Exact(made, undisturbed)

\* What a helper's file holds, whoever writes it and however far.
Faithful(f) ==
  f # NoFile =>
    /\ DOMAIN f = {"by", "writer", "placed", "whole", "bytes", "plan", "calm"}
    /\ Planned(f.plan, f.calm)
    /\ f.bytes = f.plan.source /\ Inside(f.plan.rows, f.bytes)

\* Nobody leaves a file unfinished but by being killed or by failing.
Settled(f) ==
  f # NoFile =>
    /\ f.by \in Converters /\ f.writer \in {f.by, Nobody}
    /\ ~ f.whole => f.writer # Nobody \/ killed + failed > 0

\* An unfinished file in place of the target was put there by another.
Misplaced(f) == f # NoFile /\ ~ f.whole => f.placed # f.by

\* The temporary target of a converter that is past its write is finished, if it
\* is the one it made.
Owned(p) ==
  tmp # NoFile /\ tmp.by = p =>
    /\ pc[p] = "writing" => tmp.writer = p
    /\ pc[p] \in {"written", "validated"} => tmp.whole

Places ==
  /\ source \in DOMAIN Files
  /\ pc = [p \in Converters |-> pc[p]] /\ loaded = [p \in Converters |-> loaded[p]]
  /\ seen = [p \in Converters |-> seen[p]] /\ plan = [p \in Converters |-> plan[p]]
  /\ calm = [p \in Converters |-> calm[p]]
  /\ killed \in Nat /\ failed \in Nat

BuilderHolds ==
  /\ builder.at \in {"digested", "sized"} =>
       builder.calm \in BOOLEAN /\ (builder.calm => builder.digest = source)
  /\ builder.at = "sized" => (builder.calm => builder.size = Files[source].size)
  /\ builder.at \in {"parsed", "writing"} => Built(builder.draft)

\* What a converter has read, up to the plan that it makes of it.
Reads(p) ==
  /\ pc[p] \in {"loaded", "parsed", "sized", "compared"} =>
       loaded[p] \notin {NoFile, Torn} /\ Built(loaded[p])
  /\ pc[p] \in {"parsed", "sized", "compared"} =>
       /\ seen[p] \in DOMAIN Files /\ Artifacts[seen[p]].ok
       /\ "manifest" \in calm[p] => loaded[p].calm
  /\ pc[p] \in {"parsed", "sized"} => ("plan" \in calm[p] => seen[p] = source)
  /\ pc[p] = "compared" =>
       loaded[p].source \in DOMAIN Files /\ ("plan" \in calm[p] => seen[p] = loaded[p].source)
  /\ pc[p] \in {"planned", "mapped"} => Planned(plan[p], calm[p])
  /\ pc[p] = "mapped" => seen[p] = plan[p].source /\ Inside(plan[p].rows, seen[p])

RunsHold == \A p \in Converters : Reads(p)
FilesHold == Faithful(tmp) /\ Faithful(target) /\ Settled(tmp) /\ Settled(target)
NoneMisplaced == Misplaced(target) /\ \A p \in Converters : Owned(p)

IInv == Places /\ Built(manifest) /\ BuilderHolds /\ RunsHold /\ FilesHold /\ NoneMisplaced

-----------------------------------------------------------------------------
(* The manifest and the plan.                                                  *)

\* A manifest whose three reads were of one file is the manifest of that file.
LEMMA ManifestIsBuilt ==
  ASSUME NEW k \in DOMAIN Files, NEW read, NEW m,
         m = BuildManifest(read, Artifacts[k], Files[k].meta), m.ok,
         read.calm \in BOOLEAN, read.calm => read.digest = k /\ read.size = Files[k].size
  PROVE  Built(m)
<1> DEFINE a == Artifacts[k]
           meta == Files[k].meta
           plans == TensorPlans(a, PlacementFor(meta))
           tokenizer == TokenizerConversionPlan(meta)
<1>1. m = Drafted(read, a, meta, plans, tokenizer) /\ m = Validated(m, a)
  BY DEF BuildManifest, Validated, Rejected
<1>2. m = [ok |-> TRUE, source |-> read.digest, size |-> read.size,
           placement |-> PlacementFor(meta), rows |-> plans.rows,
           metadata |-> MetadataPlan(meta), tokenizer |-> tokenizer,
           read |-> SourceRangeSummary(a.tensors), calm |-> read.calm]
  BY <1>1 DEF Drafted, Rejected
<1>3. m.calm = read.calm /\ m.source = read.digest
  BY <1>2
<1>4. ASSUME read.calm PROVE m = Manifests[k]
  <2>1. read.digest = ReadOf(k).digest /\ read.size = ReadOf(k).size /\ read.calm = ReadOf(k).calm
    BY <1>4 DEF ReadOf
  <2>2. Drafted(ReadOf(k), a, meta, plans, tokenizer) = Drafted(read, a, meta, plans, tokenizer)
    BY <2>1 DEF Drafted
  <2>3. BuildManifest(ReadOf(k), a, meta) = Validated(m, a)
    BY <1>1, <2>2 DEF BuildManifest
  <2> QED
    BY <1>1, <2>3 DEF Manifests
<1> QED
  BY <1>3, <1>4 DEF Built

\* The manifest of a file passes its checks against that file.
LEMMA ManifestsAreValid ==
  ASSUME NEW k \in DOMAIN Files, Manifests[k].ok
  PROVE  Artifacts[k].ok /\ ValidateManifest(Manifests[k], Artifacts[k])
<1> DEFINE a == Artifacts[k]
           meta == Files[k].meta
           d == Drafted(ReadOf(k), a, meta, TensorPlans(a, PlacementFor(meta)),
                        TokenizerConversionPlan(meta))
<1>1. Manifests[k] = Validated(d, a)
  BY DEF Manifests, BuildManifest
<1>2. Manifests[k] = d /\ d.ok /\ ValidateManifest(d, a)
  BY <1>1 DEF Validated, Rejected
<1>3. a.ok
  BY <1>2 DEF Drafted, Rejected
<1> QED
  BY <1>2, <1>3

\* Locating tensors and accounting for gaps adds fields, never tensors.
LEMMA AccountedKeepsTensors ==
  ASSUME NEW ts, NEW data, NEW align, Accounted(ts, data, align).ok
  PROVE  DOMAIN Accounted(ts, data, align).tensors = DOMAIN ts
BY DEF Accounted, Rejected

\* The tensors of an artifact are those of its file.
LEMMA ArtifactsAreFinite ==
  ASSUME NEW k \in DOMAIN Files, Artifacts[k].ok
  PROVE  /\ Len(Files[k].tensors) \in Nat
         /\ DOMAIN Artifacts[k].tensors = 1..Len(Files[k].tensors)
<1>1. DOMAIN Artifacts[k].tensors = DOMAIN Files[k].tensors
  <2>1. Artifacts[k] = ParseFrom(Files[k], AlignUp(Files[k].infoEnd, Files[k].align))
    BY DEF Artifacts, Parse
  <2> DEFINE data == AlignUp(Files[k].infoEnd, Files[k].align)
             ts == Located(Files[k].tensors, data)
  <2>2. Artifacts[k] = [ok |-> FALSE] \/ Artifacts[k] = Accounted(ts, data, Files[k].align)
    BY <2>1, Zenon DEF ParseFrom, Rejected
  <2>3. Artifacts[k] = Accounted(ts, data, Files[k].align)
    BY <2>2
  <2>4. DOMAIN ts = DOMAIN Files[k].tensors
    BY DEF Located
  <2> QED
    BY <2>3, <2>4, AccountedKeepsTensors
<1> QED
  BY <1>1, ConversionAssumption

\* Whatever the manifest is of: a row that is compared with the last tensor of
\* its name is that tensor.
LEMMA RowsAreFound ==
  ASSUME NEW n \in Nat, NEW a, NEW m, RowsMatch(a, m), DOMAIN a.tensors = 1..n
  PROVE  RowsHaveTensors(m.rows, a.tensors)
<1> DEFINE isLast(id, x) == /\ a.tensors[x].name.id = id
                            /\ \A y \in DOMAIN a.tensors : a.tensors[y].name.id = id => y <= x
           last(id) == CHOOSE x \in DOMAIN a.tensors : isLast(id, x)
<1>1. \A i \in DOMAIN m.rows :
        /\ m.rows[i].name \in {a.tensors[j].name.id : j \in DOMAIN a.tensors}
        /\ m.rows[i].start = a.tensors[last(m.rows[i].name)].start
        /\ m.rows[i].size = a.tensors[last(m.rows[i].name)].size
  BY Zenon DEF RowsMatch
<1>2. ASSUME NEW i \in DOMAIN m.rows
      PROVE  \E j \in DOMAIN a.tensors : SameTensor(m.rows[i], a.tensors[j])
  <2> DEFINE id == m.rows[i].name
             S == {j \in 1..n : a.tensors[j].name.id = id}
  <2>1. id \in {a.tensors[j].name.id : j \in 1..n}
    <3> HIDE DEF last
    <3> QED
      BY <1>1
  <2>2. S # {}
    <3>1. PICK j \in 1..n : id = a.tensors[j].name.id
      <4> HIDE DEF last, id
      <4> QED
        BY <2>1
    <3> QED
      BY <3>1
  <2>3. S \in SUBSET Int /\ IsFiniteSet(S)
    <3>1. IsFiniteSet(1..n)
      BY FS_Interval
    <3>2. S \subseteq 1..n
      OBVIOUS
    <3>3. IsFiniteSet(S)
      <4> HIDE DEF S
      <4> QED
        BY <3>1, <3>2, FS_Subset
    <3> QED
      BY <3>2, <3>3
  <2>4. Max(S) \in S /\ \A y \in S : y <= Max(S)
    <3> HIDE DEF S
    <3> QED
      BY <2>2, <2>3, MaxIsGreatest
  <2>5. \E x \in DOMAIN a.tensors : isLast(id, x)
    <3>1. Max(S) \in 1..n /\ a.tensors[Max(S)].name.id = id
      BY <2>4
    <3>2. \A y \in 1..n : a.tensors[y].name.id = id => y <= Max(S)
      BY <2>4
    <3> QED
      BY <3>1, <3>2
  <2> HIDE DEF isLast
  <2>6. last(id) \in DOMAIN a.tensors /\ isLast(id, last(id))
    BY <2>5
  <2>7. a.tensors[last(id)].name.id = id
    BY <2>6 DEF isLast
  <2> HIDE DEF last
  <2> QED
    BY <1>1, <2>6, <2>7 DEF SameTensor
<1> QED
  BY <1>2 DEF RowsHaveTensors

\* As many rows as tensors, never the same name twice, each row compared with
\* the last tensor of its name: that tensor is the only one of the name, and no
\* tensor is without a row.
LEMMA RowsAreExact ==
  ASSUME NEW n \in Nat, NEW a, NEW m, RowsMatch(a, m),
         DOMAIN a.tensors = 1..n, DOMAIN m.rows = 1..n,
         \A i, j \in 1..n : m.rows[i].name = m.rows[j].name => i = j
  PROVE  TensorsHaveRows(m.rows, a.tensors)
<1> DEFINE row == [i \in 1..n |-> m.rows[i].name]
           name == [i \in 1..n |-> a.tensors[i].name.id]
           isLast(id, x) == /\ a.tensors[x].name.id = id
                            /\ \A y \in DOMAIN a.tensors : a.tensors[y].name.id = id => y <= x
           last(id) == CHOOSE x \in DOMAIN a.tensors : isLast(id, x)
<1>1. \A i \in DOMAIN m.rows :
                      /\ m.rows[i].name \in {a.tensors[j].name.id : j \in DOMAIN a.tensors}
                      /\ m.rows[i].start = a.tensors[last(m.rows[i].name)].start
                      /\ m.rows[i].size = a.tensors[last(m.rows[i].name)].size
  BY Zenon DEF RowsMatch
<1>2. /\ \A i \in 1..n : row[i] = m.rows[i].name
      /\ \A j \in 1..n : name[j] = a.tensors[j].name.id
  OBVIOUS
<1>3. \A i \in 1..n : \E j \in 1..n : row[i] = name[j]
  <2> TAKE i \in 1..n
  <2>1. m.rows[i].name \in {a.tensors[j].name.id : j \in 1..n}
    <3> HIDE DEF last, row, name
    <3> QED
      BY <1>1
  <2>2. PICK j \in 1..n : m.rows[i].name = a.tensors[j].name.id
    <3> HIDE DEF last, row, name
    <3> QED
      BY <2>1
  <2> HIDE DEF last, row, name
  <2> QED
    BY <1>2, <2>2
<1>4. \A i, j \in 1..n : row[i] = row[j] => i = j
  OBVIOUS
<1> HIDE DEF row, name
<1>5. Distinct(n, row, name)
  BY <1>3, <1>4 DEF Distinct
<1>6. /\ \A i, j \in 1..n : name[i] = name[j] => i = j
      /\ \A j \in 1..n : \E i \in 1..n : row[i] = name[j]
  <2>1. Matched(n, row, name)
    BY <1>5, NamesAreUnique
  <2> QED
    BY <2>1 DEF Matched
<1>7. ASSUME NEW i \in 1..n, NEW j \in 1..n, row[i] = name[j]
      PROVE  SameTensor(m.rows[i], a.tensors[j])
  <2> DEFINE id == m.rows[i].name
  <2>1. a.tensors[j].name.id = id
    BY <1>2, <1>7
  <2>2. \A y \in 1..n : a.tensors[y].name.id = id => y = j
    BY <1>2, <1>6, <2>1
  <2>3. isLast(id, j) /\ \A x \in DOMAIN a.tensors : isLast(id, x) => x = j
    BY <2>1, <2>2
  <2> HIDE DEF isLast
  <2>4. last(id) = j
    BY <2>3
  <2> HIDE DEF last
  <2> QED
    BY <1>1, <2>1, <2>4 DEF SameTensor
<1> QED
  BY <1>3, <1>6, <1>7 DEF TensorsHaveRows

\* A plan is of one file: with its tokens and its tensors if the file that was
\* parsed is the one with the digest, with the rows and the tokenizer of its
\* manifest if that is of one file too.
LEMMA PlanIsExact ==
  ASSUME NEW m, m \notin {NoFile, Torn}, Built(m), m.source \in DOMAIN Files,
         NEW k \in DOMAIN Files, Artifacts[k].ok, NEW c,
         "plan" \in c => k = m.source, "manifest" \in c => m.calm,
         NEW size, NEW made, made = BuildPlan(m, Artifacts[k], Files[k].meta, size), made.ok
  PROVE  Planned(made, c)
<1>1. /\ RowsMatch(Artifacts[k], m) /\ made.source = m.source /\ made.rows = m.rows
      /\ made.tokens = Files[k].meta.tokens /\ made.tokenizer = m.tokenizer
  BY DEF BuildPlan, Rejected
<1>2. PICK n \in Nat : DOMAIN Artifacts[k].tensors = 1..n
  BY ArtifactsAreFinite
<1>3. RowsHaveTensors(m.rows, Artifacts[k].tensors)
  BY <1>1, <1>2, RowsAreFound
<1>4. ASSUME "plan" \in c, "manifest" \in c
      PROVE  /\ TensorsHaveRows(m.rows, Artifacts[k].tensors)
             /\ m = Manifests[k]
  <2>1. k = m.source /\ m = Manifests[k] /\ Manifests[k].ok
    BY <1>4 DEF Built
  <2>2. ValidateManifest(m, Artifacts[k])
    BY <2>1, ManifestsAreValid
  <2>3. DOMAIN m.rows = 1..n /\ \A i, j \in 1..n : m.rows[i].name = m.rows[j].name => i = j
    BY <1>2, <2>2 DEF ValidateManifest
  <2>4. TensorsHaveRows(m.rows, Artifacts[k].tensors)
    BY <1>1, <1>2, <2>3, RowsAreExact
  <2> QED
    BY <2>1, <2>4
<1> QED
  BY <1>1, <1>3, <1>4 DEF Planned, Exact

-----------------------------------------------------------------------------
(* The files.                                                                  *)

\* Nothing a file is known for depends on who writes it or how far.
LEMMA WriterLeaves ==
  ASSUME NEW f, NEW p, Faithful(f)
  PROVE  Faithful(Abandoned(f, p)) /\ Faithful(Written(f, p))
BY DEF Faithful, Abandoned, Written

\* A file that is left alone, while nobody comes back to life.
LEMMA FilesKeep ==
  ASSUME IInv, killed' = killed \/ killed' = killed + 1, failed' = failed \/ failed' = failed + 1
  PROVE  /\ \A f : Faithful(f)' <=> Faithful(f)
         /\ \A f : Settled(f) => Settled(f)'
<1>1. killed \in Nat /\ failed \in Nat
  BY DEF IInv, Places
<1>2. killed + failed > 0 => killed' + failed' > 0
  BY <1>1
<1> QED
  BY <1>2 DEF Faithful, Settled, Planned, Exact, Inside

\* A helper that has written what it should has finished the file.
LEMMA WrittenSettles ==
  ASSUME NEW f, NEW p, Faithful(f), Settled(f)
  PROVE  /\ Settled(Written(f, p)) /\ (Misplaced(f) => Misplaced(Written(f, p)))
<1>1. CASE f # NoFile /\ f.writer = p
  BY <1>1 DEF Written, Faithful, Settled, Misplaced
<1>2. CASE ~ (f # NoFile /\ f.writer = p)
  BY <1>2 DEF Written, Settled, Misplaced
<1> QED
  BY <1>1, <1>2

\* One that ends before leaves it as it is, for its death or its failure.
LEMMA AbandonedSettles ==
  ASSUME NEW f, NEW p, Faithful(f), Settled(f), killed' + failed' > 0
  PROVE  /\ Settled(Abandoned(f, p))' /\ (Misplaced(f) => Misplaced(Abandoned(f, p)))
<1>1. CASE f # NoFile /\ f.writer = p
  BY <1>1 DEF Abandoned, Faithful, Settled, Misplaced
<1>2. CASE ~ (f # NoFile /\ f.writer = p)
  BY <1>2 DEF Abandoned, Settled, Misplaced
<1> QED
  BY <1>1, <1>2

-----------------------------------------------------------------------------
(* The steps.                                                                  *)

LEMMA InitHolds == Init => IInv
<1> SUFFICES ASSUME Init PROVE IInv
  OBVIOUS
<1>1. \A p \in Converters : Reads(p) /\ Owned(p)
  BY DEF Init, Reads, Owned
<1>2. Places
  BY DEF Init, Places
<1>3. BuilderHolds
  BY DEF Init, BuilderHolds, NoBuilder
<1> QED
  BY <1>1, <1>2, <1>3 DEF Init, IInv, Built, Faithful, Settled, Misplaced, RunsHold, FilesHold,
     NoneMisplaced

\* A converter's step leaves the reading of the others as it is.
LEMMA OthersRead ==
  ASSUME NEW p \in Converters, RunsHold, source' = source, Reads(p)',
         \A q \in Converters \ {p} :
           /\ pc'[q] = pc[q] /\ loaded'[q] = loaded[q] /\ seen'[q] = seen[q]
           /\ plan'[q] = plan[q] /\ calm'[q] = calm[q]
  PROVE  RunsHold'
<1>1. ASSUME NEW q \in Converters \ {p} PROVE Reads(q)'
  <2>1. Reads(q)
    BY DEF RunsHold
  <2>2. Reads(q) => Reads(q)'
    BY DEF Reads, Built, Planned, Exact, Inside
  <2> QED
    BY <2>1, <2>2
<1> QED
  BY <1>1 DEF RunsHold

\* The temporary target is nobody's business but its owner's.
LEMMA OthersOwn ==
  ASSUME NEW p \in Converters, IInv,
         \/ tmp' \in {tmp, NoFile}
         \/ tmp' \in {Written(tmp, p), Abandoned(tmp, p)},
         \A q \in Converters \ {p} : pc'[q] = pc[q]
  PROVE  \A q \in Converters \ {p} : Owned(q)'
<1> SUFFICES ASSUME NEW q \in Converters \ {p}, tmp' # NoFile, tmp'.by = q
             PROVE  /\ pc[q] = "writing" => tmp'.writer = q
                    /\ pc[q] \in {"written", "validated"} => tmp'.whole
  BY DEF Owned
<1>1. Owned(q) /\ Faithful(tmp)
  BY DEF IInv, NoneMisplaced, FilesHold
<1>2. CASE tmp' = tmp
  BY <1>1, <1>2 DEF Owned
<1>3. CASE tmp' = Written(tmp, p)
  BY <1>1, <1>3 DEF Owned, Written, Faithful
<1>4. CASE tmp' = Abandoned(tmp, p)
  BY <1>1, <1>4 DEF Owned, Abandoned, Faithful
<1> QED
  BY <1>2, <1>3, <1>4

\* What happens to the source and to the manifest.
LEMMA SourceKeeps ==
  ASSUME IInv, NEW k \in DOMAIN Files, ReplaceSource(k)
  PROVE  IInv'
<1>1. UNCHANGED <<manifest, pc, loaded, seen, plan, tmp, target, killed, failed>> /\ source' = k
  BY DEF ReplaceSource
<1>2. \A p \in Converters :
        calm'[p] = IF pc[p] \in {"parsed", "sized"} THEN calm[p] \ {"plan"} ELSE calm[p]
  BY DEF ReplaceSource
<1>3. Places'
  BY <1>1 DEF Places, IInv, ReplaceSource
<1>4. BuilderHolds'
  <2>1. CASE builder.at \in {"digested", "sized"}
    <3>1. builder' = [builder EXCEPT !.calm = FALSE]
      BY <2>1 DEF ReplaceSource
    <3>2. builder'.at = builder.at \/ builder' = builder
      BY <2>1, <3>1
    <3> QED
      BY <2>1, <3>1, <1>1 DEF BuilderHolds, IInv
  <2>2. CASE builder.at \notin {"digested", "sized"}
    <3>1. builder' = builder
      BY <2>2 DEF ReplaceSource
    <3> QED
      BY <2>2, <3>1 DEF BuilderHolds, IInv, Built
  <2> QED
    BY <2>1, <2>2
<1>5. ASSUME NEW p \in Converters PROVE Reads(p)'
  <2>1. Reads(p)
    BY DEF IInv, RunsHold
  <2>2. CASE pc[p] \in {"parsed", "sized"}
    <3>1. calm'[p] = calm[p] \ {"plan"} /\ pc'[p] = pc[p]
      BY <1>1, <1>2, <2>2
    <3>2. "plan" \notin calm'[p] /\ ("manifest" \in calm'[p] => "manifest" \in calm[p])
      BY <3>1
    <3> QED
      BY <1>1, <2>1, <2>2, <3>1, <3>2 DEF Reads, Built
  <2>3. CASE pc[p] \notin {"parsed", "sized"}
    <3>1. calm'[p] = calm[p] /\ pc'[p] = pc[p]
      BY <1>1, <1>2, <2>3
    <3> QED
      BY <1>1, <2>1, <2>3, <3>1 DEF Reads, Built, Planned, Exact, Inside
  <2> QED
    BY <2>2, <2>3
<1>6. FilesHold' /\ NoneMisplaced' /\ Built(manifest)'
  BY <1>1 DEF IInv, FilesHold, Faithful, Settled, NoneMisplaced, Misplaced, Owned, Built, Planned,
     Exact, Inside
<1> QED
  BY <1>3, <1>4, <1>5, <1>6 DEF IInv, RunsHold

\* The builder changes itself, the manifest and the count of kills.
LEMMA BuilderLeaves ==
  ASSUME IInv,
         UNCHANGED <<source, pc, loaded, seen, plan, tmp, target, calm, failed>>,
         killed' = killed \/ killed' = killed + 1,
         Built(manifest)', BuilderHolds'
  PROVE  IInv'
<1>1. Places'
  BY DEF IInv, Places
<1>2. RunsHold'
  BY DEF IInv, RunsHold, Reads, Built, Planned, Exact, Inside
<1>3. FilesHold'
  BY FilesKeep DEF IInv, FilesHold
<1>4. NoneMisplaced'
  BY DEF IInv, NoneMisplaced, Misplaced, Owned
<1> QED
  BY <1>1, <1>2, <1>3, <1>4 DEF IInv

LEMMA BuilderKeeps ==
  ASSUME IInv,
         \/ BuilderDigest \/ BuilderStat \/ BuilderParse \/ BuilderHash
         \/ StartManifest \/ FinishManifest \/ KillBuilder
  PROVE  IInv'
<1>1. BuilderHolds /\ source \in DOMAIN Files /\ Built(manifest)
  BY DEF IInv, Places
<1>2. Built(manifest)' /\ BuilderHolds'
  <2>1. CASE BuilderDigest
    BY <1>1, <2>1 DEF BuilderDigest, Builds, BuilderHolds, Built
  <2>2. CASE BuilderStat
    BY <1>1, <2>2 DEF BuilderStat, Builds, BuilderHolds, Built
  <2>3. CASE BuilderParse
    <3>1. PICK m : /\ m = BuildManifest(builder, Artifacts[source], Files[source].meta)
                   /\ builder' = IF m.ok THEN [at |-> "parsed", draft |-> m,
                                               left |-> HashedEnds(Artifacts[source])]
                                 ELSE NoBuilder
      BY <2>3, Zenon DEF BuilderParse, Builds
    <3>2. builder.at = "sized" /\ manifest' = manifest
      BY <2>3 DEF BuilderParse, Builds
    <3>3. m.ok => Built(m)
      <4>1. builder.calm \in BOOLEAN
            /\ (builder.calm => builder.digest = source /\ builder.size = Files[source].size)
        BY <1>1, <3>2 DEF BuilderHolds
      <4> QED
        BY <1>1, <3>1, <4>1, ManifestIsBuilt
    <3>4. CASE m.ok
      <4>1. builder'.at = "parsed" /\ builder'.draft = m
        BY <3>1, <3>4
      <4> QED
        BY <1>1, <3>2, <3>3, <3>4, <4>1 DEF BuilderHolds, Built
    <3>5. CASE ~ m.ok
      BY <1>1, <3>1, <3>2, <3>5 DEF BuilderHolds, Built, NoBuilder
    <3> QED
      BY <3>4, <3>5
  <2>4. CASE BuilderHash
    <3>1. \/ builder' = [builder EXCEPT !.left = Tail(@)]
          \/ builder' = NoBuilder
      BY <2>4 DEF BuilderHash, Builds
    <3>2. builder.at = "parsed" /\ manifest' = manifest
      BY <2>4 DEF BuilderHash, Builds
    <3>3. CASE builder' = [builder EXCEPT !.left = Tail(@)]
      <4>1. builder'.at = "parsed" /\ builder'.draft = builder.draft
        BY <1>1, <3>2, <3>3 DEF BuilderHolds
      <4> QED
        BY <1>1, <3>2, <4>1 DEF BuilderHolds, Built
    <3>4. CASE builder' = NoBuilder
      BY <1>1, <3>2, <3>4 DEF BuilderHolds, Built, NoBuilder
    <3> QED
      BY <3>1, <3>3, <3>4
  <2>5. CASE StartManifest
    BY <1>1, <2>5 DEF StartManifest, BuilderHolds, Built
  <2>6. CASE FinishManifest
    BY <1>1, <2>6 DEF FinishManifest, BuilderHolds, Built, NoBuilder
  <2>7. CASE KillBuilder
    BY <1>1, <2>7 DEF KillBuilder, BuilderHolds, Built, NoBuilder
  <2> QED
    BY <2>1, <2>2, <2>3, <2>4, <2>5, <2>6, <2>7
<1>3. /\ UNCHANGED <<source, pc, loaded, seen, plan, tmp, target, calm, failed>>
      /\ killed' = killed \/ killed' = killed + 1
  BY DEF BuilderDigest, BuilderStat, BuilderParse, BuilderHash, Builds, StartManifest,
     FinishManifest, KillBuilder
<1> QED
  BY <1>2, <1>3, BuilderLeaves

\* A converter reads.  Nothing else has changed, and it has no file yet.
LEMMA ReadingKeeps ==
  ASSUME NEW p \in Converters, IInv,
         \/ Load(p) \/ ParseSource(p) \/ CheckSize(p) \/ CheckDigest(p) \/ MakePlan(p)
         \/ PlanFails(p)
  PROVE  IInv'
<1>1. UNCHANGED outside
  BY DEF Load, ParseSource, CheckSize, CheckDigest, MakePlan, PlanFails
<1>2. /\ Places
      /\ \A q \in Converters \ {p} :
           /\ pc'[q] = pc[q] /\ loaded'[q] = loaded[q] /\ seen'[q] = seen[q]
           /\ plan'[q] = plan[q] /\ calm'[q] = calm[q]
  BY DEF IInv, Places, Load, ParseSource, CheckSize, CheckDigest, MakePlan, PlanFails
<1>3. Reads(p) /\ Built(manifest)
  BY DEF IInv, RunsHold
<1>4. /\ Reads(p)'
      /\ pc'[p] \notin {"writing", "written", "validated"}
  <2>1. CASE Load(p)
    BY <1>1, <1>2, <1>3, <2>1 DEF Load, Places, Reads, Built
  <2>2. CASE ParseSource(p)
    <3>1. /\ pc'[p] = "parsed" /\ seen'[p] = source /\ loaded'[p] = loaded[p]
          /\ calm'[p] = {"plan"} \cup (IF loaded[p].calm THEN {"manifest"} ELSE {})
          /\ pc[p] = "loaded" /\ Artifacts[source].ok
      BY <1>2, <2>2 DEF ParseSource, Places
    <3>2. "manifest" \in calm'[p] => loaded[p].calm
      BY <3>1
    <3> QED
      BY <1>1, <1>2, <1>3, <3>1, <3>2 DEF Places, Reads, Built, outside
  <2>3. CASE CheckSize(p)
    BY <1>1, <1>2, <1>3, <2>3 DEF CheckSize, Places, Reads, Built, outside
  <2>4. CASE CheckDigest(p)
    BY <1>1, <1>2, <1>3, <2>4 DEF CheckDigest, DigestHolds, Places, Reads, Built, outside
  <2>5. CASE MakePlan(p)
    <3>1. PICK made : made = Made(p) /\ made.ok /\ plan' = [plan EXCEPT ![p] = made]
      BY <2>5 DEF MakePlan
    <3>2. pc[p] = "compared" /\ pc'[p] = "planned" /\ calm'[p] = calm[p] /\ plan'[p] = made
      BY <1>2, <2>5, <3>1 DEF MakePlan, Places
    <3>3. Planned(made, calm[p])
      <4> DEFINE m == loaded[p]
                 k == seen[p]
                 c == calm[p]
                 size == Files[source].size
      <4>1. /\ m \notin {NoFile, Torn} /\ Built(m) /\ m.source \in DOMAIN Files
            /\ k \in DOMAIN Files /\ Artifacts[k].ok
            /\ ("plan" \in c => k = m.source) /\ ("manifest" \in c => m.calm)
        BY <1>3, <3>2 DEF Reads
      <4>2. made = BuildPlan(m, Artifacts[k], Files[k].meta, size) /\ made.ok
        BY <3>1 DEF Made
      <4> HIDE DEF m, k, c, size
      <4>3. Planned(made, c)
        BY <4>1, <4>2, PlanIsExact
      <4> QED
        BY <4>3 DEF c
    <3> QED
      BY <3>2, <3>3 DEF Reads, Planned, Exact
  <2>6. CASE PlanFails(p)
    BY <1>2, <2>6 DEF PlanFails, Places, Reads
  <2> QED
    BY <2>1, <2>2, <2>3, <2>4, <2>5, <2>6
<1>5. RunsHold'
  BY <1>1, <1>2, <1>4, OthersRead DEF IInv, outside
<1>6. \A q \in Converters : Owned(q)'
  BY <1>1, <1>2, <1>4, OthersOwn DEF Owned, outside
<1>7. Places'
  BY <1>1, <1>2 DEF IInv, Places, outside, Load, ParseSource, CheckSize, CheckDigest, MakePlan,
     PlanFails
<1>8. FilesHold' /\ Misplaced(target)' /\ Built(manifest)' /\ BuilderHolds'
  BY <1>1 DEF IInv, outside, FilesHold, Faithful, Settled, NoneMisplaced, Misplaced, Planned,
     Exact, Inside, Built, BuilderHolds
<1> QED
  BY <1>5, <1>6, <1>7, <1>8 DEF IInv, NoneMisplaced

\* What goes on when a helper goes to another label.
LEMMA GoesOn ==
  ASSUME NEW p \in Converters, IInv, NEW label, Goto(p, label),
         \/ UNCHANGED seen
         \/ \E k : seen' = [seen EXCEPT ![p] = k],
         failed' = failed \/ failed' = failed + 1
  PROVE  /\ Places' /\ Built(manifest)' /\ BuilderHolds'
         /\ killed' = killed /\ pc'[p] = label /\ plan'[p] = plan[p] /\ calm'[p] = calm[p]
         /\ \A q \in Converters \ {p} :
              /\ pc'[q] = pc[q] /\ loaded'[q] = loaded[q] /\ seen'[q] = seen[q]
              /\ plan'[q] = plan[q] /\ calm'[q] = calm[q]
         /\ (label \notin {"planned", "mapped", "loaded", "parsed", "sized", "compared"}
               => RunsHold')
<1>1. /\ Places' /\ killed' = killed /\ pc'[p] = label /\ plan'[p] = plan[p] /\ calm'[p] = calm[p]
      /\ \A q \in Converters \ {p} :
           /\ pc'[q] = pc[q] /\ loaded'[q] = loaded[q] /\ seen'[q] = seen[q]
           /\ plan'[q] = plan[q] /\ calm'[q] = calm[q]
  BY DEF IInv, Places, Goto
<1>2. Built(manifest)' /\ BuilderHolds'
  BY DEF IInv, Goto, Built, BuilderHolds
<1>3. label \notin {"planned", "mapped", "loaded", "parsed", "sized", "compared"} => RunsHold'
  <2> SUFFICES ASSUME label \notin {"planned", "mapped", "loaded", "parsed", "sized", "compared"}
               PROVE  RunsHold'
    OBVIOUS
  <2>1. Reads(p)'
    BY <1>1 DEF Reads
  <2> QED
    BY <1>1, <2>1, OthersRead DEF IInv, Goto
<1> QED
  BY <1>1, <1>2, <1>3

\* The helper's file is of the source that it has compared with its plan.
LEMMA MapKeeps ==
  ASSUME NEW p \in Converters, IInv, MapSource(p)
  PROVE  IInv'
<1>1. /\ Goto(p, "mapped") /\ seen' = [seen EXCEPT ![p] = source]
      /\ UNCHANGED <<tmp, target, failed>> /\ pc[p] = "planned" /\ SourceHolds(p)
  BY DEF MapSource
<1>2. /\ Places' /\ Built(manifest)' /\ BuilderHolds'
      /\ killed' = killed /\ pc'[p] = "mapped" /\ plan'[p] = plan[p] /\ calm'[p] = calm[p]
      /\ \A q \in Converters \ {p} :
           /\ pc'[q] = pc[q] /\ loaded'[q] = loaded[q] /\ seen'[q] = seen[q]
           /\ plan'[q] = plan[q] /\ calm'[q] = calm[q]
  <2> DEFINE label == "mapped"
  <2>1. Goto(p, label)
    BY <1>1
  <2> HIDE DEF label
  <2>2. pc'[p] = label
    BY <1>1, <2>1, GoesOn
  <2>3. pc'[p] = "mapped"
    BY <2>2 DEF label
  <2> QED
    BY <1>1, <2>1, <2>3, GoesOn
<1>3. Reads(p)'
  <2>1. Planned(plan[p], calm[p])
    BY <1>1 DEF IInv, RunsHold, Reads
  <2>2. seen'[p] = source
    BY <1>1 DEF IInv, Places
  <2>3. seen'[p] = plan[p].source /\ Inside(plan[p].rows, seen'[p])
    BY <1>1, <2>2 DEF SourceHolds
  <2>4. Planned(plan[p], calm[p])' /\ Inside(plan[p].rows, seen[p])'
    BY <1>2, <2>1, <2>3 DEF Planned, Exact, Inside
  <2> QED
    BY <1>2, <2>3, <2>4 DEF Reads
<1>4. RunsHold'
  BY <1>1, <1>2, <1>3, OthersRead DEF IInv, Goto
<1>5. \A q \in Converters : Owned(q)'
  BY <1>1, <1>2, OthersOwn DEF Owned
<1>6. FilesHold' /\ Misplaced(target)'
  BY <1>1, <1>2 DEF IInv, FilesHold, Faithful, Settled, NoneMisplaced, Misplaced, Planned, Exact,
     Inside
<1> QED
  BY <1>2, <1>4, <1>5, <1>6 DEF IInv, NoneMisplaced

\* The file is made of what was mapped, under the plan.
LEMMA CreateKeeps ==
  ASSUME NEW p \in Converters, IInv, Create(p)
  PROVE  IInv'
<1>1. /\ Goto(p, "writing") /\ UNCHANGED <<seen, target, failed>> /\ pc[p] = "mapped"
      /\ tmp = NoFile
      /\ tmp' = [by |-> p, writer |-> p, placed |-> Nobody, whole |-> FALSE,
                 bytes |-> seen[p], plan |-> plan[p], calm |-> calm[p]]
  BY DEF Create
<1>2. /\ Places' /\ Built(manifest)' /\ BuilderHolds' /\ RunsHold'
      /\ killed' = killed /\ \A q \in Converters \ {p} : pc'[q] = pc[q]
  BY <1>1, GoesOn
<1>3. Faithful(tmp')
  <2>1. Planned(plan[p], calm[p]) /\ seen[p] = plan[p].source /\ Inside(plan[p].rows, seen[p])
    BY <1>1 DEF IInv, RunsHold, Reads
  <2> QED
    BY <1>1, <2>1 DEF Faithful
<1>4. Faithful(tmp)' /\ Faithful(target)' /\ Settled(target)' /\ Misplaced(target)'
  BY <1>1, <1>2, <1>3, FilesKeep DEF IInv, FilesHold, Faithful, NoneMisplaced, Misplaced
<1>5. Settled(tmp)'
  <2>1. tmp'.by = p /\ tmp'.writer = p
    BY <1>1
  <2>2. p # Nobody
    BY ConversionAssumption
  <2> QED
    BY <2>1, <2>2 DEF Settled
<1>6. \A q \in Converters : Owned(q)'
  <2> SUFFICES ASSUME NEW q \in Converters, tmp'.by = q
               PROVE  /\ pc'[q] = "writing" => tmp'.writer = q
                      /\ pc'[q] \in {"written", "validated"} => tmp'.whole
    BY DEF Owned
  <2>1. q = p /\ tmp'.writer = p
    BY <1>1
  <2>2. pc'[p] = "writing"
    BY <1>1 DEF Goto, IInv, Places
  <2> QED
    BY <2>1, <2>2
<1> QED
  BY <1>2, <1>4, <1>5, <1>6 DEF IInv, FilesHold, NoneMisplaced

\* What is written is finished, wherever its file is by now.
LEMMA WriteKeeps ==
  ASSUME NEW p \in Converters, IInv, Write(p)
  PROVE  IInv'
<1>1. /\ Goto(p, "written") /\ UNCHANGED <<seen, failed>> /\ pc[p] = "writing"
      /\ tmp' = Written(tmp, p) /\ target' = Written(target, p)
  BY DEF Write
<1>2. /\ Places' /\ Built(manifest)' /\ BuilderHolds' /\ RunsHold'
      /\ killed' = killed /\ \A q \in Converters \ {p} : pc'[q] = pc[q]
  BY <1>1, GoesOn
<1>3. /\ Faithful(tmp) /\ Faithful(target) /\ Settled(tmp) /\ Settled(target)
      /\ Misplaced(target)
  BY DEF IInv, FilesHold, NoneMisplaced
<1>4. Faithful(tmp') /\ Faithful(target')
  BY <1>1, <1>3, WriterLeaves
<1>5. /\ Settled(Written(tmp, p)) /\ Settled(Written(target, p))
      /\ Misplaced(Written(target, p))
  BY <1>3, WrittenSettles
<1>6. Faithful(tmp)' /\ Faithful(target)' /\ Settled(tmp)' /\ Settled(target)'
      /\ Misplaced(target)'
  BY <1>1, <1>2, <1>4, <1>5 DEF Faithful, Settled, Misplaced, Planned, Exact, Inside
<1>7. Owned(p)'
  <2> SUFFICES ASSUME tmp' # NoFile, tmp'.by = p, pc'[p] \in {"written", "validated"}
               PROVE  tmp'.whole
    <3>1. pc'[p] = "written"
      BY <1>1 DEF Goto, IInv, Places
    <3> QED
      BY <3>1 DEF Owned
  <2>1. tmp # NoFile /\ tmp.by = p
    BY <1>1, <1>3 DEF Written, Faithful
  <2>2. tmp.writer = p
    BY <1>1, <2>1 DEF IInv, NoneMisplaced, Owned
  <2> QED
    BY <1>1, <1>3, <2>1, <2>2 DEF Written, Faithful
<1>8. \A q \in Converters : Owned(q)'
  BY <1>1, <1>2, <1>7, OthersOwn
<1> QED
  BY <1>2, <1>6, <1>8 DEF IInv, FilesHold, NoneMisplaced

\* What is left behind stays unfinished, for a failure or a death.
LEMMA AbandonKeeps ==
  ASSUME NEW p \in Converters, IInv, tmp' = Abandoned(tmp, p), target' = Abandoned(target, p),
         killed' + failed' > 0
  PROVE  /\ FilesHold' /\ Misplaced(target)'
<1>1. /\ Faithful(tmp) /\ Faithful(target) /\ Settled(tmp) /\ Settled(target)
      /\ Misplaced(target)
  BY DEF IInv, FilesHold, NoneMisplaced
<1>2. Faithful(tmp') /\ Faithful(target')
  BY <1>1, WriterLeaves
<1>3. \A f : Faithful(f) /\ Settled(f)
             => /\ Settled(Abandoned(f, p))' /\ (Misplaced(f) => Misplaced(Abandoned(f, p)))
  BY AbandonedSettles
<1>4. Settled(tmp)' /\ Settled(target)' /\ Misplaced(target)'
  BY <1>1, <1>3 DEF Abandoned, Settled, Misplaced
<1> QED
  BY <1>2, <1>4 DEF FilesHold, Faithful, Planned, Exact, Inside

LEMMA WriteFailsKeeps ==
  ASSUME NEW p \in Converters, IInv, WriteFails(p)
  PROVE  IInv'
<1>1. /\ Goto(p, "leaving") /\ UNCHANGED seen /\ failed' = failed + 1
      /\ tmp' = Abandoned(tmp, p) /\ target' = Abandoned(target, p)
  BY DEF WriteFails
<1>2. /\ Places' /\ Built(manifest)' /\ BuilderHolds' /\ RunsHold'
      /\ killed' = killed /\ \A q \in Converters \ {p} : pc'[q] = pc[q]
  BY <1>1, GoesOn
<1>3. pc'[p] = "leaving"
  BY <1>1 DEF Goto, IInv, Places
<1>4. FilesHold' /\ Misplaced(target)'
  BY <1>1, <1>2, AbandonKeeps DEF IInv, Places
<1>5. \A q \in Converters : Owned(q)'
  BY <1>1, <1>2, <1>3, OthersOwn DEF Owned
<1> QED
  BY <1>2, <1>4, <1>5 DEF IInv, NoneMisplaced

\* The steps of a helper and of its converter that write nothing.
LEMMA GoKeeps ==
  ASSUME NEW p \in Converters, IInv,
         OpenFails(p) \/ Validate(p) \/ ValidateFails(p) \/ ReplaceFails(p)
  PROVE  IInv'
<1>1. PICK label \in {"leaving", "validated"} :
        /\ Goto(p, label) /\ UNCHANGED <<seen, tmp, target, failed>>
        /\ label = "validated" => pc[p] = "written"
  BY DEF OpenFails, Validate, ValidateFails, ReplaceFails
<1>2. /\ Places' /\ Built(manifest)' /\ BuilderHolds' /\ RunsHold'
      /\ killed' = killed /\ pc'[p] = label /\ \A q \in Converters \ {p} : pc'[q] = pc[q]
  BY <1>1, GoesOn
<1>3. FilesHold' /\ Misplaced(target)'
  BY <1>1, <1>2 DEF IInv, FilesHold, Faithful, Settled, NoneMisplaced, Misplaced, Planned, Exact,
     Inside
<1>4. Owned(p)'
  BY <1>1, <1>2 DEF IInv, NoneMisplaced, Owned
<1>5. \A q \in Converters : Owned(q)'
  BY <1>1, <1>2, <1>4, OthersOwn
<1> QED
  BY <1>2, <1>3, <1>5 DEF IInv, NoneMisplaced

\* What a converter puts in place is finished, if it is its own.
LEMMA ReplaceKeeps ==
  ASSUME NEW p \in Converters, IInv, Replace(p)
  PROVE  IInv'
<1>1. /\ Goto(p, "leaving") /\ UNCHANGED <<seen, failed>> /\ pc[p] = "validated" /\ tmp # NoFile
      /\ target' = [tmp EXCEPT !.placed = p] /\ tmp' = NoFile
  BY DEF Replace
<1>2. /\ Places' /\ Built(manifest)' /\ BuilderHolds' /\ RunsHold'
      /\ killed' = killed /\ pc'[p] = "leaving" /\ \A q \in Converters \ {p} : pc'[q] = pc[q]
  BY <1>1, GoesOn DEF Goto, IInv, Places
<1>3. Faithful(tmp) /\ Settled(tmp) /\ Owned(p)
  BY DEF IInv, FilesHold, NoneMisplaced
<1>4. DOMAIN tmp = {"by", "writer", "placed", "whole", "bytes", "plan", "calm"}
  BY <1>1, <1>3 DEF Faithful
<1>5. /\ DOMAIN target' = DOMAIN tmp /\ target'.placed = p /\ target'.by = tmp.by
      /\ target'.writer = tmp.writer /\ target'.whole = tmp.whole /\ target'.bytes = tmp.bytes
      /\ target'.plan = tmp.plan /\ target'.calm = tmp.calm
  BY <1>1, <1>4
<1>6. Faithful(target') /\ Settled(target')
  BY <1>1, <1>3, <1>5 DEF Faithful, Settled
<1>7. Misplaced(target')
  BY <1>1, <1>3, <1>5 DEF Misplaced, Owned
<1>8. Faithful(target)' /\ Settled(target)' /\ Misplaced(target)'
  BY <1>1, <1>2, <1>6, <1>7 DEF Faithful, Settled, Misplaced, Planned, Exact, Inside
<1>9. Faithful(tmp)' /\ Settled(tmp)' /\ \A q \in Converters : Owned(q)'
  BY <1>1 DEF Faithful, Settled, Owned
<1> QED
  BY <1>2, <1>8, <1>9 DEF IInv, FilesHold, NoneMisplaced

\* The ends of a run, by itself or by a kill.
LEMMA EndKeeps ==
  ASSUME NEW p \in Converters, IInv, Leave(p) \/ Kill(p)
  PROVE  IInv'
<1>1. /\ Ends(p) /\ killed' \in {killed, killed + 1}
      /\ killed \in Nat /\ failed \in Nat /\ Places
  BY DEF Leave, Kill, IInv, Places
<1>2. /\ Places' /\ pc'[p] = "idle"
      /\ \A q \in Converters \ {p} :
           /\ pc'[q] = pc[q] /\ loaded'[q] = loaded[q] /\ seen'[q] = seen[q]
           /\ plan'[q] = plan[q] /\ calm'[q] = calm[q]
  <2>1. killed' \in Nat /\ failed' = failed /\ source' = source
    BY <1>1 DEF Ends
  <2>2. /\ pc' = [q \in Converters |-> IF q = p THEN "idle" ELSE pc[q]]
        /\ loaded' = [q \in Converters |-> IF q = p THEN NoFile ELSE loaded[q]]
        /\ seen' = [q \in Converters |-> IF q = p THEN Nobody ELSE seen[q]]
        /\ plan' = [q \in Converters |-> IF q = p THEN Rejected ELSE plan[q]]
        /\ calm' = [q \in Converters |-> IF q = p THEN {} ELSE calm[q]]
    BY <1>1, Zenon DEF Places, Ends
  <2> QED
    BY <1>1, <2>1, <2>2 DEF Places
<1>3. RunsHold'
  <2>1. Reads(p)'
    BY <1>2 DEF Reads
  <2> QED
    BY <1>1, <1>2, <2>1, OthersRead DEF IInv, Ends
<1>4. Built(manifest)' /\ BuilderHolds'
  BY <1>1 DEF IInv, Ends, Built, BuilderHolds
<1>5. CASE Leave(p)
  <2>1. tmp' = NoFile /\ target' = target /\ killed' = killed /\ failed' = failed
    BY <1>1, <1>5 DEF Leave, Ends
  <2>2. FilesHold' /\ Misplaced(target)'
    BY <2>1 DEF IInv, FilesHold, NoneMisplaced, Faithful, Settled, Misplaced, Planned, Exact,
       Inside
  <2>3. \A q \in Converters : Owned(q)'
    BY <2>1 DEF Owned
  <2> QED
    BY <1>2, <1>3, <1>4, <2>2, <2>3 DEF IInv, NoneMisplaced
<1>6. CASE Kill(p)
  <2>1. /\ tmp' = Abandoned(tmp, p) /\ target' = Abandoned(target, p)
        /\ killed' = killed + 1 /\ failed' = failed
    BY <1>1, <1>6 DEF Kill, Ends
  <2>2. FilesHold' /\ Misplaced(target)'
    BY <1>1, <2>1, AbandonKeeps
  <2>3. \A q \in Converters : Owned(q)'
    BY <1>2, <2>1, OthersOwn DEF Owned
  <2> QED
    BY <1>2, <1>3, <1>4, <2>2, <2>3 DEF IInv, NoneMisplaced
<1> QED
  BY <1>5, <1>6

LEMMA StutterKeeps == IInv /\ UNCHANGED vars => IInv'
<1> SUFFICES ASSUME IInv, UNCHANGED vars PROVE IInv'
  OBVIOUS
<1>1. Built(manifest)' /\ BuilderHolds'
  BY DEF IInv, vars, Built, BuilderHolds
<1> QED
  BY <1>1, BuilderLeaves DEF vars

LEMMA StepKeeps == IInv /\ [Next]_vars => IInv'
<1> SUFFICES ASSUME IInv, [Next]_vars PROVE IInv'
  OBVIOUS
<1>1. ASSUME NEW p \in Converters, Run(p) PROVE IInv'
  BY <1>1, ReadingKeeps, MapKeeps, CreateKeeps, WriteKeeps, WriteFailsKeeps, GoKeeps,
     ReplaceKeeps, EndKeeps DEF Run
<1> QED
  BY <1>1, SourceKeeps, BuilderKeeps, StutterKeeps DEF Next

\* The inductive invariant: what the processes have read and what the files hold,
\* and that an unfinished target was put in place by another than its writer.
THEOREM ConversionHolds == Spec => []IInv
BY InitHolds, StepKeeps, PTL DEF Spec

\* Whatever replaced the source and whoever else was converting, a whole target
\* has the payloads of the file with the digest of its manifest; it is that file's
\* model, tensor by tensor and token by token, where no replacement came between
\* a parse and the digest that goes with it.
THEOREM Faithfulness == Spec => []TargetIsFaithful
<1>1. IInv => TargetIsFaithful
  BY DEF IInv, FilesHold, Faithful, Planned, TargetIsFaithful
<1> QED
  BY <1>1, ConversionHolds, PTL

\* An unfinished target was put in place by another than its writer, and its
\* writer is at work still, or somebody was killed or could not write.
THEOREM Settling == Spec => []TargetSettles
<1>1. IInv => TargetSettles
  BY DEF IInv, FilesHold, NoneMisplaced, Settled, Misplaced, TargetSettles
<1> QED
  BY <1>1, ConversionHolds, PTL

-----------------------------------------------------------------------------
(* Placements.                                                                 *)

\* The cursor of a placement: dataStart, and after each tensor its end.
Moves(cursor, a, order) ==
  cursor = [i \in 0..Len(order) |->
              IF i = 0 THEN a.dataStart ELSE AlignUp(cursor[i - 1], a.align) + order[i].size]

Cursor(a, order) == CHOOSE cursor : Moves(cursor, a, order)

\* An artifact that the parser accepts, and its tensors, all of a known size, in
\* some order.
Placeable(a, order) ==
  /\ a.dataStart \in Nat /\ a.align \in Nat \ {0}
  /\ Len(order) \in Nat /\ DOMAIN order = 1..Len(order)
  /\ \A i \in DOMAIN order : order[i].size \in Nat
  /\ \A i \in DOMAIN order : order[i].ord \in DOMAIN order
  /\ \A i, j \in DOMAIN order : order[i].ord = order[j].ord => i = j

LEMMA AlignsUp ==
  ASSUME NEW v \in Nat, NEW n \in Nat \ {0}
  PROVE  /\ AlignUp(v, n) \in Nat /\ AlignUp(v, n) % n = 0
         /\ v <= AlignUp(v, n) /\ AlignUp(v, n) - v < n
<1>1. AlignUp(v, n) \in Nat /\ v <= AlignUp(v, n) /\ AlignUp(v, n) - v < n
  BY DEF AlignUp
<1>2. (v + n - 1) \div n \in Nat
  OBVIOUS
<1>3. \A q \in Nat : (q * n) % n = 0
  OBVIOUS
<1> QED
  BY <1>1, <1>2, <1>3 DEF AlignUp

LEMMA CursorMoves ==
  ASSUME NEW a, NEW order, Len(order) \in Nat
  PROVE  Moves(Cursor(a, order), a, order)
<1> DEFINE n == Len(order)
           next(v, i) == AlignUp(v, a.align) + order[i].size
           is(f, k) == f = [i \in 0..k |-> IF i = 0 THEN a.dataStart ELSE next(f[i - 1], i)]
           Good == {k \in 0..n : \E f : is(f, k)}
<1> HIDE DEF next
<1>1. 0 \in Good
  <2> DEFINE f == [i \in 0..0 |-> a.dataStart]
  <2>1. is(f, 0) /\ 0 \in 0..n
    OBVIOUS
  <2> HIDE DEF f
  <2> QED
    BY <2>1
<1>2. ASSUME NEW k \in 1..n, k - 1 \in Good PROVE k \in Good
  <2>1. PICK f : is(f, k - 1)
    BY <1>2
  <2> DEFINE g == [i \in 0..k |-> IF i = k THEN next(f[k - 1], k) ELSE f[i]]
  <2>2. \A i \in 0..k : g[i] = IF i = 0 THEN a.dataStart ELSE next(g[i - 1], i)
    <3> TAKE i \in 0..k
    <3>1. CASE i = 0
      BY <2>1, <3>1
    <3>2. CASE i = k
      BY <3>2
    <3>3. CASE i \in 1..(k - 1)
      BY <2>1, <3>3
    <3> QED
      BY <3>1, <3>2, <3>3
  <2>3. is(g, k) /\ k \in 0..n
    BY <2>2
  <2> HIDE DEF g
  <2> QED
    BY <2>3
<1> HIDE DEF Good
<1>3. 0..n \subseteq Good
  BY <1>1, <1>2, CountingUp
<1>4. \E f : is(f, n)
  BY <1>3 DEF Good
<1> QED
  BY <1>4 DEF Cursor, Moves, next

LEMMA CursorGrows ==
  ASSUME NEW a, NEW order, Placeable(a, order)
  PROVE  /\ \A i \in 0..Len(order) : Cursor(a, order)[i] \in Nat
         /\ \A i, j \in 0..Len(order) : i <= j => Cursor(a, order)[i] <= Cursor(a, order)[j]
<1> DEFINE n == Len(order)
           c == Cursor(a, order)
<1>0. n \in Nat /\ DOMAIN order = 1..n /\ \A i \in 1..n : order[i].size \in Nat
  BY DEF Placeable
<1>1. c[0] = a.dataStart /\ \A i \in 1..n : c[i] = AlignUp(c[i - 1], a.align) + order[i].size
  <2>1. Moves(c, a, order)
    BY <1>0, CursorMoves
  <2> HIDE DEF c
  <2> QED
    BY <1>0, <2>1 DEF Moves
<1> HIDE DEF c, n
<1>2. \A k \in 1..n : c[k - 1] \in Nat => c[k] \in Nat /\ c[k - 1] <= c[k]
  <2> SUFFICES ASSUME NEW k \in 1..n, c[k - 1] \in Nat PROVE c[k] \in Nat /\ c[k - 1] <= c[k]
    OBVIOUS
  <2>1. AlignUp(c[k - 1], a.align) \in Nat /\ c[k - 1] <= AlignUp(c[k - 1], a.align)
    BY AlignsUp DEF Placeable
  <2> DEFINE start == AlignUp(c[k - 1], a.align)
  <2>2. c[k] = start + order[k].size /\ order[k].size \in Nat
    BY <1>0, <1>1
  <2>3. start \in Nat /\ c[k - 1] <= start
    BY <2>1
  <2> HIDE DEF start
  <2> QED
    BY <2>2, <2>3
<1> DEFINE Sizes == {k \in 0..n : c[k] \in Nat}
           Later == {k \in 0..n : \A i \in 0..k : c[i] <= c[k]}
<1>3. 0..n \subseteq Sizes
  <2>1. 0 \in Sizes /\ \A k \in 1..n : k - 1 \in Sizes => k \in Sizes
    BY <1>0, <1>1, <1>2 DEF Placeable
  <2> HIDE DEF Sizes
  <2> QED
    BY <1>0, <2>1, CountingUp
<1>4. 0..n \subseteq Later
  <2>1. 0 \in Later
    BY <1>0, <1>3
  <2>2. ASSUME NEW k \in 1..n, k - 1 \in Later PROVE k \in Later
    <3>1. c[k - 1] <= c[k] /\ k - 1 \in 0..n
      BY <1>0, <1>2, <1>3
    <3>2. ASSUME NEW i \in 0..k PROVE c[i] <= c[k]
      <4>1. CASE i = k
        BY <1>0, <1>3, <4>1
      <4>2. CASE i # k
        <5>1. i \in 0..(k - 1) /\ i \in 0..n /\ k \in 0..n
          BY <1>0, <4>2
        <5>2. c[i] <= c[k - 1] /\ c[i] \in Nat /\ c[k - 1] \in Nat /\ c[k] \in Nat
          BY <1>3, <2>2, <3>1, <5>1
        <5> QED
          BY <3>1, <5>2
      <4> QED
        BY <4>1, <4>2
    <3> QED
      BY <1>0, <3>2
  <2> HIDE DEF Later
  <2> QED
    BY <1>0, <2>1, <2>2, CountingUp
<1> QED
  BY <1>3, <1>4 DEF n, c

\* A cursor that passes over v[k] and w[k] with each k up to n.
Advances(c, n, D, w, v) ==
  /\ D = 1..n /\ n \in Nat /\ c \in [0..n -> Int]
  /\ \A k \in D : c[k] = c[k - 1] + v[k] + w[k]

LEMMA TotalTakes ==
  ASSUME NEW D, IsFiniteSet(D), NEW w, w \in [D -> Int]
  PROVE  \A S \in SUBSET D, x \in D : x \in S => Total(w, S) = w[x] + Total(w, S \ {x})
BY TotalRemoves

\* What the cursor passes over are the payloads and the paddings.
LEMMA CursorAddsUp ==
  ASSUME NEW D, IsFiniteSet(D), NEW w, w \in [D -> Int], NEW v, v \in [D -> Int],
         NEW c, NEW n, Advances(c, n, D, w, v)
  PROVE  c[n] = c[0] + Total(w, D) + Total(v, D)
<1> DEFINE Good == {k \in 0..n : c[k] = c[0] + Total(w, 1..k) + Total(v, 1..k)}
<1>1. \A S \in SUBSET D, x \in D : x \in S => Total(w, S) = w[x] + Total(w, S \ {x})
  BY TotalTakes
<1>2. \A S \in SUBSET D, x \in D : x \in S => Total(v, S) = v[x] + Total(v, S \ {x})
  BY TotalTakes
<1>3. \A S \in SUBSET D : Total(w, S) \in Int /\ Total(v, S) \in Int
  BY TotalUnfolds
<1>4. Total(w, {}) = 0 /\ Total(v, {}) = 0
  BY TotalUnfolds
<1>5. /\ D = 1..n /\ n \in Nat /\ c \in [0..n -> Int]
      /\ \A k \in D : c[k] = c[k - 1] + v[k] + w[k]
  BY DEF Advances
<1>6. 0 \in Good
  <2>1. 1..0 = {}
    BY <1>5
  <2> QED
    BY <1>4, <1>5, <2>1
<1>7. ASSUME NEW k \in 1..n, k - 1 \in Good PROVE k \in Good
  <2>0. 1..k \in SUBSET D /\ k \in 1..k /\ 1..(k - 1) \in SUBSET D /\ k \in D
    BY <1>5
  <2>1. (1..k) \ {k} = 1..(k - 1)
    <3>1. k \in Int
      BY <1>5
    <3>2. \A i \in 1..k : i # k => i \in 1..(k - 1)
      BY <1>5
    <3>3. \A i \in 1..(k - 1) : i \in 1..k /\ i # k
      BY <3>1
    <3> QED
      BY <3>2, <3>3, Zenon
  <2>2. Total(w, 1..k) = w[k] + Total(w, 1..(k - 1)) /\ Total(v, 1..k) = v[k] + Total(v, 1..(k - 1))
    <3>1. /\ Total(w, 1..k) = w[k] + Total(w, (1..k) \ {k})
          /\ Total(v, 1..k) = v[k] + Total(v, (1..k) \ {k})
      BY <1>1, <1>2, <2>0, Zenon
    <3> QED
      BY <2>1, <3>1
  <2>3. Total(w, 1..(k - 1)) \in Int /\ Total(v, 1..(k - 1)) \in Int
    BY <1>3, <2>0
  <2>4. /\ c[k - 1] = c[0] + Total(w, 1..(k - 1)) + Total(v, 1..(k - 1))
        /\ c[0] \in Int /\ c[k - 1] \in Int /\ c[k] \in Int /\ w[k] \in Int /\ v[k] \in Int
        /\ c[k] = c[k - 1] + v[k] + w[k]
    BY <1>7, <1>5
  <2>5. c[k] = c[0] + Total(w, 1..k) + Total(v, 1..k)
    <3> DEFINE wk == Total(w, 1..(k - 1))
               vk == Total(v, 1..(k - 1))
               dw == w[k]
               dv == v[k]
               c0 == c[0]
    <3>1. Total(w, 1..k) = dw + wk /\ Total(v, 1..k) = dv + vk
      BY <2>2
    <3>2. c[k] = (c0 + wk + vk) + dv + dw
      BY <2>4
    <3>3. wk \in Int /\ vk \in Int /\ dw \in Int /\ dv \in Int /\ c0 \in Int
      BY <2>3, <2>4
    <3> HIDE DEF wk, vk, dw, dv, c0
    <3>4. (c0 + wk + vk) + dv + dw = c0 + (dw + wk) + (dv + vk)
      BY <3>3
    <3> QED
      BY <3>1, <3>2, <3>4 DEF c0
  <2> QED
    BY <2>5
<1> HIDE DEF Good
<1>8. 0..n \subseteq Good
  BY <1>6, <1>7, <1>5, CountingUp
<1> QED
  BY <1>8, <1>5 DEF Good

\* A layout of its own gives every tensor, in whatever order it takes them, an
\* aligned place behind the one before; payload and padding are all it occupies.
PlacedInOrder(a, order, p) ==
  /\ \A i \in DOMAIN order :
       p.start[order[i].ord] % a.align = 0 /\ a.dataStart <= p.start[order[i].ord]
  /\ \A i, j \in DOMAIN order :
       i < j => p.start[order[i].ord] + order[i].size <= p.start[order[j].ord]
  /\ order # <<>> => p.start[order[Len(order)].ord] + order[Len(order)].size =
                       a.dataStart + p.payload + p.padding

\* For every artifact and every order of its tensors: the planner's cursor never
\* returns, so that no two tensors share a byte (simulate).
THEOREM PlacesAreTheirOwn ==
  ASSUME NEW a, NEW order, Placeable(a, order), NEW layout, layout # "GGUF_SOURCE_ORDER"
  PROVE  /\ Placement(a, layout, order).ok
         /\ PlacedInOrder(a, order, Placement(a, layout, order))
<1> DEFINE n == Len(order)
           c == Cursor(a, order)
           w == [i \in DOMAIN order |-> order[i].size]
           v == [i \in DOMAIN order |-> AlignUp(c[i - 1], a.align) - c[i - 1]]
           p == Placement(a, layout, order)
<1>0. /\ n \in Nat /\ DOMAIN order = 1..n /\ \A i \in 1..n : order[i].size \in Nat
      /\ a.align \in Nat \ {0}
  BY DEF Placeable
<1>1. c[0] = a.dataStart /\ \A i \in 1..n : c[i] = AlignUp(c[i - 1], a.align) + order[i].size
  <2>1. Moves(c, a, order)
    BY <1>0, CursorMoves
  <2> HIDE DEF c
  <2> QED
    BY SMTT(60), <1>0, <2>1 DEF Moves
<1>2. /\ \A i \in 0..n : c[i] \in Nat
      /\ \A i, j \in 0..n : i <= j => c[i] <= c[j]
  BY CursorGrows
<1>3. p = [ok |-> TRUE, order |-> order,
           start |-> [o \in DOMAIN order |->
                        AlignUp(c[(CHOOSE i \in DOMAIN order : order[i].ord = o) - 1], a.align)],
           payload |-> Total(w, DOMAIN order), padding |-> Total(v, DOMAIN order)]
  <2>1. ~ \E i \in DOMAIN order : order[i].size = Unknown
    BY <1>0 DEF Unknown
  <2> DEFINE start(i) == IF layout = "GGUF_SOURCE_ORDER" THEN order[i].start
                         ELSE AlignUp(c[i - 1], a.align)
             pad == [i \in DOMAIN order |-> IF layout = "GGUF_SOURCE_ORDER" THEN order[i].gap
                                             ELSE start(i) - c[i - 1]]
  <2>2. p = [ok |-> TRUE, order |-> order,
             start |-> [o \in DOMAIN order |-> start(CHOOSE i \in DOMAIN order : order[i].ord = o)],
             payload |-> TotalOf(w), padding |-> TotalOf(pad)]
    BY <2>1 DEF Placement, Cursor, Moves
  <2>3. pad = v
    OBVIOUS
  <2>4. TotalOf(w) = Total(w, DOMAIN order) /\ TotalOf(v) = Total(v, DOMAIN order)
    BY DEF TotalOf, SumOver, Total, MapThenSumSet
  <2> HIDE DEF c, w, v, pad, p
  <2> QED
    BY <2>2, <2>3, <2>4
<1>4. \A i \in 1..n : p.start[order[i].ord] = AlignUp(c[i - 1], a.align)
  <2> TAKE i \in 1..n
  <2> DEFINE o == order[i].ord
             k == CHOOSE k \in DOMAIN order : order[k].ord = o
  <2>1. o \in DOMAIN order /\ k = i
    BY <1>0 DEF Placeable
  <2>2. p.start[o] = AlignUp(c[k - 1], a.align)
    <3> HIDE DEF c, w, v, p
    <3> QED
      BY <1>3, <2>1
  <2> QED
    BY <2>1, <2>2
<1> HIDE DEF c, p
<1>5. \A i \in 1..n :
        /\ p.start[order[i].ord] \in Nat /\ p.start[order[i].ord] % a.align = 0
        /\ c[i - 1] <= p.start[order[i].ord]
        /\ p.start[order[i].ord] + order[i].size = c[i]
  <2> TAKE i \in 1..n
  <2> DEFINE start == AlignUp(c[i - 1], a.align)
  <2>1. c[i - 1] \in Nat /\ order[i].size \in Nat /\ p.start[order[i].ord] = start
    BY <1>0, <1>2, <1>4
  <2>2. start \in Nat /\ start % a.align = 0 /\ c[i - 1] <= start
    BY <1>0, <2>1, AlignsUp
  <2>3. c[i] = start + order[i].size
    BY <1>1
  <2> HIDE DEF start
  <2> QED
    BY <2>1, <2>2, <2>3
<1>6. \A i, j \in 1..n : i < j => p.start[order[i].ord] + order[i].size <= p.start[order[j].ord]
  <2> SUFFICES ASSUME NEW i \in 1..n, NEW j \in 1..n, i < j
               PROVE  c[i] <= p.start[order[j].ord]
    BY <1>5
  <2>1. c[i] <= c[j - 1] /\ c[i] \in Nat /\ c[j - 1] \in Nat
    BY <1>0, <1>2
  <2> QED
    BY <1>5, <2>1
<1>7. \A i \in 1..n : a.dataStart <= p.start[order[i].ord]
  <2> TAKE i \in 1..n
  <2>1. c[0] <= c[i - 1] /\ c[0] \in Nat /\ c[i - 1] \in Nat
    BY <1>0, <1>2
  <2> QED
    BY <1>1, <1>5, <2>1
<1>8. order # <<>> => p.start[order[n].ord] + order[n].size = a.dataStart + p.payload + p.padding
  <2> SUFFICES ASSUME order # <<>>
               PROVE  p.start[order[n].ord] + order[n].size = a.dataStart + p.payload + p.padding
    OBVIOUS
  <2> DEFINE d == [i \in 0..n |-> c[i]]
  <2>1. d \in [0..n -> Int] /\ w \in [1..n -> Int] /\ v \in [1..n -> Int]
    <3>1. \A i \in 0..n : c[i] \in Nat
      BY <1>2
    <3>2. ASSUME NEW i \in 1..n
          PROVE  c[i - 1] \in Nat /\ AlignUp(c[i - 1], a.align) \in Nat /\ w[i] \in Nat
      <4>1. c[i - 1] \in Nat /\ w[i] \in Nat /\ a.align \in Nat \ {0}
        BY <1>0, <3>1
      <4> QED
        BY <4>1, AlignsUp
    <3>3. d \in [0..n -> Int] /\ w \in [1..n -> Int]
      BY <1>0, <3>1, <3>2
    <3>4. ASSUME NEW i \in 1..n PROVE v[i] \in Int
      <4> DEFINE x == AlignUp(c[i - 1], a.align)
                 y == c[i - 1]
      <4>1. x \in Nat /\ y \in Nat /\ v[i] = x - y
        BY <1>0, <3>2
      <4> HIDE DEF x, y, v
      <4> QED
        BY <4>1
    <3> QED
      BY <1>0, <3>3, <3>4
  <2>2. \A k \in 1..n : d[k] = d[k - 1] + v[k] + w[k]
    <3> TAKE k \in 1..n
    <3> DEFINE start == AlignUp(c[k - 1], a.align)
    <3>0. c[k - 1] \in Nat /\ order[k].size \in Nat /\ c[k] = start + order[k].size
      BY <1>0, <1>1, <1>2
    <3>1. start \in Nat
      BY <1>0, <3>0, AlignsUp
    <3>2. d[k] = c[k] /\ d[k - 1] = c[k - 1] /\ v[k] = start - c[k - 1] /\ w[k] = order[k].size
      BY <1>0
    <3> HIDE DEF start, d, w, v
    <3> QED
      BY <3>0, <3>1, <3>2
  <2> HIDE DEF d, w, v
  <2> DEFINE D == 1..n
  <2>3. d[n] = d[0] + Total(w, D) + Total(v, D)
    <3>1. IsFiniteSet(D)
      <4>1. 1 \in Int /\ n \in Int
        BY <1>0
      <4> HIDE DEF D
      <4> QED
        BY <4>1, FS_Interval DEF D
    <3>2. w \in [D -> Int] /\ v \in [D -> Int]
      BY <2>1
    <3>3. Advances(d, n, D, w, v)
      BY <1>0, <2>1, <2>2 DEF Advances
    <3> HIDE DEF D
    <3> QED
      BY <3>1, <3>2, <3>3, CursorAddsUp
  <2>4. n \in 1..n
    BY <1>0
  <2>5. p.payload = Total(w, 1..n) /\ p.padding = Total(v, 1..n)
    BY <1>0, <1>3
  <2> QED
    BY <1>0, <1>1, <1>5, <2>3, <2>4, <2>5 DEF d, D
<1>9. p.ok
  BY <1>3
<1>10. PlacedInOrder(a, order, p)
  BY <1>0, <1>5, <1>6, <1>7, <1>8 DEF PlacedInOrder
<1> QED
  BY <1>9, <1>10 DEF p
=============================================================================
