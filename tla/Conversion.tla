------------------------------ MODULE Conversion ------------------------------
(* The conversion of a GGUF file: the manifest of what goes where              *)
(* (scripts/build_step18_manifest.py), the plan built from it and the source   *)
(* (scripts/convert_gguf_to_vbuf_ml.py), the helper that writes and validates  *)
(* the temporary target (rust/vbuf-ml) and the replacement of the target.      *)
(*                                                                             *)
(* Files[k] is the content of a source, which stands for its digest too.  It   *)
(* has a field meta: [arch, absent, tokens, merges, types], where absent is    *)
(* the set of metadata keys it has not, merges are pairs of tokens (or a       *)
(* single one when the separator is missing) and types is a number of types.   *)
(* A process opens the source anew for each thing it reads of it, and the       *)
(* source may be replaced by another file between any two of these.  Every     *)
(* process may be killed between two of its steps, and a write may fail.        *)
EXTENDS GgufPlacement
LOCAL INSTANCE SequencesExt

CONSTANTS Files,         \* contents the source may have
          Converters,    \* processes that run the converter on one target
          MaxBuilt,      \* bound: manifests begun
          MaxReplaced,   \* bound: replacements of the source
          MaxKilled,     \* bound: processes killed
          MaxFailed      \* bound: writes that fail

Nobody == 0          \* no converter

ASSUME ConversionAssumption ==
  /\ \A k \in DOMAIN Files :
       /\ Len(Files[k].tensors) \in Nat
       /\ DOMAIN Files[k].tensors = 1..Len(Files[k].tensors)
  /\ Nobody \notin Converters
  /\ {MaxBuilt, MaxReplaced, MaxKilled, MaxFailed} \subseteq Nat

VARIABLES
  source,      \* the file at the source path, an index of Files
  manifest,    \* the manifest file: NoFile, Torn or a manifest
  builder,     \* where the manifest builder is, and what it has read by now
  pc,          \* per converter: where its run is,
  loaded,      \* the manifest it loaded,
  seen,        \* the file it parsed, later the one that its helper maps,
  plan,        \* and the plan it made
  planFiles,   \* converters whose temporary plan file exists
  tmp, target, \* the temporary target and the target
  calm,        \* history: what of a converter's reading no replacement came between
  built, replaced, killed, failed

vars == <<source, manifest, builder, pc, loaded, seen, plan, planFiles, tmp, target,
          calm, built, replaced, killed, failed>>

NoFile == [ok |-> FALSE, file |-> "absent"]
Torn == [ok |-> FALSE, file |-> "torn"]

-----------------------------------------------------------------------------
(* Geometry.                                                                   *)

\* Elements and bytes of the blocks of the representations that can be copied.
Contracts ==
  [Q8_0 |-> <<32, 34>>, Q4_0 |-> <<32, 18>>, Q2_K |-> <<256, 84>>,
   IQ1_S |-> <<256, 50>>, Q4_K |-> <<256, 144>>, Q3_K |-> <<256, 110>>,
   Q5_K |-> <<256, 176>>, Q6_K |-> <<256, 210>>, IQ2_XXS |-> <<256, 66>>,
   IQ2_XS |-> <<256, 74>>, IQ2_S |-> <<256, 84>>, IQ4_NL |-> <<32, 18>>,
   IQ4_XS |-> <<256, 136>>, F32 |-> <<1, 4>>, BF16 |-> <<1, 2>>]

\* Whole blocks per row of the innermost dimension; Overflow for any error.
ExpectedBytes(type, shape) ==
  LET block == Contracts[type]
  IN  IF Product(shape) = Overflow \/ type \notin DOMAIN Contracts THEN Overflow
      ELSE IF type \in {"F32", "BF16"} THEN CheckedMul(Product(shape), block[2])
      ELSE IF shape = <<>> THEN Overflow
      ELSE IF Head(shape) % block[1] # 0 THEN Overflow
      ELSE CheckedMul(CheckedMul(Product(Tail(shape)), Head(shape) \div block[1]), block[2])

SupportedTypes == DOMAIN Contracts

\* The ranges of the source a conversion reads, joined where they touch.
RangeTotals(ts, merged) ==
  [ranges |-> Len(merged),
   physical |-> SumOver(DOMAIN merged, LAMBDA i : merged[i][2] - merged[i][1]),
   semantic |-> SumOver(DOMAIN ts, LAMBDA i : ts[i].end - ts[i].start)]

SourceRangeSummary(ts) ==
  RangeTotals(ts, MergeIntervals([i \in DOMAIN ts |-> <<ts[i].start, ts[i].end>>], TRUE))

-----------------------------------------------------------------------------
(* The manifest.                                                               *)

MetadataKeys ==
  {"architecture", "context_length", "embedding_length", "block_count",
   "head_count", "head_count_kv", "key_length", "value_length",
   "feed_forward_length", "rms_epsilon", "freq_base"}

\* The fields with a value.  All are reported as represented, those without a
\* value too, so no manifest is ever blocked by a gap in the metadata.
MetadataPlan(meta) ==
  {k \in MetadataKeys :
     \/ k \notin meta.absent
     \/ k = "feed_forward_length" /\ "expert_feed_forward_length" \notin meta.absent}

TokenizerConversionPlan(meta) ==
  LET tokens == meta.tokens
      id(token) == CHOOSE i \in DOMAIN tokens : tokens[i] = token
  IN  IF \/ {"tokens", "merges"} \cap meta.absent # {}
         \/ Cardinality(Range(tokens)) # Len(tokens)
         \/ \E m \in Range(meta.merges) : Len(m) < 2 \/ ~ Range(m) \subseteq Range(tokens)
      THEN Rejected
      ELSE [ok |-> TRUE, pre |-> IF meta.arch = "deepseek2" THEN 2 ELSE 1,
            left |-> [i \in DOMAIN meta.merges |-> id(meta.merges[i][1])],
            right |-> [i \in DOMAIN meta.merges |-> id(meta.merges[i][2])]]

Architectures == {"qwen3", "qwen35moe", "deepseek2", "deepseek32", "deepseek2-ocr"}

Deepseek == {"deepseek2", "deepseek32", "deepseek2-ocr"}

PlacementFor(meta) ==
  IF meta.arch \in Deepseek THEN "DEEPSEEK_HOT_ROLE_ORDER" ELSE "LAYER_MAJOR_ROLE_ORDER"

\* Experts are planned for the architectures that have them; a missing count raises.
MoePlanned(meta) ==
  meta.arch \in Deepseek \cup {"qwen35moe"}
    => {"expert_count", "expert_used_count", "block_count"} \cap meta.absent = {}

RowAt(t, i) ==
  [name |-> t.name.id, layer |-> t.layer, group |-> t.group, type |-> t.type,
   start |-> t.start, size |-> t.size, order |-> i - 1, occurrence |-> i - 1]

PlansInOrder(order) ==
  IF \E t \in Range(order) : \/ t.type \notin SupportedTypes
                             \/ ExpectedBytes(t.type, t.shape) # t.size
  THEN Rejected
  ELSE [ok |-> TRUE, rows |-> [i \in DOMAIN order |-> RowAt(order[i], i)]]

TensorPlans(a, placement) == PlansInOrder(LayoutOrder(a.tensors, placement))

ValidateManifest(m, a) ==
  /\ DOMAIN m.rows = DOMAIN a.tensors
  /\ \A i, j \in DOMAIN m.rows : m.rows[i].name = m.rows[j].name => i = j
  /\ {m.rows[i].order : i \in DOMAIN m.rows} = 0..(Len(m.rows) - 1)
  /\ Len(m.tokenizer.left) = Len(m.tokenizer.right)

\* Where the payloads end that are hashed: the embedding's, then the output's.
HashedEnds(a) ==
  LET of(part) == SelectSeq(a.tensors, LAMBDA t : part \in t.name.has)
      tensors == of("token_embd") \o of("output")
  IN  [i \in DOMAIN tensors |-> tensors[i].end]

Artifacts == [k \in DOMAIN Files |-> Parse(Files[k])]

\* A manifest of the tensors, the metadata and the tokenizer of what was parsed,
\* under the digest and the size that were read before.  calm is not in the file:
\* it remembers that nothing replaced the source between the three.
Drafted(read, a, meta, plans, tokenizer) ==
  IF ~ a.ok \/ meta.arch \notin Architectures \/ ~ plans.ok \/ ~ tokenizer.ok \/ ~ MoePlanned(meta)
  THEN Rejected
  ELSE [ok |-> TRUE, source |-> read.digest, size |-> read.size,
        placement |-> PlacementFor(meta), rows |-> plans.rows,
        metadata |-> MetadataPlan(meta), tokenizer |-> tokenizer,
        read |-> SourceRangeSummary(a.tensors), calm |-> read.calm]

Validated(m, a) == IF m.ok /\ ValidateManifest(m, a) THEN m ELSE Rejected

BuildManifest(read, a, meta) ==
  Validated(Drafted(read, a, meta, TensorPlans(a, PlacementFor(meta)),
                    TokenizerConversionPlan(meta)), a)

\* What is read of a file that nothing replaces.
ReadOf(k) == [digest |-> k, size |-> Files[k].size, calm |-> TRUE]

\* The manifest of each file.
Manifests == [k \in DOMAIN Files |-> BuildManifest(ReadOf(k), Artifacts[k], Files[k].meta)]

-----------------------------------------------------------------------------
(* The plan handed to the helper.                                              *)

\* Every row of the manifest against the source as parsed now; later tensors
\* of a name hide earlier ones.
RowsMatch(a, m) ==
  LET names == {a.tensors[i].name.id : i \in DOMAIN a.tensors}
      last(id) == CHOOSE i \in DOMAIN a.tensors :
                    /\ a.tensors[i].name.id = id
                    /\ \A j \in DOMAIN a.tensors : a.tensors[j].name.id = id => j <= i
  IN  /\ Len(m.rows) = Cardinality(names)
      /\ \A i \in DOMAIN m.rows :
           LET r == m.rows[i]
           IN  /\ r.name \in names /\ r.occurrence = r.order
               /\ r.start = a.tensors[last(r.name)].start
               /\ r.size = a.tensors[last(r.name)].size

\* Rows, tokenizer and the values of the metadata are the manifest's, tokens and
\* what goes with them those of the parsed file, and the size is that of the
\* source by now.  Absent special tokens, token types or chat template raise,
\* and so does a metadata value that the manifest carries as None.
BuildPlan(m, a, meta, size) ==
  IF \/ ~ RowsMatch(a, m)
     \/ {"token_type", "bos_token_id", "eos_token_id", "padding_token_id",
         "chat_template"} \cap meta.absent # {}
     \/ Len(meta.tokens) # meta.types
     \/ Len(meta.merges) # Len(m.tokenizer.left)
     \/ m.metadata # MetadataKeys
  THEN Rejected
  ELSE [ok |-> TRUE, source |-> m.source, size |-> size, rows |-> m.rows,
        tokens |-> meta.tokens, tokenizer |-> m.tokenizer]

-----------------------------------------------------------------------------
(* What the placement planner lays out: the payload of every block, control    *)
(* blocks first.  width is not the planner's: it is the bits of an element that *)
(* the helper declares for the block.  Names and tokens have fixed lengths.     *)

NameBytes == 12
TokenBytes == 2

DirectoryBytes(a) ==
  20 + SumOver(DOMAIN a.tensors, LAMBDA i : 10 + NameBytes + 8 * Len(a.tensors[i].shape))

Opaque(bytes) == <<bytes, 8>>
Scalars(n, width) == <<n * (width \div 8), width>>

\* The control block, and a block for every field, the architecture first.
MetadataBlocks ==
  <<Opaque(16 + 8 * Cardinality(MetadataKeys)), Opaque(NameBytes)>>
    \o [i \in 1..(Cardinality(MetadataKeys) - 1) |-> Scalars(1, 64)]

ControlBlocks(k) ==
  LET meta == Files[k].meta
      merges == Scalars(Len(meta.merges), 32)
  IN  <<Opaque(64)>> \o MetadataBlocks \o <<Opaque(DirectoryBytes(Artifacts[k])), Opaque(20 + 12 * 12)>>
        \o <<Opaque(TokenBytes * Len(meta.tokens)), Scalars(Len(meta.tokens) + 1, 64),
             Scalars(meta.types, 32), merges, merges, Scalars(1, 8), Scalars(1, 8), Scalars(1, 8),
             Opaque(40), Scalars(1, 64), Scalars(1, 64), Scalars(1, 64)>>

TensorWidth(type) == IF type = "F32" THEN 32 ELSE 8

Entries(control, rows) ==
  [i \in DOMAIN control |->
     [payload |-> control[i][1], width |-> control[i][2], layer |-> NoLayer]]
    \o [i \in DOMAIN rows |->
          [payload |-> rows[i].size, width |-> TensorWidth(rows[i].type), layer |-> rows[i].layer]]

Requests(k, m) == Entries(ControlBlocks(k), m.rows)

-----------------------------------------------------------------------------
(* The processes.                                                              *)

NoBuilder == [at |-> "idle"]

Init ==
  /\ source \in DOMAIN Files
  /\ manifest = NoFile /\ builder = NoBuilder
  /\ pc = [p \in Converters |-> "idle"] /\ loaded = [p \in Converters |-> NoFile]
  /\ seen = [p \in Converters |-> Nobody] /\ plan = [p \in Converters |-> Rejected]
  /\ calm = [p \in Converters |-> {}]
  /\ planFiles = {} /\ tmp = NoFile /\ target = NoFile
  /\ built = 0 /\ replaced = 0 /\ killed = 0 /\ failed = 0

\* What a replacement comes between: the digest and the parse of the builder,
\* the parse and the digest of a converter.
ReplaceSource(k) ==
  /\ replaced < MaxReplaced /\ k # source
  /\ source' = k /\ replaced' = replaced + 1
  /\ builder' = IF builder.at \in {"digested", "sized"} THEN [builder EXCEPT !.calm = FALSE]
                ELSE builder
  /\ calm' = [p \in Converters |-> IF pc[p] \in {"parsed", "sized"} THEN calm[p] \ {"plan"}
                                   ELSE calm[p]]
  /\ UNCHANGED <<manifest, pc, loaded, seen, plan, planFiles, tmp, target, built,
                 killed, failed>>

-----------------------------------------------------------------------------
(* The manifest builder reads the digest, the size, the header and the special *)
(* payloads, each from the path.  An error ends it before the manifest that was *)
(* there is touched.                                                           *)

Builds(next) ==
  /\ builder' = next
  /\ UNCHANGED <<source, manifest, pc, loaded, seen, plan, planFiles, tmp, target, calm,
                 replaced, killed, failed>>

BuilderDigest ==
  /\ builder.at = "idle" /\ built < MaxBuilt
  /\ built' = built + 1
  /\ Builds([at |-> "digested", digest |-> source, calm |-> TRUE])

BuilderStat ==
  /\ builder.at = "digested"
  /\ Builds([at |-> "sized", digest |-> builder.digest, size |-> Files[source].size,
             calm |-> builder.calm])
  /\ UNCHANGED built

BuilderParse ==
  /\ builder.at = "sized"
  /\ \E m \in {BuildManifest(builder, Artifacts[source], Files[source].meta)} :
       Builds(IF m.ok THEN [at |-> "parsed", draft |-> m, left |-> HashedEnds(Artifacts[source])]
              ELSE NoBuilder)
  /\ UNCHANGED built

\* A payload that is hashed must lie in the file as it is now.
BuilderHash ==
  /\ builder.at = "parsed" /\ builder.left # <<>>
  /\ Builds(IF Head(builder.left) <= Files[source].size THEN [builder EXCEPT !.left = Tail(@)]
            ELSE NoBuilder)
  /\ UNCHANGED built

StartManifest ==
  /\ builder.at = "parsed" /\ builder.left = <<>>
  /\ builder' = [at |-> "writing", draft |-> builder.draft] /\ manifest' = Torn
  /\ UNCHANGED <<source, pc, loaded, seen, plan, planFiles, tmp, target, calm, built,
                 replaced, killed, failed>>

FinishManifest ==
  /\ builder.at = "writing"
  /\ manifest' = builder.draft /\ builder' = NoBuilder
  /\ UNCHANGED <<source, pc, loaded, seen, plan, planFiles, tmp, target, calm, built,
                 replaced, killed, failed>>

KillBuilder ==
  /\ builder # NoBuilder /\ killed < MaxKilled
  /\ builder' = NoBuilder /\ killed' = killed + 1
  /\ UNCHANGED <<source, manifest, pc, loaded, seen, plan, planFiles, tmp, target, calm, built,
                 replaced, failed>>

-----------------------------------------------------------------------------
(* The converter makes its plan.  An error ends the run before it has touched  *)
(* a file.                                                                     *)

outside == <<source, manifest, builder, tmp, target, built, replaced, killed, failed>>

Load(p) ==
  /\ pc[p] = "idle" /\ manifest \notin {NoFile, Torn}
  /\ loaded' = [loaded EXCEPT ![p] = manifest] /\ pc' = [pc EXCEPT ![p] = "loaded"]
  /\ UNCHANGED <<seen, plan, calm, planFiles, outside>>

ParseSource(p) ==
  /\ pc[p] = "loaded" /\ Artifacts[source].ok
  /\ seen' = [seen EXCEPT ![p] = source] /\ pc' = [pc EXCEPT ![p] = "parsed"]
  /\ calm' = [calm EXCEPT ![p] = {"plan"} \cup IF loaded[p].calm THEN {"manifest"} ELSE {}]
  /\ UNCHANGED <<loaded, plan, planFiles, outside>>

SizeHolds(p) == loaded[p].size = Files[source].size

DigestHolds(p) == loaded[p].source = source

CheckSize(p) ==
  /\ pc[p] = "parsed" /\ SizeHolds(p)
  /\ pc' = [pc EXCEPT ![p] = "sized"]
  /\ UNCHANGED <<loaded, seen, plan, calm, planFiles, outside>>

CheckDigest(p) ==
  /\ pc[p] = "sized" /\ DigestHolds(p)
  /\ pc' = [pc EXCEPT ![p] = "compared"]
  /\ UNCHANGED <<loaded, seen, plan, calm, planFiles, outside>>

Made(p) == BuildPlan(loaded[p], Artifacts[seen[p]], Files[seen[p]].meta, Files[source].size)

MakePlan(p) ==
  /\ pc[p] = "compared"
  /\ \E made \in {Made(p)} : made.ok /\ plan' = [plan EXCEPT ![p] = made]
  /\ pc' = [pc EXCEPT ![p] = "planned"] /\ planFiles' = planFiles \cup {p}
  /\ loaded' = [loaded EXCEPT ![p] = NoFile] /\ seen' = [seen EXCEPT ![p] = Nobody]
  /\ UNCHANGED <<calm, outside>>

PlanFails(p) ==
  /\ \/ pc[p] = "loaded" /\ ~ Artifacts[source].ok
     \/ pc[p] = "parsed" /\ ~ SizeHolds(p)
     \/ pc[p] = "sized" /\ ~ DigestHolds(p)
     \/ pc[p] = "compared" /\ ~ Made(p).ok
  /\ pc' = [pc EXCEPT ![p] = "idle"] /\ loaded' = [loaded EXCEPT ![p] = NoFile]
  /\ seen' = [seen EXCEPT ![p] = Nobody] /\ calm' = [calm EXCEPT ![p] = {}]
  /\ UNCHANGED <<plan, planFiles, outside>>

-----------------------------------------------------------------------------
(* The helper, the replacement of the target and the clean-up.                 *)

Goto(p, label) ==
  /\ pc' = [pc EXCEPT ![p] = label]
  /\ UNCHANGED <<source, manifest, builder, loaded, plan, planFiles, calm, built,
                 replaced, killed>>

Inside(rows, k) == \A i \in DOMAIN rows : rows[i].start + rows[i].size <= Files[k].size

\* Mutant: the digest is not compared.
SourceUnchecked(p) ==
  /\ plan[p].size = Files[source].size
  /\ Inside(plan[p].rows, source)

\* What the helper maps has the size and the digest of the plan, and every range.
SourceHolds(p) ==
  /\ plan[p].size = Files[source].size /\ plan[p].source = source
  /\ Inside(plan[p].rows, source)

MapSource(p) ==
  /\ pc[p] = "planned" /\ SourceHolds(p)
  /\ seen' = [seen EXCEPT ![p] = source]
  /\ Goto(p, "mapped") /\ UNCHANGED <<tmp, target, failed>>

\* The temporary target must not exist.
Create(p) ==
  /\ pc[p] = "mapped" /\ tmp = NoFile
  /\ tmp' = [by |-> p, writer |-> p, placed |-> Nobody, whole |-> FALSE,
             bytes |-> seen[p], plan |-> plan[p], calm |-> calm[p]]
  /\ Goto(p, "writing") /\ UNCHANGED <<seen, target, failed>>

OpenFails(p) ==
  /\ \/ pc[p] = "planned" /\ ~ SourceHolds(p)
     \/ pc[p] = "mapped" /\ tmp # NoFile
  /\ Goto(p, "leaving") /\ UNCHANGED <<seen, tmp, target, failed>>

Abandoned(file, p) ==
  IF file # NoFile /\ file.writer = p THEN [file EXCEPT !.writer = Nobody] ELSE file

\* The file it writes may by now have been unlinked or become the target.
Written(file, p) ==
  IF file # NoFile /\ file.writer = p
  THEN [file EXCEPT !.whole = TRUE, !.writer = Nobody] ELSE file

Write(p) ==
  /\ pc[p] = "writing"
  /\ tmp' = Written(tmp, p) /\ target' = Written(target, p)
  /\ Goto(p, "written") /\ UNCHANGED <<seen, failed>>

\* Mutant: the helper's return code is not looked at.
WriteIgnored(p) ==
  /\ pc[p] = "writing" /\ failed < MaxFailed
  /\ failed' = failed + 1
  /\ tmp' = Abandoned(tmp, p) /\ target' = Abandoned(target, p)
  /\ Goto(p, "validated") /\ UNCHANGED seen

\* A write that fails ends the helper with an error; what it wrote stays where
\* its file is by now.
WriteFails(p) ==
  /\ pc[p] = "writing" /\ failed < MaxFailed
  /\ failed' = failed + 1
  /\ tmp' = Abandoned(tmp, p) /\ target' = Abandoned(target, p)
  /\ Goto(p, "leaving") /\ UNCHANGED seen

\* The helper reads the temporary target back by its path and compares it with
\* its plan and, payload by payload, with the source it has mapped.
Valid(p) ==
  /\ tmp # NoFile /\ tmp.whole /\ tmp.bytes = seen[p]
  /\ tmp.plan.rows = plan[p].rows /\ tmp.plan.tokens = plan[p].tokens
  /\ tmp.plan.tokenizer = plan[p].tokenizer

Validate(p) ==
  /\ pc[p] = "written" /\ Valid(p)
  /\ Goto(p, "validated") /\ UNCHANGED <<seen, tmp, target, failed>>

ValidateFails(p) ==
  /\ pc[p] = "written" /\ ~ Valid(p)
  /\ Goto(p, "leaving") /\ UNCHANGED <<seen, tmp, target, failed>>

Replace(p) ==
  /\ pc[p] = "validated" /\ tmp # NoFile
  /\ target' = [tmp EXCEPT !.placed = p] /\ tmp' = NoFile
  /\ Goto(p, "leaving") /\ UNCHANGED <<seen, failed>>

ReplaceFails(p) ==
  /\ pc[p] = "validated" /\ tmp = NoFile
  /\ Goto(p, "leaving") /\ UNCHANGED <<seen, tmp, target, failed>>

Ends(p) ==
  /\ pc' = [pc EXCEPT ![p] = "idle"] /\ loaded' = [loaded EXCEPT ![p] = NoFile]
  /\ seen' = [seen EXCEPT ![p] = Nobody] /\ plan' = [plan EXCEPT ![p] = Rejected]
  /\ calm' = [calm EXCEPT ![p] = {}]
  /\ UNCHANGED <<source, manifest, builder, built, replaced, failed>>

\* Whatever happened, the plan and the temporary target are removed by name.
Leave(p) ==
  /\ pc[p] = "leaving" /\ Ends(p)
  /\ planFiles' = planFiles \ {p} /\ tmp' = NoFile
  /\ UNCHANGED <<target, killed>>

Kill(p) ==
  /\ pc[p] # "idle" /\ killed < MaxKilled /\ Ends(p)
  /\ killed' = killed + 1
  /\ tmp' = Abandoned(tmp, p) /\ target' = Abandoned(target, p)
  /\ UNCHANGED planFiles

Run(p) ==
  \/ Load(p) \/ ParseSource(p) \/ CheckSize(p) \/ CheckDigest(p) \/ MakePlan(p) \/ PlanFails(p)
  \/ MapSource(p) \/ Create(p) \/ OpenFails(p) \/ Write(p) \/ WriteFails(p)
  \/ Validate(p) \/ ValidateFails(p) \/ Replace(p) \/ ReplaceFails(p) \/ Leave(p) \/ Kill(p)

Next ==
  \/ \E k \in DOMAIN Files : ReplaceSource(k)
  \/ BuilderDigest \/ BuilderStat \/ BuilderParse \/ BuilderHash
  \/ StartManifest \/ FinishManifest \/ KillBuilder
  \/ \E p \in Converters : Run(p)

Spec == Init /\ [][Next]_vars

-----------------------------------------------------------------------------
(* The target.                                                                 *)

\* A plan's rows are the tensors of the source it was made for.
SameTensor(row, t) == row.name = t.name.id /\ row.start = t.start /\ row.size = t.size

RowsHaveTensors(rows, tensors) ==
  \A i \in DOMAIN rows : \E j \in DOMAIN tensors : SameTensor(rows[i], tensors[j])

TensorsHaveRows(rows, tensors) ==
  \A j \in DOMAIN tensors : \E i \in DOMAIN rows : SameTensor(rows[i], tensors[j])

\* A plan of a file: its tokens and rows are the file's where no replacement came
\* between the converter's reads, and all of it where none disturbed the builder.
Exact(made, undisturbed) ==
  \A of \in {made.source} : \A tensors \in {Artifacts[of].tensors} :
    /\ "plan" \in undisturbed =>
         made.tokens = Files[of].meta.tokens /\ RowsHaveTensors(made.rows, tensors)
    /\ {"plan", "manifest"} \subseteq undisturbed =>
         /\ TensorsHaveRows(made.rows, tensors)
         /\ made.rows = Manifests[of].rows /\ made.tokenizer = Manifests[of].tokenizer

\* A whole target has the payloads of the file with the digest of its manifest,
\* each within that file, whatever replaced the source and whoever else converts.
\* Its tokens, tensors and tokenizer are that file's too if no replacement came
\* between a parse and the digest that goes with it (build_manifest 225-242,
\* convert main 146-155, vbuf-ml-convert 325-345).
TargetIsFaithful ==
  target # NoFile /\ target.whole =>
    /\ target.bytes = target.plan.source
    /\ Inside(target.plan.rows, target.bytes)
    /\ Exact(target.plan, target.calm)

\* No converter puts a file in place that it has not finished itself: a target
\* that is not whole was put there by another than its writer, which is at work
\* still, or was killed or failed (convert_gguf_to_vbuf_ml.main).
TargetSettles ==
  target # NoFile /\ ~ target.whole =>
    /\ target.placed # target.by
    /\ target.writer # Nobody \/ killed + failed > 0
=============================================================================
