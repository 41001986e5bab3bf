----------------------------- MODULE MCConversion -----------------------------
(* Small sources for the conversion.  A behaviour is a conversion, or the      *)
(* study of one thing: a source in a layout, a file of the format, a plan, an  *)
(* imported program.                                                           *)
EXTENDS Conversion, TypedProgram
LOCAL INSTANCE SequencesExt

CONSTANT InlineMax

VARIABLE studied

NoStudy == [kind |-> "none"]

CL == INSTANCE CanonicalLayout

-----------------------------------------------------------------------------
(* The sources.                                                                *)

Named(id, layer, has) == [id |-> id, layer |-> layer, has |-> has]
Tensor(name, type, shape, rel) == [name |-> name, type |-> type, shape |-> shape, rel |-> rel]

Embedding == Named(9, NoLayer, {"token_embd"})
Output == Named(4, NoLayer, {"output"})
Query(l) == Named(20 + l, l, {"attn_q"})
Norm(l) == Named(30 + l, l, {"ffn_norm"})
Experts(l) == Named(10 + l, l, {"ffn_gate_exps", "ffn_gate"})

Meta(arch, absent) ==
  [arch |-> arch, absent |-> absent, tokens |-> <<"a", "b", "ab", "c">>,
   merges |-> <<<<"a", "b">>>>, types |-> 4]

File(arch, absent, tensors, size) ==
  [magic |-> "GGUF", version |-> 3, cut |-> FALSE, align |-> 32, infoEnd |-> 40,
   size |-> size, tensors |-> tensors, meta |-> Meta(arch, absent)]

Dense ==
  File("qwen3", {"expert_feed_forward_length"},
       <<Tensor(Query(1), "Q8_0", <<32>>, 64), Tensor(Embedding, "F32", <<3>>, 0),
         Tensor(Query(0), "Q8_0", <<32>>, 128), Tensor(Output, "F32", <<2, 2>>, 32)>>, 300)

\* The same geometry, with other tokens and another type of the same size.
Twin ==
  [Dense EXCEPT !.tensors[4].type = "BF16", !.tensors[4].shape = <<8>>,
                !.meta.tokens = <<"b", "a", "ba", "c">>, !.meta.merges = <<<<"a", "b">>>>]

\* The same names in another order, one of them of another size.
Shuffled ==
  File("qwen3", {"expert_feed_forward_length"},
       <<Tensor(Query(1), "Q8_0", <<32, 2>>, 64), Tensor(Embedding, "F32", <<3>>, 0),
         Tensor(Query(0), "Q8_0", <<32>>, 192), Tensor(Output, "F32", <<2, 2>>, 32)>>, 320)

\* Tensors that overlap, one of them within another and one beyond the file.
Nested ==
  File("qwen3", {"expert_feed_forward_length"},
       <<Tensor(Norm(0), "F32", <<20>>, 0), Tensor(Query(0), "BF16", <<4>>, 16),
         Tensor(Embedding, "F32", <<4>>, 64), Tensor(Norm(1), "F32", <<2>>, 500)>>, 300)

Expert ==
  File("deepseek2", {"feed_forward_length"},
       <<Tensor(Experts(0), "F32", <<5>>, 0), Tensor(Norm(0), "BF16", <<3>>, 32),
         Tensor(Experts(1), "F32", <<1>>, 64), Tensor(Output, "F32", <<2>>, 96)>>, 300)

\* Refused: a representation whose two block sizes differ.
Mixed == File("qwen3", {}, <<Tensor(Query(0), "IQ2_S", <<256>>, 0)>>, 300)

MCFiles == <<Dense, Twin, Shuffled, Nested, Expert, Mixed>>

-----------------------------------------------------------------------------
(* What is studied.                                                            *)

\* Files of two tensors, side by side or over each other.
Pairs ==
  LET names == {Embedding, Query(1), Norm(0), Output, Named(7, NoLayer, {"future"})}
      tensors == {Tensor(n, s[1], s[2], rel) :
                    n \in names, s \in {<<"F32", <<3>>>>, <<"Q8_0", <<32>>>>}, rel \in {0, 40}}
  IN  {File("qwen3", {}, <<t, u>>, 300) : t, u \in tensors}

Parsed == ({Artifacts[k] : k \in DOMAIN Files} \cup {Parse(f) : f \in Pairs}) \ {Rejected}

\* Blocks of the lengths around the limit of a short header, of elements of one
\* byte and of more.
Shapes ==
  {Opaque(1), Opaque(InlineMax - 1), Opaque(InlineMax), Opaque(InlineMax + 1),
   Scalars(InlineMax \div 4, 32), Scalars(InlineMax \div 4 + 1, 32),
   Scalars(InlineMax \div 8 + 1, 64), Scalars(InlineMax + 1, 32)}
Blocklists ==
  UNION {[1..n -> {[payload |-> b[1], width |-> b[2], layer |-> NoLayer] : b \in Shapes}] : n \in 0..3}
    \cup {Requests(k, Manifests[k]) : k \in {k \in DOMAIN Files : Manifests[k].ok}}

\* Blocks that continue or do not, with short counts and with long ones.
Chains ==
  UNION {[1..n -> {[CL!Plain(key, 8, count) EXCEPT !.cont = cont] :
                     key \in {7, 8}, count \in {0, InlineMax + 1}, cont \in BOOLEAN}] : n \in 0..3}

Qwen(names) == QwenSidecar([arch |-> "qwen35moe", names |-> names])
Deepseek2(names) == DeepseekSidecar([arch |-> "deepseek2", names |-> names, experts |-> 2])
QwenWeights == Weights(QwenProgram)
DeepseekWeights == Weights(DeepseekProgram(2))

Studies ==
  [kind : {"layout"}, artifact : Parsed, layout : Range(Layouts)]
    \cup [kind : {"plan"}, entries : Blocklists, shift : 3..8]
    \cup [kind : {"file"}, file : CL!Accepted \cup CL!Corrupt]
    \cup [kind : {"chain"}, blocks : Chains, shift : {3, 4}]
    \cup [kind : {"count"}, count : {0, 1, InlineMax, InlineMax + 1}]
    \cup [kind : {"program"},
          program : {Qwen(QwenWeights), Deepseek2(DeepseekWeights), GemmaSidecar, PhiSidecar}]
    \cup {[kind |-> "lacking", made |-> Qwen(QwenWeights \ {w})] : w \in QwenWeights}
    \cup {[kind |-> "lacking", made |-> Deepseek2(DeepseekWeights \ {w})] : w \in DeepseekWeights}
    \cup [kind : {"row"}, storage : {"qkv", "gate_up"},
          row : {0, 3071, 3072, 4095, 4096, 5119, 8191, 8192, 16383}]

Study ==
  /\ studied = NoStudy /\ Init /\ source = 1
  /\ studied' \in Studies
  /\ UNCHANGED vars

Convert == studied = NoStudy /\ Next /\ UNCHANGED studied

MCInit == Init /\ studied = NoStudy

MCNext == Study \/ Convert

MCSpec == MCInit /\ [][MCNext]_<<vars, studied>>

-----------------------------------------------------------------------------
(* Placement and accounting.                                                   *)

\* Every layout but the source's puts each tensor at an aligned place of its
\* own, and its padding and payload add up to the span it occupies (simulate).
PlacementIsSound(a, p) ==
  /\ \A t \in Range(a.tensors) : p.start[t.ord] % a.align = 0
  /\ \A t, u \in Range(a.tensors) :
       t # u => \/ p.start[t.ord] + t.size <= p.start[u.ord]
                \/ p.start[u.ord] + u.size <= p.start[t.ord]
  /\ Max({p.start[t.ord] + t.size : t \in Range(a.tensors)}) =
       a.dataStart + p.payload + p.padding

\* In the layouts made for prefixes, what is needed to run the first layers is
\* a prefix of the data: no other tensor lies below its last byte, which is
\* where the boundary after those layers is reported (prefix_rows, qualify).
PrefixIsClosed(a, p) ==
  \A last \in AllLayers(a) \cup {NoLayer} :
    \A highest \in {PrefixRow(a, p, last).highest} :
      /\ \A t \in Range(a.tensors) \ PrefixTensors(a, last) : p.start[t.ord] >= highest
      /\ last # NoLayer => Boundary(a, p, last) = highest

\* Bytes of a set of ranges, counted one by one.
Covered(ranges) == UNION {r[1]..(r[2] - 1) : r \in ranges}

\* Every way of adding up the payload of a layout gives the total, and joined
\* ranges hold each byte that is needed once, and no other (merge_intervals).
TablesAgree(a, p, total) ==
  /\ \A c \in {Comparison(p)} : c.payload = total /\ c.semantic = total
  /\ SumOver(AllLayers(a), LAMBDA l : LayerRow(a, p, l)[2].semantic) =
       SumOver({t \in Range(a.tensors) : t.layer # NoLayer}, LAMBDA t : t.size)
  /\ \A w \in Windows(a) :
       \A ranges \in {{Interval(p, t) : t \in {u \in Range(a.tensors) : u.layer \in w}}} :
         \A row \in Range(WindowRow(a, p, w)) : row.physical = Cardinality(Covered(ranges))

SourceTablesAgree(a, total) ==
  /\ \A byType \in {TypeRows(a)} :
       total = SumOver(DOMAIN byType, LAMBDA type : byType[type][2])
  /\ \A read \in {SourceRangeSummary(a.tensors)} :
       /\ read.semantic = total
       /\ read.physical = Cardinality(Covered({<<t.start, t.end>> : t \in Range(a.tensors)}))

\* What the qualification says of the layouts of a source: a place for each
\* tensor, prefixes that are enough, and tables that agree (qualify, simulate).
LayoutsAreSound ==
  studied.kind = "layout" =>
    \A a \in {studied.artifact} :
      \A p \in {Simulate(a, studied.layout)},
         total \in {DistributionRows(a)[<<"all", 0>>].total} :
        /\ SourceTablesAgree(a, total)
        /\ p.ok => TablesAgree(a, p, total)
        /\ p.ok /\ studied.layout # "GGUF_SOURCE_ORDER" => PlacementIsSound(a, p)
        /\ p.ok /\ studied.layout \notin {"GGUF_SOURCE_ORDER", "NAME_ORDER"}
             => PrefixIsClosed(a, p)

-----------------------------------------------------------------------------
(* The file format.                                                            *)

Blocks(entries) ==
  [i \in DOMAIN entries |->
     [CL!Plain(512, entries[i].width, (entries[i].payload * 8) \div entries[i].width)
        EXCEPT !.cont = i < Len(entries)]]

\* A file to verify as the vectors do: one block with a short count and no shift.
Simple(file) ==
  /\ Len(file.rows) = 1
  /\ \A row \in Range(file.rows) : ~ row.anchor.ext /\ ~ row.anchor.cont /\ row.anchor.shift = 0

\* Blocks up to the ith that are long by their bytes and short by their count.
Misjudged(entries, i) ==
  {j \in 1..i : /\ entries[j].payload > InlineMax
                /\ (entries[j].payload * 8) \div entries[j].width <= InlineMax}

\* The planner decides the long header by the bytes of a block, the writer by its
\* elements.  Only with the smallest step do the places differ, by one word for
\* each block before that the two decide differently, and never downwards: what
\* the planner reports is room enough for the file (plan_candidate, write_known_size).
PlanIsRoomEnough(entries, shift) ==
  \A rows \in {CL!PlanRows(entries, shift)}, file \in {CL!Canonical(Blocks(entries), shift, CL!MinHeader)} :
    /\ CL!ParseV06(file) /\ \A i \in DOMAIN rows : CL!ValidBlock(file, file.rows[i])
    /\ \A i \in DOMAIN rows :
         \E extra \in {IF shift = 3 THEN 8 * Cardinality(Misjudged(entries, i)) ELSE 0} :
           rows[i].payload = file.rows[i].payload + extra /\ rows[i].end = file.rows[i].end + extra

\* The Pareto filter never removes the smallest file (pareto, main).
PlanIsWritten ==
  studied.kind = "plan" =>
    /\ PlanIsRoomEnough(studied.entries, studied.shift)
    /\ CL!Select(studied.entries).final <= CL!PlanCandidate(studied.entries, studied.shift).final

\* Writer, reader, normative equations and planner agree on what a file is.  The
\* reader takes exactly the fixtures that are to be accepted, and a file of one
\* simple block exactly if the vectors' equations do; it takes a sequence of
\* blocks exactly if its continuations are right; a count has exactly one form
\* (every_cross_language_fixture, verify_file_hex, verify_continuation).
FilesAreDecided ==
  /\ studied.kind = "file" =>
       /\ CL!ParseV06(studied.file) <=> studied.file \in CL!Accepted
       /\ Simple(studied.file) => (CL!VerifyFileHex(studied.file) <=> CL!ParseV06(studied.file))
  /\ studied.kind = "chain" =>
       \A file \in {CL!Canonical(studied.blocks, studied.shift, CL!MinHeader)} :
         CL!ParseV06(file) <=> CL!VerifyContinuation(file.rows)
  /\ studied.kind = "count" =>
       Cardinality({f \in BOOLEAN \X {0, 1, InlineMax, InlineMax + 1} :
                      CL!ValidateCountForm(f[1], studied.count, f[2])}) = 1
  /\ PlanIsWritten

-----------------------------------------------------------------------------
(* The typed programs.                                                         *)

\* Every program is closed, and layers with a window are exactly those at local
\* positions; a source that lacks one of the tensors is refused; each row of a
\* fused tensor belongs to one view (validate, require).
ProgramsAreClosed ==
  /\ studied.kind = "program" =>
       /\ Closed(studied.program)
       /\ {l \in DOMAIN AttentionPattern : AttentionPattern[l].window = 0} = {5, 11, 17}
  /\ studied.kind = "lacking" => studied.made = Refused
  /\ studied.kind = "row" /\ studied.row < Rows[studied.storage] =>
       Cardinality({b \in PhiBindings : /\ b.storage = studied.storage
                                        /\ studied.row >= b.view[1]
                                        /\ studied.row < b.view[1] + b.view[2]}) = 1
=============================================================================
