---------------------------- MODULE GgufPlacement ----------------------------
(* A GGUF file as the qualification scripts see it: the parser, the sizes of   *)
(* the tensors, the classification of their names, the six orders in which the *)
(* tensors can be laid out, the placement each order gives, and the byte       *)
(* ranges a reader of some of the tensors needs (scripts/qualify_step16.py).   *)
(*                                                                             *)
(* A file is a record: magic, version, cut (the descriptors end early), align  *)
(* (general.alignment), infoEnd (where the descriptors end), size and tensors, *)
(* a sequence of [name, shape, type, rel].  A name is [id, layer, has]: its    *)
(* place in the order of names, the layer number found in it, and which of the *)
(* substrings the scripts look for it contains.                                *)
EXTENDS Integers, Sequences, FiniteSets, FiniteSetsExt
LOCAL INSTANCE SequencesExt
LOCAL INSTANCE TLC

CONSTANT U64Max    \* the largest value of the checked arithmetic

Unknown == -1      \* Python's None for a size
Overflow == -2     \* an arithmetic operation raised
NoLayer == -1

\* Elements and bytes of a block of each GGML type.
Types ==
  [F32 |-> <<1, 4>>, F16 |-> <<1, 2>>, BF16 |-> <<1, 2>>, I8 |-> <<1, 1>>,
   Q4_0 |-> <<32, 18>>, Q4_1 |-> <<32, 20>>, Q5_0 |-> <<32, 22>>,
   Q8_0 |-> <<32, 34>>, Q2_K |-> <<256, 84>>, Q3_K |-> <<256, 110>>,
   Q4_K |-> <<256, 144>>, Q5_K |-> <<256, 176>>, Q6_K |-> <<256, 210>>,
   IQ2_XXS |-> <<256, 66>>, IQ2_XS |-> <<256, 74>>, IQ2_S |-> <<256, 82>>,
   IQ3_S |-> <<256, 110>>, IQ1_S |-> <<256, 50>>, IQ4_NL |-> <<32, 18>>,
   IQ4_XS |-> <<256, 136>>]

CheckedMul(a, b) == IF a = Overflow \/ a * b > U64Max THEN Overflow ELSE a * b

Product(shape) == FoldLeft(CheckedMul, 1, shape)

\* None for a type that is not in the table and for a partial last block.
SizeOf(elements, type, types) ==
  IF elements = Overflow THEN Overflow
  ELSE IF type \notin DOMAIN types \/ elements % types[type][1] # 0 THEN Unknown
  ELSE CheckedMul(elements \div types[type][1], types[type][2])

TensorSize(shape, type) == SizeOf(Product(shape), type, Types)

\* Mutant: rounds to the boundary before.
AlignDown(value, alignment) == (value \div alignment) * alignment

AlignUp(value, alignment) == ((value + alignment - 1) \div alignment) * alignment

PowersOfTwo == {2^k : k \in 0..12}

-----------------------------------------------------------------------------
(* Names.                                                                      *)

\* The first line of the table with a substring of the name decides.
GlobalTokens ==
  << <<{"token_embd", "tok_embeddings", "embed_tokens", "wte"}, "GlobalPre">>,
     <<{"output_norm", "final_norm", "ln_f"}, "GlobalPost">>,
     <<{"output", "lm_head"}, "GlobalPost">>,
     <<{"rope", "freqs", "attn_scale"}, "GlobalPre">> >>

Classify(name) ==
  LET hits == {i \in DOMAIN GlobalTokens : GlobalTokens[i][1] \cap name.has # {}}
  IN  IF name.layer # NoLayer THEN "Layer"
      ELSE IF hits = {} THEN "Unknown" ELSE GlobalTokens[Min(hits)][2]

Ranks ==
  <<"attn_norm", "attn_q", "attn_k", "attn_v", "attn_output", "ffn_norm",
    "ffn_gate", "ffn_up", "ffn_down">>

HotRanks ==
  <<"attn_norm", "attn_q", "attn_k", "attn_v", "attn_output", "ffn_norm",
    "ffn_gate_inp", "ffn_exp_probs_b", "ffn_gate_shexp", "ffn_up_shexp",
    "ffn_down_shexp", "ffn_gate_exps", "ffn_up_exps", "ffn_down_exps",
    "ffn_gate", "ffn_up", "ffn_down">>

Routed == {"ffn_gate_exps", "ffn_up_exps", "ffn_down_exps"}

RoleKey(t, deepseek) ==
  LET ranks == IF deepseek THEN HotRanks ELSE Ranks
  IN  << IF deepseek /\ t.name.has \cap Routed # {} THEN 1 ELSE 0,
         Min({i \in DOMAIN ranks : ranks[i] \in t.name.has} \cup {Len(ranks) + 1}),
         t.name.id, t.ord >>

-----------------------------------------------------------------------------
(* The parser.  Tensors get absolute starts and ends, and the gap to the       *)
(* furthest end before them; nothing compares an end with the file's size.     *)

Lex(a, b) ==
  \E i \in DOMAIN a : /\ i \in DOMAIN b => a[i] < b[i]
                      /\ \A j \in 1..(i - 1) : a[j] = b[j]
                      /\ i \in DOMAIN b

Rejected == [ok |-> FALSE]

At(s, i, start, size) ==
  [ord |-> i, name |-> s.name, shape |-> s.shape, type |-> s.type, size |-> size,
   start |-> start, end |-> IF size = Unknown THEN Unknown ELSE start + size]

Located(ts, data) ==
  [i \in DOMAIN ts |-> At(ts[i], i, data + ts[i].rel, TensorSize(ts[i].shape, ts[i].type))]

\* The gap to the furthest end of the tensors of known size before it.
WithGap(ts, data, i) ==
  LET before == {j \in DOMAIN ts : /\ Lex(<<ts[j].start, j>>, <<ts[i].start, i>>)
                                   /\ ts[j].size # Unknown}
  IN  [gap |-> ts[i].start - Max({data} \cup {ts[j].end : j \in before}),
       group |-> Classify(ts[i].name),
       role |-> ts[i].name.has, layer |-> ts[i].name.layer] @@ ts[i]

Accounted(ts, data, align) ==
  IF \E i \in DOMAIN ts : ts[i].start > U64Max \/ ts[i].end > U64Max
  THEN Rejected
  ELSE [ok |-> TRUE, align |-> align, dataStart |-> data,
        tensors |-> [i \in DOMAIN ts |-> WithGap(ts, data, i)]]

ParseFrom(file, data) ==
  IF \/ file.magic # "GGUF" \/ file.version \notin {2, 3} \/ file.cut
     \/ \E i \in DOMAIN file.tensors :
          TensorSize(file.tensors[i].shape, file.tensors[i].type) = Overflow
     \/ file.align \notin PowersOfTwo
  THEN Rejected
  ELSE Accounted(Located(file.tensors, data), data, file.align)

Parse(file) == ParseFrom(file, AlignUp(file.infoEnd, file.align))

-----------------------------------------------------------------------------
(* Orders and placements.                                                      *)

Layouts == <<"GGUF_SOURCE_ORDER", "NAME_ORDER", "LAYER_MAJOR",
             "LAYER_MAJOR_ROLE_ORDER", "DEEPSEEK_HOT_ROLE_ORDER",
             "PREFIX_FRIENDLY">>

LastKey == U64Max

LayoutKey(layout, t) ==
  LET inner == IF layout = "LAYER_MAJOR" THEN <<t.name.id, t.ord>>
               ELSE RoleKey(t, layout = "DEEPSEEK_HOT_ROLE_ORDER")
  IN  CASE layout = "GGUF_SOURCE_ORDER" -> <<t.start, t.ord>>
        [] layout = "NAME_ORDER" -> <<t.name.id, t.ord>>
        [] t.group = "GlobalPre" -> <<0, -1>> \o inner
        [] t.group = "Layer" -> <<1, t.layer>> \o inner
        [] t.group = "GlobalPost" ->
             <<IF layout = "PREFIX_FRIENDLY" THEN 3 ELSE 2, LastKey, t.name.id, t.ord>>
        [] OTHER -> <<4, LastKey, t.name.id, t.ord>>

LayoutOrder(tensors, layout) ==
  SortSeq(tensors, LAMBDA s, t : Lex(LayoutKey(layout, s), LayoutKey(layout, t)))

SumOver(S, f(_)) == MapThenSumSet(f, S)
TotalOf(f) == SumOver(DOMAIN f, LAMBDA i : f[i])

\* Where each tensor goes, by ordinal; simulate raises on an unknown size.
Placement(a, layout, order) ==
  LET cursor[i \in 0..Len(order)] ==
        IF i = 0 THEN a.dataStart ELSE AlignUp(cursor[i - 1], a.align) + order[i].size
      at(i) == IF layout = "GGUF_SOURCE_ORDER" THEN order[i].start
               ELSE AlignUp(cursor[i - 1], a.align)
      pad == [i \in DOMAIN order |-> IF layout = "GGUF_SOURCE_ORDER" THEN order[i].gap
                                      ELSE at(i) - cursor[i - 1]]
  IN  IF \E i \in DOMAIN order : order[i].size = Unknown THEN Rejected
      ELSE [ok |-> TRUE, order |-> order,
            start |-> [o \in DOMAIN order |->
                         at(CHOOSE i \in DOMAIN order : order[i].ord = o)],
            payload |-> TotalOf([i \in DOMAIN order |-> order[i].size]),
            padding |-> TotalOf(pad)]

Simulate(a, layout) == Placement(a, layout, LayoutOrder(a.tensors, layout))

-----------------------------------------------------------------------------
(* Byte ranges of a selection of tensors.                                      *)

Interval(p, t) == <<p.start[t.ord], p.start[t.ord] + t.size>>

\* Ranges sorted by start, joined when they overlap or, on request, touch.
MergeIntervals(ranges, adjacent) ==
  LET join(merged, r) ==
        IF merged # <<>> /\ ( \/ r[1] < Last(merged)[2]
                              \/ adjacent /\ r[1] = Last(merged)[2])
        THEN Front(merged) \o <<<<Last(merged)[1], Max({Last(merged)[2], r[2]})>>>>
        ELSE Append(merged, r)
  IN  FoldLeft(join, <<>>, SortSeq(ranges, Lex))

MetricOf(selected, extents) ==
  [semantic |-> SumOver(selected, LAMBDA t : t.size),
   physical |-> SumOver(DOMAIN extents, LAMBDA i : extents[i][2] - extents[i][1]),
   ranges |-> Len(extents),
   last |-> Max({0} \cup {extents[i][2] : i \in DOMAIN extents})]

Metric(p, selected, adjacent) ==
  MetricOf(selected,
           MergeIntervals(SetToSeq({Interval(p, t) : t \in selected}), adjacent))

AllLayers(a) == {a.tensors[i].layer : i \in DOMAIN a.tensors} \ {NoLayer}

\* The tensors a model needs to run its first layers, none of them for -1.
PrefixTensors(a, last) ==
  {t \in Range(a.tensors) : \/ t.group = "GlobalPre"
                            \/ t.layer # NoLayer /\ t.layer <= last}

RowOf(a, none, exact) ==
  [semantic |-> exact.semantic, noneRanges |-> none.ranges,
   physical |-> exact.physical, ranges |-> exact.ranges,
   highest |-> IF exact.last = 0 THEN a.dataStart ELSE exact.last]

PrefixRow(a, p, last) ==
  RowOf(a, Metric(p, PrefixTensors(a, last), FALSE), Metric(p, PrefixTensors(a, last), TRUE))

LayerRow(a, p, layer) ==
  LET selected == {t \in Range(a.tensors) : t.layer = layer}
  IN  <<Metric(p, selected, FALSE), Metric(p, selected, TRUE)>>

-----------------------------------------------------------------------------
(* The tables the qualification writes for every artifact.                     *)

\* Count, least, median, ninetieth percentile, greatest and total.
Stats(values) ==
  LET v == SortSeq(values, <)
      n == Len(v)
  IN  IF n = 0 THEN [count |-> 0, total |-> 0]
      ELSE [count |-> n, min |-> v[1], median |-> v[(n - 1) \div 2 + 1],
            p90 |-> v[Min({n, (9 * n + 9) \div 10})], max |-> v[n],
            total |-> TotalOf(v)]

\* One row for all tensors, one for each layer and one for each role.
DistributionRows(a) ==
  LET known == {t \in Range(a.tensors) : t.size # Unknown}
      scopes == {<<"all", 0>>} \cup {<<"layer", t.layer>> : t \in known}
                               \cup {<<"role", t.role>> : t \in known}
      in(t, s) == CASE s[1] = "all" -> TRUE
                    [] s[1] = "layer" -> t.layer = s[2]
                    [] OTHER -> t.role = s[2]
      sizes(s) == LET ts == SetToSeq({t \in known : in(t, s)})
                  IN  [i \in DOMAIN ts |-> ts[i].size]
  IN  [s \in scopes |-> Stats(sizes(s))]

TypeRows(a) ==
  [type \in {t.type : t \in Range(a.tensors)} |->
     LET of == {t \in Range(a.tensors) : t.type = type}
     IN  <<Cardinality(of), SumOver(of, LAMBDA t : IF t.size = Unknown THEN 0 ELSE t.size)>>]

\* The windows of layers whose partial loading is compared.
Windows(a) ==
  LET layers == SortSeq(SetToSeq(AllLayers(a)), <)
      first(n) == Range(SubSeq(layers, 1, Min({n, Len(layers)})))
      n == Len(layers)
  IN  {first(1), first(2), first(4), first(8), first(n)}
        \cup IF n > 10 THEN {{10}, 10..Min({13, n - 1})} ELSE {}

WindowRow(a, p, window) ==
  LET selected == {t \in Range(a.tensors) : t.layer \in window}
  IN  <<Metric(p, selected, FALSE), Metric(p, selected, TRUE)>>

\* Where each layer ends in a layout.
Boundary(a, p, layer) ==
  Max({Interval(p, t)[2] : t \in {u \in Range(a.tensors) : u.layer = layer}})

Totals(p, all) ==
  [tensors |-> Len(p.order), payload |-> p.payload, padding |-> p.padding,
   span |-> p.payload + p.padding, ranges |-> all.ranges,
   semantic |-> all.semantic, physical |-> all.physical]

Comparison(p) == Totals(p, Metric(p, Range(p.order), TRUE))
=============================================================================
