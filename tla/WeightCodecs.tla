----------------------------- MODULE WeightCodecs -----------------------------
(* The codecs of the weight experiments on chosen inputs.  A state holds one   *)
(* question put to them, a record of the functions named by kind; the          *)
(* properties say what every answer must be.                                   *)
EXTENDS TraceableMutation, PredictiveCorrection, SegmentSearch

CONSTANTS Words, Tensors, Codes, Cuts, Searches, Preparations   \* the questions

VARIABLES kind, question

codecVars == <<kind, question>>

NoQuestion == [none |-> TRUE]

Kinds == {"word", "tensor", "codes", "cuts", "search", "prepare"}

Init == kind \in Kinds /\ question = NoQuestion

Asked(k) == kind = k /\ question # NoQuestion

Ask(k, questions) ==
  /\ question = NoQuestion
  /\ kind = k
  /\ question' \in questions
  /\ UNCHANGED kind

Next ==
  \/ Ask("word", Words)
  \/ Ask("tensor", Tensors)
  \/ Ask("codes", Codes)
  \/ Ask("cuts", Cuts)
  \/ Ask("search", Searches)
  \/ Ask("prepare", Preparations)

Spec == Init /\ [][Next]_codecVars

-----------------------------------------------------------------------------
(* Traceable mutation.                                                         *)

StateOf(q, rounds, seed, lane) ==
  integer_states(q.family, rounds, seed, q.ordinal, lane, q.aware)

\* Running the rounds backward from what a lane holds gives the seed, for every
\* seed: the encoder projects with reverse_integer_state, the decoder runs
\* integer_states.
ReverseUndoes ==
  Asked("word") =>
    \A seed \in 0..(Word - 1), lane \in 0..2, rounds \in Rounds :
      reverse_integer_state(question.family, rounds, StateOf(question, rounds, seed, lane),
                            question.ordinal, lane, question.aware) = seed

\* The lanes of the jump family, and its rounds, are consecutive states of one
\* generator, although affine_jump reaches each of them by squaring.
LanesAreConsecutive ==
  Asked("word") /\ question.family = "M0_LCG_JUMP" =>
    \A seed \in 0..(Word - 1), lane \in 0..2, rounds \in Rounds \ {4} :
      /\ StateOf(question, rounds, seed, lane + 1)
           = u32(StateOf(question, rounds, seed, lane) * LcgA + LcgB)
      /\ StateOf(question, rounds + 1, seed, lane) = StateOf(question, rounds, seed, lane + 1)

EncodedRounds(q, batch) == [r \in 1..5 |-> encode(q.flat, q.scales, q.family, r - 1, q.aware, batch)]

\* What a segment of mixed rounds decodes to, in batches of another size than it
\* was encoded in, has the error that mix_rounds recorded, and this is no larger
\* than that of any single number of rounds.
MixedReproduces ==
  Asked("tensor") =>
    \A items \in {EncodedRounds(question, 2)} : \A mixed \in {mix_rounds(items)} :
      \A decoded \in {reconstruct_mixed(mixed, 3)}, i \in DOMAIN question.flat :
        LET target == question.flat[i]
            over == decoded[i][0][2]
            sse == mixed.fits[i].sse
            error(l) == decoded[i][l][1] - target[l + 1] * over
        IN /\ MapThenSumSet(LAMBDA l : error(l) * error(l), Lanes(target)) * sse[2]
                = sse[1] * over * over
           /\ \A r \in 1..5 : ~ LessRatio(items[r].fits[i].sse, sse)

\* Encoder and decoder see the same rounds: one by one or in one jump, of one
\* number for a tensor or of one for each segment.
RoundsAreExact == ReverseUndoes /\ LanesAreConsecutive /\ MixedReproduces

-----------------------------------------------------------------------------
(* Predictive correction.                                                      *)

RowClass(q) == class_assignments(q.codes, q.shape, 1, q.counts[1])
ColumnClass(q) == class_assignments(q.codes, q.shape, 2, q.counts[2])

Prediction(q, level) ==
  Flat(make_prediction(q.codes, q.shape, RowClass(q), ColumnClass(q), level), q.shape)

\* The codes of a tensor within its blocks, as its file would hold them: one
\* byte of metadata before and one after.
Raw(q) == <<1>> \o FlattenSeq([i \in 1..Size(q.shape) |-> ToBytes(Flat(q.codes, q.shape)[i], SymbolBytes)])
            \o <<2>>
Spec0(q) == [offset |-> 1, codes |-> Size(q.shape) * SymbolBytes]

\* At every level the corrections restore the file byte for byte, whatever the
\* block size, and a payload with a byte more is refused.
CorrectionRoundTrips ==
  Asked("codes") =>
    \A split \in {target_payload(Raw(question), Spec0(question))},
       level \in {"L0", "L1", "L2", "L3"}, block \in {1, 2, 3, 4} :
      \A prediction \in {Prediction(question, level)} :
        \A payload \in {pack_match_exceptions(split.codes, prediction, block)} :
          /\ unpack_match_exceptions(prediction, Append(payload, 0), block) = Refusal
          /\ \A restored \in {unpack_match_exceptions(prediction, payload, block)} :
               /\ restored # Refusal
               /\ restore_payload(restored, split.metadata, Spec0(question)) = Raw(question)

\* The lengths that the accounting uses are those of some prefix code: no table
\* of codes is counted cheaper than one can be.
AccountedIsPrefixCode ==
  Asked("codes") =>
    LET lengths == huffman_lengths(Flat(question.codes, question.shape))
        longest == Max({lengths[v] : v \in DOMAIN lengths})
    IN MapThenSumSet(LAMBDA v : 2 ^ (longest - lengths[v]), DOMAIN lengths) <= 2 ^ longest

\* What is restored is what was there, at lengths that a code can have.
CorrectionIsExact == CorrectionRoundTrips /\ AccountedIsPrefixCode

-----------------------------------------------------------------------------
(* Searches and cuts.                                                          *)

CutsOf(total, lengths) ==
  {cut \in UNION {[1..n -> {lengths[i] : i \in DOMAIN lengths}] : n \in 1..total} :
     FoldLeft(LAMBDA sum, l : sum + l, 0, cut) = total}

StartOf(cut, i) == FoldLeft(LAMBDA sum, l : sum + l, 0, SubSeq(cut, 1, i - 1))
Pieces(cut) == [i \in DOMAIN cut |-> <<StartOf(cut, i), cut[i]>>]
Cost(pieces, costs) == MapThenSumSet(LAMBDA i : costs[pieces[i]], DOMAIN pieces)
Priced(pieces, costs) == \A i \in DOMAIN pieces : pieces[i] \in DOMAIN costs

\* The segmentation covers the weights without gap or overlap and no other one
\* of known cost is cheaper; it is refused only when there is none.
SegmentationIsOptimal ==
  Asked("cuts") =>
    LET found == exact_segmentation(question.total, question.lengths, question.costs)
        known == {p \in {Pieces(c) : c \in CutsOf(question.total, question.lengths)} :
                    Priced(p, question.costs)}
    IN /\ found = NoCut <=> known = {}
       /\ found # NoCut =>
            /\ found \in known
            /\ \A p \in known : Cost(found, question.costs) <= Cost(p, question.costs)

Codebook(q) ==
  LET codes(family, seeds) == generator_codebook(family, seeds, Len(q.target), q.hash)
  IN IF q.family = "G4_TINY_BASIS"
       THEN LET basis == codes("G0_HASH_SIGN", {0, 1})
            IN [s \in 0..3 |-> tiny_basis(s, <<basis[0], basis[1]>>)]
       ELSE codes(q.family, {0, 1})

Denominator == 2

\* No seed, scale and bias on a grid comes nearer to the target than those that
\* encode_fixed picks in closed form; and the codewords of the dense family are
\* the bits of the mixed bytes, which popcount8 counts by halves.
SearchIsExhaustive ==
  Asked("search") =>
    \A codebook \in {Codebook(question)} :
      /\ question.family = "G2_CENTER_DENSE" =>
           \A s \in DOMAIN codebook, l \in DOMAIN question.target :
             codebook[s][l] + 4
               = Cardinality({i \in 0..7 : (question.hash[<<s, l>>] \div 2 ^ i) % 2 = 1})
      /\ \A found \in {encode_segment(question.target, question.family, codebook)} \ {Unencodable} :
           LET over == Len(question.target) * found.scale[2]
               biases == IF Affine(question.family) THEN -3..3 ELSE {0}
           IN \A seed \in DOMAIN codebook, scale \in -3..3, bias \in biases :
                ~ SmallerRatio(
                    <<SquaredError(question.target,
                                   [l \in DOMAIN question.target |-> codebook[seed][l] * scale + bias],
                                   Denominator), Denominator * Denominator>>,
                    <<SquaredError(question.target, reconstruct(found, codebook), over), over * over>>)

\* Nothing that the searches pass over is better than what they return.
SearchesAreOptimal == SegmentationIsOptimal /\ SearchIsExhaustive

-----------------------------------------------------------------------------
(* Prepared coordinates.                                                       *)

Permutations0(q) ==
  LET byStatistic == statistic_permutation(q.rows)
      byCluster == cluster_permutation(q.label, q.rows[1], q.clusterOrder)
      \* the screen of codec_rmse_sample, here the weight of unequal neighbours
      objective == [p \in [DOMAIN q.vector -> DOMAIN q.vector] |-> MapThenSumSet(
        LAMBDA i : (q.rows[1][p[i]] - q.rows[1][p[i - 1]]) * (q.rows[1][p[i]] - q.rows[1][p[i - 1]]),
        2..Len(p))]
      aware == codec_aware_permutation(byStatistic, q.swaps, objective)
  IN [statistic |-> byStatistic, cluster |-> byCluster, aware |-> aware.permutation,
      worse |-> aware.objective > objective[byStatistic]
                \/ aware.objective # objective[aware.permutation]]

\* Prepared weights applied to prepared activations give what the original ones
\* give, times the block that the unscaled mixing leaves; the permutations that
\* the searches return are permutations and the codec's search never ends worse.
PreparedIsEquivalent ==
  Asked("prepare") =>
    LET found == Permutations0(question)
        Same(permutation) ==
          LET transform == [permutation |-> permutation, signs |-> question.signs,
                            scales |-> question.scales, block |-> question.block]
          IN \A r \in DOMAIN question.rows :
               Product(prepared_weights(transform, question.rows[r]),
                       prepared_activations(transform, question.vector))
                 = Product(question.rows[r], question.vector)
                     * (IF question.block = 0 THEN 1 ELSE question.block)
    IN /\ ~ found.worse
       /\ \A p \in {found.statistic, found.cluster, found.aware} :
            /\ {p[i] : i \in DOMAIN p} = DOMAIN question.vector
            /\ Len(p) = Len(question.vector)
            /\ Same(p)

=============================================================================
