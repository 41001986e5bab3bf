---------------------------- MODULE SegmentSearch ----------------------------
(* The two other experiments on stored weights: generated codewords            *)
(* (qualify_implicit_weight_feasibility.py), where a segment is the seed of a  *)
(* codeword with a scale and perhaps a bias, and prepared coordinates          *)
(* (qualify_weight_space_preparation.py), where columns are permuted, scaled   *)
(* or mixed before the same codec runs.                                        *)
(*                                                                             *)
(* Weights are small integers and a segment is a sequence of them.  Quotients  *)
(* are kept as ratios <<numerator, denominator>>; half precision is not        *)
(* modelled.                                                                   *)
EXTENDS Integers, Sequences, FiniteSetsExt, SequencesExt, Bitwise

Total(f) == MapThenSumSet(LAMBDA i : f[i], DOMAIN f)
Product(f, g) == MapThenSumSet(LAMBDA i : f[i] * g[i], DOMAIN f)

-----------------------------------------------------------------------------
(* The codewords.                                                              *)

\* The bits of a byte, by halves: the additions are those of the source.
popcount8(value) ==
  LET pairs == value - ((value \div 2) & 85)
      nibbles == (pairs & 51) + ((pairs \div 4) & 51)
  IN ((nibbles + nibbles \div 16) % 256) & 15

\* hash[<<seed, l>>] is a mixed byte.  A sign is its highest bit, a value its
\* signed self, and the dense one half of its bits above four: here doubled.
Affine(family) == family = "G1_HASH_AFFINE"

generator_codebook(family, seeds, length, hash) ==
  [s \in seeds |->
     [l \in 1..length |->
        LET byte == hash[<<s, l>>]
        IN CASE family = "G0_HASH_SIGN" -> IF byte >= 128 THEN 1 ELSE -1
             [] family = "G1_HASH_AFFINE" -> IF byte >= 128 THEN byte - 256 ELSE byte
             [] family = "G2_CENTER_DENSE" -> popcount8(byte) - 4]]

\* G4: a seed's bits are the signs of the basis codewords that are added.
tiny_basis(seed, basis) ==
  [l \in DOMAIN basis[1] |->
     MapThenSumSet(LAMBDA b : basis[b][l] * (IF (seed \div 2 ^ (b - 1)) % 2 = 1 THEN 1 ELSE -1),
                   DOMAIN basis)]

\* A vector less its mean, multiplied by its length.
Centred(v) == [i \in DOMAIN v |-> Len(v) * v[i] - Total(v)]

Fitted(family, v) == IF Affine(family) THEN Centred(v) ELSE v

SmallerRatio(p, q) == p[1] * q[2] < q[1] * p[2]

Unencodable == [seed |-> -1]

\* The segment's seed, scale and bias, or a refusal: a codeword of no energy.
\* The score is dots^2 / norms, the first of the best seeds wins.
encode_segment(target, family, codebook) ==
  LET seeds == DOMAIN codebook
      code(s) == Fitted(family, codebook[s])
      norm(s) == Product(code(s), code(s))
      dot(s) == Product(Fitted(family, target), code(s))
      better(s, t) == SmallerRatio(<<dot(t) * dot(t), norm(t)>>, <<dot(s) * dot(s), norm(s)>>)
      best == CHOOSE s \in seeds : \A t \in seeds : ~ better(t, s) /\ (t < s => better(s, t))
  IN IF \E s \in seeds : norm(s) <= 0 THEN Unencodable
     ELSE [seed |-> best, scale |-> <<dot(best), norm(best)>>,
           \* (target mean - scale * code mean), over length * norm
           bias |-> IF Affine(family)
                      THEN Total(target) * norm(best) - dot(best) * Total(codebook[best])
                      ELSE 0]

\* The decoded segment, over length * norm.
reconstruct(encoded, codebook) ==
  LET code == codebook[encoded.seed]
  IN [l \in DOMAIN code |-> code[l] * encoded.scale[1] * Len(code) + encoded.bias]

SquaredError(target, values, over) ==
  MapThenSumSet(LAMBDA l : (values[l] - over * target[l]) * (values[l] - over * target[l]),
                DOMAIN target)

-----------------------------------------------------------------------------
(* The cheapest way to cut total elements into segments whose cost is known:   *)
(* costs maps some <<start, length>> to a number.                              *)

NoCut == <<>>

\* The first length that reaches an end keeps it.
exact_segmentation_greedy(total, lengths, costs) ==
  LET Best[end \in 0..total] ==
        IF end = 0 THEN <<0, NoCut>>
        ELSE FoldLeft(LAMBDA best, length :
               LET start == end - length
               IN IF \/ start < 0 \/ best # NoCut
                     \/ Best[start] = NoCut \/ <<start, length>> \notin DOMAIN costs THEN best
                  ELSE <<Best[start][1] + costs[<<start, length>>], <<start, length>>>>,
             NoCut, lengths)
      Path[end \in 0..total] ==
        IF end = 0 THEN <<>> ELSE Append(Path[Best[end][2][1]], Best[end][2])
  IN IF Best[total] = NoCut THEN NoCut ELSE Path[total]

exact_segmentation(total, lengths, costs) ==
  LET \* Best[end] is <<cost, last segment>>, or NoCut when end is not reached.
      Best[end \in 0..total] ==
        IF end = 0 THEN <<0, NoCut>>
        ELSE FoldLeft(LAMBDA best, length :
               LET start == end - length
                   offered == Best[start][1] + costs[<<start, length>>]
               IN IF start < 0 THEN best
                  ELSE IF Best[start] = NoCut \/ <<start, length>> \notin DOMAIN costs THEN best
                  ELSE IF best = NoCut THEN <<offered, <<start, length>>>>
                  ELSE IF offered < best[1] THEN <<offered, <<start, length>>>> ELSE best,
             NoCut, lengths)
      Path[end \in 0..total] ==
        IF end = 0 THEN <<>> ELSE Append(Path[Best[end][2][1]], Best[end][2])
  IN IF Best[total] = NoCut THEN NoCut ELSE Path[total]

-----------------------------------------------------------------------------
(* Prepared coordinates.  A transform is [permutation, signs, scales, block];  *)
(* the functions are over the columns, block 0 mixes nothing.                  *)

Butterfly(values, width) ==
  [i \in DOMAIN values |->
     IF ((i - 1) \div width) % 2 = 0 THEN values[i] + values[i + width]
     ELSE values[i - width] - values[i]]

\* Without the factor 1 / sqrt(block), block being a power of two.
hadamard(values, block) ==
  FoldLeft(Butterfly, values,
           SetToSortSeq({2 ^ n : n \in {n \in 0..block : 2 ^ n < block}}, <))

Mixed(transform, values) ==
  IF transform.block = 0 THEN values ELSE hadamard(values, transform.block)

\* One row of the weights, and one vector of activations.
prepared_weights(transform, row) ==
  Mixed(transform, [i \in DOMAIN row |->
    (row[transform.permutation[i]] * transform.signs[i]) \div transform.scales[i]])

\* The permutation applied the other way round.
prepared_activations_inverse(transform, vector) ==
  Mixed(transform, [i \in DOMAIN vector |->
    vector[CHOOSE j \in DOMAIN vector : transform.permutation[j] = i]
      * transform.signs[i] * transform.scales[i]])

prepared_activations(transform, vector) ==
  Mixed(transform, [i \in DOMAIN vector |->
    vector[transform.permutation[i]] * transform.signs[i] * transform.scales[i]])

Sorted(columns, Less(_, _)) == SetToSortSeq(columns, Less)

\* The columns by their energy, then their mean, then their place.
statistic_permutation(rows) ==
  LET columns == DOMAIN rows[1]
      energy(c) == MapThenSumSet(LAMBDA r : rows[r][c] * rows[r][c], DOMAIN rows)
      mean(c) == MapThenSumSet(LAMBDA r : rows[r][c], DOMAIN rows)
  IN Sorted(columns, LAMBDA c, d :
       \/ energy(c) < energy(d)
       \/ energy(c) = energy(d) /\ mean(c) < mean(d)
       \/ energy(c) = energy(d) /\ mean(c) = mean(d) /\ c < d)

\* The clusters in their order, each one's columns by their projection.
cluster_permutation(label, projection, clusterOrder) ==
  FlattenSeq([k \in DOMAIN clusterOrder |->
    Sorted({c \in DOMAIN label : label[c] = clusterOrder[k]},
           LAMBDA c, d : projection[c] < projection[d] \/ (projection[c] = projection[d] /\ c < d))])

\* Swaps are tried one after the other and kept when the objective, a function
\* of permutations, falls.
codec_aware_permutation(initial, swaps, objective) ==
  FoldLeft(LAMBDA s, swap :
             LET candidate == [s.permutation EXCEPT ![swap[1]] = s.permutation[swap[2]],
                                                    ![swap[2]] = s.permutation[swap[1]]]
             IN IF objective[candidate] < s.objective
                  THEN [permutation |-> candidate, objective |-> objective[candidate],
                        accepted |-> s.accepted + 1]
                  ELSE s,
           [permutation |-> initial, objective |-> objective[initial], accepted |-> 0], swaps)

=============================================================================
