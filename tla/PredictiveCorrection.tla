------------------------- MODULE PredictiveCorrection -------------------------
(* The lookup-table predictor of qualify_lut_predictive_correction.py.  The    *)
(* codes of a quantized tensor are predicted from a small table, and a payload *)
(* of corrections makes the prediction exact again.                            *)
(*                                                                             *)
(* A tensor is a function from <<row, block, unit>> to symbols of SymbolBits   *)
(* bits, rows, blocks and units counted from zero; its shape is the triple of  *)
(* their numbers.  A payload is a sequence of bytes of ByteBits bits (8 in the *)
(* source), so that small symbols still need several of them.                  *)
EXTENDS Integers, Sequences, FiniteSetsExt, SequencesExt

CONSTANTS ByteBits, SymbolBits

ASSUME BitsAssumption == {ByteBits, SymbolBits} \subseteq Nat \ {0}

Byte == 2 ^ ByteBits
Symbol == 2 ^ SymbolBits
SymbolBytes == (SymbolBits + ByteBits - 1) \div ByteBits

Rows(shape) == 0..(shape[1] - 1)
Blocks(shape) == 0..(shape[2] - 1)
Units(shape) == 0..(shape[3] - 1)
Cells(shape) == Rows(shape) \X Blocks(shape) \X Units(shape)
Size(shape) == shape[1] * shape[2] * shape[3]

\* tensor.reshape(-1), from 1.
Flat(tensor, shape) ==
  [i \in 1..Size(shape) |->
     tensor[<<(i - 1) \div (shape[2] * shape[3]), ((i - 1) \div shape[3]) % shape[2],
              (i - 1) % shape[3]>>]]

-----------------------------------------------------------------------------
(* The classes of rows and of columns, and the prediction.                     *)

Occurrences(value, values) == Cardinality({i \in DOMAIN values : values[i] = value})

\* Of the most frequent symbols the one whose negation, which wraps to an
\* unsigned symbol, is the smallest: zero before the others, then the largest.
mode_for(values) ==
  IF DOMAIN values = {} THEN 0
  ELSE LET present == {values[i] : i \in DOMAIN values}
           most == {v \in present : \A w \in present : Occurrences(w, values) <= Occurrences(v, values)}
       IN CHOOSE v \in most : \A w \in most : (- v) % Symbol <= (- w) % Symbol

\* A histogram of the groups of eight codes, zero counted once more.
Buckets == 0..3
feature_matrix(line) ==
  [b \in Buckets |->
     Cardinality({i \in DOMAIN line : line[i] \div 8 = b})
     + IF b = 0 THEN Occurrences(0, line) ELSE 0]

Precedes(f, g) == \E b \in Buckets : f[b] < g[b] /\ \A a \in 0..(b - 1) : f[a] = g[a]

\* features[i] of each line; the lines in order of their features, those that
\* tie in their own order, are cut into count classes.
balanced_classes(features, count) ==
  LET lines == DOMAIN features
      rank(i) == Cardinality({j \in lines : \/ Precedes(features[j], features[i])
                                            \/ features[j] = features[i] /\ j < i})
      label(i) == (rank(i) * count) \div Cardinality(lines)
  IN [i \in lines |-> IF count = 1 THEN 0 ELSE Min({count - 1, label(i)})]

Line(codes, shape, axis, i) ==
  [c \in {c \in Cells(shape) : c[axis] = i} |-> codes[c]]

\* axis 1 gives the classes of the rows, 2 those of the blocks.
class_assignments(codes, shape, axis, count) ==
  balanced_classes([i \in 0..(shape[axis] - 1) |-> feature_matrix(Line(codes, shape, axis, i))],
                   count)

\* The cells that share one entry of the table with c.
SharedCells(shape, c, rowClass, columnClass, level) ==
  {d \in Cells(shape) :
     CASE level = "L0" -> TRUE
       [] level = "L1" -> d[2] = c[2]
       [] level = "L2" -> d[1] = c[1]
       [] level = "L3" -> rowClass[d[1]] = rowClass[c[1]] /\ columnClass[d[2]] = columnClass[c[2]]}

make_prediction(codes, shape, rowClass, columnClass, level) ==
  [c \in Cells(shape) |->
     mode_for([d \in SharedCells(shape, c, rowClass, columnClass, level) |-> codes[d]])]

-----------------------------------------------------------------------------
(* The corrections: for each block of cells the number of exceptions, the map  *)
(* of the matches, and the exceptions.                                         *)

\* value.to_bytes(width, "little")
ToBytes(value, width) == [k \in 1..width |-> (value \div Byte ^ (k - 1)) % Byte]
FromBytes(bytes) == MapThenSumSet(LAMBDA k : bytes[k] * Byte ^ (k - 1), DOMAIN bytes)

\* np.packbits and np.unpackbits, the first flag in the lowest bit.
PackBits(flags) ==
  [k \in 1..((Len(flags) + ByteBits - 1) \div ByteBits) |->
     MapThenSumSet(LAMBDA i : 2 ^ ((i - 1) % ByteBits),
                   {i \in DOMAIN flags : (i - 1) \div ByteBits = k - 1 /\ flags[i]})]
UnpackBits(bytes, length) ==
  [i \in 1..length |->
     (bytes[(i - 1) \div ByteBits + 1] \div 2 ^ ((i - 1) % ByteBits)) % 2 = 1]

CountBytes == 2

Starts(length, block) == {i \in 1..length : (i - 1) % block = 0}

PackBlock(target, prediction) ==
  LET match == [i \in DOMAIN target |-> target[i] = prediction[i]]
      exceptions == SelectSeq(Zip(target, match), LAMBDA p : ~ p[2])
  IN ToBytes(Len(exceptions), CountBytes) \o PackBits(match)
       \o FlattenSeq([k \in DOMAIN exceptions |-> ToBytes(exceptions[k][1], SymbolBytes)])

pack_match_exceptions(target, prediction, block) ==
  FoldLeft(LAMBDA packed, i :
             LET last == Min({i + block - 1, Len(target)})
             IN packed \o PackBlock(SubSeq(target, i, last), SubSeq(prediction, i, last)),
           <<>>, SetToSortSeq(Starts(Len(target), block), <))

\* The start of the next block is not moved by the exceptions of this one.
UnpackBlockStuck(prediction, payload, cursor) ==
  LET length == Len(prediction)
      map == cursor + CountBytes
      bytes == (length + ByteBits - 1) \div ByteBits
      match == UnpackBits(SubSeq(payload, map, map + bytes - 1), length)
  IN [cells |-> [i \in 1..length |->
                   IF match[i] THEN prediction[i]
                   ELSE FromBytes(SubSeq(payload, map + bytes, map + bytes + SymbolBytes - 1))],
      next |-> map + bytes + SymbolBytes * Cardinality({i \in 1..length : ~ match[i]}),
      agrees |-> TRUE]

\* A block of length cells at cursor: [cells, next, agrees], agrees telling
\* whether the count is that of the map.
UnpackBlock(prediction, payload, cursor) ==
  LET length == Len(prediction)
      map == cursor + CountBytes
      bytes == (length + ByteBits - 1) \div ByteBits
      match == UnpackBits(SubSeq(payload, map, map + bytes - 1), length)
      missed(i) == Cardinality({j \in 1..(i - 1) : ~ match[j]})
      value(i) == map + bytes + missed(i) * SymbolBytes
  IN [cells |-> [i \in 1..length |->
                   IF match[i] THEN prediction[i]
                   ELSE FromBytes(SubSeq(payload, value(i), value(i) + SymbolBytes - 1))],
      next |-> value(length + 1),
      agrees |-> FromBytes(SubSeq(payload, cursor, map - 1)) = missed(length + 1)]

Refusal == <<-1>>

\* The corrected codes, or a refusal: a count that its map belies, or bytes left.
unpack_match_exceptions(prediction, payload, block) ==
  LET done == FoldLeft(LAMBDA s, i :
                  LET last == Min({i + block - 1, Len(prediction)})
                      b == UnpackBlock(SubSeq(prediction, i, last), payload, s.next)
                  IN [cells |-> s.cells \o b.cells, next |-> b.next, agrees |-> s.agrees /\ b.agrees],
                [cells |-> <<>>, next |-> 1, agrees |-> TRUE],
                SetToSortSeq(Starts(Len(prediction), block), <))
  IN IF done.agrees /\ done.next = Len(payload) + 1 THEN done.cells ELSE Refusal

-----------------------------------------------------------------------------
(* A block of the quantized tensor: metadata around the field of the codes.    *)
(* spec is [offset, codes]: the codes are codes bytes at offset.               *)

target_payload(raw, spec) ==
  [codes |-> [k \in 1..(spec.codes \div SymbolBytes) |->
                FromBytes(SubSeq(raw, spec.offset + (k - 1) * SymbolBytes + 1,
                                      spec.offset + k * SymbolBytes))],
   metadata |-> SubSeq(raw, 1, spec.offset) \o SubSeq(raw, spec.offset + spec.codes + 1, Len(raw))]

restore_payload(codes, metadata, spec) ==
  SubSeq(metadata, 1, spec.offset)
    \o FlattenSeq([k \in DOMAIN codes |-> ToBytes(codes[k], SymbolBytes)])
    \o SubSeq(metadata, spec.offset + 1, Len(metadata))

-----------------------------------------------------------------------------
(* What a code is said to cost.                                                *)

\* The lengths that huffman_lengths returns.  Of the tree it builds it keeps
\* nothing: a symbol of n occurrences in total has the least k >= 1 with
\* n 2^k >= total, and one symbol alone has one bit.
huffman_lengths(values) ==
  [v \in {values[i] : i \in DOMAIN values} |->
     CHOOSE k \in 1..Cardinality(DOMAIN values) :
       /\ Occurrences(v, values) * 2 ^ k >= Cardinality(DOMAIN values)
       /\ k = 1 \/ Occurrences(v, values) * 2 ^ (k - 1) < Cardinality(DOMAIN values)]

=============================================================================
