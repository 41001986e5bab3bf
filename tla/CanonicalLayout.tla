---------------------------- MODULE CanonicalLayout ----------------------------
(* The layout of a vBuf 0.6 file as four programs compute it: the deterministic *)
(* writer of the conformance fixtures (build_v06_conformance_fixtures.py), the  *)
(* equations that verify the normative vectors (verify_v06_spec_vectors.py),    *)
(* the reader (rust/src/v06.rs) and the planner that chooses a BaseShift for a  *)
(* conversion (qualify_step26_qwen32b.py).                                      *)
(*                                                                              *)
(* A block to write is [key, width, count, shift, cont]: width is in bits and   *)
(* shift is the payload shift.  A file is its header, its length and the anchors *)
(* it holds, each with the place where it is and the count that follows it.      *)
(* InlineMax stands for 65535, the largest count an anchor holds, and U64Max for *)
(* the largest u64.                                                              *)
EXTENDS Integers, Sequences, FiniteSets
LOCAL INSTANCE SequencesExt
LOCAL INSTANCE FiniteSetsExt
LOCAL INSTANCE Functions

CONSTANTS InlineMax, U64Max

MinHeader == 24
Refused == -1      \* a VectorError

Round(value, alignment) == ((value + alignment - 1) \div alignment) * alignment

-----------------------------------------------------------------------------
(* The writer.                                                                 *)

\* The fields of a block's anchor; a long count leaves the inline count zero.
Anchor(b, count64) ==
  [key |-> b.key, width |-> b.width, shift |-> b.shift, cont |-> b.cont,
   ext |-> count64, inline |-> IF count64 THEN 0 ELSE b.count]

Bytes(b) == (b.count * b.width + 7) \div 8

Canonical(blocks, baseShift, header) ==
  LET step == 2^baseShift
      data == Round(header, step)
      put(rows, b) ==
        LET at == IF rows = <<>> THEN data ELSE Round(Last(rows).end, step)
            long == b.count > InlineMax
            payload == Round(at + (IF long THEN 16 ELSE 8), step * 2^b.shift)
        IN  Append(rows, [anchor |-> Anchor(b, long), count |-> b.count,
                          start |-> at, payload |-> payload,
                          end |-> payload + Bytes(b)])
      rows == FoldLeft(put, <<>>, blocks)
      end == IF rows = <<>> THEN data ELSE Last(rows).end
  IN  [base |-> baseShift, header |-> header, data |-> data, rows |-> rows,
       size |-> end - data, length |-> end]

-----------------------------------------------------------------------------
(* The normative equations.  Refused where the script raises.                  *)

BaseStep(shift) == IF shift \in 3..8 THEN 2^shift ELSE Refused

DataRegionStart(shift, header) ==
  IF header < MinHeader \/ header % 8 # 0 \/ BaseStep(shift) = Refused
  THEN Refused ELSE Round(header, BaseStep(shift))

PayloadAlignment(shift, payloadShift) ==
  IF payloadShift < 0 \/ shift + payloadShift > 63 THEN Refused
  ELSE shift + payloadShift

PayloadBytes(count, width) ==
  IF count * width > U64Max THEN Refused
  ELSE (count * width) \div 8 + (IF (count * width) % 8 # 0 THEN 1 ELSE 0)

ValidateCountForm(ext, count, inline) ==
  IF ext THEN count > InlineMax /\ inline = 0
  ELSE count <= InlineMax /\ inline = count

\* A block at start: where its payload begins and ends, Refused if it may not.
ValidBlock(file, row) ==
  LET shift == PayloadAlignment(file.base, row.anchor.shift)
      head == row.start + (IF row.anchor.ext THEN 16 ELSE 8)
      bytes == PayloadBytes(row.count, row.anchor.width)
  IN  /\ row.start % BaseStep(file.base) = 0
      /\ ValidateCountForm(row.anchor.ext, row.count, row.anchor.inline)
      /\ shift # Refused /\ bytes # Refused
      /\ row.payload = Round(head, 2^shift) /\ row.end = row.payload + bytes

VerifyContinuation(rows) ==
  \A i \in DOMAIN rows :
    rows[i].anchor.cont =>
      i < Len(rows) /\ rows[i + 1].anchor.key = rows[i].anchor.key

\* A vector given as a file: the header, the declared size against the length,
\* and the first block, taken to have a short count and no payload shift.
VerifyFileHex(file) ==
  LET start == DataRegionStart(file.base, file.header)
      first == Head(file.rows).anchor
      bytes == PayloadBytes(first.inline, first.width)
  IN  /\ start # Refused
      /\ start + file.size <= U64Max /\ start + file.size = file.length
      /\ file.rows # <<>> /\ bytes # Refused
      /\ Round(start + 8, BaseStep(file.base)) + bytes = file.length

-----------------------------------------------------------------------------
(* The reader.  It walks from block to block: at is where it is, need the key   *)
(* that a continued block demands of the next one, done that it met the end.    *)

NoKey == -1

\* Where the payload of the block at this place begins and ends; a long count
\* is the word behind the anchor.
Extent(file, at, row) ==
  LET count == IF row.anchor.ext THEN row.count ELSE row.anchor.inline
      payload == Round(at + (IF row.anchor.ext THEN 16 ELSE 8),
                       2^(file.base + row.anchor.shift))
  IN  [payload |-> payload, end |-> payload + (count * row.anchor.width + 7) \div 8,
       fits |-> count * row.anchor.width <= U64Max]

\* The anchor lies in the region, continues what was continued, and has the one
\* form its count may have; nothing of the payload lies outside the region.
ReadsBlock(file, s, row) ==
  /\ s.at = row.start /\ s.at + (IF row.anchor.ext THEN 16 ELSE 8) <= file.length
  /\ s.need \in {NoKey, row.anchor.key}
  /\ row.anchor.ext => row.anchor.inline = 0 /\ row.count > InlineMax
  /\ file.base + row.anchor.shift <= 63
  /\ \E b \in {Extent(file, s.at, row)} :
       /\ b.fits /\ b.end <= file.length
       /\ Round(b.end, 2^file.base) < file.length \/ (b.end = file.length /\ ~ row.anchor.cont)

Walk(file, start) ==
  LET next(s, row) ==
        IF s.done \/ ~ s.ok THEN s
        ELSE IF ~ ReadsBlock(file, s, row) THEN [s EXCEPT !.ok = FALSE]
        ELSE LET end == Extent(file, s.at, row).end
             IN  [s EXCEPT !.at = Round(end, 2^file.base), !.done = end = file.length,
                           !.need = IF row.anchor.cont THEN row.anchor.key ELSE NoKey]
  IN  FoldLeft(next, [at |-> start, need |-> NoKey, done |-> start = file.length, ok |-> TRUE],
               file.rows)

ParseV06(file) ==
  /\ file.base \in 3..8 /\ file.header >= MinHeader /\ file.header % 8 = 0
  /\ \E start \in {Round(file.header, 2^file.base)} :
       /\ start + file.size <= U64Max /\ start + file.size = file.length
       /\ \E s \in {Walk(file, start)} : s.ok /\ s.done

-----------------------------------------------------------------------------
(* The conformance fixtures: files that a reader accepts, and the corruptions  *)
(* of a header field, a size or an anchor that it refuses.                     *)

Plain(key, width, count) ==
  [key |-> key, width |-> width, count |-> count, shift |-> 0, cont |-> FALSE]

Basic == Canonical(<<Plain(1, 32, 3)>>, 3, MinHeader)

Linked(key) == [Plain(key, 8, 1) EXCEPT !.cont = TRUE]

\* A header, and of its only block no more than the first size bytes.
Announces(anchor, count, size) ==
  [base |-> 3, header |-> MinHeader, data |-> MinHeader, size |-> size,
   length |-> MinHeader + size,
   rows |-> <<[anchor |-> anchor, count |-> count, start |-> MinHeader]>>]

\* The same file without its last bytes.
Cut(file, bytes) == [file EXCEPT !.length = @ - bytes, !.size = @ - bytes]

\* The header alone, and a size it declares.
Declares(size) == [Basic EXCEPT !.rows = <<>>, !.length = MinHeader, !.size = size]

Accepted ==
  {Basic, Canonical(<<>>, 3, MinHeader), Canonical(<<Plain(2, 8, 0)>>, 3, MinHeader),
   Canonical(<<Linked(7), Linked(7), Plain(7, 8, 1)>>, 3, MinHeader),
   Canonical(<<Plain(7, 8, 1), Plain(7, 8, 1)>>, 3, MinHeader),
   Canonical(<<>>, 3, 32),
   Canonical(<<Plain(10, 8, 3), Plain(11, 16, 2), Plain(13, 64, 2), Linked(22), Plain(22, 8, 1)>>,
             4, MinHeader)}

Corrupt ==
  LET long == Anchor(Plain(1, 8, InlineMax + 1), TRUE)
  IN  {[Basic EXCEPT !.base = 2], [Basic EXCEPT !.base = 9], [Basic EXCEPT !.header = 25],
       [Declares(4) EXCEPT !.length = @ + 4],                       \* truncated-anchor
       Announces(long, InlineMax + 1, 8),                           \* truncated-extended-count
       Announces(Anchor(Plain(1, 64, 0), TRUE), U64Max, 16),        \* count-overflow
       Cut(Basic, 1),                                               \* payload-truncated-byte
       Cut(Canonical(<<Plain(2, 64, 2)>>, 3, MinHeader), 8),        \* payload-truncated-element
       Announces(Anchor([Plain(1, 8, 1) EXCEPT !.shift = 61], FALSE), 1, 8),
       [Basic EXCEPT !.size = 21], Declares(U64Max), Declares(U64Max - MinHeader),
       Cut(Basic, -4),                                              \* final-tail-padding
       Announces(Anchor(Plain(1, 8, 1), TRUE), 1, 16),              \* noncanonical-extended-small
       Announces([long EXCEPT !.inline = 1], InlineMax + 1, 16),    \* noncanonical-extended-inline
       Canonical(<<Linked(7)>>, 3, MinHeader),
       Canonical(<<Linked(7), Plain(8, 8, 1)>>, 3, MinHeader)}

-----------------------------------------------------------------------------
(* The planner.  It knows of an entry how many bytes its payload has and its    *)
(* layer, and takes the bytes for the count that decides the long form.         *)

NotTensor == -1

\* Mutant: the limit itself takes the long form.
PlanRowsEarly(entries, baseShift) ==
  LET step == 2^baseShift
      put(rows, e) ==
        LET at == Round(IF rows = <<>> THEN Round(MinHeader, step) ELSE Last(rows).end, step)
            payload == Round(at + (IF e.payload >= InlineMax THEN 16 ELSE 8), step)
        IN  Append(rows, [start |-> at, payload |-> payload,
                          end |-> payload + e.payload, layer |-> e.layer])
  IN  FoldLeft(put, <<>>, entries)

PlanRows(entries, baseShift) ==
  LET step == 2^baseShift
      put(rows, e) ==
        LET at == Round(IF rows = <<>> THEN Round(MinHeader, step) ELSE Last(rows).end, step)
            payload == Round(at + (IF e.payload > InlineMax THEN 16 ELSE 8), step)
        IN  Append(rows, [start |-> at, payload |-> payload,
                          end |-> payload + e.payload, layer |-> e.layer])
  IN  FoldLeft(put, <<>>, entries)

SumOf(f) == FoldFunction(+, 0, f)

\* Pieces of a sequence of rows that no gap separates.
Spans(rows) ==
  IF rows = <<>> THEN 0
  ELSE 1 + Cardinality({i \in 2..Len(rows) : rows[i].start # rows[i - 1].end})

PlanCandidate(entries, baseShift) ==
  LET rows == PlanRows(entries, baseShift)
      end == IF rows = <<>> THEN Round(MinHeader, 2^baseShift) ELSE Last(rows).end
      useful == SumOf([i \in DOMAIN entries |-> entries[i].payload])
      headers == SumOf([i \in DOMAIN entries |-> IF entries[i].payload > InlineMax THEN 16 ELSE 8])
      layers == {r.layer : r \in Range(rows)} \ {NotTensor}
      of(l) == SelectSeq(rows, LAMBDA r : r.layer = l)
      gaps == SumOf([i \in 2..Len(rows) |-> rows[i].start - rows[i - 1].end])
      slots == (end - Round(MinHeader, 2^baseShift) + 2^baseShift - 1) \div 2^baseShift
  IN  [shift |-> baseShift, final |-> end, padding |-> end - MinHeader - useful - headers,
       nano |-> (slots + 7) \div 8,
       spans |-> SumOf([l \in layers |-> Spans(of(l))]),
       covered |-> IF rows = <<>> THEN 0 ELSE end - rows[1].start - gaps]

\* Amplification is covered over useful, and useful is the same in all of them.
Measures(c) == <<c.final, c.padding, c.nano, c.spans, c.covered>>

Pareto(candidates) ==
  {a \in candidates :
     ~ \E b \in candidates \ {a} :
         /\ \A i \in 1..5 : Measures(b)[i] <= Measures(a)[i]
         /\ \E i \in 1..5 : Measures(b)[i] < Measures(a)[i]}

\* The smallest file, then the least padding, then the smallest step.
Select(entries) ==
  LET best == Pareto({PlanCandidate(entries, s) : s \in 3..8})
  IN  CHOOSE a \in best :
        \A b \in best \ {a} :
          \/ a.final < b.final
          \/ a.final = b.final /\ ( \/ a.padding < b.padding
                                    \/ a.padding = b.padding /\ a.shift < b.shift)
=============================================================================
