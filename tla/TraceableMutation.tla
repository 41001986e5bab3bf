-------------------------- MODULE TraceableMutation --------------------------
(* The traceable mutation of qualify_simd_traceable_mutation.py: a segment of  *)
(* weights is stored as a seed, a scale and, when rounds are mixed, a number   *)
(* of rounds.  The decoder runs the rounds forward from the seed; the encoder  *)
(* runs them backward from states it would like to see in a lane, and keeps    *)
(* the seed whose segment fits best.                                           *)
(*                                                                             *)
(* Words have Width bits (32 in the source) and a weight is the signed upper   *)
(* half of one.  A scale is the ratio <<dot, norm>> of the least squares fit,  *)
(* not rounded to half precision.  The float family, M3, is not modelled: its  *)
(* states are rounded at every step.                                           *)
EXTENDS Integers, Sequences, FiniteSetsExt, Bitwise

CONSTANTS Width,                    \* bits of a word, even
          LcgA, LcgB,               \* LCG_A, LCG_B
          LaneC, PosC, TensorC,     \* LANE_C, POS_C, TENSOR_C
          A, B, C, K,               \* the constants of each round
          LaneChoices               \* lanes the encoder projects on, 8

ASSUME WordAssumption ==
  /\ Width \in Nat \ {0} /\ Width % 2 = 0
  /\ LaneChoices \in Nat /\ LaneChoices > 1
  /\ \A c \in {A, B, C, K} : Len(c) >= 4

Word == 2 ^ Width
Half == 2 ^ (Width \div 2)

Families == {"M0_LCG_JUMP", "M1_LANE_AFFINE", "M2_AFFINE_XOR"}
Rounds == 0..4

u32(value) == value % Word

-----------------------------------------------------------------------------
(* The algebra of one word.                                                    *)

modular_inverse(value) == CHOOSE w \in 0..(Word - 1) : u32(w * value) = 1

\* One undoing of the distance, which is enough for a shift of half a word.
undo_xor_right_once(value, shift) == value ^^ (value \div 2 ^ shift)

\* x ^= x >> shift, undone by doubling the distance.
undo_xor_right(value, shift) ==
  LET Undo[step \in 0..Width] ==
        IF step = 0 THEN value
        ELSE LET before == Undo[step - 1]
             IN before ^^ (before \div 2 ^ (shift * 2 ^ (step - 1)))
  IN Undo[Cardinality({n \in 0..(Width - 1) : shift * 2 ^ n < Width})]

\* The affine map x |-> a x + b, applied steps times, by squaring.
affine_jump(a, b, steps) ==
  LET Bits == {i \in 0..Width : steps \div 2 ^ i > 0}
      \* <<acc_a, acc_b, a, b>> once the i lowest bits of steps are consumed
      State[i \in 0..Width] ==
        IF i = 0 THEN <<1, 0, u32(a), u32(b)>>
        ELSE LET s == State[i - 1]
                 odd == (steps \div 2 ^ (i - 1)) % 2 = 1
             IN <<IF odd THEN u32(s[1] * s[3]) ELSE s[1],
                  IF odd THEN u32(s[2] * s[3] + s[4]) ELSE s[2],
                  u32(s[3] * s[3]),
                  u32(s[4] * (s[3] + 1))>>
      done == State[Cardinality(Bits)]
  IN <<done[1], done[2]>>

position_key(ordinal, aware) == IF aware THEN u32(ordinal * PosC + TensorC) ELSE 0


-----------------------------------------------------------------------------
(* A lane's state from the seed, and the seed from a lane's state.             *)

Family0(family) == family = "M0_LCG_JUMP"

Additive(index, lane) == u32(B[index] + lane * (2 * (B[index] \div 2) + 1))   \* B | 1

integer_states(family, rounds, seed, ordinal, lane, aware) ==
  LET pos == position_key(ordinal, aware)
      jump == affine_jump(LcgA, LcgB, lane + 1 + rounds)
      State[index \in 0..rounds] ==
        IF index = 0 THEN u32(seed + pos + lane * LaneC)
        ELSE LET mixed == u32(State[index - 1] * A[index] + Additive(index, lane))
             IN IF family = "M2_AFFINE_XOR"
                  THEN u32((mixed ^^ (mixed \div 2 ^ K[index])) * C[index])
                  ELSE mixed
  IN IF Family0(family) THEN u32(u32(seed + pos) * jump[1] + jump[2]) ELSE State[rounds]

reverse_integer_state(family, rounds, state, ordinal, lane, aware) ==
  LET pos == position_key(ordinal, aware)
      jump == affine_jump(LcgA, LcgB, lane + 1 + rounds)
      \* Back[n] is the state before the last n rounds.
      Back[n \in 0..rounds] ==
        IF n = 0 THEN state
        ELSE LET index == rounds - n + 1
                 unmixed == IF family = "M2_AFFINE_XOR"
                              THEN undo_xor_right(u32(Back[n - 1] * modular_inverse(C[index])),
                                                  K[index])
                              ELSE Back[n - 1]
             IN u32((unmixed - Additive(index, lane)) * modular_inverse(A[index]))
  IN IF Family0(family) THEN u32((state - jump[2]) * modular_inverse(jump[1]) - pos)
     ELSE u32(Back[rounds] - pos - lane * LaneC)

\* The signed upper half: state.view(int32) >> 16.
generated_raw(family, rounds, seed, ordinal, lane, aware) ==
  LET high == integer_states(family, rounds, seed, ordinal, lane, aware) \div Half
  IN IF high >= Half \div 2 THEN high - Half ELSE high

-----------------------------------------------------------------------------
(* The candidates of a segment: a target is a sequence of small integers, lane *)
(* l being element l + 1.                                                      *)

Lanes(target) == 0..(Len(target) - 1)

\* np.linspace(0, length - 1, LaneChoices) cut to integers
LaneChoice(target, i) == (i * (Len(target) - 1)) \div (LaneChoices - 1)

\* np.rint of a ratio: to the nearest, a tie to the even one.
Rint(n, d) ==
  LET below == (2 * n + d) \div (2 * d)
  IN IF (2 * n + d) % (2 * d) = 0 /\ below % 2 = 1 THEN below - 1 ELSE below

Clipped(value) == CHOOSE v \in (- (Half \div 2))..(Half \div 2 - 1) :
                    \/ v = value
                    \/ value < v /\ v = - (Half \div 2)
                    \/ value > v /\ v = Half \div 2 - 1

\* The word that the encoder wants to see in a lane.
WantedState(target, scale, low, lane) ==
  (Clipped(Rint(target[lane + 1] * (Half \div 2 - 1), scale)) % Half) * Half + low

\* scales are the two hypotheses, of the largest and of the mean weight.
projected_seeds(target, scales, family, rounds, ordinal, aware) ==
  {reverse_integer_state(family, rounds, WantedState(target, scale, low, lane),
                         ordinal, lane, aware) :
     scale \in scales, low \in {0, Half \div 2},
     lane \in {LaneChoice(target, i) : i \in 0..(LaneChoices - 1)}}

Dot(raw, target) == MapThenSumSet(LAMBDA l : raw[l] * target[l + 1], Lanes(target))
Norm(raw, target) == MapThenSumSet(LAMBDA l : raw[l] * raw[l], Lanes(target))

\* A fit is [seed, scale, sse]; scale and sse are ratios.  A segment of zero
\* energy has score minus infinity, and scale dot / 1e-20, which is zero.
FitOf(seed, dot, norm, energy) ==
  IF norm = 0 THEN [seed |-> seed, scale |-> <<0, 1>>, sse |-> <<energy, 1>>, dead |-> TRUE]
  ELSE [seed |-> seed, scale |-> <<dot, norm>>, sse |-> <<energy * norm - dot * dot, norm>>,
        dead |-> FALSE]

FitRaw(seed, target, raw) ==
  FitOf(seed, Dot(raw, target), Norm(raw, target),
        MapThenSumSet(LAMBDA l : target[l + 1] * target[l + 1], Lanes(target)))

Fit(target, family, rounds, ordinal, seed, aware) ==
  FitRaw(seed, target,
         [l \in Lanes(target) |-> generated_raw(family, rounds, seed, ordinal, l, aware)])

LessRatio(p, q) == p[1] * q[2] < q[1] * p[2]

\* One of the seeds whose score is the largest (argmax takes the first of them).
BestFit(fits) ==
  CHOOSE f \in fits :
    /\ f.dead => \A g \in fits : g.dead
    /\ ~ f.dead => \A g \in fits : g.dead \/ ~ LessRatio(g.sse, f.sse)

choose_from_seeds(target, family, rounds, ordinal, seeds, aware) ==
  BestFit({Fit(target, family, rounds, ordinal, s, aware) : s \in seeds})

-----------------------------------------------------------------------------
(* Encoding a tensor.  flat is a sequence of segments; the ordinal of one is   *)
(* its place in the tensor, whatever batch it is encoded or decoded in.        *)

Batches(count, batch) == {first \in 0..(count - 1) : first % batch = 0}

\* The ordinals of a batch: np.arange(first, first + len(batch)).
Ordinals(count, first, batch) ==
  {first + i : i \in 0..(batch - 1)} \cap 0..(count - 1)

\* In batches: every segment has the ordinal that its batch gives it.
InBatches(count, batch, Value(_)) ==
  [i \in 1..count |->
     LET first == CHOOSE f \in Batches(count, batch) : i - 1 \in Ordinals(count, f, batch)
         within == i - 1 - first
     IN Value(first + within)]

encode(flat, scales, family, rounds, aware, batch) ==
  [family |-> family, aware |-> aware, length |-> Len(flat[1]),
   rounds |-> [i \in 1..Len(flat) |-> rounds],
   fits |-> InBatches(Len(flat), batch, LAMBDA ordinal :
              LET target == flat[ordinal + 1]
              IN choose_from_seeds(target, family, rounds, ordinal,
                   projected_seeds(target, scales, family, rounds, ordinal, aware), aware))]

\* items[r + 1] is the encoding with r rounds: each segment takes the rounds of
\* the smallest error, the fewest of several.
mix_rounds(items) ==
  LET best(i) == CHOOSE r \in Rounds :
                   /\ \A s \in Rounds : ~ LessRatio(items[s + 1].fits[i].sse, items[r + 1].fits[i].sse)
                   /\ \A s \in 0..(r - 1) : LessRatio(items[r + 1].fits[i].sse, items[s + 1].fits[i].sse)
      segments == 1..Len(items[1].fits)
  IN [items[1] EXCEPT !.rounds = [i \in segments |-> best(i)],
                      !.fits = [i \in segments |-> items[best(i) + 1].fits[i]]]

\* A decoded segment: each lane is <<raw * dot, norm>>.  reconstruct is the case
\* where every segment has the same rounds.
reconstruct_mixed(encoded, batch) ==
  InBatches(Len(encoded.fits), batch, LAMBDA ordinal :
    LET fit == encoded.fits[ordinal + 1]
    IN [l \in 0..(encoded.length - 1) |->
          <<generated_raw(encoded.family, encoded.rounds[ordinal + 1], fit.seed, ordinal, l,
                          encoded.aware) * fit.scale[1], fit.scale[2]>>])

=============================================================================
