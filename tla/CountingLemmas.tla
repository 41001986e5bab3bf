---------------------------- MODULE CountingLemmas ----------------------------
(* Rows that carry names and are as many as the things they name; induction,   *)
(* folds and sums over finite sets; counting.                                  *)
EXTENDS Integers, FiniteSetTheorems, FiniteSetsExt, TLAPS

\* n rows with different names, each of them the name of one of n things.
Distinct(n, row, name) ==
  /\ \A i, j \in 1..n : row[i] = row[j] => i = j
  /\ \A i \in 1..n : \E j \in 1..n : row[i] = name[j]

\* The names of the things differ, and each thing has a row.
Matched(n, row, name) ==
  /\ \A i, j \in 1..n : name[i] = name[j] => i = j
  /\ \A j \in 1..n : \E i \in 1..n : row[i] = name[j]

\* A list with one row per thing and never the same name twice is complete: such
\* is a manifest that passes its checks.
LEMMA NamesAreUnique ==
  ASSUME NEW n \in Nat, NEW row, NEW name, Distinct(n, row, name)
  PROVE  Matched(n, row, name)
<1> DEFINE D == 1..n
           names == {name[j] : j \in D}
           f == [i \in D |-> row[i]]
           g == [j \in D |-> name[j]]
<1>1. IsFiniteSet(D)
  <2>1. 1 \in Int /\ n \in Int
    OBVIOUS
  <2> HIDE DEF D
  <2> QED
    BY <2>1, FS_Interval DEF D
<1>2. g \in Surjection(D, names)
  BY DEF Distinct, Surjection
<1>3. f \in Injection(D, names)
  BY DEF Distinct, Injection, IsInjective
<1> HIDE DEF D
<1>4. IsFiniteSet(names) /\ Cardinality(names) <= Cardinality(D)
  BY <1>1, <1>2, FS_Surjection
<1>5. Cardinality(D) <= Cardinality(names)
  BY <1>3, <1>4, FS_Injection
<1>6. Cardinality(D) = Cardinality(names)
  BY <1>1, <1>4, <1>5, FS_CardinalityType
<1>7. g \in Injection(D, names)
  BY <1>1, <1>2, <1>6, FS_Surjection
<1>8. f \in Surjection(D, names)
  BY <1>3, <1>4, <1>6, FS_Injection
<1>9. \A i, j \in D : name[i] = name[j] => i = j
  <2> TAKE i, j \in D
  <2>1. g[i] = g[j] => i = j
    BY <1>7 DEF Injection, IsInjective
  <2> QED
    BY <2>1
<1>10. \A j \in D : \E i \in D : row[i] = name[j]
  <2> TAKE j \in D
  <2>1. PICK i \in D : f[i] = name[j]
    BY <1>8 DEF Surjection
  <2> QED
    BY <2>1
<1> QED
  BY <1>9, <1>10 DEF D, Matched

-----------------------------------------------------------------------------
(* Folds and sums over finite sets.                                            *)

\* Induction over the subsets of a finite set.
LEMMA FiniteInduction ==
  ASSUME NEW D, IsFiniteSet(D), NEW Good,
         \A S \in SUBSET D : (\A T \in SUBSET S : T # S => T \in Good) => S \in Good
  PROVE  \A S \in SUBSET D : S \in Good
<1> DEFINE R == StrictSubsetOrdering(D)
           Bad == (SUBSET D) \ Good
<1>1. SUBSET D = FiniteSubsetsOf(D)
  BY FS_Subset DEF FiniteSubsetsOf
<1>2. IsWellFoundedOn(R, SUBSET D)
  BY <1>1, FS_StrictSubsetOrderingWellFounded
<1>3. ASSUME Bad # {} PROVE FALSE
  <2> HIDE DEF R
  <2>1. Bad \subseteq SUBSET D
    OBVIOUS
  <2> HIDE DEF Bad
  <2>2. PICK S \in Bad : \A T \in Bad : ~(<<T, S>> \in R)
    BY <1>2, <1>3, <2>1, WFMin
  <2>3. \A T \in SUBSET S : T # S => T \in Good
    BY <2>2 DEF R, StrictSubsetOrdering, Bad
  <2> QED
    BY <2>2, <2>3 DEF Bad
<1> QED
  BY <1>3

(***************************************************************************)
(* A fold takes the elements of a finite set one by one: pick[s] is the    *)
(* one it takes from s, step what it makes of it and of the rest.          *)
(***************************************************************************)
Picks(D, pick) == \A s \in SUBSET D : s # {} => pick[s] \in s
Steps(D, V, step) == \A x \in D, v \in V : step[x][v] \in V

FoldStep(g, s, base, pick, step) ==
  g[s] = IF s = {} THEN base ELSE step[pick[s]][g[s \ {pick[s]}]]

Folds(g, S, base, pick, step) == \A s \in SUBSET S : FoldStep(g, s, base, pick, step)

FoldsOn(g, S, V, base, pick, step) == g \in [SUBSET S -> V] /\ Folds(g, S, base, pick, step)

LEMMA FoldUnique ==
  ASSUME NEW D, IsFiniteSet(D), NEW base, NEW pick, NEW step, Picks(D, pick),
         NEW S \in SUBSET D, NEW T \in SUBSET D, NEW g, NEW h,
         Folds(g, S, base, pick, step),
         Folds(h, T, base, pick, step)
  PROVE  \A s \in SUBSET (S \cap T) : g[s] = h[s]
<1> DEFINE Good == {s \in SUBSET D : s \subseteq S \cap T => g[s] = h[s]}
<1>1. ASSUME NEW s \in SUBSET D, \A r \in SUBSET s : r # s => r \in Good
      PROVE  s \in Good
  <2> SUFFICES ASSUME s \subseteq S \cap T PROVE g[s] = h[s]
    OBVIOUS
  <2>1. CASE s = {}
    BY <2>1 DEF FoldsOn, Folds, FoldStep
  <2>2. CASE s # {}
    <3> DEFINE r == s \ {pick[s]}
    <3>1. pick[s] \in s
      BY <2>2 DEF Picks
    <3>2. r \in SUBSET s /\ r # s
      BY <3>1
    <3>3. g[r] = h[r]
      BY <1>1, <3>2
    <3> QED
      BY <2>2, <3>3 DEF FoldsOn, Folds, FoldStep
  <2> QED
    BY <2>1, <2>2
<1> HIDE DEF Good
<1>2. \A s \in SUBSET D : s \in Good
  BY <1>1, FiniteInduction
<1> QED
  BY <1>2 DEF Good

LEMMA FoldExists ==
  ASSUME NEW D, IsFiniteSet(D), NEW V, NEW base \in V, NEW pick, NEW step,
         Picks(D, pick), Steps(D, V, step)
  PROVE  \E g : FoldsOn(g, D, V, base, pick, step)
<1> DEFINE Fold(S) == CHOOSE g : FoldsOn(g, S, V, base, pick, step)
           Good == {S \in SUBSET D : \E g : FoldsOn(g, S, V, base, pick, step)}
<1>1. ASSUME NEW S \in SUBSET D, \A T \in SUBSET S : T # S => T \in Good
      PROVE  S \in Good
  <2>1. ASSUME NEW T \in SUBSET S, T # S PROVE FoldsOn(Fold(T), T, V, base, pick, step)
    <3>1. \E g : FoldsOn(g, T, V, base, pick, step)
      BY <1>1, <2>1
    <3> QED
      BY <3>1
  <2> DEFINE last == IF S = {} THEN base
                     ELSE step[pick[S]][Fold(S \ {pick[S]})[S \ {pick[S]}]]
             g == [s \in SUBSET S |-> IF s = S THEN last ELSE Fold(s)[s]]
  <2> HIDE DEF Fold
  <2>2. S # {} => pick[S] \in S /\ S \ {pick[S]} \in SUBSET S /\ S \ {pick[S]} # S
    BY DEF Picks
  <2>3. \A T \in SUBSET S : T # S => Fold(T)[T] \in V
    BY <2>1 DEF FoldsOn, Folds, FoldStep
  <2>4. last \in V
    BY <2>2, <2>3 DEF Steps
  <2>5. g \in [SUBSET S -> V]
    BY <2>3, <2>4
  <2>6. ASSUME NEW s \in SUBSET S
        PROVE  g[s] = IF s = {} THEN base ELSE step[pick[s]][g[s \ {pick[s]}]]
    <3>1. CASE s = S
      BY SMTT(60), <2>2, <3>1
    <3>2. CASE s # S
      <4> DEFINE r == s \ {pick[s]}
      <4>1. g[s] = Fold(s)[s] /\ FoldsOn(Fold(s), s, V, base, pick, step)
        BY <2>1, <3>2
      <4>2. CASE s = {}
        BY <4>1, <4>2 DEF FoldsOn, Folds, FoldStep
      <4>3. CASE s # {}
        <5>1. pick[s] \in s /\ r \in SUBSET s /\ r \in SUBSET S /\ r # S
          BY <4>3 DEF Picks
        <5>2. Fold(s)[s] = step[pick[s]][Fold(s)[r]]
          BY <4>1, <4>3 DEF FoldsOn, Folds, FoldStep
        <5>3. FoldsOn(Fold(r), r, V, base, pick, step) /\ g[r] = Fold(r)[r]
          BY <2>1, <5>1
        <5>4. s \in SUBSET D /\ r \in SUBSET D /\ r \in SUBSET (s \cap r)
          BY <5>1
        <5> HIDE DEF r, g
        <5>5. \A t \in SUBSET (s \cap r) : Fold(s)[t] = Fold(r)[t]
          <6>1. /\ Folds(Fold(s), s, base, pick, step)
                /\ Folds(Fold(r), r, base, pick, step)
            BY <4>1, <5>3 DEF FoldsOn
          <6> QED
            BY <5>4, <6>1, FoldUnique
        <5> QED
          BY <4>1, <4>3, <5>2, <5>3, <5>4, <5>5 DEF r
      <4> QED
        BY <4>2, <4>3
    <3> QED
      BY <3>1, <3>2
  <2> HIDE DEF g
  <2>7. FoldsOn(g, S, V, base, pick, step)
    BY <2>5, <2>6 DEF FoldsOn, Folds, FoldStep
  <2> QED
    BY <2>7
<1> HIDE DEF Good
<1>2. D \in Good
  BY <1>1, FiniteInduction
<1> QED
  BY <1>2 DEF Good
-----------------------------------------------------------------------------
(* Sums over finite sets.                                                      *)

Total(w, S) == MapThenSumSet(LAMBDA t : w[t], S)

Chosen(D) == [s \in SUBSET D |-> CHOOSE x \in s : TRUE]
Added(D, w) == [x \in D |-> [v \in Int |-> w[x] + v]]

LEMMA TotalFolds ==
  ASSUME NEW D, IsFiniteSet(D), NEW w \in [D -> Int], NEW S \in SUBSET D,
         NEW g, FoldsOn(g, D, Int, 0, Chosen(D), Added(D, w))
  PROVE  Total(w, S) = g[S]
<1> DEFINE Is(f) == f = [s \in SUBSET S |-> IF s = {} THEN 0
                           ELSE w[CHOOSE x \in s : TRUE] + f[s \ {CHOOSE x \in s : TRUE}]]
           f == CHOOSE f : Is(f)
           h == [s \in SUBSET S |-> g[s]]
<1>1. \A s \in SUBSET D : s # {} => Chosen(D)[s] \in s /\ Chosen(D)[s] = CHOOSE x \in s : TRUE
  BY DEF Chosen
<1>2. Is(h)
  <2>1. ASSUME NEW s \in SUBSET S, s # {}
        PROVE  g[s] = w[CHOOSE x \in s : TRUE] + h[s \ {CHOOSE x \in s : TRUE}]
    <3>1. s \in SUBSET D /\ Chosen(D)[s] \in D
      BY <1>1, <2>1
    <3>2. g[s \ {Chosen(D)[s]}] \in Int
      BY <3>1 DEF FoldsOn
    <3>3. g[s] = w[Chosen(D)[s]] + g[s \ {Chosen(D)[s]}]
      BY <2>1, <3>1, <3>2 DEF FoldsOn, Folds, FoldStep, Added
    <3> QED
      BY <1>1, <2>1, <3>1, <3>3
  <2>2. g[{}] = 0
    BY DEF FoldsOn, Folds, FoldStep
  <2> QED
    BY <2>1, <2>2
<1>3. Is(f)
  <2> HIDE DEF h, Is
  <2> QED
    BY <1>2
<1>4. Total(w, S) = f[S]
  BY DEF Total, MapThenSumSet, MapThenFoldSet
<1> HIDE DEF f, h
<1> DEFINE step == [x \in D |-> [v \in {f[s] : s \in SUBSET S} \cup Int |-> w[x] + v]]
<1>5. Folds(f, S, 0, Chosen(D), step)
  <2> SUFFICES ASSUME NEW s \in SUBSET S PROVE FoldStep(f, s, 0, Chosen(D), step)
    BY DEF Folds
  <2>1. CASE s = {}
    BY <1>3, <2>1 DEF FoldStep
  <2>2. CASE s # {}
    <3>1. Chosen(D)[s] \in D /\ s \ {Chosen(D)[s]} \in SUBSET S
      BY <1>1, <2>2
    <3>2. f[s] = w[Chosen(D)[s]] + f[s \ {Chosen(D)[s]}]
      BY ZenonT(60), <1>1, <1>3, <2>2
    <3> QED
      BY <2>2, <3>1, <3>2 DEF FoldStep
  <2> QED
    BY <2>1, <2>2
<1>6. Folds(g, S, 0, Chosen(D), step)
  <2> SUFFICES ASSUME NEW s \in SUBSET S PROVE FoldStep(g, s, 0, Chosen(D), step)
    BY DEF Folds
  <2>1. CASE s = {}
    BY <2>1 DEF FoldStep, FoldsOn, Folds
  <2>2. CASE s # {}
    <3>1. Chosen(D)[s] \in D /\ s \ {Chosen(D)[s]} \in SUBSET D /\ s \in SUBSET D
      BY <1>1, <2>2
    <3>2. g[s \ {Chosen(D)[s]}] \in Int
      BY <3>1 DEF FoldsOn
    <3>3. g[s] = w[Chosen(D)[s]] + g[s \ {Chosen(D)[s]}]
      BY <2>2, <3>1, <3>2 DEF FoldsOn, Folds, FoldStep, Added
    <3> QED
      BY <2>2, <3>1, <3>2, <3>3 DEF FoldStep
  <2> QED
    BY <2>1, <2>2
<1>7. Picks(D, Chosen(D))
  BY <1>1 DEF Picks
<1> HIDE DEF step, Is
<1>8. \A s \in SUBSET (S \cap S) : f[s] = g[s]
  BY <1>5, <1>6, <1>7, FoldUnique
<1> QED
  BY <1>4, <1>8

LEMMA TotalUnfolds ==
  ASSUME NEW D, IsFiniteSet(D), NEW w \in [D -> Int]
  PROVE  /\ Total(w, {}) = 0
         /\ \A S \in SUBSET D :
              /\ Total(w, S) \in Int
              /\ S # {} => \E x \in S : Total(w, S) = w[x] + Total(w, S \ {x})
<1>1. PICK g : FoldsOn(g, D, Int, 0, Chosen(D), Added(D, w))
  <2>1. Picks(D, Chosen(D)) /\ Steps(D, Int, Added(D, w))
    BY DEF Picks, Steps, Chosen, Added
  <2> QED
    <3> DEFINE zero == 0
               ints == Int
    <3>1. zero \in ints /\ Picks(D, Chosen(D)) /\ Steps(D, ints, Added(D, w))
      BY <2>1
    <3> HIDE DEF zero, ints
    <3>2. \E g : FoldsOn(g, D, ints, zero, Chosen(D), Added(D, w))
      BY <3>1, FoldExists
    <3> QED
      BY <3>2 DEF zero, ints
<1>2. \A S \in SUBSET D : Total(w, S) = g[S]
  BY <1>1, TotalFolds
<1>3. Total(w, {}) = 0 /\ \A S \in SUBSET D : Total(w, S) \in Int
  BY <1>1, <1>2 DEF FoldsOn, Folds, FoldStep
<1>4. ASSUME NEW S \in SUBSET D, S # {}
      PROVE  \E x \in S : Total(w, S) = w[x] + Total(w, S \ {x})
  <2> DEFINE x == Chosen(D)[S]
  <2>1. x \in S
    BY <1>4 DEF Chosen
  <2>2. g[S \ {x}] \in Int /\ g[S \ {x}] = Total(w, S \ {x})
    BY <1>1, <1>2, <2>1 DEF FoldsOn
  <2>3. g[S] = w[x] + g[S \ {x}]
    BY <1>1, <1>4, <2>1, <2>2 DEF FoldsOn, Folds, FoldStep, Added
  <2> QED
    BY <1>2, <2>1, <2>2, <2>3
<1> QED
  BY <1>3, <1>4
\* Any element may be taken first.
LEMMA TotalRemoves ==
  ASSUME NEW D, IsFiniteSet(D), NEW w \in [D -> Int], NEW S \in SUBSET D, NEW x \in S
  PROVE  Total(w, S) = w[x] + Total(w, S \ {x})
<1> DEFINE Good == {s \in SUBSET D : \A y \in s : Total(w, s) = w[y] + Total(w, s \ {y})}
<1>1. ASSUME NEW s \in SUBSET D, \A r \in SUBSET s : r # s => r \in Good
      PROVE  s \in Good
  <2> SUFFICES ASSUME NEW y \in s PROVE Total(w, s) = w[y] + Total(w, s \ {y})
    OBVIOUS
  <2>1. PICK z \in s : Total(w, s) = w[z] + Total(w, s \ {z})
    BY TotalUnfolds
  <2>2. CASE z = y
    BY <2>1, <2>2
  <2>3. CASE z # y
    <3>1. /\ s \ {z} \in Good /\ y \in s \ {z} /\ s \ {z} \in SUBSET D
          /\ s \ {y} \in Good /\ z \in s \ {y} /\ s \ {y} \in SUBSET D
      BY <1>1, <2>3
    <3>2. /\ Total(w, s \ {z}) = w[y] + Total(w, (s \ {z}) \ {y})
          /\ Total(w, s \ {y}) = w[z] + Total(w, (s \ {y}) \ {z})
      BY <3>1
    <3>3. (s \ {z}) \ {y} = (s \ {y}) \ {z} /\ (s \ {y}) \ {z} \in SUBSET D
      OBVIOUS
    <3>4. Total(w, (s \ {y}) \ {z}) \in Int /\ w[y] \in Int /\ w[z] \in Int
      BY <3>3, TotalUnfolds
    <3> DEFINE rest == Total(w, (s \ {y}) \ {z})
    <3>5. Total(w, s \ {z}) = w[y] + rest
      BY <3>2, <3>3
    <3>6. Total(w, s \ {y}) = w[z] + rest
      BY <3>2
    <3>7. rest \in Int /\ w[y] \in Int /\ w[z] \in Int
      BY <3>4
    <3> HIDE DEF rest
    <3> QED
      BY <2>1, <3>5, <3>6, <3>7
  <2> QED
    BY <2>2, <2>3
<1> HIDE DEF Good
<1>2. S \in Good
  BY <1>1, FiniteInduction
<1> QED
  BY <1>2 DEF Good

LEMMA TotalNatural ==
  ASSUME NEW D, IsFiniteSet(D), NEW w \in [D -> Nat], NEW S \in SUBSET D
  PROVE  Total(w, S) \in Nat
<1> DEFINE Good == {s \in SUBSET D : Total(w, s) \in Nat}
<1>1. ASSUME NEW s \in SUBSET D, \A r \in SUBSET s : r # s => r \in Good
      PROVE  s \in Good
  <2>1. CASE s = {}
    BY <2>1, TotalUnfolds
  <2>2. CASE s # {}
    <3>1. PICK z \in s : Total(w, s) = w[z] + Total(w, s \ {z})
      BY <2>2, TotalUnfolds
    <3>2. s \ {z} \in Good /\ w[z] \in Nat
      BY <1>1
    <3> QED
      BY <3>1, <3>2
  <2> QED
    BY <2>1, <2>2
<1> HIDE DEF Good
<1>2. S \in Good
  BY <1>1, FiniteInduction
<1> QED
  BY <1>2 DEF Good

\* What is taken away and what is left add up.
LEMMA TotalSplits ==
  ASSUME NEW D, IsFiniteSet(D), NEW w \in [D -> Int], NEW S \in SUBSET D, NEW T \in SUBSET S
  PROVE  Total(w, S) = Total(w, T) + Total(w, S \ T)
<1> DEFINE Good == {s \in SUBSET D : s \subseteq S => Total(w, S) = Total(w, s) + Total(w, S \ s)}
<1>1. ASSUME NEW s \in SUBSET D, \A r \in SUBSET s : r # s => r \in Good
      PROVE  s \in Good
  <2> SUFFICES ASSUME s \subseteq S PROVE Total(w, S) = Total(w, s) + Total(w, S \ s)
    OBVIOUS
  <2>1. CASE s = {}
    <3>1. Total(w, {}) = 0 /\ Total(w, S) \in Int /\ S \ {} = S
      BY TotalUnfolds
    <3> QED
      BY <2>1, <3>1
  <2>2. CASE s # {}
    <3>1. PICK z \in s : TRUE
      BY <2>2
    <3> DEFINE r == s \ {z}
    <3>2. r \in SUBSET s /\ r # s /\ r \in SUBSET D /\ S \ r \in SUBSET D /\ z \in S \ r
      BY <3>1
    <3>3. Total(w, S) = Total(w, r) + Total(w, S \ r)
      BY <1>1, <3>2
    <3>4. Total(w, s) = w[z] + Total(w, r)
      BY TotalRemoves
    <3>5. (S \ r) \ {z} = S \ s /\ S \ s \in SUBSET D
      OBVIOUS
    <3>6. Total(w, S \ r) = w[z] + Total(w, S \ s)
      BY <3>2, <3>5, TotalRemoves
    <3>7. Total(w, r) \in Int /\ Total(w, S \ s) \in Int /\ w[z] \in Int
      BY <3>2, <3>5, TotalUnfolds
    <3> QED
      BY <3>3, <3>4, <3>6, <3>7
  <2> QED
    BY <2>1, <2>2
<1> HIDE DEF Good
<1>2. T \in Good
  BY <1>1, FiniteInduction
<1> QED
  BY <1>2 DEF Good

-----------------------------------------------------------------------------
(* The greatest of finitely many numbers.                                      *)

LEMMA MaxIsGreatest ==
  ASSUME NEW S \in SUBSET Int, IsFiniteSet(S), S # {}
  PROVE  Max(S) \in S /\ \A y \in S : y <= Max(S)
<1> DEFINE Good == {s \in SUBSET S : s # {} => \E x \in s : \A y \in s : x >= y}
<1>1. ASSUME NEW s \in SUBSET S, \A r \in SUBSET s : r # s => r \in Good
      PROVE  s \in Good
  <2> SUFFICES ASSUME s # {} PROVE \E x \in s : \A y \in s : x >= y
    OBVIOUS
  <2>1. PICK z \in s : TRUE
    OBVIOUS
  <2>2. CASE s = {z}
    BY <2>2
  <2>3. CASE s # {z}
    <3>1. s \ {z} \in SUBSET s /\ s \ {z} # s /\ s \ {z} # {}
      BY <2>1, <2>3
    <3>2. PICK x \in s \ {z} : \A y \in s \ {z} : x >= y
      BY <1>1, <3>1
    <3>3. x \in Int /\ z \in Int /\ \A y \in s : y \in Int
      OBVIOUS
    <3>4. CASE x >= z
      BY <3>2, <3>3, <3>4
    <3>5. CASE ~(x >= z)
      BY <3>2, <3>3, <3>5
    <3> QED
      BY <3>4, <3>5
  <2> QED
    BY <2>2, <2>3
<1> HIDE DEF Good
<1>2. S \in Good
  BY <1>1, FiniteInduction
<1>3. \E x \in S : \A y \in S : x >= y
  BY <1>2 DEF Good
<1>4. Max(S) \in S /\ \A y \in S : Max(S) >= y
  BY <1>3 DEF Max
<1> QED
  BY <1>4
-----------------------------------------------------------------------------
(* Counting.                                                                   *)

\* What holds of zero, and of a number once it holds of the one before.
LEMMA CountingUp ==
  ASSUME NEW n \in Nat, NEW Good, 0 \in Good, \A k \in 1..n : k - 1 \in Good => k \in Good
  PROVE  0..n \subseteq Good
<1> DEFINE D == 1..n
           Counted == {S \in SUBSET D : \A k \in 0..n : S = 1..k => k \in Good}
<1>1. IsFiniteSet(D)
  <2>1. 1 \in Int /\ n \in Int
    OBVIOUS
  <2> HIDE DEF D
  <2> QED
    BY <2>1, FS_Interval DEF D
<1>2. ASSUME NEW S \in SUBSET D, \A T \in SUBSET S : T # S => T \in Counted
      PROVE  S \in Counted
  <2> SUFFICES ASSUME NEW k \in 0..n, S = 1..k PROVE k \in Good
    OBVIOUS
  <2>1. CASE k = 0
    BY <2>1
  <2>2. CASE k # 0
    <3>1. 1..(k - 1) \in SUBSET S /\ 1..(k - 1) # S /\ k - 1 \in 0..n /\ k \in 1..n
      BY <2>2
    <3>2. 1..(k - 1) \in Counted
      BY <1>2, <3>1
    <3>3. k - 1 \in Good
      BY <3>1, <3>2
    <3> QED
      BY <3>1, <3>3
  <2> QED
    BY <2>1, <2>2
<1> HIDE DEF Counted
<1>3. \A S \in SUBSET D : S \in Counted
  BY <1>1, <1>2, FiniteInduction
<1>4. \A k \in 0..n : 1..k \in SUBSET D
  OBVIOUS
<1> QED
  BY <1>3, <1>4 DEF Counted

(***************************************************************************)
(* A fold along a sequence of n elements takes the greatest index of what  *)
(* is left; step[k] is what the k-th element makes of a value.             *)
(***************************************************************************)
Latest(n) == [s \in SUBSET (1..n) |-> Max(s)]

Runs(r, n, V, base, step) ==
  r \in [0..n -> V] /\ r[0] = base /\ \A k \in 1..n : r[k] = step[k][r[k - 1]]

\* The greatest of the first k indices is k.
LEMMA LatestOfFirst ==
  ASSUME NEW k \in Nat, k # 0
  PROVE  Max(1..k) = k
<1>1. 1..k \in SUBSET Int /\ IsFiniteSet(1..k) /\ 1..k # {}
  <2>1. IsFiniteSet(1..k)
    BY FS_Interval
  <2> QED
    BY <2>1
<1>2. Max(1..k) \in 1..k /\ \A y \in 1..k : y <= Max(1..k)
  BY <1>1, MaxIsGreatest
<1> QED
  BY <1>2

LEMMA LatestPicks ==
  ASSUME NEW n \in Nat
  PROVE  IsFiniteSet(1..n) /\ Picks(1..n, Latest(n))
<1>1. IsFiniteSet(1..n)
  BY FS_Interval
<1>2. ASSUME NEW s \in SUBSET (1..n), s # {} PROVE Max(s) \in s
  <2>1. s \in SUBSET Int
    OBVIOUS
  <2>2. IsFiniteSet(s)
    <3> DEFINE D == 1..n
    <3>1. IsFiniteSet(D) /\ s \in SUBSET D
      BY <1>1
    <3> HIDE DEF D
    <3> QED
      BY <3>1, FS_Subset
  <2> QED
    BY <1>2, <2>1, <2>2, MaxIsGreatest
<1> QED
  BY <1>1, <1>2 DEF Picks, Latest

\* There is a fold along any sequence.
LEMMA FoldFinds ==
  ASSUME NEW n \in Nat, NEW V, NEW base \in V, NEW step, Steps(1..n, V, step)
  PROVE  \E g : FoldsOn(g, 1..n, V, base, Latest(n), step)
<1> DEFINE D == 1..n
<1>1. IsFiniteSet(D) /\ Picks(D, Latest(n)) /\ Steps(D, V, step)
  BY LatestPicks
<1> HIDE DEF D
<1>2. \E g : FoldsOn(g, D, V, base, Latest(n), step)
  BY <1>1, FoldExists
<1> QED
  BY <1>2 DEF D

\* A function that satisfies the equation of the fold wherever the rest is a value.
FoldsWithin(f, n, V, base, step) ==
  /\ f[{}] = base
  /\ \A s \in SUBSET (1..n) :
       s # {} /\ f[s \ {Max(s)}] \in V => f[s] = step[Max(s)][f[s \ {Max(s)}]]

\* Its values at the first k indices run through the sequence.
LEMMA FoldRuns ==
  ASSUME NEW n \in Nat, NEW V, NEW base \in V, NEW step, Steps(1..n, V, step),
         NEW f, FoldsWithin(f, n, V, base, step)
  PROVE  \E r : Runs(r, n, V, base, step) /\ r[n] = f[1..n]
<1> DEFINE r == [k \in 0..n |-> f[1..k]]
           Good == {k \in 0..n : f[1..k] \in V}
<1>1. ASSUME NEW k \in 1..n, f[1..(k - 1)] \in V
      PROVE  f[1..k] \in V /\ f[1..k] = step[k][f[1..(k - 1)]]
  <2>1. Max(1..k) = k
    BY LatestOfFirst
  <2>2. 1..k \in SUBSET (1..n) /\ 1..k # {} /\ (1..k) \ {k} = 1..(k - 1)
    OBVIOUS
  <2>3. f[1..k] = step[k][f[1..(k - 1)]]
    BY <1>1, <2>1, <2>2 DEF FoldsWithin
  <2> QED
    BY <1>1, <2>3 DEF Steps
<1>2. 0 \in Good
  <2>1. 1..0 = {}
    OBVIOUS
  <2> QED
    BY <2>1 DEF FoldsWithin
<1>3. \A k \in 1..n : k - 1 \in Good => k \in Good
  BY <1>1
<1> HIDE DEF Good
<1>4. 0..n \subseteq Good
  BY <1>2, <1>3, CountingUp
<1>5. \A k \in 0..n : f[1..k] \in V
  BY <1>4 DEF Good
<1>6. r \in [0..n -> V]
  BY <1>5
<1>7. r[0] = base
  <2>1. 1..0 = {}
    OBVIOUS
  <2> QED
    BY <2>1 DEF FoldsWithin
<1>8. ASSUME NEW k \in 1..n PROVE r[k] = step[k][r[k - 1]]
  BY <1>1, <1>5
<1>9. r[n] = f[1..n]
  OBVIOUS
<1> QED
  BY <1>6, <1>7, <1>8, <1>9 DEF Runs

SameSteps(n, V, step, longer) == \A k \in 1..n : \A v \in V : longer[k][v] = step[k][v]

\* One element more makes one step more.
LEMMA RunsExtend ==
  ASSUME NEW n \in Nat, NEW m, m = n + 1, NEW V, NEW base, NEW step, NEW longer, NEW r, NEW q,
         Runs(r, n, V, base, step), Runs(q, m, V, base, longer), SameSteps(n, V, step, longer)
  PROVE  r[n] \in V /\ q[m] = longer[m][r[n]]
<1> DEFINE Good == {k \in 0..n : q[k] = r[k]}
<1>1. 0 \in Good
  BY DEF Runs
<1>2. ASSUME NEW k \in 1..n, k - 1 \in Good PROVE k \in Good
  <2>1. k \in 1..(n + 1) /\ k - 1 \in 0..n
    OBVIOUS
  <2>2. q[k] = longer[k][q[k - 1]] /\ r[k] = step[k][r[k - 1]] /\ r[k - 1] \in V
    BY <2>1 DEF Runs
  <2> QED
    BY <1>2, <2>2 DEF SameSteps
<1> HIDE DEF Good
<1>3. 0..n \subseteq Good
  BY <1>1, <1>2, CountingUp
<1>4. q[n] = r[n] /\ r[n] \in V
  BY <1>3 DEF Good, Runs
<1> QED
  BY <1>4 DEF Runs

(***************************************************************************)
(* A descent takes elements out of a finite set until it may stop.         *)
(***************************************************************************)
Descends(g, D, stop, pick) ==
  /\ g \in [SUBSET D -> SUBSET D]
  /\ \A S \in SUBSET D : g[S] = IF stop[S] THEN S ELSE g[S \ {pick[S]}]

\* Where there is always an element to take, a descent ends: after as many steps
\* as there are elements, one step more changes nothing.
LEMMA DescentExists ==
  ASSUME NEW D, IsFiniteSet(D), NEW stop, NEW pick,
         \A S \in SUBSET D : ~ stop[S] => pick[S] \in S
  PROVE  \E g : Descends(g, D, stop, pick)
<1> DEFINE n == Cardinality(D)
           V == [SUBSET D -> SUBSET D]
           base == [S \in SUBSET D |-> S]
           further(v) == [S \in SUBSET D |-> IF stop[S] THEN S ELSE v[S \ {pick[S]}]]
           step == [k \in 1..n |-> [v \in V |-> further(v)]]
<1>1. n \in Nat
  BY FS_CardinalityType
<1>2. base \in V /\ \A v \in V : further(v) \in V
  OBVIOUS
<1>3. Steps(1..n, V, step)
  BY <1>2 DEF Steps
<1> HIDE DEF n, V, base, further
<1>4. PICK g : FoldsOn(g, 1..n, V, base, Latest(n), step)
  <2> HIDE DEF step
  <2> QED
    BY <1>1, <1>2, <1>3, FoldFinds
<1>5. FoldsWithin(g, n, V, base, step)
  <2>1. \A s \in SUBSET (1..n) : Latest(n)[s] = Max(s)
    BY DEF Latest
  <2> HIDE DEF step
  <2> QED
    BY <1>4, <2>1 DEF FoldsOn, Folds, FoldStep, FoldsWithin
<1>6. PICK r : Runs(r, n, V, base, step)
  <2> HIDE DEF step
  <2> QED
    BY <1>1, <1>2, <1>3, <1>5, FoldRuns
<1>7. r \in [0..n -> V] /\ r[0] = base /\ \A k \in 1..n : r[k] = further(r[k - 1])
  <2>1. \A k \in 1..n : r[k - 1] \in V
    BY <1>1, <1>6 DEF Runs
  <2> QED
    BY <1>6, <2>1 DEF Runs
<1> HIDE DEF step
<1> DEFINE Good == {k \in 0..n : \A S \in SUBSET D : Cardinality(S) <= k => r[k][S] = further(r[k])[S]}
<1>8. \A S \in SUBSET D : IsFiniteSet(S) /\ Cardinality(S) \in Nat /\ Cardinality(S) <= n
  BY FS_Subset, FS_CardinalityType DEF n
<1>9. 0 \in Good
  <2> SUFFICES ASSUME NEW S \in SUBSET D, Cardinality(S) <= 0 PROVE r[0][S] = further(r[0])[S]
    BY <1>1
  <2>1. S = {}
    BY <1>8, FS_EmptySet
  <2>2. stop[S]
    BY <2>1
  <2> QED
    BY <1>7, <2>2 DEF further, base
<1>10. ASSUME NEW k \in 1..n, k - 1 \in Good PROVE k \in Good
  <2> SUFFICES ASSUME NEW S \in SUBSET D, Cardinality(S) <= k PROVE r[k][S] = further(r[k])[S]
    BY <1>1
  <2>1. r[k] = further(r[k - 1])
    BY <1>7
  <2>2. CASE stop[S]
    BY <2>1, <2>2 DEF further
  <2>3. CASE ~ stop[S]
    <3> DEFINE T == S \ {pick[S]}
    <3>1. T \in SUBSET D /\ Cardinality(T) = Cardinality(S) - 1
      BY <1>8, <2>3, FS_RemoveElement
    <3>2. Cardinality(T) <= k - 1
      BY <1>8, <3>1
    <3>3. r[k - 1][T] = further(r[k - 1])[T]
      BY <1>10, <3>1, <3>2
    <3>4. r[k][S] = r[k - 1][T] /\ further(r[k])[S] = r[k][T]
      BY <2>1, <2>3 DEF further
    <3> QED
      BY <2>1, <3>3, <3>4
  <2> QED
    BY <2>2, <2>3
<1> HIDE DEF Good
<1>11. n \in Good
  <2>1. 0..n \subseteq Good
    BY <1>1, <1>9, <1>10, CountingUp
  <2> QED
    BY <1>1, <2>1
<1>12. r[n] \in [SUBSET D -> SUBSET D] /\ \A S \in SUBSET D : r[n][S] = further(r[n])[S]
  <2>1. \A S \in SUBSET D : r[n][S] = further(r[n])[S]
    BY <1>8, <1>11 DEF Good
  <2>2. r[n] \in V
    BY <1>1, <1>7
  <2> QED
    BY <2>1, <2>2 DEF V
<1>13. Descends(r[n], D, stop, pick)
  BY <1>12 DEF Descends, further
<1> QED
  BY <1>13
=============================================================================
