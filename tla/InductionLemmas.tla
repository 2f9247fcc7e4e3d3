-------------------------- MODULE InductionLemmas ---------------------------
(***************************************************************************)
(* Induction over data, in a form the provers can use. The library states  *)
(* its induction theorems for a predicate given as an operator; here the   *)
(* predicate is the set of the numbers that have it, so that a proof by    *)
(* induction defines that set and cites Induction. What follows from it:   *)
(* folds and recursive functions are defined, and what FlattenSeq returns. *)
(***************************************************************************)
EXTENDS SequencesExt, Integers, WellFoundedInduction, TLAPS

(* The order of the natural numbers as a set of pairs.                     *)
LessThan == {pair \in Nat \X Nat : pair[1] < pair[2]}

LEMMA LessThanIsWellFounded == IsWellFoundedOn(LessThan, Nat)
BY NatLessThanWellFounded, Zenon DEF OpToRel, LessThan

(* A set of natural numbers that is not empty has a least element.         *)
LEMMA LeastNumber ==
  ASSUME NEW T \in SUBSET Nat, T # {}
  PROVE  \E n \in T : \A m \in T : n <= m
<1>1. PICK n \in T : \A m \in T : <<m, n>> \notin LessThan
  BY LessThanIsWellFounded, WFMin
<1>2. ASSUME NEW m \in T PROVE n <= m
  <2>1. <<m, n>> \notin LessThan
    BY <1>1
  <2>2. m \in Nat /\ n \in Nat /\ <<m, n>> \in Nat \X Nat
    OBVIOUS
  <2>3. <<m, n>>[1] = m /\ <<m, n>>[2] = n
    OBVIOUS
  <2>4. ~ (m < n)
    BY <2>1, <2>2, <2>3 DEF LessThan
  <2> QED
    BY <2>2, <2>4
<1> QED
  BY <1>2

(* A set that holds 0 and, with a number below n, its successor, holds all *)
(* numbers up to n.                                                        *)
LEMMA Induction ==
  ASSUME NEW n \in Nat, NEW T, 0 \in T,
         \A i \in 0 .. n - 1 : i \in T => i + 1 \in T
  PROVE  0 .. n \subseteq T
<1> SUFFICES ASSUME (0 .. n) \ T # {} PROVE FALSE
  OBVIOUS
<1> DEFINE R == (0 .. n) \ T
<1>1. R \in SUBSET Nat
  OBVIOUS
<1>2. PICK i \in R : \A m \in R : i <= m
  BY <1>1, LeastNumber
<1>3. i \in 0 .. n /\ i \notin T /\ i # 0
  OBVIOUS
<1>4. i - 1 \in 0 .. n - 1 /\ ~ (i <= i - 1)
  BY <1>3
<1>5. i - 1 \in T
  BY <1>2, <1>4
<1>6. (i - 1) + 1 \in T
  BY <1>4, <1>5
<1> QED
  BY <1>3, <1>6

(* A set of indices that is not empty has a greatest element, which Max    *)
(* returns.                                                                *)
LEMMA MaxOfIndices ==
  ASSUME NEW n \in Nat, NEW s \in SUBSET (1 .. n), s # {}
  PROVE  Max(s) \in s /\ \A i \in s : i <= Max(s)
<1> DEFINE T == {n - i : i \in s}
<1>1. T \in SUBSET Nat
  <2>1. \A i \in s : n - i \in Nat
    OBVIOUS
  <2> QED
    BY <2>1
<1>2. PICK d \in T : \A m \in T : d <= m
  <2>1. T # {}
    OBVIOUS
  <2> QED
    BY <1>1, <2>1, LeastNumber
<1>3. PICK top \in s : d = n - top
  BY <1>2
<1>4. \A i \in s : top >= i
  <2> SUFFICES ASSUME NEW i \in s PROVE top >= i
    OBVIOUS
  <2>1. n - top <= n - i
    BY <1>2, <1>3
  <2> QED
    BY <2>1
<1> QED
  BY <1>4 DEF Max

(* iter is what MapThenFoldSet builds over 1 .. n: step takes the value    *)
(* for the other indices and the greatest index.                           *)
IsFold(n, base, step, iter) ==
  \A s \in SUBSET (1 .. n) :
    iter[s] = IF s = {} THEN base ELSE step[<<iter[s \ {Max(s)}], Max(s)>>]

(* There is such a function whenever step stays within S.                  *)
LEMMA FoldDefined ==
  ASSUME NEW n \in Nat, NEW S, NEW base \in S, NEW step \in [S \X (1 .. n) -> S]
  PROVE  \E iter \in [SUBSET (1 .. n) -> S] :
           IsFold(n, base, step, iter)
<1> USE DEF IsFold
<1> DEFINE Folds(k, g) == IsFold(k, base, step, g)
           T == {k \in 0 .. n : \E g \in [SUBSET (1 .. k) -> S] : Folds(k, g)}
<1>1. 0 \in T
  <2> DEFINE g == [s \in SUBSET (1 .. 0) |-> base]
  <2>1. g \in [SUBSET (1 .. 0) -> S] /\ Folds(0, g)
    OBVIOUS
  <2>2. 0 \in 0 .. n
    OBVIOUS
  <2> HIDE DEF Folds, g
  <2> QED
    BY <2>1, <2>2
<1>2. ASSUME NEW k \in 0 .. n - 1, k \in T PROVE k + 1 \in T
  <2>1. PICK g \in [SUBSET (1 .. k) -> S] : Folds(k, g)
    BY <1>2
  <2> DEFINE h == [s \in SUBSET (1 .. k + 1) |->
                     IF s \subseteq 1 .. k THEN g[s]
                     ELSE step[<<g[s \ {k + 1}], k + 1>>]]
  <2>2. \A s \in SUBSET (1 .. k + 1) :
          s \in SUBSET (1 .. k) \/ (k + 1 \in s /\ s \ {k + 1} \in SUBSET (1 .. k))
    OBVIOUS
  <2>3. h \in [SUBSET (1 .. k + 1) -> S]
    <3> SUFFICES ASSUME NEW s \in SUBSET (1 .. k + 1) PROVE h[s] \in S
      OBVIOUS
    <3>1. CASE s \in SUBSET (1 .. k)
      BY <3>1, <2>1
    <3>2. CASE s \notin SUBSET (1 .. k)
      <4>1. g[s \ {k + 1}] \in S /\ k + 1 \in 1 .. n
        BY <2>1, <2>2, <3>2
      <4> QED
        BY <3>2, <4>1
    <3> QED
      BY <3>1, <3>2
  <2>4. Folds(k + 1, h)
    <3> SUFFICES ASSUME NEW s \in SUBSET (1 .. k + 1)
                 PROVE  h[s] = IF s = {} THEN base
                               ELSE step[<<h[s \ {Max(s)}], Max(s)>>]
      OBVIOUS
    <3>1. CASE s \in SUBSET (1 .. k)
      <4>1. h[s] = g[s]
        BY <3>1
      <4>2. s \ {Max(s)} \in SUBSET (1 .. k) /\ s \ {Max(s)} \in SUBSET (1 .. k + 1)
        BY <3>1
      <4>3. h[s \ {Max(s)}] = g[s \ {Max(s)}]
        BY <4>2
      <4> QED
        BY <2>1, <3>1, <4>1, <4>3
    <3>2. CASE s \notin SUBSET (1 .. k)
      <4>1. k + 1 \in s /\ s \ {k + 1} \in SUBSET (1 .. k) /\ s # {}
            /\ s \ {k + 1} \in SUBSET (1 .. k + 1)
        BY <2>2, <3>2
      <4>2. Max(s) = k + 1
        <5>1. k + 1 \in Nat
          OBVIOUS
        <5>2. Max(s) \in s /\ k + 1 <= Max(s)
          BY <4>1, <5>1, MaxOfIndices
        <5>3. Max(s) \in 1 .. k + 1
          BY <5>2
        <5> QED
          BY <5>2, <5>3
      <4>3. h[s \ {k + 1}] = g[s \ {k + 1}]
        BY <4>1
      <4>4. h[s] = step[<<g[s \ {k + 1}], k + 1>>]
        BY <3>2
      <4> QED
        BY <4>1, <4>2, <4>3, <4>4
    <3> QED
      BY <3>1, <3>2
  <2>5. k + 1 \in 0 .. n
    OBVIOUS
  <2> HIDE DEF Folds, h
  <2>6. \E x \in [SUBSET (1 .. k + 1) -> S] : Folds(k + 1, x)
    BY <2>3, <2>4
  <2> QED
    BY <2>5, <2>6
<1>3. n \in T
  <2> HIDE DEF T
  <2>1. 0 .. n \subseteq T
    BY <1>1, <1>2, Induction
  <2> QED
    BY <2>1
<1> QED
  BY <1>3
-----------------------------------------------------------------------------
(* The last index of a prefix, and the prefix without it.                  *)
LEMMA LastOfPrefix ==
  ASSUME NEW n \in Nat, NEW i \in 1 .. n
  PROVE  Max(1 .. i) = i /\ (1 .. i) \ {i} = 1 .. i - 1
<1>1. i \in Nat /\ 1 .. i \in SUBSET (1 .. n) /\ 1 .. i # {}
  OBVIOUS
<1>2. Max(1 .. i) \in 1 .. i /\ \A j \in 1 .. i : j <= Max(1 .. i)
  BY <1>1, MaxOfIndices
<1>3. i \in 1 .. i
  OBVIOUS
<1> QED
  BY <1>2, <1>3

(* f is defined by recursion over 1 .. n.                                  *)
IsRecursion(n, base, step, f) ==
  \A i \in 1 .. n : f[i] = IF i = 1 THEN base ELSE step[<<f[i - 1], i>>]

(* There is such a function whenever step stays within S.                  *)
LEMMA RecursionDefined ==
  ASSUME NEW n \in Nat, NEW S, NEW base \in S, NEW step \in [S \X (1 .. n) -> S]
  PROVE  \E f \in [1 .. n -> S] : IsRecursion(n, base, step, f)
<1> DEFINE first == [p \in S \X (1 .. n) |-> IF p[2] = 1 THEN p[1] ELSE step[p]]
<1>1. first \in [S \X (1 .. n) -> S]
  OBVIOUS
<1>2. PICK iter \in [SUBSET (1 .. n) -> S] :
        IsFold(n, base, first, iter)
  <2> HIDE DEF first
  <2> QED
    BY <1>1, FoldDefined
<1> DEFINE f == [i \in 1 .. n |-> iter[1 .. i]]
<1>3. iter[{}] = base
  BY <1>2 DEF IsFold
<1>4. ASSUME NEW i \in 1 .. n
      PROVE  iter[1 .. i] = first[<<iter[1 .. i - 1], i>>]
  <2>1. 1 .. i \in SUBSET (1 .. n) /\ 1 .. i # {}
    OBVIOUS
  <2>2. iter[1 .. i] = first[<<iter[(1 .. i) \ {Max(1 .. i)}], Max(1 .. i)>>]
    BY <1>2, <2>1 DEF IsFold
  <2> QED
    BY <2>2, LastOfPrefix
<1>5. f \in [1 .. n -> S]
  OBVIOUS
<1>6. ASSUME NEW i \in 1 .. n
      PROVE  f[i] = IF i = 1 THEN base ELSE step[<<f[i - 1], i>>]
  <2>1. CASE i = 1
    <3>1. 1 .. i - 1 = {} /\ iter[1 .. i - 1] = base
      BY <1>3, <2>1
    <3>2. <<base, i>> \in S \X (1 .. n) /\ <<base, i>>[2] = 1 /\ <<base, i>>[1] = base
      BY <2>1
    <3>3. first[<<base, i>>] = base
      BY <3>2
    <3> QED
      BY <1>4, <2>1, <3>1, <3>3
  <2>2. CASE i # 1
    <3>1. i - 1 \in 1 .. n /\ 1 .. i - 1 \in SUBSET (1 .. n)
      BY <2>2
    <3>2. f[i - 1] = iter[1 .. i - 1] /\ iter[1 .. i - 1] \in S
      BY <3>1
    <3>3. first[<<iter[1 .. i - 1], i>>] = step[<<iter[1 .. i - 1], i>>]
      <4>1. <<iter[1 .. i - 1], i>> \in S \X (1 .. n)
            /\ <<iter[1 .. i - 1], i>>[2] = i
        BY <3>2
      <4> QED
        BY <2>2, <4>1
    <3> QED
      BY <1>4, <2>2, <3>2, <3>3
  <2> QED
    BY <2>1, <2>2
<1> HIDE DEF f
<1> QED
  BY <1>5, <1>6 DEF IsRecursion

(* f goes from base to what the fold of 1 .. n gives, by one step for each. *)
IsChain(n, base, step, f) ==
  f[0] = base /\ \A k \in 0 .. n - 1 : f[k + 1] = step[<<f[k], k + 1>>]
Chained(n, S, base, step, result) ==
  \E f \in [0 .. n -> S] : IsChain(n, base, step, f) /\ result = f[n]

(* A FoldLeft is iter[1 .. n] for an iter like this one: it takes a step as *)
(* long as it is in S.                                                      *)
FoldsWithin(n, S, base, step, iter) ==
  /\ iter[{}] = base
  /\ \A s \in SUBSET (1 .. n) :
       s # {} /\ iter[s \ {Max(s)}] \in S =>
         iter[s] = step[<<iter[s \ {Max(s)}], Max(s)>>]

LEMMA FoldChain ==
  ASSUME NEW n \in Nat, NEW S, NEW base \in S, NEW step \in [S \X (1 .. n) -> S],
         NEW iter, FoldsWithin(n, S, base, step, iter)
  PROVE  Chained(n, S, base, step, iter[1 .. n])
<1> USE DEF FoldsWithin
<1> DEFINE T == {k \in 0 .. n : iter[1 .. k] \in S}
<1>1. 0 \in T
  <2>1. 1 .. 0 = {} /\ 0 \in 0 .. n
    OBVIOUS
  <2> QED
    BY <2>1
<1>2. ASSUME NEW k \in 0 .. n - 1, iter[1 .. k] \in S
      PROVE  iter[1 .. k + 1] = step[<<iter[1 .. k], k + 1>>] /\ iter[1 .. k + 1] \in S
  <2>1. k + 1 \in 1 .. n /\ (k + 1) - 1 = k
    OBVIOUS
  <2>2. Max(1 .. k + 1) = k + 1 /\ (1 .. k + 1) \ {k + 1} = 1 .. k
    BY <2>1, LastOfPrefix
  <2>3. 1 .. k + 1 \in SUBSET (1 .. n) /\ 1 .. k + 1 # {}
    <3>1. k + 1 \in 1 .. k + 1
      OBVIOUS
    <3>2. \A i \in 1 .. k + 1 : i \in 1 .. n
      OBVIOUS
    <3> QED
      BY <3>1, <3>2
  <2>4. <<iter[1 .. k], k + 1>> \in S \X (1 .. n)
    BY <1>2, <2>1
  <2> QED
    BY <1>2, <2>2, <2>3, <2>4
<1>3. ASSUME NEW k \in 0 .. n - 1, k \in T PROVE k + 1 \in T
  <2>1. iter[1 .. k] \in S /\ k + 1 \in 0 .. n
    BY <1>3
  <2> QED
    BY <1>2, <2>1
<1>4. \A k \in 0 .. n : iter[1 .. k] \in S
  <2>1. 0 .. n \subseteq T
    <3> HIDE DEF T
    <3> QED
      BY <1>1, <1>3, Induction
  <2> QED
    BY <2>1
<1> DEFINE f == [k \in 0 .. n |-> iter[1 .. k]]
<1>5. f \in [0 .. n -> S] /\ f[n] = iter[1 .. n]
  BY <1>4
<1>6. IsChain(n, base, step, f)
  <2>1. f[0] = base
    <3>1. 1 .. 0 = {} /\ 0 \in 0 .. n
      OBVIOUS
    <3> QED
      BY <3>1
  <2>2. ASSUME NEW k \in 0 .. n - 1 PROVE f[k + 1] = step[<<f[k], k + 1>>]
    <3>1. k \in 0 .. n /\ k + 1 \in 0 .. n
      OBVIOUS
    <3>2. f[k] = iter[1 .. k] /\ f[k + 1] = iter[1 .. k + 1]
      BY <3>1
    <3> QED
      BY <1>2, <1>4, <3>1, <3>2
  <2> HIDE DEF f
  <2> QED
    BY <2>1, <2>2 DEF IsChain
<1> HIDE DEF f
<1> QED
  BY Zenon, <1>5, <1>6 DEF Chained

(* f has the flattened prefixes of a sequence of sequences.                *)
IsFlattening(seqs, f) ==
  /\ f[1] = seqs[1]
  /\ \A i \in 1 .. Len(seqs) - 1 : f[i + 1] = f[i] \o seqs[i + 1]

(* FlattenSeq returns the last of them.                                    *)
LEMMA FlattenSteps ==
  ASSUME NEW S, NEW seqs \in Seq(Seq(S)), Len(seqs) > 0
  PROVE  \E f \in [1 .. Len(seqs) -> Seq(S)] :
           IsFlattening(seqs, f) /\ FlattenSeq(seqs) = f[Len(seqs)]
<1> DEFINE n == Len(seqs)
           step == [p \in Seq(S) \X (1 .. n) |-> p[1] \o seqs[p[2]]]
           Flattens(f) == f = [i \in 1 .. n |->
                                 IF i = 1 THEN seqs[i] ELSE f[i - 1] \o seqs[i]]
<1>1. n \in Nat /\ 1 \in 1 .. n /\ n \in 1 .. n /\ seqs[1] \in Seq(S)
      /\ \A i \in 1 .. n : seqs[i] \in Seq(S)
  OBVIOUS
<1>2. step \in [Seq(S) \X (1 .. n) -> Seq(S)]
  <2> SUFFICES ASSUME NEW s \in Seq(S), NEW i \in 1 .. n
               PROVE  s \o seqs[i] \in Seq(S)
    OBVIOUS
  <2> QED
    BY <1>1
<1>3. PICK g \in [1 .. n -> Seq(S)] :
        IsRecursion(n, seqs[1], step, g)
  <2> HIDE DEF n, step
  <2> QED
    BY <1>1, <1>2, RecursionDefined
<1>4. \A i \in 1 .. n : g[i] = IF i = 1 THEN seqs[i] ELSE g[i - 1] \o seqs[i]
  <2> SUFFICES ASSUME NEW i \in 1 .. n, i # 1
               PROVE  step[<<g[i - 1], i>>] = g[i - 1] \o seqs[i]
    BY <1>3 DEF IsRecursion
  <2>1. i - 1 \in 1 .. n
    OBVIOUS
  <2>2. g[i - 1] \in Seq(S)
    BY <2>1
  <2>3. <<g[i - 1], i>> \in Seq(S) \X (1 .. n)
    BY <2>2
  <2> QED
    BY <2>3
<1>5. Flattens(g)
  BY <1>3, <1>4
<1>6. FlattenSeq(seqs) = (CHOOSE f : Flattens(f))[n]
  <2>1. Len(seqs) # 0
    BY <1>1
  <2> QED
    BY Zenon, <2>1 DEF FlattenSeq
<1> DEFINE h == CHOOSE f : Flattens(f)
<1>7. Flattens(h)
  <2> HIDE DEF Flattens
  <2> QED
    BY <1>5
<1>8. \A i \in 1 .. n : h[i] = IF i = 1 THEN seqs[i] ELSE h[i - 1] \o seqs[i]
  <2>1. h = [i \in 1 .. n |-> IF i = 1 THEN seqs[i] ELSE h[i - 1] \o seqs[i]]
    BY <1>7
  <2> HIDE DEF h
  <2> QED
    BY <2>1
<1> HIDE DEF h
<1>9. h[1] = seqs[1] /\ \A i \in 1 .. n - 1 : h[i + 1] = h[i] \o seqs[i + 1]
  <2>1. h[1] = seqs[1]
    BY <1>1, <1>8
  <2>2. ASSUME NEW i \in 1 .. n - 1 PROVE h[i + 1] = h[i] \o seqs[i + 1]
    <3>1. i + 1 \in 1 .. n /\ i + 1 # 1 /\ (i + 1) - 1 = i
      BY <1>1
    <3>2. h[i + 1] = h[(i + 1) - 1] \o seqs[i + 1]
      BY <1>8, <3>1
    <3> QED
      BY <3>1, <3>2
  <2> QED
    BY <2>1, <2>2
<1> DEFINE T == {k \in 0 .. n : k = 0 \/ h[k] \in Seq(S)}
<1>10. 0 .. n \subseteq T
  <2>1. 0 \in T
    BY <1>1
  <2>2. ASSUME NEW k \in 0 .. n - 1, k \in T PROVE k + 1 \in T
    <3>1. k + 1 \in 1 .. n /\ k + 1 \in 0 .. n
      BY <1>1
    <3>2. CASE k = 0
      BY <1>1, <1>9, <3>1, <3>2
    <3>3. CASE k # 0
      <4>1. k \in 1 .. n - 1
        BY <1>1, <3>3
      <4>2. h[k] \in Seq(S) /\ seqs[k + 1] \in Seq(S)
        BY <1>1, <2>2, <3>1, <3>3
      <4>3. h[k] \o seqs[k + 1] \in Seq(S)
        BY <4>2
      <4>4. h[k + 1] \in Seq(S)
        BY <1>9, <4>1, <4>3
      <4> QED
        BY <3>1, <4>4
    <3> QED
      BY <3>2, <3>3
  <2> HIDE DEF T
  <2> QED
    BY <1>1, <2>1, <2>2, Induction
<1>11. h \in [1 .. n -> Seq(S)]
  <2>1. \A i \in 1 .. n : h[i] \in Seq(S)
    BY <1>1, <1>10
  <2>2. h = [i \in 1 .. n |-> h[i]]
    BY <1>7 DEF h
  <2> QED
    BY <2>1, <2>2
<1>12. FlattenSeq(seqs) = h[n]
  BY <1>6 DEF h
<1> QED
  BY <1>9, <1>11, <1>12 DEF IsFlattening

(***************************************************************************)
(* The elements of a concatenation.                                        *)
LEMMA ConcatElements ==
  ASSUME NEW S, NEW s \in Seq(S), NEW t \in Seq(S)
  PROVE  /\ s \o t \in Seq(S)
         /\ ToSet(s \o t) = ToSet(s) \cup ToSet(t)
<1>1. s \o t \in Seq(S) /\ Len(s \o t) = Len(s) + Len(t)
      /\ Len(s) \in Nat /\ Len(t) \in Nat
  OBVIOUS
<1>2. \A i \in 1 .. Len(s) : (s \o t)[i] = s[i]
  OBVIOUS
<1>3. \A i \in 1 .. Len(t) : (s \o t)[Len(s) + i] = t[i]
  OBVIOUS
<1>4. \A i \in 1 .. Len(s) + Len(t) : i \notin 1 .. Len(s) =>
        i - Len(s) \in 1 .. Len(t) /\ i = Len(s) + (i - Len(s))
  BY <1>1
<1>5. DOMAIN s = 1 .. Len(s) /\ DOMAIN t = 1 .. Len(t)
      /\ DOMAIN (s \o t) = 1 .. Len(s) + Len(t)
  OBVIOUS
<1>6. \A i \in 1 .. Len(s) : i \in 1 .. Len(s) + Len(t)
  BY <1>1
<1>7. \A i \in 1 .. Len(t) : Len(s) + i \in 1 .. Len(s) + Len(t)
  BY <1>1
<1>8. ToSet(s \o t) \subseteq ToSet(s) \cup ToSet(t)
  <2> SUFFICES ASSUME NEW i \in 1 .. Len(s) + Len(t)
               PROVE  (s \o t)[i] \in ToSet(s) \cup ToSet(t)
    BY <1>5 DEF ToSet
  <2>1. CASE i \in 1 .. Len(s)
    BY <1>2, <1>5, <2>1 DEF ToSet
  <2>2. CASE i \notin 1 .. Len(s)
    <3> DEFINE j == i - Len(s)
    <3>1. j \in 1 .. Len(t) /\ i = Len(s) + j
      BY <1>4, <2>2
    <3> HIDE DEF j
    <3> QED
      BY <1>3, <1>5, <3>1 DEF ToSet
  <2> QED
    BY <2>1, <2>2
<1>9. ToSet(s) \cup ToSet(t) \subseteq ToSet(s \o t)
  <2>1. \A i \in 1 .. Len(s) : s[i] \in ToSet(s \o t)
    BY <1>2, <1>5, <1>6 DEF ToSet
  <2>2. \A i \in 1 .. Len(t) : t[i] \in ToSet(s \o t)
    BY <1>3, <1>5, <1>7 DEF ToSet
  <2> QED
    BY <1>5, <2>1, <2>2 DEF ToSet
<1> QED
  BY <1>1, <1>8, <1>9

(* The elements of a flattened sequence.                                   *)
LEMMA FlattenElements ==
  ASSUME NEW S, NEW seqs \in Seq(Seq(S))
  PROVE  /\ FlattenSeq(seqs) \in Seq(S)
         /\ ToSet(FlattenSeq(seqs)) = UNION {ToSet(seqs[i]) : i \in DOMAIN seqs}
<1> DEFINE n == Len(seqs)
           Prefix(k) == UNION {ToSet(seqs[i]) : i \in 1 .. k}
<1>1. n \in Nat /\ DOMAIN seqs = 1 .. n /\ \A i \in 1 .. n : seqs[i] \in Seq(S)
  OBVIOUS
<1>2. CASE n = 0
  <2>1. FlattenSeq(seqs) = seqs /\ seqs = <<>> /\ DOMAIN seqs = {}
    BY <1>1, <1>2 DEF FlattenSeq
  <2> QED
    BY <2>1 DEF ToSet
<1>3. CASE n # 0
  <2>1. PICK f \in [1 .. n -> Seq(S)] :
          IsFlattening(seqs, f) /\ FlattenSeq(seqs) = f[n]
    BY <1>1, <1>3, FlattenSteps
  <2> DEFINE T == {k \in 0 .. n : k = 0 \/ ToSet(f[k]) = Prefix(k)}
  <2>2. 0 \in T
    BY <1>1
  <2>3. ASSUME NEW k \in 0 .. n - 1, k \in T PROVE k + 1 \in T
    <3>1. k + 1 \in 1 .. n /\ k + 1 \in 0 .. n
      BY <1>1
    <3>2. 1 .. k + 1 = (1 .. k) \cup {k + 1}
      BY <1>1
    <3>3. Prefix(k + 1) = Prefix(k) \cup ToSet(seqs[k + 1])
      BY <3>2
    <3>4. CASE k = 0
      <4>1. f[k + 1] = seqs[k + 1] /\ Prefix(k) = {}
        BY <2>1, <3>4 DEF IsFlattening
      <4> QED
        BY <3>1, <3>3, <4>1
    <3>5. CASE k # 0
      <4>1. k \in 1 .. n /\ f[k + 1] = f[k] \o seqs[k + 1]
        <5>1. k \in 1 .. n - 1 /\ k \in 1 .. n
          BY <1>1, <3>5
        <5> QED
          BY <2>1, <5>1 DEF IsFlattening
      <4>2. ToSet(f[k + 1]) = ToSet(f[k]) \cup ToSet(seqs[k + 1])
        <5>1. f[k] \in Seq(S) /\ seqs[k + 1] \in Seq(S)
          BY <1>1, <3>1, <4>1
        <5> QED
          BY <4>1, <5>1, ConcatElements
      <4> QED
        BY <2>3, <3>1, <3>3, <3>5, <4>2
    <3> QED
      BY <3>4, <3>5
  <2>4. n \in T
    <3> HIDE DEF T
    <3>1. 0 .. n \subseteq T
      BY <1>1, <2>2, <2>3, Induction
    <3> QED
      BY <1>1, <3>1
  <2>5. FlattenSeq(seqs) \in Seq(S)
    <3>1. n \in 1 .. n
      BY <1>1, <1>3
    <3> QED
      BY <2>1, <3>1
  <2>6. ToSet(FlattenSeq(seqs)) = Prefix(n)
    BY <1>1, <1>3, <2>1, <2>4
  <2> QED
    BY <1>1, <2>5, <2>6
<1> QED
  BY <1>2, <1>3

(* Sequences without repetition that share no element have a concatenation *)
(* without repetition.                                                     *)
LEMMA ConcatInjective ==
  ASSUME NEW S, NEW s \in Seq(S), NEW t \in Seq(S),
         IsInjective(s), IsInjective(t), ToSet(s) \cap ToSet(t) = {}
  PROVE  IsInjective(s \o t)
<1>1. s \o t \in Seq(S) /\ Len(s) \in Nat /\ Len(t) \in Nat
      /\ DOMAIN s = 1 .. Len(s) /\ DOMAIN t = 1 .. Len(t)
      /\ DOMAIN (s \o t) = 1 .. Len(s) + Len(t)
  OBVIOUS
<1>2. \A i \in 1 .. Len(s) : (s \o t)[i] = s[i] /\ s[i] \in ToSet(s)
  BY <1>1 DEF ToSet
<1>3. \A j \in 1 .. Len(t) : (s \o t)[Len(s) + j] = t[j] /\ t[j] \in ToSet(t)
  BY <1>1 DEF ToSet
<1>4. \A i \in DOMAIN (s \o t) :
        i \in 1 .. Len(s) \/ \E j \in 1 .. Len(t) : i = Len(s) + j
  <2> SUFFICES ASSUME NEW i \in 1 .. Len(s) + Len(t), i \notin 1 .. Len(s)
               PROVE  \E j \in 1 .. Len(t) : i = Len(s) + j
    BY <1>1
  <2>1. i - Len(s) \in 1 .. Len(t) /\ i = Len(s) + (i - Len(s))
    BY <1>1
  <2> QED
    BY <2>1
<1> SUFFICES ASSUME NEW i \in DOMAIN (s \o t), NEW j \in DOMAIN (s \o t),
                    (s \o t)[i] = (s \o t)[j]
             PROVE  i = j
  BY DEF IsInjective
<1>5. CASE i \in 1 .. Len(s) /\ j \in 1 .. Len(s)
  BY <1>1, <1>2, <1>5 DEF IsInjective
<1>6. CASE i \notin 1 .. Len(s) /\ j \notin 1 .. Len(s)
  BY <1>1, <1>3, <1>4, <1>6 DEF IsInjective
<1>7. CASE i \in 1 .. Len(s) /\ j \notin 1 .. Len(s)
  BY <1>2, <1>3, <1>4, <1>7
<1>8. CASE i \notin 1 .. Len(s) /\ j \in 1 .. Len(s)
  BY <1>2, <1>3, <1>4, <1>8
<1> QED
  BY <1>5, <1>6, <1>7, <1>8

(* The same of a flattened sequence.                                       *)
LEMMA FlattenInjective ==
  ASSUME NEW S, NEW seqs \in Seq(Seq(S)),
         \A i \in DOMAIN seqs : IsInjective(seqs[i]),
         \A i, j \in DOMAIN seqs : i # j => ToSet(seqs[i]) \cap ToSet(seqs[j]) = {}
  PROVE  IsInjective(FlattenSeq(seqs))
<1> DEFINE n == Len(seqs)
           Prefix(k) == UNION {ToSet(seqs[i]) : i \in 1 .. k}
<1>1. n \in Nat /\ DOMAIN seqs = 1 .. n /\ \A i \in 1 .. n : seqs[i] \in Seq(S)
  OBVIOUS
<1>2. CASE n = 0
  <2>1. FlattenSeq(seqs) = seqs /\ DOMAIN seqs = {}
    BY <1>1, <1>2 DEF FlattenSeq
  <2> QED
    BY <2>1 DEF IsInjective
<1>3. CASE n # 0
  <2>1. PICK f \in [1 .. n -> Seq(S)] :
          IsFlattening(seqs, f) /\ FlattenSeq(seqs) = f[n]
    BY <1>1, <1>3, FlattenSteps
  <2> DEFINE T == {k \in 0 .. n :
                     k = 0 \/ (ToSet(f[k]) = Prefix(k) /\ IsInjective(f[k]))}
  <2>2. 0 \in T
    BY <1>1
  <2>3. ASSUME NEW k \in 0 .. n - 1, k \in T PROVE k + 1 \in T
    <3>1. k + 1 \in 1 .. n /\ k + 1 \in 0 .. n /\ seqs[k + 1] \in Seq(S)
      BY <1>1
    <3>2. 1 .. k + 1 = (1 .. k) \cup {k + 1}
      BY <1>1
    <3>3. Prefix(k + 1) = Prefix(k) \cup ToSet(seqs[k + 1])
      BY <3>2
    <3>4. CASE k = 0
      <4>1. f[k + 1] = seqs[k + 1] /\ Prefix(k) = {}
        BY <2>1, <3>4 DEF IsFlattening
      <4> QED
        BY <1>1, <3>1, <3>3, <4>1
    <3>5. CASE k # 0
      <4>1. k \in 1 .. n - 1 /\ k \in 1 .. n
        BY <1>1, <3>5
      <4>2. f[k + 1] = f[k] \o seqs[k + 1] /\ f[k] \in Seq(S)
        BY <2>1, <4>1 DEF IsFlattening
      <4>3. ToSet(f[k]) = Prefix(k) /\ IsInjective(f[k])
        BY <2>3, <3>5
      <4>4. ToSet(f[k]) \cap ToSet(seqs[k + 1]) = {}
        <5>1. \A i \in 1 .. k : i # k + 1 /\ i \in 1 .. n
          BY <1>1
        <5>2. \A i \in 1 .. k : ToSet(seqs[i]) \cap ToSet(seqs[k + 1]) = {}
          BY <1>1, <3>1, <5>1
        <5> QED
          BY <4>3, <5>2
      <4>5. ToSet(f[k + 1]) = Prefix(k + 1)
        <5>1. ToSet(f[k + 1]) = ToSet(f[k]) \cup ToSet(seqs[k + 1])
          BY <3>1, <4>2, ConcatElements
        <5> QED
          BY <3>3, <4>3, <5>1
      <4>6. IsInjective(f[k + 1])
        BY <1>1, <3>1, <4>2, <4>3, <4>4, ConcatInjective
      <4> QED
        BY <3>1, <4>5, <4>6
    <3> QED
      BY <3>4, <3>5
  <2>4. n \in T
    <3> HIDE DEF T
    <3>1. 0 .. n \subseteq T
      BY <1>1, <2>2, <2>3, Induction
    <3> QED
      BY <1>1, <3>1
  <2> QED
    BY <1>3, <2>1, <2>4
<1> QED
  BY <1>2, <1>3
=============================================================================
