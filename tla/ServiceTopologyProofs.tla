------------------------ MODULE ServiceTopologyProofs ------------------------
(***************************************************************************)
(* What the service queries return, for every graph that is sound:          *)
(*   - a set in a total order is listed by rank, each element once;         *)
(*   - a depth-first search that skips what it has done with misses cycles, *)
(*     but no group of services that depend on each other;                  *)
(*   - the breadth-first search ends with a shortest path if there is one;  *)
(*   - dead services, bottlenecks, dependencies and dependents are what     *)
(*     the connections say.                                                 *)
(* The recursion of both searches is that of a function, so that the        *)
(* lemmas of InductionLemmas say it is defined and prove what it keeps.     *)
(***************************************************************************)
EXTENDS ServiceTopology, InductionLemmas, FiniteSetTheorems

-----------------------------------------------------------------------------
(* Sets put in an order.                                                    *)

(* P is a total order of S without equality, as a set of pairs.            *)
IsOrder(S, P) ==
  /\ \A x \in S : <<x, x>> \notin P
  /\ \A x, y, z \in S : <<x, y>> \in P /\ <<y, z>> \in P => <<x, z>> \in P
  /\ \A x, y \in S : x # y => <<x, y>> \in P \/ <<y, x>> \in P

Below(S, P) == [x \in S |-> Cardinality({y \in S : <<y, x>> \in P})]

(* rows has the elements of S, each once.                                   *)
IsListing(rows, S) ==
  /\ rows \in Seq(S)
  /\ Len(rows) = Cardinality(S)
  /\ ToSet(rows) = S
  /\ IsInjective(rows)

(* In an order, the elements of a set of n have 0 to n - 1 elements below. *)
LEMMA BelowIsBijection ==
  ASSUME NEW S, IsFiniteSet(S), NEW P, IsOrder(S, P)
  PROVE  /\ Cardinality(S) \in Nat
         /\ Below(S, P) \in Bijection(S, 0 .. Cardinality(S) - 1)
<1> DEFINE n == Cardinality(S)
           D(x) == {y \in S : <<y, x>> \in P}
           f == Below(S, P)
<1>1. n \in Nat
  BY FS_CardinalityType
<1>2. ASSUME NEW x \in S
      PROVE  IsFiniteSet(D(x)) /\ Cardinality(D(x)) \in 0 .. n - 1
  <2>1. D(x) \in SUBSET S /\ x \notin D(x)
    BY DEF IsOrder
  <2>2. IsFiniteSet(D(x)) /\ Cardinality(D(x)) <= n /\ Cardinality(D(x)) # n
    <3> HIDE DEF D
    <3> QED
      BY <2>1, FS_Subset
  <2>3. Cardinality(D(x)) \in Nat
    BY <2>2, FS_CardinalityType
  <2> QED
    BY <1>1, <2>2, <2>3
<1>3. ASSUME NEW x \in S, NEW y \in S, <<x, y>> \in P PROVE f[x] # f[y]
  <2>1. D(x) \in SUBSET D(y) /\ x \in D(y) /\ x \notin D(x)
    BY <1>3 DEF IsOrder
  <2>2. Cardinality(D(x)) # Cardinality(D(y))
    <3>1. IsFiniteSet(D(y))
      BY <1>2
    <3> HIDE DEF D
    <3> QED
      BY <2>1, <3>1, FS_Subset
  <2> QED
    BY <2>2 DEF Below
<1>4. f \in [S -> 0 .. n - 1]
  <2>1. \A x \in S : f[x] = Cardinality(D(x))
    BY DEF Below
  <2>2. f = [x \in S |-> f[x]]
    BY DEF Below
  <2> HIDE DEF f, D
  <2> QED
    BY <1>2, <2>1, <2>2
<1>5. \A x, y \in S : f[x] = f[y] => x = y
  <2> HIDE DEF f
  <2> QED
    BY <1>3 DEF IsOrder
<1>6. f \in Injection(S, 0 .. n - 1)
  <2> HIDE DEF f, n
  <2> QED
    BY <1>4, <1>5 DEF Injection, IsInjective
<1>7. IsFiniteSet(0 .. n - 1) /\ Cardinality(0 .. n - 1) = n
  <2>1. 0 \in Int /\ n - 1 \in Int
    BY <1>1
  <2>2. IsFiniteSet(0 .. n - 1)
        /\ Cardinality(0 .. n - 1) = IF 0 > n - 1 THEN 0 ELSE (n - 1) - 0 + 1
    BY <2>1, FS_Interval
  <2> HIDE DEF n
  <2> QED
    BY <1>1, <2>2
<1>8. f \in Surjection(S, 0 .. n - 1)
  <2> HIDE DEF f
  <2> QED
    BY <1>6, <1>7, FS_Injection
<1> QED
  BY <1>1, <1>6, <1>8 DEF Bijection

(* So a set that is listed by rank is listed.                               *)
LEMMA RankLists ==
  ASSUME NEW S, IsFiniteSet(S), NEW rank \in Bijection(S, 0 .. Cardinality(S) - 1)
  PROVE  /\ IsListing(ByRank(S, rank), S)
         /\ \A i \in 1 .. Cardinality(S) : rank[ByRank(S, rank)[i]] = i - 1
<1> DEFINE n == Cardinality(S)
           rows == ByRank(S, rank)
<1>1. n \in Nat
  BY FS_CardinalityType
<1>2. /\ rank \in [S -> 0 .. n - 1]
      /\ \A x, y \in S : rank[x] = rank[y] => x = y
      /\ \A k \in 0 .. n - 1 : \E x \in S : rank[x] = k
  BY DEF Bijection, Injection, Surjection, IsInjective
<1>3. rows = [i \in 1 .. n |-> rows[i]]
  BY DEF ByRank
<1>4. ASSUME NEW i \in 1 .. n PROVE rows[i] \in S /\ rank[rows[i]] = i - 1
  <2>1. i - 1 \in 0 .. n - 1
    BY <1>1
  <2>2. \E x \in S : rank[x] = i - 1
    BY <1>2, <2>1
  <2>3. rows[i] = CHOOSE x \in S : rank[x] = i - 1
    BY DEF ByRank
  <2> QED
    BY <2>2, <2>3
<1> HIDE DEF rows
<1>5. rows \in [1 .. n -> S]
  BY <1>3, <1>4
<1>6. rows \in Seq(S) /\ Len(rows) = n /\ DOMAIN rows = 1 .. n
  BY <1>1, <1>5
<1>7. ToSet(rows) = S
  <2>1. ASSUME NEW x \in S PROVE x \in ToSet(rows)
    <3>1. rank[x] + 1 \in 1 .. n /\ (rank[x] + 1) - 1 = rank[x]
      BY <1>1, <1>2
    <3>2. rows[rank[x] + 1] = x
      BY <1>2, <1>4, <3>1
    <3> QED
      BY <1>6, <3>1, <3>2 DEF ToSet
  <2> QED
    BY <1>5, <1>6, <2>1 DEF ToSet
<1>8. IsInjective(rows)
  <2> SUFFICES ASSUME NEW i \in 1 .. n, NEW j \in 1 .. n, rows[i] = rows[j]
               PROVE  i = j
    BY <1>6 DEF IsInjective
  <2>1. i - 1 = j - 1
    BY <1>4
  <2> QED
    BY <2>1
<1>9. IsListing(rows, S)
  BY <1>6, <1>7, <1>8 DEF IsListing
<1> QED
  BY <1>4, <1>9 DEF rows

(* A set in an order is listed, and in that order.                          *)
Follows(rows, P) ==
  \A i, j \in DOMAIN rows : i < j => <<rows[i], rows[j]>> \in P

LEMMA OrderLists ==
  ASSUME NEW S, IsFiniteSet(S), NEW P, IsOrder(S, P)
  PROVE  IsListing(ByRank(S, Below(S, P)), S) /\ Follows(ByRank(S, Below(S, P)), P)
<1> DEFINE rows == ByRank(S, Below(S, P))
           n == Cardinality(S)
<1>1. Below(S, P) \in Bijection(S, 0 .. n - 1) /\ n \in Nat
  BY BelowIsBijection
<1>2. IsListing(rows, S) /\ \A i \in 1 .. n : Below(S, P)[rows[i]] = i - 1
  BY <1>1, RankLists
<1> HIDE DEF rows
<1>3. DOMAIN rows = 1 .. n /\ \A i \in 1 .. n : rows[i] \in S
  BY <1>1, <1>2 DEF IsListing
<1>4. Follows(rows, P)
  <2> SUFFICES ASSUME NEW i \in 1 .. n, NEW j \in 1 .. n, i < j,
                      <<rows[i], rows[j]>> \notin P
               PROVE  FALSE
    BY <1>3 DEF Follows
  <2> DEFINE D(x) == {y \in S : <<y, x>> \in P}
  <2>1. rows[i] # rows[j]
    BY <1>2, <1>3 DEF IsListing, IsInjective
  <2>2. D(rows[j]) \in SUBSET D(rows[i])
    BY <1>3, <2>1 DEF IsOrder
  <2>3. \A x \in S : D(x) \in SUBSET S /\ Below(S, P)[x] = Cardinality(D(x))
    BY DEF Below
  <2> HIDE DEF D
  <2>4. IsFiniteSet(D(rows[i])) /\ Cardinality(D(rows[j])) <= Cardinality(D(rows[i]))
    BY <1>3, <2>2, <2>3, FS_Subset
  <2>5. j - 1 <= i - 1
    BY <1>2, <1>3, <2>3, <2>4
  <2> QED
    BY <2>5
<1> QED
  BY <1>2, <1>4 DEF rows
(* The order of names.                                                       *)
LEMMA NamesOrdered ==
  /\ \A a \in ToSet(Names) : ~ Precedes(a, a)
  /\ \A a, b, c \in ToSet(Names) : Precedes(a, b) /\ Precedes(b, c) => Precedes(a, c)
  /\ \A a, b \in ToSet(Names) : a # b => Precedes(a, b) \/ Precedes(b, a)
<1>0. \A a, b : Precedes(a, b) <=>
          \E i, j \in DOMAIN Names : i < j /\ Names[i] = a /\ Names[j] = b
  <2>1. DOMAIN Names = 1 .. Len(Names) /\ Len(Names) \in Nat
    BY NamesAssumption
  <2>2. \A i \in DOMAIN Names : \A j : j \in i + 1 .. Len(Names) <=> j \in DOMAIN Names /\ i < j
    BY <2>1
  <2> QED
    BY <2>2 DEF Precedes
<1>1. \A i \in DOMAIN Names : i \in Int
  BY NamesAssumption
<1>2. ASSUME NEW a \in ToSet(Names), Precedes(a, a) PROVE FALSE
  BY <1>0, <1>1, <1>2, NamesAssumption
<1>3. ASSUME NEW a, NEW b, NEW c, Precedes(a, b), Precedes(b, c) PROVE Precedes(a, c)
  <2>1. PICK i, j \in DOMAIN Names : i < j /\ Names[i] = a /\ Names[j] = b
    BY <1>0, <1>3
  <2>2. PICK k, m \in DOMAIN Names : k < m /\ Names[k] = b /\ Names[m] = c
    BY <1>0, <1>3
  <2>3. j = k
    BY <2>1, <2>2, NamesAssumption
  <2>4. i < m
    BY <1>1, <2>1, <2>2, <2>3
  <2> QED
    BY <1>0, <2>1, <2>2, <2>4
<1>4. ASSUME NEW a \in ToSet(Names), NEW b \in ToSet(Names), a # b
      PROVE  Precedes(a, b) \/ Precedes(b, a)
  <2>1. PICK i \in DOMAIN Names : Names[i] = a
    BY DEF ToSet
  <2>2. PICK j \in DOMAIN Names : Names[j] = b
    BY DEF ToSet
  <2>3. i < j \/ j < i
    BY <1>1, <1>4, <2>1, <2>2
  <2> QED
    BY <1>0, <2>1, <2>2, <2>3
<1> QED
  BY <1>2, <1>3, <1>4

(* Some of the rows, in their order.                                        *)
Picked(rows, at) == [k \in DOMAIN at |-> rows[at[k]]]
IndicesInOrder(I) == ByRank(I, [i \in I |-> Cardinality({j \in I : j < i})])

LEMMA IndicesList ==
  ASSUME NEW n \in Nat, NEW I \in SUBSET (1 .. n)
  PROVE  IsFiniteSet(I) /\ IsListing(IndicesInOrder(I), I)
<1> DEFINE P == {pair \in I \X I : pair[1] < pair[2]}
<1>1. \A i, j \in I : <<i, j>> \in P <=> i < j
  OBVIOUS
<1>2. IsFiniteSet(I)
  <2>1. 1 \in Int /\ n \in Int
    OBVIOUS
  <2>2. IsFiniteSet(1 .. n)
    BY <2>1, FS_Interval
  <2> QED
    BY <2>2, FS_Subset
<1>3. \A i \in I : i \in Int
  OBVIOUS
<1>4. IsOrder(I, P)
  <2> HIDE DEF P
  <2> QED
    BY <1>1, <1>3 DEF IsOrder
<1>5. [i \in I |-> Cardinality({j \in I : j < i})] = Below(I, P)
  <2>1. \A i \in I : {j \in I : j < i} = {j \in I : <<j, i>> \in P}
    BY <1>1
  <2> HIDE DEF P
  <2> QED
    BY <2>1 DEF Below
<1> HIDE DEF P
<1> QED
  BY <1>2, <1>4, <1>5, OrderLists DEF IndicesInOrder

LEMMA PickedRows ==
  ASSUME NEW R, NEW rows \in Seq(R), NEW I \in SUBSET DOMAIN rows
  PROVE  /\ Picked(rows, IndicesInOrder(I)) \in Seq(R)
         /\ Len(Picked(rows, IndicesInOrder(I))) = Cardinality(I)
         /\ Cardinality(I) \in Nat
         /\ ToSet(Picked(rows, IndicesInOrder(I))) = {rows[i] : i \in I}
<1> DEFINE at == IndicesInOrder(I)
           picked == Picked(rows, at)
<1>1. DOMAIN rows = 1 .. Len(rows) /\ Len(rows) \in Nat
      /\ \A i \in DOMAIN rows : rows[i] \in R
  OBVIOUS
<1>2. IsFiniteSet(I) /\ IsListing(at, I)
  BY <1>1, IndicesList
<1>3. Cardinality(I) \in Nat
  BY <1>2, FS_CardinalityType
<1> HIDE DEF at
<1>4. /\ at \in Seq(I) /\ Len(at) = Cardinality(I) /\ DOMAIN at = 1 .. Cardinality(I)
      /\ \A k \in DOMAIN at : at[k] \in I
  BY <1>2 DEF IsListing
<1>5. picked = [k \in 1 .. Cardinality(I) |-> rows[at[k]]]
  BY <1>4 DEF Picked
<1>6. \A k \in 1 .. Cardinality(I) : rows[at[k]] \in R
  BY <1>1, <1>4
<1> HIDE DEF picked
<1>7. picked \in Seq(R) /\ Len(picked) = Cardinality(I) /\ DOMAIN picked = 1 .. Cardinality(I)
  BY <1>3, <1>5, <1>6
<1>8. ToSet(picked) = {rows[at[k]] : k \in DOMAIN at}
  BY <1>4, <1>5, <1>7 DEF ToSet
<1>9. I = {at[k] : k \in DOMAIN at}
  BY <1>2 DEF IsListing, ToSet
<1>10. ToSet(picked) = {rows[i] : i \in I}
  BY <1>8, <1>9
<1> QED
  BY <1>3, <1>7, <1>10 DEF at, picked

(* Names in a list: each of them once.                                      *)
LEMMA NamesFinite == \A S \in SUBSET ToSet(Names) : IsFiniteSet(S)
<1>1. Len(Names) \in Nat /\ DOMAIN Names = 1 .. Len(Names)
  BY NamesAssumption
<1>2. IsFiniteSet(DOMAIN Names)
  <2>1. 1 \in Int /\ Len(Names) \in Int
    BY <1>1
  <2> QED
    BY <1>1, <2>1, FS_Interval
<1> DEFINE image == [i \in DOMAIN Names |-> Names[i]]
<1>3. image \in Surjection(DOMAIN Names, ToSet(Names))
  BY DEF Surjection, ToSet
<1> HIDE DEF image
<1>4. IsFiniteSet(ToSet(Names))
  BY <1>2, <1>3, FS_Surjection
<1> QED
  BY <1>4, FS_Subset

LEMMA ByNameLists ==
  ASSUME NEW S \in SUBSET ToSet(Names)
  PROVE  /\ IsFiniteSet(S) /\ IsListing(ByName(S), S)
         /\ \A i, j \in DOMAIN ByName(S) : i < j => Precedes(ByName(S)[i], ByName(S)[j])
<1> DEFINE P == {pair \in S \X S : Precedes(pair[1], pair[2])}
<1>1. IsFiniteSet(S)
  BY NamesFinite
<1>2. \A a, b \in S : <<a, b>> \in P <=> Precedes(a, b)
  OBVIOUS
<1>3. IsOrder(S, P)
  <2>1. \A a \in S : a \in ToSet(Names)
    OBVIOUS
  <2> HIDE DEF P
  <2> QED
    BY <1>2, <2>1, NamesOrdered DEF IsOrder
<1>4. ByName(S) = ByRank(S, Below(S, P))
  <2>1. \A a \in S : {b \in S : Precedes(b, a)} = {b \in S : <<b, a>> \in P}
    BY <1>2
  <2>2. [a \in S |-> Cardinality({b \in S : Precedes(b, a)})] = Below(S, P)
    <3> HIDE DEF P
    <3> QED
      BY <2>1 DEF Below
  <2> HIDE DEF P
  <2> QED
    BY <2>2 DEF ByName, Ordered
<1>5. \A a, b : <<a, b>> \in P => Precedes(a, b)
  OBVIOUS
<1> HIDE DEF P
<1>6. IsListing(ByName(S), S) /\ Follows(ByName(S), P)
  BY <1>1, <1>3, <1>4, OrderLists
<1> QED
  BY <1>1, <1>5, <1>6 DEF Follows
-----------------------------------------------------------------------------
(* What connections lead to.                                                *)

(* Connections between names that can be sorted.                            *)
Sortable(conns) ==
  \A c \in conns : c.source \in ToSet(Names) /\ c.target \in ToSet(Names)

LEMMA AdjacentNames ==
  ASSUME NEW conns, Sortable(conns), NEW name
  PROVE  /\ Adjacent(conns, name) \subseteq {c.target : c \in conns}
         /\ Adjacent(conns, name) \subseteq NamesIn(conns)
         /\ NamesIn(conns) \subseteq ToSet(Names)
         /\ IsFiniteSet(NamesIn(conns)) /\ Cardinality(NamesIn(conns)) \in Nat
<1>1. NamesIn(conns) \subseteq ToSet(Names)
  BY DEF NamesIn, Sortable
<1>2. IsFiniteSet(NamesIn(conns))
  BY <1>1, NamesFinite
<1> QED
  BY <1>1, <1>2, FS_CardinalityType DEF Adjacent, From, NamesIn

(* What is reached is one connection away, or one from what is reached.     *)
LEMMA ReachedSteps ==
  ASSUME NEW conns, NEW a
  PROVE  /\ Reached(conns, a) \subseteq {c.target : c \in conns}
         /\ Adjacent(conns, a) \subseteq Reached(conns, a)
         /\ \A b \in Reached(conns, a) : Adjacent(conns, b) \subseteq Reached(conns, a)
<1> DEFINE targets == {c.target : c \in conns}
           Closed(set) == Adjacent(conns, a) \cup UNION {Adjacent(conns, n) : n \in set}
                            \subseteq set
<1>1. \A n : Adjacent(conns, n) \subseteq targets
  BY DEF Adjacent, From
<1>2. \A t : t \in Reached(conns, a) <=>
               t \in targets /\ \A set \in SUBSET targets : Closed(set) => t \in set
  BY DEF Reached
<1>3. \A set : Closed(set) => Adjacent(conns, a) \subseteq set
                  /\ \A b \in set : Adjacent(conns, b) \subseteq set
  OBVIOUS
<1> HIDE DEF targets, Closed
<1>4. Reached(conns, a) \subseteq targets
  BY <1>2
<1>5. Adjacent(conns, a) \subseteq Reached(conns, a)
  BY <1>1, <1>2, <1>3
<1>6. ASSUME NEW b \in Reached(conns, a)
      PROVE  Adjacent(conns, b) \subseteq Reached(conns, a)
  <2>1. ASSUME NEW set \in SUBSET targets, Closed(set)
        PROVE  Adjacent(conns, b) \subseteq set
    BY <1>2, <1>3, <2>1
  <2> QED
    BY <1>1, <1>2, <2>1
<1> QED
  BY <1>4, <1>5, <1>6 DEF targets

LEMMA ReachedTransitive ==
  ASSUME NEW conns, NEW a, NEW b \in Reached(conns, a), NEW c \in Reached(conns, b)
  PROVE  c \in Reached(conns, a)
<1> DEFINE set == Reached(conns, a)
<1>1. set \in SUBSET {d.target : d \in conns}
  BY ReachedSteps
<1>2. Adjacent(conns, b) \cup UNION {Adjacent(conns, n) : n \in set} \subseteq set
  BY ReachedSteps
<1> HIDE DEF set
<1>3. c \in set
  BY <1>1, <1>2 DEF Reached
<1> QED
  BY <1>3 DEF set

(* The first step to what is reached.                                       *)
LEMMA ReachedFirst ==
  ASSUME NEW conns, NEW a, NEW b \in Reached(conns, a)
  PROVE  \E n \in Adjacent(conns, a) : b = n \/ b \in Reached(conns, n)
<1> DEFINE set == Adjacent(conns, a) \cup UNION {Reached(conns, n) : n \in Adjacent(conns, a)}
<1>1. set \in SUBSET {d.target : d \in conns}
  BY ReachedSteps
<1>2. Adjacent(conns, a) \cup UNION {Adjacent(conns, n) : n \in set} \subseteq set
  BY ReachedSteps
<1>3. b \in set
  <2> HIDE DEF set
  <2> QED
    BY <1>1, <1>2 DEF Reached
<1> QED
  BY <1>3

(* Along a path, every name is reached from those before it.                *)
IsPath(conns, path) == \A i \in 1 .. Len(path) - 1 : path[i + 1] \in Adjacent(conns, path[i])

LEMMA PathReaches ==
  ASSUME NEW conns, NEW R, NEW path \in Seq(R), IsPath(conns, path), NEW i \in 1 .. Len(path)
  PROVE  \A j \in i + 1 .. Len(path) : path[j] \in Reached(conns, path[i])
<1> DEFINE n == Len(path) - i
           T == {m \in 0 .. n : \A j \in i + 1 .. i + m : path[j] \in Reached(conns, path[i])}
<1>1. n \in Nat /\ Len(path) \in Nat
  OBVIOUS
<1>2. 0 \in T
  BY <1>1
<1>3. ASSUME NEW m \in 0 .. n - 1, m \in T PROVE m + 1 \in T
  <2>1. m + 1 \in 0 .. n /\ i + m \in 1 .. Len(path) - 1
    BY <1>1
  <2>2. path[i + m + 1] \in Adjacent(conns, path[i + m])
    BY <2>1 DEF IsPath
  <2>3. path[i + m + 1] \in Reached(conns, path[i])
    <3>1. CASE m = 0
      BY <2>2, <3>1, ReachedSteps
    <3>2. CASE m # 0
      <4>1. i + m \in i + 1 .. i + m
        BY <3>2
      <4>2. path[i + m] \in Reached(conns, path[i])
        BY <1>3, <4>1
      <4> QED
        BY <2>2, <4>2, ReachedSteps
    <3> QED
      BY <3>1, <3>2
  <2>4. ASSUME NEW j \in i + 1 .. i + (m + 1) PROVE path[j] \in Reached(conns, path[i])
    <3>1. j \in i + 1 .. i + m \/ j = i + m + 1
      OBVIOUS
    <3> QED
      BY <1>3, <2>3, <3>1
  <2> QED
    BY <2>1, <2>4
<1>4. n \in T
  <2> HIDE DEF T, n
  <2>1. 0 .. n \subseteq T
    BY <1>1, <1>2, <1>3, Induction
  <2> QED
    BY <1>1, <2>1
<1>5. i + n = Len(path)
  BY <1>1
<1> QED
  BY <1>4, <1>5

-----------------------------------------------------------------------------
(* The cycle that a search closes.                                          *)

(* A part of a sequence.                                                    *)
LEMMA PartOf ==
  ASSUME NEW R, NEW s \in Seq(R), NEW a \in 1 .. Len(s) + 1, NEW b \in 0 .. Len(s), a =< b + 1
  PROVE  /\ SubSeq(s, a, b) \in Seq(R)
         /\ Len(SubSeq(s, a, b)) = b - a + 1
         /\ \A k \in 1 .. b - a + 1 : SubSeq(s, a, b)[k] = s[a + k - 1]
         /\ ToSet(SubSeq(s, a, b)) = {s[i] : i \in a .. b}
<1>1. Len(s) \in Nat /\ DOMAIN s = 1 .. Len(s)
  OBVIOUS
<1>2. /\ SubSeq(s, a, b) \in Seq(R)
      /\ Len(SubSeq(s, a, b)) = b - a + 1
      /\ \A k \in 1 .. b - a + 1 : SubSeq(s, a, b)[k] = s[a + k - 1]
  BY <1>1
<1>3. DOMAIN SubSeq(s, a, b) = 1 .. b - a + 1
  BY <1>2
<1>4. ASSUME NEW i \in a .. b PROVE s[i] \in ToSet(SubSeq(s, a, b))
  <2>1. (i - a) + 1 \in 1 .. b - a + 1 /\ a + ((i - a) + 1) - 1 = i
    BY <1>1
  <2>2. SubSeq(s, a, b)[(i - a) + 1] = s[i]
    BY <1>2, <2>1
  <2> QED
    BY <1>3, <2>1, <2>2 DEF ToSet
<1>5. ASSUME NEW x \in ToSet(SubSeq(s, a, b)) PROVE x \in {s[i] : i \in a .. b}
  <2>1. PICK k \in 1 .. b - a + 1 : x = SubSeq(s, a, b)[k]
    BY <1>3 DEF ToSet
  <2>2. a + k - 1 \in a .. b /\ x = s[a + k - 1]
    BY <1>1, <1>2, <2>1
  <2> QED
    BY <2>2
<1> QED
  BY <1>2, <1>4, <1>5

(* A sequence of names that is not empty has a smallest one.                *)
LEMMA SmallestName ==
  ASSUME NEW R \in SUBSET ToSet(Names), NEW body \in Seq(R), body # <<>>
  PROVE  \E i \in DOMAIN body :
           \A j \in DOMAIN body : body[j] # body[i] => Precedes(body[i], body[j])
<1> DEFINE S == ToSet(body)
           rows == ByName(S)
<1>1. S \in SUBSET ToSet(Names) /\ body[1] \in S
  BY DEF ToSet
<1> HIDE DEF S
<1>2. /\ IsListing(rows, S)
      /\ \A i, j \in DOMAIN rows : i < j => Precedes(rows[i], rows[j])
  BY <1>1, ByNameLists
<1> HIDE DEF rows
<1>3. DOMAIN rows = 1 .. Len(rows) /\ Len(rows) \in Nat /\ ToSet(rows) = S
  BY <1>2 DEF IsListing
<1>4. 1 \in DOMAIN rows
  BY <1>1, <1>3 DEF ToSet
<1>5. rows[1] \in S
  BY <1>3, <1>4 DEF ToSet
<1>6. PICK i \in DOMAIN body : body[i] = rows[1]
  BY <1>5 DEF S, ToSet
<1>7. ASSUME NEW j \in DOMAIN body, body[j] # body[i] PROVE Precedes(body[i], body[j])
  <2>1. body[j] \in S
    BY DEF S, ToSet
  <2>2. PICK k \in DOMAIN rows : rows[k] = body[j]
    BY <1>3, <2>1 DEF ToSet
  <2>3. 1 < k
    BY <1>3, <1>6, <1>7, <2>2
  <2> QED
    BY <1>2, <1>4, <1>6, <2>2, <2>3
<1> QED
  BY <1>7

(* Rotating a cycle changes nothing about which names are on it.            *)
LEMMA NormalizedNames ==
  ASSUME NEW R \in SUBSET ToSet(Names), NEW body \in Seq(R), body # <<>>, NEW name
  PROVE  /\ NormalizeCycle(Append(body, name)) \in Seq(R)
         /\ ToSet(NormalizeCycle(Append(body, name))) = ToSet(body)
<1> DEFINE first == CHOOSE i \in DOMAIN body :
                      \A j \in DOMAIN body : body[j] # body[i] => Precedes(body[i], body[j])
           left == SubSeq(body, first, Len(body))
           right == SubSeq(body, 1, first - 1)
           last == <<body[first]>>
<1>1. Front(Append(body, name)) = body
  BY DEF Front
<1>2. NormalizeCycle(Append(body, name)) = left \o right \o last
  BY <1>1 DEF NormalizeCycle
<1>3. first \in DOMAIN body
  BY SmallestName
<1> HIDE DEF first
<1>4. DOMAIN body = 1 .. Len(body) /\ Len(body) \in Nat /\ body[first] \in R
  BY <1>3
<1>5. left \in Seq(R) /\ ToSet(left) = {body[i] : i \in first .. Len(body)}
  BY <1>3, <1>4, PartOf
<1>6. right \in Seq(R) /\ ToSet(right) = {body[i] : i \in 1 .. first - 1}
  <2>1. 1 \in 1 .. Len(body) + 1 /\ first - 1 \in 0 .. Len(body) /\ 1 =< (first - 1) + 1
    BY <1>3, <1>4
  <2> QED
    BY <2>1, PartOf
<1>7. last \in Seq(R) /\ ToSet(last) = {body[first]}
  BY <1>4 DEF ToSet
<1> HIDE DEF left, right, last
<1>8. left \o right \in Seq(R) /\ ToSet(left \o right) = ToSet(left) \cup ToSet(right)
  BY <1>5, <1>6, ConcatElements
<1> DEFINE both == left \o right
<1>9. both \o last \in Seq(R) /\ ToSet(both \o last) = ToSet(both) \cup ToSet(last)
  <2>1. both \in Seq(R)
    BY <1>8
  <2> HIDE DEF both
  <2> QED
    BY <1>7, <2>1, ConcatElements
<1>10. ToSet(left) \cup ToSet(right) = ToSet(body) /\ body[first] \in ToSet(body)
  <2>1. \A i \in 1 .. Len(body) : i \in first .. Len(body) \/ i \in 1 .. first - 1
    BY <1>3, <1>4
  <2>2. \A i : i \in first .. Len(body) \/ i \in 1 .. first - 1 => i \in 1 .. Len(body)
    BY <1>3, <1>4
  <2> QED
    BY <1>3, <1>4, <1>5, <1>6, <2>1, <2>2 DEF ToSet
<1> QED
  BY <1>2, <1>7, <1>8, <1>9, <1>10

-----------------------------------------------------------------------------
(* The depth-first search for cycles.                                       *)

Found(st) == UNION {ToSet(w) : w \in ToSet(st.cycles)}

(* What a search has found and has done with: who it has done with and did  *)
(* not find on a cycle leads only to names it has done with, and no group   *)
(* of them leads back to itself; who it did find is on a cycle.             *)
SoundFindings(conns, st) ==
  /\ \A v \in st.visited \ Found(st) : Adjacent(conns, v) \subseteq st.visited
  /\ \A X \in SUBSET (st.visited \ Found(st)) :
       X # {} => \E v \in X : Adjacent(conns, v) \cap X = {}
  /\ \A s \in Found(st) : s \in Reached(conns, s)

Calls(conns) ==
  NamesIn(conns) \X Seq(NamesIn(conns)) \X Findings(NamesIn(conns))

(* A stack as the search has it: a path through names it has not done with. *)
IsStack(conns, stack, st) ==
  /\ stack \in Seq(NamesIn(conns)) /\ IsInjective(stack) /\ IsPath(conns, stack)
  /\ st \in Findings(NamesIn(conns)) /\ SoundFindings(conns, st)
  /\ st.visited \cap ToSet(stack) = {}

IsCall(conns, name, stack, st) ==
  /\ IsStack(conns, stack, st) /\ name \in NamesIn(conns)
  /\ stack # <<>> => name \in Adjacent(conns, Last(stack))

(* What a call for a name leaves: more than it was given, and the name      *)
(* done with, or found to lead back to the stack.                           *)
Grown(conns, stack, st, r) ==
  /\ IsStack(conns, stack, r)
  /\ st.visited \subseteq r.visited /\ Found(st) \subseteq Found(r)
Told(name, stack, r) ==
  IF name \in ToSet(stack) THEN Last(stack) \in Found(r) ELSE name \in r.visited

(* It does so for every call with a stack.                                  *)
Searches(conns, dfs, stack) ==
  \A name, st : IsCall(conns, name, stack, st) =>
    /\ Grown(conns, stack, st, dfs[<<name, stack, st>>])
    /\ Told(name, stack, dfs[<<name, stack, st>>])

LEMMA ClosedCycle ==
  ASSUME NEW conns, Sortable(conns), NEW stack \in Seq(NamesIn(conns)),
         NEW st \in Findings(NamesIn(conns)), NEW name \in ToSet(stack)
  PROVE  /\ CloseCycle(st, stack, name) \in Findings(NamesIn(conns))
         /\ CloseCycle(st, stack, name).visited = st.visited
         /\ \E i \in DOMAIN stack :
              /\ stack[i] = name
              /\ Found(CloseCycle(st, stack, name))
                   = Found(st) \cup {stack[j] : j \in i .. Len(stack)}
<1> DEFINE names == NamesIn(conns)
           i == CHOOSE k \in DOMAIN stack : stack[k] = name
           body == SubSeq(stack, i, Len(stack))
           cycle == NormalizeCycle(Append(body, name))
           r == CloseCycle(st, stack, name)
<1>1. DOMAIN stack = 1 .. Len(stack) /\ Len(stack) \in Nat
  OBVIOUS
<1>2. i \in DOMAIN stack /\ stack[i] = name
  BY DEF ToSet
<1>3. r = IF cycle \in ToSet(st.cycles) THEN st ELSE [st EXCEPT !.cycles = Append(@, cycle)]
  BY DEF CloseCycle
<1> HIDE DEF i, r
<1>4. names \in SUBSET ToSet(Names)
  BY AdjacentNames
<1>5. body \in Seq(names) /\ body # <<>> /\ ToSet(body) = {stack[j] : j \in i .. Len(stack)}
  <2>1. i \in 1 .. Len(stack) + 1 /\ Len(stack) \in 0 .. Len(stack) /\ i =< Len(stack) + 1
    BY <1>1, <1>2
  <2>2. /\ body \in Seq(names) /\ Len(body) = Len(stack) - i + 1
        /\ ToSet(body) = {stack[j] : j \in i .. Len(stack)}
    <3> HIDE DEF names
    <3>1. stack \in Seq(names)
      BY DEF names
    <3> QED
      BY <2>1, <3>1, PartOf
  <2>3. Len(body) # 0
    BY <1>1, <1>2, <2>2
  <2> HIDE DEF body
  <2> QED
    BY <2>2, <2>3
<1>6. cycle \in Seq(names) /\ ToSet(cycle) = ToSet(body)
  <2> HIDE DEF names, body
  <2> QED
    BY <1>4, <1>5, NormalizedNames
<1> HIDE DEF cycle, body
<1>7. st.cycles \in Seq(Seq(names)) /\ st.visited \in SUBSET names
      /\ st = [cycles |-> st.cycles, visited |-> st.visited]
  BY DEF Findings
<1> HIDE DEF names
<1>8. CASE cycle \in ToSet(st.cycles)
  <2>1. r = st /\ ToSet(cycle) \subseteq Found(st)
    BY <1>3, <1>8 DEF Found
  <2>2. Found(r) = Found(st) \cup {stack[j] : j \in i .. Len(stack)}
    BY <1>5, <1>6, <2>1
  <2> QED
    BY <1>2, <2>1, <2>2 DEF r
<1>9. CASE cycle \notin ToSet(st.cycles)
  <2>1. r = [cycles |-> Append(st.cycles, cycle), visited |-> st.visited]
    BY <1>3, <1>7, <1>9
  <2>2. Append(st.cycles, cycle) \in Seq(Seq(names))
        /\ ToSet(Append(st.cycles, cycle)) = ToSet(st.cycles) \cup {cycle}
    <3>1. Append(st.cycles, cycle) = st.cycles \o <<cycle>> /\ <<cycle>> \in Seq(Seq(names))
      BY <1>6, <1>7
    <3>2. ToSet(<<cycle>>) = {cycle}
      BY DEF ToSet
    <3> DEFINE S == Seq(names)
               last == <<cycle>>
    <3>3. last \in Seq(S) /\ st.cycles \in Seq(S)
      BY <1>7, <3>1
    <3>4. st.cycles \o last \in Seq(S)
          /\ ToSet(st.cycles \o last) = ToSet(st.cycles) \cup ToSet(last)
      <4> HIDE DEF S, last
      <4> QED
        BY <3>3, ConcatElements
    <3> QED
      BY <3>1, <3>2, <3>4
  <2>3. r.cycles = Append(st.cycles, cycle) /\ r.visited = st.visited
    BY <2>1
  <2>4. r \in Findings(names)
    BY <1>7, <2>1, <2>2 DEF Findings
  <2>5. Found(r) = Found(st) \cup ToSet(cycle)
    BY <2>2, <2>3 DEF Found
  <2>6. Found(r) = Found(st) \cup {stack[j] : j \in i .. Len(stack)}
    BY <1>5, <1>6, <2>5
  <2> QED
    BY <1>2, <2>3, <2>4, <2>6 DEF r, names
<1> QED
  BY <1>8, <1>9

(* Who is on the stack from a name on is on a cycle, when that name comes   *)
(* again after the last one.                                                *)
LEMMA BackOnStack ==
  ASSUME NEW conns, NEW R, NEW stack \in Seq(R), IsPath(conns, stack),
         NEW i \in 1 .. Len(stack), stack[i] \in Adjacent(conns, Last(stack)),
         NEW j \in i .. Len(stack)
  PROVE  stack[j] \in Reached(conns, stack[j])
<1> DEFINE name == stack[i]
           m == Len(stack)
<1>1. m \in Nat /\ j \in 1 .. m /\ m \in 1 .. m
  OBVIOUS
<1>2. name \in Adjacent(conns, stack[m])
  BY DEF Last
<1>3. name \in Reached(conns, stack[j])
  <2>1. CASE j = m
    BY <1>2, <2>1, ReachedSteps
  <2>2. CASE j # m
    <3>1. m \in j + 1 .. m
      BY <1>1, <2>2
    <3>2. stack[m] \in Reached(conns, stack[j])
      BY <1>1, <3>1, PathReaches
    <3> QED
      BY <1>2, <3>2, ReachedSteps
  <2> QED
    BY <2>1, <2>2
<1>4. CASE j = i
  BY <1>3, <1>4
<1>5. CASE j # i
  <2>1. j \in i + 1 .. m
    BY <1>1, <1>5
  <2>2. stack[j] \in Reached(conns, name)
    BY <2>1, PathReaches
  <2> QED
    BY <1>3, <2>2, ReachedTransitive
<1> QED
  BY <1>4, <1>5

LEMMA CloseKeeps ==
  ASSUME NEW conns, Sortable(conns), NEW name, NEW stack, NEW st,
         IsCall(conns, name, stack, st), name \in ToSet(stack)
  PROVE  /\ Grown(conns, stack, st, CloseCycle(st, stack, name))
         /\ Told(name, stack, CloseCycle(st, stack, name))
<1> DEFINE r == CloseCycle(st, stack, name)
           names == NamesIn(conns)
<1>1. /\ stack \in Seq(names) /\ IsInjective(stack) /\ IsPath(conns, stack)
      /\ st \in Findings(names) /\ SoundFindings(conns, st)
      /\ st.visited \cap ToSet(stack) = {}
  BY DEF IsCall, IsStack
<1>2. DOMAIN stack = 1 .. Len(stack) /\ Len(stack) \in Nat
  BY <1>1
<1>3. stack # <<>>
  <2>1. \E k \in DOMAIN stack : TRUE
    BY DEF ToSet
  <2> QED
    BY <2>1
<1>4. r \in Findings(names) /\ r.visited = st.visited
  BY <1>1, ClosedCycle
<1>5. PICK i \in DOMAIN stack :
        /\ stack[i] = name
        /\ Found(r) = Found(st) \cup {stack[j] : j \in i .. Len(stack)}
  BY <1>1, ClosedCycle
<1> HIDE DEF r, names
<1>6. name \in Adjacent(conns, Last(stack))
  BY <1>3 DEF IsCall
<1>7. ASSUME NEW j \in i .. Len(stack) PROVE stack[j] \in Reached(conns, stack[j])
  BY <1>1, <1>2, <1>5, <1>6, BackOnStack
<1>8. SoundFindings(conns, r)
  BY <1>1, <1>4, <1>5, <1>7 DEF SoundFindings
<1>9. Last(stack) \in Found(r)
  <2>1. Len(stack) \in i .. Len(stack)
    BY <1>2
  <2> QED
    BY <1>5, <2>1 DEF Last
<1>10. IsStack(conns, stack, r)
  BY <1>1, <1>4, <1>8 DEF IsStack, names
<1>11. Grown(conns, stack, st, r)
  BY <1>4, <1>5, <1>10 DEF Grown
<1> QED
  BY <1>9, <1>11 DEF Told, r

(* The search of one name after the other, step by step.                    *)
IsEach(dfs, stack, rows, st, f) ==
  /\ f[0] = st
  /\ \A k \in 0 .. Len(rows) - 1 : f[k + 1] = dfs[<<rows[k + 1], stack, f[k]>>]

SearchedEach(R, dfs, stack, rows, st) ==
  \E f \in [0 .. Len(rows) -> Findings(R)] :
    IsEach(dfs, stack, rows, st, f) /\ SearchEach(dfs, stack, rows, st) = f[Len(rows)]

LEMMA EachSteps ==
  ASSUME NEW R, NEW stack \in Seq(R), NEW rows \in Seq(R), NEW st \in Findings(R),
         NEW dfs \in [R \X Seq(R) \X Findings(R) -> Findings(R)]
  PROVE  SearchedEach(R, dfs, stack, rows, st)
<1> DEFINE n == Len(rows)
           S == Findings(R)
           one(acc, name) == dfs[<<name, stack, acc>>]
           step == [p \in S \X (1 .. n) |-> one(p[1], rows[p[2]])]
           Iterates(g) == g = [s \in SUBSET (1 .. n) |->
                                 IF s = {} THEN st
                                 ELSE dfs[<<rows[Max(s)], stack, g[s \ {Max(s)}]>>]]
           iter == CHOOSE g : Iterates(g)
<1>1. n \in Nat /\ DOMAIN rows = 1 .. n /\ \A i \in 1 .. n : rows[i] \in R
  OBVIOUS
<1>2. st \in S
  OBVIOUS
<1>3. step \in [S \X (1 .. n) -> S]
  <2> HIDE DEF S, n
  <2> SUFFICES ASSUME NEW acc \in S, NEW i \in 1 .. n
               PROVE  one(acc, rows[i]) \in S
    OBVIOUS
  <2>1. <<rows[i], stack, acc>> \in R \X Seq(R) \X S
    BY <1>1
  <2> QED
    BY <2>1 DEF S
<1>4. \A acc \in S, i \in 1 .. n : step[<<acc, i>>] = dfs[<<rows[i], stack, acc>>]
  OBVIOUS
<1> HIDE DEF step, one
<1>5. Iterates(iter)
  <2>1. PICK g \in [SUBSET (1 .. n) -> S] : IsFold(n, st, step, g)
    <3> HIDE DEF n, S
    <3> QED
      BY <1>1, <1>2, <1>3, FoldDefined
  <2>2. ASSUME NEW s \in SUBSET (1 .. n)
        PROVE  g[s] = IF s = {} THEN st ELSE dfs[<<rows[Max(s)], stack, g[s \ {Max(s)}]>>]
    <3>1. CASE s # {}
      <4>1. Max(s) \in 1 .. n /\ s \ {Max(s)} \in SUBSET (1 .. n)
        BY <1>1, <3>1, MaxOfIndices
      <4> HIDE DEF n, S
      <4> QED
        BY <1>4, <2>1, <3>1, <4>1 DEF IsFold
    <3> QED
      BY <2>1, <3>1 DEF IsFold
  <2>3. Iterates(g)
    BY <2>2
  <2> HIDE DEF Iterates
  <2> QED
    BY <2>3
<1>6. SearchEach(dfs, stack, rows, st) = iter[1 .. n]
  BY <1>1, Zenon DEF SearchEach, FoldLeft, MapThenFoldSet
<1> HIDE DEF iter
<1>7. iter[{}] = st
  BY <1>5
<1>8. \A s \in SUBSET (1 .. n) :
        s # {} /\ iter[s \ {Max(s)}] \in S =>
          iter[s] = step[<<iter[s \ {Max(s)}], Max(s)>>]
  <2> SUFFICES ASSUME NEW s \in SUBSET (1 .. n), s # {}, iter[s \ {Max(s)}] \in S
               PROVE  iter[s] = step[<<iter[s \ {Max(s)}], Max(s)>>]
    OBVIOUS
  <2>1. Max(s) \in 1 .. n
    BY <1>1, MaxOfIndices
  <2>2. iter[s] = dfs[<<rows[Max(s)], stack, iter[s \ {Max(s)}]>>]
    BY <1>5
  <2> HIDE DEF S
  <2> QED
    BY <1>4, <2>1, <2>2
<1>9. FoldsWithin(n, S, st, step, iter)
  BY <1>7, <1>8 DEF FoldsWithin
<1>10. Chained(n, S, st, step, iter[1 .. n])
  <2> HIDE DEF n, S
  <2> QED
    BY <1>1, <1>2, <1>3, <1>9, FoldChain
<1>11. PICK f \in [0 .. n -> S] : IsChain(n, st, step, f) /\ iter[1 .. n] = f[n]
  BY <1>10 DEF Chained
<1>12. IsEach(dfs, stack, rows, st, f)
  <2>1. ASSUME NEW k \in 0 .. n - 1 PROVE f[k + 1] = dfs[<<rows[k + 1], stack, f[k]>>]
    <3>1. k \in 0 .. n /\ k + 1 \in 1 .. n
      BY <1>1
    <3>2. f[k] \in S
      BY <3>1
    <3> HIDE DEF S
    <3> QED
      BY <1>4, <1>11, <3>1, <3>2 DEF IsChain
  <2> QED
    BY <1>11, <2>1 DEF IsEach, IsChain
<1> QED
  BY <1>6, <1>11, <1>12 DEF SearchedEach

(* What each call keeps, all of them keep; and what they were told stays.   *)
LEMMA GrownTold ==
  ASSUME NEW conns, NEW stack, NEW st, NEW r, NEW q,
         Grown(conns, stack, st, r), Grown(conns, stack, r, q)
  PROVE  /\ Grown(conns, stack, st, q)
         /\ \A name : Told(name, stack, r) => Told(name, stack, q)
BY DEF Grown, Told

LEMMA EachKeeps ==
  ASSUME NEW conns, NEW dfs \in [Calls(conns) -> Findings(NamesIn(conns))],
         NEW stack, NEW st, IsStack(conns, stack, st), Searches(conns, dfs, stack),
         NEW rows \in Seq(NamesIn(conns)),
         stack # <<>> => ToSet(rows) \subseteq Adjacent(conns, Last(stack))
  PROVE  /\ Grown(conns, stack, st, SearchEach(dfs, stack, rows, st))
         /\ \A name \in ToSet(rows) : Told(name, stack, SearchEach(dfs, stack, rows, st))
<1> DEFINE names == NamesIn(conns)
           n == Len(rows)
<1>1. n \in Nat /\ DOMAIN rows = 1 .. n /\ \A k \in 1 .. n : rows[k] \in names
  OBVIOUS
<1>2. PICK f \in [0 .. n -> Findings(names)] :
        IsEach(dfs, stack, rows, st, f) /\ SearchEach(dfs, stack, rows, st) = f[n]
  <2>1. stack \in Seq(names) /\ st \in Findings(names)
    BY DEF IsStack
  <2>2. dfs \in [names \X Seq(names) \X Findings(names) -> Findings(names)]
    BY DEF Calls
  <2>3. rows \in Seq(names)
    OBVIOUS
  <2> HIDE DEF names, n
  <2>4. SearchedEach(names, dfs, stack, rows, st)
    BY <2>1, <2>2, <2>3, EachSteps
  <2> QED
    BY <2>4 DEF n, SearchedEach
<1> DEFINE T == {k \in 0 .. n : /\ Grown(conns, stack, st, f[k])
                                /\ \A i \in 1 .. k : Told(rows[i], stack, f[k])}
<1>3. 0 \in T
  <2>1. Grown(conns, stack, st, st)
    BY DEF Grown
  <2>2. f[0] = st /\ 0 \in 0 .. n
    BY <1>1, <1>2 DEF IsEach
  <2> QED
    BY <2>1, <2>2
<1>4. ASSUME NEW k \in 0 .. n - 1, k \in T PROVE k + 1 \in T
  <2>1. k + 1 \in 1 .. n /\ k + 1 \in 0 .. n /\ k \in 0 .. n
    BY <1>1
  <2>2. f[k + 1] = dfs[<<rows[k + 1], stack, f[k]>>]
    BY <1>2 DEF IsEach
  <2>3. IsCall(conns, rows[k + 1], stack, f[k])
    <3>1. IsStack(conns, stack, f[k])
      BY <1>4 DEF Grown
    <3>2. rows[k + 1] \in names /\ rows[k + 1] \in ToSet(rows)
      BY <1>1, <2>1 DEF ToSet
    <3> QED
      BY <3>1, <3>2 DEF IsCall
  <2>4. Grown(conns, stack, f[k], f[k + 1]) /\ Told(rows[k + 1], stack, f[k + 1])
    BY <2>2, <2>3 DEF Searches
  <2>5. Grown(conns, stack, st, f[k + 1])
    BY <1>4, <2>4, GrownTold
  <2>6. \A name : Told(name, stack, f[k]) => Told(name, stack, f[k + 1])
    BY <1>4, <2>4, GrownTold
  <2>7. ASSUME NEW i \in 1 .. k + 1 PROVE Told(rows[i], stack, f[k + 1])
    <3>1. i \in 1 .. k \/ i = k + 1
      BY <1>1
    <3> QED
      BY <1>4, <2>4, <2>6, <3>1
  <2> QED
    BY <2>1, <2>5, <2>7
<1>5. n \in T
  <2> HIDE DEF T, n
  <2>1. 0 .. n \subseteq T
    BY <1>1, <1>3, <1>4, Induction
  <2> QED
    BY <1>1, <2>1
<1>6. \A name \in ToSet(rows) : \E i \in 1 .. n : name = rows[i]
  BY <1>1 DEF ToSet
<1> QED
  BY <1>2, <1>5, <1>6

(* A stack with one more name.                                              *)
LEMMA PushedStack ==
  ASSUME NEW conns, NEW name, NEW stack, NEW st, IsCall(conns, name, stack, st),
         name \notin ToSet(stack), name \notin st.visited
  PROVE  /\ IsStack(conns, Append(stack, name), st)
         /\ Append(stack, name) # <<>> /\ Last(Append(stack, name)) = name
         /\ Len(Append(stack, name)) = Len(stack) + 1
         /\ ToSet(Append(stack, name)) = ToSet(stack) \cup {name}
<1> DEFINE names == NamesIn(conns)
           m == Len(stack)
           pushed == Append(stack, name)
<1>1. /\ stack \in Seq(names) /\ IsInjective(stack) /\ IsPath(conns, stack)
      /\ st \in Findings(names) /\ SoundFindings(conns, st)
      /\ st.visited \cap ToSet(stack) = {} /\ name \in names
  BY DEF IsCall, IsStack
<1>2. m \in Nat /\ DOMAIN stack = 1 .. m
  BY <1>1
<1>3. /\ pushed \in Seq(names) /\ Len(pushed) = m + 1 /\ DOMAIN pushed = 1 .. m + 1
      /\ pushed[m + 1] = name /\ \A k \in 1 .. m : pushed[k] = stack[k]
  BY <1>1
<1> HIDE DEF pushed
<1>4. ToSet(pushed) = ToSet(stack) \cup {name}
  <2>1. \A k \in 1 .. m + 1 : k \in 1 .. m \/ k = m + 1
    BY <1>2
  <2>2. \A k \in 1 .. m : k \in 1 .. m + 1
    BY <1>2
  <2>3. m + 1 \in 1 .. m + 1
    BY <1>2
  <2> QED
    BY <1>2, <1>3, <2>1, <2>2, <2>3 DEF ToSet
<1>5. IsInjective(pushed)
  <2> SUFFICES ASSUME NEW i \in 1 .. m + 1, NEW j \in 1 .. m + 1, pushed[i] = pushed[j]
               PROVE  i = j
    BY <1>3 DEF IsInjective
  <2>1. \A k \in 1 .. m : stack[k] \in ToSet(stack)
    BY <1>2 DEF ToSet
  <2>2. \A k \in 1 .. m + 1 : k \in 1 .. m \/ k = m + 1
    BY <1>2
  <2>3. CASE i \in 1 .. m /\ j \in 1 .. m
    BY <1>1, <1>2, <1>3, <2>3 DEF IsInjective
  <2>4. CASE i = m + 1 \/ j = m + 1
    BY <1>3, <2>1, <2>2, <2>4
  <2> QED
    BY <2>2, <2>3, <2>4
<1>6. IsPath(conns, pushed)
  <2> SUFFICES ASSUME NEW i \in 1 .. m PROVE pushed[i + 1] \in Adjacent(conns, pushed[i])
    BY <1>2, <1>3 DEF IsPath
  <2>1. CASE i = m
    <3>1. stack # <<>> /\ Last(stack) = stack[m]
      BY <1>2, <2>1 DEF Last
    <3>2. name \in Adjacent(conns, stack[m])
      BY <3>1 DEF IsCall
    <3> QED
      BY <1>3, <2>1, <3>2
  <2>2. CASE i # m
    <3>1. i \in 1 .. m - 1 /\ i + 1 \in 1 .. m
      BY <1>2, <2>2
    <3> QED
      BY <1>1, <1>3, <3>1 DEF IsPath
  <2> QED
    BY <2>1, <2>2
<1>7. pushed # <<>> /\ Last(pushed) = name
  BY <1>2, <1>3 DEF Last
<1>8. IsStack(conns, pushed, st)
  BY <1>1, <1>3, <1>4, <1>5, <1>6 DEF IsStack
<1> QED
  BY <1>3, <1>4, <1>7, <1>8 DEF pushed

(* A call for a name keeps it, if the calls it makes do.                    *)
LEMMA VisitKeeps ==
  ASSUME NEW conns, Sortable(conns), NEW deeper \in [Calls(conns) -> Findings(NamesIn(conns))],
         NEW name, NEW stack, NEW st, IsCall(conns, name, stack, st),
         name \notin ToSet(stack) /\ name \notin st.visited =>
           Searches(conns, deeper, Append(stack, name))
  PROVE  /\ Grown(conns, stack, st, Visit(conns, deeper, name, stack, st))
         /\ Told(name, stack, Visit(conns, deeper, name, stack, st))
<1> DEFINE names == NamesIn(conns)
           r == Visit(conns, deeper, name, stack, st)
<1>1. /\ stack \in Seq(names) /\ IsInjective(stack) /\ IsPath(conns, stack)
      /\ st \in Findings(names) /\ SoundFindings(conns, st)
      /\ st.visited \cap ToSet(stack) = {} /\ name \in names
  BY DEF IsCall, IsStack
<1>2. CASE name \in ToSet(stack)
  <2>1. r = CloseCycle(st, stack, name)
    BY <1>2 DEF Visit
  <2> QED
    BY <1>2, <2>1, CloseKeeps
<1>3. CASE name \notin ToSet(stack) /\ name \in st.visited
  <2>1. r = st
    BY <1>3 DEF Visit
  <2> QED
    BY <1>3, <2>1 DEF Grown, Told, IsCall
<1>4. CASE name \notin ToSet(stack) /\ name \notin st.visited
  <2> DEFINE pushed == Append(stack, name)
             rows == ByName(Adjacent(conns, name))
             inner == SearchEach(deeper, pushed, rows, st)
  <2>1. r = [inner EXCEPT !.visited = @ \cup {name}]
    BY <1>4 DEF Visit
  <2>2. /\ IsStack(conns, pushed, st) /\ pushed # <<>> /\ Last(pushed) = name
        /\ ToSet(pushed) = ToSet(stack) \cup {name}
    BY <1>4, PushedStack
  <2>3. rows \in Seq(names) /\ ToSet(rows) = Adjacent(conns, name)
    <3>1. Adjacent(conns, name) \in SUBSET ToSet(Names) /\ Adjacent(conns, name) \subseteq names
      BY AdjacentNames
    <3>2. IsListing(rows, Adjacent(conns, name))
      <4> HIDE DEF rows
      <4> QED
        BY <3>1, ByNameLists DEF rows
    <3> HIDE DEF rows
    <3>3. rows \in Seq(Adjacent(conns, name)) /\ ToSet(rows) = Adjacent(conns, name)
      BY <3>2 DEF IsListing
    <3>4. Seq(Adjacent(conns, name)) \subseteq Seq(names)
      BY <3>1
    <3> QED
      BY <3>3, <3>4
  <2> HIDE DEF rows, pushed
  <2>4. Searches(conns, deeper, pushed)
    BY <1>4 DEF pushed
  <2>5. /\ Grown(conns, pushed, st, inner)
        /\ \A child \in Adjacent(conns, name) : Told(child, pushed, inner)
    <3>1. ToSet(rows) \subseteq Adjacent(conns, Last(pushed))
      BY <2>2, <2>3
    <3>2. /\ Grown(conns, pushed, st, inner)
          /\ \A child \in ToSet(rows) : Told(child, pushed, inner)
      BY <2>2, <2>3, <2>4, <3>1, EachKeeps
    <3> QED
      BY <2>3, <3>2
  <2> HIDE DEF inner, r
  <2>6. /\ inner \in Findings(names) /\ SoundFindings(conns, inner)
        /\ inner.visited \cap ToSet(pushed) = {}
        /\ st.visited \subseteq inner.visited /\ Found(st) \subseteq Found(inner)
    BY <2>5 DEF Grown, IsStack
  <2>7. /\ r \in Findings(names) /\ r.cycles = inner.cycles
        /\ r.visited = inner.visited \cup {name}
    BY <1>1, <2>1, <2>6 DEF Findings
  <2>8. Found(r) = Found(inner)
    BY <2>7 DEF Found
  <2>9. name \notin inner.visited /\ name \in ToSet(pushed)
    BY <2>2, <2>6
  <2>10. ASSUME name \notin Found(inner)
         PROVE  Adjacent(conns, name) \subseteq inner.visited
    BY <2>2, <2>5, <2>10 DEF Told
  <2> DEFINE V == inner.visited
             F == Found(inner)
  <2>11. /\ \A v \in V \ F : Adjacent(conns, v) \subseteq V
         /\ \A X \in SUBSET (V \ F) : X # {} => \E v \in X : Adjacent(conns, v) \cap X = {}
         /\ \A s \in F : s \in Reached(conns, s)
    BY <2>6 DEF SoundFindings
  <2> HIDE DEF V, F
  <2>12. name \notin V /\ (name \notin F => Adjacent(conns, name) \subseteq V)
    BY <2>9, <2>10 DEF V, F
  <2>13. ASSUME NEW X \in SUBSET ((V \cup {name}) \ F), X # {}
         PROVE  \E v \in X : Adjacent(conns, v) \cap X = {}
    <3>1. CASE name \notin X
      BY <2>11, <2>13, <3>1
    <3>2. CASE X = {name}
      <4>1. name \notin Adjacent(conns, name)
        BY <2>12, <3>2
      <4> QED
        BY <3>2, <4>1
    <3>3. CASE name \in X /\ X # {name}
      <4> DEFINE Y == X \ {name}
      <4>1. Y \in SUBSET (V \ F) /\ Y # {}
        BY <2>13, <3>3
      <4>2. PICK v \in Y : Adjacent(conns, v) \cap Y = {}
        <5> HIDE DEF Y
        <5> QED
          BY <2>11, <4>1
      <4>3. name \notin Adjacent(conns, v)
        BY <2>11, <2>12, <4>1
      <4> QED
        BY <4>2, <4>3
    <3> QED
      BY <3>1, <3>2, <3>3
  <2>14. SoundFindings(conns, r)
    <3>1. r.visited = V \cup {name} /\ Found(r) = F
      BY <2>7, <2>8 DEF V, F
    <3>2. \A v \in (V \cup {name}) \ F : Adjacent(conns, v) \subseteq V \cup {name}
      BY <2>11, <2>12
    <3> QED
      BY <2>11, <2>13, <3>1, <3>2 DEF SoundFindings
  <2>15. IsStack(conns, stack, r)
    BY <1>1, <1>4, <2>2, <2>6, <2>7, <2>14 DEF IsStack
  <2>16. Grown(conns, stack, st, r) /\ Told(name, stack, r)
    BY <1>4, <2>6, <2>7, <2>8, <2>15 DEF Grown, Told
  <2> QED
    BY <2>16 DEF r
<1> QED
  BY <1>2, <1>3, <1>4

(* A call returns findings, whatever it is given.                           *)
LEMMA VisitReturns ==
  ASSUME NEW conns, Sortable(conns), NEW deeper \in [Calls(conns) -> Findings(NamesIn(conns))],
         NEW name \in NamesIn(conns), NEW stack \in Seq(NamesIn(conns)),
         NEW st \in Findings(NamesIn(conns))
  PROVE  Visit(conns, deeper, name, stack, st) \in Findings(NamesIn(conns))
<1> DEFINE names == NamesIn(conns)
           r == Visit(conns, deeper, name, stack, st)
<1>1. CASE name \in ToSet(stack)
  <2>1. r = CloseCycle(st, stack, name)
    BY <1>1 DEF Visit
  <2> QED
    BY <1>1, <2>1, ClosedCycle
<1>2. CASE name \notin ToSet(stack) /\ name \in st.visited
  BY <1>2 DEF Visit
<1>3. CASE name \notin ToSet(stack) /\ name \notin st.visited
  <2> DEFINE pushed == Append(stack, name)
             rows == ByName(Adjacent(conns, name))
             inner == SearchEach(deeper, pushed, rows, st)
  <2>1. r = [inner EXCEPT !.visited = @ \cup {name}]
    BY <1>3 DEF Visit
  <2>2. pushed \in Seq(names)
    OBVIOUS
  <2>3. rows \in Seq(names)
    <3>1. Adjacent(conns, name) \in SUBSET ToSet(Names) /\ Adjacent(conns, name) \subseteq names
      BY AdjacentNames
    <3>2. IsListing(rows, Adjacent(conns, name))
      <4> HIDE DEF rows
      <4> QED
        BY <3>1, ByNameLists DEF rows
    <3> HIDE DEF rows
    <3>3. rows \in Seq(Adjacent(conns, name))
      BY <3>2 DEF IsListing
    <3>4. Seq(Adjacent(conns, name)) \subseteq Seq(names)
      BY <3>1
    <3> QED
      BY <3>3, <3>4
  <2>4. deeper \in [names \X Seq(names) \X Findings(names) -> Findings(names)]
    BY DEF Calls
  <2>5. st \in Findings(names)
    OBVIOUS
  <2> HIDE DEF rows, pushed, names
  <2>6. SearchedEach(names, deeper, pushed, rows, st)
    BY <2>2, <2>3, <2>4, <2>5, EachSteps
  <2>7. inner \in Findings(names)
    <3>1. Len(rows) \in 0 .. Len(rows)
      BY <2>3
    <3> QED
      BY <2>6, <3>1 DEF SearchedEach
  <2> HIDE DEF inner, r
  <2>8. name \in names
    BY DEF names
  <2>9. r \in Findings(names)
    BY <2>1, <2>7, <2>8 DEF Findings
  <2> QED
    BY <2>9 DEF r, names
<1> QED
  BY <1>1, <1>2, <1>3

(* What DfsFindCycles chooses.                                              *)
IsSearch(conns, depth, dfs) ==
  dfs = [k \in 0 .. depth |->
          [c \in NamesIn(conns) \X Seq(NamesIn(conns)) \X Findings(NamesIn(conns)) |->
             IF k = 0 THEN c[3] ELSE Visit(conns, dfs[k - 1], c[1], c[2], c[3])]]

LEMMA SearchExists ==
  ASSUME NEW conns, Sortable(conns), NEW depth \in Nat
  PROVE  \E dfs : IsSearch(conns, depth, dfs)
<1> DEFINE names == NamesIn(conns)
           C == names \X Seq(names) \X Findings(names)
           S == [C -> Findings(names)]
           base == [c \in C |-> c[3]]
           m == depth + 1
           further(d) == [c \in C |-> Visit(conns, d, c[1], c[2], c[3])]
           step == [p \in S \X (1 .. m) |-> further(p[1])]
<1>1. base \in S /\ m \in Nat
  OBVIOUS
<1>2. ASSUME NEW d \in S PROVE further(d) \in S
  <2>1. ASSUME NEW c \in C PROVE Visit(conns, d, c[1], c[2], c[3]) \in Findings(names)
    <3>1. d \in [Calls(conns) -> Findings(names)]
      BY DEF Calls
    <3>2. c[1] \in names /\ c[2] \in Seq(names) /\ c[3] \in Findings(names)
      OBVIOUS
    <3> QED
      BY <3>1, <3>2, VisitReturns
  <2> HIDE DEF C
  <2> QED
    BY <2>1
<1> HIDE DEF C, S, base, further
<1>3. step \in [S \X (1 .. m) -> S]
  BY <1>2
<1>4. PICK f \in [1 .. m -> S] : IsRecursion(m, base, step, f)
  <2> HIDE DEF m, step
  <2> QED
    BY <1>1, <1>3, RecursionDefined
<1> DEFINE dfs == [k \in 0 .. depth |-> f[k + 1]]
<1>5. ASSUME NEW k \in 0 .. depth
      PROVE  dfs[k] = IF k = 0 THEN base ELSE further(dfs[k - 1])
  <2>1. k + 1 \in 1 .. m /\ (k + 1) - 1 = k
    OBVIOUS
  <2>2. dfs[k] = IF k + 1 = 1 THEN base ELSE step[<<f[k], k + 1>>]
    BY <1>4, <2>1 DEF IsRecursion
  <2>3. CASE k = 0
    BY <2>2, <2>3
  <2>4. CASE k # 0
    <3>1. k \in 1 .. m /\ k - 1 \in 0 .. depth /\ (k - 1) + 1 = k
      BY <2>4
    <3>2. f[k] \in S /\ dfs[k - 1] = f[k]
      BY <3>1
    <3>3. <<f[k], k + 1>> \in S \X (1 .. m)
      BY <2>1, <3>2
    <3>4. step[<<f[k], k + 1>>] = further(f[k])
      BY <3>3
    <3> HIDE DEF dfs, step
    <3> QED
      BY <2>2, <2>4, <3>1, <3>2, <3>4
  <2> QED
    BY <2>3, <2>4
<1>6. dfs = [k \in 0 .. depth |-> dfs[k]]
  OBVIOUS
<1> HIDE DEF dfs
<1>7. ASSUME NEW k \in 0 .. depth
      PROVE  dfs[k] = [c \in C |-> IF k = 0 THEN c[3]
                                   ELSE Visit(conns, dfs[k - 1], c[1], c[2], c[3])]
  <2>1. CASE k = 0
    BY <1>5, <2>1 DEF base
  <2>2. CASE k # 0
    BY <1>5, <2>2 DEF further
  <2> QED
    BY <2>1, <2>2
<1>8. dfs = [k \in 0 .. depth |->
               [c \in C |-> IF k = 0 THEN c[3]
                            ELSE Visit(conns, dfs[k - 1], c[1], c[2], c[3])]]
  BY <1>6, <1>7
<1>9. IsSearch(conns, depth, dfs)
  BY <1>8 DEF IsSearch, C
<1> QED
  BY <1>9

LEMMA SearchLevels ==
  ASSUME NEW conns, Sortable(conns), NEW depth \in Nat, NEW dfs, IsSearch(conns, depth, dfs),
         NEW k \in 0 .. depth
  PROVE  /\ dfs[k] \in [Calls(conns) -> Findings(NamesIn(conns))]
         /\ \A name \in NamesIn(conns), stack \in Seq(NamesIn(conns)),
               st \in Findings(NamesIn(conns)) :
              k # 0 => dfs[k][<<name, stack, st>>] = Visit(conns, dfs[k - 1], name, stack, st)
<1> DEFINE names == NamesIn(conns)
           C == names \X Seq(names) \X Findings(names)
<1>1. ASSUME NEW j \in 0 .. depth
      PROVE  dfs[j] = [c \in C |-> IF j = 0 THEN c[3]
                                   ELSE Visit(conns, dfs[j - 1], c[1], c[2], c[3])]
  <2> DEFINE body(d) == [i \in 0 .. depth |->
                          [c \in C |-> IF i = 0 THEN c[3]
                                       ELSE Visit(conns, d[i - 1], c[1], c[2], c[3])]]
  <2>1. dfs = body(dfs)
    BY DEF IsSearch
  <2>2. body(dfs)[j] = [c \in C |-> IF j = 0 THEN c[3]
                                    ELSE Visit(conns, dfs[j - 1], c[1], c[2], c[3])]
    OBVIOUS
  <2> HIDE DEF body
  <2> QED
    BY <2>1, <2>2
<1>2. C = Calls(conns)
  BY DEF Calls
<1> DEFINE T == {j \in 0 .. depth : dfs[j] \in [C -> Findings(names)]}
<1>3. 0 \in T
  <2>1. 0 \in 0 .. depth
    OBVIOUS
  <2>2. dfs[0] = [c \in C |-> c[3]]
    BY <1>1, <2>1
  <2>3. \A c \in C : c[3] \in Findings(names)
    OBVIOUS
  <2> HIDE DEF C
  <2> QED
    BY <2>1, <2>2, <2>3
<1>4. ASSUME NEW j \in 0 .. depth - 1, j \in T PROVE j + 1 \in T
  <2>1. j + 1 \in 0 .. depth /\ j + 1 # 0 /\ (j + 1) - 1 = j
    OBVIOUS
  <2>2. dfs[j + 1] = [c \in C |-> Visit(conns, dfs[j], c[1], c[2], c[3])]
    BY <1>1, <2>1
  <2>3. ASSUME NEW c \in C PROVE Visit(conns, dfs[j], c[1], c[2], c[3]) \in Findings(names)
    <3>1. dfs[j] \in [Calls(conns) -> Findings(names)]
      BY <1>2, <1>4
    <3>2. c[1] \in names /\ c[2] \in Seq(names) /\ c[3] \in Findings(names)
      OBVIOUS
    <3> QED
      BY <3>1, <3>2, VisitReturns
  <2> HIDE DEF C
  <2> QED
    BY <2>1, <2>2, <2>3
<1>5. 0 .. depth \subseteq T
  <2> HIDE DEF T
  <2> QED
    BY <1>3, <1>4, Induction
<1>6. dfs[k] \in [Calls(conns) -> Findings(names)]
  BY <1>2, <1>5
<1>7. ASSUME NEW name \in names, NEW stack \in Seq(names), NEW st \in Findings(names), k # 0
      PROVE  dfs[k][<<name, stack, st>>] = Visit(conns, dfs[k - 1], name, stack, st)
  <2>1. <<name, stack, st>> \in C
    OBVIOUS
  <2>2. dfs[k] = [c \in C |-> Visit(conns, dfs[k - 1], c[1], c[2], c[3])]
    BY <1>1, <1>7
  <2> HIDE DEF C
  <2> QED
    BY <2>1, <2>2
<1> QED
  BY <1>6, <1>7

(* A stack holds every name once at most.                                   *)
LEMMA StackIsShort ==
  ASSUME NEW conns, Sortable(conns), NEW stack, NEW st, IsStack(conns, stack, st)
  PROVE  Len(stack) \in Nat /\ Len(stack) =< Cardinality(NamesIn(conns))
<1> DEFINE names == NamesIn(conns)
           m == Len(stack)
<1>1. stack \in Seq(names) /\ IsInjective(stack)
  BY DEF IsStack
<1>2. m \in Nat /\ stack \in [1 .. m -> names] /\ DOMAIN stack = 1 .. m
  BY <1>1
<1>3. stack \in Injection(1 .. m, names)
  <2> HIDE DEF m, names
  <2> QED
    BY <1>1, <1>2 DEF Injection, IsInjective
<1>4. IsFiniteSet(names)
  BY AdjacentNames
<1>5. Cardinality(1 .. m) =< Cardinality(names)
  <2> HIDE DEF m, names
  <2> QED
    BY <1>3, <1>4, FS_Injection
<1>6. Cardinality(1 .. m) = m
  <2>1. 1 \in Int /\ m \in Int
    BY <1>2
  <2>2. Cardinality(1 .. m) = IF 1 > m THEN 0 ELSE m - 1 + 1
    BY <2>1, FS_Interval
  <2> QED
    BY <1>2, <2>2
<1> QED
  BY <1>2, <1>5, <1>6

(* So a search goes deep enough.                                            *)
LEMMA SearchKeeps ==
  ASSUME NEW conns, Sortable(conns), NEW depth \in Nat, NEW dfs, IsSearch(conns, depth, dfs)
  PROVE  \A stack \in Seq(NamesIn(conns)) :
           depth + Len(stack) > Cardinality(NamesIn(conns)) =>
             Searches(conns, dfs[depth], stack)
<1> DEFINE names == NamesIn(conns)
           n == Cardinality(names)
           T == {k \in 0 .. depth : \A stack \in Seq(names) :
                   k + Len(stack) > n => Searches(conns, dfs[k], stack)}
<1>1. n \in Nat
  BY AdjacentNames
<1>2. 0 \in T
  <2>1. ASSUME NEW stack \in Seq(names), 0 + Len(stack) > n
        PROVE  Searches(conns, dfs[0], stack)
    <3>1. \A name, st : ~ IsCall(conns, name, stack, st)
      BY <1>1, <2>1, StackIsShort DEF IsCall
    <3> QED
      BY <3>1 DEF Searches
  <2> QED
    BY <2>1
<1>3. ASSUME NEW k \in 0 .. depth - 1, k \in T PROVE k + 1 \in T
  <2>1. k + 1 \in 0 .. depth /\ k \in 0 .. depth /\ k + 1 # 0 /\ (k + 1) - 1 = k
    OBVIOUS
  <2>2. dfs[k] \in [Calls(conns) -> Findings(names)]
    BY <2>1, SearchLevels
  <2>3. ASSUME NEW stack \in Seq(names), k + 1 + Len(stack) > n, NEW name, NEW st,
               IsCall(conns, name, stack, st)
        PROVE  /\ Grown(conns, stack, st, dfs[k + 1][<<name, stack, st>>])
               /\ Told(name, stack, dfs[k + 1][<<name, stack, st>>])
    <3>1. name \in names /\ st \in Findings(names)
      BY <2>3 DEF IsCall, IsStack
    <3>2. dfs[k + 1][<<name, stack, st>>] = Visit(conns, dfs[k], name, stack, st)
      BY <2>1, <3>1, SearchLevels
    <3>3. ASSUME name \notin ToSet(stack), name \notin st.visited
          PROVE  Searches(conns, dfs[k], Append(stack, name))
      <4>1. Append(stack, name) \in Seq(names) /\ Len(Append(stack, name)) = Len(stack) + 1
        BY <3>1
      <4>2. k + Len(Append(stack, name)) > n
        BY <1>1, <2>3, <4>1
      <4> QED
        BY <1>3, <4>1, <4>2
    <3> QED
      BY <2>2, <2>3, <3>2, <3>3, VisitKeeps
  <2>4. \A stack \in Seq(names) :
          k + 1 + Len(stack) > n => Searches(conns, dfs[k + 1], stack)
    BY <2>3 DEF Searches
  <2> QED
    BY <2>1, <2>4
<1>4. depth \in T
  <2> HIDE DEF T
  <2>1. 0 .. depth \subseteq T
    BY <1>2, <1>3, Induction
  <2> QED
    BY <2>1
<1> QED
  BY <1>4

(* FindCircular over these connections.                                     *)
CircularOf(conns) ==
  SearchEach(DfsFindCycles(conns), <<>>, ByName(NamesIn(conns)), NothingFound)

(* The search has been everywhere, and what it found can be relied upon.    *)
LEMMA SearchedAll ==
  ASSUME NEW conns, Sortable(conns)
  PROVE  /\ SoundFindings(conns, CircularOf(conns))
         /\ NamesIn(conns) \subseteq CircularOf(conns).visited
<1> DEFINE names == NamesIn(conns)
           n == Cardinality(names)
           depth == n + 1
           Chosen(d) == d = [k \in 0 .. depth |->
                          [call \in names \X Seq(names) \X Findings(names) |->
                             IF k = 0 THEN call[3]
                             ELSE Visit(conns, d[k - 1], call[1], call[2], call[3])]]
           dfs == CHOOSE d : Chosen(d)
           rows == ByName(names)
           r == CircularOf(conns)
<1>1. n \in Nat /\ depth \in Nat /\ names \in SUBSET ToSet(Names)
  BY AdjacentNames
<1>2. DfsFindCycles(conns) = dfs[depth]
  BY Zenon DEF DfsFindCycles
<1>3. IsSearch(conns, depth, dfs)
  <2>1. \A d : Chosen(d) <=> IsSearch(conns, depth, d)
    BY DEF IsSearch
  <2>2. \E d : Chosen(d)
    <3> HIDE DEF Chosen, depth
    <3> QED
      BY <1>1, <2>1, SearchExists
  <2>3. Chosen(dfs)
    <3> HIDE DEF Chosen
    <3> QED
      BY <2>2
  <2> HIDE DEF Chosen, dfs
  <2> QED
    BY <2>1, <2>3
<1> HIDE DEF dfs
<1>4. dfs[depth] \in [Calls(conns) -> Findings(names)]
  <2> HIDE DEF depth
  <2>1. depth \in 0 .. depth
    BY <1>1
  <2> QED
    BY <1>1, <1>3, <2>1, SearchLevels
<1>5. Searches(conns, dfs[depth], <<>>)
  <2>1. <<>> \in Seq(names) /\ Len(<<>>) = 0
    OBVIOUS
  <2>2. depth + Len(<<>>) > n
    BY <1>1, <2>1
  <2> HIDE DEF depth
  <2> QED
    BY <1>1, <1>3, <2>1, <2>2, SearchKeeps
<1>6. IsListing(rows, names)
  <2> HIDE DEF names
  <2> QED
    BY <1>1, ByNameLists
<1>7. IsStack(conns, <<>>, NothingFound)
  <2>1. <<>> \in Seq(names) /\ IsInjective(<<>>) /\ ToSet(<<>>) = {} /\ Len(<<>>) = 0
    BY DEF IsInjective, ToSet
  <2>2. IsPath(conns, <<>>)
    BY <2>1 DEF IsPath
  <2>3. NothingFound.cycles = <<>> /\ NothingFound.visited = {}
        /\ NothingFound \in Findings(names)
    BY DEF NothingFound, Findings
  <2>4. Found(NothingFound) = {}
    BY <2>1, <2>3 DEF Found
  <2>5. SoundFindings(conns, NothingFound)
    BY <2>3, <2>4 DEF SoundFindings
  <2> HIDE DEF names
  <2> QED
    BY <2>1, <2>2, <2>3, <2>5 DEF IsStack, names
<1> HIDE DEF rows
<1>8. rows \in Seq(names) /\ ToSet(rows) = names
  BY <1>6 DEF IsListing
<1>9. r = SearchEach(dfs[depth], <<>>, rows, NothingFound)
  BY <1>2 DEF CircularOf, rows
<1> HIDE DEF r, depth
<1>10. Grown(conns, <<>>, NothingFound, r) /\ \A name \in ToSet(rows) : Told(name, <<>>, r)
  BY <1>4, <1>5, <1>7, <1>8, <1>9, EachKeeps
<1>11. SoundFindings(conns, r)
  BY <1>10 DEF Grown, IsStack
<1>12. names \subseteq r.visited
  <2>1. ToSet(<<>>) = {}
    BY DEF ToSet
  <2> QED
    BY <1>8, <1>10, <2>1 DEF Told
<1> QED
  BY <1>11, <1>12 DEF r

(* What leads back to itself is called by one that does.                    *)
LEMMA CyclicNames ==
  ASSUME NEW conns, NEW s, s \in Reached(conns, s)
  PROVE  s \in Cyclic(conns) /\ s \in NamesIn(conns)
<1>1. PICK n \in Adjacent(conns, s) : TRUE
  BY ReachedFirst
<1>2. s \in {c.source : c \in conns}
  BY <1>1 DEF Adjacent, From
<1> QED
  BY <1>2 DEF Cyclic, NamesIn

(* The circular dependencies that dfsFindCycles reports are circular, and   *)
(* every service that leads back to itself is reported or shares its group  *)
(* of such services with one that is: although the search skips what is     *)
(* done with and so misses cycles, it misses no group.  For any services.   *)
THEOREM CircularDependenciesFound ==
  ASSUME NEW conns, Sortable(conns)
  PROVE  /\ Found(CircularOf(conns)) \subseteq Cyclic(conns)
         /\ \A name \in Cyclic(conns) :
              \E other \in Found(CircularOf(conns)) :
                /\ other \in Reached(conns, name)
                /\ name \in Reached(conns, other)
<1> DEFINE r == CircularOf(conns)
<1>1. SoundFindings(conns, r) /\ NamesIn(conns) \subseteq r.visited
  BY SearchedAll
<1> HIDE DEF r
<1>2. Found(r) \subseteq Cyclic(conns)
  BY <1>1, CyclicNames DEF SoundFindings
<1>3. ASSUME NEW name \in Cyclic(conns),
             \A other \in Found(r) :
               ~ (other \in Reached(conns, name) /\ name \in Reached(conns, other))
      PROVE  FALSE
  <2> DEFINE X == {v \in NamesIn(conns) :
                     v \in Reached(conns, name) /\ name \in Reached(conns, v)}
  <2>1. name \in Reached(conns, name)
    BY DEF Cyclic
  <2>2. name \in X
    BY <2>1, CyclicNames
  <2>3. X \in SUBSET (r.visited \ Found(r))
    BY <1>1, <1>3
  <2>4. PICK v \in X : Adjacent(conns, v) \cap X = {}
    <3> HIDE DEF X
    <3> QED
      BY <1>1, <2>2, <2>3 DEF SoundFindings
  <2>5. PICK m \in Adjacent(conns, v) : name = m \/ name \in Reached(conns, m)
    <3>1. name \in Reached(conns, v)
      OBVIOUS
    <3> QED
      BY <3>1, ReachedFirst
  <2>6. m \in Reached(conns, name)
    <3>1. v \in Reached(conns, name)
      OBVIOUS
    <3> QED
      BY <3>1, ReachedSteps
  <2>7. m \in NamesIn(conns)
    BY DEF Adjacent, From, NamesIn
  <2>8. name \in Reached(conns, m)
    BY <2>1, <2>5
  <2> QED
    BY <2>4, <2>6, <2>7, <2>8
<1> QED
  BY <1>2, <1>3 DEF r

-----------------------------------------------------------------------------
(* The breadth-first search for a path.                                     *)

Turns(conns, source) ==
  LET all == NamesIn(conns) \cup {source}
  IN [queue : Seq(Seq(all)), visited : SUBSET all]

(* A path of connections from the source.                                   *)
IsRoute(conns, source, path) ==
  /\ path \in Seq(NamesIn(conns) \cup {source}) /\ path # <<>>
  /\ path[1] = source /\ IsPath(conns, path)

IsDone(target, st) == st.queue = <<>> \/ Last(Head(st.queue)) = target

(* A name that is visited is the end of a path that is queued, or has been  *)
(* passed: it is not the target, and what it calls is visited.              *)
IsComplete(conns, source, target, st) ==
  /\ source \in st.visited
  /\ \A v \in st.visited :
       \/ \E i \in DOMAIN st.queue : Last(st.queue[i]) = v
       \/ v # target /\ Adjacent(conns, v) \subseteq st.visited

(* After k turns: one of them for each name that was queued and is no more. *)
IsTurn(conns, source, target, k, st) ==
  /\ IsComplete(conns, source, target, st)
  /\ st \in Turns(conns, source)
  /\ \A i \in DOMAIN st.queue : IsRoute(conns, source, st.queue[i])
  /\ IsDone(target, st) \/ Cardinality(st.visited) = k + Len(st.queue)

(* One more turn, of any state, with what is ahead and the paths to it.     *)
TakesTurn(conns, source, st, ahead, new, longer, r) ==
  /\ r \in Turns(conns, source)
  /\ IsListing(new, ahead) /\ IsFiniteSet(ahead)
  /\ r.queue = Tail(st.queue) \o longer
  /\ longer \in Seq(Seq(NamesIn(conns) \cup {source}))
  /\ longer = [i \in DOMAIN new |-> Append(Head(st.queue), new[i])]
  /\ r.visited = st.visited \cup ahead

LEMMA TurnTaken ==
  ASSUME NEW conns, Sortable(conns), NEW source, NEW target, NEW st \in Turns(conns, source),
         ~ IsDone(target, st)
  PROVE  \E new, longer :
           TakesTurn(conns, source, st, Adjacent(conns, Last(Head(st.queue))) \ st.visited,
                     new, longer, SearchTurn(conns, target, st))
<1> DEFINE all == NamesIn(conns) \cup {source}
           path == Head(st.queue)
           ahead == Adjacent(conns, Last(path)) \ st.visited
           new == ByName(ahead)
           longer == [i \in DOMAIN new |-> Append(path, new[i])]
           r == SearchTurn(conns, target, st)
<1>1. /\ st.queue \in Seq(Seq(all)) /\ st.visited \in SUBSET all /\ st.queue # <<>>
      /\ Last(path) # target
  BY DEF Turns, IsDone
<1>2. path \in Seq(all) /\ Tail(st.queue) \in Seq(Seq(all))
  <2> HIDE DEF all
  <2> DEFINE S == Seq(all)
  <2>1. st.queue \in Seq(S) /\ st.queue # <<>>
    BY <1>1
  <2>2. Head(st.queue) \in S /\ Tail(st.queue) \in Seq(S)
    <3> HIDE DEF S
    <3> QED
      BY <2>1
  <2> QED
    BY <2>2
<1>3. r = [queue |-> Tail(st.queue) \o longer, visited |-> st.visited \cup ToSet(new)]
  BY <1>1 DEF SearchTurn
<1>4. ahead \in SUBSET ToSet(Names) /\ ahead \in SUBSET all
  BY AdjacentNames
<1> HIDE DEF ahead
<1>5. IsListing(new, ahead) /\ IsFiniteSet(ahead)
  BY <1>4, ByNameLists
<1> HIDE DEF new, all, path
<1>6. /\ new \in Seq(ahead) /\ DOMAIN new = 1 .. Len(new) /\ Len(new) \in Nat
      /\ ToSet(new) = ahead /\ \A i \in DOMAIN new : new[i] \in all
  BY <1>4, <1>5 DEF IsListing
<1>7. longer \in Seq(Seq(all))
  <2>1. \A i \in 1 .. Len(new) : Append(path, new[i]) \in Seq(all)
    BY <1>2, <1>6
  <2>2. longer = [i \in 1 .. Len(new) |-> Append(path, new[i])]
    BY <1>6
  <2> DEFINE S == Seq(all)
  <2>3. longer \in [1 .. Len(new) -> S]
    BY <2>1, <2>2
  <2> HIDE DEF longer, S
  <2>4. longer \in Seq(S)
    BY <1>6, <2>3
  <2> QED
    BY <2>4 DEF S
<1> HIDE DEF longer
<1>8. Tail(st.queue) \o longer \in Seq(Seq(all))
  <2> DEFINE S == Seq(all)
             rest == Tail(st.queue)
  <2>1. rest \in Seq(S) /\ longer \in Seq(S)
    BY <1>2, <1>7
  <2> HIDE DEF S, rest
  <2>2. rest \o longer \in Seq(S)
    BY <2>1
  <2> QED
    BY <2>2 DEF S, rest
<1>9. r.queue = Tail(st.queue) \o longer /\ r.visited = st.visited \cup ahead
  BY <1>3, <1>6
<1>10. r \in Turns(conns, source)
  <2>1. st.visited \cup ToSet(new) \in SUBSET all
    BY <1>1, <1>4, <1>6
  <2> HIDE DEF r
  <2> QED
    BY <1>3, <1>8, <2>1 DEF Turns, all
<1>11. longer = [i \in DOMAIN new |-> Append(Head(st.queue), new[i])]
  BY DEF longer, path
<1> HIDE DEF r
<1>12. TakesTurn(conns, source, st, ahead, new, longer, r)
  BY <1>5, <1>7, <1>9, <1>10, <1>11 DEF TakesTurn, all
<1> QED
  BY <1>12, Zenon DEF ahead, path, r

LEMMA LongerRoute ==
  ASSUME NEW conns, NEW source, NEW path, IsRoute(conns, source, path),
         NEW name \in Adjacent(conns, Last(path))
  PROVE  IsRoute(conns, source, Append(path, name))
<1> DEFINE all == NamesIn(conns) \cup {source}
           m == Len(path)
           longer == Append(path, name)
<1>1. path \in Seq(all) /\ path # <<>> /\ path[1] = source /\ IsPath(conns, path)
  BY DEF IsRoute
<1>2. name \in all
  BY DEF Adjacent, From, NamesIn
<1> HIDE DEF all
<1>3. m \in Nat /\ m # 0 /\ name \in Adjacent(conns, path[m])
  BY <1>1 DEF Last
<1>4. /\ longer \in Seq(all) /\ Len(longer) = m + 1
      /\ longer[m + 1] = name /\ \A k \in 1 .. m : longer[k] = path[k]
  BY <1>1, <1>2
<1> HIDE DEF longer, m
<1>5. IsPath(conns, longer)
  <2> SUFFICES ASSUME NEW i \in 1 .. m PROVE longer[i + 1] \in Adjacent(conns, longer[i])
    BY <1>3, <1>4 DEF IsPath
  <2>1. CASE i = m
    BY <1>3, <1>4, <2>1
  <2>2. CASE i # m
    <3>1. i \in 1 .. m - 1 /\ i + 1 \in 1 .. m
      BY <1>3, <2>2
    <3> QED
      BY <1>1, <1>4, <3>1 DEF IsPath, m
  <2> QED
    BY <2>1, <2>2
<1>6. longer # <<>> /\ longer[1] = source
  BY <1>1, <1>3, <1>4
<1> QED
  BY <1>4, <1>5, <1>6 DEF IsRoute, all, longer

(* Two sequences, one after the other.                                      *)
IsJoined(s, t, r) ==
  /\ DOMAIN r = 1 .. Len(s) + Len(t) /\ Len(r) = Len(s) + Len(t)
  /\ \A i \in 1 .. Len(s) : r[i] = s[i]
  /\ \A i \in 1 .. Len(t) : r[Len(s) + i] = t[i]

LEMMA Joined ==
  ASSUME NEW R, NEW s \in Seq(R), NEW t \in Seq(R)
  PROVE  IsJoined(s, t, s \o t)
<1>1. s \o t \in Seq(R) /\ Len(s) \in Nat /\ Len(t) \in Nat /\ Len(s \o t) = Len(s) + Len(t)
  OBVIOUS
<1>2. DOMAIN (s \o t) = 1 .. Len(s \o t)
  BY <1>1
<1>3. \A i \in 1 .. Len(s) : (s \o t)[i] = s[i]
  BY <1>1
<1>4. ASSUME NEW i \in 1 .. Len(t) PROVE (s \o t)[Len(s) + i] = t[i]
  BY <1>1
<1> QED
  BY <1>1, <1>2, <1>3, <1>4 DEF IsJoined

LEMMA TurnKeeps ==
  ASSUME NEW conns, Sortable(conns), NEW source, NEW target, NEW k \in Nat, NEW st,
         IsTurn(conns, source, target, k, st)
  PROVE  IsTurn(conns, source, target, k + 1, SearchTurn(conns, target, st))
<1> DEFINE all == NamesIn(conns) \cup {source}
           path == Head(st.queue)
           ahead == Adjacent(conns, Last(path)) \ st.visited
           r == SearchTurn(conns, target, st)
           rest == Tail(st.queue)
<1>1. /\ st \in Turns(conns, source)
      /\ \A i \in DOMAIN st.queue : IsRoute(conns, source, st.queue[i])
  BY DEF IsTurn
<1>2. CASE IsDone(target, st)
  <2>1. r = st
    BY <1>2 DEF SearchTurn, IsDone
  <2> QED
    BY <1>1, <1>2, <2>1 DEF IsTurn
<1>3. CASE ~ IsDone(target, st)
  <2>1. PICK new, longer : TakesTurn(conns, source, st, ahead, new, longer, r)
    BY <1>1, <1>3, TurnTaken
  <2> DEFINE S == Seq(all)
             q == Len(st.queue)
  <2>2. /\ st.queue \in Seq(S) /\ st.queue # <<>> /\ st.visited \in SUBSET all
        /\ Cardinality(st.visited) = k + q
    BY <1>3 DEF IsTurn, IsDone, Turns
  <2> HIDE DEF ahead, r
  <2>3. /\ r \in Turns(conns, source) /\ IsListing(new, ahead) /\ IsFiniteSet(ahead)
        /\ r.queue = rest \o longer /\ longer \in Seq(S)
        /\ longer = [i \in DOMAIN new |-> Append(path, new[i])]
        /\ r.visited = st.visited \cup ahead
    BY <2>1 DEF TakesTurn
  <2> HIDE DEF S, all
  <2>4. /\ rest \in Seq(S) /\ Len(rest) = q - 1 /\ q \in Nat /\ q # 0
        /\ DOMAIN st.queue = 1 .. q
        /\ path = st.queue[1] /\ \A i \in 1 .. q - 1 : rest[i] = st.queue[i + 1]
    BY <2>2
  <2> HIDE DEF rest, path
  <2>5. IsRoute(conns, source, path)
    <3>1. 1 \in DOMAIN st.queue
      BY <2>4
    <3> QED
      BY <1>1, <2>4, <3>1
  <2> HIDE DEF q
  <2>6. /\ DOMAIN new = 1 .. Len(new) /\ Len(new) \in Nat /\ Len(new) = Cardinality(ahead)
        /\ \A i \in 1 .. Len(new) : new[i] \in ahead
    BY <2>3 DEF IsListing
  <2>61. Len(longer) = Len(new) /\ \A i \in 1 .. Len(new) : longer[i] = Append(path, new[i])
    BY <2>3, <2>6
  <2>7. ASSUME NEW i \in 1 .. Len(longer) PROVE IsRoute(conns, source, longer[i])
    <3>1. i \in 1 .. Len(new)
      BY <2>61
    <3>2. new[i] \in Adjacent(conns, Last(path))
      BY <2>6, <3>1 DEF ahead
    <3>3. IsRoute(conns, source, Append(path, new[i]))
      BY <2>5, <3>2, LongerRoute
    <3> QED
      BY <2>61, <3>1, <3>3
  <2>8. ASSUME NEW i \in 1 .. Len(rest) PROVE IsRoute(conns, source, rest[i])
    <3>1. i + 1 \in 1 .. q /\ i \in 1 .. q - 1
      BY <2>4
    <3> QED
      BY <1>1, <2>4, <3>1
  <2>9. /\ DOMAIN r.queue = 1 .. Len(rest) + Len(longer)
        /\ Len(r.queue) = Len(rest) + Len(longer)
        /\ \A i \in 1 .. Len(rest) : r.queue[i] = rest[i]
        /\ \A i \in 1 .. Len(longer) : r.queue[Len(rest) + i] = longer[i]
    <3>1. rest \in Seq(S) /\ longer \in Seq(S)
      BY <2>3, <2>4
    <3>2. IsJoined(rest, longer, rest \o longer)
      BY <3>1, Joined, Zenon
    <3>3. IsJoined(rest, longer, r.queue)
      BY <2>3, <3>2
    <3> QED
      BY <3>3, Zenon DEF IsJoined
  <2>10. ASSUME NEW i \in DOMAIN r.queue PROVE IsRoute(conns, source, r.queue[i])
    <3>1. CASE i \in 1 .. Len(rest)
      BY <2>8, <2>9, <3>1
    <3>2. CASE i \notin 1 .. Len(rest)
      <4> DEFINE j == i - Len(rest)
      <4>1. j \in 1 .. Len(longer) /\ i = Len(rest) + j
        <5>1. Len(rest) \in Nat /\ Len(longer) \in Nat /\ i \in 1 .. Len(rest) + Len(longer)
          BY <2>4, <2>6, <2>61, <2>9
        <5> QED
          BY <3>2, <5>1
      <4> HIDE DEF j
      <4> QED
        BY <2>7, <2>9, <4>1
    <3> QED
      BY <3>1, <3>2
  <2>11. Cardinality(r.visited) = (k + 1) + Len(r.queue)
    <3>1. IsFiniteSet(all)
      <4>1. IsFiniteSet(NamesIn(conns))
        BY AdjacentNames
      <4> QED
        BY <4>1, FS_AddElement DEF all
    <3>2. IsFiniteSet(st.visited)
      BY <2>2, <3>1, FS_Subset
    <3>3. st.visited \cap ahead = {}
      BY DEF ahead
    <3>4. Cardinality(st.visited \cup ahead) = Cardinality(st.visited) + Cardinality(ahead) - 0
      <4>1. Cardinality(st.visited \cap ahead) = 0
        BY <3>3, FS_EmptySet
      <4> QED
        BY <2>3, <3>2, <4>1, FS_Union
    <3>5. Cardinality(r.visited) = (k + q) + Len(new) - 0
      BY <2>2, <2>3, <2>6, <3>4
    <3>6. Len(r.queue) = (q - 1) + Len(new)
      BY <2>4, <2>61, <2>9
    <3> QED
      BY <2>4, <2>6, <3>5, <3>6
  <2>12. IsComplete(conns, source, target, r)
    <3>1. IsComplete(conns, source, target, st) /\ Last(path) # target
      BY <1>3 DEF IsTurn, IsDone, path
    <3>2. source \in r.visited
      BY <2>3, <3>1 DEF IsComplete
    <3>3. ASSUME NEW v \in r.visited
          PROVE  \/ \E i \in DOMAIN r.queue : Last(r.queue[i]) = v
                 \/ v # target /\ Adjacent(conns, v) \subseteq r.visited
      <4>1. CASE v \in ahead
        <5>1. PICK i \in 1 .. Len(new) : new[i] = v
          BY <2>3, <2>6, <4>1 DEF IsListing, ToSet
        <5>2. longer[i] = Append(path, v) /\ i \in 1 .. Len(longer)
          BY <2>61, <5>1
        <5>3. path \in Seq(all) /\ v \in all
          BY <2>3, <2>5, <5>1 DEF IsRoute, Turns, all
        <5>4. Last(Append(path, v)) = v
          BY <5>3 DEF Last
        <5>5. Len(rest) + i \in DOMAIN r.queue /\ r.queue[Len(rest) + i] = longer[i]
          <6>1. Len(rest) \in Nat /\ Len(longer) \in Nat
            BY <2>4, <2>6, <2>61
          <6>2. Len(rest) + i \in 1 .. Len(rest) + Len(longer)
            BY <5>2, <6>1
          <6> QED
            BY <2>9, <5>2, <6>2
        <5> QED
          BY <5>2, <5>4, <5>5
      <4>2. CASE v \in st.visited /\ v # target /\ Adjacent(conns, v) \subseteq st.visited
        BY <2>3, <4>2
      <4>3. ASSUME v \in st.visited, NEW i \in DOMAIN st.queue, Last(st.queue[i]) = v
            PROVE  \/ \E j \in DOMAIN r.queue : Last(r.queue[j]) = v
                   \/ v # target /\ Adjacent(conns, v) \subseteq r.visited
        <5>1. CASE i = 1
          <6>1. v = Last(path) /\ v # target
            BY <2>4, <3>1, <4>3, <5>1
          <6>2. Adjacent(conns, v) \subseteq st.visited \cup ahead
            BY <6>1 DEF ahead
          <6> QED
            BY <2>3, <6>1, <6>2
        <5>2. CASE i # 1
          <6>1. i - 1 \in 1 .. q - 1 /\ (i - 1) + 1 = i /\ Len(longer) \in Nat
            BY <2>4, <2>6, <2>61, <5>2
          <6>2. i - 1 \in 1 .. Len(rest) /\ i - 1 \in DOMAIN r.queue
            BY <2>4, <2>9, <6>1
          <6>3. r.queue[i - 1] = st.queue[i]
            BY <2>4, <2>9, <6>1, <6>2
          <6> QED
            BY <4>3, <6>2, <6>3
        <5> QED
          BY <5>1, <5>2
      <4>4. v \in st.visited \/ v \in ahead
        BY <2>3
      <4> QED
        BY <3>1, <4>1, <4>2, <4>3, <4>4 DEF IsComplete
    <3> QED
      BY <3>2, <3>3 DEF IsComplete
  <2>13. IsTurn(conns, source, target, k + 1, r)
    BY <2>3, <2>10, <2>11, <2>12 DEF IsTurn
  <2> QED
    BY <2>13 DEF r
<1> QED
  BY <1>2, <1>3

(* The search goes by length: what a shorter path leads to has been passed, *)
(* and what one as long as the next leads to has been, or is queued.        *)
IsPassed(conns, target, st, v) == v # target /\ Adjacent(conns, v) \subseteq st.visited
IsLevelled(conns, source, target, st) ==
  /\ \A i, j \in DOMAIN st.queue : i =< j => Len(st.queue[i]) =< Len(st.queue[j])
  /\ \A i \in DOMAIN st.queue : Len(st.queue[i]) =< Len(st.queue[1]) + 1
  /\ st.queue # <<>> => \A p : IsRoute(conns, source, p) =>
       /\ Len(p) < Len(st.queue[1]) => IsPassed(conns, target, st, Last(p))
       /\ Len(p) = Len(st.queue[1]) =>
            \/ IsPassed(conns, target, st, Last(p))
            \/ \E i \in DOMAIN st.queue : /\ Len(st.queue[i]) = Len(st.queue[1])
                                          /\ Last(st.queue[i]) = Last(p)

LEMMA ShorterRoute ==
  ASSUME NEW conns, NEW source, NEW p, IsRoute(conns, source, p)
  PROVE  /\ Len(p) \in Nat /\ Len(p) # 0
         /\ Len(p) = 1 => Last(p) = source
         /\ Len(p) # 1 => \E y : /\ IsRoute(conns, source, y) /\ Len(y) = Len(p) - 1
                                 /\ Last(p) \in Adjacent(conns, Last(y))
<1> DEFINE all == NamesIn(conns) \cup {source}
           m == Len(p)
           y == SubSeq(p, 1, m - 1)
<1>1. p \in Seq(all) /\ p # <<>> /\ p[1] = source /\ IsPath(conns, p)
  BY DEF IsRoute
<1> HIDE DEF all
<1>2. m \in Nat /\ m # 0
  BY <1>1
<1>3. m = 1 => Last(p) = source
  BY <1>1 DEF Last
<1>4. ASSUME m # 1
      PROVE  /\ IsRoute(conns, source, y) /\ Len(y) = m - 1
             /\ Last(p) \in Adjacent(conns, Last(y))
  <2>1. /\ y \in Seq(all) /\ Len(y) = m - 1 /\ \A i \in 1 .. m - 1 : y[i] = p[i]
    <3>1. 1 \in 1 .. Len(p) + 1 /\ m - 1 \in 0 .. Len(p) /\ 1 =< (m - 1) + 1
      BY <1>2
    <3>2. /\ y \in Seq(all) /\ Len(y) = (m - 1) - 1 + 1
          /\ \A i \in 1 .. (m - 1) - 1 + 1 : y[i] = p[1 + i - 1]
      <4> DEFINE b == m - 1
      <4>1. p \in Seq(all) /\ 1 \in 1 .. Len(p) + 1 /\ b \in 0 .. Len(p) /\ 1 =< b + 1
        BY <1>1, <3>1
      <4> HIDE DEF b
      <4>2. /\ SubSeq(p, 1, b) \in Seq(all) /\ Len(SubSeq(p, 1, b)) = b - 1 + 1
            /\ \A i \in 1 .. b - 1 + 1 : SubSeq(p, 1, b)[i] = p[1 + i - 1]
        BY <4>1, PartOf
      <4> QED
        BY <4>2 DEF b
    <3>3. Len(y) = m - 1 /\ (m - 1) - 1 + 1 = m - 1 /\ \A i \in 1 .. m - 1 : 1 + i - 1 = i
      BY <1>2, <3>2
    <3> HIDE DEF y, m
    <3> QED
      BY <3>2, <3>3
  <2> HIDE DEF y, m
  <2>2. m - 1 \in 1 .. m - 1 /\ 1 \in 1 .. m - 1 /\ (m - 1) + 1 = m
    BY <1>2, <1>4
  <2>3. y # <<>> /\ y[1] = source
    BY <1>1, <2>1, <2>2
  <2>4. IsPath(conns, y)
    <3> SUFFICES ASSUME NEW i \in 1 .. (m - 1) - 1 PROVE y[i + 1] \in Adjacent(conns, y[i])
      BY <2>1 DEF IsPath
    <3>1. i \in 1 .. m - 1 /\ i + 1 \in 1 .. m - 1
      BY <1>2
    <3> QED
      BY <1>1, <2>1, <3>1 DEF IsPath, m
  <2>5. Last(y) = p[m - 1] /\ Last(p) = p[m]
    BY <2>1, <2>2 DEF Last, m
  <2>6. p[m] \in Adjacent(conns, p[m - 1])
    BY <1>1, <2>2 DEF IsPath, m
  <2> QED
    BY <2>1, <2>3, <2>4, <2>5, <2>6 DEF IsRoute, all
<1> QED
  BY <1>2, <1>3, <1>4

LEMMA TurnLevels ==
  ASSUME NEW conns, Sortable(conns), NEW source, NEW target, NEW k \in Nat, NEW st,
         IsTurn(conns, source, target, k, st), IsLevelled(conns, source, target, st)
  PROVE  IsLevelled(conns, source, target, SearchTurn(conns, target, st))
<1> DEFINE all == NamesIn(conns) \cup {source}
           path == Head(st.queue)
           ahead == Adjacent(conns, Last(path)) \ st.visited
           r == SearchTurn(conns, target, st)
           rest == Tail(st.queue)
<1>1. st \in Turns(conns, source) /\ \A i \in DOMAIN st.queue : IsRoute(conns, source, st.queue[i])
  BY DEF IsTurn
<1>2. CASE IsDone(target, st)
  <2>1. r = st
    BY <1>2 DEF SearchTurn, IsDone
  <2> QED
    BY <2>1
<1>3. CASE ~ IsDone(target, st)
  <2>1. PICK new, longer : TakesTurn(conns, source, st, ahead, new, longer, r)
    BY <1>1, <1>3, TurnTaken
  <2>2. IsTurn(conns, source, target, k + 1, r)
    BY TurnKeeps
  <2> DEFINE S == Seq(all)
             q == Len(st.queue)
             d == Len(path)
  <2>3. st.queue \in Seq(S) /\ st.queue # <<>> /\ Last(path) # target
    BY <1>1, <1>3 DEF IsDone, Turns
  <2> HIDE DEF ahead, r
  <2>4. /\ IsListing(new, ahead) /\ r.queue = rest \o longer /\ longer \in Seq(S)
        /\ longer = [i \in DOMAIN new |-> Append(path, new[i])]
        /\ r.visited = st.visited \cup ahead
    BY <2>1 DEF TakesTurn
  <2> HIDE DEF S
  <2>5. /\ rest \in Seq(S) /\ Len(rest) = q - 1 /\ q \in Nat /\ q # 0
        /\ DOMAIN st.queue = 1 .. q
        /\ path = st.queue[1] /\ \A i \in 1 .. q - 1 : rest[i] = st.queue[i + 1]
    BY <2>3
  <2> HIDE DEF rest, path
  <2>6. /\ 1 \in DOMAIN st.queue /\ IsRoute(conns, source, path)
        /\ path \in Seq(all) /\ d \in Nat
    <3>1. 1 \in DOMAIN st.queue
      BY <2>5
    <3>2. IsRoute(conns, source, path)
      BY <1>1, <2>5, <3>1
    <3> QED
      BY <3>1, <3>2, ShorterRoute DEF IsRoute
  <2> HIDE DEF q, all
  <2>7. \A i \in DOMAIN st.queue : Len(st.queue[i]) \in Nat
    BY <1>1, ShorterRoute
  <2>8. IsJoined(rest, longer, r.queue)
    <3>1. IsJoined(rest, longer, rest \o longer)
      BY <2>4, <2>5, Joined, Zenon
    <3> QED
      BY <2>4, <3>1
  <2> DEFINE n == Len(longer)
  <2>9. /\ n \in Nat /\ \A i \in 1 .. n : Len(longer[i]) = d + 1
    <3>1. DOMAIN new = 1 .. Len(new) /\ Len(new) \in Nat
      BY <2>4 DEF IsListing
    <3>2. n = Len(new)
      BY <2>4, <3>1
    <3>3. ASSUME NEW i \in 1 .. n PROVE Len(longer[i]) = d + 1
      <4>1. longer[i] = Append(path, new[i])
        BY <2>4, <3>1, <3>2
      <4> QED
        BY <2>6, <4>1
    <3> QED
      BY <3>1, <3>2, <3>3
  <2> HIDE DEF n, d
  (* The queue by the lengths of its paths. *)
  <2>10. /\ DOMAIN r.queue = 1 .. (q - 1) + n
         /\ \A i \in 1 .. q - 1 : i + 1 \in DOMAIN st.queue /\ r.queue[i] = st.queue[i + 1]
         /\ \A i \in DOMAIN r.queue : i \notin 1 .. q - 1 => Len(r.queue[i]) = d + 1
    <3>1. DOMAIN r.queue = 1 .. (q - 1) + n
      BY <2>5, <2>8 DEF IsJoined, n
    <3>2. \A i \in 1 .. q - 1 : i + 1 \in DOMAIN st.queue /\ r.queue[i] = st.queue[i + 1]
      <4> SUFFICES ASSUME NEW i \in 1 .. q - 1
                   PROVE  i + 1 \in DOMAIN st.queue /\ r.queue[i] = st.queue[i + 1]
        OBVIOUS
      <4>1. i + 1 \in 1 .. q /\ i \in 1 .. Len(rest)
        BY <2>5
      <4> QED
        BY <2>5, <2>8, <4>1 DEF IsJoined
    <3>3. ASSUME NEW i \in DOMAIN r.queue, i \notin 1 .. q - 1 PROVE Len(r.queue[i]) = d + 1
      <4> DEFINE j == i - (q - 1)
      <4>1. j \in 1 .. n /\ i = Len(rest) + j
        BY <2>5, <2>9, <3>1, <3>3
      <4> HIDE DEF j
      <4>2. r.queue[i] = longer[j]
        BY <2>8, <4>1 DEF IsJoined, n
      <4> QED
        BY <2>9, <4>1, <4>2
    <3> QED
      BY <3>1, <3>2, <3>3
  <2>11. \A i \in DOMAIN st.queue : d =< Len(st.queue[i]) /\ Len(st.queue[i]) =< d + 1
    <3> SUFFICES ASSUME NEW i \in DOMAIN st.queue
                 PROVE  d =< Len(st.queue[i]) /\ Len(st.queue[i]) =< d + 1
      OBVIOUS
    <3>1. 1 =< i /\ d = Len(st.queue[1])
      BY <2>5 DEF d
    <3> QED
      BY <2>6, <3>1 DEF IsLevelled
  <2>12. \A i \in DOMAIN r.queue : Len(r.queue[i]) \in Nat
                                    /\ d =< Len(r.queue[i]) /\ Len(r.queue[i]) =< d + 1
    BY <2>6, <2>7, <2>10, <2>11
  <2>13. ASSUME NEW i \in DOMAIN r.queue, NEW j \in DOMAIN r.queue, i =< j
         PROVE  Len(r.queue[i]) =< Len(r.queue[j])
    <3>1. CASE j \in 1 .. q - 1
      <4>1. i \in 1 .. q - 1 /\ i + 1 =< j + 1
        BY <2>5, <2>9, <2>10, <2>13, <3>1
      <4> QED
        BY <2>10, <3>1, <4>1 DEF IsLevelled
    <3>2. CASE j \notin 1 .. q - 1
      BY <2>10, <2>12, <3>2
    <3> QED
      BY <3>1, <3>2
  <2>14. \A v : IsPassed(conns, target, st, v) => IsPassed(conns, target, r, v)
    BY <2>4 DEF IsPassed
  <2>15. IsPassed(conns, target, r, Last(path))
    BY <2>3, <2>4 DEF IsPassed, ahead
  <2>16. ASSUME NEW p, IsRoute(conns, source, p), Len(p) < d
         PROVE  IsPassed(conns, target, r, Last(p))
    BY <2>3, <2>5, <2>14, <2>16 DEF IsLevelled, d
  <2>17. ASSUME NEW p, IsRoute(conns, source, p), Len(p) = d
         PROVE  \/ IsPassed(conns, target, r, Last(p))
                \/ \E i \in 1 .. q - 1 : Len(r.queue[i]) = d /\ Last(r.queue[i]) = Last(p)
    <3>1. \/ IsPassed(conns, target, st, Last(p))
          \/ \E i \in DOMAIN st.queue : Len(st.queue[i]) = d /\ Last(st.queue[i]) = Last(p)
      BY <2>3, <2>5, <2>17 DEF IsLevelled, d
    <3>2. ASSUME NEW i \in DOMAIN st.queue, Len(st.queue[i]) = d, Last(st.queue[i]) = Last(p)
          PROVE  \/ IsPassed(conns, target, r, Last(p))
                 \/ \E j \in 1 .. q - 1 : Len(r.queue[j]) = d /\ Last(r.queue[j]) = Last(p)
      <4>1. CASE i = 1
        BY <2>5, <2>15, <3>2, <4>1
      <4>2. CASE i # 1
        <5>1. i - 1 \in 1 .. q - 1 /\ (i - 1) + 1 = i
          BY <2>5, <4>2
        <5>2. r.queue[i - 1] = st.queue[i]
          BY <2>10, <5>1
        <5> QED
          BY <3>2, <5>1, <5>2
      <4> QED
        BY <4>1, <4>2
    <3> QED
      BY <2>14, <3>1, <3>2
  <2>18. ASSUME r.queue # <<>>, NEW p, IsRoute(conns, source, p)
         PROVE  /\ Len(p) < Len(r.queue[1]) => IsPassed(conns, target, r, Last(p))
                /\ Len(p) = Len(r.queue[1]) =>
                     \/ IsPassed(conns, target, r, Last(p))
                     \/ \E i \in DOMAIN r.queue : /\ Len(r.queue[i]) = Len(r.queue[1])
                                                   /\ Last(r.queue[i]) = Last(p)
    <3>1. 1 \in DOMAIN r.queue /\ DOMAIN r.queue = 1 .. (q - 1) + n
      <4>1. rest \o longer \in Seq(S)
        BY <2>4, <2>5
      <4>2. 1 \in DOMAIN r.queue
        BY <2>4, <2>18, <4>1
      <4> QED
        BY <2>10, <4>2
    <3>2. 1 .. q - 1 \subseteq DOMAIN r.queue
      BY <2>5, <2>9, <3>1
    <3>3. Len(p) \in Nat
      BY <2>18, ShorterRoute
    <3>4. CASE Len(r.queue[1]) = d
      BY <2>6, <2>16, <2>17, <2>18, <3>2, <3>3, <3>4
    <3>5. CASE Len(r.queue[1]) # d
      <4>1. /\ Len(r.queue[1]) = d + 1
            /\ \A i \in DOMAIN r.queue : Len(r.queue[i]) = d + 1
        <5>1. Len(r.queue[1]) = d + 1
          BY <2>6, <2>12, <3>1, <3>5
        <5>2. ASSUME NEW i \in DOMAIN r.queue PROVE Len(r.queue[i]) = d + 1
          <6>1. 1 =< i
            BY <2>5, <2>9, <3>1
          <6> QED
            BY <2>6, <2>12, <2>13, <3>1, <5>1, <6>1
        <5> QED
          BY <5>1, <5>2
      <4>2. ASSUME NEW y, IsRoute(conns, source, y), Len(y) =< d
            PROVE  IsPassed(conns, target, r, Last(y))
        <5>1. Len(y) \in Nat
          BY <4>2, ShorterRoute
        <5>2. CASE Len(y) < d
          BY <2>16, <4>2, <5>2
        <5>3. CASE Len(y) = d
          <6>1. \A i \in 1 .. q - 1 : Len(r.queue[i]) # d
            BY <2>6, <3>2, <4>1
          <6> QED
            BY <2>17, <4>2, <5>3, <6>1
        <5> QED
          BY <2>6, <4>2, <5>1, <5>2, <5>3
      <4>3. ASSUME Len(p) = d + 1
            PROVE  \/ IsPassed(conns, target, r, Last(p))
                   \/ \E i \in DOMAIN r.queue : /\ Len(r.queue[i]) = Len(r.queue[1])
                                                 /\ Last(r.queue[i]) = Last(p)
        <5>1. Last(p) \in r.visited
          <6>1. CASE Len(p) = 1
            BY <2>2, <2>18, <6>1, ShorterRoute DEF IsTurn, IsComplete
          <6>2. CASE Len(p) # 1
            <7>1. PICK y : /\ IsRoute(conns, source, y) /\ Len(y) = Len(p) - 1
                           /\ Last(p) \in Adjacent(conns, Last(y))
              BY <2>18, <6>2, ShorterRoute
            <7>2. Len(y) =< d
              BY <2>6, <4>3, <7>1
            <7> QED
              BY <4>2, <7>1, <7>2 DEF IsPassed
          <6> QED
            BY <6>1, <6>2
        <5>2. \/ \E i \in DOMAIN r.queue : Last(r.queue[i]) = Last(p)
              \/ IsPassed(conns, target, r, Last(p))
          BY <2>2, <5>1 DEF IsTurn, IsComplete, IsPassed
        <5> QED
          BY <4>1, <5>2
      <4> QED
        <5>1. Len(p) < Len(r.queue[1]) => Len(p) =< d
          BY <2>6, <3>3, <4>1
        <5> QED
          BY <2>18, <4>1, <4>2, <4>3, <5>1
    <3> QED
      BY <3>4, <3>5
  <2>19. \A i \in DOMAIN r.queue : Len(r.queue[i]) =< Len(r.queue[1]) + 1
    <3> SUFFICES ASSUME NEW i \in DOMAIN r.queue PROVE Len(r.queue[i]) =< Len(r.queue[1]) + 1
      OBVIOUS
    <3>1. 1 \in DOMAIN r.queue
      BY <2>5, <2>9, <2>10
    <3> QED
      BY <2>6, <2>12, <3>1
  <2>20. IsLevelled(conns, source, target, r)
    BY <2>13, <2>18, <2>19 DEF IsLevelled
  <2> QED
    BY <2>20 DEF r
<1> QED
  BY <1>2, <1>3

(* What SearchTurns chooses.                                                *)
FirstTurn(source) == [queue |-> <<<<source>>>>, visited |-> {source}]
IsTurns(conns, source, target, depth, after) ==
  after = [k \in 0 .. depth |->
             IF k = 0 THEN [queue |-> <<<<source>>>>, visited |-> {source}]
             ELSE SearchTurn(conns, target, after[k - 1])]

LEMMA FirstIsTurn ==
  ASSUME NEW conns, NEW source, NEW target
  PROVE  /\ IsTurn(conns, source, target, 0, FirstTurn(source))
         /\ IsLevelled(conns, source, target, FirstTurn(source))
<1> DEFINE all == NamesIn(conns) \cup {source}
           st == FirstTurn(source)
<1>1. <<source>> \in Seq(all) /\ Len(<<source>>) = 1 /\ <<source>> # <<>> /\ <<source>>[1] = source
  OBVIOUS
<1>2. IsPath(conns, <<source>>)
  BY <1>1 DEF IsPath
<1>3. IsRoute(conns, source, <<source>>)
  BY <1>1, <1>2 DEF IsRoute
<1>4. st.queue = <<<<source>>>> /\ st.visited = {source}
  BY DEF FirstTurn
<1>5. <<<<source>>>> \in Seq(Seq(all)) /\ Len(<<<<source>>>>) = 1
  <2> DEFINE S == Seq(all)
  <2>1. <<source>> \in S
    BY <1>1
  <2> HIDE DEF S
  <2>2. <<<<source>>>> \in Seq(S) /\ Len(<<<<source>>>>) = 1
    BY <2>1
  <2> QED
    BY <2>2 DEF S
<1>6. st \in Turns(conns, source)
  <2>1. {source} \in SUBSET all
    OBVIOUS
  <2> QED
    BY <1>5, <2>1 DEF Turns, FirstTurn
<1>7. Cardinality({source}) = 1
  BY FS_Singleton
<1>8. \A i \in DOMAIN st.queue : IsRoute(conns, source, st.queue[i])
  <2>1. \A i \in DOMAIN <<<<source>>>> : <<<<source>>>>[i] = <<source>>
    OBVIOUS
  <2> QED
    BY <1>3, <1>4, <2>1
<1> HIDE DEF st
<1>9. Cardinality(st.visited) = 0 + Len(st.queue)
  BY <1>4, <1>5, <1>7
<1>10. IsComplete(conns, source, target, st)
  <2>1. 1 \in DOMAIN <<<<source>>>> /\ <<<<source>>>>[1] = <<source>>
    OBVIOUS
  <2>2. Last(<<source>>) = source
    BY <1>1 DEF Last
  <2> QED
    BY <1>4, <2>1, <2>2 DEF IsComplete
<1>11. IsTurn(conns, source, target, 0, st)
  BY <1>6, <1>8, <1>9, <1>10 DEF IsTurn
<1>12. IsLevelled(conns, source, target, st)
  <2>1. \A i \in DOMAIN st.queue : i = 1 /\ st.queue[i] = <<source>>
    BY <1>4
  <2>2. 1 \in DOMAIN st.queue /\ st.queue[1] = <<source>> /\ Len(st.queue[1]) = 1
    BY <1>4
  <2>3. Last(<<source>>) = source
    BY <1>1 DEF Last
  <2>4. ASSUME NEW p, IsRoute(conns, source, p)
        PROVE  /\ ~ (Len(p) < 1)
               /\ Len(p) = 1 => \E i \in DOMAIN st.queue : /\ Len(st.queue[i]) = Len(st.queue[1])
                                                           /\ Last(st.queue[i]) = Last(p)
    <3>1. Len(p) \in Nat /\ Len(p) # 0 /\ (Len(p) = 1 => Last(p) = source)
      BY <2>4, ShorterRoute
    <3> QED
      BY <2>2, <2>3, <3>1
  <2>5. \A i \in DOMAIN st.queue : Len(st.queue[i]) = 1
    BY <2>1, <2>2
  <2>6. /\ \A i, j \in DOMAIN st.queue : i =< j => Len(st.queue[i]) =< Len(st.queue[j])
        /\ \A i \in DOMAIN st.queue : Len(st.queue[i]) =< Len(st.queue[1]) + 1
    <3> DEFINE len(i) == Len(st.queue[i])
    <3>1. \A i \in DOMAIN st.queue : len(i) = 1
      BY <2>5
    <3>2. len(1) = 1
      BY <2>2
    <3> HIDE DEF len
    <3>3. /\ \A i, j \in DOMAIN st.queue : i =< j => len(i) =< len(j)
          /\ \A i \in DOMAIN st.queue : len(i) =< len(1) + 1
      BY <3>1, <3>2
    <3> QED
      BY <3>3 DEF len
  <2>7. ASSUME NEW p, IsRoute(conns, source, p)
        PROVE  /\ Len(p) < Len(st.queue[1]) => IsPassed(conns, target, st, Last(p))
               /\ Len(p) = Len(st.queue[1]) =>
                    \/ IsPassed(conns, target, st, Last(p))
                    \/ \E i \in DOMAIN st.queue : /\ Len(st.queue[i]) = Len(st.queue[1])
                                                  /\ Last(st.queue[i]) = Last(p)
    <3>1. Len(st.queue[1]) = 1
      BY <2>2
    <3> QED
      BY <2>4, <2>7, <3>1
  <2> QED
    BY <2>6, <2>7 DEF IsLevelled
<1> QED
  BY <1>11, <1>12 DEF st

LEMMA TurnsExist ==
  ASSUME NEW conns, Sortable(conns), NEW source, NEW target, NEW depth \in Nat
  PROVE  \E after : IsTurns(conns, source, target, depth, after)
<1> DEFINE S == Turns(conns, source)
           m == depth + 1
           base == FirstTurn(source)
           further(st) == SearchTurn(conns, target, st)
           step == [p \in S \X (1 .. m) |-> further(p[1])]
<1>1. base \in S /\ m \in Nat
  <2>1. IsTurn(conns, source, target, 0, base)
    BY FirstIsTurn
  <2>2. base \in S
    BY <2>1, Zenon DEF IsTurn
  <2> QED
    BY <2>2
<1>2. ASSUME NEW st \in S PROVE further(st) \in S
  <2>1. CASE IsDone(target, st)
    BY <2>1 DEF SearchTurn, IsDone
  <2>2. CASE ~ IsDone(target, st)
    <3>1. PICK new, longer :
             TakesTurn(conns, source, st, Adjacent(conns, Last(Head(st.queue))) \ st.visited,
                       new, longer, SearchTurn(conns, target, st))
      BY <2>2, TurnTaken
    <3> QED
      BY <3>1 DEF TakesTurn
  <2> QED
    BY <2>1, <2>2
<1> HIDE DEF S, base, further
<1>3. step \in [S \X (1 .. m) -> S]
  BY <1>2
<1>4. PICK f \in [1 .. m -> S] : IsRecursion(m, base, step, f)
  <2> HIDE DEF m, step
  <2> QED
    BY <1>1, <1>3, RecursionDefined
<1> DEFINE after == [k \in 0 .. depth |-> f[k + 1]]
<1>5. ASSUME NEW k \in 0 .. depth
      PROVE  after[k] = IF k = 0 THEN base ELSE further(after[k - 1])
  <2>1. k + 1 \in 1 .. m /\ (k + 1) - 1 = k
    OBVIOUS
  <2>2. after[k] = IF k + 1 = 1 THEN base ELSE step[<<f[k], k + 1>>]
    BY <1>4, <2>1 DEF IsRecursion
  <2>3. CASE k = 0
    BY <2>2, <2>3
  <2>4. CASE k # 0
    <3>1. k \in 1 .. m /\ k - 1 \in 0 .. depth /\ (k - 1) + 1 = k
      BY <2>4
    <3>2. f[k] \in S /\ after[k - 1] = f[k]
      BY <3>1
    <3>3. <<f[k], k + 1>> \in S \X (1 .. m)
      BY <2>1, <3>2
    <3>4. step[<<f[k], k + 1>>] = further(f[k])
      BY <3>3
    <3> HIDE DEF after, step
    <3> QED
      BY <2>2, <2>4, <3>1, <3>2, <3>4
  <2> QED
    BY <2>3, <2>4
<1>6. after = [k \in 0 .. depth |-> after[k]]
  OBVIOUS
<1> HIDE DEF after
<1>7. ASSUME NEW k \in 0 .. depth
      PROVE  after[k] = IF k = 0 THEN [queue |-> <<<<source>>>>, visited |-> {source}]
                        ELSE SearchTurn(conns, target, after[k - 1])
  BY <1>5 DEF base, further, FirstTurn
<1>8. IsTurns(conns, source, target, depth, after)
  BY <1>6, <1>7 DEF IsTurns
<1> QED
  BY <1>8

(* Every turn keeps what IsTurn says.                                       *)
LEMMA TurnsKeep ==
  ASSUME NEW conns, Sortable(conns), NEW source, NEW target, NEW depth \in Nat, NEW after,
         IsTurns(conns, source, target, depth, after)
  PROVE  /\ IsTurn(conns, source, target, depth, after[depth])
         /\ IsLevelled(conns, source, target, after[depth])
<1>1. ASSUME NEW k \in 0 .. depth
      PROVE  after[k] = IF k = 0 THEN FirstTurn(source)
                        ELSE SearchTurn(conns, target, after[k - 1])
  BY DEF IsTurns, FirstTurn
<1> DEFINE T == {k \in 0 .. depth : /\ IsTurn(conns, source, target, k, after[k])
                                   /\ IsLevelled(conns, source, target, after[k])}
<1>2. 0 \in T
  BY <1>1, FirstIsTurn
<1>3. ASSUME NEW k \in T, k + 1 \in 0 .. depth PROVE k + 1 \in T
  <2>1. k \in Nat /\ k + 1 # 0 /\ (k + 1) - 1 = k
    OBVIOUS
  <2>2. after[k + 1] = SearchTurn(conns, target, after[k])
    BY <1>1, <1>3, <2>1
  <2>3. /\ IsTurn(conns, source, target, k + 1, after[k + 1])
        /\ IsLevelled(conns, source, target, after[k + 1])
    BY <2>1, <2>2, TurnKeeps, TurnLevels
  <2> QED
    BY <1>3, <2>3
<1>4. depth \in T
  <2> HIDE DEF T
  <2>1. \A k \in 0 .. depth - 1 : k \in T => k + 1 \in T
    <3> SUFFICES ASSUME NEW k \in 0 .. depth - 1, k \in T PROVE k + 1 \in T
      OBVIOUS
    <3>1. k + 1 \in 0 .. depth
      OBVIOUS
    <3> QED
      BY <1>3, <3>1
  <2>2. 0 .. depth \subseteq T
    BY <1>2, <2>1, Induction
  <2> QED
    BY <2>2
<1> QED
  BY <1>4

(* There are turns enough for the search to end.                            *)
LEMMA SearchedRoute ==
  ASSUME NEW conns, Sortable(conns), NEW source, NEW target
  PROVE  \/ /\ SearchPath(conns, source, target) = <<>>
            /\ source # target /\ target \notin Reached(conns, source)
         \/ /\ IsRoute(conns, source, SearchPath(conns, source, target))
            /\ Last(SearchPath(conns, source, target)) = target
            /\ \A p : IsRoute(conns, source, p) /\ Last(p) = target =>
                 Len(SearchPath(conns, source, target)) =< Len(p)
<1> DEFINE all == NamesIn(conns) \cup {source}
           depth == Cardinality(all)
           Chosen(f) == f = [k \in 0 .. depth |->
                               IF k = 0 THEN [queue |-> <<<<source>>>>, visited |-> {source}]
                               ELSE SearchTurn(conns, target, f[k - 1])]
           after == CHOOSE f : Chosen(f)
           last == after[depth]
           path == SearchPath(conns, source, target)
<1>1. IsFiniteSet(all) /\ depth \in Nat
  <2>1. IsFiniteSet(NamesIn(conns))
    BY AdjacentNames
  <2>2. IsFiniteSet(all)
    BY <2>1, FS_AddElement
  <2> QED
    BY <2>2, FS_CardinalityType
<1>2. SearchTurns(conns, source, target) = after
  BY Zenon DEF SearchTurns
<1>3. path = IF last.queue = <<>> THEN <<>> ELSE Head(last.queue)
  BY <1>2, Zenon DEF SearchPath
<1>4. IsTurns(conns, source, target, depth, after)
  <2>1. \A f : Chosen(f) <=> IsTurns(conns, source, target, depth, f)
    BY DEF IsTurns
  <2>2. \E f : Chosen(f)
    <3> HIDE DEF Chosen, depth
    <3> QED
      BY <1>1, <2>1, TurnsExist
  <2>3. Chosen(after)
    <3> HIDE DEF Chosen
    <3> QED
      BY <2>2
  <2> HIDE DEF Chosen, after
  <2> QED
    BY <2>1, <2>3
<1> HIDE DEF after
<1>5. /\ IsTurn(conns, source, target, depth, last)
      /\ IsLevelled(conns, source, target, last)
  <2> HIDE DEF depth
  <2> QED
    BY <1>1, <1>4, TurnsKeep
<1> HIDE DEF last, path
<1>6. last.queue \in Seq(Seq(all)) /\ last.visited \in SUBSET all
  BY <1>5 DEF IsTurn, Turns
<1>7. Cardinality(last.visited) \in Nat /\ Cardinality(last.visited) =< depth
  BY <1>1, <1>6, FS_Subset, FS_CardinalityType
<1>8. IsDone(target, last)
  <2> SUFFICES ASSUME ~ IsDone(target, last) PROVE FALSE
    OBVIOUS
  <2>1. Cardinality(last.visited) = depth + Len(last.queue)
    BY <1>5 DEF IsTurn
  <2>2. last.queue # <<>>
    BY DEF IsDone
  <2> DEFINE S == Seq(all)
  <2>3. last.queue \in Seq(S)
    BY <1>6
  <2> HIDE DEF S, depth, all
  <2>4. Len(last.queue) \in Nat /\ Len(last.queue) # 0
    BY <2>2, <2>3
  <2> QED
    BY <1>1, <1>7, <2>1, <2>4
<1>9. CASE last.queue = <<>>
  <2> DEFINE names == {c.target : c \in conns}
             set == last.visited \cap names
  <2>1. DOMAIN last.queue = {}
    BY <1>9
  <2>2. /\ source \in last.visited
        /\ \A v \in last.visited : v # target /\ Adjacent(conns, v) \subseteq last.visited
    BY <1>5, <2>1 DEF IsTurn, IsComplete
  <2>3. \A v : Adjacent(conns, v) \subseteq names
    BY DEF Adjacent, From
  <2> HIDE DEF names
  <2>4. /\ set \in SUBSET names
        /\ Adjacent(conns, source) \cup UNION {Adjacent(conns, n) : n \in set} \subseteq set
    BY <2>2, <2>3
  <2> HIDE DEF set
  <2>5. Reached(conns, source) \subseteq set
    BY <2>4 DEF Reached, names
  <2>6. source # target /\ target \notin Reached(conns, source)
    BY <2>2, <2>5 DEF set
  <2> QED
    BY <1>3, <1>9, <2>6 DEF path
<1>10. CASE last.queue # <<>>
  <2> DEFINE S == Seq(all)
  <2>1. last.queue \in Seq(S)
    BY <1>6
  <2> HIDE DEF S
  <2>2. 1 \in DOMAIN last.queue /\ Head(last.queue) = last.queue[1]
    BY <1>10, <2>1
  <2>3. path = last.queue[1]
    BY <1>3, <1>10, <2>2
  <2>4. IsRoute(conns, source, path)
    BY <1>5, <2>2, <2>3 DEF IsTurn
  <2>5. Last(path) = target
    BY <1>8, <1>10, <2>2, <2>3 DEF IsDone
  <2>6. ASSUME NEW p, IsRoute(conns, source, p), Last(p) = target
        PROVE  Len(path) =< Len(p)
    <3>1. ~ IsPassed(conns, target, last, Last(p))
      BY <2>6 DEF IsPassed
    <3>2. ~ (Len(p) < Len(path))
      BY <1>5, <1>10, <2>3, <2>6, <3>1 DEF IsLevelled
    <3>3. Len(p) \in Nat /\ Len(path) \in Nat
      BY <2>4, <2>6, ShorterRoute
    <3> QED
      BY <3>2, <3>3
  <2> QED
    BY <2>4, <2>5, <2>6 DEF path
<1> QED
  BY <1>9, <1>10, Zenon DEF path

-----------------------------------------------------------------------------
(* The services of a graph that is loaded.                                  *)

Connections == [source : ToSet(Names), target : ToSet(Names), type : ToSet(Names)]
Labels(g) == {s.label : s \in ServicesOf(g)}

LEMMA SoundConnections ==
  ASSUME NEW g, SoundGraph(g)
  PROVE  /\ CrossServiceConnections(g) \in SUBSET Connections
         /\ Sortable(CrossServiceConnections(g))
         /\ IsFiniteSet(CrossServiceConnections(g))
         /\ \A c \in CrossServiceConnections(g) : c.source \in Labels(g) /\ c.target \in Labels(g)
<1> DEFINE conns == CrossServiceConnections(g)
           N == ToSet(Names)
<1>1. \A n \in ServicesOf(g) : n.label \in N /\ n.label \in Labels(g)
  BY DEF SoundGraph, ServicesOf, Labels
<1>2. \A e \in g.edges : e.kind \in N
  BY DEF SoundGraph
<1>3. ASSUME NEW c \in conns
      PROVE  \E s, t \in ServicesOf(g), e \in g.edges :
               c = [source |-> s.label, target |-> t.label, type |-> e.kind]
  BY DEF CrossServiceConnections
<1> HIDE DEF conns, N
<1>4. conns \in SUBSET Connections
  BY <1>1, <1>2, <1>3 DEF Connections, N
<1>5. \A c \in conns : /\ c.source \in Labels(g) /\ c.target \in Labels(g)
                       /\ c.source \in N /\ c.target \in N
  BY <1>1, <1>3
<1>6. IsFiniteSet(conns)
  <2>1. IsFiniteSet(N)
    BY NamesFinite DEF N
  <2>2. IsFiniteSet(N \X N) /\ IsFiniteSet((N \X N) \X N)
    BY <2>1, FS_Product
  <2> DEFINE A == (N \X N) \X N
             f == [a \in A |-> [source |-> a[1][1], target |-> a[1][2], type |-> a[2]]]
  <2>3. f \in Surjection(A, Connections)
    <3>1. f \in [A -> Connections]
      BY DEF Connections, N
    <3>2. ASSUME NEW c \in Connections PROVE \E a \in A : f[a] = c
      <4>1. <<<<c.source, c.target>>, c.type>> \in A
        BY DEF Connections, N
      <4>2. f[<<<<c.source, c.target>>, c.type>>] = c
        BY <4>1 DEF Connections
      <4> QED
        BY <4>1, <4>2
    <3> QED
      BY <3>1, <3>2 DEF Surjection
  <2> HIDE DEF f
  <2>4. IsFiniteSet(Connections)
    BY <2>2, <2>3, FS_Surjection
  <2> QED
    BY <1>4, <2>4, FS_Subset
<1> QED
  BY <1>4, <1>5, <1>6 DEF conns, Sortable, N

(* The rows of services are their labels, in order.                         *)
LEMMA ServicesListed ==
  ASSUME NEW g, SoundGraph(g)
  PROVE  /\ \E R : ServiceSummaries(g) \in Seq(R)
         /\ {row.name : row \in ToSet(ServiceSummaries(g))} = Labels(g)
<1> DEFINE S == ServicesOf(g)
           P == {q \in S \X S : \/ Precedes(q[1].label, q[2].label)
                                \/ q[1].label = q[2].label /\ q[1].id < q[2].id}
           services == ByRank(S, Below(S, P))
           rows == ServiceSummaries(g)
<1>1. /\ \A n \in S : n.id \in Nat /\ n.label \in ToSet(Names)
      /\ \A m, n \in S : m.id = n.id => m = n
  BY DEF SoundGraph, ServicesOf
<1>2. IsFiniteSet(S)
  BY FS_Subset DEF SoundGraph, ServicesOf
<1>3. \A a, b \in S : <<a, b>> \in P <=> \/ Precedes(a.label, b.label)
                                         \/ a.label = b.label /\ a.id < b.id
  OBVIOUS
<1>4. IsOrder(S, P)
  <2> HIDE DEF P, S
  <2>1. \A x \in S : <<x, x>> \notin P
    BY <1>1, <1>3, NamesOrdered
  <2>2. ASSUME NEW x \in S, NEW y \in S, NEW z \in S, <<x, y>> \in P, <<y, z>> \in P
        PROVE  <<x, z>> \in P
    BY <1>1, <1>3, <2>2, NamesOrdered
  <2>3. ASSUME NEW x \in S, NEW y \in S, x # y PROVE <<x, y>> \in P \/ <<y, x>> \in P
    <3>1. CASE x.label # y.label
      BY <1>1, <1>3, <3>1, NamesOrdered
    <3>2. CASE x.label = y.label
      <4>1. x.id # y.id /\ x.id \in Nat /\ y.id \in Nat
        BY <1>1, <2>3
      <4>2. x.id < y.id \/ y.id < x.id
        BY <4>1
      <4> QED
        BY <1>3, <3>2, <4>2
    <3> QED
      BY <3>1, <3>2
  <2> QED
    BY <2>1, <2>2, <2>3 DEF IsOrder
<1>5. [x \in S |-> Cardinality({y \in S : Precedes(y.label, x.label)
                                          \/ (y.label = x.label /\ y.id < x.id)})] = Below(S, P)
  <2>1. \A x \in S : {y \in S : Precedes(y.label, x.label)
                                 \/ (y.label = x.label /\ y.id < x.id)}
                       = {y \in S : <<y, x>> \in P}
    BY <1>3
  <2> HIDE DEF P, S
  <2> QED
    BY <2>1 DEF Below
<1>6. IsListing(services, S)
  <2> HIDE DEF P, S
  <2> QED
    BY <1>2, <1>4, OrderLists
<1> HIDE DEF services
<1>7. /\ DOMAIN services = 1 .. Len(services) /\ Len(services) \in Nat
      /\ {services[i] : i \in DOMAIN services} = S
  BY <1>6 DEF IsListing, ToSet
<1>8. rows = [i \in DOMAIN services |->
        [name |-> services[i].label,
         build_tool |-> Prop(services[i], "build_tool", "unknown"),
         endpoint_count |-> Prop(services[i], "endpoint_count", 0),
         entity_count |-> Prop(services[i], "entity_count", 0)]]
  <2>1. services = ByRank(S, [x \in S |-> Cardinality({y \in S :
                      Precedes(y.label, x.label) \/ (y.label = x.label /\ y.id < x.id)})])
    BY <1>5 DEF services
  <2> HIDE DEF P
  <2> QED
    BY <2>1 DEF ServiceSummaries, Ordered
<1> HIDE DEF rows, P, S
<1>9. DOMAIN rows = 1 .. Len(services) /\ \A i \in DOMAIN services :
        rows[i].name = services[i].label
  BY <1>7, <1>8
<1> DEFINE R == {rows[i] : i \in DOMAIN rows}
<1>10. rows \in [1 .. Len(services) -> R]
  BY <1>7, <1>8
<1>11. rows \in Seq(R)
  <2> HIDE DEF R
  <2> QED
    BY <1>7, <1>10
<1>12. {row.name : row \in ToSet(rows)} = {services[i].label : i \in DOMAIN services}
  BY <1>7, <1>9 DEF ToSet
<1>13. {services[i].label : i \in DOMAIN services} = Labels(g)
  BY <1>7 DEF Labels, S
<1> QED
  BY <1>11, <1>12, <1>13 DEF rows

(* What nobody depends on.                                                  *)
LEMMA DeadServicesAre ==
  ASSUME NEW g, SoundGraph(g)
  PROVE  {row.name : row \in ToSet(FindDeadServices(g))}
           = Labels(g) \ {c.target : c \in CrossServiceConnections(g)}
<1> DEFINE conns == CrossServiceConnections(g)
           rows == ServiceSummaries(g)
           I == {i \in DOMAIN rows : To(conns, rows[i].name) = {}}
           dead == FindDeadServices(g)
<1>1. PICK R : rows \in Seq(R)
  BY ServicesListed
<1>2. {row.name : row \in ToSet(rows)} = Labels(g)
  BY ServicesListed
<1>3. dead = Picked(rows, IndicesInOrder(I))
  BY Zenon DEF FindDeadServices, Kept, Ordered, Picked, IndicesInOrder
<1>4. \A name : To(conns, name) = {} <=> name \notin {c.target : c \in conns}
  BY DEF To
<1> HIDE DEF rows, dead, conns
<1>5. ToSet(dead) = {rows[i] : i \in I}
  <2>1. I \in SUBSET DOMAIN rows
    OBVIOUS
  <2> HIDE DEF I
  <2> QED
    BY <1>1, <1>3, <2>1, PickedRows
<1>6. {row.name : row \in ToSet(rows)} = {rows[i].name : i \in DOMAIN rows}
  BY DEF ToSet
<1>7. {row.name : row \in ToSet(dead)} = {rows[i].name : i \in I}
  BY <1>5
<1> QED
  BY <1>2, <1>4, <1>6, <1>7 DEF dead, conns

(* Whatever has a connection.                                               *)
Busy(g) ==
  LET conns == CrossServiceConnections(g)
      rows == ServiceSummaries(g)
      row(name) == [service |-> name,
                    connections_in |-> Cardinality(To(conns, name)),
                    connections_out |-> Cardinality(From(conns, name))]
  IN Picked([i \in DOMAIN rows |-> row(rows[i].name)],
            IndicesInOrder({i \in DOMAIN rows :
              row(rows[i].name).connections_in + row(rows[i].name).connections_out # 0}))

LEMMA BusyRows ==
  ASSUME NEW g, SoundGraph(g)
  PROVE  /\ Busy(g) \in Seq([service : ToSet(Names), connections_in : Nat, connections_out : Nat])
         /\ {row.service : row \in ToSet(Busy(g))}
              = {c.source : c \in CrossServiceConnections(g)}
                  \cup {c.target : c \in CrossServiceConnections(g)}
<1> DEFINE conns == CrossServiceConnections(g)
           rows == ServiceSummaries(g)
           row(name) == [service |-> name,
                         connections_in |-> Cardinality(To(conns, name)),
                         connections_out |-> Cardinality(From(conns, name))]
           all == [i \in DOMAIN rows |-> row(rows[i].name)]
           I == {i \in DOMAIN rows :
                   row(rows[i].name).connections_in + row(rows[i].name).connections_out # 0}
           R == [service : ToSet(Names), connections_in : Nat, connections_out : Nat]
           busy == Busy(g)
<1>1. PICK S : rows \in Seq(S)
  BY ServicesListed
<1>2. {r.name : r \in ToSet(rows)} = Labels(g)
  BY ServicesListed
<1>3. busy = Picked(all, IndicesInOrder(I))
  BY Zenon DEF Busy
<1>4. /\ IsFiniteSet(conns)
      /\ \A c \in conns : c.source \in Labels(g) /\ c.target \in Labels(g)
  BY SoundConnections
<1>5. Labels(g) \subseteq ToSet(Names)
  BY DEF Labels, SoundGraph, ServicesOf
<1> HIDE DEF rows, conns, busy
<1>6. {rows[i].name : i \in DOMAIN rows} = Labels(g)
  BY <1>2 DEF ToSet
<1>7. ASSUME NEW name
      PROVE  /\ Cardinality(To(conns, name)) \in Nat /\ Cardinality(From(conns, name)) \in Nat
             /\ Cardinality(To(conns, name)) + Cardinality(From(conns, name)) # 0
                  <=> name \in {c.source : c \in conns} \cup {c.target : c \in conns}
  <2>1. To(conns, name) \in SUBSET conns /\ From(conns, name) \in SUBSET conns
    BY DEF To, From
  <2>2. IsFiniteSet(To(conns, name)) /\ IsFiniteSet(From(conns, name))
    BY <1>4, <2>1, FS_Subset
  <2>3. Cardinality(To(conns, name)) \in Nat /\ Cardinality(From(conns, name)) \in Nat
    BY <2>2, FS_CardinalityType
  <2>4. /\ Cardinality(To(conns, name)) = 0 <=> To(conns, name) = {}
        /\ Cardinality(From(conns, name)) = 0 <=> From(conns, name) = {}
    BY <2>2, FS_EmptySet
  <2>5. /\ To(conns, name) = {} <=> name \notin {c.target : c \in conns}
        /\ From(conns, name) = {} <=> name \notin {c.source : c \in conns}
    BY DEF To, From
  <2> QED
    BY <2>3, <2>4, <2>5
<1>8. \A i \in DOMAIN rows : row(rows[i].name) \in R
  BY <1>5, <1>6, <1>7
<1>9. I = {i \in DOMAIN rows :
             rows[i].name \in {c.source : c \in conns} \cup {c.target : c \in conns}}
  BY <1>7
<1> HIDE DEF R
<1>10. all \in Seq(R) /\ DOMAIN all = DOMAIN rows
  <2>1. DOMAIN rows = 1 .. Len(rows) /\ Len(rows) \in Nat
    BY <1>1
  <2>2. all \in [1 .. Len(rows) -> R]
    BY <1>8, <2>1
  <2> HIDE DEF all
  <2> QED
    BY <2>1, <2>2
<1>11. \A i \in DOMAIN rows : all[i].service = rows[i].name
  OBVIOUS
<1>12. I \in SUBSET DOMAIN all
  BY <1>9, <1>10
<1> HIDE DEF all, I
<1>13. busy \in Seq(R) /\ ToSet(busy) = {all[i] : i \in I}
  BY <1>3, <1>10, <1>12, PickedRows
<1>14. {r.service : r \in ToSet(busy)} = {rows[i].name : i \in I}
  <2>1. {r.service : r \in ToSet(busy)} = {all[i].service : i \in I}
    BY <1>13
  <2> QED
    BY <1>10, <1>11, <1>12, <2>1
<1>15. {rows[i].name : i \in I} = {c.source : c \in conns} \cup {c.target : c \in conns}
  BY <1>4, <1>6, <1>9
<1> QED
  BY <1>13, <1>14, <1>15 DEF R, busy, conns

(* The bottlenecks are sorted by their connections: as rows, the same.      *)
MostConnected(busy) ==
  LET total(r) == r.connections_in + r.connections_out
      before(i, j) ==
        \/ total(busy[i]) > total(busy[j])
        \/ /\ total(busy[i]) = total(busy[j])
           /\ \/ Precedes(busy[i].service, busy[j].service)
              \/ busy[i].service = busy[j].service /\ i < j
      order == ByRank(DOMAIN busy,
                      [i \in DOMAIN busy |-> Cardinality({j \in DOMAIN busy : before(j, i)})])
  IN [k \in DOMAIN order |-> busy[order[k]]]

LEMMA BottlenecksAre ==
  ASSUME NEW g, SoundGraph(g)
  PROVE  {row.service : row \in ToSet(FindBottlenecks(g))}
           = {c.source : c \in CrossServiceConnections(g)}
               \cup {c.target : c \in CrossServiceConnections(g)}
<1> DEFINE busy == Busy(g)
           R == [service : ToSet(Names), connections_in : Nat, connections_out : Nat]
           total(r) == r.connections_in + r.connections_out
           before(i, j) ==
             \/ total(busy[i]) > total(busy[j])
             \/ /\ total(busy[i]) = total(busy[j])
                /\ \/ Precedes(busy[i].service, busy[j].service)
                   \/ busy[i].service = busy[j].service /\ i < j
           D == DOMAIN busy
           P == {q \in D \X D : before(q[1], q[2])}
           order == ByRank(D, Below(D, P))
<1>1. /\ busy \in Seq(R)
      /\ {row.service : row \in ToSet(busy)}
           = {c.source : c \in CrossServiceConnections(g)}
               \cup {c.target : c \in CrossServiceConnections(g)}
  BY BusyRows
<1>2. FindBottlenecks(g) =
        [k \in DOMAIN ByRank(D, [i \in D |-> Cardinality({j \in D : before(j, i)})]) |->
           busy[ByRank(D, [i \in D |-> Cardinality({j \in D : before(j, i)})])[k]]]
  <2> DEFINE conns == CrossServiceConnections(g)
             rows == ServiceSummaries(g)
             row(name) == [service |-> name,
                           connections_in |-> Cardinality(To(conns, name)),
                           connections_out |-> Cardinality(From(conns, name))]
             all == [i \in DOMAIN rows |-> row(rows[i].name)]
             kept == [k \in DOMAIN IndicesInOrder({i \in DOMAIN all : total(all[i]) # 0}) |->
                        all[IndicesInOrder({i \in DOMAIN all : total(all[i]) # 0})[k]]]
  <2>1. {i \in DOMAIN all : total(all[i]) # 0}
          = {i \in DOMAIN rows : row(rows[i].name).connections_in
                                  + row(rows[i].name).connections_out # 0}
    OBVIOUS
  <2>2. busy = kept
    <3> HIDE DEF row, total
    <3>1. busy = Picked(all, IndicesInOrder({i \in DOMAIN rows :
                   row(rows[i].name).connections_in + row(rows[i].name).connections_out # 0}))
      BY Zenon DEF Busy, row
    <3> HIDE DEF all
    <3> QED
      BY <2>1, <3>1 DEF Picked
  <2>3. FindBottlenecks(g) = MostConnected(kept)
    BY Zenon DEF FindBottlenecks, MostConnected, Kept, Ordered, IndicesInOrder
  <2> HIDE DEF kept, busy
  <2>4. FindBottlenecks(g) = MostConnected(busy)
    BY <2>2, <2>3
  <2> QED
    BY <2>4, Zenon DEF MostConnected
<1> HIDE DEF busy
<1>3. /\ D = 1 .. Len(busy) /\ Len(busy) \in Nat
      /\ \A i \in D : /\ i \in Nat /\ busy[i].service \in ToSet(Names)
                      /\ total(busy[i]) \in Nat
  <2>1. /\ D = 1 .. Len(busy) /\ Len(busy) \in Nat
        /\ \A i \in D : i \in Nat /\ busy[i] \in R
    <3> HIDE DEF R
    <3> QED
      BY <1>1
  <2> HIDE DEF D
  <2> QED
    BY <2>1
<1>4. IsFiniteSet(D)
  <2>1. 1 \in Int /\ Len(busy) \in Int
    BY <1>3
  <2> QED
    BY <1>3, <2>1, FS_Interval
<1>5. \A i, j \in D : <<i, j>> \in P <=> before(i, j)
  OBVIOUS
<1>6. IsOrder(D, P)
  <2> HIDE DEF P, D, total
  <2>1. \A i \in D : <<i, i>> \notin P
    BY <1>3, <1>5, NamesOrdered
  <2>2. ASSUME NEW x \in D, NEW y \in D, NEW z \in D, <<x, y>> \in P, <<y, z>> \in P
        PROVE  <<x, z>> \in P
    <3>1. /\ total(busy[x]) \in Nat /\ total(busy[y]) \in Nat /\ total(busy[z]) \in Nat
          /\ x \in Nat /\ y \in Nat /\ z \in Nat
          /\ busy[x].service \in ToSet(Names) /\ busy[y].service \in ToSet(Names)
          /\ busy[z].service \in ToSet(Names)
      BY <1>3
    <3>2. before(x, y) /\ before(y, z)
      BY <1>5, <2>2
    <3>3. CASE total(busy[x]) > total(busy[y]) \/ total(busy[y]) > total(busy[z])
      BY <1>5, <3>1, <3>2, <3>3
    <3>4. CASE total(busy[x]) = total(busy[y]) /\ total(busy[y]) = total(busy[z])
      <4>1. \/ Precedes(busy[x].service, busy[z].service)
            \/ busy[x].service = busy[z].service /\ x < z
        BY <3>1, <3>2, <3>4, NamesOrdered
      <4> QED
        BY <1>5, <3>4, <4>1
    <3> QED
      BY <3>1, <3>2, <3>3, <3>4
  <2>3. ASSUME NEW x \in D, NEW y \in D, x # y PROVE <<x, y>> \in P \/ <<y, x>> \in P
    <3>1. /\ total(busy[x]) \in Nat /\ total(busy[y]) \in Nat /\ x \in Nat /\ y \in Nat
          /\ busy[x].service \in ToSet(Names) /\ busy[y].service \in ToSet(Names)
      BY <1>3
    <3>2. \/ Precedes(busy[x].service, busy[y].service)
          \/ Precedes(busy[y].service, busy[x].service)
          \/ busy[x].service = busy[y].service /\ (x < y \/ y < x)
      BY <2>3, <3>1, NamesOrdered
    <3>3. total(busy[x]) > total(busy[y]) \/ total(busy[y]) > total(busy[x])
            \/ total(busy[x]) = total(busy[y])
      BY <3>1
    <3>4. before(x, y) \/ before(y, x)
      BY <3>2, <3>3
    <3> QED
      BY <1>5, <3>4
  <2> QED
    BY <2>1, <2>2, <2>3 DEF IsOrder
<1>7. [i \in D |-> Cardinality({j \in D : before(j, i)})] = Below(D, P)
  <2>1. \A i \in D : {j \in D : before(j, i)} = {j \in D : <<j, i>> \in P}
    BY <1>5
  <2> HIDE DEF P, D, before
  <2> QED
    BY <2>1 DEF Below
<1>8. IsListing(order, D)
  <2> HIDE DEF P, D
  <2> QED
    BY <1>4, <1>6, OrderLists
<1>9. FindBottlenecks(g) = [k \in DOMAIN order |-> busy[order[k]]]
  <2> HIDE DEF before, P, D
  <2> QED
    BY <1>2, <1>7
<1> HIDE DEF order, P, before
<1>10. {order[k] : k \in DOMAIN order} = D
  BY <1>8 DEF IsListing, ToSet
<1>11. ToSet(FindBottlenecks(g)) = {busy[order[k]] : k \in DOMAIN order}
  BY <1>9 DEF ToSet
<1>12. ToSet(FindBottlenecks(g)) = ToSet(busy)
  BY <1>10, <1>11 DEF ToSet
<1> QED
  BY <1>1, <1>12

(* Dependencies and dependents.                                             *)
LEMMA DependenciesMirror ==
  ASSUME NEW g, SoundGraph(g), NEW a, NEW b
  PROVE  b \in ToSet(ServiceDependencies(g, a).depends_on)
           <=> a \in ToSet(ServiceDependents(g, b).depended_by)
<1> DEFINE conns == CrossServiceConnections(g)
           targets == {c.target : c \in From(conns, a)}
           sources == {c.source : c \in To(conns, b)}
<1>1. targets \in SUBSET ToSet(Names) /\ sources \in SUBSET ToSet(Names)
  BY SoundConnections DEF Sortable, From, To
<1>2. /\ ServiceDependencies(g, a).depends_on = ByName(targets)
      /\ ServiceDependents(g, b).depended_by = ByName(sources)
  BY DEF ServiceDependencies, ServiceDependents
<1>3. b \in targets <=> a \in sources
  BY DEF From, To
<1> HIDE DEF targets, sources
<1>4. ToSet(ByName(targets)) = targets /\ ToSet(ByName(sources)) = sources
  BY <1>1, ByNameLists DEF IsListing
<1> QED
  BY <1>2, <1>3, <1>4

(* FindPath returns a path when there is one, and only then; it is a        *)
(* shortest one, and its hops are connections of the kind they are said to  *)
(* be.  For any graph and any two names.                                    *)
THEOREM PathsFollowConnections ==
  ASSUME NEW g, SoundGraph(g), NEW source, NEW target
  PROVE  /\ FindPath(g, source, target).found <=>
              \/ source = target
              \/ target \in Reached(CrossServiceConnections(g), source)
         /\ \A hop \in ToSet(FindPath(g, source, target).hops) :
              [source |-> hop.from, target |-> hop.to, type |-> hop.type]
                \in CrossServiceConnections(g)
         /\ FindPath(g, source, target).found =>
              \A p : IsRoute(CrossServiceConnections(g), source, p) /\ Last(p) = target =>
                Len(FindPath(g, source, target).hops) =< Len(p) - 1
<1> DEFINE conns == CrossServiceConnections(g)
           path == SearchPath(conns, source, target)
           kinds(a, b) == {c.type : c \in {d \in conns : d.source = a /\ d.target = b}}
           hops == [i \in 1 .. Len(path) - 1 |->
                      [from |-> path[i], to |-> path[i + 1],
                       type |-> ByName(kinds(path[i], path[i + 1]))[1]]]
           R == NamesIn(conns) \cup {source}
<1>1. conns \in SUBSET Connections /\ Sortable(conns)
  BY SoundConnections
<1>2. /\ FindPath(g, source, target).found <=> path # <<>>
      /\ FindPath(g, source, target).hops = hops
  <2> DEFINE r == [found |-> path # <<>>, hops |-> hops]
  <2>1. FindPath(g, source, target) = r
    BY Zenon DEF FindPath
  <2> HIDE DEF hops, path
  <2>2. (r.found <=> path # <<>>) /\ r.hops = hops
    OBVIOUS
  <2> QED
    BY <2>1, <2>2, Zenon
<1> HIDE DEF conns
<1>3. \/ path = <<>> /\ source # target /\ target \notin Reached(conns, source)
      \/ /\ path # <<>> /\ IsRoute(conns, source, path) /\ Last(path) = target
         /\ \A p : IsRoute(conns, source, p) /\ Last(p) = target => Len(path) =< Len(p)
  BY <1>1, SearchedRoute DEF IsRoute
<1> HIDE DEF path
<1>4. CASE path = <<>>
  <2>1. ToSet(hops) = {}
    <3>1. Len(path) = 0
      BY <1>4
    <3>2. 1 .. Len(path) - 1 = {}
      BY <3>1
    <3> QED
      BY <3>2 DEF ToSet
  <2> HIDE DEF hops
  <2>2. ~ FindPath(g, source, target).found /\ ToSet(FindPath(g, source, target).hops) = {}
    BY <1>2, <1>4, <2>1
  <2>3. source # target /\ target \notin Reached(conns, source)
    BY <1>3, <1>4
  <2> QED
    BY <2>2, <2>3 DEF conns
<1>5. CASE path # <<>>
  <2>1. /\ path \in Seq(R) /\ path[1] = source /\ IsPath(conns, path)
        /\ path[Len(path)] = target
    BY <1>3, <1>5 DEF IsRoute, Last
  <2>2. Len(path) \in Nat /\ Len(path) # 0
    <3> HIDE DEF R
    <3> QED
      BY <1>5, <2>1
  <2>3. ASSUME source # target PROVE target \in Reached(conns, source)
    <3> HIDE DEF R
    <3>1. 1 \in 1 .. Len(path) /\ Len(path) \in 2 .. Len(path)
      BY <2>1, <2>2, <2>3
    <3>2. \A j \in 1 + 1 .. Len(path) : path[j] \in Reached(conns, path[1])
      BY <2>1, <3>1, PathReaches
    <3> QED
      BY <2>1, <3>1, <3>2
  <2>4. ASSUME NEW a, NEW b \in Adjacent(conns, a)
        PROVE  [source |-> a, target |-> b, type |-> ByName(kinds(a, b))[1]] \in conns
    <3>1. PICK c \in conns : c.source = a /\ c.target = b
      BY DEF Adjacent, From
    <3>2. c.type \in kinds(a, b) /\ kinds(a, b) \in SUBSET ToSet(Names)
      BY <1>1, <3>1 DEF Connections
    <3>3. IsListing(ByName(kinds(a, b)), kinds(a, b))
      <4> DEFINE K == kinds(a, b)
      <4>1. K \in SUBSET ToSet(Names)
        BY <3>2
      <4> HIDE DEF K
      <4>2. IsListing(ByName(K), K)
        BY <4>1, ByNameLists
      <4> QED
        BY <4>2 DEF K
    <3>4. ByName(kinds(a, b))[1] \in kinds(a, b)
      <4> DEFINE K == kinds(a, b)
                 rows == ByName(K)
      <4>1. rows \in Seq(K) /\ ToSet(rows) = K /\ c.type \in K
        BY <3>2, <3>3 DEF IsListing
      <4> HIDE DEF rows, K
      <4>2. \E i \in DOMAIN rows : rows[i] = c.type
        BY <4>1 DEF ToSet
      <4>3. 1 \in DOMAIN rows
        BY <4>1, <4>2
      <4>4. rows[1] \in K
        BY <4>1, <4>3
      <4> QED
        BY <4>4 DEF rows, K
    <3>5. PICK d \in conns : d.source = a /\ d.target = b /\ d.type = ByName(kinds(a, b))[1]
      BY <3>4
    <3>6. d = [source |-> a, target |-> b, type |-> ByName(kinds(a, b))[1]]
      BY <1>1, <3>5 DEF Connections
    <3> QED
      BY <3>6
  <2>5. ASSUME NEW hop \in ToSet(hops)
        PROVE  [source |-> hop.from, target |-> hop.to, type |-> hop.type] \in conns
    <3>1. PICK i \in 1 .. Len(path) - 1 :
            hop = [from |-> path[i], to |-> path[i + 1],
                   type |-> ByName(kinds(path[i], path[i + 1]))[1]]
      <4> HIDE DEF kinds
      <4> QED
        BY DEF ToSet
    <3> HIDE DEF kinds
    <3>2. path[i + 1] \in Adjacent(conns, path[i])
      BY <2>1 DEF IsPath
    <3> QED
      BY <2>4, <3>1, <3>2
  <2>6. ASSUME NEW p, IsRoute(conns, source, p), Last(p) = target
        PROVE  Len(hops) =< Len(p) - 1
    <3>1. Len(hops) = Len(path) - 1
      BY <2>2
    <3>2. Len(path) =< Len(p)
      BY <1>3, <1>5, <2>6
    <3>3. Len(p) \in Nat
      BY <2>6, ShorterRoute
    <3> HIDE DEF hops
    <3> QED
      BY <2>2, <3>1, <3>2, <3>3
  <2> HIDE DEF hops
  <2> QED
    BY <1>2, <1>5, <2>3, <2>5, <2>6 DEF conns
<1> QED
  BY <1>4, <1>5

=============================================================================
