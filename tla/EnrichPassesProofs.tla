-------------------------- MODULE EnrichPassesProofs --------------------------
(***************************************************************************)
(* Theorems about the passes of enrich, for every sound snapshot and disk,  *)
(* any number of files and any size of the pool:                            *)
(*   - the extractors' semaphore bounds the syntax trees alive at a time;   *)
(*   - every pass leaves the nodes one per ID and rewrites nothing that     *)
(*     identifies one, from which the properties of the linkers, the        *)
(*     lexical pass, the extractors and the service detector follow.        *)
(***************************************************************************)
EXTENDS EnrichPasses, InductionLemmas, FiniteSetTheorems, TLAPS

\* No more goroutines are between the acquisition of the semaphore and its
\* release than it has room for.  PoolBound counts fewer steps, but goroutines
\* move from the others to those without asking the semaphore again.
PoolInv == IsFiniteSet(InPool) /\ Cardinality(InPool) =< Cap

-----------------------------------------------------------------------------
\* A step by which nobody enters the pool keeps the bound.
LEMMA NobodyEnters ==
  ASSUME PoolInv, InPool' \subseteq InPool
  PROVE  PoolInv'
<1>1. /\ IsFiniteSet(InPool') /\ Cardinality(InPool') =< Cardinality(InPool)
  BY FS_Subset DEF PoolInv
<1>2. Cardinality(InPool) \in Nat /\ Cardinality(InPool') \in Nat
  BY <1>1, FS_CardinalityType DEF PoolInv
<1>3. QED
  BY <1>1, <1>2, CapAssumption DEF PoolInv

\* A goroutine only moves on, and leaves the pool in the end.
LEMMA GoroutineKeeps ==
  ASSUME PoolInv, NEW t \in DOMAIN step, Goroutine(t)
  PROVE  PoolInv'
<1>1. \E to : step[t] \notin {"unborn", "gone"} /\ step' = [step EXCEPT ![t] = to]
  BY DEF Goroutine, ReadFile, ParseFile, ExtractTree, StampResults, CloseTree,
         Release, Go
<1>2. InPool' \subseteq InPool
  BY <1>1 DEF InPool
<1>3. QED
  BY <1>2, NobodyEnters

\* Spawn adds one, and only while there is room.
LEMMA SpawnKeeps ==
  ASSUME PoolInv, Spawn
  PROVE  PoolInv'
<1> DEFINE more == InPool \cup {spawned + 1}
<1>1. InPool' \subseteq more
  BY DEF Spawn, InPool
<1>2. IsFiniteSet(more) /\ Cardinality(more) =< Cardinality(InPool) + 1
  <2>1. IsFiniteSet(InPool) /\ Cardinality(InPool) \in Nat
    BY FS_CardinalityType DEF PoolInv
  <2>2. /\ IsFiniteSet(more)
        /\ Cardinality(more) = IF spawned + 1 \in InPool THEN Cardinality(InPool)
                               ELSE Cardinality(InPool) + 1
    BY <2>1, FS_AddElement
  <2>3. QED
    BY <2>1, <2>2
<1>3. IsFiniteSet(InPool') /\ Cardinality(InPool') =< Cardinality(more)
  BY <1>1, <1>2, FS_Subset
<1>4. /\ Cardinality(InPool) \in Nat /\ Cardinality(InPool') \in Nat
      /\ Cardinality(more) \in Nat
  BY <1>2, <1>3, FS_CardinalityType DEF PoolInv
<1>5. Cardinality(InPool) < Cap
  BY DEF Spawn
<1> HIDE DEF more
<1>6. QED
  BY <1>2, <1>3, <1>4, <1>5, CapAssumption DEF PoolInv

\* The other passes do not touch the pool, and GroupFiles starts an empty one.
LEMMA MainKeeps ==
  ASSUME PoolInv, Main
  PROVE  PoolInv'
<1>1. CASE UNCHANGED step
  BY <1>1, NobodyEnters DEF InPool
<1>2. CASE GroupFiles
  <2>1. \A t \in DOMAIN step' : step'[t] = "unborn"
    BY <1>2 DEF GroupFiles
  <2>2. InPool' \subseteq InPool
    BY <2>1 DEF InPool
  <2>3. QED
    BY <2>2, NobodyEnters
<1>3. CASE Spawn
  BY <1>3, SpawnKeeps
<1>4. UNCHANGED step \/ GroupFiles \/ Spawn
  BY DEF Main, LinkTopics, LinkEntities, LinkModules, Classify, EnrichLexical,
         AppendCalls, DetectServices, pool
<1>5. QED
  BY <1>1, <1>2, <1>3, <1>4

-----------------------------------------------------------------------------
\* At no time are more than Cap syntax trees alive (extractor.Enricher.Enrich).
THEOREM PoolIsBounded == Spec => []PoolBound
<1>1. Init => PoolInv
  <2> SUFFICES ASSUME Init PROVE PoolInv
    OBVIOUS
  <2>1. InPool = {}
    BY DEF Init, InPool
  <2>2. QED
    BY <2>1, FS_EmptySet, CapAssumption DEF PoolInv
<1>2. PoolInv /\ [Next]_vars => PoolInv'
  <2> SUFFICES ASSUME PoolInv, [Next]_vars PROVE PoolInv'
    OBVIOUS
  <2>1. CASE UNCHANGED vars
    BY <2>1, NobodyEnters DEF vars, InPool
  <2>2. CASE Main
    BY <2>2, MainKeeps
  <2>3. ASSUME NEW t \in DOMAIN step, Goroutine(t) PROVE PoolInv'
    BY <2>3, GoroutineKeeps
  <2>4. QED
    BY <2>1, <2>2, <2>3 DEF Next
<1>3. PoolInv => PoolBound
  <2> SUFFICES ASSUME PoolInv PROVE PoolBound
    OBVIOUS
  <2> DEFINE alive == {t \in DOMAIN step : step[t] \in {"extract", "stamp", "close"}}
  <2>1. alive \subseteq InPool
    BY DEF InPool
  <2>2. IsFiniteSet(alive) /\ Cardinality(alive) =< Cardinality(InPool)
    BY <2>1, FS_Subset DEF PoolInv
  <2>3. Cardinality(alive) \in Nat /\ Cardinality(InPool) \in Nat
    BY <2>2, FS_CardinalityType DEF PoolInv
  <2>4. Cardinality(alive) =< Cap
    BY <2>2, <2>3, CapAssumption DEF PoolInv
  <2>5. QED
    BY <2>4 DEF PoolBound
<1>4. QED
  BY <1>1, <1>2, <1>3, PTL DEF Spec

-----------------------------------------------------------------------------
(* Sequences made of sets *)

\* A finite set as a sequence: every element once.
LEMMA SeqOfSet ==
  ASSUME NEW S, IsFiniteSet(S)
  PROVE  /\ SetToSeq(S) \in Seq(S) /\ Len(SetToSeq(S)) = Cardinality(S)
         /\ DOMAIN SetToSeq(S) = 1 .. Cardinality(S)
         /\ Range(SetToSeq(S)) = S /\ IsInjective(SetToSeq(S))
<1> DEFINE n == Cardinality(S)
<1>1. n \in Nat /\ ExistsBijection(1 .. n, S)
  BY FS_CardinalityType
<1>2. PICK f \in [1 .. n -> S] : IsInjective(f)
  BY <1>1, Zenon DEF ExistsBijection, Bijection, Injection, IsInjective
<1>3. SetToSeq(S) \in [1 .. n -> S] /\ IsInjective(SetToSeq(S))
  BY <1>2, Zenon DEF SetToSeq
<1> DEFINE s == SetToSeq(S)
<1> HIDE DEF n, s
<1>4. s \in Injection(1 .. n, S)
  BY <1>3 DEF Injection, IsInjective, s
<1>5. Cardinality(1 .. n) = n
  BY <1>1, FS_CountingElements, FS_Interval
<1>6. s \in Surjection(1 .. n, S)
  BY <1>4, <1>5, FS_Injection DEF n
<1>7. Range(s) = S
  BY <1>3, <1>6 DEF Range, Surjection, s
<1>8. s \in Seq(S) /\ Len(s) = n /\ DOMAIN s = 1 .. n
  BY <1>1, <1>3 DEF s
<1> QED
  BY <1>3, <1>7, <1>8 DEF s, n

\* How many of a set of places come before one of them.
Rank(places, i) == Cardinality({j \in places : j < i})

\* The places of a finite set of numbers in order: each has its rank.
LEMMA OrderedPlaces ==
  ASSUME NEW n \in Nat, NEW places \in SUBSET (1 .. n)
  PROVE  /\ Cardinality(places) \in Nat
         /\ InOrder(places) \in [1 .. Cardinality(places) -> places]
         /\ Range(InOrder(places)) = places
<1> DEFINE c == Cardinality(places)
           rank == [i \in places |-> Rank(places, i) + 1]
<1>0. \A i \in places : i \in Int
  OBVIOUS
<1>1. IsFiniteSet(places) /\ c \in Nat
  <2>1. IsFiniteSet(1 .. n)
    BY FS_Interval
  <2> QED
    BY <2>1, FS_Subset, FS_CardinalityType
<1>2. ASSUME NEW i \in places
      PROVE  Rank(places, i) \in Nat /\ Rank(places, i) < c
  <2> DEFINE below == {j \in places : j < i}
  <2>1. IsFiniteSet(below) /\ Cardinality(below) <= c /\ (c = Cardinality(below) => below = places)
    <3>1. below \in SUBSET places
      OBVIOUS
    <3> HIDE DEF below
    <3> QED
      BY <1>1, <3>1, FS_Subset
  <2>2. i \notin below
    OBVIOUS
  <2>3. Cardinality(below) \in Nat
    BY <2>1, FS_CardinalityType
  <2>4. Rank(places, i) = Cardinality(below)
    BY DEF Rank
  <2> HIDE DEF below, c
  <2> QED
    BY <1>1, <2>1, <2>2, <2>3, <2>4
<1>3. ASSUME NEW i \in places, NEW k \in places, i < k
      PROVE  Rank(places, i) < Rank(places, k)
  <2> DEFINE low == {j \in places : j < i}
             high == {j \in places : j < k}
  <2>0. i \in Int /\ k \in Int
    BY <1>0
  <2>1. low \subseteq high /\ i \in high /\ i \notin low
    <3>1. ASSUME NEW j \in places, j < i PROVE j < k
      BY <1>0, <1>3, <2>0, <3>1
    <3>2. ~ (i < i)
      BY <2>0
    <3> QED
      BY <1>3, <3>1, <3>2
  <2>2. IsFiniteSet(high)
    <3>1. high \in SUBSET places
      OBVIOUS
    <3> HIDE DEF high
    <3> QED
      BY <1>1, <3>1, FS_Subset
  <2>3. Rank(places, i) = Cardinality(low) /\ Rank(places, k) = Cardinality(high)
    BY DEF Rank
  <2> HIDE DEF low, high
  <2>4. IsFiniteSet(low) /\ Cardinality(low) <= Cardinality(high) /\ Cardinality(low) # Cardinality(high)
    BY <2>1, <2>2, FS_Subset
  <2>5. Cardinality(low) \in Nat /\ Cardinality(high) \in Nat
    BY <2>2, <2>4, FS_CardinalityType
  <2> QED
    BY <2>3, <2>4, <2>5
<1>4. rank \in Injection(places, 1 .. c)
  <2>1. rank \in [places -> 1 .. c]
    BY <1>1, <1>2
  <2>2. ASSUME NEW i \in places, NEW k \in places, rank[i] = rank[k] PROVE i = k
    <3>1. Rank(places, i) = Rank(places, k)
      BY <1>2, <2>2
    <3>2. ~ (i < k) /\ ~ (k < i)
      BY <1>2, <1>3, <3>1
    <3> QED
      BY <3>2
  <2> HIDE DEF rank
  <2> QED
    BY <2>1, <2>2, Zenon DEF Injection, IsInjective
<1> HIDE DEF c
<1>5. IsFiniteSet(1 .. c) /\ Cardinality(1 .. c) = c
  BY <1>1, FS_Interval
<1>6. rank \in Surjection(places, 1 .. c)
  <2> HIDE DEF rank
  <2> QED
    BY <1>4, <1>5, FS_Injection DEF c
<1>7. ASSUME NEW k \in 1 .. c
      PROVE  /\ InOrder(places)[k] \in places
             /\ Rank(places, InOrder(places)[k]) = k - 1
  <2>1. PICK i \in places : rank[i] = k
    <3> HIDE DEF rank
    <3> QED
      BY <1>6, Zenon DEF Surjection
  <2>2. Rank(places, i) = k - 1
    BY <1>2, <2>1
  <2>3. InOrder(places)[k] = CHOOSE j \in places : Rank(places, j) = k - 1
    BY DEF InOrder, Rank, c
  <2> QED
    BY <2>2, <2>3
<1>8. InOrder(places) = [k \in 1 .. c |-> InOrder(places)[k]]
  BY DEF InOrder, c
<1>9. ASSUME NEW i \in places PROVE i \in Range(InOrder(places))
  <2>1. rank[i] \in 1 .. c /\ Rank(places, i) = rank[i] - 1
    BY <1>1, <1>2
  <2> DEFINE k == rank[i]
  <2> HIDE DEF rank
  <2>2. InOrder(places)[k] \in places /\ Rank(places, InOrder(places)[k]) = k - 1
    BY <1>7, <2>1
  <2>3. ~ (i < InOrder(places)[k]) /\ ~ (InOrder(places)[k] < i)
        /\ InOrder(places)[k] \in Int /\ i \in Int
    <3> DEFINE o == InOrder(places)[k]
    <3>1. o \in places /\ Rank(places, o) = Rank(places, i)
      BY <2>1, <2>2
    <3> HIDE DEF o
    <3>2. o < i => Rank(places, o) < Rank(places, i)
      BY <1>3, <3>1
    <3>3. i < o => Rank(places, i) < Rank(places, o)
      BY <1>3, <3>1
    <3>4. Rank(places, i) \in Nat
      BY <1>2
    <3>5. o \in Int /\ i \in Int
      BY <1>0, <3>1
    <3>6. ~ (i < o) /\ ~ (o < i)
      BY <3>1, <3>2, <3>3, <3>4
    <3> QED
      BY <3>5, <3>6 DEF o
  <2>4. InOrder(places)[k] = i
    BY <2>3
  <2> QED
    BY <1>8, <2>1, <2>4 DEF Range
<1> QED
  BY <1>1, <1>7, <1>8, <1>9 DEF Range, c

-----------------------------------------------------------------------------
(* Nodes that are rewritten in place *)

\* A node, field by field.
IsNode(n) ==
  n = [id |-> n.id, kind |-> n.kind, label |-> n.label, fqn |-> n.fqn,
       module |-> n.module, path |-> n.path, line |-> n.line, layer |-> n.layer,
       language |-> n.language, framework |-> n.framework,
       fileType |-> n.fileType, marks |-> n.marks, service |-> n.service,
       comment |-> n.comment, configKey |-> n.configKey, hint |-> n.hint]

\* What no pass changes of a node.
SameKeys(n, m) ==
  /\ n.id = m.id /\ n.kind = m.kind /\ n.label = m.label /\ n.fqn = m.fqn
  /\ n.module = m.module /\ n.path = m.path /\ n.line = m.line

\* A pass that rewrites nodes in place.
Rewrites(old, new) ==
  /\ DOMAIN new = DOMAIN old /\ new = [i \in DOMAIN old |-> new[i]]
  /\ \A i \in DOMAIN old : IsNode(new[i]) /\ SameKeys(new[i], old[i])

\* What a detector called the service of a node.
OwnService(i) ==
  IF i \in DOMAIN project.nodes THEN project.nodes[i].service ELSE None

\* A node that is not made by the service detector.
NodeInv(n) ==
  /\ IsNode(n) /\ n.kind \in NodeKinds /\ n.layer \in Layers /\ n.path \in Seq(STRING)
  /\ n.line \in Nat
  /\ n.id[1] # "service" /\ (n.id[1] = "module" => n.kind = "module")

\* One node per ID; until the service detector runs, the services are the
\* detectors'.
NodesInv ==
  /\ project \in Projects
  /\ Len(nodes) \in Nat /\ DOMAIN nodes = 1 .. Len(nodes)
  /\ nodes = [i \in 1 .. Len(nodes) |-> nodes[i]]
  /\ DOMAIN project.nodes \subseteq DOMAIN nodes
  /\ \A i \in DOMAIN nodes : NodeInv(nodes[i])
  /\ \A i, j \in DOMAIN nodes : nodes[i].id = nodes[j].id => i = j
  /\ pc # "load" => \A i \in DOMAIN nodes : nodes[i].service = OwnService(i)

\* The edges of the linkers: no two alike, and none that dangles.
EdgesInv ==
  /\ \A e \in edges : e.kind \in EdgeKinds /\ e.source \in AllSources \cup {NoSource}
  /\ pc # "load" => \A e \in edges : {e.from, e.to} \subseteq Ids(nodes)
  /\ NoParallelLinks

\* A node with another layer.
LEMMA LayerUpdate ==
  ASSUME NEW n, IsNode(n), NEW x, NEW m, m = [n EXCEPT !.layer = x]
  PROVE  /\ IsNode(m) /\ SameKeys(m, n) /\ m.layer = x
         /\ m.service = n.service /\ m.comment = n.comment
BY DEF IsNode, SameKeys

\* A node with another hint.
LEMMA HintUpdate ==
  ASSUME NEW n, IsNode(n), NEW x, NEW m, m = [n EXCEPT !.hint = x]
  PROVE  /\ IsNode(m) /\ SameKeys(m, n) /\ m.hint = x
         /\ m.layer = n.layer /\ m.service = n.service /\ m.comment = n.comment
BY DEF IsNode, SameKeys

\* A node with another service.
LEMMA ServiceUpdate ==
  ASSUME NEW n, IsNode(n), NEW x, NEW m, m = [n EXCEPT !.service = x]
  PROVE  /\ IsNode(m) /\ SameKeys(m, n) /\ m.service = x
         /\ m.layer = n.layer /\ m.comment = n.comment
BY DEF IsNode, SameKeys

\* The rules give a layer, whatever a node looks like.
LEMMA LayerKnown ==
  ASSUME NEW n, NEW marks PROVE ClassifyOne(n, marks) \in Layers
<1> DEFINE rules == Rules(n, marks)
           applies == {i \in DOMAIN rules : rules[i] # "unknown"}
<1>1. /\ DOMAIN rules = 1 .. 6
      /\ \A i \in 1 .. 6 : rules[i] \in {"frontend", "backend", "infra", "shared", "unknown"}
  BY DEF Rules, ByKind, ByPath, ByFramework, ByPackage
<1>2. Layers = {"frontend", "backend", "infra", "shared", "unknown"}
  BY DEF Layers, LayerNames
<1> HIDE DEF rules
<1>3. CASE applies = {}
  BY <1>2, <1>3 DEF ClassifyOne, rules
<1>4. CASE applies # {}
  <2>1. applies \in SUBSET Nat
    BY <1>1
  <2>2. PICK m \in applies : \A j \in applies : m =< j
    BY <1>4, <2>1, LeastNumber
  <2> DEFINE k == CHOOSE p \in applies : \A j \in applies : p =< j
  <2>3. k \in applies
    BY <2>2
  <2>4. ClassifyOne(n, marks) = rules[k]
    BY <1>4 DEF ClassifyOne, rules
  <2> QED
    BY <1>1, <1>2, <2>3, <2>4
<1> QED
  BY <1>3, <1>4

-----------------------------------------------------------------------------
(* The linkers *)

\* Rewriting nodes in place keeps what is known of them.
LEMMA RewriteKeepsNodes ==
  ASSUME NodesInv, Rewrites(nodes, nodes'), project' = project,
         \A i \in DOMAIN nodes : nodes'[i].layer \in Layers,
         pc' # "load" =>
           pc # "load" /\ \A i \in DOMAIN nodes : nodes'[i].service = nodes[i].service
  PROVE  NodesInv' /\ Ids(nodes') = Ids(nodes)
<1>1. /\ DOMAIN nodes' = DOMAIN nodes /\ DOMAIN nodes = 1 .. Len(nodes)
      /\ Len(nodes) \in Nat /\ nodes' = [i \in 1 .. Len(nodes) |-> nodes'[i]]
  BY DEF NodesInv, Rewrites
<1>2. Len(nodes') = Len(nodes)
  <2> DEFINE n == Len(nodes)
  <2>1. \A f : Len([i \in 1 .. n |-> f[i]]) = n
    BY <1>1
  <2> HIDE DEF n
  <2> QED
    BY <1>1, <2>1 DEF n
<1>3. \A i \in DOMAIN nodes : NodeInv(nodes'[i]) /\ nodes'[i].id = nodes[i].id
  BY DEF NodesInv, NodeInv, Rewrites, SameKeys
<1>4. Ids(nodes') = Ids(nodes)
  BY <1>1, <1>3 DEF Ids
<1>5. \A i, j \in DOMAIN nodes' : nodes'[i].id = nodes'[j].id => i = j
  BY <1>1, <1>3 DEF NodesInv
<1>6. pc' # "load" => \A i \in DOMAIN nodes' : nodes'[i].service = OwnService(i)'
  BY <1>1 DEF NodesInv, OwnService
<1>7. DOMAIN project'.nodes \subseteq DOMAIN nodes'
  BY <1>1 DEF NodesInv
<1> QED
  BY <1>1, <1>2, <1>3, <1>4, <1>5, <1>6, <1>7 DEF NodesInv

\* Steps that touch neither nodes nor edges, nor the pass but for `services`.
LEMMA SameNodes ==
  ASSUME NodesInv, EdgesInv, UNCHANGED <<project, nodes, edges>>,
         pc' = "load" => pc = "load", pc = "load" => pc' = "load"
  PROVE  NodesInv' /\ EdgesInv'
BY DEF NodesInv, EdgesInv, OwnService, NoParallelLinks

\* Edges that are added while the nodes stay.
LEMMA MoreEdges ==
  ASSUME NodesInv, EdgesInv, UNCHANGED <<project, nodes>>, pc # "load", pc' # "load",
         NEW more, edges' = edges \cup more,
         \A e \in more : /\ e.kind \in EdgeKinds /\ e.source \in AllSources
                         /\ {e.from, e.to} \subseteq Ids(nodes),
         \A e \in more : e.kind \in {"queries", "contains"} =>
           /\ \A f \in more : e.kind = f.kind /\ e.from = f.from /\ e.to = f.to => e = f
           /\ \A f \in edges : ~ (e.kind = f.kind /\ e.from = f.from /\ e.to = f.to)
  PROVE  NodesInv' /\ EdgesInv'
<1>1. NodesInv'
  BY DEF NodesInv, OwnService
<1>2. \A e \in edges' : /\ e.kind \in EdgeKinds /\ e.source \in AllSources \cup {NoSource}
                        /\ {e.from, e.to} \subseteq Ids(nodes)
  BY DEF EdgesInv
<1>3. NoParallelLinks'
  <2> SUFFICES ASSUME NEW e \in edges', NEW f \in edges', e.kind \in {"queries", "contains"},
                      e.kind = f.kind, e.from = f.from, e.to = f.to
               PROVE  e = f \/ {e, f} \subseteq project.edges
    BY DEF NoParallelLinks
  <2>1. CASE e \in edges /\ f \in edges
    BY <2>1 DEF EdgesInv, NoParallelLinks
  <2>2. CASE e \in more \/ f \in more
    BY <2>2
  <2> QED
    BY <2>1, <2>2
<1> QED
  BY <1>1, <1>2, <1>3 DEF EdgesInv

\* The kinds the linkers and extractors use.
LEMMA KnownKinds ==
  {"calls", "queries", "contains"} \subseteq EdgeKinds /\ "module" \in NodeKinds
  /\ "frontend" \in Layers
BY DEF EdgeKinds, EdgeKindNames, NodeKinds, NodeKindNames, Layers, LayerNames

\* TopicLinker links nodes there are.
LEMMA TopicsKeep ==
  ASSUME NodesInv, EdgesInv, LinkTopics
  PROVE  NodesInv' /\ EdgesInv'
<1> DEFINE more == TopicLinks(nodes, edges)
<1>1. \A e \in more : /\ e.kind = "calls" /\ e.source = SrcTopicLinker
                      /\ \E f \in edges : e.from = f.from
                      /\ \E f \in edges : e.to = f.from
  BY DEF TopicLinks, Partners, Edge
<1>2. pc = "topics" /\ pc' = "entities" /\ edges' = edges \cup more
      /\ UNCHANGED <<project, nodes>>
  BY DEF LinkTopics, At
<1> HIDE DEF more
<1>3. \A e \in edges : {e.from, e.to} \subseteq Ids(nodes)
  BY <1>2 DEF EdgesInv
<1>4. \A e \in more : /\ e.kind \in EdgeKinds /\ e.source \in AllSources
                      /\ {e.from, e.to} \subseteq Ids(nodes)
  BY <1>1, <1>3, KnownKinds DEF AllSources
<1>5. \A e \in more : e.kind \notin {"queries", "contains"}
  BY <1>1
<1> QED
  BY <1>2, <1>4, <1>5, MoreEdges

\* EntityLinker links nodes there are, and none that are linked.
LEMMA EntitiesKeep ==
  ASSUME NodesInv, EdgesInv, LinkEntities
  PROVE  NodesInv' /\ EdgesInv'
<1> DEFINE more == EntityLinks(nodes, edges)
<1>1. \A e \in more :
        /\ e = Edge("queries", e.from, e.to, SrcEntityLinker, <<>>)
        /\ \E i \in DOMAIN nodes : e.from = nodes[i].id
        /\ \E i \in DOMAIN nodes : e.to = nodes[i].id
        /\ ~ \E f \in edges : f.kind = "queries" /\ f.from = e.from /\ f.to = e.to
  BY DEF EntityLinks, EntityByName, OfKind, Edge
<1>2. pc = "entities" /\ pc' = "modules" /\ edges' = edges \cup more
      /\ UNCHANGED <<project, nodes>>
  BY DEF LinkEntities, At
<1> HIDE DEF more
<1>3. \A e \in more : e.kind = "queries" /\ e.source = SrcEntityLinker
  BY <1>1 DEF Edge
<1>4. \A e \in more : /\ e.kind \in EdgeKinds /\ e.source \in AllSources
                      /\ {e.from, e.to} \subseteq Ids(nodes)
  BY <1>1, <1>3, KnownKinds DEF AllSources, Ids
<1>5. \A e, f \in more : e.from = f.from /\ e.to = f.to => e = f
  BY <1>1
<1>6. \A e \in more : \A f \in edges : ~ (e.kind = f.kind /\ e.from = f.from /\ e.to = f.to)
  BY <1>1, <1>3
<1> QED
  BY <1>2, <1>4, <1>5, <1>6, MoreEdges

\* The modules that ModuleContainmentLinker makes, one per name.
LEMMA NewModuleNodes ==
  ASSUME NodesInv
  PROVE  LET new == SetToSeq({ModuleNode(m) : m \in NewModules(nodes)})
         IN /\ Len(new) \in Nat /\ DOMAIN new = 1 .. Len(new)
            /\ new = [k \in 1 .. Len(new) |-> new[k]]
            /\ \A k \in DOMAIN new :
                 \E m \in NewModules(nodes) : new[k] = ModuleNode(m)
            /\ \A k, l \in DOMAIN new : new[k] = new[l] => k = l
            /\ \A m \in NewModules(nodes) :
                 \E k \in DOMAIN new : new[k] = ModuleNode(m)
<1> DEFINE S == {ModuleNode(m) : m \in NewModules(nodes)}
           makers == {i \in Members(nodes) : nodes[i].module \in NewModules(nodes)}
           f == [i \in makers |-> ModuleNode(nodes[i].module)]
<1>1. IsFiniteSet(makers)
  <2>1. IsFiniteSet(1 .. Len(nodes))
    BY FS_Interval DEF NodesInv
  <2>2. makers \in SUBSET (1 .. Len(nodes))
    BY DEF Members, NodesInv
  <2> HIDE DEF makers
  <2> QED
    BY <2>1, <2>2, FS_Subset
<1>2. \A m \in NewModules(nodes) : \E i \in makers : nodes[i].module = m
  BY DEF NewModules
<1>3. f \in Surjection(makers, S)
  <2>1. \A i \in makers : f[i] \in S
    OBVIOUS
  <2>2. \A x \in S : \E i \in makers : f[i] = x
    BY <1>2
  <2> HIDE DEF makers, S
  <2> QED
    BY <2>1, <2>2 DEF Surjection
<1> HIDE DEF f, makers
<1>4. IsFiniteSet(S)
  BY <1>1, <1>3, FS_Surjection
<1> DEFINE new == SetToSeq(S)
<1>5. /\ new \in Seq(S) /\ Range(new) = S /\ IsInjective(new)
  <2> HIDE DEF S
  <2> QED
    BY <1>4, SeqOfSet
<1>6. Len(new) \in Nat /\ DOMAIN new = 1 .. Len(new)
      /\ new = [k \in 1 .. Len(new) |-> new[k]]
  BY <1>5
<1>7. \A k \in DOMAIN new : new[k] \in S
  BY <1>5 DEF Range
<1>8. \A x \in S : \E k \in DOMAIN new : new[k] = x
  BY <1>5 DEF Range
<1>9. \A k, l \in DOMAIN new : new[k] = new[l] => k = l
  BY <1>5 DEF IsInjective
<1> HIDE DEF new
<1>10. \A k \in DOMAIN new : \E m \in NewModules(nodes) : new[k] = ModuleNode(m)
  BY <1>7
<1>11. \A m \in NewModules(nodes) : \E k \in DOMAIN new : new[k] = ModuleNode(m)
  BY <1>8
<1> QED
  BY <1>6, <1>9, <1>10, <1>11 DEF new

\* One sequence after another, place by place.
LEMMA Concatenated ==
  ASSUME NEW n \in Nat, NEW s, s = [i \in 1 .. n |-> s[i]],
         NEW m \in Nat, NEW t, t = [k \in 1 .. m |-> t[k]],
         NEW st, st = s \o t
  PROVE  /\ DOMAIN st = 1 .. n + m /\ Len(st) = n + m
         /\ \A i \in 1 .. n : st[i] = s[i]
         /\ \A k \in 1 .. m : st[n + k] = t[k]
         /\ st = [i \in 1 .. n + m |-> st[i]]
<1> DEFINE S == {s[i] : i \in 1 .. n} \cup {t[k] : k \in 1 .. m}
<1>1. s \in Seq(S) /\ t \in Seq(S) /\ DOMAIN s = 1 .. n /\ DOMAIN t = 1 .. m
      /\ Len(s) = n /\ Len(t) = m
  <2>1. s \in [1 .. n -> S]
    <3>1. \A i \in 1 .. n : s[i] \in S
      OBVIOUS
    <3> HIDE DEF S
    <3> QED
      BY <3>1
  <2>2. t \in [1 .. m -> S]
    <3>1. \A i \in 1 .. m : t[i] \in S
      OBVIOUS
    <3> HIDE DEF S
    <3> QED
      BY <3>1
  <2> HIDE DEF S
  <2> QED
    BY <2>1, <2>2
<1> HIDE DEF S
<1>2. st \in Seq(S) /\ Len(st) = n + m
  BY <1>1
<1>3. \A i \in 1 .. n : st[i] = s[i]
  BY <1>1
<1>4. \A k \in 1 .. m : st[n + k] = t[k]
  BY <1>1
<1> QED
  BY <1>2, <1>3, <1>4

\* ModuleContainmentLinker makes no node twice: an ID that begins with
\* "module" is a module's, and a module that is there is not made.
LEMMA ModulesKeep ==
  ASSUME NodesInv, EdgesInv, LinkModules
  PROVE  /\ NodesInv' /\ EdgesInv'
         /\ \A i \in DOMAIN nodes' :
              \/ i \in DOMAIN nodes /\ nodes'[i] = nodes[i]
              \/ nodes'[i].comment = NoComment
<1> DEFINE new == SetToSeq({ModuleNode(m) : m \in NewModules(nodes)})
           n == Len(nodes)
           more == ModuleLinks(nodes, edges)
<1>1. pc = "modules" /\ pc' = "layers" /\ nodes' = nodes \o new /\ project' = project
      /\ edges' = edges \cup more
  BY DEF LinkModules, At
<1>2. /\ Len(new) \in Nat /\ DOMAIN new = 1 .. Len(new)
      /\ new = [k \in 1 .. Len(new) |-> new[k]]
      /\ \A k \in DOMAIN new : \E m \in NewModules(nodes) : new[k] = ModuleNode(m)
      /\ \A k, l \in DOMAIN new : new[k] = new[l] => k = l
      /\ \A m \in NewModules(nodes) : \E k \in DOMAIN new : new[k] = ModuleNode(m)
  BY NewModuleNodes
<1> HIDE DEF new
<1>3. /\ n \in Nat /\ DOMAIN nodes = 1 .. n
      /\ DOMAIN nodes' = 1 .. n + Len(new) /\ Len(nodes') = n + Len(new)
      /\ \A i \in 1 .. n : nodes'[i] = nodes[i]
      /\ \A k \in 1 .. Len(new) : nodes'[n + k] = new[k]
      /\ nodes' = [i \in 1 .. n + Len(new) |-> nodes'[i]]
  <2>1. n \in Nat /\ DOMAIN nodes = 1 .. n /\ nodes = [i \in 1 .. n |-> nodes[i]]
    BY DEF NodesInv
  <2>2. nodes' = nodes \o new
    BY <1>1
  <2> HIDE DEF n
  <2> QED
    BY <1>2, <2>1, <2>2, Concatenated
<1> HIDE DEF n
<1>4. ASSUME NEW m \in NewModules(nodes)
      PROVE  /\ NodeInv(ModuleNode(m)) /\ ModuleNode(m).id = <<"module", m>>
             /\ ModuleNode(m).service = None /\ ModuleNode(m).comment = NoComment
             /\ \A i \in DOMAIN nodes : nodes[i].id # <<"module", m>>
  <2>1. IsNode(ModuleNode(m)) /\ ModuleNode(m).kind = "module"
        /\ ModuleNode(m).layer = "frontend" /\ ModuleNode(m).path = <<>>
        /\ ModuleNode(m).line = 0
        /\ ModuleNode(m).id = <<"module", m>>
        /\ ModuleNode(m).service = None /\ ModuleNode(m).comment = NoComment
    BY DEF ModuleNode, ModuleId, IsNode
  <2>2. <<"module", m>>[1] = "module" /\ <<>> \in Seq(STRING)
    OBVIOUS
  <2>3. NodeInv(ModuleNode(m))
    BY <2>1, <2>2, KnownKinds DEF NodeInv
  <2>4. ASSUME NEW i \in DOMAIN nodes, nodes[i].id = <<"module", m>> PROVE FALSE
    <3>1. nodes[i].kind = "module"
      BY <2>2, <2>4 DEF NodesInv, NodeInv
    <3> QED
      BY <2>4, <3>1 DEF NewModules, ModuleId, OfKind
  <2> QED
    BY <2>1, <2>3, <2>4
<1>5. ASSUME NEW i \in DOMAIN nodes', i \notin 1 .. n
      PROVE  \E k \in 1 .. Len(new) : i = n + k /\ nodes'[i] = new[k]
  <2>1. i - n \in 1 .. Len(new) /\ i = n + (i - n)
    BY <1>2, <1>3, <1>5
  <2> QED
    BY <1>3, <2>1
<1>6. ASSUME NEW i \in DOMAIN nodes', i \notin 1 .. n
      PROVE  \E m \in NewModules(nodes) : nodes'[i] = ModuleNode(m)
  BY <1>2, <1>5, <1>6
<1>7. \A i \in DOMAIN nodes' : NodeInv(nodes'[i])
  BY <1>3, <1>4, <1>6 DEF NodesInv
<1>8. \A i, j \in DOMAIN nodes' : nodes'[i].id = nodes'[j].id => i = j
  <2> SUFFICES ASSUME NEW i \in DOMAIN nodes', NEW j \in DOMAIN nodes',
                      nodes'[i].id = nodes'[j].id
               PROVE  i = j
    OBVIOUS
  <2>1. CASE i \in 1 .. n /\ j \in 1 .. n
    BY <1>3, <2>1 DEF NodesInv
  <2>2. CASE i \in 1 .. n /\ j \notin 1 .. n
    BY <1>3, <1>4, <1>6, <2>2
  <2>3. CASE i \notin 1 .. n /\ j \in 1 .. n
    BY <1>3, <1>4, <1>6, <2>3
  <2>4. CASE i \notin 1 .. n /\ j \notin 1 .. n
    <3>1. PICK k \in 1 .. Len(new) : i = n + k /\ nodes'[i] = new[k]
      BY <1>5, <2>4
    <3>2. PICK l \in 1 .. Len(new) : j = n + l /\ nodes'[j] = new[l]
      BY <1>5, <2>4
    <3>3. PICK m \in NewModules(nodes) : new[k] = ModuleNode(m)
      BY <1>2
    <3>4. PICK o \in NewModules(nodes) : new[l] = ModuleNode(o)
      BY <1>2
    <3>5. <<"module", m>> = <<"module", o>>
      BY <1>4, <3>1, <3>2, <3>3, <3>4
    <3>6. m = o
      BY <3>5
    <3> QED
      BY <1>2, <3>1, <3>2, <3>3, <3>4, <3>6
  <2> QED
    BY <2>1, <2>2, <2>3, <2>4
<1>9. DOMAIN project.nodes \subseteq 1 .. n
  BY <1>3 DEF NodesInv
<1>10. \A i \in DOMAIN nodes' : nodes'[i].service = OwnService(i)'
  <2> SUFFICES ASSUME NEW i \in DOMAIN nodes'
               PROVE  nodes'[i].service = OwnService(i)'
    OBVIOUS
  <2>1. CASE i \in 1 .. n
    BY <1>1, <1>3, <2>1 DEF NodesInv, OwnService
  <2>2. CASE i \notin 1 .. n
    BY <1>1, <1>4, <1>6, <1>9, <2>2 DEF OwnService
  <2> QED
    BY <2>1, <2>2
<1>11. NodesInv'
  <2>1. n + Len(new) \in Nat /\ DOMAIN project'.nodes \subseteq DOMAIN nodes'
    BY <1>1, <1>2, <1>3, <1>9
  <2>2. Len(nodes') \in Nat /\ DOMAIN nodes' = 1 .. Len(nodes')
        /\ nodes' = [i \in 1 .. Len(nodes') |-> nodes'[i]]
    BY <1>3, <2>1
  <2>3. project' \in Projects
    BY <1>1 DEF NodesInv
  <2> QED
    BY <1>7, <1>8, <1>10, <2>1, <2>2, <2>3 DEF NodesInv
<1>12. \A e \in more :
         /\ e = Edge("contains", e.from, e.to, SrcModuleContainmentLinker, <<>>)
         /\ \E i \in Members(nodes) : /\ e.from = ModuleId(nodes[i].module)
                                     /\ e.to = nodes[i].id
         /\ ~ \E f \in edges : f.kind = "contains" /\ f.from = e.from /\ f.to = e.to
  BY DEF ModuleLinks, Edge
<1> HIDE DEF more
<1>13. Ids(nodes) \subseteq Ids(nodes')
  <2> SUFFICES ASSUME NEW i \in DOMAIN nodes PROVE nodes[i].id \in Ids(nodes')
    BY DEF Ids
  <2>1. i \in DOMAIN nodes' /\ nodes'[i] = nodes[i]
    BY <1>2, <1>3
  <2> QED
    BY <2>1 DEF Ids
<1>14. ASSUME NEW i \in Members(nodes)
       PROVE  ModuleId(nodes[i].module) \in Ids(nodes')
  <2>1. CASE nodes[i].module \in NewModules(nodes)
    <3>1. PICK k \in DOMAIN new : new[k] = ModuleNode(nodes[i].module)
      BY <1>2, <2>1
    <3>2. nodes'[n + k].id = ModuleId(nodes[i].module)
      <4>1. nodes'[n + k] = ModuleNode(nodes[i].module)
        BY <1>2, <1>3, <3>1
      <4>2. ModuleNode(nodes[i].module).id = ModuleId(nodes[i].module)
        BY DEF ModuleNode
      <4> QED
        BY <4>1, <4>2
    <3>3. n + k \in DOMAIN nodes'
      BY <1>2, <1>3
    <3> QED
      BY <3>2, <3>3 DEF Ids
  <2>2. CASE nodes[i].module \notin NewModules(nodes)
    BY <1>13, <2>2 DEF NewModules, Ids, OfKind
  <2> QED
    BY <2>1, <2>2
<1>15. \A e \in more : {e.from, e.to} \subseteq Ids(nodes')
  BY <1>12, <1>13, <1>14 DEF Members, Ids
<1>16. \A e \in more : e.kind = "contains" /\ e.source = SrcModuleContainmentLinker
  BY <1>12 DEF Edge
<1>17. \A e, f \in more : e.from = f.from /\ e.to = f.to => e = f
  BY <1>12
<1>18. \A e \in more : \A f \in edges :
         ~ (e.kind = f.kind /\ e.from = f.from /\ e.to = f.to)
  BY <1>12, <1>16
<1>19. EdgesInv'
  <2>1. \A e \in edges' : /\ e.kind \in EdgeKinds /\ e.source \in AllSources \cup {NoSource}
                          /\ {e.from, e.to} \subseteq Ids(nodes')
    <3>1. \A e \in more : /\ e.kind \in EdgeKinds /\ e.source \in AllSources
                          /\ {e.from, e.to} \subseteq Ids(nodes')
      BY <1>15, <1>16, KnownKinds DEF AllSources
    <3>2. \A e \in edges : /\ e.kind \in EdgeKinds /\ e.source \in AllSources \cup {NoSource}
                           /\ {e.from, e.to} \subseteq Ids(nodes')
      BY <1>1, <1>13 DEF EdgesInv
    <3> QED
      BY <1>1, <3>1, <3>2
  <2>2. NoParallelLinks'
    <3> SUFFICES ASSUME NEW e \in edges', NEW f \in edges', e.kind = f.kind,
                        e.kind \in {"queries", "contains"}, e.from = f.from, e.to = f.to
                 PROVE  e = f \/ {e, f} \subseteq project'.edges
      BY DEF NoParallelLinks
    <3>1. CASE e \in edges /\ f \in edges
      BY <1>1, <3>1 DEF EdgesInv, NoParallelLinks
    <3>2. CASE e \in more \/ f \in more
      BY <1>1, <1>17, <1>18, <3>2
    <3> QED
      BY <1>1, <3>1, <3>2
  <2> QED
    BY <2>1, <2>2 DEF EdgesInv
<1>20. \A i \in DOMAIN nodes' :
         \/ i \in DOMAIN nodes /\ nodes'[i] = nodes[i]
         \/ nodes'[i].comment = NoComment
  BY <1>3, <1>4, <1>6
<1> QED
  BY <1>11, <1>19, <1>20

-----------------------------------------------------------------------------
(* The passes that rewrite nodes *)

\* Before the service detector, rewriting nodes in place keeps nodes and edges
\* right.
LEMMA RewriteKeeps ==
  ASSUME NodesInv, EdgesInv, Rewrites(nodes, nodes'), UNCHANGED <<project, edges>>,
         \A i \in DOMAIN nodes : /\ nodes'[i].layer \in Layers
                                 /\ nodes'[i].service = nodes[i].service,
         pc # "load", pc' # "load"
  PROVE  NodesInv' /\ EdgesInv'
<1>1. NodesInv' /\ Ids(nodes') = Ids(nodes)
  BY RewriteKeepsNodes
<1>2. EdgesInv'
  BY <1>1 DEF EdgesInv, NoParallelLinks
<1> QED
  BY <1>1, <1>2

\* LayerClassifier rewrites the layers.
LEMMA ClassifyKeeps ==
  ASSUME NodesInv, EdgesInv, Classify
  PROVE  /\ NodesInv' /\ EdgesInv' /\ Rewrites(nodes, nodes')
         /\ \A i \in DOMAIN nodes : nodes'[i].comment = nodes[i].comment
<1>1. /\ pc = "layers" /\ pc' = "lexical" /\ UNCHANGED <<project, edges>>
      /\ DOMAIN nodes' = DOMAIN nodes /\ nodes' = [i \in DOMAIN nodes |-> nodes'[i]]
  BY DEF Classify, At
<1>2. ASSUME NEW i \in DOMAIN nodes
      PROVE  /\ IsNode(nodes'[i]) /\ SameKeys(nodes'[i], nodes[i])
             /\ nodes'[i].layer \in Layers /\ nodes'[i].service = nodes[i].service
             /\ nodes'[i].comment = nodes[i].comment
  <2>1. PICK x : x = ClassifyOne(nodes[i], nodes[i].marks)
    OBVIOUS
  <2>2. nodes'[i] = [nodes[i] EXCEPT !.layer = x]
    BY <2>1 DEF Classify
  <2>3. IsNode(nodes[i])
    BY DEF NodesInv, NodeInv
  <2>4. PICK m : m = [nodes[i] EXCEPT !.layer = x]
    OBVIOUS
  <2>5. /\ IsNode(m) /\ SameKeys(m, nodes[i]) /\ m.layer = x
        /\ m.service = nodes[i].service /\ m.comment = nodes[i].comment
    BY <2>3, <2>4, LayerUpdate
  <2>6. x \in Layers
    BY <2>1, LayerKnown
  <2> QED
    BY <2>2, <2>4, <2>5, <2>6
<1>3. Rewrites(nodes, nodes')
  BY <1>1, <1>2 DEF Rewrites
<1>4. NodesInv' /\ EdgesInv'
  BY <1>1, <1>2, <1>3, RewriteKeeps
<1> QED
  BY <1>2, <1>3, <1>4

\* The lexical pass rewrites comments and config keys.
LEMMA LexicalKeeps ==
  ASSUME NodesInv, EdgesInv, EnrichLexical
  PROVE  /\ NodesInv' /\ EdgesInv' /\ Rewrites(nodes, nodes')
         /\ \A i \in DOMAIN nodes : nodes'[i].comment = DocComment(nodes[i])
<1>1. /\ pc = "lexical" /\ pc' = "group" /\ UNCHANGED <<project, edges>>
      /\ DOMAIN nodes' = DOMAIN nodes /\ nodes' = [i \in DOMAIN nodes |-> nodes'[i]]
  BY DEF EnrichLexical, At
<1>2. ASSUME NEW i \in DOMAIN nodes
      PROVE  /\ IsNode(nodes'[i]) /\ SameKeys(nodes'[i], nodes[i])
             /\ nodes'[i].layer \in Layers /\ nodes'[i].service = nodes[i].service
             /\ nodes'[i].comment = DocComment(nodes[i])
  <2>1. PICK x : x = ConfigKey(nodes[i])
    OBVIOUS
  <2>2. PICK y : y = DocComment(nodes[i])
    OBVIOUS
  <2>3. nodes'[i] = [nodes[i] EXCEPT !.configKey = x, !.comment = y]
    BY <2>1, <2>2 DEF EnrichLexical
  <2>4. IsNode(nodes[i]) /\ nodes[i].layer \in Layers
    BY DEF NodesInv, NodeInv
  <2>5. PICK m : m = [nodes[i] EXCEPT !.configKey = x, !.comment = y]
    OBVIOUS
  <2>6. /\ IsNode(m) /\ SameKeys(m, nodes[i]) /\ m.comment = y
        /\ m.layer = nodes[i].layer /\ m.service = nodes[i].service
    <3>1. PICK n : n = nodes[i]
      OBVIOUS
    <3>2. m = [n EXCEPT !.configKey = x, !.comment = y]
      BY <2>5, <3>1
    <3>3. IsNode(n)
      BY <2>4, <3>1
    <3>4. IsNode(m) /\ SameKeys(m, n) /\ m.comment = y
          /\ m.layer = n.layer /\ m.service = n.service
      BY <3>2, <3>3 DEF IsNode, SameKeys
    <3> QED
      BY <3>1, <3>4
  <2> QED
    BY <2>2, <2>3, <2>4, <2>5, <2>6
<1>3. Rewrites(nodes, nodes')
  BY <1>1, <1>2 DEF Rewrites
<1>4. NodesInv' /\ EdgesInv'
  BY <1>1, <1>2, <1>3, RewriteKeeps
<1> QED
  BY <1>2, <1>3, <1>4

\* A goroutine stamps hints.
LEMMA StampRewrites ==
  ASSUME NodesInv, NEW t, StampResults(t)
  PROVE  /\ Rewrites(nodes, nodes')
         /\ \A i \in DOMAIN nodes : /\ nodes'[i].layer = nodes[i].layer
                                    /\ nodes'[i].service = nodes[i].service
                                    /\ nodes'[i].comment = nodes[i].comment
<1>1. PICK hint, stamped :
        nodes' = [i \in DOMAIN nodes |->
                    IF i \in stamped THEN [nodes[i] EXCEPT !.hint = hint[i]]
                    ELSE nodes[i]]
  <2> DEFINE own == tasks[t].own
             h == [i \in DOMAIN nodes |-> results[t][CHOOSE j \in DOMAIN own : own[j] = i].hint]
             s == {i \in Range(own) : results[t][CHOOSE j \in DOMAIN own : own[j] = i].hint # NoHint}
  <2>1. nodes' = [i \in DOMAIN nodes |->
                    IF i \in s THEN [nodes[i] EXCEPT !.hint = h[i]] ELSE nodes[i]]
    BY DEF StampResults
  <2> HIDE DEF h, s
  <2> QED
    BY <2>1
<1>2. ASSUME NEW i \in DOMAIN nodes
      PROVE  /\ IsNode(nodes'[i]) /\ SameKeys(nodes'[i], nodes[i])
             /\ nodes'[i].layer = nodes[i].layer /\ nodes'[i].service = nodes[i].service
             /\ nodes'[i].comment = nodes[i].comment
  <2>1. IsNode(nodes[i])
    BY DEF NodesInv, NodeInv
  <2>2. CASE i \in stamped
    <3>1. PICK x : x = hint[i]
      OBVIOUS
    <3>2. PICK m : m = [nodes[i] EXCEPT !.hint = x]
      OBVIOUS
    <3>3. /\ IsNode(m) /\ SameKeys(m, nodes[i]) /\ m.layer = nodes[i].layer
          /\ m.service = nodes[i].service /\ m.comment = nodes[i].comment
      BY <2>1, <3>2, HintUpdate
    <3> QED
      BY <1>1, <2>2, <3>1, <3>2, <3>3
  <2>3. CASE i \notin stamped
    BY <1>1, <2>1, <2>3 DEF SameKeys
  <2> QED
    BY <2>2, <2>3
<1> QED
  BY <1>1, <1>2 DEF Rewrites

\* The service detector rewrites services.
LEMMA DetectRewrites ==
  ASSUME NodesInv, DetectServices
  PROVE  LET labels == ServiceLabels(project.tree, project.declared)
             service(n) == {labels[d] : d \in MatchDir(DOMAIN labels, n.path)}
         IN /\ Rewrites(nodes, nodes')
            /\ \A i \in DOMAIN nodes :
                 /\ nodes'[i].layer = nodes[i].layer
                 /\ nodes'[i].comment = nodes[i].comment
                 /\ nodes'[i].service = IF service(nodes[i]) = {} THEN nodes[i].service
                                        ELSE CHOOSE l \in service(nodes[i]) : TRUE
<1> DEFINE labels == ServiceLabels(project.tree, project.declared)
           service(n) == {labels[d] : d \in MatchDir(DOMAIN labels, n.path)}
<1>1. nodes' = [i \in DOMAIN nodes |->
                    [nodes[i] EXCEPT !.service =
                       IF service(nodes[i]) = {} THEN nodes[i].service
                       ELSE CHOOSE l \in service(nodes[i]) : TRUE]]
  BY DEF DetectServices
<1> HIDE DEF service
<1>2. ASSUME NEW i \in DOMAIN nodes
      PROVE  /\ IsNode(nodes'[i]) /\ SameKeys(nodes'[i], nodes[i])
             /\ nodes'[i].layer = nodes[i].layer
             /\ nodes'[i].comment = nodes[i].comment
             /\ nodes'[i].service = IF service(nodes[i]) = {} THEN nodes[i].service
                                    ELSE CHOOSE l \in service(nodes[i]) : TRUE
  <2>1. IsNode(nodes[i])
    BY DEF NodesInv, NodeInv
  <2>2. PICK x : x = IF service(nodes[i]) = {} THEN nodes[i].service
                     ELSE CHOOSE l \in service(nodes[i]) : TRUE
    OBVIOUS
  <2>3. PICK m : m = [nodes[i] EXCEPT !.service = x]
    OBVIOUS
  <2>4. nodes'[i] = m
    BY <1>1, <2>2, <2>3
  <2>5. /\ IsNode(m) /\ SameKeys(m, nodes[i]) /\ m.layer = nodes[i].layer
        /\ m.service = x /\ m.comment = nodes[i].comment
    BY <2>1, <2>3, ServiceUpdate
  <2> QED
    BY <2>2, <2>4, <2>5
<1>3. DOMAIN nodes' = DOMAIN nodes /\ nodes' = [i \in DOMAIN nodes |-> nodes'[i]]
  BY <1>1
<1>4. Rewrites(nodes, nodes')
  BY <1>2, <1>3 DEF Rewrites
<1>5. \A i \in DOMAIN nodes :
             /\ nodes'[i].layer = nodes[i].layer
             /\ nodes'[i].comment = nodes[i].comment
             /\ nodes'[i].service = IF service(nodes[i]) = {} THEN nodes[i].service
                                    ELSE CHOOSE l \in service(nodes[i]) : TRUE
  BY <1>2
<1> QED
  BY <1>4, <1>5 DEF service

-----------------------------------------------------------------------------
(* The service detector *)

\* The directories with a service, and its name.
Labels == ServiceLabels(project.tree, project.declared)

\* The names of the services that a path belongs to: at most one.
NamesAt(path) == {Labels[d] : d \in MatchDir(DOMAIN Labels, path)}

\* What the service detector leaves behind, in terms of the nodes after it.
DetectedInv ==
  /\ pc # "load" => services = {}
  /\ pc = "load" =>
       /\ services = Services(nodes, Labels, Modules(project.tree))
       /\ ServiceEdges(nodes, Labels) \subseteq edges
       /\ \A e \in edges \ ServiceEdges(nodes, Labels) : {e.from, e.to} \subseteq Ids(nodes)
       /\ \A i \in DOMAIN nodes :
            nodes[i].service = IF NamesAt(nodes[i].path) = {} THEN OwnService(i)
                               ELSE CHOOSE l \in NamesAt(nodes[i].path) : TRUE

\* The services depend on nothing that a pass changes.
LEMMA SameServices ==
  ASSUME NEW old, NEW new, Rewrites(old, new), NEW labels, NEW modules
  PROVE  /\ Services(new, labels, modules) = Services(old, labels, modules)
         /\ ServiceEdges(new, labels) = ServiceEdges(old, labels)
         /\ Ids(new) = Ids(old)
<1>1. \A kinds : OfKind(new, kinds) = OfKind(old, kinds)
  BY DEF OfKind, Rewrites, SameKeys
<1>2. DOMAIN new = DOMAIN old
      /\ \A i \in DOMAIN old : new[i].path = old[i].path /\ new[i].id = old[i].id
  BY DEF Rewrites, SameKeys
<1>3. ASSUME NEW label, NEW kind
      PROVE  CountUnder(new, labels, label, kind) = CountUnder(old, labels, label, kind)
  <2> DEFINE C(list) == {i \in OfKind(list, {kind}) :
                           \E d \in MatchDir(DOMAIN labels, list[i].path) : labels[d] = label}
  <2>1. \A i \in OfKind(old, {kind}) : new[i].path = old[i].path
    BY <1>2 DEF OfKind
  <2>2. C(new) = C(old)
    BY <1>1, <2>1
  <2> QED
    BY <2>2 DEF CountUnder
<1>4. \A d : ServiceNode(new, labels, modules, d) = ServiceNode(old, labels, modules, d)
  BY <1>3 DEF ServiceNode
<1>5. Services(new, labels, modules) = Services(old, labels, modules)
  BY <1>4 DEF Services
<1>6. ServiceEdges(new, labels) = ServiceEdges(old, labels)
  BY <1>2 DEF ServiceEdges
<1>7. Ids(new) = Ids(old)
  BY <1>2 DEF Ids
<1> QED
  BY <1>5, <1>6, <1>7

\* A service's edge.
LEMMA ServiceEdge ==
  ASSUME NEW list, NEW labels, NEW e \in ServiceEdges(list, labels)
  PROVE  /\ e = Edge("contains", e.from, e.to, NoSource, <<>>)
         /\ e.kind = "contains" /\ e.source = NoSource
         /\ e.from[1] = "service"
         /\ \E i \in DOMAIN list : \E d \in MatchDir(DOMAIN labels, list[i].path) :
              e.from = ServiceId(d, labels[d]) /\ e.to = list[i].id
<1>0. PICK i \in DOMAIN list :
        \E d \in MatchDir(DOMAIN labels, list[i].path) :
          e = Edge("contains", ServiceId(d, labels[d]), list[i].id, NoSource, <<>>)
  BY DEF ServiceEdges
<1>1. PICK d \in MatchDir(DOMAIN labels, list[i].path) :
        e = Edge("contains", ServiceId(d, labels[d]), list[i].id, NoSource, <<>>)
  BY <1>0
<1>2. e.from = ServiceId(d, labels[d]) /\ e.to = list[i].id
      /\ e.kind = "contains" /\ e.source = NoSource
  BY <1>1 DEF Edge
<1>3. ServiceId(d, labels[d])[1] = "service"
  BY DEF ServiceId
<1> QED
  BY <1>1, <1>2, <1>3

\* The service detector leaves behind what DetectedInv says.
LEMMA DetectKeeps ==
  ASSUME NodesInv, EdgesInv, DetectServices
  PROVE  NodesInv' /\ EdgesInv' /\ DetectedInv'
<1>0. /\ pc = "services" /\ pc' = "load" /\ project' = project
      /\ services' = Services(nodes, Labels, Modules(project.tree))
      /\ edges' = edges \cup ServiceEdges(nodes, Labels)
  BY DEF DetectServices, At, Labels
<1>1. /\ Rewrites(nodes, nodes')
      /\ \A i \in DOMAIN nodes :
           /\ nodes'[i].layer = nodes[i].layer
           /\ nodes'[i].service = IF NamesAt(nodes[i].path) = {} THEN nodes[i].service
                                  ELSE CHOOSE l \in NamesAt(nodes[i].path) : TRUE
  BY DetectRewrites DEF Labels, NamesAt
<1>2. \A i \in DOMAIN nodes : nodes'[i].layer \in Layers
  BY <1>1 DEF NodesInv, NodeInv
<1>3. NodesInv' /\ Ids(nodes') = Ids(nodes)
  BY <1>0, <1>1, <1>2, RewriteKeepsNodes
<1>4. /\ Services(nodes', Labels, Modules(project.tree)) = services'
      /\ ServiceEdges(nodes', Labels) = ServiceEdges(nodes, Labels)
  BY <1>0, <1>1, SameServices
<1>5. Labels' = Labels
  BY <1>0 DEF Labels
<1>6. \A e \in edges : {e.from, e.to} \subseteq Ids(nodes)
  BY <1>0 DEF EdgesInv
<1>7. \A e \in edges : e.from[1] # "service"
  BY <1>6 DEF NodesInv, NodeInv, Ids
<1>8. ASSUME NEW i \in DOMAIN nodes'
      PROVE  (nodes[i].service = IF NamesAt(nodes[i].path) = {} THEN OwnService(i)
                                 ELSE CHOOSE l \in NamesAt(nodes[i].path) : TRUE)'
  <2>1. i \in DOMAIN nodes /\ nodes'[i].path = nodes[i].path
    BY <1>1 DEF Rewrites, SameKeys
  <2>2. nodes[i].service = OwnService(i) /\ OwnService(i)' = OwnService(i)
    BY <1>0, <2>1 DEF NodesInv, OwnService
  <2>3. NamesAt(nodes[i].path)' = NamesAt(nodes[i].path)
    BY <1>0, <2>1 DEF NamesAt, Labels
  <2> QED
    BY <1>1, <2>1, <2>2, <2>3
<1>9. DetectedInv'
  <2>1. services' = Services(nodes', Labels', Modules(project'.tree))
    BY <1>0, <1>4, <1>5
  <2>2. ServiceEdges(nodes', Labels') \subseteq edges'
    BY <1>0, <1>4, <1>5
  <2>3. \A e \in edges' \ ServiceEdges(nodes', Labels') : {e.from, e.to} \subseteq Ids(nodes')
    BY <1>0, <1>3, <1>4, <1>5, <1>6
  <2> QED
    BY <1>0, <1>8, <2>1, <2>2, <2>3 DEF DetectedInv
<1>10. \A e \in edges' : e.kind \in EdgeKinds /\ e.source \in AllSources \cup {NoSource}
  <2>1. \A e \in ServiceEdges(nodes, Labels) : e.kind = "contains" /\ e.source = NoSource
    BY ServiceEdge
  <2> QED
    BY <1>0, <2>1, KnownKinds DEF EdgesInv
<1>11. NoParallelLinks'
  <2> SUFFICES ASSUME NEW e \in edges', NEW f \in edges', e.kind = f.kind,
                      e.kind \in {"queries", "contains"}, e.from = f.from, e.to = f.to
               PROVE  e = f \/ {e, f} \subseteq project'.edges
    BY DEF NoParallelLinks
  <2>1. CASE e \in edges /\ f \in edges
    BY <1>0, <2>1 DEF EdgesInv, NoParallelLinks
  <2>2. CASE e \in ServiceEdges(nodes, Labels)
    <3>1. e.from[1] = "service" /\ e = Edge("contains", e.from, e.to, NoSource, <<>>)
      BY <2>2, ServiceEdge
    <3>2. f \in ServiceEdges(nodes, Labels)
      BY <1>0, <1>7, <3>1
    <3>3. f = Edge("contains", f.from, f.to, NoSource, <<>>)
      BY <3>2, ServiceEdge
    <3> QED
      BY <3>1, <3>3
  <2>3. CASE f \in ServiceEdges(nodes, Labels)
    <3>1. f.from[1] = "service" /\ f = Edge("contains", f.from, f.to, NoSource, <<>>)
      BY <2>3, ServiceEdge
    <3>2. e \in ServiceEdges(nodes, Labels)
      BY <1>0, <1>7, <3>1
    <3>3. e = Edge("contains", e.from, e.to, NoSource, <<>>)
      BY <3>2, ServiceEdge
    <3> QED
      BY <3>1, <3>3
  <2> QED
    BY <1>0, <2>1, <2>2, <2>3
<1>12. EdgesInv'
  BY <1>0, <1>10, <1>11 DEF EdgesInv
<1> QED
  BY <1>3, <1>9, <1>12

-----------------------------------------------------------------------------
(* The extractors' goroutines *)

\* The languages that have an extractor.
Languages == {"java", "typescript", "python", "go"}
\* A file's language, whether it is read, and what is extracted from it.
Language(t) == ExtractorOf(tasks[t].path)
Reads(t) == /\ tasks[t].path \in DOMAIN project.files
            /\ ~ IsLikelyMinified(tasks[t].path, Content(t))
Extracted(t) == ExtractFromTree(Language(t), nodes, tasks[t].own, Content(t))

\* The calls of a file, as the nodes are now.
CallsOf(t) ==
  IF Reads(t)
  THEN FlattenSeq([j \in DOMAIN Extracted(t) |-> Extracted(t)[j].edges]) ELSE <<>>

\* A file's own nodes are nodes.
TasksInv ==
  /\ Len(tasks) \in Nat /\ DOMAIN tasks = 1 .. Len(tasks)
  /\ pc \notin {"extract", "services", "load"} => tasks = <<>>
  /\ \A t \in DOMAIN tasks :
       /\ Language(t) \in Languages
       /\ Len(tasks[t].own) \in Nat
       /\ tasks[t].own \in [1 .. Len(tasks[t].own) -> DOMAIN nodes]

\* Where a goroutine is tells what has become of its file.
GoInv(t) ==
  /\ t > spawned => step[t] = "unborn"
  /\ step[t] \in {"parse", "extract", "stamp", "close"} => Reads(t)
  /\ step[t] = "stamp" => results[t] = Extracted(t)
  /\ out[t] = IF step[t] \in {"close", "return", "gone"} THEN CallsOf(t) ELSE <<>>

\* One goroutine, one slot and one output per file.
GoTyping ==
  /\ pc \in Passes /\ spawned \in 0 .. Len(tasks)
  /\ step \in [DOMAIN tasks -> GoSteps]
  /\ DOMAIN results = DOMAIN tasks /\ DOMAIN out = DOMAIN tasks
  /\ results = [t \in DOMAIN tasks |-> results[t]] /\ out = [t \in DOMAIN tasks |-> out[t]]

\* When the passes go on, all goroutines are through and their calls appended.
CallsInv ==
  pc \in {"services", "load"} =>
    calls = FlattenSeq(out) /\ \A t \in DOMAIN tasks : step[t] \in {"return", "gone"}

\* The goroutines and what they leave behind.
GosInv == GoTyping /\ CallsInv /\ \A t \in DOMAIN tasks : GoInv(t)

\* There are four extractors.
LEMMA KnownLanguage ==
  ASSUME NEW path, ExtractorOf(path) # "" PROVE ExtractorOf(path) \in Languages
BY DEF ExtractorOf, DetectLanguage, Languages

\* What is extracted depends on nothing that a pass changes.
LEMMA SameExtraction ==
  ASSUME NEW old, NEW new, Rewrites(old, new), NEW language, NEW content,
         NEW own, \A j \in DOMAIN own : own[j] \in DOMAIN old
  PROVE  ExtractFromTree(language, new, own, content) = ExtractFromTree(language, old, own, content)
<1>1. /\ DOMAIN new = DOMAIN old
      /\ \A i \in DOMAIN old :
           /\ new[i].id = old[i].id /\ new[i].kind = old[i].kind
           /\ new[i].label = old[i].label /\ new[i].fqn = old[i].fqn
  BY DEF Rewrites, SameKeys
<1>2. ASSUME NEW name PROVE Registered(new, name) = Registered(old, name)
  <2> DEFINE K(l) == {i \in DOMAIN l : l[i].id = name \/ l[i].fqn = name}
  <2>1. K(new) = K(old) /\ K(old) \subseteq DOMAIN old
    BY <1>1
  <2> DEFINE L(l) == {j \in K(l) : \A k \in K(l) : k =< j}
  <2>2. L(new) = L(old) /\ L(old) \subseteq DOMAIN old
    BY <2>1
  <2>3. {new[i].id : i \in L(new)} = {old[i].id : i \in L(old)}
    <3> HIDE DEF L
    <3> QED
      BY <1>1, <2>2
  <2> QED
    BY <2>3 DEF Registered
<1>3. ASSUME NEW name PROVE SingleMatch(new, name) = SingleMatch(old, name)
  <2> DEFINE J(l) == {j \in OfKind(l, {"method"}) : l[j].label = name}
  <2>1. J(new) = J(old) /\ J(old) \subseteq DOMAIN old
    BY <1>1 DEF OfKind
  <2>2. {new[i].id : i \in J(new)} = {old[i].id : i \in J(old)}
    <3> HIDE DEF J
    <3> QED
      BY <1>1, <2>1
  <2> QED
    BY <2>2 DEF SingleMatch
<1>4. \A text : Callee(language, new, text) = Callee(language, old, text)
  <2> TAKE text
  <2>1. /\ SingleMatch(new, <<Last(text)>>) = SingleMatch(old, <<Last(text)>>)
        /\ Registered(new, <<Last(text)>>) = Registered(old, <<Last(text)>>)
        /\ Registered(new, text) = Registered(old, text)
    BY <1>2, <1>3
  <2> QED
    BY <2>1, Zenon DEF Callee, JavaCallee, GoCallee, PythonCallee, TypeScriptCallee
<1>5. ASSUME NEW n, NEW m, m.id = n.id, m.label = n.label
      PROVE  CallEdges(language, new, m, content) = CallEdges(language, old, n, content)
  <2> DEFINE sites == Declaration(content, n.label)
             C(l, k) == Callee(language, l, sites[k].text) \ {n.id}
             E(l) == [k \in DOMAIN sites |->
                        SetToSeq({CallEdge(n.id, to, sites[k].line) : to \in C(l, k)})]
  <2>1. E(new) = E(old)
    BY <1>4
  <2>2. Declaration(content, m.label) = sites
    BY <1>5
  <2>3. CallEdges(language, new, m, content) = FlattenSeq(E(new))
    BY <1>5, <2>2 DEF CallEdges
  <2>4. CallEdges(language, old, n, content) = FlattenSeq(E(old))
    BY DEF CallEdges
  <2> QED
    BY <2>1, <2>3, <2>4
<1>6. ASSUME NEW n, NEW m, m.kind = n.kind, m.label = n.label
      PROVE  Hint(language, m, content) = Hint(language, n, content)
  BY <1>6, Zenon DEF Hint, JavaHint, GoHint, PythonHint, TypeScriptHint
<1>7. ASSUME NEW j \in DOMAIN own
      PROVE  /\ CallEdges(language, new, new[own[j]], content)
                  = CallEdges(language, old, old[own[j]], content)
             /\ Hint(language, new[own[j]], content) = Hint(language, old[own[j]], content)
             /\ new[own[j]].kind = old[own[j]].kind
  BY <1>1, <1>5, <1>6
<1> QED
  BY <1>7 DEF ExtractFromTree

\* While the nodes are only rewritten, so are the calls of a file.
LEMMA SameCalls ==
  ASSUME TasksInv, Rewrites(nodes, nodes'), UNCHANGED <<project, tasks>>,
         NEW t \in DOMAIN tasks
  PROVE  /\ Reads(t)' = Reads(t) /\ Language(t)' = Language(t)
         /\ Content(t)' = Content(t)
         /\ Extracted(t)' = Extracted(t) /\ CallsOf(t)' = CallsOf(t)
<1>1. Reads(t)' = Reads(t) /\ Language(t)' = Language(t) /\ Content(t)' = Content(t)
  BY DEF Reads, Language, Content
<1>2. Extracted(t)' = Extracted(t)
  <2>1. \A j \in DOMAIN tasks[t].own : tasks[t].own[j] \in DOMAIN nodes
    BY DEF TasksInv
  <2>2. ExtractFromTree(Language(t), nodes', tasks[t].own, Content(t))
          = ExtractFromTree(Language(t), nodes, tasks[t].own, Content(t))
    BY <2>1, SameExtraction
  <2> QED
    BY <1>1, <2>2 DEF Extracted
<1>3. CallsOf(t)' = CallsOf(t)
  BY <1>1, <1>2 DEF CallsOf
<1> QED
  BY <1>1, <1>2, <1>3

\* A step that leaves the nodes alone rewrites nothing.
LEMMA Reflexive ==
  ASSUME NodesInv, nodes' = nodes
  PROVE  Rewrites(nodes, nodes')
BY DEF NodesInv, NodeInv, Rewrites, SameKeys

\* Nobody has started before the files are grouped.
LEMMA EarlyKeeps ==
  ASSUME TasksInv, GosInv, UNCHANGED <<pool, calls>>,
         pc \notin {"extract", "services", "load"}, pc' \in Passes,
         pc' \notin {"extract", "services", "load"}
  PROVE  TasksInv' /\ GosInv'
<1>1. tasks = <<>> /\ tasks' = <<>> /\ DOMAIN tasks = {} /\ DOMAIN tasks' = {}
  BY DEF TasksInv, pool
<1>2. TasksInv'
  BY <1>1 DEF TasksInv
<1>3. GoTyping'
  BY DEF GosInv, GoTyping, pool
<1> QED
  BY <1>1, <1>2, <1>3 DEF GosInv, CallsInv

\* The nodes stay in place and the tasks are what they are.
LEMMA TasksStay ==
  ASSUME TasksInv, UNCHANGED <<tasks>>, DOMAIN nodes' = DOMAIN nodes,
         pc' \in {"extract", "services", "load"}
  PROVE  TasksInv'
BY DEF TasksInv, Language

\* GroupFiles makes one goroutine per file, unborn.
LEMMA GroupKeeps ==
  ASSUME NodesInv, GosInv, GroupFiles
  PROVE  TasksInv' /\ GosInv'
<1> DEFINE some == {k \in DOMAIN PathOrder : \E i \in Extractable : nodes[i].path = PathOrder[k]}
           places == InOrder(some)
<1>0. /\ pc = "group" /\ pc' = "extract" /\ UNCHANGED <<project, nodes>>
      /\ spawned' = 0
  BY DEF GroupFiles, At
<1>1. /\ tasks' = [t \in DOMAIN places |-> [path |-> PathOrder[places[t]],
                                            own |-> OwnNodes(PathOrder[places[t]])]]
      /\ step' = [t \in DOMAIN places |-> "unborn"]
      /\ results' = [t \in DOMAIN places |-> <<>>]
      /\ out' = [t \in DOMAIN places |-> <<>>]
  BY DEF GroupFiles
<1>2. Cardinality(some) \in Nat /\ places \in [1 .. Cardinality(some) -> some]
  <2>1. Len(PathOrder) \in Nat /\ some \in SUBSET (1 .. Len(PathOrder))
    BY PathAssumption
  <2> HIDE DEF some
  <2> QED
    BY <2>1, OrderedPlaces
<1>3. ASSUME NEW t \in DOMAIN places
      PROVE  \E i \in Extractable : nodes[i].path = PathOrder[places[t]]
  <2>1. places[t] \in some
    <3> HIDE DEF some
    <3> QED
      BY <1>2
  <2> QED
    BY <2>1
<1> HIDE DEF some, places
<1>4. DOMAIN tasks' = 1 .. Cardinality(some) /\ Len(tasks') = Cardinality(some)
      /\ DOMAIN places = 1 .. Cardinality(some)
  <2> DEFINE c == Cardinality(some)
  <2>1. \A f : Len([t \in 1 .. c |-> f[t]]) = c
    BY <1>2
  <2>2. DOMAIN places = 1 .. c
    BY <1>2
  <2>3. DOMAIN tasks' = 1 .. c /\ tasks' = [t \in 1 .. c |-> tasks'[t]]
    BY <1>1, <2>2
  <2> HIDE DEF c
  <2>4. Len(tasks') = c
    BY <2>1, <2>3
  <2> QED
    BY <2>2, <2>3, <2>4 DEF c
<1>5. ASSUME NEW t \in DOMAIN tasks'
      PROVE  /\ Language(t)' \in Languages
             /\ Len(tasks'[t].own) \in Nat
             /\ tasks'[t].own \in [1 .. Len(tasks'[t].own) -> DOMAIN nodes']
  <2>1. t \in DOMAIN places
    BY <1>4
  <2> DEFINE path == PathOrder[places[t]]
             set == {i \in Extractable : nodes[i].path = path}
  <2>2. tasks'[t].path = path /\ tasks'[t].own = InOrder(set)
    BY <1>1, <2>1 DEF OwnNodes
  <2>3. ExtractorOf(path) # ""
    <3>1. PICK i \in Extractable : nodes[i].path = path
      BY <1>3, <2>1
    <3> QED
      BY <3>1 DEF Extractable
  <2>4. Language(t)' \in Languages
    BY <2>2, <2>3, KnownLanguage DEF Language
  <2>5. Cardinality(set) \in Nat /\ InOrder(set) \in [1 .. Cardinality(set) -> set]
    <3>1. Len(nodes) \in Nat /\ set \in SUBSET (1 .. Len(nodes))
      BY DEF NodesInv, Extractable
    <3> HIDE DEF set
    <3> QED
      BY <3>1, OrderedPlaces
  <2>6. set \subseteq DOMAIN nodes'
    BY <1>0 DEF Extractable
  <2> HIDE DEF set
  <2>7. InOrder(set) \in [1 .. Cardinality(set) -> DOMAIN nodes'] /\ Len(InOrder(set)) = Cardinality(set)
    BY <2>5, <2>6
  <2> QED
    BY <2>2, <2>4, <2>5, <2>7
<1>6. TasksInv'
  BY <1>0, <1>2, <1>4, <1>5 DEF TasksInv
<1>7. GoTyping'
  <2>1. DOMAIN tasks' = DOMAIN places
    BY <1>4
  <2>2. step' \in [DOMAIN tasks' -> GoSteps]
    BY <1>1, <2>1 DEF GoSteps
  <2>3. pc' \in Passes /\ spawned' \in 0 .. Len(tasks')
    BY <1>0, <1>2, <1>4 DEF Passes
  <2>4. DOMAIN results' = DOMAIN tasks' /\ results' = [t \in DOMAIN tasks' |-> results'[t]]
    BY <1>1, <2>1
  <2>5. DOMAIN out' = DOMAIN tasks' /\ out' = [t \in DOMAIN tasks' |-> out'[t]]
    BY <1>1, <2>1
  <2> QED
    BY <2>2, <2>3, <2>4, <2>5 DEF GoTyping
<1>8. \A t \in DOMAIN tasks' : GoInv(t)'
  <2> SUFFICES ASSUME NEW t \in DOMAIN tasks' PROVE GoInv(t)'
    OBVIOUS
  <2>1. step'[t] = "unborn" /\ out'[t] = <<>>
    BY <1>1, <1>4
  <2> QED
    BY <2>1 DEF GoInv
<1> QED
  BY <1>0, <1>6, <1>7, <1>8 DEF GosInv, CallsInv

\* A goroutine's step, seen from the others: they stay what they are.
LEMMA OthersStay ==
  ASSUME NodesInv, TasksInv, GosInv, Rewrites(nodes, nodes'), UNCHANGED <<project, tasks, spawned, pc, calls>>,
         NEW t \in DOMAIN step, NEW from, NEW to \in GoSteps, Go(t, from, to),
         from # "unborn",
         from \in {"return", "gone"} => to \in {"return", "gone"} /\ out' = out,
         from \notin {"return", "gone"} => pc = "extract",
         pc \in {"extract", "services", "load"},
         DOMAIN results' = DOMAIN results, results' = [s \in DOMAIN results |-> results'[s]],
         DOMAIN out' = DOMAIN out, out' = [s \in DOMAIN out |-> out'[s]],
         \A s \in DOMAIN tasks \ {t} : results'[s] = results[s] /\ out'[s] = out[s],
         to \in {"parse", "extract", "stamp", "close"} => Reads(t),
         to = "stamp" => results'[t] = Extracted(t),
         out'[t] = IF to \in {"close", "return", "gone"} THEN CallsOf(t) ELSE <<>>
  PROVE  TasksInv' /\ GosInv'
<1>1. DOMAIN step = DOMAIN tasks /\ step' = [step EXCEPT ![t] = to]
      /\ step \in [DOMAIN tasks -> GoSteps] /\ step[t] = from
  BY DEF GosInv, GoTyping, Go
<1>2. step' \in [DOMAIN tasks -> GoSteps] /\ step'[t] = to
      /\ \A s \in DOMAIN tasks \ {t} : step'[s] = step[s]
  BY <1>1
<1>3. TasksInv'
  <2>1. DOMAIN nodes' = DOMAIN nodes
    BY DEF Rewrites
  <2> QED
    BY <2>1, TasksStay
<1>4. GoTyping'
  BY <1>2 DEF GosInv, GoTyping
<1>5. ASSUME NEW s \in DOMAIN tasks PROVE GoInv(s)'
  <2>1. Reads(s)' = Reads(s) /\ Extracted(s)' = Extracted(s) /\ CallsOf(s)' = CallsOf(s)
    BY SameCalls
  <2>2. CASE s = t
    <3>1. ~ (t > spawned)
      BY <1>1, <2>2 DEF GosInv, GoInv
    <3> QED
      BY <1>2, <2>1, <2>2, <3>1 DEF GoInv
  <2>3. CASE s # t
    BY <1>2, <2>1, <2>3 DEF GosInv, GoInv
  <2> QED
    BY <2>2, <2>3
<1>6. CallsInv'
  <2> SUFFICES ASSUME pc \in {"services", "load"}
               PROVE  calls' = FlattenSeq(out') /\ \A s \in DOMAIN tasks : step'[s] \in {"return", "gone"}
    BY DEF CallsInv
  <2>1. to \in {"return", "gone"} /\ out' = out
    BY <1>1 DEF GosInv, CallsInv
  <2> QED
    BY <1>2, <2>1 DEF GosInv, CallsInv
<1> QED
  BY <1>3, <1>4, <1>5, <1>6 DEF GosInv

\* A goroutine that has not returned runs while Main waits for it.
LEMMA Running ==
  ASSUME TasksInv, GosInv, NEW t \in DOMAIN step, step[t] \notin {"return", "gone"}
  PROVE  pc = "extract"
<1>1. t \in DOMAIN tasks /\ tasks # <<>>
  BY DEF GosInv, GoTyping
<1> QED
  BY <1>1 DEF TasksInv, GosInv, CallsInv

\* Every step of a goroutine keeps the other goroutines, the nodes and the
\* edges right.
LEMMA GoroutineKeepsCalls ==
  ASSUME NodesInv, EdgesInv, TasksInv, GosInv, NEW t \in DOMAIN step, Goroutine(t)
  PROVE  TasksInv' /\ GosInv' /\ NodesInv' /\ EdgesInv' /\ Rewrites(nodes, nodes')
         /\ UNCHANGED <<project, pc, edges, services>>
         /\ \A i \in DOMAIN nodes : nodes'[i].comment = nodes[i].comment
                                    /\ nodes'[i].service = nodes[i].service
<1>0. UNCHANGED <<project, tasks, spawned, pc, calls, edges, services>>
  BY DEF Goroutine, ReadFile, ParseFile, ExtractTree, StampResults, CloseTree, Release
<1>1. t \in DOMAIN tasks /\ tasks # <<>> /\ pc \in {"extract", "services", "load"}
      /\ GoInv(t) /\ step[t] \in GoSteps
  <2>1. t \in DOMAIN tasks /\ step[t] \in GoSteps
    BY DEF GosInv, GoTyping
  <2>2. tasks # <<>>
    BY <2>1
  <2> QED
    BY <2>1, <2>2 DEF TasksInv, GosInv
<1>2. /\ DOMAIN results = DOMAIN tasks /\ DOMAIN out = DOMAIN tasks
      /\ results = [s \in DOMAIN results |-> results[s]]
      /\ out = [s \in DOMAIN out |-> out[s]]
  BY DEF GosInv, GoTyping
<1>3. CASE ReadFile(t) \/ ParseFile(t) \/ CloseTree(t) \/ Release(t)
  <2>1. UNCHANGED <<nodes, results, out>>
    BY <1>3 DEF ReadFile, ParseFile, CloseTree, Release
  <2>2. Rewrites(nodes, nodes')
    BY <2>1, Reflexive
  <2>3. NodesInv' /\ EdgesInv'
    BY <1>0, <2>1, SameNodes
  <2>4. CASE ReadFile(t)
    <3>1. \E to \in {"return", "parse"} :
            Go(t, "read", to) /\ (to = "return" => ~ Reads(t)) /\ (to = "parse" => Reads(t))
      BY <2>4 DEF ReadFile, Reads
    <3>2. PICK to \in {"return", "parse"} :
            Go(t, "read", to) /\ (to = "return" => ~ Reads(t)) /\ (to = "parse" => Reads(t))
      BY <3>1
    <3>3. to \in GoSteps /\ step[t] = "read" /\ pc = "extract"
      BY <3>2, Running DEF GoSteps, Go
    <3>4. out'[t] = IF to \in {"close", "return", "gone"} THEN CallsOf(t) ELSE <<>>
      BY <1>1, <2>1, <3>2, <3>3 DEF GoInv, CallsOf
    <3>5. TasksInv' /\ GosInv'
      BY <1>0, <1>1, <1>2, <2>1, <2>2, <3>2, <3>3, <3>4, OthersStay
    <3> QED
      BY <1>0, <2>1, <2>2, <2>3, <3>5
  <2>5. CASE ParseFile(t)
    <3>1. Go(t, "parse", "extract") /\ step[t] = "parse" /\ "extract" \in GoSteps
      BY <2>5 DEF ParseFile, Go, GoSteps
    <3>2. pc = "extract"
      BY <3>1, Running
    <3>3. Reads(t) /\ out'[t] = <<>>
      BY <1>1, <2>1, <3>1 DEF GoInv
    <3>4. TasksInv' /\ GosInv'
      BY <1>0, <1>1, <1>2, <2>1, <2>2, <3>1, <3>2, <3>3, OthersStay
    <3> QED
      BY <1>0, <2>1, <2>2, <2>3, <3>4
  <2>6. CASE CloseTree(t)
    <3>1. Go(t, "close", "return") /\ step[t] = "close" /\ "return" \in GoSteps
      BY <2>6 DEF CloseTree, Go, GoSteps
    <3>2. pc = "extract"
      BY <3>1, Running
    <3>3. Reads(t) /\ out'[t] = CallsOf(t)
      BY <1>1, <2>1, <3>1 DEF GoInv
    <3>4. TasksInv' /\ GosInv'
      BY <1>0, <1>1, <1>2, <2>1, <2>2, <3>1, <3>2, <3>3, OthersStay
    <3> QED
      BY <1>0, <2>1, <2>2, <2>3, <3>4
  <2>7. CASE Release(t)
    <3>1. Go(t, "return", "gone") /\ step[t] = "return" /\ "gone" \in GoSteps
      BY <2>7 DEF Release, Go, GoSteps
    <3>2. out'[t] = CallsOf(t)
      BY <1>1, <2>1, <3>1 DEF GoInv
    <3>3. TasksInv' /\ GosInv'
      BY <1>0, <1>1, <1>2, <2>1, <2>2, <3>1, <3>2, OthersStay
    <3> QED
      BY <1>0, <2>1, <2>2, <2>3, <3>3
  <2> QED
    BY <1>3, <2>4, <2>5, <2>6, <2>7
<1>4. CASE ExtractTree(t)
  <2>1. /\ Go(t, "extract", "stamp") /\ step[t] = "extract" /\ "stamp" \in GoSteps
        /\ UNCHANGED <<nodes, out>>
        /\ results' = [results EXCEPT ![t] = Extracted(t)]
    BY <1>4 DEF ExtractTree, Go, GoSteps, Extracted, Language
  <2>2. Rewrites(nodes, nodes')
    BY <2>1, Reflexive
  <2>3. NodesInv' /\ EdgesInv'
    BY <1>0, <2>1, SameNodes
  <2>4. pc = "extract"
    BY <2>1, Running
  <2>5. Reads(t) /\ out'[t] = <<>>
    BY <1>1, <2>1 DEF GoInv
  <2>6. /\ DOMAIN results' = DOMAIN results /\ results' = [s \in DOMAIN results |-> results'[s]]
        /\ results'[t] = Extracted(t)
        /\ \A s \in DOMAIN tasks \ {t} : results'[s] = results[s]
    BY <1>1, <1>2, <2>1
  <2>7. TasksInv' /\ GosInv'
    <3>1. UNCHANGED <<project, tasks, spawned, pc, calls>>
      BY <1>0
    <3>2. DOMAIN out' = DOMAIN out /\ out' = [s \in DOMAIN out |-> out'[s]]
      BY <1>2, <2>1
    <3>3. \A s \in DOMAIN tasks \ {t} : results'[s] = results[s] /\ out'[s] = out[s]
      BY <2>1, <2>6
    <3> QED
      BY <2>1, <2>2, <2>4, <2>5, <2>6, <3>1, <3>2, <3>3, OthersStay
  <2> QED
    BY <1>0, <2>1, <2>2, <2>3, <2>7
<1>5. CASE StampResults(t)
  <2>1. Go(t, "stamp", "close") /\ step[t] = "stamp" /\ "close" \in GoSteps
        /\ UNCHANGED results
        /\ out' = [out EXCEPT ![t] =
                     FlattenSeq([j \in DOMAIN tasks[t].own |-> results[t][j].edges])]
    BY <1>5 DEF StampResults, Go, GoSteps
  <2>2. /\ Rewrites(nodes, nodes')
        /\ \A i \in DOMAIN nodes : /\ nodes'[i].layer = nodes[i].layer
                                   /\ nodes'[i].service = nodes[i].service
                                   /\ nodes'[i].comment = nodes[i].comment
    BY <1>5, StampRewrites
  <2>3. pc = "extract"
    BY <2>1, Running
  <2>4. NodesInv' /\ EdgesInv'
    <3>1. \A i \in DOMAIN nodes : nodes'[i].layer \in Layers
      BY <2>2 DEF NodesInv, NodeInv
    <3> QED
      BY <1>0, <2>2, <2>3, <3>1, RewriteKeeps
  <2>5. Reads(t) /\ results[t] = Extracted(t)
    BY <1>1, <2>1 DEF GoInv
  <2>6. DOMAIN Extracted(t) = DOMAIN tasks[t].own
    BY DEF Extracted, ExtractFromTree
  <2>7. out'[t] = CallsOf(t)
    BY <1>1, <1>2, <2>1, <2>5, <2>6 DEF CallsOf
  <2>8. /\ DOMAIN out' = DOMAIN out /\ out' = [s \in DOMAIN out |-> out'[s]]
        /\ \A s \in DOMAIN tasks \ {t} : out'[s] = out[s]
    BY <1>1, <1>2, <2>1
  <2>9. TasksInv' /\ GosInv'
    <3>1. UNCHANGED <<project, tasks, spawned, pc, calls>>
      BY <1>0
    <3>2. DOMAIN results' = DOMAIN results /\ results' = [s \in DOMAIN results |-> results'[s]]
      BY <1>2, <2>1
    <3>3. \A s \in DOMAIN tasks \ {t} : results'[s] = results[s] /\ out'[s] = out[s]
      BY <2>1, <2>8
    <3>4. Go(t, "stamp", "close") /\ "close" \in GoSteps
      BY <2>1
    <3>5. out'[t] = IF "close" \in {"close", "return", "gone"} THEN CallsOf(t) ELSE <<>>
      BY <2>7
    <3>6. Rewrites(nodes, nodes')
      BY <2>2
    <3>7. DOMAIN out' = DOMAIN out /\ out' = [s \in DOMAIN out |-> out'[s]]
      BY <2>8
    <3> QED
      BY <2>3, <2>5, <3>1, <3>2, <3>3, <3>4, <3>5, <3>6, <3>7, OthersStay
  <2> QED
    BY <1>0, <2>2, <2>4, <2>9
<1> QED
  BY <1>3, <1>4, <1>5 DEF Goroutine

-----------------------------------------------------------------------------
(* Doc comments *)

\* The last of a set of lines before a bound.
LEMMA LastOfLines ==
  ASSUME NEW n \in Nat, NEW S \in SUBSET (1 .. n)
  PROVE  /\ LastOf(S) \in 0 .. n
         /\ LastOf(S) # 0 => LastOf(S) \in S
         /\ \A i \in S : i =< LastOf(S)
<1>1. CASE S = {}
  BY <1>1 DEF LastOf
<1>2. CASE S # {}
  <2>1. LastOf(S) = Max(S)
    BY <1>2 DEF LastOf
  <2>2. Max(S) \in S /\ \A i \in S : i <= Max(S)
    BY <1>2, MaxOfIndices
  <2>3. PICK m : m = Max(S)
    OBVIOUS
  <2>4. m \in S /\ \A i \in S : i <= m
    BY <2>2, <2>3
  <2>5. m \in 0 .. n
    BY <2>4
  <2> QED
    BY <2>1, <2>3, <2>4, <2>5
<1> QED
  BY <1>1, <1>2

\* A comment before the declaration is complete and next to it.
Beside(c, lines, decl) ==
  /\ c[1] =< c[2] /\ c[2] < decl
  /\ lines[c[1]] \in {"open", "block", "slashes"}
  /\ \A k \in (c[2] + 1)..(decl - 1) : lines[k] \in {"blank", "annotation"}
  /\ IF lines[c[1]] = "slashes"
     THEN \A k \in c[1]..c[2] : lines[k] = "slashes"
     ELSE lines[c[2]] \in {"close", "block"}

\* A docstring opens on the first line of the body and is closed.
Opens(c, lines, decl) ==
  /\ c[1] = decl + 1
  /\ lines[c[2]] \in {"quote", "quotes"}
  /\ lines[c[1]] = "quote" => c[2] > c[1]

\* A block comment is beside its declaration.
LEMMA BlockBeside ==
  ASSUME NEW lines, NEW decl \in Nat, BlockComment(lines, decl) # NoComment
  PROVE  Beside(BlockComment(lines, decl), lines, decl)
<1> DEFINE before == {i \in 1..(decl - 1) : lines[i] \notin {"blank", "annotation"}}
           scan == LastOf(before)
           openers == {i \in 1..scan : lines[i] \in {"open", "block"}}
           open == LastOf(openers)
<1>0. CASE decl = 0
  <2>1. before = {}
    BY <1>0
  <2>2. scan = 0
    BY <2>1 DEF LastOf
  <2> QED
    BY <2>2 DEF BlockComment
<1>1. CASE decl # 0
  <2>1. decl - 1 \in Nat /\ before \in SUBSET (1 .. decl - 1)
    BY <1>1
  <2>2. /\ scan \in 0 .. decl - 1 /\ (scan # 0 => scan \in before)
        /\ \A i \in before : i =< scan
    <3> HIDE DEF before
    <3> QED
      BY <2>1, LastOfLines
  <2>3. \A k \in (scan + 1) .. (decl - 1) : lines[k] \in {"blank", "annotation"}
    <3> SUFFICES ASSUME NEW k \in (scan + 1) .. (decl - 1), lines[k] \notin {"blank", "annotation"}
                 PROVE  FALSE
      OBVIOUS
    <3>1. k \in before
      BY <2>2
    <3>2. k =< scan
      BY <2>2, <3>1
    <3> HIDE DEF before, scan
    <3> QED
      BY <2>2, <3>2
  <2> HIDE DEF before, scan
  <2>4. open \in 0 .. scan /\ (open # 0 => open \in openers)
    <3>1. scan \in Nat /\ openers \in SUBSET (1 .. scan)
      BY <2>2
    <3> HIDE DEF openers
    <3> QED
      BY <3>1, LastOfLines
  <2> HIDE DEF open
  <2>5. scan # 0 /\ open # 0 /\ lines[scan] \in {"close", "block"}
        /\ BlockComment(lines, decl) = <<open, scan>>
    BY DEF BlockComment, open, scan, before
  <2>6. lines[open] \in {"open", "block"} /\ open =< scan /\ scan < decl
    BY <1>1, <2>2, <2>4, <2>5
  <2> QED
    BY <2>3, <2>5, <2>6 DEF Beside
<1> QED
  BY <1>0, <1>1

\* So is a run of line comments.
LEMMA LinesBeside ==
  ASSUME NEW lines, NEW decl \in Nat, LineComments(lines, decl) # NoComment
  PROVE  Beside(LineComments(lines, decl), lines, decl)
<1> DEFINE before == {i \in 1..(decl - 1) : lines[i] # "blank"}
           end == LastOf(before)
           others == {i \in 1..end : lines[i] # "slashes"}
           start == LastOf(others) + 1
<1>0. CASE decl = 0
  <2>1. before = {}
    BY <1>0
  <2>2. end = 0
    BY <2>1 DEF LastOf
  <2> QED
    BY <2>2 DEF LineComments
<1>1. CASE decl # 0
  <2>1. decl - 1 \in Nat /\ before \in SUBSET (1 .. decl - 1)
    BY <1>1
  <2>2. /\ end \in 0 .. decl - 1 /\ \A i \in before : i =< end
    <3> HIDE DEF before
    <3> QED
      BY <2>1, LastOfLines
  <2>3. \A k \in (end + 1) .. (decl - 1) : lines[k] = "blank"
    <3> SUFFICES ASSUME NEW k \in (end + 1) .. (decl - 1), lines[k] # "blank"
                 PROVE  FALSE
      OBVIOUS
    <3>1. k \in before
      BY <2>2
    <3>2. k =< end
      BY <2>2, <3>1
    <3> HIDE DEF before, end
    <3> QED
      BY <2>2, <3>2
  <2> HIDE DEF before, end
  <2>4. LastOf(others) \in 0 .. end /\ \A i \in others : i =< LastOf(others)
    <3>1. end \in Nat /\ others \in SUBSET (1 .. end)
      BY <2>2
    <3> HIDE DEF others
    <3> QED
      BY <3>1, LastOfLines
  <2>5. \A k \in start .. end : lines[k] = "slashes"
    <3> SUFFICES ASSUME NEW k \in start .. end, lines[k] # "slashes"
                 PROVE  FALSE
      OBVIOUS
    <3>1. k \in others
      BY <2>2, <2>4
    <3>2. k =< LastOf(others)
      BY <2>4, <3>1
    <3> QED
      <4> HIDE DEF others
      <4> QED
        BY <2>2, <2>4, <3>2
  <2>6. start \in Nat
    <3> HIDE DEF others
    <3> QED
      BY <2>2, <2>4
  <2> HIDE DEF start
  <2>7. end # 0 /\ ~ (start > end) /\ LineComments(lines, decl) = <<start, end>>
    BY DEF LineComments, start, end, before
  <2>8. start =< end /\ end < decl
    BY <1>1, <2>2, <2>6, <2>7
  <2>9. lines[start] = "slashes"
    BY <2>2, <2>5, <2>6, <2>8
  <2> QED
    BY <2>3, <2>5, <2>7, <2>8, <2>9 DEF Beside
<1> QED
  BY <1>0, <1>1

\* A docstring opens its declaration's body.
LEMMA DocstringOpens ==
  ASSUME NEW lines, NEW decl \in Nat, NEW len \in Nat, Len(lines) = len,
         Docstring(lines, decl) # NoComment
  PROVE  Opens(Docstring(lines, decl), lines, decl)
<1> DEFINE body == decl + 1
           window == body..Min({decl + DocstringWindow, Len(lines)})
           closing == {i \in window : i > body /\ lines[i] \in {"quote", "quotes"}}
<1>1. Docstring(lines, decl) =
        IF body \notin window THEN NoComment
        ELSE CASE lines[body] = "quotes" -> <<body, body>>
               [] lines[body] = "quote" /\ closing # {} -> <<body, Min(closing)>>
               [] OTHER -> NoComment
  BY DEF Docstring
<1>2. closing # {} => Min(closing) \in closing
  <2>1. closing \in SUBSET Nat
    OBVIOUS
  <2> HIDE DEF closing
  <2> SUFFICES ASSUME closing # {} PROVE Min(closing) \in closing
    OBVIOUS
  <2>2. \E n \in closing : \A m \in closing : n <= m
    BY <2>1, LeastNumber
  <2> QED
    BY <2>2 DEF Min
<1>3. \A i \in closing : i > body /\ lines[i] \in {"quote", "quotes"}
  OBVIOUS
<1> HIDE DEF closing, window
<1>4. CASE body \notin window
  BY <1>1, <1>4
<1>5. CASE body \in window /\ lines[body] = "quotes"
  <2>1. Docstring(lines, decl) = <<body, body>>
    BY <1>1, <1>5
  <2> QED
    BY <1>5, <2>1 DEF Opens
<1>6. CASE body \in window /\ lines[body] = "quote" /\ closing # {}
  <2>1. Docstring(lines, decl) = <<body, Min(closing)>>
    BY <1>1, <1>6
  <2> QED
    BY <1>2, <1>3, <1>6, <2>1 DEF Opens
<1>7. CASE /\ body \in window /\ lines[body] # "quotes"
           /\ ~ (lines[body] = "quote" /\ closing # {})
  BY <1>1, <1>7
<1> QED
  BY <1>4, <1>5, <1>6, <1>7

\* Wherever a doc comment is found, it belongs to the declaration.
LEMMA ExtractAdjacent ==
  ASSUME NEW lines \in Seq(LineLooks), NEW language, NEW decl \in Nat,
         NEW c, c = Extract(lines, language, decl), c # NoComment
  PROVE  IF language = "python" THEN Opens(c, lines, decl) ELSE Beside(c, lines, decl)
<1>1. decl \in DOMAIN lines
  BY DEF Extract
<1>2. CASE language = "python"
  BY <1>1, <1>2, DocstringOpens DEF Extract
<1>3. CASE language \in {"go", "rust"}
  BY <1>1, <1>3, LinesBeside DEF Extract
<1>4. CASE language \notin {"go", "rust", "python"}
  BY <1>1, <1>4, BlockBeside DEF Extract
<1> QED
  BY <1>2, <1>3, <1>4

\* The passes up to the lexical one.
BeforeLexical == {"topics", "entities", "modules", "layers", "lexical"}

\* A node without a comment, or with one that is where it should be.
CommentSound(n) ==
  n.comment # NoComment =>
    IF InferLanguage(n.path) = "python"
    THEN Opens(n.comment, project.files[n.path].lines, n.line)
    ELSE Beside(n.comment, project.files[n.path].lines, n.line)

\* No comment before the lexical pass, and none out of place after it.
CommentsInv ==
  \A i \in DOMAIN nodes :
    /\ pc \in BeforeLexical => nodes[i].comment = NoComment
    /\ CommentSound(nodes[i])

\* The other passes rewrite no comment.
LEMMA CommentsStay ==
  ASSUME CommentsInv, Rewrites(nodes, nodes'), project' = project,
         \A i \in DOMAIN nodes : nodes'[i].comment = nodes[i].comment,
         pc' \in BeforeLexical => pc \in BeforeLexical
  PROVE  CommentsInv'
<1> SUFFICES ASSUME NEW i \in DOMAIN nodes'
             PROVE  /\ pc' \in BeforeLexical => nodes'[i].comment = NoComment
                    /\ CommentSound(nodes[i])'
  BY DEF CommentsInv
<1>1. /\ i \in DOMAIN nodes /\ nodes'[i].comment = nodes[i].comment
      /\ nodes'[i].path = nodes[i].path /\ nodes'[i].line = nodes[i].line
  BY DEF Rewrites, SameKeys
<1>2. CommentSound(nodes[i])'
  <2>1. CommentSound(nodes[i])
    BY <1>1 DEF CommentsInv
  <2> QED
    BY <1>1, <2>1 DEF CommentSound, InferLanguage, Opens, Beside
<1> QED
  BY <1>1, <1>2 DEF CommentsInv

\* The linker's modules have no comment.
LEMMA CommentsOfModules ==
  ASSUME CommentsInv, project' = project, pc \in BeforeLexical, pc' \in BeforeLexical,
         \A i \in DOMAIN nodes' :
           \/ i \in DOMAIN nodes /\ nodes'[i] = nodes[i]
           \/ nodes'[i].comment = NoComment
  PROVE  CommentsInv'
<1>1. \A i \in DOMAIN nodes' : nodes'[i].comment = NoComment
  BY DEF CommentsInv
<1> QED
  BY <1>1 DEF CommentsInv, CommentSound

\* What the lexical pass finds for a node.
LEMMA CommentFound ==
  ASSUME NEW p \in Projects, project = p, NEW n, NodeInv(n), n.comment = NoComment,
         NEW c, c = DocComment(n), c # NoComment
  PROVE  IF InferLanguage(n.path) = "python"
         THEN Opens(c, project.files[n.path].lines, n.line)
         ELSE Beside(c, project.files[n.path].lines, n.line)
<1>1. /\ n.path \in DOMAIN project.files
      /\ c = Extract(project.files[n.path].lines, InferLanguage(n.path), n.line)
  BY DEF DocComment
<1>2. project.files[n.path].lines \in Seq(LineLooks)
  BY <1>1, ProjectAssumption DEF SoundDisk
<1>3. n.line \in Nat
  BY DEF NodeInv
<1> QED
  BY <1>1, <1>2, <1>3, ExtractAdjacent

\* The lexical pass leaves every comment in its place.
LEMMA LexicalComments ==
  ASSUME NodesInv, EdgesInv, CommentsInv, EnrichLexical
  PROVE  CommentsInv'
<1>1. /\ pc = "lexical" /\ pc' = "group" /\ project' = project
  BY DEF EnrichLexical, At
<1>2. Rewrites(nodes, nodes') /\ \A i \in DOMAIN nodes : nodes'[i].comment = DocComment(nodes[i])
  BY LexicalKeeps
<1> SUFFICES ASSUME NEW i \in DOMAIN nodes' PROVE CommentSound(nodes[i])'
  BY <1>1 DEF CommentsInv, BeforeLexical
<1>3. /\ i \in DOMAIN nodes /\ nodes'[i].comment = DocComment(nodes[i])
      /\ nodes'[i].path = nodes[i].path /\ nodes'[i].line = nodes[i].line
  BY <1>2 DEF Rewrites, SameKeys
<1>4. NodeInv(nodes[i]) /\ project \in Projects /\ nodes[i].comment = NoComment
  BY <1>1, <1>3 DEF NodesInv, CommentsInv, BeforeLexical
<1>5. DocComment(nodes[i]) # NoComment =>
        IF InferLanguage(nodes[i].path) = "python"
        THEN Opens(DocComment(nodes[i]), project.files[nodes[i].path].lines, nodes[i].line)
        ELSE Beside(DocComment(nodes[i]), project.files[nodes[i].path].lines, nodes[i].line)
  BY <1>4, CommentFound
<1>6. CommentSound(nodes[i])' =
        (DocComment(nodes[i]) # NoComment =>
          IF InferLanguage(nodes[i].path) = "python"
          THEN Opens(DocComment(nodes[i]), project.files[nodes[i].path].lines, nodes[i].line)
          ELSE Beside(DocComment(nodes[i]), project.files[nodes[i].path].lines, nodes[i].line))
  BY <1>1, <1>3 DEF CommentSound, InferLanguage, Opens, Beside
<1> QED
  BY <1>5, <1>6

\* Which is what the property says.
LEMMA CommentsAdjacent ==
  CommentsInv => CommentAdjacent
BY DEF CommentsInv, CommentSound, CommentAdjacent, Opens, Beside

-----------------------------------------------------------------------------
(* All passes together *)

\* What holds between any two steps of the passes.
PassInv == /\ NodesInv /\ EdgesInv /\ TasksInv /\ GosInv
           /\ CommentsInv /\ DetectedInv

\* The snapshot is as a snapshot should be.
LEMMA Starts ==
  ASSUME Init PROVE PassInv
<1>1. /\ project \in Projects /\ pc = "topics" /\ nodes = project.nodes
      /\ edges = project.edges
      /\ tasks = <<>> /\ spawned = 0 /\ step = <<>> /\ results = <<>> /\ out = <<>>
      /\ services = {}
  BY DEF Init
<1>2. SoundSnapshot(project)
  BY <1>1, ProjectAssumption
<1>3. nodes \in Seq(CodeNode)
  BY <1>1, <1>2 DEF SoundSnapshot
<1>4. ASSUME NEW i \in DOMAIN nodes
      PROVE  /\ NodeInv(nodes[i]) /\ nodes[i].comment = NoComment
             /\ nodes[i].service = OwnService(i)
  <2>1. nodes[i] \in CodeNode
    BY <1>3
  <2>2. PICK n \in CodeNode : n = nodes[i]
    BY <2>1
  <2>3. IsNode(n) /\ n.kind \in NodeKinds /\ n.layer \in Layers /\ n.path \in Seq(STRING)
        /\ n.line \in Nat /\ n.comment = NoComment
    BY DEF CodeNode, IsNode
  <2>4. n.id[1] # "service" /\ (n.id[1] = "module" => n.kind = "module")
    BY <1>1, <1>2, <2>2 DEF SoundSnapshot
  <2> QED
    BY <1>1, <2>2, <2>3, <2>4 DEF NodeInv, OwnService
<1>5. NodesInv
  <2>1. Len(nodes) \in Nat /\ DOMAIN nodes = 1 .. Len(nodes)
        /\ nodes = [i \in 1 .. Len(nodes) |-> nodes[i]]
    BY <1>3
  <2>2. \A i, j \in DOMAIN nodes : nodes[i].id = nodes[j].id => i = j
    BY <1>1, <1>2 DEF SoundSnapshot
  <2> QED
    BY <1>1, <1>4, <2>1, <2>2 DEF NodesInv
<1>6. EdgesInv
  BY <1>1, <1>2 DEF SoundSnapshot, EdgesInv, NoParallelLinks
<1>7. DOMAIN tasks = {} /\ Len(tasks) = 0 /\ DOMAIN tasks = 1 .. 0
  BY <1>1
<1>8. TasksInv
  BY <1>1, <1>7 DEF TasksInv
<1>9. GosInv
  <2>1. step \in [DOMAIN tasks -> GoSteps]
    BY <1>1, <1>7
  <2>2. DOMAIN results = DOMAIN tasks /\ DOMAIN out = DOMAIN tasks
        /\ results = [t \in DOMAIN tasks |-> results[t]] /\ out = [t \in DOMAIN tasks |-> out[t]]
    BY <1>1, <1>7
  <2>3. GoTyping
    BY <1>1, <1>7, <2>1, <2>2 DEF GoTyping, Passes
  <2> QED
    BY <1>1, <1>7, <2>3 DEF GosInv, CallsInv
<1>10. CommentsInv
  BY <1>4 DEF CommentsInv, CommentSound
<1>11. DetectedInv
  BY <1>1 DEF DetectedInv
<1> QED
  BY <1>5, <1>6, <1>8, <1>9, <1>10, <1>11 DEF PassInv

\* Before the service detector there are no services.
LEMMA NotDetected ==
  ASSUME DetectedInv, pc # "load", pc' # "load", services' = services
  PROVE  DetectedInv'
BY DEF DetectedInv

\* Every pass keeps PassInv.
LEMMA MainKeepsPasses ==
  ASSUME PassInv, Main
  PROVE  PassInv'
<1> USE DEF PassInv
<1>1. CASE LinkTopics
  <2>1. /\ pc = "topics" /\ pc' = "entities" /\ UNCHANGED <<project, nodes, pool, calls, services>>
    BY <1>1 DEF LinkTopics, At
  <2>2. NodesInv' /\ EdgesInv'
    BY <1>1, TopicsKeep
  <2>3. TasksInv' /\ GosInv'
    BY <2>1, EarlyKeeps DEF Passes
  <2>4. CommentsInv'
    BY <2>1, Reflexive, CommentsStay DEF BeforeLexical
  <2> QED
    BY <2>1, <2>2, <2>3, <2>4, NotDetected
<1>2. CASE LinkEntities
  <2>1. /\ pc = "entities" /\ pc' = "modules" /\ UNCHANGED <<project, nodes, pool, calls, services>>
    BY <1>2 DEF LinkEntities, At
  <2>2. NodesInv' /\ EdgesInv'
    BY <1>2, EntitiesKeep
  <2>3. TasksInv' /\ GosInv'
    BY <2>1, EarlyKeeps DEF Passes
  <2>4. CommentsInv'
    BY <2>1, Reflexive, CommentsStay DEF BeforeLexical
  <2> QED
    BY <2>1, <2>2, <2>3, <2>4, NotDetected
<1>3. CASE LinkModules
  <2>1. /\ pc = "modules" /\ pc' = "layers" /\ UNCHANGED <<project, pool, calls, services>>
    BY <1>3 DEF LinkModules, At
  <2>2. /\ NodesInv' /\ EdgesInv'
        /\ \A i \in DOMAIN nodes' :
             \/ i \in DOMAIN nodes /\ nodes'[i] = nodes[i]
             \/ nodes'[i].comment = NoComment
    BY <1>3, ModulesKeep
  <2>3. TasksInv' /\ GosInv'
    BY <2>1, EarlyKeeps DEF Passes
  <2>4. CommentsInv'
    BY <2>1, <2>2, CommentsOfModules DEF BeforeLexical
  <2> QED
    BY <2>1, <2>2, <2>3, <2>4, NotDetected
<1>4. CASE Classify
  <2>1. /\ pc = "layers" /\ pc' = "lexical" /\ UNCHANGED <<project, edges, pool, calls, services>>
    BY <1>4 DEF Classify, At
  <2>2. /\ NodesInv' /\ EdgesInv' /\ Rewrites(nodes, nodes')
        /\ \A i \in DOMAIN nodes : nodes'[i].comment = nodes[i].comment
    BY <1>4, ClassifyKeeps
  <2>3. TasksInv' /\ GosInv'
    BY <2>1, EarlyKeeps DEF Passes
  <2>4. CommentsInv'
    BY <2>1, <2>2, CommentsStay DEF BeforeLexical
  <2> QED
    BY <2>1, <2>2, <2>3, <2>4, NotDetected
<1>5. CASE EnrichLexical
  <2>1. /\ pc = "lexical" /\ pc' = "group" /\ UNCHANGED <<project, edges, pool, calls, services>>
    BY <1>5 DEF EnrichLexical, At
  <2>2. NodesInv' /\ EdgesInv'
    BY <1>5, LexicalKeeps
  <2>3. TasksInv' /\ GosInv'
    BY <2>1, EarlyKeeps DEF Passes
  <2>4. CommentsInv'
    BY <1>5, LexicalComments
  <2> QED
    BY <2>1, <2>2, <2>3, <2>4, NotDetected
<1>6. CASE GroupFiles
  <2>1. /\ pc = "group" /\ pc' = "extract" /\ UNCHANGED <<project, nodes, edges, calls, services>>
    BY <1>6 DEF GroupFiles, At
  <2>2. NodesInv' /\ EdgesInv'
    BY <2>1, SameNodes
  <2>3. TasksInv' /\ GosInv'
    BY <1>6, GroupKeeps
  <2>4. CommentsInv'
    BY <2>1, Reflexive, CommentsStay DEF BeforeLexical
  <2> QED
    BY <2>1, <2>2, <2>3, <2>4, NotDetected
<1>7. CASE Spawn
  <2>1. /\ pc = "extract" /\ pc' = pc /\ UNCHANGED <<project, nodes, edges, tasks, results, out, calls, services>>
        /\ spawned < Len(tasks) /\ spawned' = spawned + 1
        /\ step' = [step EXCEPT ![spawned + 1] = "read"]
    BY <1>7 DEF Spawn
  <2>2. NodesInv' /\ EdgesInv'
    BY <2>1, SameNodes
  <2>3. GoTyping /\ spawned + 1 \in DOMAIN tasks
    BY <2>1 DEF GosInv, GoTyping, TasksInv
  <2>4. Rewrites(nodes, nodes')
    BY <2>1, Reflexive
  <2>5. TasksInv'
    BY <2>1, TasksStay
  <2>6. step \in [DOMAIN tasks -> GoSteps]
    BY <2>3 DEF GoTyping
  <2>7. /\ step' \in [DOMAIN tasks -> GoSteps] /\ step'[spawned + 1] = "read"
        /\ \A t \in DOMAIN tasks \ {spawned + 1} : step'[t] = step[t]
    BY <2>1, <2>3, <2>6 DEF GoSteps
  <2>8. GoTyping'
    BY <2>1, <2>3, <2>7 DEF GoTyping, TasksInv
  <2>9. spawned \in Nat /\ spawned + 1 > spawned
    BY <2>3 DEF GoTyping, TasksInv
  <2>10. ASSUME NEW t \in DOMAIN tasks PROVE GoInv(t)'
    <3>1. Reads(t)' = Reads(t) /\ Extracted(t)' = Extracted(t) /\ CallsOf(t)' = CallsOf(t)
      BY <2>1, <2>4, SameCalls
    <3>2. CASE t = spawned + 1
      <4>1. step[t] = "unborn" /\ GoInv(t)
        BY <2>9, <3>2 DEF GosInv, GoInv
      <4>2. out[t] = <<>>
        BY <4>1 DEF GoInv
      <4>3. step'[t] = "read" /\ ~ (t > spawned')
        BY <2>1, <2>7, <2>9, <3>2
      <4> QED
        BY <2>1, <4>2, <4>3 DEF GoInv
    <3>3. CASE t # spawned + 1
      <4>1. step'[t] = step[t] /\ GoInv(t) /\ t \in Int
        BY <2>7, <3>3 DEF GosInv, TasksInv
      <4>2. t > spawned' => t > spawned
        BY <2>1, <2>9, <4>1
      <4> QED
        BY <2>1, <3>1, <4>1, <4>2 DEF GoInv
    <3> QED
      BY <3>2, <3>3
  <2>11. CommentsInv'
    BY <2>1, <2>4, CommentsStay DEF BeforeLexical
  <2>12. GosInv'
    BY <2>1, <2>8, <2>10 DEF GosInv, CallsInv
  <2> QED
    BY <2>1, <2>2, <2>5, <2>11, <2>12, NotDetected
<1>8. CASE AppendCalls
  <2>1. /\ pc = "extract" /\ pc' = "services" /\ UNCHANGED <<project, nodes, edges, pool, services>>
        /\ calls' = FlattenSeq(out) /\ \A t \in DOMAIN tasks : step[t] \in {"return", "gone"}
    BY <1>8 DEF AppendCalls
  <2>2. NodesInv' /\ EdgesInv'
    BY <2>1, SameNodes
  <2>3. TasksInv'
    BY <2>1, TasksStay DEF pool
  <2>4. Rewrites(nodes, nodes') /\ UNCHANGED <<tasks, spawned, step, results, out>>
    BY <2>1, Reflexive DEF pool
  <2>5. GosInv'
    <3>1. GoTyping'
      BY <2>1, <2>4 DEF GosInv, GoTyping, Passes
    <3>2. ASSUME NEW t \in DOMAIN tasks PROVE GoInv(t)'
      <4>1. Reads(t)' = Reads(t) /\ Extracted(t)' = Extracted(t) /\ CallsOf(t)' = CallsOf(t)
        BY <2>1, <2>4, SameCalls
      <4> QED
        BY <2>4, <4>1 DEF GosInv, GoInv
    <3> QED
      BY <2>1, <2>4, <3>1, <3>2 DEF GosInv, CallsInv
  <2>6. CommentsInv'
    BY <2>1, <2>4, CommentsStay DEF BeforeLexical
  <2> QED
    BY <2>1, <2>2, <2>3, <2>5, <2>6, NotDetected
<1>9. CASE DetectServices
  <2>1. /\ pc = "services" /\ pc' = "load" /\ UNCHANGED <<project, tasks, spawned, step, results, out, calls>>
    BY <1>9 DEF DetectServices, At, pool
  <2>2. NodesInv' /\ EdgesInv' /\ DetectedInv'
    BY <1>9, DetectKeeps
  <2>3. Rewrites(nodes, nodes') /\ \A i \in DOMAIN nodes : nodes'[i].comment = nodes[i].comment
    BY <1>9, DetectRewrites
  <2>4. TasksInv'
    <3>1. DOMAIN nodes' = DOMAIN nodes
      BY <2>3 DEF Rewrites
    <3> QED
      BY <2>1, <3>1, TasksStay
  <2>5. GosInv'
    <3>1. GoTyping'
      BY <2>1 DEF GosInv, GoTyping, Passes
    <3>2. ASSUME NEW t \in DOMAIN tasks PROVE GoInv(t)'
      <4>1. Reads(t)' = Reads(t) /\ Extracted(t)' = Extracted(t) /\ CallsOf(t)' = CallsOf(t)
        BY <2>1, <2>3, SameCalls
      <4> QED
        BY <2>1, <4>1 DEF GosInv, GoInv
    <3> QED
      BY <2>1, <3>1, <3>2 DEF GosInv, CallsInv
  <2>6. CommentsInv'
    BY <2>1, <2>3, CommentsStay DEF BeforeLexical
  <2> QED
    BY <2>2, <2>4, <2>5, <2>6
<1> QED
  BY <1>1, <1>2, <1>3, <1>4, <1>5, <1>6, <1>7, <1>8, <1>9 DEF Main

-----------------------------------------------------------------------------
(* The calls *)

\* The edges an extractor can make.
CallSet ==
  {Edge("calls", from, to, NoSource, line) : from \in Ids(nodes), to \in Ids(nodes), line \in Nat}

\* What is read of a file.
CallSite == [text : Seq(STRING), line : Nat]
FoundDecl == [name : Seq(STRING), calls : Seq(CallSite)]
FoundDecls == Seq(FoundDecl)

\* There are as many IDs as nodes.
LEMMA IdsFinite ==
  ASSUME NodesInv
  PROVE  IsFiniteSet(Ids(nodes)) /\ Cardinality(Ids(nodes)) = Len(nodes)
<1> DEFINE n == Len(nodes)
           f == [i \in 1 .. n |-> nodes[i].id]
<1>1. n \in Nat /\ DOMAIN nodes = 1 .. n
  BY DEF NodesInv
<1>2. IsFiniteSet(1 .. n) /\ Cardinality(1 .. n) = n
  <2> HIDE DEF n
  <2> QED
    BY <1>1, FS_Interval
<1>3. f \in Surjection(1 .. n, Ids(nodes))
  <2>1. \A i \in 1 .. n : f[i] = nodes[i].id
    OBVIOUS
  <2>2. f \in [1 .. n -> Ids(nodes)]
    BY <1>1 DEF Ids
  <2>3. \A x \in Ids(nodes) : \E i \in 1 .. n : f[i] = x
    BY <1>1 DEF Ids
  <2> HIDE DEF f
  <2> QED
    BY <2>2, <2>3, Zenon DEF Surjection
<1>4. f \in Injection(1 .. n, Ids(nodes))
  <2>1. \A i, j \in 1 .. n : f[i] = f[j] => i = j
    BY <1>1 DEF NodesInv
  <2>2. f \in [1 .. n -> Ids(nodes)]
    BY <1>3 DEF Surjection
  <2> HIDE DEF f
  <2> QED
    BY <2>1, <2>2 DEF Injection, IsInjective
<1> HIDE DEF f, n
<1>5. IsFiniteSet(Ids(nodes)) /\ Cardinality(Ids(nodes)) = Cardinality(1 .. n)
  BY <1>2, <1>3, <1>4, FS_Surjection
<1> QED
  BY <1>2, <1>5 DEF n

\* A callee is a node.
LEMMA CalleeKnown ==
  ASSUME NEW language \in Languages, NEW text
  PROVE  Callee(language, nodes, text) \subseteq Ids(nodes)
<1>1. \A name : Registered(nodes, name) \subseteq Ids(nodes)
  BY DEF Registered, Ids
<1>2. \A name : SingleMatch(nodes, name) \subseteq Ids(nodes)
  BY DEF SingleMatch, Ids, OfKind
<1>3. CASE language = "java"
  BY <1>2, <1>3 DEF Callee, JavaCallee
<1>4. CASE language = "go"
  BY <1>1, <1>4 DEF Callee, GoCallee
<1>5. CASE language = "python"
  BY <1>1, <1>5 DEF Callee, PythonCallee
<1>6. CASE language = "typescript"
  BY <1>1, <1>6 DEF Callee, TypeScriptCallee
<1> QED
  BY <1>3, <1>4, <1>5, <1>6 DEF Languages

\* The calls of a declaration.
LEMMA DeclarationCalls ==
  ASSUME NEW content, content.decls \in FoundDecls, NEW label
  PROVE  Declaration(content, label) \in Seq(CallSite)
<1> DEFINE k == SelectInSeq(content.decls, LAMBDA d : d.name = label)
           I == {i \in 1 .. Len(content.decls) : content.decls[i].name = label}
<1>1. k = IF I # {} THEN Min(I) ELSE 0
  BY DEF SelectInSeq
<1>2. I # {} => Min(I) \in I
  <2>1. I \in SUBSET Nat
    OBVIOUS
  <2> HIDE DEF I
  <2> SUFFICES ASSUME I # {} PROVE Min(I) \in I
    OBVIOUS
  <2>2. \E n \in I : \A m \in I : n <= m
    BY <2>1, LeastNumber
  <2> QED
    BY <2>2 DEF Min
<1>3. k = 0 \/ k \in 1 .. Len(content.decls)
  BY <1>1, <1>2
<1>4. Declaration(content, label) = IF k = 0 THEN <<>> ELSE content.decls[k].calls
  BY DEF Declaration
<1> HIDE DEF k
<1>5. CASE k = 0
  BY <1>4, <1>5
<1>6. CASE k \in 1 .. Len(content.decls)
  <2>1. content.decls[k] \in FoundDecl
    BY <1>6 DEF FoundDecls
  <2>2. content.decls[k].calls \in Seq(CallSite)
    BY <2>1 DEF FoundDecl
  <2>3. k # 0
    BY <1>6
  <2> QED
    BY <1>4, <2>2, <2>3
<1> QED
  BY <1>3, <1>5, <1>6

\* The edges made of them lead from node to node.
LEMMA CallEdgesTyped ==
  ASSUME NodesInv, NEW language \in Languages, NEW node, node.id \in Ids(nodes),
         NEW content, content.decls \in FoundDecls
  PROVE  CallEdges(language, nodes, node, content) \in Seq(CallSet)
<1> DEFINE sites == Declaration(content, node.label)
           callees(k) == Callee(language, nodes, sites[k].text) \ {node.id}
           made(k) == {CallEdge(node.id, to, sites[k].line) : to \in callees(k)}
           seqs == [k \in DOMAIN sites |-> SetToSeq(made(k))]
<1>1. sites \in Seq(CallSite)
  BY DeclarationCalls
<1>2. Len(sites) \in Nat /\ DOMAIN sites = 1 .. Len(sites)
      /\ \A k \in DOMAIN sites : sites[k].line \in Nat
  <2> HIDE DEF sites
  <2>1. Len(sites) \in Nat /\ DOMAIN sites = 1 .. Len(sites)
        /\ \A k \in DOMAIN sites : sites[k] \in CallSite
    BY <1>1
  <2> QED
    BY <2>1 DEF CallSite
<1>3. ASSUME NEW k \in DOMAIN sites PROVE SetToSeq(made(k)) \in Seq(CallSet)
  <2>1. callees(k) \subseteq Ids(nodes)
    BY CalleeKnown
  <2>2. IsFiniteSet(callees(k))
    <3>1. IsFiniteSet(Ids(nodes))
      BY IdsFinite
    <3> HIDE DEF callees
    <3> QED
      BY <2>1, <3>1, FS_Subset
  <2> DEFINE f == [to \in callees(k) |-> CallEdge(node.id, to, sites[k].line)]
  <2>3. f \in Surjection(callees(k), made(k))
    <3> HIDE DEF callees
    <3>1. f \in [callees(k) -> made(k)]
      OBVIOUS
    <3>2. \A x \in made(k) : \E to \in callees(k) : f[to] = x
      OBVIOUS
    <3> HIDE DEF f, made
    <3> QED
      BY <3>1, <3>2, Zenon DEF Surjection
  <2>4. IsFiniteSet(made(k))
    <3> HIDE DEF f, callees, made
    <3> QED
      BY <2>2, <2>3, FS_Surjection
  <2>5. made(k) \subseteq CallSet
    BY <1>2, <2>1 DEF CallEdge, CallSet
  <2>6. SetToSeq(made(k)) \in Seq(made(k))
    <3> HIDE DEF made
    <3> QED
      BY <2>4, SeqOfSet
  <2> HIDE DEF made
  <2> QED
    BY <2>5, <2>6
<1>4. seqs \in Seq(Seq(CallSet))
  <2> DEFINE n == Len(sites)
  <2>1. seqs = [k \in 1 .. n |-> seqs[k]] /\ \A k \in 1 .. n : seqs[k] \in Seq(CallSet)
    BY <1>2, <1>3
  <2> HIDE DEF seqs, sites
  <2>2. n \in Nat
    BY <1>2
  <2> HIDE DEF n
  <2> QED
    BY <2>1, <2>2
<1>5. CallEdges(language, nodes, node, content) = FlattenSeq(seqs)
  BY DEF CallEdges
<1> HIDE DEF seqs
<1> QED
  BY <1>4, <1>5, FlattenElements

\* So do the calls of a file.
LEMMA CallsTyped ==
  ASSUME NodesInv, TasksInv, NEW t \in DOMAIN tasks
  PROVE  CallsOf(t) \in Seq(CallSet)
<1>1. CASE ~ Reads(t)
  BY <1>1 DEF CallsOf
<1>2. CASE Reads(t)
  <2> DEFINE own == tasks[t].own
             seqs == [j \in DOMAIN Extracted(t) |-> Extracted(t)[j].edges]
  <2>1. Len(own) \in Nat /\ own \in [1 .. Len(own) -> DOMAIN nodes] /\ Language(t) \in Languages
    BY DEF TasksInv
  <2>2. Content(t).decls \in FoundDecls
    BY <1>2, ProjectAssumption DEF NodesInv, SoundDisk, Reads, Content, FoundDecls, FoundDecl, CallSite
  <2>3. DOMAIN Extracted(t) = DOMAIN own
    BY DEF Extracted, ExtractFromTree
  <2>4. ASSUME NEW j \in DOMAIN own PROVE Extracted(t)[j].edges \in Seq(CallSet)
    <3>1. Extracted(t)[j].edges = IF nodes[own[j]].kind = "method"
                                  THEN CallEdges(Language(t), nodes, nodes[own[j]], Content(t))
                                  ELSE <<>>
      BY DEF Extracted, ExtractFromTree
    <3>2. nodes[own[j]].id \in Ids(nodes)
      BY <2>1 DEF Ids
    <3>3. CallEdges(Language(t), nodes, nodes[own[j]], Content(t)) \in Seq(CallSet)
      BY <2>1, <2>2, <3>2, CallEdgesTyped
    <3> QED
      BY <3>1, <3>3
  <2>5. seqs \in Seq(Seq(CallSet))
    <3>1. seqs = [j \in 1 .. Len(own) |-> seqs[j]] /\ \A j \in 1 .. Len(own) : seqs[j] \in Seq(CallSet)
      BY <2>1, <2>3, <2>4
    <3> HIDE DEF seqs
    <3> QED
      BY <2>1, <3>1
  <2>6. CallsOf(t) = FlattenSeq(seqs)
    BY <1>2 DEF CallsOf
  <2> HIDE DEF seqs
  <2> QED
    BY <2>5, <2>6, FlattenElements
<1> QED
  BY <1>1, <1>2

\* And so do those that are loaded.
LEMMA LoadedCalls ==
  ASSUME NodesInv, TasksInv, GosInv, pc \in {"services", "load"}
  PROVE  \A e \in Range(calls) : {e.from, e.to} \subseteq Ids(nodes)
<1>1. ASSUME NEW t \in DOMAIN tasks PROVE out[t] \in Seq(CallSet)
  <2>1. out[t] = CallsOf(t)
    BY DEF GosInv, CallsInv, GoInv
  <2> QED
    BY <2>1, CallsTyped
<1>2. out \in Seq(Seq(CallSet))
  <2>1. Len(tasks) \in Nat /\ DOMAIN tasks = 1 .. Len(tasks)
    BY DEF TasksInv
  <2>2. out = [t \in DOMAIN tasks |-> out[t]]
    BY DEF GosInv, GoTyping
  <2> QED
    BY <1>1, <2>1, <2>2
<1>3. calls \in Seq(CallSet)
  BY <1>2, FlattenElements DEF GosInv, CallsInv
<1>4. Range(calls) \subseteq CallSet
  BY <1>3 DEF Range
<1> QED
  BY <1>4 DEF CallSet, Edge

-----------------------------------------------------------------------------
(* The services *)

\* The directories that have a service.
Dirs == DOMAIN Labels

\* There are finitely many directories with a service.
LEMMA DirsKnown ==
  ASSUME NEW p \in Projects, project = p
  PROVE  IsFiniteSet(Dirs) /\ Dirs \subseteq Seq(STRING) /\ Dirs = DOMAIN Modules(project.tree)
<1> DEFINE tree == project.tree
           found == {d \in DOMAIN tree : Walked(d) /\ tree[d] # {}}
<1>1. IsFiniteSet(DOMAIN tree) /\ DOMAIN tree \subseteq Seq(STRING)
  BY ProjectAssumption DEF SoundDisk
<1>2. IsFiniteSet(found)
  <2>1. found \in SUBSET DOMAIN tree
    OBVIOUS
  <2> HIDE DEF found
  <2> QED
    BY <1>1, <2>1, FS_Subset
<1>3. DOMAIN Modules(project.tree) = IF found = {} THEN {<<>>} ELSE found
  BY DEF Modules
<1>4. IsFiniteSet({<<>>}) /\ <<>> \in Seq(STRING)
  <2>1. <<>> \in Seq(STRING)
    OBVIOUS
  <2> QED
    BY <2>1, FS_Singleton, Zenon
<1>5. Dirs = DOMAIN Modules(project.tree)
  BY DEF Dirs, Labels, ServiceLabels
<1> QED
  BY <1>1, <1>2, <1>3, <1>4, <1>5

\* A directory around a path is a prefix of it.
LEMMA MatchingPrefix ==
  ASSUME NEW dir \in Seq(STRING), NEW path \in Seq(STRING), Matches(dir, path)
  PROVE  Len(dir) \in 0 .. Len(path) /\ \A i \in 1 .. Len(dir) : dir[i] = path[i]
BY DEF Matches, IsPrefix

\* Of the directories around a path, the deepest is the one it is assigned to.
LEMMA DeepestDir ==
  ASSUME NEW dirs, dirs \subseteq Seq(STRING), NEW path \in Seq(STRING)
  PROVE  /\ \A d \in MatchDir(dirs, path) :
              /\ d \in dirs /\ Matches(d, path)
              /\ \A e \in dirs : Matches(e, path) => Len(e) =< Len(d)
         /\ \A d, e \in MatchDir(dirs, path) : d = e
         /\ MatchDir(dirs, path) = {} => \A d \in dirs : ~ Matches(d, path)
<1> DEFINE around == {d \in dirs : Matches(d, path)}
<1>1. \A d \in around : d \in Seq(STRING) /\ Len(d) \in 0 .. Len(path)
                        /\ \A i \in 1 .. Len(d) : d[i] = path[i]
  BY MatchingPrefix
<1>2. MatchDir(dirs, path) = {d \in around : \A e \in around \ {d} : ~ (Len(e) > Len(d))}
  BY DEF MatchDir, Deeper
<1>3. \A d \in MatchDir(dirs, path) : d \in around /\ \A e \in around : Len(e) =< Len(d)
  <2> HIDE DEF around
  <2> QED
    BY <1>1, <1>2
<1>4. ASSUME NEW d \in MatchDir(dirs, path), NEW e \in MatchDir(dirs, path) PROVE d = e
  <2>1. d \in around /\ e \in around /\ Len(d) =< Len(e) /\ Len(e) =< Len(d)
    <3> HIDE DEF around
    <3> QED
      BY <1>3
  <2> HIDE DEF around
  <2>2. Len(d) = Len(e)
    BY <1>1, <2>1
  <2>3. d \in Seq(STRING) /\ e \in Seq(STRING) /\ \A i \in 1 .. Len(d) : d[i] = e[i]
    BY <1>1, <2>1, <2>2
  <2> QED
    BY <2>2, <2>3
<1>5. ASSUME NEW d \in around PROVE MatchDir(dirs, path) # {}
  <2> DEFINE lengths == {Len(e) + 1 : e \in around}
             n == Len(path) + 1
  <2>1. n \in Nat /\ lengths \in SUBSET (1 .. n) /\ lengths # {}
    BY <1>1
  <2>2. PICK m \in lengths : \A l \in lengths : l <= m
    <3> HIDE DEF lengths, n
    <3> QED
      BY <2>1, MaxOfIndices
  <2>3. PICK e \in around : m = Len(e) + 1
    BY <2>2
  <2>4. \A f \in around : ~ (Len(f) > Len(e))
    <3> SUFFICES ASSUME NEW f \in around PROVE ~ (Len(f) > Len(e))
      OBVIOUS
    <3>1. Len(f) + 1 <= Len(e) + 1
      BY <2>2, <2>3
    <3> HIDE DEF around
    <3> QED
      BY <1>1, <3>1
  <2> HIDE DEF around
  <2> QED
    BY <1>2, <2>3, <2>4
<1> HIDE DEF around
<1>6. MatchDir(dirs, path) = {} => around = {}
  BY <1>5
<1> QED
  BY <1>3, <1>4, <1>6 DEF around

\* Service IDs differ from one another and from those of other nodes.
LEMMA ServicesFinite ==
  ASSUME NEW p \in Projects, project = p,
         services = Services(nodes, Labels, Modules(project.tree))
  PROVE  LET ids == {s.id : s \in services}
         IN /\ IsFiniteSet(services) /\ IsFiniteSet(ids)
            /\ Cardinality(ids) = Cardinality(services)
            /\ \A x \in ids : x[1] = "service"
<1> DEFINE ids == {s.id : s \in services}
           service(d) == ServiceNode(nodes, Labels, Modules(project.tree), d)
           f == [d \in Dirs |-> service(d)]
           g == [s \in services |-> s.id]
<1>1. services = {service(d) : d \in Dirs}
  BY DEF Services, Dirs
<1>2. \A d : service(d).dir = d /\ service(d).id = <<"service", d, Labels[d]>>
  BY DEF ServiceNode, ServiceId
<1> HIDE DEF service
<1>3. IsFiniteSet(services)
  <2>1. f \in [Dirs -> services] /\ \A s \in services : \E d \in Dirs : f[d] = s
    BY <1>1
  <2>2. f \in Surjection(Dirs, services)
    <3> HIDE DEF f
    <3> QED
      BY <2>1, Zenon DEF Surjection
  <2>3. IsFiniteSet(Dirs)
    BY DirsKnown
  <2> HIDE DEF f
  <2> QED
    BY <2>2, <2>3, FS_Surjection
<1>4. \A s, r \in services : s.id = r.id => s = r
  <2> SUFFICES ASSUME NEW s \in services, NEW r \in services, s.id = r.id PROVE s = r
    OBVIOUS
  <2>1. PICK d \in Dirs : s = service(d)
    BY <1>1
  <2>2. PICK e \in Dirs : r = service(e)
    BY <1>1
  <2>3. <<"service", d, Labels[d]>> = <<"service", e, Labels[e]>>
    BY <1>2, <2>1, <2>2
  <2>4. d = e
    BY <2>3
  <2> QED
    BY <2>1, <2>2, <2>4
<1>5. g \in Surjection(services, ids) /\ g \in Injection(services, ids)
  <2>1. g \in [services -> ids] /\ (\A x \in ids : \E s \in services : g[s] = x)
        /\ \A s, r \in services : g[s] = g[r] => s = r
    BY <1>4
  <2> HIDE DEF g, ids
  <2> QED
    BY <2>1, Zenon DEF Surjection, Injection, IsInjective
<1> HIDE DEF g
<1>6. IsFiniteSet(ids) /\ Cardinality(ids) = Cardinality(services)
  <2> HIDE DEF ids
  <2> QED
    BY <1>3, <1>5, FS_Surjection
<1>7. \A x \in ids : x[1] = "service"
  BY <1>1, <1>2
<1> QED
  BY <1>3, <1>6, <1>7

\* The nodes have one ID each, and no edge dangles.
LEMMA LoadIsAccepted ==
  PassInv => LoadAccepted
<1> SUFFICES ASSUME PassInv, pc = "load"
             PROVE  LET ids == Ids(nodes) \cup {s.id : s \in services}
                    IN /\ Cardinality(ids) = Len(nodes) + Cardinality(services)
                       /\ \A e \in edges \cup Range(calls) : {e.from, e.to} \subseteq ids
  BY DEF LoadAccepted, Loaded
<1> USE DEF PassInv
<1> DEFINE sids == {s.id : s \in services}
<1>1. /\ services = Services(nodes, Labels, Modules(project.tree)) /\ project \in Projects
      /\ \A e \in edges \ ServiceEdges(nodes, Labels) : {e.from, e.to} \subseteq Ids(nodes)
  BY DEF DetectedInv, NodesInv
<1>2. IsFiniteSet(Ids(nodes)) /\ Cardinality(Ids(nodes)) = Len(nodes)
  BY IdsFinite
<1>3. /\ IsFiniteSet(services) /\ IsFiniteSet(sids)
      /\ Cardinality(sids) = Cardinality(services)
      /\ \A x \in sids : x[1] = "service"
  BY <1>1, ServicesFinite
<1>4. Ids(nodes) \cap sids = {}
  <2>1. \A x \in Ids(nodes) : x[1] # "service"
    BY DEF Ids, NodesInv, NodeInv
  <2> HIDE DEF sids
  <2> QED
    BY <1>3, <2>1
<1>5. Cardinality(Ids(nodes) \cup sids) = Len(nodes) + Cardinality(services)
  <2> HIDE DEF sids
  <2>1. Cardinality(Ids(nodes) \cup sids)
          = Cardinality(Ids(nodes)) + Cardinality(sids) - Cardinality(Ids(nodes) \cap sids)
    BY <1>2, <1>3, FS_Union
  <2>2. Cardinality(Ids(nodes) \cap sids) = 0
    BY <1>4, FS_EmptySet
  <2>3. Cardinality(Ids(nodes)) \in Nat /\ Cardinality(sids) \in Nat
    BY <1>2, <1>3, FS_CardinalityType
  <2> QED
    BY <1>2, <1>3, <2>1, <2>2, <2>3
<1>6. ASSUME NEW e \in ServiceEdges(nodes, Labels)
      PROVE  {e.from, e.to} \subseteq Ids(nodes) \cup sids
  <2>1. \E i \in DOMAIN nodes : \E d \in MatchDir(DOMAIN Labels, nodes[i].path) :
          e.from = ServiceId(d, Labels[d]) /\ e.to = nodes[i].id
    BY ServiceEdge
  <2>2. PICK i \in DOMAIN nodes, d \in DOMAIN Labels :
          e.from = ServiceId(d, Labels[d]) /\ e.to = nodes[i].id
    BY <2>1 DEF MatchDir
  <2>3. ServiceNode(nodes, Labels, Modules(project.tree), d) \in services
        /\ ServiceNode(nodes, Labels, Modules(project.tree), d).id = ServiceId(d, Labels[d])
    BY <1>1 DEF Services, ServiceNode
  <2> QED
    BY <2>2, <2>3 DEF Ids
<1>7. \A e \in Range(calls) : {e.from, e.to} \subseteq Ids(nodes)
  BY LoadedCalls
<1>8. \A e \in edges \cup Range(calls) : {e.from, e.to} \subseteq Ids(nodes) \cup sids
  <2> HIDE DEF sids
  <2> QED
    BY <1>1, <1>6, <1>7
<1> QED
  BY <1>5, <1>8

\* The calls are those of the files in the order of the files.
LEMMA CallsAreDeterministic ==
  PassInv => CallsDeterministic
<1> SUFFICES ASSUME PassInv, pc \in {"services", "load"} PROVE CallsDeterministic
  BY DEF CallsDeterministic
<1> USE DEF PassInv
<1>1. calls = FlattenSeq(out) /\ out = [t \in DOMAIN tasks |-> out[t]]
      /\ \A t \in DOMAIN tasks : out[t] = CallsOf(t)
  BY DEF GosInv, CallsInv, GoTyping, GoInv
<1>2. calls = FlattenSeq([t \in DOMAIN tasks |-> CallsOf(t)])
  BY <1>1
<1> QED
  BY <1>2 DEF CallsDeterministic, CallsOf, Reads, Extracted, Language

\* The service of a directory.
ServiceAt(d) == ServiceNode(nodes, Labels, Modules(project.tree), d)

\* What is known when the passes are through: a service is made of its
\* directory, and its edges lead to the nodes that are assigned to it.
LEMMA ServiceFacts ==
  ASSUME PassInv, pc = "load"
  PROVE  /\ services = {ServiceAt(d) : d \in Dirs}
         /\ \A d : /\ ServiceAt(d).dir = d /\ ServiceAt(d).label = Labels[d]
                   /\ ServiceAt(d).detectedFrom = Modules(project.tree)[d]
                   /\ ServiceAt(d).endpoints = CountUnder(nodes, Labels, Labels[d], "endpoint")
                   /\ ServiceAt(d).entities = CountUnder(nodes, Labels, Labels[d], "entity")
         /\ \A d \in Dirs, i \in DOMAIN nodes :
              (\E e \in edges : e.from = ServiceAt(d).id /\ e.to = nodes[i].id)
                <=> d \in MatchDir(Dirs, nodes[i].path)
<1> USE DEF PassInv
<1>1. services = {ServiceAt(d) : d \in Dirs}
  BY DEF DetectedInv, Services, ServiceAt, Dirs
<1>2. \A d : /\ ServiceAt(d).dir = d /\ ServiceAt(d).label = Labels[d]
             /\ ServiceAt(d).id = <<"service", d, Labels[d]>>
             /\ ServiceAt(d).detectedFrom = Modules(project.tree)[d]
             /\ ServiceAt(d).endpoints = CountUnder(nodes, Labels, Labels[d], "endpoint")
             /\ ServiceAt(d).entities = CountUnder(nodes, Labels, Labels[d], "entity")
  BY DEF ServiceAt, ServiceNode, ServiceId
<1>3. ASSUME NEW d \in Dirs, NEW i \in DOMAIN nodes, NEW e \in edges,
             e.from = ServiceAt(d).id, e.to = nodes[i].id
      PROVE  d \in MatchDir(Dirs, nodes[i].path)
  <2>1. e.from = <<"service", d, Labels[d]>> /\ e.from[1] = "service"
    BY <1>2, <1>3
  <2>2. e.from \notin Ids(nodes)
    BY <2>1 DEF Ids, NodesInv, NodeInv
  <2>3. e \in ServiceEdges(nodes, Labels)
    BY <2>2 DEF DetectedInv
  <2>4. PICK j \in DOMAIN nodes : \E b \in MatchDir(Dirs, nodes[j].path) :
          e.from = ServiceId(b, Labels[b]) /\ e.to = nodes[j].id
    BY <2>3, ServiceEdge DEF Dirs
  <2>5. PICK b \in MatchDir(Dirs, nodes[j].path) :
          e.from = ServiceId(b, Labels[b]) /\ e.to = nodes[j].id
    BY <2>4
  <2>6. j = i
    BY <1>3, <2>5 DEF NodesInv
  <2>7. <<"service", d, Labels[d]>> = <<"service", b, Labels[b]>>
    BY <2>1, <2>5 DEF ServiceId
  <2>8. b = d
    BY <2>7
  <2> QED
    BY <2>5, <2>6, <2>8
<1>4. ASSUME NEW i \in DOMAIN nodes, NEW d \in MatchDir(Dirs, nodes[i].path)
      PROVE  \E e \in edges : e.from = ServiceAt(d).id /\ e.to = nodes[i].id
  <2> DEFINE e == Edge("contains", ServiceId(d, Labels[d]), nodes[i].id, NoSource, <<>>)
  <2>1. e \in ServiceEdges(nodes, Labels)
    BY DEF ServiceEdges, Dirs
  <2>2. e \in edges
    BY <2>1 DEF DetectedInv
  <2>3. e.from = ServiceAt(d).id /\ e.to = nodes[i].id
    BY <1>2 DEF Edge, ServiceId
  <2> HIDE DEF e
  <2> QED
    BY <2>2, <2>3
<1> QED
  BY <1>1, <1>2, <1>3, <1>4

\* The service of a node is that of the innermost directory.
LEMMA DeepestServes ==
  PassInv => ServiceOfDeepest
<1> SUFFICES ASSUME PassInv, pc = "load", NEW i \in DOMAIN nodes
             PROVE  LET own == IF i \in DOMAIN project.nodes THEN project.nodes[i].service ELSE None
                        around == {s \in services : Matches(s.dir, nodes[i].path)}
                        containing == {s \in services : \E e \in edges :
                                         e.from = s.id /\ e.to = nodes[i].id}
                    IN IF around = {} THEN nodes[i].service = own /\ containing = {}
                       ELSE \E s \in around : /\ \A r \in around : Len(r.dir) =< Len(s.dir)
                                              /\ nodes[i].service = s.label
                                              /\ containing = {s}
  BY DEF ServiceOfDeepest, Loaded
<1> DEFINE path == nodes[i].path
           around == {s \in services : Matches(s.dir, path)}
           containing == {s \in services : \E e \in edges :
                            e.from = s.id /\ e.to = nodes[i].id}
           M == MatchDir(Dirs, path)
<1>1. project \in Projects /\ path \in Seq(STRING)
  BY DEF PassInv, NodesInv, NodeInv
<1>2. Dirs \subseteq Seq(STRING)
  BY <1>1, DirsKnown
<1>3. /\ \A d \in M : /\ d \in Dirs /\ Matches(d, path)
                      /\ \A e \in Dirs : Matches(e, path) => Len(e) =< Len(d)
      /\ \A d, e \in M : d = e
      /\ M = {} => \A d \in Dirs : ~ Matches(d, path)
  <2> HIDE DEF path
  <2> QED
    BY <1>1, <1>2, DeepestDir
<1>4. /\ services = {ServiceAt(d) : d \in Dirs}
      /\ \A d : ServiceAt(d).dir = d /\ ServiceAt(d).label = Labels[d]
      /\ \A d \in Dirs : (\E e \in edges : e.from = ServiceAt(d).id /\ e.to = nodes[i].id)
                           <=> d \in M
  BY ServiceFacts
<1>5. nodes[i].service = IF NamesAt(path) = {} THEN OwnService(i)
                         ELSE CHOOSE l \in NamesAt(path) : TRUE
  BY DEF PassInv, DetectedInv
<1>6. NamesAt(path) = {Labels[d] : d \in M}
  BY DEF NamesAt, Dirs
<1>7. around = {ServiceAt(d) : d \in {b \in Dirs : Matches(b, path)}}
  BY <1>4
<1>8. containing = {ServiceAt(d) : d \in M}
  BY <1>3, <1>4
<1> HIDE DEF path, around, containing, M
<1>9. CASE M = {}
  <2>1. around = {} /\ containing = {} /\ NamesAt(path) = {}
    BY <1>3, <1>6, <1>7, <1>8, <1>9
  <2> QED
    BY <1>5, <2>1 DEF OwnService, around, containing, path
<1>10. CASE M # {}
  <2>1. PICK d \in M : TRUE
    BY <1>10
  <2>2. M = {d}
    BY <1>3, <2>1
  <2>3. ServiceAt(d) \in around /\ containing = {ServiceAt(d)} /\ NamesAt(path) = {Labels[d]}
    BY <1>3, <1>6, <1>7, <1>8, <2>2
  <2>4. nodes[i].service = ServiceAt(d).label
    BY <1>4, <1>5, <2>3
  <2>5. \A r \in around : Len(r.dir) =< Len(ServiceAt(d).dir)
    BY <1>3, <1>4, <1>7
  <2> QED
    BY <2>3, <2>4, <2>5 DEF around, containing, path
<1> QED
  BY <1>9, <1>10

\* A service counts the nodes that the services of its name contain.
LEMMA CountsAgree ==
  PassInv => CountsMatchContainment
<1> SUFFICES ASSUME PassInv, pc = "load", NEW s \in services
             PROVE  LET contained(kind) ==
                          {i \in OfKind(nodes, {kind}) :
                             \E r \in services, e \in edges :
                               r.label = s.label /\ e.from = r.id /\ e.to = nodes[i].id}
                    IN /\ s.endpoints = Cardinality(contained("endpoint"))
                       /\ s.entities = Cardinality(contained("entity"))
  BY DEF CountsMatchContainment, Loaded
<1> DEFINE contained(kind) ==
             {i \in OfKind(nodes, {kind}) :
                \E r \in services, e \in edges :
                  r.label = s.label /\ e.from = r.id /\ e.to = nodes[i].id}
<1>1. /\ services = {ServiceAt(d) : d \in Dirs}
      /\ \A d : /\ ServiceAt(d).label = Labels[d]
                /\ ServiceAt(d).endpoints = CountUnder(nodes, Labels, Labels[d], "endpoint")
                /\ ServiceAt(d).entities = CountUnder(nodes, Labels, Labels[d], "entity")
      /\ \A d \in Dirs, i \in DOMAIN nodes :
           (\E e \in edges : e.from = ServiceAt(d).id /\ e.to = nodes[i].id)
             <=> d \in MatchDir(Dirs, nodes[i].path)
  BY ServiceFacts
<1>2. PICK d \in Dirs : s = ServiceAt(d)
  BY <1>1
<1>3. \A i : MatchDir(Dirs, nodes[i].path) \subseteq Dirs
  BY DEF MatchDir
<1>4. ASSUME NEW kind
      PROVE  CountUnder(nodes, Labels, Labels[d], kind) = Cardinality(contained(kind))
  <2> DEFINE under == {i \in OfKind(nodes, {kind}) :
                         \E b \in MatchDir(DOMAIN Labels, nodes[i].path) : Labels[b] = Labels[d]}
  <2>1. CountUnder(nodes, Labels, Labels[d], kind) = Cardinality(under)
    BY DEF CountUnder
  <2>2. ASSUME NEW i \in OfKind(nodes, {kind})
        PROVE  (\E b \in MatchDir(Dirs, nodes[i].path) : Labels[b] = Labels[d])
                 <=> \E r \in services, e \in edges :
                       r.label = s.label /\ e.from = r.id /\ e.to = nodes[i].id
    <3>1. i \in DOMAIN nodes
      BY DEF OfKind
    <3>2. (\E r \in services, e \in edges :
             r.label = s.label /\ e.from = r.id /\ e.to = nodes[i].id)
          <=> \E b \in Dirs : Labels[b] = Labels[d] /\
                \E e \in edges : e.from = ServiceAt(b).id /\ e.to = nodes[i].id
      BY <1>1, <1>2
    <3> QED
      BY <1>1, <1>3, <3>1, <3>2
  <2>3. under = contained(kind)
    BY <2>2 DEF Dirs
  <2> HIDE DEF under, contained
  <2> QED
    BY <2>1, <2>3
<1> HIDE DEF contained
<1>5. /\ s.endpoints = Cardinality(contained("endpoint"))
      /\ s.entities = Cardinality(contained("entity"))
  BY <1>1, <1>2, <1>4
<1> QED
  BY <1>5 DEF contained

-----------------------------------------------------------------------------
(* The build files *)

\* The build files of Python.
PythonFiles == {"manage.py", "pyproject.toml", "requirements.txt", "setup.py"}

\* The build files, one by one.
LEMMA KnownFiles ==
  /\ DOMAIN BuildFiles = 1 .. 12
  /\ \A k \in 1 .. 12 :
       /\ BuildFiles[k] \in RealFiles \cup PythonFiles \cup SuffixFiles \cup {"Dockerfile", "nx.json"}
       /\ BuildFiles[k] # None
       /\ BuildFiles[k] = "build.gradle" <=> k = 4
       /\ BuildFiles[k] = "settings.gradle" <=> k = 11
<1>1. DOMAIN BuildFiles = 1 .. 12
  BY DEF BuildFiles
<1>2. \A k \in 1 .. 12 :
       /\ BuildFiles[k] \in RealFiles \cup PythonFiles \cup SuffixFiles \cup {"Dockerfile", "nx.json"}
       /\ BuildFiles[k] = "build.gradle" <=> k = 4
       /\ BuildFiles[k] = "settings.gradle" <=> k = 11
  BY DEF BuildFiles, RealFiles, PythonFiles, SuffixFiles
<1> QED
  BY <1>1, <1>2, NoneAssumption

\* The build files by their tools.
LEMMA KnownTools ==
  /\ \A f \in SuffixFiles : f \notin PythonFiles /\ f \notin RealFiles
                            /\ ~ IsPython(Tool(f)) /\ Tool(f) # "gradle"
  /\ \A f \in PythonFiles : f \notin RealFiles /\ f \notin SuffixFiles /\ IsPython(Tool(f))
                            /\ Tool(f) \notin SupplementalTools /\ Tool(f) # "gradle"
  /\ \A f \in RealFiles : f \notin SuffixFiles /\ ~ IsPython(Tool(f)) /\ Tool(f) \notin SupplementalTools
  /\ \A f \in {"Dockerfile", "nx.json"} : f \notin SuffixFiles /\ f \notin RealFiles /\ f \notin PythonFiles
                    /\ Tool(f) \in SupplementalTools /\ ~ IsPython(Tool(f)) /\ Tool(f) # "gradle"
  /\ Tool("build.gradle") = "gradle" /\ Tool("settings.gradle") = "gradle"
  /\ \A f \in RealFiles : Tool(f) = "gradle" => f \in {"build.gradle", "settings.gradle"}
<1>1. \A f \in SuffixFiles : f \notin PythonFiles /\ f \notin RealFiles
                            /\ ~ IsPython(Tool(f)) /\ Tool(f) # "gradle"
  BY DEF SuffixFiles, PythonFiles, RealFiles, IsPython, Tool
<1>2. \A f \in PythonFiles : f \notin RealFiles /\ f \notin SuffixFiles /\ IsPython(Tool(f))
                            /\ Tool(f) \notin SupplementalTools /\ Tool(f) # "gradle"
  BY DEF SuffixFiles, PythonFiles, RealFiles, IsPython, Tool, SupplementalTools
<1>3. \A f \in RealFiles : f \notin SuffixFiles /\ ~ IsPython(Tool(f)) /\ Tool(f) \notin SupplementalTools
  BY DEF SuffixFiles, RealFiles, IsPython, Tool, SupplementalTools
<1>4. \A f \in {"Dockerfile", "nx.json"} : f \notin SuffixFiles /\ f \notin RealFiles /\ f \notin PythonFiles
                    /\ Tool(f) \in SupplementalTools /\ ~ IsPython(Tool(f)) /\ Tool(f) # "gradle"
  BY DEF SuffixFiles, PythonFiles, RealFiles, IsPython, Tool, SupplementalTools
<1>5. Tool("build.gradle") = "gradle" /\ Tool("settings.gradle") = "gradle"
  BY DEF Tool, SuffixFiles
<1>6. \A f \in RealFiles : Tool(f) = "gradle" => f \in {"build.gradle", "settings.gradle"}
  BY DEF Tool, SuffixFiles, RealFiles
<1> QED
  BY <1>1, <1>2, <1>3, <1>4, <1>5, <1>6

\* The priorities of Python's files are numbers.
LEMMA PriorityIsNumber ==
  ASSUME NEW f PROVE PythonPriority(f) \in Int
<1>1. DOMAIN PythonBuildFiles = 1 .. 4
  BY DEF PythonBuildFiles
<1> QED
  BY <1>1 DEF PythonPriority, Parse

\* Every build file.
AllFiles == RealFiles \cup PythonFiles \cup SuffixFiles \cup {"Dockerfile", "nx.json"}

\* The file that names a directory's module when some of its files are visited.
RightFile(seen, v) ==
  /\ v \in seen \cup {None} /\ (v = None => seen = {})
  /\ seen \cap RealFiles # {} => v \in RealFiles
  /\ seen # {} /\ seen \subseteq PythonFiles =>
       \A f \in seen : PythonPriority(v) =< PythonPriority(f)
  /\ seen = {"build.gradle", "settings.gradle"} => v = "build.gradle"

\* One more file keeps the right one.
LEMMA VisitRight ==
  ASSUME NEW seen \in SUBSET AllFiles, None \notin seen, NEW v, RightFile(seen, v),
         NEW f \in AllFiles, f # None,
         f = "build.gradle" => "settings.gradle" \notin seen
  PROVE  RightFile(seen \cup {f}, VisitFile(v, f))
<1> DEFINE w == VisitFile(v, f)
           more == seen \cup {f}
<1>1. w \in {v, f} /\ (v = None => w = f)
  BY DEF VisitFile, RegisterModule
<1>2. w \in more \cup {None} /\ (w = None => more = {})
  BY <1>1 DEF RightFile
<1>3. v = None => seen = {}
  BY DEF RightFile
<1>4. v # None => v \in seen
  BY DEF RightFile
<1>5. more \cap RealFiles # {} => w \in RealFiles
  <2>1. CASE v = None
    BY <1>1, <1>3, <2>1
  <2>2. CASE v # None /\ f \in RealFiles
    <3>1. f \notin SuffixFiles /\ ~ IsPython(Tool(f)) /\ Tool(f) \notin SupplementalTools
      BY <2>2, KnownTools
    <3>2. w = f \/ Tool(v) = "gradle"
      <4>1. w = IF KeepsExisting(v, f) THEN v ELSE f
        BY <2>2, <3>1 DEF VisitFile, RegisterModule
      <4>2. KeepsExisting(v, f) <=> f = "settings.gradle" /\ Tool(v) = "gradle"
        BY <3>1 DEF KeepsExisting
      <4> QED
        BY <4>1, <4>2
    <3>3. v \in AllFiles
      BY <1>4, <2>2
    <3>4. Tool(v) = "gradle" => v \in RealFiles
      BY <3>3, KnownTools DEF AllFiles
    <3> QED
      BY <1>1, <2>2, <3>2, <3>4
  <2>3. CASE v # None /\ f \notin RealFiles /\ v \in RealFiles
    <3>1. ~ IsPython(Tool(v))
      BY <2>3, KnownTools
    <3>2. f \in PythonFiles \/ f \in SuffixFiles \/ f \in {"Dockerfile", "nx.json"}
      BY <2>3 DEF AllFiles
    <3>3. CASE f \in SuffixFiles
      BY <2>3, <3>3 DEF VisitFile
    <3>4. CASE f \in PythonFiles
      <4>1. IsPython(Tool(f)) /\ f \notin SuffixFiles
        BY <3>4, KnownTools
      <4> QED
        BY <2>3, <3>1, <4>1 DEF VisitFile, RegisterModule, KeepsExisting
    <3>5. CASE f \in {"Dockerfile", "nx.json"}
      <4>1. Tool(f) \in SupplementalTools /\ f \notin SuffixFiles
        BY <3>5, KnownTools
      <4> QED
        BY <2>3, <4>1 DEF VisitFile, RegisterModule, KeepsExisting
    <3> QED
      BY <3>2, <3>3, <3>4, <3>5
  <2>4. CASE f \notin RealFiles /\ v \notin RealFiles
    BY <2>4 DEF RightFile
  <2> QED
    BY <2>1, <2>2, <2>3, <2>4
<1>6. ASSUME more \subseteq PythonFiles, NEW g \in more
      PROVE  PythonPriority(w) =< PythonPriority(g)
  <2>1. PythonPriority(w) \in Int /\ PythonPriority(g) \in Int
        /\ PythonPriority(v) \in Int /\ PythonPriority(f) \in Int
    BY PriorityIsNumber
  <2>2. IsPython(Tool(f)) /\ f \notin SuffixFiles /\ Tool(f) \notin SupplementalTools
        /\ Tool(f) # "gradle"
    BY <1>6, KnownTools
  <2>3. CASE v = None
    BY <1>1, <1>3, <2>1, <2>3
  <2>4. CASE v # None
    <3>1. v \in PythonFiles /\ IsPython(Tool(v)) /\ Tool(v) # "gradle"
      BY <1>4, <1>6, <2>4, KnownTools
    <3>2. w = IF PythonPriority(f) >= PythonPriority(v) THEN v ELSE f
      BY <2>2, <2>4, <3>1 DEF VisitFile, RegisterModule, KeepsExisting
    <3>3. g # f => PythonPriority(v) =< PythonPriority(g)
      BY <1>4, <1>6, <2>4 DEF RightFile
    <3>4. PythonPriority(w) =< PythonPriority(v) /\ PythonPriority(w) =< PythonPriority(f)
      BY <2>1, <3>2
    <3> QED
      BY <2>1, <3>3, <3>4
  <2> QED
    BY <2>3, <2>4
<1>7. ASSUME more = {"build.gradle", "settings.gradle"} PROVE w = "build.gradle"
  <2>1. CASE f = "build.gradle"
    <3>1. seen \subseteq {"build.gradle"}
      BY <1>7, <2>1
    <3>2. v # None => v = "build.gradle"
      BY <1>4, <3>1
    <3> QED
      BY <1>1, <2>1, <3>2
  <2>2. CASE f = "settings.gradle"
    <3>1. "build.gradle" \in seen
      BY <1>7, <2>2
    <3>2. v # None
      BY <1>3, <3>1
    <3>3. v = "build.gradle"
      BY <1>4, <1>7, <2>2, <3>1, <3>2 DEF RightFile
    <3>4. f \notin SuffixFiles
      BY <2>2, KnownTools DEF RealFiles
    <3> QED
      BY <2>2, <3>2, <3>3, <3>4, KnownTools DEF VisitFile, RegisterModule, KeepsExisting
  <2> QED
    BY <1>7, <2>1, <2>2
<1> QED
  BY <1>2, <1>5, <1>6, <1>7 DEF RightFile

\* The files of a directory that are visited up to a place.
Seen(files, k) == {BuildFiles[j] : j \in 1 .. k} \cap files

\* RegisteredFile's recursion, place by place.
LEMMA VisitedSteps ==
  ASSUME NEW files
  PROVE  \E v \in [1 .. 12 -> Range(BuildFiles) \cup {None}] :
           /\ RegisteredFile(files) = v[12]
           /\ \A k \in 1 .. 12 :
                v[k] = IF BuildFiles[k] \in files
                       THEN VisitFile(IF k = 1 THEN None ELSE v[k - 1], BuildFiles[k])
                       ELSE IF k = 1 THEN None ELSE v[k - 1]
<1> DEFINE S == Range(BuildFiles) \cup {None}
           next(e, k) == IF BuildFiles[k] \in files THEN VisitFile(e, BuildFiles[k]) ELSE e
           base == next(None, 1)
           again == [p \in S \X (1 .. 12) |-> next(p[1], p[2])]
           Visits(v) == v = [k \in DOMAIN BuildFiles |->
                               LET before == IF k = 1 THEN None ELSE v[k - 1]
                               IN IF BuildFiles[k] \in files THEN VisitFile(before, BuildFiles[k])
                                  ELSE before]
<1>1. DOMAIN BuildFiles = 1 .. 12 /\ Len(BuildFiles) = 12
  BY DEF BuildFiles
<1>2. \A e, f : VisitFile(e, f) \in {e, f}
  BY DEF VisitFile, RegisterModule
<1>3. \A e \in S, k \in 1 .. 12 : next(e, k) \in S
  BY <1>1, <1>2 DEF Range
<1>4. base \in S /\ again \in [S \X (1 .. 12) -> S]
  <2>1. None \in S
    OBVIOUS
  <2> HIDE DEF next, S
  <2> QED
    BY <1>3, <2>1
<1>5. PICK g \in [1 .. 12 -> S] : IsRecursion(12, base, again, g)
  <2> HIDE DEF base, again, S
  <2> QED
    BY <1>4, RecursionDefined
<1>6. ASSUME NEW k \in 1 .. 12
      PROVE  g[k] = next(IF k = 1 THEN None ELSE g[k - 1], k)
  <2>1. CASE k = 1
    BY <1>5, <2>1 DEF IsRecursion
  <2>2. CASE k # 1
    <3>1. k - 1 \in 1 .. 12 /\ g[k - 1] \in S
      <4> HIDE DEF S
      <4> QED
        BY <1>5, <2>2
    <3>2. g[k] = again[<<g[k - 1], k>>]
      BY <1>5, <2>2 DEF IsRecursion
    <3>3. again[<<g[k - 1], k>>] = next(g[k - 1], k)
      <4> HIDE DEF next, S
      <4> QED
        BY <3>1
    <3> QED
      BY <2>2, <3>2, <3>3
  <2> QED
    BY <2>1, <2>2
<1>7. Visits(g)
  <2>1. g = [k \in DOMAIN BuildFiles |-> next(IF k = 1 THEN None ELSE g[k - 1], k)]
    <3>1. g = [k \in 1 .. 12 |-> g[k]]
      OBVIOUS
    <3> HIDE DEF next
    <3> QED
      BY <1>1, <1>6, <3>1
  <2> QED
    BY <2>1
<1> DEFINE h == CHOOSE v : Visits(v)
<1>8. Visits(h)
  <2> HIDE DEF Visits
  <2> QED
    BY <1>7
<1>9. RegisteredFile(files) = h[12]
  BY <1>1 DEF RegisteredFile
<1>10. \A k \in 1 .. 12 : h[k] = next(IF k = 1 THEN None ELSE h[k - 1], k)
  <2> HIDE DEF h
  <2> QED
    BY <1>1, <1>8
<1>11. h = [k \in 1 .. 12 |-> h[k]]
  <2> HIDE DEF h
  <2> QED
    BY <1>1, <1>8
<1> DEFINE T == {k \in 0 .. 12 : k = 0 \/ h[k] \in S}
<1> HIDE DEF h, S
<1>12. 0 .. 12 \subseteq T
  <2>1. 0 \in T
    OBVIOUS
  <2>2. ASSUME NEW k \in 0 .. 12 - 1, k \in T PROVE k + 1 \in T
    <3>1. k + 1 \in 1 .. 12 /\ (k + 1) - 1 = k /\ (k + 1 = 1 <=> k = 0)
      OBVIOUS
    <3>2. h[k + 1] = next(IF k = 0 THEN None ELSE h[k], k + 1)
      <4> HIDE DEF next
      <4> QED
        BY <1>10, <3>1
    <3>3. (IF k = 0 THEN None ELSE h[k]) \in S
      BY <2>2 DEF S
    <3>4. h[k + 1] \in S
      <4> HIDE DEF next
      <4> QED
        BY <1>3, <3>1, <3>2, <3>3
    <3> QED
      BY <3>1, <3>4
  <2> HIDE DEF T
  <2> QED
    BY <2>1, <2>2, Induction
<1>13. h \in [1 .. 12 -> S]
  BY <1>11, <1>12
<1> QED
  BY <1>9, <1>10, <1>13 DEF S

\* The file that a directory is registered with is the right one.
LEMMA RegisteredRight ==
  ASSUME NEW files, files \subseteq Range(BuildFiles)
  PROVE  RightFile(files, RegisteredFile(files))
<1>1. PICK v \in [1 .. 12 -> Range(BuildFiles) \cup {None}] :
           /\ RegisteredFile(files) = v[12]
           /\ \A k \in 1 .. 12 :
                v[k] = IF BuildFiles[k] \in files
                       THEN VisitFile(IF k = 1 THEN None ELSE v[k - 1], BuildFiles[k])
                       ELSE IF k = 1 THEN None ELSE v[k - 1]
  BY VisitedSteps
<1> DEFINE w(k) == IF k = 0 THEN None ELSE v[k]
           T == {k \in 0 .. 12 : RightFile(Seen(files, k), w(k))}
<1>2. 0 \in T
  <2>1. Seen(files, 0) = {}
    BY DEF Seen
  <2>2. RightFile({}, None)
    BY DEF RightFile
  <2> QED
    BY <2>1, <2>2
<1>3. ASSUME NEW k \in 0 .. 12 - 1, k \in T PROVE k + 1 \in T
  <2> DEFINE f == BuildFiles[k + 1]
  <2>1. k + 1 \in 1 .. 12 /\ k + 1 \in 0 .. 12 /\ (k + 1) - 1 = k /\ k + 1 # 0 /\ (k + 1 = 1 <=> k = 0)
    OBVIOUS
  <2>2. w(k + 1) = IF f \in files THEN VisitFile(w(k), f) ELSE w(k)
    BY <1>1, <2>1
  <2>3. Seen(files, k + 1) = IF f \in files THEN Seen(files, k) \cup {f} ELSE Seen(files, k)
    <3>1. 1 .. k + 1 = (1 .. k) \cup {k + 1}
      BY <2>1
    <3> QED
      BY <3>1 DEF Seen
  <2>4. RightFile(Seen(files, k), w(k))
    BY <1>3
  <2>5. f \in AllFiles /\ f # None
    BY <2>1, KnownFiles DEF AllFiles
  <2>6. Seen(files, k) \in SUBSET AllFiles /\ None \notin Seen(files, k)
    <3>1. \A j \in 1 .. k : j \in 1 .. 12
      OBVIOUS
    <3> QED
      BY <3>1, KnownFiles DEF Seen, AllFiles
  <2>7. f = "build.gradle" => "settings.gradle" \notin Seen(files, k)
    <3> SUFFICES ASSUME f = "build.gradle", NEW j \in 1 .. k, BuildFiles[j] = "settings.gradle"
                 PROVE  FALSE
      BY DEF Seen
    <3>1. j \in 1 .. 12
      OBVIOUS
    <3>2. k + 1 = 4 /\ j = 11
      BY <2>1, <3>1, KnownFiles
    <3> QED
      BY <3>2
  <2> HIDE DEF f, w
  <2>8. RightFile(Seen(files, k + 1), w(k + 1))
    BY <2>2, <2>3, <2>4, <2>5, <2>6, <2>7, VisitRight
  <2> QED
    BY <2>1, <2>8
<1> HIDE DEF T
<1>4. 12 \in T
  <2>1. 0 .. 12 \subseteq T
    BY <1>2, <1>3, Induction
  <2> QED
    BY <2>1
<1>5. Seen(files, 12) = files
  BY KnownFiles DEF Seen, Range
<1> QED
  BY <1>1, <1>4, <1>5 DEF T

-----------------------------------------------------------------------------
(* The theorems *)

\* So it is for every service.
LEMMA BuildFilesPrefer ==
  PassInv => BuildFilePriority
<1> SUFFICES ASSUME PassInv, pc = "load", NEW s \in services
             PROVE  LET files == IF s.dir \in DOMAIN project.tree THEN project.tree[s.dir] ELSE {}
                        python == {f \in files : IsPython(Tool(f))}
                    IN /\ files \cap RealFiles # {} => s.detectedFrom \in RealFiles
                       /\ python # {} /\ python = files =>
                            \A f \in files : PythonPriority(s.detectedFrom) =< PythonPriority(f)
                       /\ files = {"build.gradle", "settings.gradle"} =>
                            s.detectedFrom = "build.gradle"
  <2>1. pc # "load" /\ PassInv => services = {}
    BY DEF PassInv, DetectedInv
  <2> QED
    BY <2>1 DEF BuildFilePriority
<1> DEFINE files == IF s.dir \in DOMAIN project.tree THEN project.tree[s.dir] ELSE {}
           found == {d \in DOMAIN project.tree : Walked(d) /\ project.tree[d] # {}}
<1>1. PICK d \in Dirs : s.dir = d /\ s.detectedFrom = Modules(project.tree)[d]
  BY ServiceFacts
<1>2. Dirs = DOMAIN Modules(project.tree) /\ project \in Projects
  BY DirsKnown DEF PassInv, NodesInv
<1>3. CASE found = {}
  <2>1. d = <<>>
    BY <1>1, <1>2, <1>3 DEF Modules
  <2>2. files = {}
    BY <1>1, <1>3, <2>1 DEF Walked
  <2> HIDE DEF files
  <2>3. files = {} => files # {"build.gradle", "settings.gradle"}
    OBVIOUS
  <2> QED
    BY <2>2, <2>3 DEF files
<1>4. CASE found # {}
  <2>1. d \in found /\ s.detectedFrom = RegisteredFile(project.tree[d])
    BY <1>1, <1>2, <1>4 DEF Modules
  <2>2. files = project.tree[d] /\ files # {} /\ files \subseteq Range(BuildFiles)
    BY <1>1, <1>2, <2>1, ProjectAssumption DEF SoundDisk
  <2> HIDE DEF files
  <2>3. RightFile(files, s.detectedFrom)
    BY <2>1, <2>2, RegisteredRight
  <2>4. ASSUME {f \in files : IsPython(Tool(f))} = files PROVE files \subseteq PythonFiles
    <3>1. files \subseteq RealFiles \cup PythonFiles \cup SuffixFiles \cup {"Dockerfile", "nx.json"}
      BY <2>2, KnownFiles DEF Range
    <3>2. \A f \in files : IsPython(Tool(f))
      BY <2>4
    <3> QED
      BY <3>1, <3>2, KnownTools
  <2>5. files \cap RealFiles # {} => s.detectedFrom \in RealFiles
    BY <2>3 DEF RightFile
  <2>6. {f \in files : IsPython(Tool(f))} = files =>
          \A f \in files : PythonPriority(s.detectedFrom) =< PythonPriority(f)
    BY <2>2, <2>3, <2>4 DEF RightFile
  <2>7. files = {"build.gradle", "settings.gradle"} => s.detectedFrom = "build.gradle"
    BY <2>3 DEF RightFile
  <2> QED
    BY <2>5, <2>6, <2>7 DEF files
<1> QED
  BY <1>3, <1>4

\* The types are part of PassInv.
LEMMA PassTypes ==
  PassInv => TypeOK
<1> SUFFICES ASSUME PassInv PROVE TypeOK
  OBVIOUS
<1> USE DEF PassInv
<1>1. \A i \in DOMAIN nodes : nodes[i].kind \in NodeKinds /\ nodes[i].layer \in Layers
  BY DEF NodesInv, NodeInv
<1>2. \A e \in edges : e.kind \in EdgeKinds /\ e.source \in AllSources \cup {NoSource}
  BY DEF EdgesInv
<1> QED
  BY <1>1, <1>2 DEF GosInv, GoTyping, TypeOK

\* A step after the detector that leaves services and edges alone.
LEMMA DetectedStays ==
  ASSUME NodesInv, EdgesInv, DetectedInv, Rewrites(nodes, nodes'),
         UNCHANGED <<project, pc, edges, services>>,
         \A i \in DOMAIN nodes : nodes'[i].service = nodes[i].service
  PROVE  DetectedInv'
<1>1. CASE pc # "load"
  BY <1>1, NotDetected
<1>2. CASE pc = "load"
  <2>1. Labels' = Labels
    BY DEF Labels
  <2>2. /\ Services(nodes', Labels, Modules(project.tree)) = Services(nodes, Labels, Modules(project.tree))
        /\ ServiceEdges(nodes', Labels) = ServiceEdges(nodes, Labels)
        /\ Ids(nodes') = Ids(nodes)
    BY SameServices
  <2>3. ASSUME NEW i \in DOMAIN nodes'
        PROVE  (nodes[i].service = IF NamesAt(nodes[i].path) = {} THEN OwnService(i)
                                   ELSE CHOOSE l \in NamesAt(nodes[i].path) : TRUE)'
    <3>1. i \in DOMAIN nodes /\ nodes'[i].path = nodes[i].path /\ nodes'[i].service = nodes[i].service
      BY DEF Rewrites, SameKeys
    <3>2. OwnService(i)' = OwnService(i) /\ NamesAt(nodes[i].path)' = NamesAt(nodes[i].path)
      BY <3>1 DEF OwnService, NamesAt, Labels
    <3> QED
      BY <1>2, <3>1, <3>2 DEF DetectedInv
  <2> QED
    BY <1>2, <2>1, <2>2, <2>3 DEF DetectedInv
<1> QED
  BY <1>1, <1>2

\* Every step of a goroutine keeps PassInv.
LEMMA GoroutinesKeepPasses ==
  ASSUME PassInv, NEW t \in DOMAIN step, Goroutine(t)
  PROVE  PassInv'
<1> USE DEF PassInv
<1>1. /\ TasksInv' /\ GosInv' /\ NodesInv' /\ EdgesInv' /\ Rewrites(nodes, nodes')
      /\ UNCHANGED <<project, pc, edges, services>>
      /\ \A i \in DOMAIN nodes : nodes'[i].comment = nodes[i].comment
                                 /\ nodes'[i].service = nodes[i].service
  BY GoroutineKeepsCalls
<1>2. CommentsInv'
  BY <1>1, CommentsStay
<1>3. DetectedInv'
  BY <1>1, DetectedStays
<1> QED
  BY <1>1, <1>2, <1>3

\* Every step keeps PassInv.
LEMMA PassesStep ==
  PassInv /\ [Next]_vars => PassInv'
<1> SUFFICES ASSUME PassInv, [Next]_vars PROVE PassInv'
  OBVIOUS
<1>1. CASE UNCHANGED vars
  <2> USE DEF PassInv
  <2>1. UNCHANGED <<pc, project, nodes, edges, tasks, spawned, step, results, out, calls, services>>
    BY <1>1 DEF vars
  <2>2. NodesInv' /\ EdgesInv'
    BY <2>1, SameNodes
  <2>3. TasksInv'
    BY <2>1 DEF TasksInv, Language
  <2>4. GosInv'
    BY <2>1 DEF GosInv, GoTyping, CallsInv, GoInv, Reads, Extracted, CallsOf, Language, Content
  <2>5. CommentsInv'
    BY <2>1, Reflexive, CommentsStay
  <2>6. DetectedInv'
    BY <2>1, Reflexive, DetectedStays
  <2> QED
    BY <2>2, <2>3, <2>4, <2>5, <2>6
<1>2. CASE Main
  BY <1>2, MainKeepsPasses
<1>3. ASSUME NEW t \in DOMAIN step, Goroutine(t) PROVE PassInv'
  BY <1>3, GoroutinesKeepPasses
<1> QED
  BY <1>1, <1>2, <1>3 DEF Next

\* The invariant the properties below follow from: through every pass and
\* every step of the extractors' goroutines there is one node per ID, no pass
\* changes what identifies a node, and each pass leaves behind what it should
\* (the passes of Enrich, in their order).
THEOREM PassesHold == Spec => []PassInv
<1>1. Init => PassInv
  BY Starts
<1>2. PassInv /\ [Next]_vars => PassInv'
  BY PassesStep
<1> QED
  BY <1>1, <1>2, PTL DEF Spec

\* Kinds, layers and sources are known ones, and each goroutine is at one of
\* its steps (the passes of Enrich).
THEOREM PassTypeCorrect == Spec => []TypeOK
<1>1. PassInv => TypeOK
  BY PassTypes
<1> QED
  BY <1>1, PassesHold, PTL

\* The linkers never add a second "queries" or "contains" edge between the
\* same nodes, beside the detectors' edges or each other's (EntityLinker.Link,
\* ModuleContainmentLinker.Link).
THEOREM LinksNeverParallel == Spec => []NoParallelLinks
<1>1. PassInv => NoParallelLinks
  BY DEF PassInv, EdgesInv
<1> QED
  BY <1>1, PassesHold, PTL

\* What is handed to the store has one node per ID and no edge without its
\* ends, so that BulkLoadNodes is not refused for a duplicate key and
\* BulkLoadEdges for a missing node, whatever the linkers, the extractors and
\* the service detector added.
THEOREM LoadNeverRejected == Spec => []LoadAccepted
BY LoadIsAccepted, PassesHold, PTL

\* A doc comment that the lexical pass attaches to a node belongs to its
\* declaration, for files of any length and any lines (lexical.Extract and the
\* functions it calls).
THEOREM CommentsBelong == Spec => []CommentAdjacent
<1>1. PassInv => CommentAdjacent
  BY CommentsAdjacent DEF PassInv
<1> QED
  BY <1>1, PassesHold, PTL

\* The call edges, and their order, are those of the files one after another,
\* however the goroutines of the extractors are scheduled and however many run
\* at a time (extractor.Enricher.Enrich).
THEOREM CallsIgnoreSchedule == Spec => []CallsDeterministic
BY CallsAreDeterministic, PassesHold, PTL

\* A node belongs to the service of the innermost directory around it that has
\* a build file and to no other, for any tree of directories
\* (ServiceDetector.Detect).
THEOREM InnermostServiceOwns == Spec => []ServiceOfDeepest
BY DeepestServes, PassesHold, PTL

\* The counts on a service are those of the endpoints and entities that the
\* services of its name contain (ServiceDetector.Detect).
THEOREM CountsAreContainment == Spec => []CountsMatchContainment
BY CountsAgree, PassesHold, PTL

\* A service is detected from a real build file rather than a supplemental
\* one, from Python's by their priority, and from build.gradle rather than
\* settings.gradle, whichever of the build files a directory has
\* (ServiceDetector.walkFilesystem and registerModule).
THEOREM BuildFilesRanked == Spec => []BuildFilePriority
BY BuildFilesPrefer, PassesHold, PTL
=============================================================================
