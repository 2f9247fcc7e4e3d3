----------------------------- MODULE GraphQueries -----------------------------
(***************************************************************************)
(* query.Service: what the read queries answer on a graph                  *)
(* [nodes, edges].  A node is a record of its columns (kind, label, file,  *)
(* layer), its properties as a function, and `marks`, the words its ID     *)
(* contains that a reader looks for; an edge is [kind, from, to].  IDs are *)
(* numbers in the order of Go's string comparison, and Names lists every   *)
(* other string that is ever sorted, in that order.                        *)
(***************************************************************************)
EXTENDS CodeModel, Integers, FiniteSetsExt, SequencesExt

CONSTANTS
  Names,      \* strings that are sorted, in order
  PathHops,   \* bound of a shortest path: 20 in the code
  CycleHops   \* bound of a cycle: 10 in the code

ASSUME NamesAssumption ==
  /\ Names \in Seq(STRING)
  /\ \A i, j \in DOMAIN Names : Names[i] = Names[j] => i = j

Precedes(a, b) ==
  \E i \in DOMAIN Names : Names[i] = a /\ \E j \in i + 1..Len(Names) : Names[j] = b

\* A set as a sequence, in some order.  (SetToSeq would try every sequence of the
\* elements.)
Listing(S) == FoldSet(LAMBDA e, rows : Append(rows, e), <<>>, S)

\* A set as a sequence in an order that is total on it, by the number of elements
\* before each.  (The provers know no definition of SortSeq, SelectSeq and @@.)
ByRank(S, rank) == [i \in 1..Cardinality(S) |-> CHOOSE x \in S : rank[x] = i - 1]
Ordered(S, before(_, _)) ==
  ByRank(S, [x \in S |-> Cardinality({y \in S : before(y, x)})])

\* The rows that pass a test, and f extended by what g has besides.
Kept(rows, test(_)) ==
  LET at == Ordered({i \in DOMAIN rows : test(rows[i])}, LAMBDA i, j : i < j)
  IN [k \in DOMAIN at |-> rows[at[k]]]
With(f, g) ==
  [x \in DOMAIN f \cup DOMAIN g |-> IF x \in DOMAIN f THEN f[x] ELSE g[x]]

ById(nodes) == Ordered(nodes, LAMBDA a, b : a.id < b.id)
ByName(names) == Ordered(names, Precedes)
ByEdge(edges) ==
  Ordered(edges, LAMBDA a, b : \/ a.from < b.from
                               \/ a.from = b.from /\ Precedes(a.kind, b.kind)
                               \/ a.from = b.from /\ a.kind = b.kind /\ a.to < b.to)
Take(seq, limit) == SubSeq(seq, 1, Min({limit, Len(seq)}))
Ids(nodes) == {n.id : n \in nodes}
Node(g, id) == CHOOSE n \in g.nodes : n.id = id
Prop(n, key, default) == IF key \in DOMAIN n.props THEN n.props[key] ELSE default

\* What a graph has been loaded with: an ID names one node and is not that of none,
\* edges join nodes of the graph and are told apart by their ends and kind, and every
\* name is one that can be sorted.
SoundGraph(g) ==
  /\ IsFiniteSet(g.nodes) /\ IsFiniteSet(g.edges)
  /\ \A n \in g.nodes : n.id \in Nat \ {0} /\ n.label \in ToSet(Names)
                         /\ n.lines \in Int \X Int
  /\ \A m, n \in g.nodes : m.id = n.id => m = n
  /\ g.edges \subseteq [kind : ToSet(Names), from : Ids(g.nodes), to : Ids(g.nodes)]

\* What a query projects: ID, kind, label, file and layer.
RowsToNodes(rows) ==
  [i \in DOMAIN rows |-> [id |-> rows[i].id, kind |-> rows[i].kind, label |-> rows[i].label,
                          file |-> rows[i].file, layer |-> rows[i].layer]]
-----------------------------------------------------------------------------
OutgoingByKinds(g, id, kinds) ==
  RowsToNodes(ById({n \in g.nodes :
    \E e \in g.edges : e.kind \in kinds /\ e.from = id /\ e.to = n.id}))
IncomingByKinds(g, id, kinds) ==
  RowsToNodes(ById({n \in g.nodes :
    \E e \in g.edges : e.kind \in kinds /\ e.to = id /\ e.from = n.id}))

FindConsumers(g, id)    == IncomingByKinds(g, id, {"consumes", "listens"})
FindProducers(g, id)    == IncomingByKinds(g, id, {"produces", "publishes"})
FindCallers(g, id)      == IncomingByKinds(g, id, {"calls"})
FindDependencies(g, id) == OutgoingByKinds(g, id, {"depends_on"})
FindDependents(g, id)   == IncomingByKinds(g, id, {"depends_on"})
-----------------------------------------------------------------------------
(* Recursive patterns *)

Successors(g, id)   == {e.to : e \in {f \in g.edges : f.from = id}}
Predecessors(g, id) == {e.from : e \in {f \in g.edges : f.to = id}}

\* (a)-[*k..k]->(b): the IDs exactly k steps of `next` away.
Steps(start, next(_), hops) ==
  LET at[k \in 0..hops] == IF k = 0 THEN {start} ELSE UNION {next(n) : n \in at[k - 1]}
  IN at
\* (a)-[*1..hops]->(b): `start` is among them only if a walk comes back to it.
Within(start, next(_), hops) ==
  LET at == Steps(start, next, hops) IN UNION {at[k] : k \in 1..hops}

\* [* SHORTEST 1..PathHops]: some shortest path, <<>> without one.
FindShortestPath(g, source, target) ==
  LET next(n) == Successors(g, n)
      reach(n) == Steps(n, next, PathHops)
      lengths == {k \in 1..PathHops : target \in reach(source)[k]}
      d == Min(lengths)
      path[i \in 0..d] ==
        IF i = 0 THEN source
        ELSE CHOOSE n \in next(path[i - 1]) : target \in reach(n)[d - i]
  IN CASE source = target -> <<source>>
       [] source # target /\ lengths = {} -> <<>>
       [] OTHER -> [i \in 1..(d + 1) |-> path[i - 1]]

\* The walks of n edges.
Walks(g, n) ==
  LET walks[k \in 1..n] ==
        IF k = 1 THEN {<<e>> : e \in g.edges}
        ELSE {Append(p[1], p[2]) :
                p \in {q \in walks[k - 1] \X g.edges : Last(q[1]).to = q[2].from}}
  IN walks[n]

\* (a)-[*2..CycleHops]->(a): a row for every closed walk, so a cycle comes once
\* for each of its nodes, and again for every lap that fits.
FindCycles(g, limit) ==
  LET closed == UNION {{w \in Walks(g, n) : w[1].from = Last(w).to} : n \in 2..CycleHops}
      ids(w) == <<w[1].from>> \o [i \in DOMAIN w |-> w[i].to]
      rows == Listing(closed)
  IN Take([i \in DOMAIN rows |-> ids(rows[i])], IF limit =< 0 THEN 100 ELSE limit)
-----------------------------------------------------------------------------
(* Dead code *)

SemanticEdgeKinds ==
  {"calls", "imports", "depends_on", "extends", "implements", "injects", "queries",
   "maps_to", "consumes", "listens", "invokes_rmi", "overrides", "connects_to",
   "triggers", "renders", "protects"}
EntryPointKinds ==
  {"endpoint", "websocket_endpoint", "migration", "config_file", "config_key",
   "config_definition", "guard", "middleware", "topic", "queue", "event",
   "message_queue"}
DefaultDeadCodeKinds ==
  {"class", "method", "interface", "abstract_class", "component", "service"}

FindDeadCode(g, kinds, limit) ==
  LET wanted == IF kinds = {} THEN DefaultDeadCodeKinds ELSE kinds
      dead == {n \in g.nodes :
                 /\ n.kind \in wanted \ EntryPointKinds
                 /\ ~ \E e \in g.edges : e.kind \in SemanticEdgeKinds /\ e.to = n.id}
  IN Take(RowsToNodes(ById(dead)), IF limit =< 0 THEN 100 ELSE limit)
=============================================================================
