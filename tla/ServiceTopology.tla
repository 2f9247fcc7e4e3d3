--------------------------- MODULE ServiceTopology ---------------------------
(***************************************************************************)
(* query.Topology: services, and the runtime connections between them.     *)
(* Everything is keyed by a service's label, not by its ID.                *)
(***************************************************************************)
EXTENDS GraphQueries

RuntimeEdges ==
  {"calls", "produces", "consumes", "queries", "connects_to", "publishes", "listens",
   "sends_to", "receives_from", "invokes_rmi", "exports_rmi"}

ServicesOf(g) == {n \in g.nodes : n.kind = "service"}
Holds(g, s, n) == \E e \in g.edges : e.kind = "contains" /\ e.from = s.id /\ e.to = n

\* One row per service node, by label.
ServiceSummaries(g) ==
  LET services == Ordered(ServicesOf(g), LAMBDA a, b :
        Precedes(a.label, b.label) \/ (a.label = b.label /\ a.id < b.id))
  IN [i \in DOMAIN services |->
        [name |-> services[i].label,
         build_tool |-> Prop(services[i], "build_tool", "unknown"),
         endpoint_count |-> Prop(services[i], "endpoint_count", 0),
         entity_count |-> Prop(services[i], "entity_count", 0)]]

\* (s1)-[:CONTAINS]->(a)-[r]->(b)<-[:CONTAINS]-(s2) with s1.id <> s2.id: two
\* services of one label are connected to themselves.
CrossServiceConnections(g) ==
  {[source |-> p[1].label, target |-> p[2].label, type |-> p[3].kind] :
     p \in {q \in ServicesOf(g) \X ServicesOf(g) \X g.edges :
              /\ q[1].id # q[2].id /\ q[3].kind \in RuntimeEdges
              /\ Holds(g, q[1], q[3].from) /\ Holds(g, q[2], q[3].to)}}

From(conns, name) == {c \in conns : c.source = name}
To(conns, name)   == {c \in conns : c.target = name}

GetTopology(g) ==
  LET conns == CrossServiceConnections(g)
      rows == ServiceSummaries(g)
  IN [services |-> [i \in DOMAIN rows |->
        With(rows[i], [connections_out |-> Cardinality(From(conns, rows[i].name)),
                       connections_in |-> Cardinality(To(conns, rows[i].name))])],
      connections |-> conns,
      service_count |-> Len(rows), connection_count |-> Cardinality(conns)]

ServiceDependencies(g, name) ==
  LET conns == From(CrossServiceConnections(g), name)
      names == {c.target : c \in conns}
  IN [service |-> name, depends_on |-> ByName(names), connections |-> conns,
      count |-> Cardinality(names)]

ServiceDependents(g, name) ==
  LET conns == To(CrossServiceConnections(g), name)
      names == {c.source : c \in conns}
  IN [service |-> name, depended_by |-> ByName(names), connections |-> conns,
      count |-> Cardinality(names)]

ChildNodes(g, name, kinds) ==
  RowsToNodes(ById({n \in g.nodes : n.kind \in kinds
                      /\ \E s \in ServicesOf(g) : s.label = name /\ Holds(g, s, n.id)}))

ServiceDetail(g, name) ==
  [name |-> name,
   endpoints |-> ChildNodes(g, name, {"endpoint"}),
   entities |-> ChildNodes(g, name, {"entity"}),
   guards |-> ChildNodes(g, name, {"guard"}),
   databases |-> ChildNodes(g, name, {"database_connection"}),
   queues |-> ChildNodes(g, name, {"topic", "queue", "message_queue"})]

ServicesContainingNodes(g, ids) ==
  ByName({s.label : s \in {t \in ServicesOf(g) : \E n \in ids : Holds(g, t, n)}})

\* Every kind of edge is followed, also CONTAINS.
BlastRadius(g, id, depth) ==
  LET next(n) == Successors(g, n)
      affected == IF id \in Ids(g.nodes)
                  THEN Within(id, next, IF depth =< 0 THEN 5 ELSE depth) ELSE {}
      nodes == RowsToNodes(ById({n \in g.nodes : n.id \in affected}))
      services == ServicesContainingNodes(g, affected)
  IN [source |-> id, affected_services |-> services, affected_nodes |-> nodes,
      affected_service_count |-> Len(services), affected_node_count |-> Len(nodes)]

\* Most connections first; ties by name, and rows of one name are equal.
FindBottlenecks(g) ==
  LET conns == CrossServiceConnections(g)
      rows == ServiceSummaries(g)
      row(name) == [service |-> name,
                    connections_in |-> Cardinality(To(conns, name)),
                    connections_out |-> Cardinality(From(conns, name))]
      total(r) == r.connections_in + r.connections_out
      busy == Kept([i \in DOMAIN rows |-> row(rows[i].name)], LAMBDA r : total(r) # 0)
      before(i, j) ==
        \/ total(busy[i]) > total(busy[j])
        \/ /\ total(busy[i]) = total(busy[j])
           /\ \/ Precedes(busy[i].service, busy[j].service)
              \/ busy[i].service = busy[j].service /\ i < j
      order == Ordered(DOMAIN busy, before)
  IN [k \in DOMAIN order |-> busy[order[k]]]

FindDeadServices(g) ==
  LET conns == CrossServiceConnections(g)
  IN Kept(ServiceSummaries(g), LAMBDA r : To(conns, r.name) = {})
-----------------------------------------------------------------------------
(* Walks over the connections, by name *)

Adjacent(conns, name) == {c.target : c \in From(conns, name)}

\* <<..., s>> with first = last: rotated to begin with its smallest name.
NormalizeCycle(cycle) ==
  LET body == Front(cycle)
      first == CHOOSE i \in DOMAIN body :
                 \A j \in DOMAIN body : body[j] # body[i] => Precedes(body[i], body[j])
  IN SubSeq(body, first, Len(body)) \o SubSeq(body, 1, first - 1) \o <<body[first]>>

NamesIn(conns) == {c.source : c \in conns} \cup {c.target : c \in conns}

\* A name that is on the stack already closes a cycle.
CloseCycle(st, stack, name) ==
  LET i == CHOOSE k \in DOMAIN stack : stack[k] = name
      cycle == NormalizeCycle(Append(SubSeq(stack, i, Len(stack)), name))
  IN IF cycle \in ToSet(st.cycles) THEN st ELSE [st EXCEPT !.cycles = Append(@, cycle)]

\* What the calls share: the cycles in the order they are found, and the names that
\* are done.
Findings(names) == [cycles : Seq(Seq(names)), visited : SUBSET names]
NothingFound == [cycles |-> <<>>, visited |-> {}]

\* Calls of dfs for one name after the other.
SearchEach(dfs, stack, names, st) ==
  FoldLeft(LAMBDA acc, name : dfs[<<name, stack, acc>>], st, names)

\* A call for a name, where `deeper` is what it calls.
Visit(conns, deeper, name, stack, st) ==
  CASE name \in ToSet(stack) -> CloseCycle(st, stack, name)
    [] name \in st.visited \ ToSet(stack) -> st
    [] OTHER -> LET inner == SearchEach(deeper, Append(stack, name),
                                        ByName(Adjacent(conns, name)), st)
                IN [inner EXCEPT !.visited = @ \cup {name}]

\* dfsFindCycles as a function of its arguments, by how many calls deep it may go: a
\* name is on the stack once, and one that is there already calls nothing.
DfsFindCycles(conns) ==
  LET names == NamesIn(conns)
      depth == Cardinality(names) + 1
      dfs[k \in 0..depth] ==
        [call \in names \X Seq(names) \X Findings(names) |->
           IF k = 0 THEN call[3] ELSE Visit(conns, dfs[k - 1], call[1], call[2], call[3])]
  IN dfs[depth]

\* Mutant of FindCircular: each start begins with nothing found.
LastStartOnly(g) ==
  LET conns == CrossServiceConnections(g)
      starts == ByName(NamesIn(conns))
  IN IF starts = <<>> THEN <<>>
     ELSE DfsFindCycles(conns)[<<Last(starts), <<>>, NothingFound>>].cycles

FindCircular(g) ==
  LET conns == CrossServiceConnections(g)
  IN SearchEach(DfsFindCycles(conns), <<>>, ByName(NamesIn(conns)), NothingFound).cycles

\* A turn of the breadth-first search: st.queue holds paths, in the order of their
\* length.  Nothing changes once the first leads to the target, or none is left.
SearchTurn(conns, target, st) ==
  IF st.queue = <<>> \/ Last(Head(st.queue)) = target THEN st
  ELSE LET path == Head(st.queue)
           new == ByName(Adjacent(conns, Last(path)) \ st.visited)
       IN [queue |-> Tail(st.queue) \o [i \in DOMAIN new |-> Append(path, new[i])],
           visited |-> st.visited \cup ToSet(new)]

\* A name is queued once at most, so there is a turn for each.
SearchTurns(conns, source, target) ==
  LET after[k \in 0..Cardinality(NamesIn(conns) \cup {source})] ==
        IF k = 0 THEN [queue |-> <<<<source>>>>, visited |-> {source}]
        ELSE SearchTurn(conns, target, after[k - 1])
  IN after
SearchPath(conns, source, target) ==
  LET last == SearchTurns(conns, source, target)[Cardinality(NamesIn(conns) \cup {source})]
  IN IF last.queue = <<>> THEN <<>> ELSE Head(last.queue)

\* The hops of a shortest path; a path to itself has none.  `found` tells that
\* from nil.
FindPath(g, source, target) ==
  LET conns == CrossServiceConnections(g)
      path == SearchPath(conns, source, target)
      kind(a, b) == ByName({c.type : c \in {d \in conns : d.source = a /\ d.target = b}})[1]
  IN [found |-> path # <<>>,
      hops |-> [i \in 1..(Len(path) - 1) |->
                  [from |-> path[i], to |-> path[i + 1], type |-> kind(path[i], path[i + 1])]]]
-----------------------------------------------------------------------------
(* What the walks are to find *)

\* The services reached from a service, over one connection or more: what every set
\* has that holds the services it calls, and those that one in the set calls.
Reached(conns, name) ==
  LET targets == {c.target : c \in conns}
  IN {t \in targets :
        \A set \in SUBSET targets :
          Adjacent(conns, name) \cup UNION {Adjacent(conns, n) : n \in set} \subseteq set
            => t \in set}
Cyclic(conns) == {s \in {c.source : c \in conns} : s \in Reached(conns, s)}
=============================================================================
