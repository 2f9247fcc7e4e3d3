------------------------------- MODULE McpTools -------------------------------
(***************************************************************************)
(* The handlers of the MCP tools, as functions of what they work on and of  *)
(* their parameters.                                                       *)
(*                                                                         *)
(* x is what a handler works on: the graph x.g, the services that are wired *)
(* x.wired, whether the first query it sends to the store fails x.fails,    *)
(* and what the statistics' cache gives x.stats.  p is the parameters, a    *)
(* function from the names that were given; a name that was not given has   *)
(* its zero value, 0 for IDs and numbers.  "malformed" among the names      *)
(* stands for arguments that do not decode.                                *)
(***************************************************************************)
EXTENDS ServiceTopology, GraphStats, FlowDiagrams, EvidencePacks, ReviewRun

CONSTANTS
  MaxResults, MaxDepth,                 \* --max-results, --max-depth
  DefaultMaxResults, DefaultMaxDepth,   \* 500 and 10 in the code
  MaxReadBytes,                         \* 2 MiB
  Matches,                              \* <<query, label>>: the search finds it
  FullyQualified                        \* queries with two dots or more, like a Java name

ASSUME CapsAssumption ==
  /\ MaxResults \in Int /\ DefaultMaxResults \in Nat \ {0}
  /\ MaxDepth \in Int /\ DefaultMaxDepth \in Nat \ {0}

Gate == INSTANCE StoreStatements
          WITH RelKinds <- <<>>, BatchSize <- 1, StartsWith <- {}, PartOf <- {}

Arg(p, name, zero) == IF name \in DOMAIN p THEN p[name] ELSE zero

\* Mutant of CapResults: only what is too small is corrected.
CapResultsBelow(requested) == Max({1, requested})

ResultCap == IF MaxResults =< 0 THEN DefaultMaxResults ELSE MaxResults
DepthCap  == IF MaxDepth =< 0 THEN DefaultMaxDepth ELSE MaxDepth
CapResults(requested) == Min({Max({1, requested}), ResultCap})
CapDepth(requested)   == Min({Max({1, requested}), DepthCap})
OrDefault(n, default) == IF n = 0 THEN default ELSE n
OrDefaultPositive(n, default) == IF n =< 0 THEN default ELSE n

Invalid     == [code |-> "INVALID_INPUT"]
Internal    == [code |-> "INTERNAL_ERROR"]
ReadFailed  == [code |-> "FILE_READ_FAILED"]
Unavailable == [error |-> TRUE]

\* What is required comes before what is wired, and that before what can fail.
Checked(required, wired, fails, answer) ==
  CASE ~ required -> Invalid
    [] required /\ (~ wired \/ fails) -> Internal
    [] OTHER -> answer
Listed(field, rows) == With([f \in {field} |-> rows], [count |-> Len(rows)])

SearchByLabel(g, query, limit) ==
  Take(RowsToNodes(ById({n \in g.nodes : <<query, n.label>> \in Matches})), limit)
-----------------------------------------------------------------------------
(* Statistics *)

\* A load that failed leaves an empty answer, not an error.
StatsAnswer(x, answer(_)) == IF x.stats.ok THEN answer(x.stats.g) ELSE <<>>

ToolGetStats(x, p) ==
  Checked(TRUE, "stats" \in x.wired, FALSE, StatsAnswer(x, ComputeStats))
ToolGetDetailedStats(x, p) ==
  LET category == Arg(p, "category", "")
      one(g) == ComputeCategory(g, category)
  IN Checked(TRUE, "stats" \in x.wired, FALSE,
       IF category \in {"", "all"} THEN StatsAnswer(x, ComputeStats)
       ELSE StatsAnswer(x, one))
-----------------------------------------------------------------------------
(* Nodes and edges *)

ToolQueryNodes(x, p) ==
  LET limit == CapResults(OrDefault(Arg(p, "limit", 0), 50))
      nodes == RowsToNodes(ById(FindByKind(x.g, Arg(p, "kind", ""))))
  IN Checked(TRUE, "store" \in x.wired, x.fails,
       With(Listed("nodes", Take(nodes, limit)), [limit |-> limit]))

\* The kind is compared with the name of the relation's table, which is in capitals:
\* Tables maps the one to the other for the kinds that occur.
Tables == [calls |-> "CALLS", contains |-> "CONTAINS", depends_on |-> "DEPENDS_ON",
           produces |-> "PRODUCES", consumes |-> "CONSUMES", protects |-> "PROTECTS",
           connects_to |-> "CONNECTS_TO", queries |-> "QUERIES"]
ToolQueryEdges(x, p) ==
  LET limit == CapResults(OrDefault(Arg(p, "limit", 0), 50))
      kind == Arg(p, "kind", "")
      edges == {e \in x.g.edges : kind = "" \/ Tables[e.kind] = kind}
  IN Checked(TRUE, "store" \in x.wired, x.fails,
       With(Listed("edges", Take(ByEdge(edges), limit)), [limit |-> limit]))

ToolGetNodeNeighbors(x, p) ==
  LET id == Arg(p, "node_id", 0)
      direction == IF Arg(p, "direction", "") = "" THEN "both" ELSE p["direction"]
      shown(ids) == RowsToNodes(ById({n \in x.g.nodes : n.id \in ids}))
      asked(way) == direction \in {way, "both"}
  IN Checked(id # 0, "store" \in x.wired, x.fails /\ (asked("in") \/ asked("out")),
       With([node_id |-> id],
         With(IF asked("in") THEN [incoming |-> shown(Predecessors(x.g, id))] ELSE <<>>,
              IF asked("out") THEN [outgoing |-> shown(Successors(x.g, id))] ELSE <<>>)))

\* The nodes on any walk of up to `depth` edges, in either direction; the limit that
\* is asked for is 0, which CapResults makes 1.
ToolGetEgoGraph(x, p) ==
  LET center == Arg(p, "center", 0)
      depth == CapDepth(OrDefault(Arg(p, "radius", 0), 2))
      both(n) == Successors(x.g, n) \cup Predecessors(x.g, n)
      around == Within(center, both, depth) \ {center}
  IN Checked(center # 0, "store" \in x.wired, x.fails,
       With(Listed("nodes", Take(RowsToNodes(ById({n \in x.g.nodes : n.id \in around})),
                                 CapResults(0))),
            [radius |-> depth]))

ToolFindCycles(x, p) ==
  Checked(TRUE, "query" \in x.wired, x.fails,
    Listed("cycles",
      FindCycles(x.g, CapResults(OrDefaultPositive(Arg(p, "limit", 0), 100)))))

ToolFindShortestPath(x, p) ==
  LET source == Arg(p, "source", 0)
      target == Arg(p, "target", 0)
      path == FindShortestPath(x.g, source, target)
  IN Checked(source # 0 /\ target # 0, "query" \in x.wired, x.fails,
       IF path = <<>> THEN Unavailable ELSE [path |-> path, length |-> Len(path) - 1])

ConsumerLikeTool(x, p, field, find(_, _)) ==
  LET id == Arg(p, "target_id", 0)
  IN Checked(id # 0, "query" \in x.wired, x.fails, Listed(field, find(x.g, id)))
\* Mutant of ToolFindProducers: it asks for the consumers.
ToolFindProducersSwapped(x, p) == ConsumerLikeTool(x, p, "producers", FindConsumers)

ToolFindConsumers(x, p)    == ConsumerLikeTool(x, p, "consumers", FindConsumers)
ToolFindProducers(x, p)    == ConsumerLikeTool(x, p, "producers", FindProducers)
ToolFindCallers(x, p)      == ConsumerLikeTool(x, p, "callers", FindCallers)
ToolFindDependencies(x, p) == ConsumerLikeTool(x, p, "dependencies", FindDependencies)
ToolFindDependents(x, p)   == ConsumerLikeTool(x, p, "dependents", FindDependents)

ToolFindDeadCode(x, p) ==
  LET kind == Arg(p, "kind", "")
  IN Checked(TRUE, "query" \in x.wired, x.fails,
       Listed("dead_code",
         FindDeadCode(x.g, {kind} \ {""},
                      CapResults(OrDefaultPositive(Arg(p, "limit", 0), 100)))))

\* The service of each node is a query of its own, whose failure is ignored; of
\* several services that contain a node any may be named.
ToolFindComponentByFile(x, p) ==
  LET file == Arg(p, "file_path", "")
      rows == RowsToNodes(ById({n \in x.g.nodes : n.file = file}))
      services(id) == {s.label : s \in {t \in ServicesOf(x.g) : Holds(x.g, t, id)}}
  IN Checked(file # "", "store" \in x.wired, x.fails,
       Listed("nodes", [i \in DOMAIN rows |->
         With(rows[i], IF services(rows[i].id) = {} THEN <<>>
                       ELSE [service |-> CHOOSE s \in services(rows[i].id) : TRUE])]))

ToolTraceImpact(x, p) ==
  LET id == Arg(p, "node_id", 0)
  IN Checked(id # 0, "topology" \in x.wired, x.fails,
       BlastRadius(x.g, id, CapDepth(OrDefault(Arg(p, "depth", 0), 3))))

\* An ID where any name may stand.
IdName(id) == IF id = 0 THEN "" ELSE ToString(id)

\* Endpoints of the services that contain what the identifier names: a file, a
\* label or an ID.  The services of one endpoint may come in any order.
ToolFindRelatedEndpoints(x, p) ==
  LET name == Arg(p, "identifier", "")
      targets == {n \in x.g.nodes : name \in {n.file, n.label, IdName(n.id)}}
      holding == {s \in ServicesOf(x.g) : \E t \in targets : Holds(x.g, s, t.id)}
      endpoints == {n \in x.g.nodes : n.kind \in {"endpoint", "websocket_endpoint"}}
      rows == {[id |-> r[2].id, service |-> r[1].label] :
                 r \in {q \in holding \X endpoints : Holds(x.g, q[1], q[2].id)}}
      before(a, b) == a.id < b.id \/ (a.id = b.id /\ Precedes(a.service, b.service))
  IN Checked(name # "", "store" \in x.wired, x.fails,
       Listed("endpoints",
         Take(Ordered(rows, before), CapResults(50))))

ToolSearchGraph(x, p) ==
  LET query == Arg(p, "query", "")
  IN Checked(query # "", "store" \in x.wired, x.fails,
       Listed("results",
         SearchByLabel(x.g, query, CapResults(OrDefault(Arg(p, "limit", 0), 20)))))

\* A query is its words for the gate, and how many rows it would return.
ToolRunCypher(x, p) ==
  LET given == "query" \in DOMAIN p
      blocked == given /\ Gate!MutationKeyword(p["query"].words) # ""
      rows == IF given THEN p["query"].rows ELSE 0
  IN IF given /\ "store" \in x.wired /\ blocked THEN Unavailable
     ELSE Checked(given, "store" \in x.wired, x.fails,
            With(Listed("rows", [i \in 1..Min({rows, ResultCap}) |-> i]),
                 [truncated |-> rows > ResultCap]))
-----------------------------------------------------------------------------
(* Reading a file of the project.  Files gives what each path leads to: its *)
(* kind is "file", "directory", or "outside" (it leaves the root); its text *)
(* is FALSE for a content type that is refused.  A line takes its length    *)
(* and a line end.                                                         *)

Bytes(lines) == FoldLeft(LAMBDA n, line : n + line + 1, 0, lines)

ReadWholeFile(lines) ==
  [bytes |-> Min({Bytes(lines), MaxReadBytes}), truncated |-> Bytes(lines) > MaxReadBytes]

\* From the first line asked for, as many lines as the cap leaves room for.
ReadLineRange(lines, start, end) ==
  LET first == Max({1, start})
      last == IF end > 0 THEN Min({end, Len(lines)}) ELSE Len(lines)
      fits == {k \in first..last : Bytes(SubSeq(lines, first, k)) =< MaxReadBytes}
      lastLine == IF fits = {} THEN 0 ELSE Max(fits)
  IN [bytes |-> Bytes(SubSeq(lines, first, lastLine)),
      truncated |-> Cardinality(fits) < Cardinality(first..last),
      end |-> IF end > 0 THEN end ELSE lastLine]

ReadRepoFile(path, start, end) ==
  CASE path \notin DOMAIN Files -> ReadFailed
    [] path \in DOMAIN Files /\ ~ (Files[path].kind = "file" /\ Files[path].text) ->
         ReadFailed
    [] OTHER -> IF start > 0 \/ end > 0 THEN ReadLineRange(Files[path].lines, start, end)
                ELSE ReadWholeFile(Files[path].lines)

ToolReadFile(x, p) ==
  LET path == Arg(p, "file_path", "")
  IN Checked(path # "", "root" \in x.wired, FALSE,
       ReadRepoFile(path, Arg(p, "start_line", 0), Arg(p, "end_line", 0)))
=============================================================================
