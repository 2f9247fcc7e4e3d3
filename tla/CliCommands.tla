----------------------------- MODULE CliCommands -----------------------------
(***************************************************************************)
(* The read commands of the command line: which project they work on, how   *)
(* they open its graph, what they print and the status they exit with.      *)
(*                                                                         *)
(* A directory is the sequence of names from the root of the file system.   *)
(* disk maps each directory to [git, graph]: whether it has a .git, and the  *)
(* graph at .codeiq/graph/codeiq.kuzu, which is NoGraph where that path is   *)
(* absent and EmptyDb for a database without a schema.                      *)
(*                                                                         *)
(* A place says where a command is started: arg, its path argument, env,    *)
(* the environment variable (NotGiven, or a path), and cwd.                *)
(***************************************************************************)
EXTENDS McpCatalog

CONSTANTS
  ExportLimit      \* 500: nodes of a rendered export

NotGiven == <<"">>
NoGraph == [is |-> "absent", nodes |-> {}, edges |-> {}]
EmptyDb == [is |-> "empty", nodes |-> {}, edges |-> {}]
-----------------------------------------------------------------------------
(* The project root *)

Ancestors(dir) == {SubSeq(dir, 1, k) : k \in 0..Len(dir)}
Deepest(dirs) == CHOOSE d \in dirs : \A e \in dirs : Len(e) =< Len(d)

\* A graph anywhere above comes before the nearest .git.
WalkUp(disk, cwd) ==
  LET graphs == {d \in Ancestors(cwd) : disk[d].graph.is # "absent"}
      repositories == {d \in Ancestors(cwd) : disk[d].git}
  IN CASE graphs # {} -> <<Deepest(graphs)>>
       [] graphs = {} /\ repositories # {} -> <<Deepest(repositories)>>
       [] OTHER -> <<>>

ValidateDir(disk, path) == IF path \in DOMAIN disk THEN <<path>> ELSE <<>>

\* The root as a sequence, empty for an error.  A given path that is no directory
\* does not fall through.
Resolve(disk, place) ==
  CASE place.arg # NotGiven -> ValidateDir(disk, place.arg)
    [] place.arg = NotGiven /\ place.env # NotGiven -> ValidateDir(disk, place.env)
    [] OTHER -> WalkUp(disk, place.cwd)
-----------------------------------------------------------------------------
(* Outcomes: the exit status, what is printed, and the disk afterwards *)

UsageError(disk) == [exit |-> 1, answer |-> <<>>, disk |-> disk]
Failed(disk)     == [exit |-> 2, answer |-> <<>>, disk |-> disk]
Printed(disk, answer) == [exit |-> 0, answer |-> answer, disk |-> disk]

\* graph.Open creates the database that is not there; a query on one without tables
\* fails.
OpenAnd(disk, root, answer(_)) ==
  LET opened == IF disk[root].graph.is = "absent"
                THEN [disk EXCEPT ![root].graph = EmptyDb] ELSE disk
  IN IF opened[root].graph.is = "empty" THEN Failed(opened)
     ELSE Printed(opened, answer(opened[root].graph))
\* graph.OpenReadOnly refuses a database that is not there.
OpenReadOnlyAnd(disk, root, outcome(_)) ==
  IF disk[root].graph.is # "graph" THEN Failed(disk) ELSE outcome(disk[root].graph)

\* RunE begins with resolvePath, whose every error is one of usage.
Resolved(disk, place, run(_)) ==
  LET root == Resolve(disk, place)
  IN IF root = <<>> THEN UsageError(disk) ELSE run(root[1])
-----------------------------------------------------------------------------
RunQueryFinder(disk, place, c) ==
  LET find(g) == CASE c.which = "consumers" -> FindConsumers(g, c.id)
                   [] c.which = "producers" -> FindProducers(g, c.id)
                   [] c.which = "callers" -> FindCallers(g, c.id)
                   [] c.which = "dependencies" -> FindDependencies(g, c.id)
                   [] c.which = "dependents" -> FindDependents(g, c.id)
      run(root) == OpenAnd(disk, root, find)
  IN Resolved(disk, place, run)

FindKinds ==
  [endpoints |-> "endpoint", guards |-> "guard", entities |-> "entity", topics |-> "topic",
   queues |-> "queue", services |-> "service", databases |-> "database_connection",
   components |-> "component"]
FindKindCommand(disk, place, c) ==
  LET all(g) == ById(FindByKind(g, FindKinds[c.which]))
      page(g) == RowsToNodes(Take(SubSeq(all(g), Max({0, c.offset}) + 1, Len(all(g))),
                                  Max({0, c.limit})))
      run(root) == OpenAnd(disk, root, page)
  IN Resolved(disk, place, run)

\* "" is every category; unlike the MCP server it reports a load that failed.
StatsCommand(disk, place, c) ==
  LET stats(g) == IF c.category = "" THEN ComputeStats(g) ELSE ComputeCategory(g, c.category)
      run(root) == OpenAnd(disk, root, stats)
  IN Resolved(disk, place, run)

TopologyCommand(disk, place, c) ==
  LET show(g) ==
        CASE c.which = "" -> GetTopology(g)
          [] c.which = "service-detail" -> ServiceDetail(g, c.name)
          [] c.which = "blast-radius" -> BlastRadius(g, c.id, c.depth)
          [] c.which = "bottlenecks" -> FindBottlenecks(g)
          [] c.which = "circular" -> FindCircular(g)
          [] c.which = "dead" -> FindDeadServices(g)
          [] c.which = "path" -> FindPath(g, c.source, c.target).hops
      run(root) == OpenAnd(disk, root, show)
  IN Resolved(disk, place, run)

\* The gate is asked before the graph is opened.
CypherCommand(disk, place, c) ==
  LET rows == [i \in 1..Min({c.query.rows, Max({1, c.max})}) |-> i]
      outcome(g) == Printed(disk, With(Listed("rows", rows),
                                       [truncated |-> c.query.rows > Max({1, c.max})]))
      run(root) == IF Gate!MutationKeyword(c.query.words) # "" THEN Failed(disk)
                   ELSE OpenReadOnlyAnd(disk, root, outcome)
  IN Resolved(disk, place, run)

\* The view is checked before the project is looked for, the format at the end.
FlowCommand(disk, place, c) ==
  LET rendered(g) == Render(Generate(g, c.view), c.format)
      outcome(g) == IF rendered(g).error THEN Failed(disk) ELSE Printed(disk, rendered(g))
      run(root) == OpenReadOnlyAnd(disk, root, outcome)
  IN IF c.view \notin Views THEN UsageError(disk) ELSE Resolved(disk, place, run)

\* A rendered export has the first nodes only, and the edges between them.
GraphToDiagram(g) ==
  LET shown == Take(ById(g.nodes), ExportLimit)
      box(id) == <<"node", id>>
      edges == ByEdge(g.edges)
  IN Diagram("graph",
       Group("loose", [i \in DOMAIN shown |-> FlowNode("node", shown[i].id, 1)]),
       [i \in DOMAIN edges |->
          Edge(box(edges[i].from), box(edges[i].to), edges[i].kind, "solid")],
       [node_count |-> Cardinality(g.nodes), rendered_nodes |-> Len(shown),
        truncated |-> Cardinality(g.nodes) > Len(shown)])
RenderGraphExport(g, format) ==
  CASE format \in {"", "json", "yaml", "yml"} ->
         [error |-> FALSE, nodes |-> ById(g.nodes), edges |-> ByEdge(g.edges)]
    [] format \in {"mermaid", "dot"} -> Render(GraphToDiagram(g), format)
    [] OTHER -> [error |-> TRUE]
GraphCommand(disk, place, c) ==
  LET exported(g) == RenderGraphExport(g, c.format)
      outcome(g) == IF exported(g).error THEN Failed(disk) ELSE Printed(disk, exported(g))
      run(root) == OpenReadOnlyAnd(disk, root, outcome)
  IN Resolved(disk, place, run)

\* `review` looks for no project: its path is the argument or the working directory,
\* and without a graph it reviews the diff alone.
ReviewCommand(disk, place, c) ==
  LET path == IF place.arg = NotGiven THEN place.cwd ELSE place.arg
      wired == path \in DOMAIN disk /\ disk[path].graph.is = "graph"
      report == Review(wired, IF wired THEN disk[path].graph ELSE EmptyDb, c.base, c.head,
                       c.focus, c.model)
  IN IF path \in DOMAIN disk /\ report.ok THEN Printed(disk, report) ELSE Failed(disk)

RunCommand(disk, place, c) ==
  CASE c.do = "query" -> RunQueryFinder(disk, place, c)
    [] c.do = "find" -> FindKindCommand(disk, place, c)
    [] c.do = "stats" -> StatsCommand(disk, place, c)
    [] c.do = "topology" -> TopologyCommand(disk, place, c)
    [] c.do = "cypher" -> CypherCommand(disk, place, c)
    [] c.do = "flow" -> FlowCommand(disk, place, c)
    [] c.do = "graph" -> GraphCommand(disk, place, c)
    [] c.do = "review" -> ReviewCommand(disk, place, c)
=============================================================================
