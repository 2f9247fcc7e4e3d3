------------------------------ MODULE McpCatalog ------------------------------
(***************************************************************************)
(* The other MCP tools (topology, intelligence, flow, review), the six      *)
(* tools that only choose one of the others by their `mode`, and which      *)
(* tools a server registers.                                               *)
(***************************************************************************)
EXTENDS McpTools

CONSTANTS
  LexicalMatches,   \* <<query, label>>: found in comments or configuration keys
  ExactMatches      \* <<query, label>>: equal but for case

(* Topology *)

TopologyTool(x, answer) == Checked(TRUE, "topology" \in x.wired, x.fails, answer)
ServiceTool(x, p, find(_, _)) ==
  LET name == Arg(p, "service_name", "")
  IN Checked(name # "", "topology" \in x.wired, x.fails, find(x.g, name))

ToolGetTopology(x, p)         == TopologyTool(x, GetTopology(x.g))
ToolServiceDetail(x, p)       == ServiceTool(x, p, ServiceDetail)
ToolServiceDependencies(x, p) == ServiceTool(x, p, ServiceDependencies)
ToolServiceDependents(x, p)   == ServiceTool(x, p, ServiceDependents)
ToolFindBottlenecks(x, p)     == TopologyTool(x, Listed("bottlenecks", FindBottlenecks(x.g)))
ToolFindCircularDeps(x, p)    == TopologyTool(x, Listed("cycles", FindCircular(x.g)))
ToolFindDeadServices(x, p)    == TopologyTool(x, Listed("dead_services", FindDeadServices(x.g)))

\* A depth of 0 is asked for, whatever the parameters say.
ToolBlastRadius(x, p) ==
  LET id == Arg(p, "node_id", 0)
  IN Checked(id # 0, "topology" \in x.wired, x.fails, BlastRadius(x.g, id, CapDepth(0)))

ToolFindPath(x, p) ==
  LET source == Arg(p, "source", "")
      target == Arg(p, "target", "")
      path == FindPath(x.g, source, target)
  IN Checked(source # "" /\ target # "", "topology" \in x.wired, x.fails,
       IF path.found THEN [path |-> path.hops, length |-> Len(path.hops)] ELSE Unavailable)
-----------------------------------------------------------------------------
(* Intelligence *)

InferLanguageFromQuery(query) == IF query \in FullyQualified THEN "java" ELSE "unknown"

SearchLexical(g, query, limit) ==
  Take(RowsToNodes(ById({n \in g.nodes : <<query, n.label>> \in LexicalMatches})), limit)
MergeUnique(base, more) ==
  base \o Kept(more, LAMBDA n : n.id \notin Ids(ToSet(base)))
SortExactFirst(nodes, query) ==
  LET exact(n) == <<query, n.label>> \in ExactMatches
  IN Kept(nodes, exact) \o Kept(nodes, LAMBDA n : ~ exact(n))

\* The plan only decides whether comments are searched too, and on the note.
ToolFindNode(x, p) ==
  LET query == Arg(p, "query", "")
      limit == CapResults(50)
      plan == IF "planner" \in x.wired THEN Plan("FIND_SYMBOL", InferLanguageFromQuery(query))
              ELSE [route |-> "GRAPH_FIRST", note |-> ""]
      found == SearchByLabel(x.g, query, limit)
      more == IF plan.route \in {"LEXICAL_FIRST", "MERGED"}
              THEN SearchLexical(x.g, query, limit) ELSE <<>>
  IN Checked(query # "", "store" \in x.wired, x.fails,
       With(Listed("matches", SortExactFirst(MergeUnique(found, more), query)),
            IF plan.note = "" THEN <<>> ELSE [note |-> plan.note]))

\* A request's `node_id` is no field of evidence.Request.
ToolGetEvidencePack(x, p) ==
  CASE "evidence" \notin x.wired -> Unavailable
    [] "evidence" \in x.wired /\ "malformed" \in DOMAIN p -> Invalid
    [] OTHER ->
         Assemble(x.g, [symbol |-> Arg(p, "symbol", ""), file |-> Arg(p, "file_path", ""),
                        ext |-> ExtensionOf(Arg(p, "file_path", "")),
                        maxLines |-> Arg(p, "max_snippet_lines", 0),
                        limited |-> "max_snippet_lines" \in DOMAIN p,
                        references |-> Arg(p, "include_references", FALSE)])

ToolGetArtifactMetadata(x, p) == IF "meta" \in x.wired THEN [meta |-> TRUE] ELSE Unavailable

ToolGetCapabilities(x, p) ==
  LET language == Arg(p, "language", "")
  IN IF language = "" THEN [matrix |-> AllCapabilities]
     ELSE [language |-> language, capabilities |-> TableFor(language)]
-----------------------------------------------------------------------------
(* Flow and review *)

ToolGenerateFlow(x, p) ==
  LET view == IF Arg(p, "view", "") = "" THEN "overview" ELSE p["view"]
      rendered == Render(Generate(x.g, view),
                         IF Arg(p, "format", "") = "" THEN "json" ELSE p["format"])
  IN CASE view \notin Views -> Invalid
       [] view \in Views /\ "flow" \notin x.wired -> Unavailable
       [] OTHER -> Checked(TRUE, TRUE, x.fails, IF rendered.error THEN Invalid ELSE rendered)

\* x.model is what the language model does.
ToolReviewChanges(x, p) ==
  LET report == Review("store" \in x.wired, x.g, Arg(p, "base_ref", ""),
                       Arg(p, "head_ref", ""), Arg(p, "focus_files", {}), x.model)
  IN Checked(TRUE, "root" \in x.wired, ~ report.ok, report)
-----------------------------------------------------------------------------
(* The consolidated tools: one other tool by the mode, which gets only the  *)
(* parameters it knows.                                                    *)

Only(p, names) == [n \in names \cap DOMAIN p |-> p[n]]
Renamed(p, from, to) == [n \in IF from \in DOMAIN p THEN {to} ELSE {} |-> p[from]]
\* Parameters that do not decode have no mode.
Mode(p) == IF "malformed" \in DOMAIN p THEN "malformed" ELSE Arg(p, "mode", "")

\* What does not decode is an empty request here, which asks for the overview.
ToolGraphSummary(x, p) ==
  LET mode == Mode(p)
  IN CASE mode \in {"", "malformed", "overview"} -> ToolGetStats(x, <<>>)
       [] mode = "categories" -> ToolGetDetailedStats(x, Only(p, {"category"}))
       [] mode = "capabilities" -> ToolGetCapabilities(x, <<>>)
       [] mode = "provenance" -> ToolGetArtifactMetadata(x, <<>>)
       [] OTHER -> Invalid

ToolFindInGraph(x, p) ==
  LET mode == Mode(p)
  IN CASE mode = "nodes" -> ToolQueryNodes(x, Only(p, {"kind", "limit"}))
       [] mode = "edges" -> ToolQueryEdges(x, Only(p, {"kind", "limit"}))
       [] mode = "text" -> ToolSearchGraph(x, Only(p, {"query", "limit"}))
       [] mode = "fuzzy" -> ToolFindNode(x, Only(p, {"query"}))
       [] mode = "by_file" -> ToolFindComponentByFile(x, Only(p, {"file_path"}))
       [] mode = "by_endpoint" ->
            ToolFindRelatedEndpoints(x, [identifier |-> IdName(Arg(p, "node_id", 0))])
       [] OTHER -> Invalid

\* The lines of a source are not passed on.
ToolInspectNode(x, p) ==
  LET mode == Mode(p)
  IN CASE mode = "neighbors" -> ToolGetNodeNeighbors(x, Only(p, {"node_id", "direction"}))
       [] mode = "ego" -> ToolGetEgoGraph(x, Only(p, {"center", "radius"}))
       [] mode = "evidence" -> ToolGetEvidencePack(x, Only(p, {"node_id", "file_path"}))
       [] mode = "source" -> ToolReadFile(x, Only(p, {"file_path"}))
       [] OTHER -> Invalid

ToolTraceRelationships(x, p) ==
  LET mode == Mode(p)
      target == Renamed(p, "node_id", "target_id")
  IN CASE mode = "callers" -> ToolFindCallers(x, target)
       [] mode = "consumers" -> ToolFindConsumers(x, target)
       [] mode = "producers" -> ToolFindProducers(x, target)
       [] mode = "dependencies" -> ToolFindDependencies(x, target)
       [] mode = "dependents" -> ToolFindDependents(x, target)
       [] mode = "shortest_path" ->
            ToolFindShortestPath(x, With(Renamed(p, "from", "source"),
                                         Renamed(p, "to", "target")))
       [] OTHER -> Invalid

ToolAnalyzeImpact(x, p) ==
  LET mode == Mode(p)
  IN CASE mode = "blast_radius" -> ToolBlastRadius(x, Only(p, {"node_id", "depth"}))
       [] mode = "trace" -> ToolTraceImpact(x, Only(p, {"node_id", "depth"}))
       [] mode = "cycles" -> ToolFindCycles(x, Only(p, {"limit"}))
       [] mode = "circular_deps" -> ToolFindCircularDeps(x, <<>>)
       [] mode = "dead_code" -> ToolFindDeadCode(x, Only(p, {"kind", "limit"}))
       [] mode = "dead_services" -> ToolFindDeadServices(x, <<>>)
       [] mode = "bottlenecks" -> ToolFindBottlenecks(x, <<>>)
       [] OTHER -> Invalid

ToolTopologyView(x, p) ==
  LET mode == Mode(p)
      service == Only(p, {"service_name"})
  IN CASE mode = "summary" -> ToolGetTopology(x, <<>>)
       [] mode = "service" -> ToolServiceDetail(x, service)
       [] mode = "service_deps" -> ToolServiceDependencies(x, service)
       [] mode = "service_dependents" -> ToolServiceDependents(x, service)
       [] mode = "flow" -> ToolGenerateFlow(x, Only(p, {"view", "format"}))
       [] OTHER -> Invalid
-----------------------------------------------------------------------------
(* What a server offers *)

GraphTools ==
  <<"get_stats", "get_detailed_stats", "query_nodes", "query_edges", "get_node_neighbors",
    "get_ego_graph", "find_cycles", "find_shortest_path", "find_consumers",
    "find_producers", "find_callers", "find_dependencies", "find_dependents",
    "find_dead_code", "find_component_by_file", "trace_impact",
    "find_related_endpoints", "search_graph", "run_cypher", "read_file">>
UserFacingTools == <<"run_cypher", "read_file">>
TopologyTools ==
  <<"get_topology", "service_detail", "service_dependencies", "service_dependents",
    "blast_radius", "find_path", "find_bottlenecks", "find_circular_deps",
    "find_dead_services">>
IntelligenceTools ==
  <<"find_node", "get_evidence_pack", "get_artifact_metadata", "get_capabilities">>
FlowTools == <<"generate_flow">>
ConsolidatedTools ==
  <<"graph_summary", "find_in_graph", "inspect_node", "trace_relationships",
    "analyze_impact", "topology_view", "review_changes">>

\* registerAllTools: what the `mcp` command offers.
ProductionTools == UserFacingTools \o FlowTools \o ConsolidatedTools

Handle(tool, x, p) ==
  CASE tool = "get_stats" -> ToolGetStats(x, p)
    [] tool = "get_detailed_stats" -> ToolGetDetailedStats(x, p)
    [] tool = "query_nodes" -> ToolQueryNodes(x, p)
    [] tool = "query_edges" -> ToolQueryEdges(x, p)
    [] tool = "get_node_neighbors" -> ToolGetNodeNeighbors(x, p)
    [] tool = "get_ego_graph" -> ToolGetEgoGraph(x, p)
    [] tool = "find_cycles" -> ToolFindCycles(x, p)
    [] tool = "find_shortest_path" -> ToolFindShortestPath(x, p)
    [] tool = "find_consumers" -> ToolFindConsumers(x, p)
    [] tool = "find_producers" -> ToolFindProducers(x, p)
    [] tool = "find_callers" -> ToolFindCallers(x, p)
    [] tool = "find_dependencies" -> ToolFindDependencies(x, p)
    [] tool = "find_dependents" -> ToolFindDependents(x, p)
    [] tool = "find_dead_code" -> ToolFindDeadCode(x, p)
    [] tool = "find_component_by_file" -> ToolFindComponentByFile(x, p)
    [] tool = "trace_impact" -> ToolTraceImpact(x, p)
    [] tool = "find_related_endpoints" -> ToolFindRelatedEndpoints(x, p)
    [] tool = "search_graph" -> ToolSearchGraph(x, p)
    [] tool = "run_cypher" -> ToolRunCypher(x, p)
    [] tool = "read_file" -> ToolReadFile(x, p)
    [] tool = "get_topology" -> ToolGetTopology(x, p)
    [] tool = "service_detail" -> ToolServiceDetail(x, p)
    [] tool = "service_dependencies" -> ToolServiceDependencies(x, p)
    [] tool = "service_dependents" -> ToolServiceDependents(x, p)
    [] tool = "blast_radius" -> ToolBlastRadius(x, p)
    [] tool = "find_path" -> ToolFindPath(x, p)
    [] tool = "find_bottlenecks" -> ToolFindBottlenecks(x, p)
    [] tool = "find_circular_deps" -> ToolFindCircularDeps(x, p)
    [] tool = "find_dead_services" -> ToolFindDeadServices(x, p)
    [] tool = "find_node" -> ToolFindNode(x, p)
    [] tool = "get_evidence_pack" -> ToolGetEvidencePack(x, p)
    [] tool = "get_artifact_metadata" -> ToolGetArtifactMetadata(x, p)
    [] tool = "get_capabilities" -> ToolGetCapabilities(x, p)
    [] tool = "generate_flow" -> ToolGenerateFlow(x, p)
    [] tool = "graph_summary" -> ToolGraphSummary(x, p)
    [] tool = "find_in_graph" -> ToolFindInGraph(x, p)
    [] tool = "inspect_node" -> ToolInspectNode(x, p)
    [] tool = "trace_relationships" -> ToolTraceRelationships(x, p)
    [] tool = "analyze_impact" -> ToolAnalyzeImpact(x, p)
    [] tool = "topology_view" -> ToolTopologyView(x, p)
    [] tool = "review_changes" -> ToolReviewChanges(x, p)
=============================================================================
