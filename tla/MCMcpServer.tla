------------------------------ MODULE MCMcpServer ------------------------------
(* Values for the constants of McpServer: three projects, what their clients *)
(* ask, and the commands that ask the same.                                *)
EXTENDS McpServer

Sorted == <<"", "CI", "Login", "Order", "POST", "Unused", "calls", "cart", "cart.go",
            "checkout", "connects_to", "consumes", "contains", "depends_on", "events",
            "jwt", "middleware", "orders", "orders.java", "pay", "pg", "place",
            "produces", "protects", "queries", "unknown", "web">>

N(id, kind, label, file, more) ==
  more @@ [id |-> id, kind |-> kind, label |-> label, file |-> file, layer |-> "backend",
           props |-> <<>>, marks |-> {}, ext |-> Extensions[file], slug |-> "",
           module |-> 0, lines |-> <<0, 0>>]
Plain(id, kind, label) == N(id, kind, label, "", <<>>)
At(id, kind, label, file, from, to) == N(id, kind, label, file, [lines |-> <<from, to>>])
Marks(id, kind, label, words) == N(id, kind, label, "", [marks |-> words])
R(kind, from, to) == [kind |-> kind, from |-> from, to |-> to]
G(nodes, edges) == [is |-> "graph", nodes |-> nodes, edges |-> edges]

FileExtensions == ("" :> "" @@ "cart.go" :> "go" @@ "orders.java" :> "java"
                     @@ "logo.png" :> "png" @@ "src" :> "" @@ "link" :> "")
WorkTree ==
  ("cart.go" :> [kind |-> "file", text |-> TRUE, lines |-> <<4, 4, 4, 4, 4, 4>>]
     @@ "orders.java" :> [kind |-> "file", text |-> TRUE, lines |-> <<4, 4>>]
     @@ "logo.png" :> [kind |-> "file", text |-> FALSE, lines |-> <<9>>]
     @@ "src" :> [kind |-> "directory", text |-> TRUE, lines |-> <<>>]
     @@ "link" :> [kind |-> "outside", text |-> TRUE, lines |-> <<4>>])

(* Two services that call each other. *)
Shop ==
  G({N(1, "service", "cart", "", [props |-> [build_tool |-> "go", endpoint_count |-> 1]]),
     Plain(2, "service", "orders"),
     At(3, "method", "checkout", "cart.go", 2, 6),
     At(4, "method", "place", "orders.java", 2, 3),
     N(5, "endpoint", "POST", "cart.go",
       [lines |-> <<1, 1>>, props |-> [http_method |-> "POST", layer |-> "frontend"]]),
     At(6, "entity", "Order", "orders.java", 0, 0),
     N(7, "guard", "Login", "cart.go", [props |-> [auth_type |-> "jwt"]]),
     Plain(8, "topic", "events"),
     At(9, "class", "Unused", "orders.java", 9, 12),
     N(10, "database_connection", "pg", "", [props |-> [db_type |-> "postgres"]])},
    {R("contains", 1, 3), R("contains", 1, 5), R("contains", 1, 7), R("contains", 2, 4),
     R("contains", 2, 6), R("calls", 3, 4), R("calls", 4, 3), R("calls", 5, 3),
     R("produces", 3, 8), R("consumes", 4, 8), R("protects", 7, 5),
     R("depends_on", 4, 3), R("connects_to", 4, 10)})

(* Two services of one name, the one calls the other, between one that nobody *)
(* calls and one that calls nobody.                                        *)
Twins ==
  G({Plain(1, "service", "cart"), Plain(2, "service", "cart"), Plain(3, "service", "orders"),
     Plain(4, "method", "checkout"), Plain(5, "method", "pay"), Plain(6, "method", "place"),
     Plain(7, "middleware", "CI"), Plain(8, "service", "web"), Plain(9, "method", "web")},
    {R("contains", 1, 4), R("contains", 2, 5), R("contains", 3, 6), R("calls", 4, 5),
     R("calls", 6, 4), R("calls", 4, 4), R("depends_on", 6, 4), R("contains", 8, 9),
     R("calls", 5, 9)})

(* A chain of services; more resources, jobs and triggers than a diagram shows. *)
Job(id, slug) == N(id, "method", "CI", "", [marks |-> {"gha:"}, slug |-> slug, module |-> 20])
Deployed ==
  G({Plain(1, "service", "cart"), Plain(2, "service", "orders"), Plain(3, "service", "web"),
     Plain(4, "method", "checkout"), Plain(5, "method", "place"), Plain(6, "method", "web"),
     Marks(10, "infra_resource", "web", {"k8s:"}), Marks(11, "infra_resource", "pay", {"k8s:"}),
     Marks(12, "infra_resource", "pg", {"k8s:"}), Marks(13, "azure_resource", "pg", {"tf:"}),
     Marks(14, "infra_resource", "web", {"dockerfile"}), Plain(15, "infra_resource", "pg"),
     N(20, "module", "CI", "", [marks |-> {"gha:"}, slug |-> "build"]),
     Job(21, "first"), Job(22, "second"), Job(23, "third"),
     Marks(24, "config_key", "CI", {"gha:"}), Marks(25, "config_key", "CI", {"gha:"}),
     Plain(30, "middleware", "Login"), Plain(31, "endpoint", "POST"),
     Plain(32, "component", "web")},
    {R("contains", 1, 4), R("contains", 2, 5), R("contains", 3, 6), R("calls", 6, 4),
     R("calls", 4, 5), R("connects_to", 10, 12), R("connects_to", 11, 13),
     R("depends_on", 13, 15), R("depends_on", 22, 21), R("depends_on", 23, 22)})

(* The disk: the project, a repository in it, and a project never indexed. *)
Root == <<>>
Project == <<"shop">>
Inner == <<"shop", "inner">>
Other == <<"other">>
DiskWith(g) ==
  Root :> [git |-> FALSE, graph |-> NoGraph] @@ Project :> [git |-> TRUE, graph |-> g]
    @@ Inner :> [git |-> TRUE, graph |-> NoGraph]
    @@ Other :> [git |-> TRUE, graph |-> NoGraph]
AllDisks == {DiskWith(g) : g \in {Shop, Twins, Deployed, EmptyDb, NoGraph}}
ShopOnly == {DiskWith(Shop)}

AtDir(dir) == [arg |-> NotGiven, env |-> NotGiven, cwd |-> dir]
McpPlace == AtDir(Inner)
AllPlaces == {AtDir(Inner), AtDir(Root),
              [arg |-> Project, env |-> Other, cwd |-> Root],
              [arg |-> NotGiven, env |-> Project, cwd |-> Root],
              [arg |-> <<"nowhere">>, env |-> Project, cwd |-> Project]}
TwoPlaces == {AtDir(Inner), AtDir(Other)}
-----------------------------------------------------------------------------
Ask(tool, p, asks, field) == [tool |-> tool, p |-> p, asks |-> asks, field |-> field]
Q(tool, p) == Ask(tool, p, <<>>, "")
\* A mode of a consolidated tool next to the narrow one; `as` are the parameters'
\* names there.
Pair(tool, p, consolidated, mode, as, asks, field) ==
  <<Ask(tool, p, asks, field),
    Ask(consolidated, [mode |-> mode] @@ as, asks, field)>>

Words(query) == [words |-> query, rows |-> 3]
StatsRequests ==
  Pair("get_stats", <<>>, "graph_summary", "overview", <<>>, <<"stats">>, "")
    \o Pair("get_detailed_stats", [category |-> "auth"], "graph_summary", "categories",
            [category |-> "auth"], <<"auth statistics">>, "")
    \o <<Q("graph_summary", [malformed |-> TRUE])>>
NodeRequests ==
  Pair("query_nodes", [kind |-> "method", limit |-> 9], "find_in_graph", "nodes",
       [kind |-> "method", limit |-> 9], <<"methods">>, "nodes")
    \o Pair("query_edges", [limit |-> -1], "find_in_graph", "edges", [limit |-> -1],
            <<"edges">>, "")
    \o Pair("search_graph", [query |-> "o", limit |-> 5], "find_in_graph", "text",
            [query |-> "o", limit |-> 5], <<"search">>, "")
    \o Pair("find_node", [query |-> "o"], "find_in_graph", "fuzzy", [query |-> "o"],
            <<"find">>, "")
    \o Pair("find_component_by_file", [file_path |-> "cart.go"], "find_in_graph", "by_file",
            [file_path |-> "cart.go"], <<"component">>, "")
    \o Pair("find_related_endpoints", [identifier |-> "3"], "find_in_graph", "by_endpoint",
            [node_id |-> 3], <<"related">>, "")
    \o <<Q("find_node", [query |-> "com.shop.Order"]), Q("query_nodes", [kind |-> "endpoint"]),
         Q("query_edges", [kind |-> "CALLS"]), Q("find_related_endpoints", <<>>),
         Q("find_in_graph", [mode |-> "other"])>>
InspectRequests ==
  Pair("get_node_neighbors", [node_id |-> 3], "inspect_node", "neighbors", [node_id |-> 3],
       <<"neighbors">>, "")
    \o Pair("get_ego_graph", [center |-> 3, radius |-> 9], "inspect_node", "ego",
            [center |-> 3, radius |-> 9], <<"ego">>, "")
    \o Pair("get_evidence_pack", [file_path |-> "orders.java"], "inspect_node", "evidence",
            [node_id |-> 3, file_path |-> "orders.java", max_snippet_lines |-> 1],
            <<"evidence">>, "")
    \o Pair("read_file", [file_path |-> "cart.go"], "inspect_node", "source",
            [file_path |-> "cart.go", start_line |-> 2], <<"source">>, "")
    \o <<Q("get_evidence_pack", [file_path |-> "cart.go", include_references |-> TRUE,
                                 max_snippet_lines |-> 9]),
         Q("get_evidence_pack", [symbol |-> "checkout", include_references |-> TRUE,
                                 max_snippet_lines |-> 2]),
         Q("get_evidence_pack", [malformed |-> TRUE]), Q("get_evidence_pack", <<>>),
         Q("read_file", [file_path |-> "cart.go", start_line |-> 2, end_line |-> 9]),
         Q("read_file", [file_path |-> "link"]), Q("read_file", [file_path |-> "logo.png"]),
         Q("get_artifact_metadata", <<>>), Q("get_capabilities", [language |-> "go"]),
         Q("get_capabilities", <<>>)>>
Trace(tool, mode, id, field) ==
  Pair(tool, [target_id |-> id], "trace_relationships", mode, [node_id |-> id],
       <<"of node", mode>>, field)
TraceRequests ==
  Trace("find_callers", "callers", 3, "callers")
    \o Trace("find_consumers", "consumers", 8, "consumers")
    \o Trace("find_producers", "producers", 8, "producers")
    \o Trace("find_dependencies", "dependencies", 4, "dependencies")
    \o Trace("find_dependents", "dependents", 3, "dependents")
    \o Pair("find_shortest_path", [source |-> 5, target |-> 8], "trace_relationships",
            "shortest_path", [from |-> 5, to |-> 8], <<"shortest">>, "")
    \o <<Q("find_callers", <<>>)>>
ImpactRequests ==
  Pair("blast_radius", [node_id |-> 3, depth |-> 3], "analyze_impact", "blast_radius",
       [node_id |-> 3], <<"blast">>, "")
    \o Pair("trace_impact", [node_id |-> 4, depth |-> 9], "analyze_impact", "trace",
            [node_id |-> 4, depth |-> 9], <<"trace">>, "")
    \o Pair("find_cycles", [limit |-> 5], "analyze_impact", "cycles", [limit |-> 5],
            <<"cycles">>, "")
    \o Pair("find_circular_deps", <<>>, "analyze_impact", "circular_deps", <<>>,
            <<"circular">>, "cycles")
    \o Pair("find_dead_code", <<>>, "analyze_impact", "dead_code", [limit |-> 9],
            <<"dead code">>, "")
    \o Pair("find_dead_services", <<>>, "analyze_impact", "dead_services", <<>>,
            <<"dead">>, "dead_services")
    \o Pair("find_bottlenecks", <<>>, "analyze_impact", "bottlenecks", <<>>,
            <<"bottlenecks">>, "bottlenecks")
Service(tool, mode, name, question) ==
  Pair(tool, [service_name |-> name], "topology_view", mode, [service_name |-> name],
       <<question, name>>, "")
Flow(view) == [view |-> view, format |-> "json"]
TopologyRequests ==
  Pair("get_topology", <<>>, "topology_view", "summary", <<>>, <<"topology">>, "")
    \o Service("service_detail", "service", "cart", "detail")
    \o Service("service_dependencies", "service_deps", "cart", "dependencies")
    \o Service("service_dependents", "service_dependents", "orders", "dependents")
    \o Service("service_dependents", "service_dependents", "cart", "dependents")
    \o <<Ask("find_path", [source |-> "cart", target |-> "orders"],
             <<"path", "cart", "orders">>, "path"),
         Ask("find_path", [source |-> "web", target |-> "orders"],
             <<"path", "web", "orders">>, "path"),
         Q("find_path", [source |-> "web", target |-> "web"]),
         Q("find_path", [source |-> "cart"])>>
    \o Pair("generate_flow", Flow("deploy"), "topology_view", "flow", Flow("deploy"),
            <<"deploy">>, "")
    \o <<Ask("generate_flow", Flow("ci"), <<"ci">>, ""),
         Ask("generate_flow", Flow("auth"), <<"auth">>, ""),
         Ask("generate_flow", Flow("runtime"), <<"runtime">>, ""),
         Ask("generate_flow", <<>>, <<"overview">>, ""),
         Q("generate_flow", [view |-> "other"]), Q("generate_flow", [format |-> "png"])>>
OtherRequests ==
  <<Ask("run_cypher", [query |-> Words(<<"MATCH", "RETURN">>)], <<"cypher">>, ""),
    Q("run_cypher", [query |-> Words(<<"MATCH", "DELETE">>)]), Q("run_cypher", <<>>),
    Q("review_changes", <<>>), Q("review_changes", [base_ref |-> "gone"]),
    Q("review_changes", [focus_files |-> {"orders.java"}])>>
AllRequests ==
  StatsRequests \o NodeRequests \o InspectRequests \o TraceRequests \o ImpactRequests
    \o TopologyRequests \o OtherRequests
AllTools == GraphTools \o TopologyTools \o IntelligenceTools \o FlowTools \o ConsolidatedTools
AllServices ==
  {"store", "query", "topology", "stats", "flow", "evidence", "meta", "planner", "root"}
WiredByCommand == AllServices \ {"evidence", "meta"}
FewRequests ==
  <<Q("graph_summary", [mode |-> "overview"]), Q("topology_view", [mode |-> "summary"])>>
-----------------------------------------------------------------------------
QueryCommand(which, id) ==
  [do |-> "query", which |-> which, id |-> id, asks |-> <<"of node", which>>]
Topo(which, asks) ==
  [do |-> "topology", which |-> which, name |-> "cart", id |-> 3, depth |-> 1,
   source |-> "cart", target |-> "orders", asks |-> asks]
FlowOf(view, format) ==
  [do |-> "flow", view |-> view, format |-> format,
   asks |-> IF format = "json" THEN <<view>> ELSE <<view, format>>]
Find(which, offset, limit) ==
  [do |-> "find", which |-> which, offset |-> offset, limit |-> limit, asks |-> <<>>]
Cypher(words, asks) == [do |-> "cypher", query |-> Words(words), max |-> 2, asks |-> asks]
StatsOf(category, asks) == [do |-> "stats", category |-> category, asks |-> asks]
AllCommands ==
  <<QueryCommand("callers", 3), QueryCommand("consumers", 8), QueryCommand("producers", 8),
    QueryCommand("dependencies", 4), QueryCommand("dependents", 3), Find("endpoints", 0, 5),
    Find("services", -1, 1), Find("entities", 1, 5), StatsOf("", <<"stats">>),
    StatsOf("auth", <<"auth statistics">>), Topo("", <<"topology">>),
    Topo("service-detail", <<"detail", "cart">>), Topo("blast-radius", <<"blast">>),
    Topo("bottlenecks", <<"bottlenecks">>), Topo("circular", <<"circular">>),
    Topo("dead", <<"dead">>), Topo("path", <<"path", "cart", "orders">>),
    Cypher(<<"MATCH", "RETURN">>, <<"cypher">>), Cypher(<<"CREATE">>, <<>>),
    FlowOf("overview", "json"), FlowOf("ci", "dot"), FlowOf("deploy", "mermaid"),
    FlowOf("deploy", "png"), FlowOf("other", "json"),
    [do |-> "graph", format |-> "json", asks |-> <<>>],
    [do |-> "graph", format |-> "dot", asks |-> <<>>],
    [do |-> "graph", format |-> "csv", asks |-> <<>>],
    [do |-> "review", base |-> "", head |-> "", focus |-> {}, model |-> "m", asks |-> <<>>]>>
FewCommands == <<StatsOf("", <<"stats">>), FlowOf("overview", "json")>>

Found == {<<"o", "Order">>, <<"o", "orders">>, <<"o", "checkout">>, <<"o", "Login">>,
          <<"com.shop.Order", "Order">>}
FoundInText == {<<"o", "cart">>}
Exact == {<<"com.shop.Order", "Order">>, <<"o", "orders">>}
JavaLike == {"com.shop.Order"}
Changed(path) == [is |-> "file", path |-> path]
Line(is) == [is |-> is]
Revisions ==
  (<<"HEAD~1", "HEAD">> :>
     <<Line("other"), Changed("cart.go"), [is |-> "new", path |-> "cart.go"], Line("hunk"),
       Line("add"), Line("other"), Changed("orders.java"), Line("remove")>>)
ModelAnswers == {"m", "transport"}
=============================================================================
