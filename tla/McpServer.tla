------------------------------ MODULE McpServer ------------------------------
(***************************************************************************)
(* The read side as it runs: one MCP server over the graph of its project,   *)
(* whose clients call tools, and the read commands of the command line,     *)
(* started beside it anywhere on the disk.                                 *)
(*                                                                         *)
(* A call is handled in a goroutine of its own.  The store's mutex makes    *)
(* each query a step, but the snapshot that the statistics share is read and *)
(* written without a lock: a call finds `once` unset, sets it, and stores    *)
(* nodes and edges when both are loaded; another one may come in between.   *)
(***************************************************************************)
EXTENDS CliCommands

CONSTANTS
  Disks,      \* disks to start with
  Places,     \* where commands are started
  ServerAt,   \* where the server is started: the place of an `mcp` command
  Offered,    \* the tools that are registered, in order
  Wired,      \* the services that are wired
  Models,     \* what the language model may do
  Callers,    \* concurrent calls
  Requests,   \* what clients may call: [tool, p], and `asks` and `field` (see below)
  Commands,   \* what is run on the command line, also with `asks`
  MaxAnswers, \* bound: answers given or being worked on
  CallsFail   \* whether a query may fail

ASSUME DisksAssumption ==
  \A d \in Disks :
    /\ d \in [DOMAIN d -> [git : BOOLEAN, graph : {d[dir].graph : dir \in DOMAIN d}]]
    /\ \A dir \in DOMAIN d : SoundGraph(d[dir].graph)
    /\ ServerAt.cwd \in Seq(STRING) /\ Ancestors(ServerAt.cwd) \subseteq DOMAIN d

\* Parameters that decode have the types of their fields.
ASSUME RequestsAssumption ==
  /\ \A k \in DOMAIN Requests :
       LET p == Requests[k].p
       IN /\ \A name \in {"limit", "radius", "depth", "node_id", "max_snippet_lines"} :
               name \in DOMAIN p => p[name] \in Int
          /\ "include_references" \in DOMAIN p => p.include_references \in BOOLEAN
          /\ Requests[k].tool = "run_cypher" /\ "query" \in DOMAIN p => p.query.rows \in Nat
  /\ CallsFail \in BOOLEAN

\* The tools of the five groups of registration, and the commands there are.
ASSUME OfferedAssumption ==
  /\ Offered \in Seq(ToSet(GraphTools \o TopologyTools \o IntelligenceTools \o FlowTools
                           \o ConsolidatedTools))
  /\ \A k \in DOMAIN Commands :
       Commands[k].do \in {"query", "find", "stats", "topology", "cypher", "flow", "graph",
                           "review"}

VARIABLES
  disk,
  server,     \* [phase, root, tools]
  stats,      \* StoreStatsService: [once, ok, g]
  call,       \* per caller: [at, request]
  answers     \* what was answered without an error: [by, asked, answer]

vars == <<disk, server, stats, call, answers>>

Phases == {"boot", "serving", "stopped"}
NoRequest == [tool |-> "", p |-> <<>>]
Idle == [at |-> "idle", request |-> NoRequest]
StatsTools == {"get_stats", "get_detailed_stats", "graph_summary"}

Room == Len(answers) + Cardinality({c \in Callers : call[c].at # "idle"}) < MaxAnswers

Init ==
  /\ disk \in Disks
  /\ server = [phase |-> "boot", root |-> Resolve(disk, ServerAt), tools |-> <<>>]
  /\ stats = [once |-> FALSE, ok |-> TRUE, g |-> NoGraph]
  /\ call = [c \in Callers |-> Idle]
  /\ answers = <<>>
-----------------------------------------------------------------------------
(* Boot *)

\* Server.Register: a name that is there already stops the server, as does a project
\* that is not found or has no database.
Register ==
  /\ server.phase = "boot"
  /\ Len(server.tools) < Len(Offered)
  /\ LET tool == Offered[Len(server.tools) + 1]
         usable == server.root # <<>> /\ disk[server.root[1]].graph.is # "absent"
     IN IF ~ usable \/ tool \in ToSet(server.tools)
        THEN server' = [server EXCEPT !.phase = "stopped"]
        ELSE server' = [server EXCEPT !.tools = Append(@, tool)]
  /\ UNCHANGED <<disk, stats, call, answers>>

\* Server.Serve
Serve ==
  /\ server.phase = "boot"
  /\ Len(server.tools) = Len(Offered)
  /\ server' = [server EXCEPT !.phase = "serving"]
  /\ UNCHANGED <<disk, stats, call, answers>>
-----------------------------------------------------------------------------
(* Calls *)

Graph == disk[server.root[1]].graph
\* Queries fail on a database without tables.
QueryFails == IF Graph.is = "empty" THEN {TRUE} ELSE {FALSE, CallsFail}

\* Whether the handler comes to the statistics' cache.
NeedsStats(request) ==
  /\ "stats" \in Wired
  /\ request.tool \in StatsTools
  /\ (request.tool = "graph_summary"
        => Mode(request.p) \in {"", "malformed", "overview", "categories"})

\* A client calls with the k-th request.
Call(c, k) ==
  LET request == Requests[k]
  IN /\ server.phase = "serving"
     /\ call[c].at = "idle"
     /\ Room
     /\ request.tool \in ToSet(server.tools)
     /\ call' = [call EXCEPT ![c] = [at |-> IF NeedsStats(request) THEN "load" ELSE "handle",
                                     request |-> request]]
     /\ UNCHANGED <<disk, server, stats, answers>>

\* load: the first to find `once` unset loads, any other goes on with what is there.
LoadCheck(c) ==
  /\ call[c].at = "load"
  /\ stats' = [stats EXCEPT !.once = TRUE]
  /\ call' = [call EXCEPT ![c].at = IF stats.once THEN "handle" ELSE "loading"]
  /\ UNCHANGED <<disk, server, answers>>

\* The loader's result; one that failed stays for ever.
LoadDone(c) ==
  /\ call[c].at = "loading"
  /\ \E fails \in QueryFails :
       stats' = IF fails THEN [stats EXCEPT !.ok = FALSE] ELSE [stats EXCEPT !.g = Graph]
  /\ call' = [call EXCEPT ![c].at = "handle"]
  /\ UNCHANGED <<disk, server, answers>>

Answered(by, asked, answer) ==
  answers' = Append(answers, [by |-> by, asked |-> asked, answer |-> answer])

\* An envelope with a code, or the legacy one.
Fault(answer) ==
  "code" \in DOMAIN answer \/ ("error" \in DOMAIN answer /\ answer.error)

\* The rest of the handler; asSDKTool sends whatever it returns.
Answer(c) ==
  /\ call[c].at = "handle"
  /\ \E fails \in QueryFails, model \in Models :
       LET r == call[c].request
           x == [g |-> Graph, wired |-> Wired, fails |-> fails, stats |-> stats,
                 model |-> model]
           answer == Handle(r.tool, x, r.p)
       IN IF Fault(answer) THEN UNCHANGED answers ELSE Answered("mcp", r, answer)
  /\ call' = [call EXCEPT ![c] = Idle]
  /\ UNCHANGED <<disk, server, stats>>

\* The k-th of the read commands, from start to end.
Command(place, k) ==
  LET c == Commands[k]
      outcome == RunCommand(disk, place, c)
  IN /\ server.phase # "boot"
     /\ Room
     /\ disk' = outcome.disk
     /\ IF outcome.exit = 0 /\ Resolve(disk, place) = server.root
        THEN Answered("cli", c, outcome.answer) ELSE UNCHANGED answers
     /\ UNCHANGED <<server, stats, call>>

Handler(c) ==
  \/ \E k \in DOMAIN Requests : Call(c, k)
  \/ LoadCheck(c)
  \/ LoadDone(c)
  \/ Answer(c)

Next ==
  \/ Register
  \/ Serve
  \/ \E c \in Callers : Handler(c)
  \/ \E place \in Places, k \in DOMAIN Commands : Command(place, k)

Spec == Init /\ [][Next]_vars
-----------------------------------------------------------------------------
(* What the answers should be.  `asks` names the question of a request or a  *)
(* command, a sequence of words that is empty if no other one asks it, and  *)
(* `field` the part of a tool's answer that a command prints, "" for all of *)
(* it.  The properties are about the answers given, by their index.        *)

ByServer == {k \in DOMAIN answers : answers[k].by = "mcp"}
\* The answers of a tool, also where another one chooses it by a mode.
Served(tool, chooser, mode) ==
  {k \in ByServer : \/ answers[k].asked.tool = tool
                    \/ /\ answers[k].asked.tool = chooser
                       /\ Mode(answers[k].asked.p) = mode}
Has(k, field) == field \in DOMAIN answers[k].answer
Said(k) == IF answers[k].by = "mcp" /\ answers[k].asked.field # ""
           THEN answers[k].answer[answers[k].asked.field] ELSE answers[k].answer

\* A question has one answer, whoever is asked: the command line, a narrow tool, or
\* the consolidated tool that took its place as a "surface change, not a query-layer
\* rewrite".  Statistics that could not be loaded are not told from empty ones.
SurfacesAgree ==
  \A i, j \in DOMAIN answers :
    \/ answers[i].asked.asks = <<>>
    \/ answers[i].asked.asks # answers[j].asked.asks
    \/ ~ stats.ok
    \/ Said(i) = Said(j)

Dependencies == Served("service_dependencies", "topology_view", "service_deps")
Dependents   == Served("service_dependents", "topology_view", "service_dependents")
Topologies   == Served("get_topology", "topology_view", "summary")
DeadServices == Served("find_dead_services", "analyze_impact", "dead_services")
Bottlenecks  == Served("find_bottlenecks", "analyze_impact", "bottlenecks")
CircularDeps == Served("find_circular_deps", "analyze_impact", "circular_deps")
Paths        == {k \in ByServer : answers[k].asked.tool = "find_path"}

\* The service tools, which each walk the graph in their own way, tell one story:
\* dependencies and dependents mirror each other, a dead service has no dependents,
\* the bottlenecks are the connected services, every group of services that depend
\* on each other has a circular dependency reported, and a path follows connections.
TopologyAgrees ==
  /\ \A i \in Dependencies, j \in Dependents :
       LET a == answers[i].answer
           b == answers[j].answer
       IN b.service \in ToSet(a.depends_on) <=> a.service \in ToSet(b.depended_by)
  /\ \A i \in Topologies :
       LET t == answers[i].answer
           targets == {c.target : c \in t.connections}
           names == {t.services[k].name : k \in DOMAIN t.services}
       IN /\ \A j \in DeadServices :
               {s.name : s \in ToSet(answers[j].answer.dead_services)} = names \ targets
          /\ \A j \in Bottlenecks :
               {s.service : s \in ToSet(answers[j].answer.bottlenecks)}
                 = targets \cup {c.source : c \in t.connections}
          /\ \A j \in CircularDeps :
               LET found == UNION {ToSet(w) : w \in ToSet(answers[j].answer.cycles)}
               IN /\ found \subseteq Cyclic(t.connections)
                  /\ \A name \in Cyclic(t.connections) :
                       \E other \in found : /\ other \in Reached(t.connections, name)
                                            /\ name \in Reached(t.connections, other)
          /\ \A j \in Paths :
               LET p == answers[j].asked.p
               IN /\ p.source # p.target => p.target \in Reached(t.connections, p.source)
                  /\ \A hop \in ToSet(answers[j].answer.path) :
                       [source |-> hop.from, target |-> hop.to, type |-> hop.type]
                         \in t.connections

\* What is paged has as many rows as there are, up to what was asked for and is
\* allowed; what is reached by depth is within the depth allowed.  (The fields of
\* statistics are names from the graph, and a service's details are not paged.)
AnswersCapped ==
  \A k \in ByServer : answers[k].asked.tool \notin StatsTools =>
    LET e == answers[k].answer
        p == answers[k].asked.p
    IN /\ \A field \in {"dead_code", "endpoints", "results", "rows", "matches"} :
            Has(k, field) /\ Has(k, "count") => Len(e[field]) =< ResultCap
       /\ Has(k, "limit") => e.limit \in 1..ResultCap
       /\ Has(k, "limit") /\ Has(k, "nodes") =>
            Len(e.nodes) = Min({e.limit, Cardinality(FindByKind(Graph, Arg(p, "kind", "")))})
       /\ Has(k, "limit") /\ Has(k, "edges") =>
            /\ Len(e.edges) =< e.limit
            /\ "kind" \notin DOMAIN p => Len(e.edges) = Min({e.limit, Cardinality(Graph.edges)})
       /\ Has(k, "rows") => (e.truncated <=> p.query.rows > Len(e.rows))
       /\ Has(k, "radius") => e.radius \in 1..DepthCap
       /\ Has(k, "affected_nodes") =>
            LET next(n) == Successors(Graph, n)
            IN Ids(ToSet(e.affected_nodes)) \subseteq Within(e.source, next, DepthCap)
       /\ Has(k, "prompt") => Len(e.prompt) =< MaxFiles

\* A diagram's edges join boxes that are shown, and in the deploy view only boxes of
\* resources the graph connects, although boxes are numbered before they are cut off.
Diagrams == Served("generate_flow", "topology_view", "flow")
              \cup {k \in DOMAIN answers : answers[k].by = "cli" /\ answers[k].asked.do = "flow"}
ViewAsked(k) == IF answers[k].by = "cli" THEN answers[k].asked.view
                ELSE Arg(answers[k].asked.p, "view", "")
DiagramTruthful ==
  \A k \in Diagrams :
    LET diagram == answers[k].answer
        boxes == {n.id : n \in ToSet(diagram.nodes)}
        resource(box) ==
          LET group == CHOOSE j \in DOMAIN DeployGroups : DeployGroups[j] = box[1]
          IN DeployGroup(Graph, group)[box[2] + 1].id
    IN \A edge \in ToSet(diagram.edges) :
         /\ {edge.from, edge.to} \subseteq boxes
         /\ ViewAsked(k) = "deploy" =>
              \E e \in Graph.edges : /\ e.from = resource(edge.from)
                                     /\ e.to = resource(edge.to)

\* A pack's references are other nodes, each once, that do reach a match; its
\* snippets keep to the bound that was asked for, which only the tool itself takes;
\* what it claims is exact has no note.
EvidenceSound ==
  \A k \in Served("get_evidence_pack", "inspect_node", "evidence") :
    LET pack == answers[k].answer
        p == answers[k].asked.p
        references == Ids(ToSet(pack.references))
        bound == IF answers[k].asked.tool = "get_evidence_pack"
                      /\ "max_snippet_lines" \in DOMAIN p
                 THEN Max({1, Min({p.max_snippet_lines, ConfiguredSnippet})})
                 ELSE ConfiguredSnippet
    IN /\ Cardinality(references) = Len(pack.references)
       /\ references \cap Ids(ToSet(pack.matched)) = {}
       /\ \A id \in references :
            \E m \in ToSet(pack.matched) : m.id \in Successors(Graph, id)
       /\ \A s \in ToSet(pack.snippets) : s[2] - s[1] + 1 =< bound
       /\ pack.capability = "EXACT" => pack.notes = {}

\* The statistics a client sees are those of the whole graph: the comment at the
\* snapshot says the first call loads "the full node + edge lists".
StatsSeeWholeGraph ==
  \A k \in ByServer :
    Has(k, "graph") => answers[k].answer.graph.nodes = Cardinality(Graph.nodes)

\* A graph tells WalkUp that "the project has been indexed": no reading makes one.
MarkerMeansIndexed == \A d \in DOMAIN disk : disk[d].graph.is # "empty"
=============================================================================
