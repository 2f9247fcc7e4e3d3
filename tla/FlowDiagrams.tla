----------------------------- MODULE FlowDiagrams -----------------------------
(***************************************************************************)
(* The flow package: a snapshot of the graph, the five views built from it, *)
(* and the edges a renderer keeps.  A node of a diagram is a pair of a       *)
(* prefix and what it stands for; most stand for all nodes of a kind and    *)
(* carry only their count.                                                 *)
(***************************************************************************)
EXTENDS GraphQueries

CONSTANTS
  MaxTriggers,  \* 10 in the code
  MaxJobs,      \* 20: jobs shown of one workflow
  MaxGroup      \* 20: nodes shown of one group of the deploy view

ASSUME GroupAssumption == MaxGroup \in Nat

Views == {"overview", "ci", "deploy", "runtime", "auth"}

FlowNode(prefix, of, count) == [id |-> <<prefix, of>>, count |-> count]
\* A node that stands for a set of nodes is there only if the set is not empty.
Collapsed(prefix, nodes) ==
  IF nodes = {} THEN <<>> ELSE <<FlowNode(prefix, "", Cardinality(nodes))>>
Subgraph(id, nodes) == [id |-> id, nodes |-> nodes]
\* A subgraph is there only if it has nodes.
Group(id, nodes) == IF nodes = <<>> THEN <<>> ELSE <<Subgraph(id, nodes)>>
Edge(from, to, label, style) == [from |-> from, to |-> to, label |-> label, style |-> style]
\* An edge that is there only if the condition holds.
EdgeIf(condition, edge) == IF condition THEN <<edge>> ELSE <<>>
Diagram(view, subgraphs, edges, stats) ==
  [view |-> view, subgraphs |-> subgraphs, edges |-> edges, stats |-> stats]

AllNodes(d) == FlattenSeq([i \in DOMAIN d.subgraphs |-> d.subgraphs[i].nodes])
\* Edges with an end that is not shown are dropped.
ValidEdges(d) ==
  LET shown == {n.id : n \in ToSet(AllNodes(d))}
  IN Kept(d.edges, LAMBDA e : {e.from, e.to} \subseteq shown)

FindByKind(g, kind) == {n \in g.nodes : n.kind = kind}
Infra(g) == FindByKind(g, "infra_resource") \cup FindByKind(g, "azure_resource")
IsCINode(n) == n.marks \cap {"gha:", "gitlab:"} # {}
CI(g, kind) == {n \in FindByKind(g, kind) : IsCINode(n)}
-----------------------------------------------------------------------------
\* The first of the words in the list that a node's ID contains decides.
Marked(nodes, words, k) ==
  {n \in nodes : /\ n.marks \cap words[k] # {}
                 /\ \A j \in 1..(k - 1) : n.marks \cap words[j] = {}}
Unmarked(nodes, words) ==
  {n \in nodes : \A k \in DOMAIN words : n.marks \cap words[k] = {}}

\* From the sets of nodes and the boxes of three groups.
OverviewEdges(jobs, endpoints, entities, topics, guards, ci, infra, app) ==
  LET source == IF jobs = {} THEN <<"ci_pipelines", "">> ELSE <<"ci_jobs", "">>
  IN EdgeIf(jobs # {}, Edge(<<"ci_pipelines", "">>, <<"ci_jobs", "">>, "", "solid"))
       \o EdgeIf(endpoints # {} /\ entities # {},
                 Edge(<<"app_endpoints", "">>, <<"app_entities", "">>, "queries", "solid"))
       \o EdgeIf(endpoints # {} /\ topics # {},
                 Edge(<<"app_endpoints", "">>, <<"app_messaging", "">>, "", "dotted"))
       \o EdgeIf(guards # {} /\ endpoints # {},
                 Edge(<<"sec_guards", "">>, <<"app_endpoints", "">>, "protects", "thick"))
       \o EdgeIf(ci # <<>> /\ infra # <<>>,
                 Edge(source, Head(infra).id, "deploys", "solid"))
       \o EdgeIf(infra # <<>> /\ app # <<>>,
                 Edge(Head(infra).id, Head(app).id, "hosts", "solid"))

BuildOverview(g) ==
  LET workflows == CI(g, "module")
      jobs == CI(g, "method")
      ci == IF workflows \cup jobs = {} THEN <<>>
            ELSE <<FlowNode("ci_pipelines", "", Cardinality(workflows))>>
                   \o Collapsed("ci_jobs", jobs)
      words == <<{"k8s:"}, {"compose:", "dockerfile"}, {"tf:"}>>
      infra == Collapsed("infra_k8s", Marked(Infra(g), words, 1))
                 \o Collapsed("infra_docker", Marked(Infra(g), words, 2))
                 \o Collapsed("infra_tf", Marked(Infra(g), words, 3))
                 \o Collapsed("infra_other", Unmarked(Infra(g), words))
      endpoints == FindByKind(g, "endpoint")
      entities == FindByKind(g, "entity")
      topics == FindByKind(g, "topic") \cup FindByKind(g, "queue")
      kinds == Collapsed("app_endpoints", endpoints)
                 \o Collapsed("app_entities", entities)
                 \o Collapsed("app_components", FindByKind(g, "component"))
                 \o Collapsed("app_messaging", topics)
                 \o Collapsed("app_database", FindByKind(g, "database_connection"))
      code == FindByKind(g, "class") \cup (FindByKind(g, "method") \ jobs)
      app == IF kinds = <<>> THEN Collapsed("app_code", code) ELSE kinds
      guards == FindByKind(g, "guard")
      security == Collapsed("sec_guards", guards)
                    \o Collapsed("sec_middleware", FindByKind(g, "middleware"))
  IN Diagram("overview",
       Group("ci", ci) \o Group("infra", infra) \o Group("app", app)
         \o Group("security", security),
       OverviewEdges(jobs, endpoints, entities, topics, guards, ci, infra, app),
       [total_nodes |-> Cardinality(g.nodes), total_edges |-> Cardinality(g.edges),
        endpoints |-> Cardinality(endpoints), entities |-> Cardinality(entities),
        guards |-> Cardinality(guards),
        components |-> Cardinality(FindByKind(g, "component")),
        infra_resources |-> Cardinality(Infra(g))])
-----------------------------------------------------------------------------
\* The edges between CI nodes name the boxes of jobs, also of jobs beyond the cap;
\* the edges from trigger_0 name a subgraph, so no renderer keeps them.
BuildCIView(g) ==
  LET workflows == ById(CI(g, "module"))
      jobs == ById(CI(g, "method"))
      triggers == Take(ById(CI(g, "config_key")), MaxTriggers)
      box(n) == <<"job", n.slug>>
      shown(wf) ==
        LET own == Take(Kept(jobs, LAMBDA j : j.module = wf.id), MaxJobs)
        IN [i \in DOMAIN own |-> FlowNode("job", own[i].slug, 1)]
      needs == ByEdge({e \in g.edges :
        /\ e.kind = "depends_on"
        /\ IsCINode(Node(g, e.from)) /\ IsCINode(Node(g, e.to))})
  IN Diagram("ci",
       Group("triggers", [i \in DOMAIN triggers |-> FlowNode("trigger", i - 1, 1)])
         \o [k \in DOMAIN workflows |-> Subgraph(<<"wf", workflows[k].slug>>,
                                                 shown(workflows[k]))],
       [k \in DOMAIN needs |->
          Edge(box(Node(g, needs[k].from)), box(Node(g, needs[k].to)), "needs", "solid")]
         \o (IF triggers = <<>> THEN <<>>
             ELSE [k \in DOMAIN workflows |->
                     Edge(<<"trigger", 0>>, <<"wf", workflows[k].slug>>, "", "dotted")]),
       [workflows |-> Len(workflows), jobs |-> Len(jobs),
        triggers |-> Cardinality(CI(g, "config_key"))])
-----------------------------------------------------------------------------
DeployGroups == <<"k8s", "compose", "tf", "docker", "other">>
DeployWords == <<{"k8s:"}, {"compose:"}, {"tf:"}, {"dockerfile", "docker:"}>>
DeployGroup(g, k) ==
  ById(IF k = Len(DeployGroups) THEN Unmarked(Infra(g), DeployWords)
       ELSE Marked(Infra(g), DeployWords, k))

MakeIndexedNodes(nodes, prefix) ==
  [i \in 1..Min({MaxGroup, Len(nodes)}) |-> FlowNode(prefix, i - 1, 1)]

\* The group and the index of a node in it, shown or not.
ResolveGroupIndex(g, id) ==
  LET k == CHOOSE j \in DOMAIN DeployGroups : id \in Ids(ToSet(DeployGroup(g, j)))
      i == CHOOSE j \in DOMAIN DeployGroup(g, k) : DeployGroup(g, k)[j].id = id
  IN <<DeployGroups[k], i - 1>>

\* Mutant of BuildDeployView: a node's index is looked up among those shown.
BuildDeployViewClamped(g) ==
  LET edges == ByEdge({e \in g.edges : /\ e.kind \in {"connects_to", "depends_on"}
                                        /\ {e.from, e.to} \subseteq Ids(Infra(g))})
      at(id) == LET r == ResolveGroupIndex(g, id) IN <<r[1], Min({r[2], MaxGroup - 1})>>
  IN Diagram("deploy",
       FlattenSeq([k \in DOMAIN DeployGroups |->
         Group(DeployGroups[k], MakeIndexedNodes(DeployGroup(g, k), DeployGroups[k]))]),
       [i \in DOMAIN edges |-> Edge(at(edges[i].from), at(edges[i].to), "", "solid")],
       [k \in DOMAIN DeployWords |-> Len(DeployGroup(g, k))])

BuildDeployView(g) ==
  LET edges == ByEdge({e \in g.edges : /\ e.kind \in {"connects_to", "depends_on"}
                                        /\ {e.from, e.to} \subseteq Ids(Infra(g))})
  IN Diagram("deploy",
       FlattenSeq([k \in DOMAIN DeployGroups |->
         Group(DeployGroups[k], MakeIndexedNodes(DeployGroup(g, k), DeployGroups[k]))]),
       [i \in DOMAIN edges |-> Edge(ResolveGroupIndex(g, edges[i].from),
                                    ResolveGroupIndex(g, edges[i].to), "", "solid")],
       [k \in DOMAIN DeployWords |-> Len(DeployGroup(g, k))])
-----------------------------------------------------------------------------
LayerOf(n) == Prop(n, "layer", n.layer)

BuildRuntimeView(g) ==
  LET endpoints == FindByKind(g, "endpoint")
      fe == {n \in endpoints : LayerOf(n) = "frontend"}
      topics == FindByKind(g, "topic") \cup FindByKind(g, "queue")
      frontend == Collapsed("rt_fe_endpoints", fe)
                    \o Collapsed("rt_components", FindByKind(g, "component"))
      backend == Collapsed("rt_be_endpoints", endpoints \ fe)
                   \o Collapsed("rt_messaging", topics)
      data == Collapsed("rt_entities", FindByKind(g, "entity"))
                \o Collapsed("rt_database", FindByKind(g, "database_connection"))
  IN Diagram("runtime",
       Group("frontend", frontend) \o Group("backend", backend) \o Group("data", data),
       EdgeIf(frontend # <<>> /\ backend # <<>>,
              Edge(Head(frontend).id, Head(backend).id, "calls", "solid"))
         \o EdgeIf(backend # <<>> /\ data # <<>>,
                   Edge(Head(backend).id, Head(data).id, "queries", "solid")),
       [endpoints |-> Cardinality(endpoints), topics |-> Cardinality(topics)])
-----------------------------------------------------------------------------
\* One box per auth type; middleware has the name a type "middleware" would have.
BuildAuthView(g) ==
  LET guards == FindByKind(g, "guard")
      middleware == FindByKind(g, "middleware")
      endpoints == FindByKind(g, "endpoint")
      protected == {n \in endpoints : \E e \in g.edges : e.kind = "protects" /\ e.to = n.id}
      authType(n) == Prop(n, "auth_type", "unknown")
      types == ByName({authType(n) : n \in guards})
      boxes == [i \in DOMAIN types |->
                  FlowNode("auth", types[i],
                           Cardinality({n \in guards : authType(n) = types[i]}))]
               \o (IF middleware = {} THEN <<>>
                   ELSE <<FlowNode("auth", "middleware", Cardinality(middleware))>>)
      eps == Collapsed("ep_protected", protected)
               \o Collapsed("ep_unprotected", endpoints \ protected)
  IN Diagram("auth", Group("guards", boxes) \o Group("endpoints", eps),
       IF protected = {} THEN <<>>
       ELSE [i \in DOMAIN boxes |->
               Edge(boxes[i].id, <<"ep_protected", "">>, "protects", "thick")],
       [guards |-> Cardinality(guards), middleware |-> Cardinality(middleware),
        protected |-> Cardinality(protected),
        unprotected |-> Cardinality(endpoints \ protected)])
-----------------------------------------------------------------------------
Generate(g, view) ==
  CASE view = "overview" -> BuildOverview(g)
    [] view = "ci" -> BuildCIView(g)
    [] view = "deploy" -> BuildDeployView(g)
    [] view = "runtime" -> BuildRuntimeView(g)
    [] view = "auth" -> BuildAuthView(g)

\* Every format shows the nodes of the diagram and its valid edges, JSON and YAML
\* with the numbers; an unknown format is an error.
Formats == {"", "json", "mermaid", "dot", "yaml", "yml"}
Render(d, format) ==
  IF format \notin Formats THEN [error |-> TRUE]
  ELSE With([error |-> FALSE, nodes |-> AllNodes(d), edges |-> ValidEdges(d)],
            IF format \in {"", "json", "yaml", "yml"} THEN [stats |-> d.stats] ELSE <<>>)
=============================================================================
