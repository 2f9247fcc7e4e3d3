------------------------------ MODULE GraphStats ------------------------------
(***************************************************************************)
(* query.StatsService: the seven categories, as functions of the nodes and  *)
(* edges.  Counts are bags, functions from a name to how often it occurs;   *)
(* the order in which they are printed is left out.                        *)
(***************************************************************************)
EXTENDS GraphQueries

Categories == <<"graph", "languages", "frameworks", "infra", "connections", "auth",
                "architecture">>

\* How often each name other than "" comes out of the nodes (or edges) in S.
Counted(S, name(_)) ==
  [k \in {name(x) : x \in S} \ {""} |-> Cardinality({x \in S : name(x) = k})]

ComputeGraph(g) ==
  [nodes |-> Cardinality(g.nodes), edges |-> Cardinality(g.edges),
   files |-> Cardinality({n.file : n \in g.nodes} \ {""}),
   edges_by_kind |-> Counted(g.edges, LAMBDA e : e.kind)]

\* properties.language, else what the file's extension stands for; `ext` is the
\* extension, and one that is not in the table stands for itself.
ExtByLang ==
  [kt |-> "kotlin", kts |-> "kotlin", py |-> "python", js |-> "javascript",
   mjs |-> "javascript", cjs |-> "javascript", ts |-> "typescript", tsx |-> "typescript",
   rs |-> "rust", cs |-> "csharp", rb |-> "ruby", cc |-> "cpp", cxx |-> "cpp", h |-> "c",
   proto |-> "protobuf", yml |-> "yaml", cfg |-> "ini", tf |-> "terraform",
   md |-> "markdown", htm |-> "html", scss |-> "css", sass |-> "css", sh |-> "shell",
   bash |-> "shell"]
ExtractLanguage(n) ==
  CASE Prop(n, "language", "") # "" -> Prop(n, "language", "")
    [] Prop(n, "language", "") = "" /\ n.ext \in DOMAIN ExtByLang -> ExtByLang[n.ext]
    [] OTHER -> n.ext

ComputeLanguages(g)  == Counted(g.nodes, ExtractLanguage)
ComputeFrameworks(g) == Counted(g.nodes, LAMBDA n : Prop(n, "framework", ""))

DbTypeNormalize ==
  [mysql |-> "MySQL", postgresql |-> "PostgreSQL", postgres |-> "PostgreSQL",
   sqlserver |-> "SQL Server", mssql |-> "SQL Server", oracle |-> "Oracle", db2 |-> "DB2",
   h2 |-> "H2", sqlite |-> "SQLite", mariadb |-> "MariaDB", derby |-> "Derby",
   hsqldb |-> "HSQLDB", mongo |-> "MongoDB", mongodb |-> "MongoDB", redis |-> "Redis",
   cassandra |-> "Cassandra", dynamodb |-> "DynamoDB", couchbase |-> "Couchbase",
   neo4j |-> "Neo4j", cockroachdb |-> "CockroachDB"]
NormalizeDbType(raw) == IF raw \in DOMAIN DbTypeNormalize THEN DbTypeNormalize[raw] ELSE raw

\* `jdbc` is the type a JDBC URL among the properties names; a label that looks
\* like a configuration key is no type.
ResolveDbType(n) ==
  CASE Prop(n, "db_type", "") # "" -> NormalizeDbType(Prop(n, "db_type", ""))
    [] Prop(n, "db_type", "") = "" /\ Prop(n, "jdbc", "") # "" ->
         NormalizeDbType(Prop(n, "jdbc", ""))
    [] OTHER -> IF "config key" \in n.marks THEN "" ELSE NormalizeDbType(n.label)

PropOrLabel(n, key) ==
  CASE Prop(n, key, "") # "" -> Prop(n, key, "")
    [] Prop(n, key, "") = "" /\ n.label # "" -> n.label
    [] OTHER -> "unknown"

OfKinds(g, kinds) == {n \in g.nodes : n.kind \in kinds}

ComputeInfra(g) ==
  [databases |-> Counted(OfKinds(g, {"database_connection"}), ResolveDbType),
   messaging |-> Counted(OfKinds(g, {"topic", "queue", "message_queue"}),
                         LAMBDA n : PropOrLabel(n, "protocol")),
   cloud |-> Counted(OfKinds(g, {"azure_resource", "infra_resource"}),
                     LAMBDA n : PropOrLabel(n, "resource_type"))]

ComputeConnections(g) ==
  LET grpc == {n \in OfKinds(g, {"endpoint"}) : Prop(n, "protocol", "") = "grpc"}
      rest == OfKinds(g, {"endpoint"}) \ grpc
      edges(kinds) == Cardinality({e \in g.edges : e.kind \in kinds})
  IN [rest_total |-> Cardinality(rest),
      by_method |-> Counted(rest, LAMBDA n : Prop(n, "http_method", "UNKNOWN")),
      grpc |-> Cardinality(grpc),
      websocket |-> Cardinality(OfKinds(g, {"websocket_endpoint"})),
      producers |-> edges({"produces", "publishes"}),
      consumers |-> edges({"consumes", "listens"})]

\* `auth` is what follows "auth:" in the framework.
ComputeAuth(g) ==
  Counted(g.nodes, LAMBDA n : IF n.kind = "guard" THEN Prop(n, "auth_type", "unknown")
                              ELSE Prop(n, "auth", ""))

Architecture == {"class", "interface", "abstract_class", "enum", "annotation_type",
                 "module", "method"}
ComputeArchitecture(g) == Counted(OfKinds(g, Architecture), LAMBDA n : n.kind)

\* nil (here <<>>) for an unknown category.
ComputeCategory(g, category) ==
  CASE category = "graph" -> ComputeGraph(g)
    [] category = "languages" -> ComputeLanguages(g)
    [] category = "frameworks" -> ComputeFrameworks(g)
    [] category = "infra" -> ComputeInfra(g)
    [] category = "connections" -> ComputeConnections(g)
    [] category = "auth" -> ComputeAuth(g)
    [] category = "architecture" -> ComputeArchitecture(g)
    [] OTHER -> <<>>

ComputeStats(g) == [c \in ToSet(Categories) |-> ComputeCategory(g, c)]
=============================================================================
