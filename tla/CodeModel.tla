------------------------------ MODULE CodeModel ------------------------------
(***************************************************************************)
(* The vocabulary of the code graph: kinds of nodes and edges, layers,     *)
(* confidence, and the default values of a node.  Kinds are their          *)
(* canonical names; an order is the declaration order of the Go constants, *)
(* which BulkLoadEdges and the listings rely on.                           *)
(***************************************************************************)
EXTENDS Sequences

NodeKindNames ==
  <<"module", "package", "class", "method", "endpoint", "entity",
    "repository", "query", "migration", "topic", "queue", "event",
    "rmi_interface", "config_file", "config_key", "websocket_endpoint",
    "interface", "abstract_class", "enum", "annotation_type",
    "protocol_message", "config_definition", "database_connection",
    "azure_resource", "azure_function", "message_queue", "infra_resource",
    "component", "guard", "middleware", "hook", "service", "external",
    "sql_entity">>

EdgeKindNames ==
  <<"depends_on", "imports", "extends", "implements", "calls", "injects",
    "exposes", "queries", "maps_to", "produces", "consumes", "publishes",
    "listens", "invokes_rmi", "exports_rmi", "reads_config", "migrates",
    "contains", "defines", "overrides", "connects_to", "triggers",
    "provisions", "sends_to", "receives_from", "protects", "renders",
    "references_table">>

LayerNames == <<"frontend", "backend", "infra", "shared", "unknown">>

ConfidenceNames == <<"LEXICAL", "SYNTACTIC", "RESOLVED">>

NodeKinds == {NodeKindNames[i] : i \in DOMAIN NodeKindNames}
EdgeKinds == {EdgeKindNames[i] : i \in DOMAIN EdgeKindNames}
Layers    == {LayerNames[i] : i \in DOMAIN LayerNames}

\* Parse*Kind: the position of a canonical name, 0 where Go returns an error.
Parse(names, name) ==
  IF \E i \in DOMAIN names : names[i] = name
  THEN CHOOSE i \in DOMAIN names : names[i] = name
  ELSE 0
=============================================================================
