----------------------------- MODULE MCGraphStore -----------------------------
(* Values for the constants of GraphStore: two files, a module node of the  *)
(* containment linker and a service that contains one of them.             *)
EXTENDS GraphStore

Text(label, prose) ==
  "code_node_label_fts" :> {label} @@ "code_node_lexical_fts" :> prose
Row(id, kind, file, line, source, text) ==
  [id |-> id, kind |-> kind, file |-> file, line |-> line, layer |-> "backend",
   source |-> source, text |-> text]
Rel(kind, from, to, source) ==
  [kind |-> kind, from |-> from, to |-> to, source |-> source]

F1 == Row(1, "class", "f", 3, "", Text("AuthService", {"login"}))
F2 == Row(2, "method", "f", 4, "", Text("login", {}))
G  == Row(3, "class", "g", 7, "", Text("AuthDao", {}))
M  == Row(4, "module", "", 0, "linker:module_containment", Text("auth", {}))
S  == Row(5, "service", ".", 0, "", Text("shop", {}))

Stored(nodes, rels, indexes) ==
  [nodes |-> {Encoded(n) : n \in nodes}, rels |-> rels, indexes |-> indexes]
Dbs == {Stored({F1, F2, G}, {Rel("calls", 2, 3, ""), Rel("contains", 1, 2, "")}, {}),
        Stored({F1, G, M, S},
               {Rel("calls", 3, 1, ""), Rel("contains", 4, 1, "linker:module_containment"),
                Rel("contains", 5, 3, "")}, Range(Indexes))}

Kinds == <<"calls", "contains">>
BeginsWith == {<<"auth", "AuthService">>, <<"auth", "AuthDao">>, <<"auth", "auth">>}
IsPartOf == BeginsWith \cup {<<"auth", "login">>}

Ops ==
  {[do |-> "insert", nodes |-> <<F2>>, edges |-> <<>>],
   [do |-> "insert", nodes |-> <<>>, edges |-> <<>>],
   [do |-> "remove", file |-> "f"],
   [do |-> "replace", file |-> "f", nodes |-> <<F1, F2, [F2 EXCEPT !.id = 6]>>,
    edges |-> <<Rel("contains", 1, 2, ""), Rel("calls", 2, 3, "")>>],
   [do |-> "wipe", sources |-> {"linker:module_containment"}],
   [do |-> "index"],
   [do |-> "load"],
   [do |-> "cypher", words |-> <<"MATCH", "comment", "RETURN">>, max |-> 3],
   [do |-> "cypher", words |-> <<"MATCH", "RETURN">>, max |-> 0],
   [do |-> "cypher", words |-> <<"MATCH", "DETACH", "DELETE">>, max |-> 5],
   [do |-> "search", index |-> "code_node_label_fts", needle |-> "auth", limit |-> 2],
   [do |-> "neighbors", id |-> 1, outgoing |-> TRUE],
   [do |-> "count", key |-> "kind"],
   [do |-> "find", id |-> 9],
   [do |-> "page", kind |-> "class", offset |-> 1, limit |-> -1],
   [do |-> "close"]}
=============================================================================
