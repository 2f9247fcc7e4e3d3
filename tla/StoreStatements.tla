--------------------------- MODULE StoreStatements ---------------------------
(***************************************************************************)
(* The statements the store sends to Kuzu, on a database value: the rows   *)
(* of CodeNode, those of all rel tables, and which FTS indexes exist.  What *)
(* Kuzu does with a statement is taken from its documentation: it is        *)
(* atomic, a primary key is unique, an edge needs both ends, and DELETE     *)
(* without DETACH refuses a node that still has edges.                     *)
(*                                                                         *)
(* A program is the sequence of statements a Store method issues; the       *)
(* mutex is released between two of them.                                  *)
(***************************************************************************)
EXTENDS CodeModel, Integers, FiniteSetsExt, SequencesExt

CONSTANTS
  RelKinds,    \* the edge kinds that occur, in the order of AllEdgeKinds
  BatchSize,   \* bulkLoadBatchSize
  StartsWith,  \* <<needle, word>>: the needle is a prefix of the word
  PartOf     \* <<needle, word>>: it is part of it

ASSUME BatchAssumption == BatchSize \in Nat \ {0}
ASSUME RelKindsAssumption == RelKinds \in Seq(EdgeKinds)

Indexes == <<"code_node_label_fts", "code_node_lexical_fts">>
Edge == [kind : Range(RelKinds), from : Int, to : Int, source : STRING]
NodeWith(lines) ==
  [id : Int, kind : NodeKinds, file : STRING, line : lines, layer : Layers,
   source : STRING, text : [Range(Indexes) -> SUBSET STRING]]
Node == NodeWith(Nat)
\* The rows of CodeNode, where no line is NULL, here -1.
Database == [nodes : SUBSET NodeWith((Nat \ {0}) \cup {-1}), rels : SUBSET Edge,
             indexes : SUBSET Range(Indexes)]
UniqueIds(nodes) == \A m, n \in nodes : m.id = n.id => m = n
EmptyDb == [nodes |-> {}, rels |-> {}, indexes |-> {}]

\* The words of a statement's text as the mutation gate sees them; "comment" is
\* a comment of either form, whatever it says.
Deleting == <<"MATCH", "DELETE">>
Reading  == <<"MATCH", "RETURN">>
-----------------------------------------------------------------------------
(* The mutation gate *)

BlockedWords == {"CREATE", "DELETE", "DETACH", "SET", "REMOVE", "MERGE", "DROP",
                 "FOREACH", "LOAD CSV", "COPY"}
ReadOnlyCalls == {"CALL db.", "CALL show_", "CALL table_", "CALL current_setting",
                  "CALL query_fts_index"}
OtherCalls == {"CALL drop_fts_index", "CALL create_fts_index"}

\* Mutant of MutationKeyword: the expressions are anchored to the beginning.
FirstMutationKeyword(words) ==
  IF Head(words) \in BlockedWords \cup OtherCalls THEN Head(words) ELSE ""

\* The first blocked word outside comments; without one, the first CALL of a
\* procedure that is not known to read only; "" if the query may run.
MutationKeyword(words) ==
  LET at(set) == {i \in DOMAIN words : words[i] \in set}
      first(set) == words[Min(at(set))]
  IN CASE at(BlockedWords) # {} -> first(BlockedWords)
       [] at(BlockedWords) = {} /\ at(OtherCalls) # {} -> first(OtherCalls)
       [] OTHER -> ""
-----------------------------------------------------------------------------
(* What comes back of a row *)

\* encodeNodeRow: no line is NULL.
Encoded(n) == [n EXCEPT !.line = IF n.line > 0 THEN n.line ELSE -1]
\* LoadAllNodes: NULL is zero; the other columns are parsed back.
Hydrated(n) ==
  [id |-> n.id, file |-> n.file, source |-> n.source, text |-> n.text,
   line |-> IF n.line = -1 THEN 0 ELSE n.line,
   kind |-> NodeKindNames[Parse(NodeKindNames, n.kind)],
   layer |-> LayerNames[Parse(LayerNames, n.layer)]]
-----------------------------------------------------------------------------
(* Programs that write *)

Incident(r, ids) == {r.from, r.to} \cap ids # {}
IdsOf(db, file) == {n.id : n \in {m \in db.nodes : m.file = file}}

\* Mutant of RemoveFile: the loop leaves out the last rel table.
RemoveFileButLast(file) ==
  [k \in 1..(Len(RelKinds) - 1) |->
     [do |-> "deleteRels", words |-> Deleting, kind |-> RelKinds[k], file |-> file]]
  \o <<[do |-> "deleteNodes", words |-> Deleting, file |-> file]>>

RemoveFile(file) ==
  [k \in DOMAIN RelKinds |->
     [do |-> "deleteRels", words |-> Deleting, kind |-> RelKinds[k], file |-> file]]
  \o <<[do |-> "deleteNodes", words |-> Deleting, file |-> file]>>

\* The places of a list, BatchSize at a time.
Batches(places) ==
  [b \in 1..((Cardinality(places) + BatchSize - 1) \div BatchSize) |->
     {i \in places : Cardinality({j \in places : j < i}) \div BatchSize = b - 1}]

BulkLoadNodes(nodes) ==
  LET batches == Batches(DOMAIN nodes)
  IN [b \in DOMAIN batches |->
        [do |-> "copyNodes", words |-> <<"COPY">>,
         rows |-> {Encoded(nodes[i]) : i \in batches[b]}]]

CopyEdgeGroup(kind, edges) ==
  LET batches == Batches({i \in DOMAIN edges : edges[i].kind = kind})
  IN [b \in DOMAIN batches |->
        [do |-> "copyRels", words |-> <<"COPY">>,
         rows |-> {edges[i] : i \in batches[b]}]]

BulkLoadEdges(edges) ==
  FlattenSeq([k \in DOMAIN RelKinds |-> CopyEdgeGroup(RelKinds[k], edges)])

InsertFile(nodes, edges) == BulkLoadNodes(nodes) \o BulkLoadEdges(edges)
ReplaceFile(file, nodes, edges) == RemoveFile(file) \o InsertFile(nodes, edges)

WipeLinkerEdges(sources) ==
  IF sources = {} THEN <<>>
  ELSE [k \in DOMAIN RelKinds |->
          [do |-> "wipeRels", words |-> Deleting, kind |-> RelKinds[k],
           sources |-> sources]]
       \o <<[do |-> "wipeNodes", words |-> Deleting, sources |-> sources]>>

CreateIndexes ==
  <<[do |-> "fts", words |-> <<"INSTALL">>],
    [do |-> "fts", words |-> <<"LOAD EXTENSION">>]>>
  \o [i \in DOMAIN Indexes |->
        [do |-> "dropIndex", words |-> <<"CALL drop_fts_index">>,
         index |-> Indexes[i]]]
  \o [i \in DOMAIN Indexes |->
        [do |-> "createIndex", words |-> <<"CALL create_fts_index">>,
         index |-> Indexes[i]]]
-----------------------------------------------------------------------------
(* Programs that read *)

LoadAllNodes == <<[do |-> "nodes", words |-> Reading]>>
LoadAllEdges ==
  [k \in DOMAIN RelKinds |-> [do |-> "edges", words |-> Reading, kind |-> RelKinds[k]]]
CypherRows(words, maxRows) ==
  <<[do |-> "rows", words |-> words, max |-> IF maxRows =< 0 THEN 1 ELSE maxRows]>>
Search(index, needle, limit) ==
  <<[do |-> "search", words |-> <<"CALL query_fts_index">>, index |-> index,
     needle |-> needle, limit |-> Max({0, limit})]>>
\* Mutant of SearchFallback: the fallback searches the index again.
SearchFallbackAgain(st) == st

\* searchByLabelFallback, searchLexicalFallback
SearchFallback(st) ==
  [do |-> "contains", words |-> Reading, index |-> st.index, needle |-> st.needle,
   limit |-> st.limit]

Neighbors(id, outgoing) ==
  <<[do |-> "neighbors", words |-> Reading, id |-> id, outgoing |-> outgoing]>>
\* CountNodesByKind, CountNodesByLayer
CountBy(key) == <<[do |-> "count", words |-> Reading, key |-> key]>>
\* FindByID
FindByID(id) == <<[do |-> "byId", words |-> Reading, id |-> id]>>
\* FindByKindPaginated
Page(kind, offset, limit) ==
  <<[do |-> "page", words |-> Reading, kind |-> kind, skip |-> Max({0, offset}),
     limit |-> Max({0, limit})]>>
-----------------------------------------------------------------------------
(* What Kuzu does with a statement *)

Refused(db, st) ==
  CASE st.do = "deleteNodes" -> \E r \in db.rels : Incident(r, IdsOf(db, st.file))
    [] st.do = "wipeNodes" ->
         \E r \in db.rels :
           Incident(r, {n.id : n \in {m \in db.nodes : m.source \in st.sources}})
    [] st.do = "copyNodes" ->
         \/ Cardinality({n.id : n \in st.rows}) < Cardinality(st.rows)
         \/ {n.id : n \in st.rows} \cap {n.id : n \in db.nodes} # {}
    [] st.do = "copyRels" ->
         \E r \in st.rows : ~ {r.from, r.to} \subseteq {n.id : n \in db.nodes}
    [] st.do = "dropIndex"   -> st.index \notin db.indexes
    [] st.do = "createIndex" -> st.index \in db.indexes
    [] st.do = "search"      -> st.index \notin db.indexes
    [] OTHER -> FALSE

\* A query changes something only with one of the words that do.
Mutates(words) == Range(words) \cap (BlockedWords \cup OtherCalls) # {}

\* The write a client may send through CypherRows is MATCH (n) DETACH DELETE n.
After(db, st) ==
  CASE st.do = "deleteRels" ->
         [db EXCEPT !.rels = {r \in @ : ~ (r.kind = st.kind
                                           /\ Incident(r, IdsOf(db, st.file)))}]
    [] st.do = "deleteNodes" -> [db EXCEPT !.nodes = {n \in @ : n.file # st.file}]
    [] st.do = "wipeRels" ->
         [db EXCEPT !.rels = {r \in @ : ~ (r.kind = st.kind
                                           /\ r.source \in st.sources)}]
    [] st.do = "wipeNodes" ->
         [db EXCEPT !.nodes = {n \in @ : n.source \notin st.sources}]
    [] st.do = "copyNodes"   -> [db EXCEPT !.nodes = @ \cup st.rows]
    [] st.do = "copyRels"    -> [db EXCEPT !.rels = @ \cup st.rows]
    [] st.do = "dropIndex"   -> [db EXCEPT !.indexes = @ \ {st.index}]
    [] st.do = "createIndex" -> [db EXCEPT !.indexes = @ \cup {st.index}]
    [] st.do = "rows" /\ Mutates(st.words) -> [db EXCEPT !.nodes = {}, !.rels = {}]
    [] OTHER -> db

Found(db, st, relation) ==
  {n \in db.nodes : \E w \in n.text[st.index] : <<st.needle, w>> \in relation}

\* The rows a statement returns, in their order; IDs are ordered numbers.
Sorted(ids) ==
  [i \in 1..Cardinality(ids) |->
     CHOOSE x \in ids : Cardinality({y \in ids : y < x}) = i - 1]
Rows(db, st) ==
  LET all == Sorted({n.id : n \in db.nodes})
      of(set) == Sorted({n.id : n \in set})
      limited(s, n) == SubSeq(s, 1, Min({n, Len(s)}))
  IN CASE st.do \in {"nodes", "rows"} -> all
       [] st.do = "edges" ->
            SetToSeq({r \in db.rels : r.kind = st.kind})
       [] st.do = "search"   -> limited(of(Found(db, st, StartsWith)), st.limit)
       [] st.do = "contains" -> limited(of(Found(db, st, PartOf)), st.limit)
       [] st.do = "neighbors" ->
            Sorted({IF st.outgoing THEN r.to ELSE r.from : r \in
                      {s \in db.rels : st.id = IF st.outgoing THEN s.from ELSE s.to}})
       [] st.do = "count" ->
            SetToSeq({<<v, Cardinality({n \in db.nodes : n[st.key] = v})>> :
                        v \in {n[st.key] : n \in db.nodes}})
       [] st.do = "byId" -> of({n \in db.nodes : n.id = st.id})
       [] st.do = "page" ->
            LET kind == of({n \in db.nodes : n.kind = st.kind})
            IN limited(SubSeq(kind, st.skip + 1, Len(kind)), st.limit)
       [] OTHER -> <<>>
=============================================================================
