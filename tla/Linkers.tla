------------------------------- MODULE Linkers -------------------------------
(***************************************************************************)
(* The cross-file linkers of enrich (internal/analyzer/linker).  Each reads *)
(* the nodes and edges collected so far and contributes new ones.          *)
(*                                                                         *)
(* A list of nodes is a sequence, because its order decides which of two   *)
(* entities of one name is linked; edges are a set of records.  An edge's  *)
(* ID is made of the linker, the source and the target, so two records     *)
(* that agree on these share an ID.  A label or a qualified name is a      *)
(* sequence of words ("UserRepository" is <<"User", "Repository">>).       *)
(***************************************************************************)
EXTENDS CodeModel, FiniteSets, SequencesExt

CONSTANTS
  LowerCase,  \* strings.ToLower on words
  NoModule    \* the empty Module field

SrcTopicLinker             == "linker:topic"
SrcEntityLinker            == "linker:entity"
SrcModuleContainmentLinker == "linker:module_containment"
AllSources == {SrcTopicLinker, SrcEntityLinker, SrcModuleContainmentLinker}
NoSource   == ""          \* detectors and the service detector leave Source empty

Edge(kind, from, to, source, about) ==
  [kind |-> kind, from |-> from, to |-> to, source |-> source, about |-> about]

OfKind(nodes, kinds) == {i \in DOMAIN nodes : nodes[i].kind \in kinds}
Ids(nodes) == {nodes[i].id : i \in DOMAIN nodes}
-----------------------------------------------------------------------------
(* TopicLinker *)

ProducerKinds == {"produces", "sends_to", "publishes"}
ConsumerKinds == {"consumes", "receives_from", "listens"}
TopicKinds    == {"topic", "queue", "event", "message_queue"}

\* The sources of the edges of some kinds into a topic with this label.
Partners(nodes, edges, kinds, label) ==
  {e.from : e \in {f \in edges : /\ f.kind \in kinds
                                 /\ \E i \in OfKind(nodes, TopicKinds) :
                                      /\ nodes[i].label = label
                                      /\ nodes[i].id = f.to}}

\* One edge per label, producer and consumer: two topics that the same two
\* nodes share give two records with one ID.
TopicLinks(nodes, edges) ==
  LET labels == {nodes[i].label : i \in OfKind(nodes, TopicKinds)}
      links(label) ==
        {Edge("calls", p, c, SrcTopicLinker, label) :
           p \in Partners(nodes, edges, ProducerKinds, label),
           c \in Partners(nodes, edges, ConsumerKinds, label)}
  IN {e \in UNION {links(label) : label \in labels} : e.from # e.to}
-----------------------------------------------------------------------------
(* EntityLinker *)

RepoSuffixes == {"Repository", "Repo", "Dao", "DAO"}

Lower(name) == [i \in DOMAIN name |-> LowerCase[name[i]]]

\* entityByName after its loop: a later entity overwrites an earlier one, under
\* its label as under the last part of its qualified name.
Named(entity, base) ==
  \/ Lower(entity.label) = base
  \/ entity.fqn # <<>> /\ Lower(<<Last(entity.fqn)>>) = base

EntityByName(nodes, base) ==
  LET named == {i \in OfKind(nodes, {"entity"}) : Named(nodes[i], base)}
  IN {nodes[i].id : i \in {j \in named : \A k \in named : k =< j}}

\* Mutant of EntityLinks: existing QUERIES edges are not looked up.
EntityLinksAgain(nodes, edges) ==
  UNION {{Edge("queries", nodes[i].id, ent, SrcEntityLinker, <<>>) :
            ent \in EntityByName(nodes, Lower(Front(nodes[i].label)))} :
         i \in OfKind(nodes, {"repository"})}

EntityLinks(nodes, edges) ==
  LET repositories == {i \in OfKind(nodes, {"repository"}) :
                         Last(nodes[i].label) \in RepoSuffixes}
      existing == {<<e.from, e.to>> : e \in {f \in edges : f.kind = "queries"}}
      entity(i) == EntityByName(nodes, Lower(Front(nodes[i].label)))
  IN UNION {{Edge("queries", nodes[i].id, ent, SrcEntityLinker, <<>>) :
               ent \in {x \in entity(i) : <<nodes[i].id, x>> \notin existing}} :
            i \in repositories}
-----------------------------------------------------------------------------
(* ModuleContainmentLinker *)

ModuleId(m) == <<"module", m>>

Members(nodes) == {i \in DOMAIN nodes : /\ nodes[i].kind # "module"
                                        /\ nodes[i].module # NoModule}

\* Mutant of NewModules: existing module nodes are not looked up.
NewModulesAlways(nodes) == {nodes[i].module : i \in Members(nodes)}

\* The IDs of the module nodes it adds: those no module node has yet.
NewModules(nodes) ==
  {m \in {nodes[i].module : i \in Members(nodes)} :
     ModuleId(m) \notin {nodes[i].id : i \in OfKind(nodes, {"module"})}}

ModuleLinks(nodes, edges) ==
  LET existing == {<<e.from, e.to>> : e \in {f \in edges : f.kind = "contains"}}
      links == {Edge("contains", ModuleId(nodes[i].module), nodes[i].id,
                     SrcModuleContainmentLinker, <<>>) : i \in Members(nodes)}
  IN {e \in links : <<e.from, e.to>> \notin existing}
=============================================================================
