----------------------------- MODULE EnrichPasses -----------------------------
(***************************************************************************)
(* The passes Enrich runs between the snapshot and the load, each an action *)
(* on the one list of nodes and the edges collected so far: the linkers,    *)
(* the layer classifier, the lexical pass, the language extractors with    *)
(* their pool of goroutines, the service detector.                         *)
(*                                                                         *)
(* A project is a record: the snapshot's nodes and edges, `tree` (build    *)
(* files by directory), `declared` (names in build files) and `files`,     *)
(* what the paths still on disk contain.                                   *)
(***************************************************************************)
EXTENDS ServiceDetector, LayerClassifier, LexicalPass, LanguageExtractors

CONSTANTS
  Projects,   \* the projects to enrich
  Cap         \* 2 * GOMAXPROCS, how many goroutines may be past the semaphore

ASSUME CapAssumption == Cap \in Nat \ {0}

\* A node as the snapshot has it: what the passes fill in is empty, except for a
\* `service` that a detector may have set.
CodeNode ==
  [id : Seq(STRING), kind : NodeKinds, label : Seq(STRING), fqn : Seq(STRING),
   module : STRING, path : Seq(STRING), line : Nat, layer : Layers,
   language : STRING, framework : STRING, fileType : STRING,
   marks : SUBSET PathMarks, service : {None} \cup Seq(STRING),
   comment : {NoComment}, configKey : {<<>>}, hint : {NoHint}]

\* The snapshot has one node per ID and no dangling edge.  IDs that begin with
\* "service" are made by the service detector only, those that begin with
\* "module" belong to modules.
SoundSnapshot(p) ==
  /\ p.nodes \in Seq(CodeNode)
  /\ \A i, j \in DOMAIN p.nodes : p.nodes[i].id = p.nodes[j].id => i = j
  /\ \A i \in DOMAIN p.nodes :
       LET n == p.nodes[i]
       IN n.id[1] # "service" /\ (n.id[1] = "module" => n.kind = "module")
  /\ \A e \in p.edges : /\ {e.from, e.to} \subseteq Ids(p.nodes)
                        /\ e.kind \in EdgeKinds /\ e.source = NoSource

\* A tree has finitely many directories, and a file is made of lines and of
\* declarations with their calls.
SoundDisk(p) ==
  /\ IsFiniteSet(DOMAIN p.tree) /\ DOMAIN p.tree \subseteq Seq(STRING)
  /\ \A d \in DOMAIN p.tree : p.tree[d] \subseteq Range(BuildFiles)
  /\ \A path \in DOMAIN p.files :
       /\ p.files[path].lines \in Seq(LineLooks)
       /\ p.files[path].decls \in
            Seq([name : Seq(STRING), calls : Seq([text : Seq(STRING), line : Nat])])

ASSUME ProjectAssumption == \A p \in Projects : SoundSnapshot(p) /\ SoundDisk(p)

VARIABLES
  pc,        \* the pass Enrich is at
  project,   \* what is enriched
  nodes,     \* the list the passes share and mutate
  edges,     \* the edges of the snapshot and of the linkers and services
  tasks,     \* the extractors' files in path order, each [path, own]
  spawned,   \* how many tasks have got a goroutine
  step,      \* where each goroutine is
  results,   \* what a goroutine has extracted
  out,       \* the slots of the call edges
  calls,     \* the extractors' edges, in the order they are appended
  services   \* the services found

vars == <<pc, project, nodes, edges, tasks, spawned, step, results, out, calls,
          services>>
pool == <<tasks, spawned, step, results, out>>

Passes == {"topics", "entities", "modules", "layers", "lexical", "group",
           "extract", "services", "load"}
GoSteps == {"unborn", "read", "parse", "extract", "stamp", "close", "return",
            "gone"}
-----------------------------------------------------------------------------
Init ==
  /\ project \in Projects
  /\ pc = "topics"
  /\ nodes = project.nodes /\ edges = project.edges
  /\ tasks = <<>> /\ spawned = 0 /\ step = <<>> /\ results = <<>> /\ out = <<>>
  /\ calls = <<>> /\ services = {}

At(pass, next) == pc = pass /\ pc' = next

(* for _, l := range []linker.Linker{...} *)

LinkTopics ==
  /\ At("topics", "entities")
  /\ edges' = edges \cup TopicLinks(nodes, edges)
  /\ UNCHANGED <<project, nodes, pool, calls, services>>

LinkEntities ==
  /\ At("entities", "modules")
  /\ edges' = edges \cup EntityLinks(nodes, edges)
  /\ UNCHANGED <<project, nodes, pool, calls, services>>

\* A module node as the linker makes it: the zero value of Layer is frontend.
ModuleNode(m) ==
  [id |-> ModuleId(m), kind |-> "module", label |-> <<m>>, fqn |-> <<m>>,
   module |-> m, path |-> <<>>, line |-> 0, layer |-> "frontend",
   language |-> "", framework |-> "", fileType |-> "", marks |-> {},
   service |-> None, comment |-> NoComment, configKey |-> <<>>,
   hint |-> NoHint]

LinkModules ==
  /\ At("modules", "layers")
  /\ nodes' = nodes \o SetToSeq({ModuleNode(m) : m \in NewModules(nodes)})
  /\ edges' = edges \cup ModuleLinks(nodes, edges)
  /\ UNCHANGED <<project, pool, calls, services>>

Classify ==
  /\ At("layers", "lexical")
  /\ nodes' = [i \in DOMAIN nodes |->
                 [nodes[i] EXCEPT !.layer = ClassifyOne(nodes[i], nodes[i].marks)]]
  /\ UNCHANGED <<project, edges, pool, calls, services>>

(* lexical.Enricher.Enrich *)

ConfigKey(n) == IF n.kind \notin ConfigKinds THEN n.configKey
                ELSE IF n.fqn # <<>> THEN n.fqn ELSE n.label

\* lexical.InferLanguage on the extensions the projects use.
InferLanguage(path) ==
  LET ext == Extension[Last(path)]
  IN IF ext \in {"mjs", "cjs", "pyw"} THEN "" ELSE DetectLanguage(ext)

DocComment(n) ==
  IF /\ n.kind \in DocCommentCandidates /\ n.line > 0
     /\ n.path # <<>> /\ n.path \in DOMAIN project.files
  THEN Extract(project.files[n.path].lines, InferLanguage(n.path), n.line)
  ELSE n.comment

EnrichLexical ==
  /\ At("lexical", "group")
  /\ nodes' = [i \in DOMAIN nodes |->
                 [nodes[i] EXCEPT !.configKey = ConfigKey(nodes[i]),
                                  !.comment = DocComment(nodes[i])]]
  /\ UNCHANGED <<project, edges, pool, calls, services>>

(* extractor.Enricher.Enrich *)

Extractable == {i \in DOMAIN nodes : /\ nodes[i].path # <<>>
                                     /\ nodes[i].fileType \notin SkippedFileTypes
                                     /\ ExtractorOf(nodes[i].path) # ""}

\* A set of places as the sequence that goes through them in order.
InOrder(places) ==
  [k \in 1..Cardinality(places) |->
     CHOOSE i \in places : Cardinality({j \in places : j < i}) = k - 1]

\* Paths are in the order in which PathOrder lists them.
CONSTANT PathOrder
ASSUME PathAssumption == PathOrder \in Seq(Seq(STRING))
OwnNodes(path) == InOrder({i \in Extractable : nodes[i].path = path})

GroupFiles ==
  /\ At("group", "extract")
  /\ LET places == InOrder({k \in DOMAIN PathOrder :
                              \E i \in Extractable : nodes[i].path = PathOrder[k]})
     IN /\ tasks' = [t \in DOMAIN places |->
                       [path |-> PathOrder[places[t]],
                        own |-> OwnNodes(PathOrder[places[t]])]]
        /\ step' = [t \in DOMAIN places |-> "unborn"]
        /\ results' = [t \in DOMAIN places |-> <<>>]
        /\ out' = [t \in DOMAIN places |-> <<>>]
  /\ spawned' = 0
  /\ UNCHANGED <<project, nodes, edges, calls, services>>

Content(t) == project.files[tasks[t].path]
InPool == {t \in DOMAIN step : step[t] \notin {"unborn", "gone"}}

\* Mutant of Spawn: the semaphore is acquired by the goroutine itself, too late.
SpawnUnbounded ==
  /\ pc = "extract" /\ spawned < Len(tasks)
  /\ spawned' = spawned + 1
  /\ step' = [step EXCEPT ![spawned + 1] = "read"]
  /\ UNCHANGED <<pc, project, nodes, edges, tasks, results, out, calls, services>>

\* sem <- struct{}{} blocks while the pool is full; then the goroutine starts.
Spawn ==
  /\ pc = "extract" /\ spawned < Len(tasks)
  /\ Cardinality(InPool) < Cap
  /\ spawned' = spawned + 1
  /\ step' = [step EXCEPT ![spawned + 1] = "read"]
  /\ UNCHANGED <<pc, project, nodes, edges, tasks, results, out, calls, services>>

Go(t, from, to) == step[t] = from /\ step' = [step EXCEPT ![t] = to]

\* Mutant of ReadFile: a goroutine whose file is gone never returns.
ReadFileBlocks(t) ==
  /\ tasks[t].path \in DOMAIN project.files
  /\ IF IsLikelyMinified(tasks[t].path, Content(t))
     THEN Go(t, "read", "return") ELSE Go(t, "read", "parse")
  /\ UNCHANGED <<pc, project, nodes, edges, tasks, spawned, results, out, calls,
                 services>>

ReadFile(t) ==
  /\ \/ tasks[t].path \notin DOMAIN project.files /\ Go(t, "read", "return")
     \/ /\ tasks[t].path \in DOMAIN project.files
        /\ IF IsLikelyMinified(tasks[t].path, Content(t))
           THEN Go(t, "read", "return") ELSE Go(t, "read", "parse")
  /\ UNCHANGED <<pc, project, nodes, edges, tasks, spawned, results, out, calls,
                 services>>

\* From here to tree.Close a syntax tree is alive.
ParseFile(t) ==
  /\ Go(t, "parse", "extract")
  /\ UNCHANGED <<pc, project, nodes, edges, tasks, spawned, results, out, calls,
                 services>>

ExtractTree(t) ==
  /\ Go(t, "extract", "stamp")
  /\ results' = [results EXCEPT ![t] =
       ExtractFromTree(ExtractorOf(tasks[t].path), nodes, tasks[t].own, Content(t))]
  /\ UNCHANGED <<pc, project, nodes, edges, tasks, spawned, out, calls, services>>

StampResults(t) ==
  LET own == tasks[t].own
      hint(i) == results[t][CHOOSE j \in DOMAIN own : own[j] = i].hint
      stamped == {i \in Range(own) : hint(i) # NoHint}
  IN /\ Go(t, "stamp", "close")
     /\ nodes' = [i \in DOMAIN nodes |->
                    IF i \in stamped THEN [nodes[i] EXCEPT !.hint = hint(i)]
                    ELSE nodes[i]]
     /\ out' = [out EXCEPT ![t] =
                  FlattenSeq([j \in DOMAIN own |-> results[t][j].edges])]
     /\ UNCHANGED <<pc, project, edges, tasks, spawned, results, calls, services>>

\* The deferred calls: tree.Close and wg.Done, then <-sem.
CloseTree(t) ==
  /\ Go(t, "close", "return")
  /\ UNCHANGED <<pc, project, nodes, edges, tasks, spawned, results, out, calls,
                 services>>

Release(t) ==
  /\ Go(t, "return", "gone")
  /\ UNCHANGED <<pc, project, nodes, edges, tasks, spawned, results, out, calls,
                 services>>

Goroutine(t) == \/ ReadFile(t) \/ ParseFile(t) \/ ExtractTree(t)
                \/ StampResults(t) \/ CloseTree(t) \/ Release(t)

\* Mutant of AppendCalls: wg.Add comes after the goroutine has started.
AppendCallsEarly ==
  /\ pc = "extract" /\ spawned = Len(tasks)
  /\ calls' = FlattenSeq(out)
  /\ pc' = "services"
  /\ UNCHANGED <<project, nodes, edges, pool, services>>

\* wg.Wait, which does not wait for the semaphore to be released, and the merge.
AppendCalls ==
  /\ pc = "extract" /\ spawned = Len(tasks)
  /\ \A t \in DOMAIN tasks : step[t] \in {"return", "gone"}
  /\ calls' = FlattenSeq(out)
  /\ pc' = "services"
  /\ UNCHANGED <<project, nodes, edges, pool, services>>

(* ServiceDetector.Detect *)

DetectServices ==
  LET labels == ServiceLabels(project.tree, project.declared)
      service(n) == {labels[d] : d \in MatchDir(DOMAIN labels, n.path)}
  IN /\ At("services", "load")
     /\ services' = Services(nodes, labels, Modules(project.tree))
     /\ edges' = edges \cup ServiceEdges(nodes, labels)
     /\ nodes' = [i \in DOMAIN nodes |->
                    [nodes[i] EXCEPT !.service =
                       IF service(nodes[i]) = {} THEN @
                       ELSE CHOOSE l \in service(nodes[i]) : TRUE]]
     /\ UNCHANGED <<project, pool, calls>>

Main == \/ LinkTopics \/ LinkEntities \/ LinkModules \/ Classify \/ EnrichLexical
        \/ GroupFiles \/ Spawn \/ AppendCalls \/ DetectServices

Next == Main \/ \E t \in DOMAIN step : Goroutine(t)

Spec == Init /\ [][Next]_vars

\* One main goroutine and one per task, each running whenever it can.
FairSpec == /\ Spec /\ WF_vars(Main)
            /\ WF_vars(\E t \in DOMAIN step : Goroutine(t))
-----------------------------------------------------------------------------
TypeOK ==
  /\ pc \in Passes
  /\ \A i \in DOMAIN nodes : nodes[i].kind \in NodeKinds /\ nodes[i].layer \in Layers
  /\ \A e \in edges : e.kind \in EdgeKinds /\ e.source \in AllSources \cup {NoSource}
  /\ spawned \in 0..Len(tasks)
  /\ step \in [DOMAIN tasks -> GoSteps]
  /\ DOMAIN results = DOMAIN tasks /\ DOMAIN out = DOMAIN tasks

Loaded == pc = "load"

\* What the passes hand to the bulk load can be loaded: CodeNode's primary key
\* is unique over snapshot, linkers and services, and both ends of every edge
\* exist, also of the edges that are made after dangling ones were dropped.
LoadAccepted ==
  Loaded =>
    LET ids == Ids(nodes) \cup {s.id : s \in services}
    IN /\ Cardinality(ids) = Len(nodes) + Cardinality(services)
       /\ \A e \in edges \cup Range(calls) : {e.from, e.to} \subseteq ids

\* A linker never adds a second edge between two nodes that one of its kind
\* joins already, be it the detectors' or a linker's.
NoParallelLinks ==
  \A e, f \in edges :
    /\ e.kind \in {"queries", "contains"}
    /\ e.kind = f.kind /\ e.from = f.from /\ e.to = f.to
    => e = f \/ {e, f} \subseteq project.edges

\* Where the lexical pass finds a doc comment it belongs to the declaration: it
\* is complete, and nothing but blank lines and annotations lies between.
CommentAdjacent ==
  \A i \in DOMAIN nodes :
    LET n == nodes[i]
        lines == project.files[n.path].lines
        python == InferLanguage(n.path) = "python"
    IN n.comment # NoComment =>
         IF python
         THEN /\ n.comment[1] = n.line + 1
              /\ lines[n.comment[2]] \in {"quote", "quotes"}
              /\ lines[n.comment[1]] = "quote" => n.comment[2] > n.comment[1]
         ELSE /\ n.comment[1] =< n.comment[2] /\ n.comment[2] < n.line
              /\ lines[n.comment[1]] \in {"open", "block", "slashes"}
              /\ \A k \in (n.comment[2] + 1)..(n.line - 1) :
                   lines[k] \in {"blank", "annotation"}
              /\ IF lines[n.comment[1]] = "slashes"
                 THEN \A k \in n.comment[1]..n.comment[2] : lines[k] = "slashes"
                 ELSE lines[n.comment[2]] \in {"close", "block"}

\* The semaphore bounds the syntax trees alive at a time, although it is
\* released after wg.Done and main may already have gone on.
PoolBound ==
  Cardinality({t \in DOMAIN step : step[t] \in {"extract", "stamp", "close"}}) =< Cap

\* The calls come in path order and, within a file, in the order of its nodes,
\* whatever the goroutines' schedule: none of them sees what another stamped.
CallsDeterministic ==
  pc \in {"services", "load"} =>
    LET read(t) == /\ tasks[t].path \in DOMAIN project.files
                   /\ ~ IsLikelyMinified(tasks[t].path, Content(t))
        edgesOf(t) ==
          LET found == ExtractFromTree(ExtractorOf(tasks[t].path), nodes,
                                       tasks[t].own, Content(t))
          IN FlattenSeq([j \in DOMAIN found |-> found[j].edges])
    IN calls = FlattenSeq([t \in DOMAIN tasks |->
                             IF read(t) THEN edgesOf(t) ELSE <<>>])

\* A node belongs to the service of the innermost directory around it that has
\* a build file, and to that one only; outside of all it keeps what a detector
\* called its service.
ServiceOfDeepest ==
  Loaded =>
    \A i \in DOMAIN nodes :
      LET own == IF i \in DOMAIN project.nodes THEN project.nodes[i].service ELSE None
          around == {s \in services : Matches(s.dir, nodes[i].path)}
          containing == {s \in services : \E e \in edges :
                           e.from = s.id /\ e.to = nodes[i].id}
      IN IF around = {} THEN nodes[i].service = own /\ containing = {}
         ELSE \E s \in around : /\ \A r \in around : Len(r.dir) =< Len(s.dir)
                                /\ nodes[i].service = s.label
                                /\ containing = {s}

\* The counters agree with the edges.  They are kept per name: services of the
\* same name each show what all of them contain.
CountsMatchContainment ==
  Loaded =>
    \A s \in services :
      LET contained(kind) ==
            {i \in OfKind(nodes, {kind}) :
               \E r \in services, e \in edges :
                 r.label = s.label /\ e.from = r.id /\ e.to = nodes[i].id}
      IN /\ s.endpoints = Cardinality(contained("endpoint"))
         /\ s.entities = Cardinality(contained("entity"))

RealFiles == {"build.gradle", "go.mod", "package.json", "settings.gradle"}

\* Which of several build files names the service: a real one (by its exact
\* name) before a supplemental, .NET or Python one, of Python's the one of the
\* highest priority, and settings.gradle not over build.gradle alone.
BuildFilePriority ==
  \A s \in services :
    LET files == IF s.dir \in DOMAIN project.tree THEN project.tree[s.dir] ELSE {}
        python == {f \in files : IsPython(Tool(f))}
    IN /\ files \cap RealFiles # {} => s.detectedFrom \in RealFiles
       /\ python # {} /\ python = files =>
            \A f \in files : PythonPriority(s.detectedFrom) =< PythonPriority(f)
       /\ files = {"build.gradle", "settings.gradle"} =>
            s.detectedFrom = "build.gradle"

\* Main gets through all passes: the pool empties, also of files that are gone
\* or are not worth parsing, and wg.Wait returns.
PassesEnd == <>Loaded

=============================================================================
