----------------------------- MODULE EnrichRun -----------------------------
(***************************************************************************)
(* `codeiq enrich`: analyzer.Enrich, one step per statement it runs against*)
(* the cache or the Kuzu graph store, with the faults those statements may *)
(* return and the kill that may come between any two of them.              *)
(*                                                                         *)
(* The cache is the memo IndexMemo promises: each path has the content it  *)
(* was last indexed with.  Forget and Learn are the steps of an index run; *)
(* IndexMeanwhile says whether they may overlap an enrich.                 *)
(*                                                                         *)
(* Each Kuzu statement is a transaction of its own (store.Cypher runs on   *)
(* an auto-commit connection), so a process that dies leaves the effect of *)
(* the statements that returned.                                           *)
(***************************************************************************)
EXTENDS Integers

CONSTANTS
  Paths, Hashes,
  NoHash,         \* the path has no cache entry
  Trees,          \* states of the files that only enrich reads (go.mod...)
  None,           \* no manifest, no build
  Copies,         \* COPY statements of a full load: node batches, edge kinds
  IndexMeanwhile, \* whether `codeiq index` may run during an enrich
  MaxChanges, MaxEnriches, MaxCrashes, MaxFaults   \* bounds of the environment

ASSUME EnrichAssumption ==
  /\ Paths \subseteq Nat
  /\ NoHash \notin Hashes
  /\ Copies \in Nat \ {0}
  /\ IndexMeanwhile \in BOOLEAN
  /\ MaxChanges \in Nat /\ MaxEnriches \in Nat
  /\ MaxCrashes \in Nat /\ MaxFaults \in Nat

Memos == [Paths -> Hashes \cup {NoHash}]

(* What a graph is computed from: the cache entries and the tree.          *)
Builds == [memo : Memos, tree : Trees]

ASSUME NoneAssumption == None \notin Memos /\ None \notin Builds

VARIABLES
  memo,       \* the cache
  tree,       \* the state of the files only enrich reads
  graph,      \* the Kuzu database
  pc,         \* the statement Enrich is at
  force,      \* EnrichOptions.Force
  read,       \* the manifest of the cache Enrich computed last
  cursor,     \* entries IterateAll has yet to fetch: what its SELECT saw
  loaded,     \* entries the GraphBuilder holds
  snapshot,   \* the build Enrich is about to load
  copies,     \* COPY statements of this enrich that went through
  result,     \* how the last enrich ended, until something changes
  faulted,    \* history: a statement of this enrich failed
  missed,     \* history: entries the graph lost to a swallowed error
  used

control == <<pc, force, read, cursor, loaded, snapshot, copies>>
vars == <<memo, tree, graph, control, result, faulted, missed, used>>

(* A graph: the build its rows come from and how many COPY statements of   *)
(* it are in, what the two FTS indexes were built over, and GraphMeta.     *)
Graphs == [build : Builds \cup {None}, copied : 0 .. Copies,
           labelIndex : Builds \cup {None}, lexicalIndex : Builds \cup {None},
           manifest : Memos \cup {None}]

EmptyGraph == [build |-> None, copied |-> 0, labelIndex |-> None,
               lexicalIndex |-> None, manifest |-> None]

Statements == {"idle", "cacheManifest", "graphManifest", "resetNodes",
               "resetMeta", "iterate", "passes", "copy", "dropLabel",
               "dropLexical", "createLabel", "createLexical", "manifest",
               "clearManifest", "writeManifest"}

Results == {"none", "short-circuit", "full", "failed"}

NoEntries == [p \in Paths |-> NoHash]

-----------------------------------------------------------------------------
Init ==
  /\ memo = NoEntries
  /\ tree \in Trees
  /\ graph = EmptyGraph
  /\ pc = "idle" /\ force = FALSE /\ read = None
  /\ cursor = NoEntries /\ loaded = NoEntries /\ snapshot = None
  /\ copies = 0
  /\ result = "none" /\ faulted = FALSE /\ missed = {}
  /\ used = [changes |-> 0, enriches |-> 0, crashes |-> 0, faults |-> 0]

-----------------------------------------------------------------------------
(* The environment.                                                        *)

Change == /\ used.changes < MaxChanges
          /\ used' = [used EXCEPT !.changes = @ + 1]
          /\ result' = "none"

(* An index run purges or stores the entry of one path.                    *)
IndexStep ==
  /\ Change
  /\ pc = "idle" \/ IndexMeanwhile
  /\ \E p \in Paths :
       \/ /\ memo[p] # NoHash
          /\ memo' = [memo EXCEPT ![p] = NoHash]
       \/ /\ memo[p] = NoHash
          /\ \E h \in Hashes : memo' = [memo EXCEPT ![p] = h]
  /\ UNCHANGED <<tree, graph, control, faulted, missed>>

(* A build file that file discovery does not know is edited.               *)
EditTree ==
  /\ Change
  /\ pc = "idle"
  /\ tree' \in Trees \ {tree}
  /\ UNCHANGED <<memo, graph, control, faulted, missed>>

(* The entries IterateAll still has to fetch.                              *)
Pending == {p \in Paths : cursor[p] # NoHash}

(* Enrich ends; its locals are gone.                                       *)
End(how) ==
  /\ pc' = "idle" /\ force' = FALSE /\ read' = None
  /\ cursor' = NoEntries /\ loaded' = NoEntries /\ snapshot' = None
  /\ copies' = 0
  /\ result' = how

Crash ==
  /\ pc # "idle"
  /\ used.crashes < MaxCrashes
  /\ used' = [used EXCEPT !.crashes = @ + 1]
  /\ End("none")
  /\ UNCHANGED <<memo, tree, graph, faulted, missed>>

(* A statement whose error Enrich returns fails; before dropLabel these are*)
(* INSTALL and LOAD EXTENSION.                                             *)
Fault ==
  /\ pc \notin {"idle", "passes", "dropLexical", "manifest", "clearManifest",
                "writeManifest"}
  /\ used.faults < MaxFaults
  /\ used' = [used EXCEPT !.faults = @ + 1]
  /\ faulted' = TRUE
  /\ End("failed")
  /\ UNCHANGED <<memo, tree, graph, missed>>

(* A row that cannot be fetched ends a rows.Next loop as the last row      *)
(* does, and neither IterateAll nor Get asks rows.Err: the next entry comes*)
(* out incomplete, which counts as lost here, or it is the last one.       *)
SwallowedFault ==
  /\ pc = "iterate"
  /\ used.faults < MaxFaults
  /\ used' = [used EXCEPT !.faults = @ + 1]
  /\ faulted' = TRUE
  /\ \E lost \in {{p} : p \in Pending} \cup ({Pending} \ {{}}) :
       /\ missed' = missed \cup lost
       /\ cursor' = [p \in Paths |-> IF p \in lost THEN NoHash ELSE cursor[p]]
  /\ UNCHANGED <<memo, tree, graph, pc, force, read, loaded, snapshot, copies,
                 result>>

(* A statement whose error is dropped fails: DROP_FTS_INDEX, and the tail  *)
(* that stores the manifest.                                               *)
IgnoredFault ==
  /\ used.faults < MaxFaults
  /\ used' = [used EXCEPT !.faults = @ + 1]
  /\ faulted' = TRUE
  /\ \/ /\ pc \in {"dropLabel", "dropLexical"}
        /\ pc' = IF pc = "dropLabel" THEN "dropLexical" ELSE "createLabel"
        /\ UNCHANGED <<force, read, cursor, loaded, snapshot, copies, result>>
     \/ /\ pc \in {"manifest", "clearManifest", "writeManifest"}
        /\ End("full")
  /\ UNCHANGED <<memo, tree, graph, missed>>

-----------------------------------------------------------------------------
(* Enrich, statement by statement.                                         *)

Goto(statement) == pc' = statement

(* OpenWithOptions and ApplySchema: CREATE ... IF NOT EXISTS, no effect on *)
(* data.                                                                   *)
StartEnrich(f) ==
  /\ pc = "idle"
  /\ used.enriches < MaxEnriches
  /\ used' = [used EXCEPT !.enriches = @ + 1]
  /\ force' = f
  /\ Goto(IF f THEN "resetNodes" ELSE "cacheManifest")
  /\ result' = "none" /\ faulted' = FALSE
  /\ UNCHANGED <<memo, tree, graph, read, cursor, loaded, snapshot, copies,
                 missed>>

ReadCacheManifest ==
  /\ pc = "cacheManifest"
  /\ read' = memo
  /\ Goto("graphManifest")
  /\ UNCHANGED <<memo, tree, graph, force, cursor, loaded, snapshot, copies,
                 result, faulted, missed, used>>

(* ReadManifest and the short-circuit.                                     *)
CompareManifests ==
  /\ pc = "graphManifest"
  /\ \/ /\ graph.manifest # None /\ graph.manifest = read
        /\ End("short-circuit")
     \/ /\ graph.manifest = None \/ graph.manifest # read
        /\ Goto("resetNodes")
        /\ UNCHANGED <<force, read, cursor, loaded, snapshot, copies, result>>
  /\ UNCHANGED <<memo, tree, graph, faulted, missed, used>>

(* Mutant of ResetNodes: DETACH DELETE finds no rows to delete.            *)
ResetNodesKept ==
  /\ pc = "resetNodes"
  /\ missed' = {}
  /\ Goto("resetMeta")
  /\ UNCHANGED <<memo, tree, graph, force, read, cursor, loaded, snapshot,
                 copies, result, faulted, used>>

(* Reset, first statement: MATCH (n:CodeNode) DETACH DELETE n.             *)
ResetNodes ==
  /\ pc = "resetNodes"
  /\ graph' = [graph EXCEPT !.build = None, !.copied = 0]
  /\ missed' = {}
  /\ Goto("resetMeta")
  /\ UNCHANGED <<memo, tree, force, read, cursor, loaded, snapshot, copies,
                 result, faulted, used>>

(* Mutant of ResetMeta: Reset leaves the manifest alone.                   *)
ResetMetaKept ==
  /\ pc = "resetMeta"
  /\ cursor' = memo
  /\ Goto("iterate")
  /\ UNCHANGED <<memo, tree, graph, force, read, loaded, snapshot, copies,
                 result, faulted, missed, used>>

(* Reset, second statement: MATCH (m:GraphMeta) DELETE m.  The cursor of   *)
(* IterateAll opens next, and sees the cache as it is now.                 *)
ResetMeta ==
  /\ pc = "resetMeta"
  /\ graph' = [graph EXCEPT !.manifest = None]
  /\ cursor' = memo
  /\ Goto("iterate")
  /\ UNCHANGED <<memo, tree, force, read, loaded, snapshot, copies, result,
                 faulted, missed, used>>

(* Mutant of Iterate: an entry is skipped, as by an early break.           *)
IterateSkipping ==
  /\ pc = "iterate"
  /\ Goto("passes")
  /\ UNCHANGED <<memo, tree, graph, force, read, cursor, loaded, snapshot,
                 copies, result, faulted, missed, used>>

(* Mutant of Iterate: a batch loop that does not advance.                  *)
IterateStuck ==
  /\ pc = "iterate"
  /\ Pending = {}
  /\ Goto("passes")
  /\ UNCHANGED <<memo, tree, graph, force, read, cursor, loaded, snapshot,
                 copies, result, faulted, missed, used>>

(* IterateAll fetches the entries of its cursor in path order; one that an *)
(* index run has purged or replaced since is ErrNotFound.                  *)
Iterate ==
  /\ pc = "iterate"
  /\ \/ /\ Pending = {}
        /\ Goto("passes")
        /\ UNCHANGED <<force, read, cursor, loaded, snapshot, copies, result>>
     \/ \E p \in Pending :
          /\ \A q \in Pending : p <= q
          /\ \/ /\ memo[p] = cursor[p]
                /\ loaded' = [loaded EXCEPT ![p] = cursor[p]]
                /\ cursor' = [cursor EXCEPT ![p] = NoHash]
                /\ UNCHANGED <<pc, force, read, snapshot, copies, result>>
             \/ /\ memo[p] # cursor[p]
                /\ End("failed")
  /\ UNCHANGED <<memo, tree, graph, faulted, missed, used>>

(* Snapshot, linkers, classifier, lexical, extractors, service detector:   *)
(* a function of the loaded entries and of the tree.                       *)
RunPasses ==
  /\ pc = "passes"
  /\ snapshot' = [memo |-> loaded, tree |-> tree]
  /\ Goto("copy")
  /\ UNCHANGED <<memo, tree, graph, force, read, cursor, loaded, copies,
                 result, faulted, missed, used>>

(* Mutant of Copy: one batch too many.                                     *)
CopyOnceMore ==
  /\ pc = "copy"
  /\ graph' = [graph EXCEPT !.build = snapshot, !.copied = @ + 1]
  /\ copies' = copies + 1
  /\ Goto(IF copies = Copies THEN "dropLabel" ELSE "copy")
  /\ UNCHANGED <<memo, tree, force, read, cursor, loaded, snapshot, result,
                 faulted, missed, used>>

(* One COPY of BulkLoadNodes or BulkLoadEdges.  Rows of an earlier load    *)
(* that are still there make it a primary key collision.                   *)
Copy ==
  /\ pc = "copy"
  /\ \/ /\ graph.copied > copies
        /\ End("failed")
        /\ UNCHANGED graph
     \/ /\ graph.copied = copies
        /\ graph' = [graph EXCEPT !.build = snapshot, !.copied = @ + 1]
        /\ copies' = copies + 1
        /\ Goto(IF copies + 1 = Copies THEN "dropLabel" ELSE "copy")
        /\ UNCHANGED <<force, read, cursor, loaded, snapshot, result>>
  /\ UNCHANGED <<memo, tree, faulted, missed, used>>

DropLabelIndex ==
  /\ pc = "dropLabel"
  /\ graph' = [graph EXCEPT !.labelIndex = None]
  /\ Goto("dropLexical")
  /\ UNCHANGED <<memo, tree, force, read, cursor, loaded, snapshot, copies,
                 result, faulted, missed, used>>

DropLexicalIndex ==
  /\ pc = "dropLexical"
  /\ graph' = [graph EXCEPT !.lexicalIndex = None]
  /\ Goto("createLabel")
  /\ UNCHANGED <<memo, tree, force, read, cursor, loaded, snapshot, copies,
                 result, faulted, missed, used>>

(* CREATE_FTS_INDEX fails if the index is still there.                     *)
CreateLabelIndex ==
  /\ pc = "createLabel"
  /\ \/ /\ graph.labelIndex # None
        /\ End("failed")
        /\ UNCHANGED graph
     \/ /\ graph.labelIndex = None
        /\ graph' = [graph EXCEPT !.labelIndex = graph.build]
        /\ Goto("createLexical")
        /\ UNCHANGED <<force, read, cursor, loaded, snapshot, copies, result>>
  /\ UNCHANGED <<memo, tree, faulted, missed, used>>

CreateLexicalIndex ==
  /\ pc = "createLexical"
  /\ \/ /\ graph.lexicalIndex # None
        /\ End("failed")
        /\ UNCHANGED graph
     \/ /\ graph.lexicalIndex = None
        /\ graph' = [graph EXCEPT !.lexicalIndex = graph.build]
        /\ Goto("manifest")
        /\ UNCHANGED <<force, read, cursor, loaded, snapshot, copies, result>>
  /\ UNCHANGED <<memo, tree, faulted, missed, used>>

(* The manifest is computed anew, from the cache as it is by then.         *)
ReadManifestAgain ==
  /\ pc = "manifest"
  /\ read' = memo
  /\ Goto("clearManifest")
  /\ UNCHANGED <<memo, tree, graph, force, cursor, loaded, snapshot, copies,
                 result, faulted, missed, used>>

(* WriteManifest deletes the old row, then creates the new one.            *)
ClearManifest ==
  /\ pc = "clearManifest"
  /\ graph' = [graph EXCEPT !.manifest = None]
  /\ Goto("writeManifest")
  /\ UNCHANGED <<memo, tree, force, read, cursor, loaded, snapshot, copies,
                 result, faulted, missed, used>>

WriteManifest ==
  /\ pc = "writeManifest"
  /\ graph' = [graph EXCEPT !.manifest = read]
  /\ End("full")
  /\ UNCHANGED <<memo, tree, faulted, missed, used>>

-----------------------------------------------------------------------------
Enrich == \/ ReadCacheManifest \/ CompareManifests \/ ResetNodes \/ ResetMeta
          \/ Iterate \/ RunPasses \/ Copy
          \/ DropLabelIndex \/ DropLexicalIndex
          \/ CreateLabelIndex \/ CreateLexicalIndex
          \/ ReadManifestAgain \/ ClearManifest \/ WriteManifest

Environment == \/ IndexStep \/ EditTree \/ Crash
               \/ Fault \/ SwallowedFault \/ IgnoredFault
               \/ \E f \in BOOLEAN : StartEnrich(f)

Next == Enrich \/ Environment

Spec == Init /\ [][Next]_vars

(* A started enrich keeps running; nothing in the environment has to occur.*)
FairSpec == Spec /\ WF_vars(Enrich)

-----------------------------------------------------------------------------
(* Type invariant.                                                         *)
TypeOK ==
  /\ memo \in Memos /\ tree \in Trees
  /\ graph \in Graphs
  /\ pc \in Statements /\ force \in BOOLEAN
  /\ read \in Memos \cup {None}
  /\ cursor \in Memos /\ loaded \in Memos
  /\ snapshot \in Builds \cup {None}
  /\ copies \in 0 .. Copies
  /\ result \in Results /\ faulted \in BOOLEAN /\ missed \subseteq Paths
  /\ used \in [changes : Nat, enriches : Nat, crashes : Nat, faults : Nat]

(* A graph in which every COPY of its build is in and both indexes cover   *)
(* it.                                                                     *)
Whole == /\ graph.copied = Copies
         /\ graph.labelIndex = graph.build
         /\ graph.lexicalIndex = graph.build

(* What is left of the entries m when the missed ones are taken away.      *)
Without(m) == [p \in Paths |-> IF p \in missed THEN NoHash ELSE m[p]]

(* A manifest never stands beside a half-loaded graph, whatever statement  *)
(* failed or was cut off: the graph is whole and was built from the very   *)
(* entries the manifest digests, but for those a swallowed error took; or  *)
(* it is empty.                                                            *)
ManifestBesideWholeGraph ==
  graph.manifest # None =>
    \/ graph.copied = 0
    \/ Whole /\ graph.build.memo = Without(graph.manifest)

(* An enrich that reports success leaves the graph of the present cache    *)
(* and tree, complete and indexed, although parts of its work may have     *)
(* been redone after crashes; again but for what a swallowed error took.   *)
FullIsCurrent ==
  result = "full" =>
    Whole /\ graph.build = [memo |-> Without(memo), tree |-> tree]

(* IterateAll's comment: it "yields every cached entry".  So an enrich that*)
(* reports success has loaded them all.                                    *)
EveryEntryLoaded == result = "full" => graph.build.memo = memo

(* "safe to re-run": an enrich fails only if a statement of its own does;  *)
(* what an earlier one left half done is never in the way.                 *)
RerunSucceeds == result = "failed" => faulted

(* ManifestHash's comment: "if the graph's stored manifest matches the     *)
(* cache's current manifest, the graph is fresh".                          *)
ShortCircuitIsFresh ==
  result = "short-circuit" =>
    Whole /\ graph.build = [memo |-> memo, tree |-> tree]

(* Every enrich ends.                                                      *)
EnrichEnds == pc # "idle" ~> pc = "idle"
=============================================================================
