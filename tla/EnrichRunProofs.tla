--------------------------- MODULE EnrichRunProofs ---------------------------
(***************************************************************************)
(* Theorems about `codeiq enrich`, for every set of paths and contents,    *)
(* every number of COPY statements and every history of crashes and        *)
(* failed statements, as long as no index run overlaps the enrich.         *)
(***************************************************************************)
EXTENDS EnrichRun, TLAPS

USE NoneAssumption

LEMMA NothingCopied == 0 \in 0 .. Copies
BY EnrichAssumption

-----------------------------------------------------------------------------
(* The inductive invariant.                                                *)

(* Enrich has not opened the cursor of IterateAll yet.                     *)
BeforeRead == {"idle", "cacheManifest", "graphManifest", "resetNodes", "resetMeta"}

(* Every COPY went through.                                                *)
AfterCopy == {"dropLabel", "dropLexical", "createLabel", "createLexical",
              "manifest", "clearManifest", "writeManifest"}

(* The locals of Enrich.                                                   *)
LocalsInv ==
  /\ pc \in BeforeRead => loaded = NoEntries
  /\ pc \in BeforeRead \cup {"iterate", "passes"} => copies = 0
  /\ pc = "resetMeta" => missed = {}
  /\ pc # "idle" => result = "none"

(* From the end of Reset on there is no manifest, and the rows in the      *)
(* graph are those this enrich has copied.                                 *)
GraphInv ==
  /\ pc \notin BeforeRead => graph.manifest = None
  /\ pc \in {"resetMeta", "iterate", "passes"} => graph.copied = 0
  /\ pc = "copy" => /\ graph.copied = copies /\ copies < Copies
                    /\ copies > 0 => graph.build = snapshot
  /\ pc \in AfterCopy => graph.copied = Copies /\ graph.build = snapshot

(* The text indexes, one after the other; one that is still there when it  *)
(* is to be created survived because its DROP failed.                      *)
IndexInv ==
  /\ pc \in {"createLexical", "manifest", "clearManifest", "writeManifest"} =>
       graph.labelIndex = graph.build
  /\ pc \in {"manifest", "clearManifest", "writeManifest"} =>
       graph.lexicalIndex = graph.build
  /\ pc \in {"dropLexical", "createLabel"} => graph.labelIndex = None \/ faulted
  /\ pc \in {"createLabel", "createLexical"} => graph.lexicalIndex = None \/ faulted

(* What Enrich has read is still what the cache and the tree hold, but for *)
(* the missed entries.                                                     *)
CurrentInv ==
  /\ pc = "iterate" => \A p \in Paths :
       IF cursor[p] = NoHash
         THEN loaded[p] = Without(memo)[p]
         ELSE cursor[p] = memo[p] /\ loaded[p] = NoHash /\ p \notin missed
  /\ pc = "passes" => loaded = Without(memo)
  /\ pc \in {"copy"} \cup AfterCopy =>
       snapshot = [memo |-> Without(memo), tree |-> tree]
  /\ pc \in {"clearManifest", "writeManifest"} => read = memo

IInv == /\ TypeOK /\ LocalsInv /\ GraphInv /\ IndexInv /\ CurrentInv
        /\ ManifestBesideWholeGraph /\ FullIsCurrent /\ RerunSucceeds

LEMMA InitIInv == Init => IInv
<1> SUFFICES ASSUME Init PROVE IInv
  OBVIOUS
<1>1. NoEntries \in Memos
  BY DEF NoEntries, Memos
<1>2. TypeOK
  <2>1. used \in [changes : Nat, enriches : Nat, crashes : Nat, faults : Nat]
    BY DEF Init
  <2>2. graph \in Graphs
    BY NothingCopied DEF Init, EmptyGraph, Graphs
  <2> QED
    BY <1>1, <2>1, <2>2, NothingCopied DEF Init, TypeOK, Statements, Results
<1>3. LocalsInv /\ GraphInv /\ IndexInv /\ CurrentInv
  BY DEF Init, LocalsInv, GraphInv, IndexInv, CurrentInv, Without, BeforeRead, AfterCopy
<1>4. ManifestBesideWholeGraph /\ FullIsCurrent /\ RerunSucceeds
  BY DEF Init, EmptyGraph, ManifestBesideWholeGraph, Without, FullIsCurrent, RerunSucceeds
<1> QED
  BY <1>2, <1>3, <1>4 DEF IInv

(* Enrich returns, however it ends: nothing of its locals is left.         *)
LEMMA EndKeepsType ==
  ASSUME TypeOK, NEW how \in Results, End(how),
         memo' \in Memos, tree' \in Trees, graph' \in Graphs,
         faulted' \in BOOLEAN, missed' \subseteq Paths,
         used' \in [changes : Nat, enriches : Nat, crashes : Nat, faults : Nat]
  PROVE  TypeOK'
<1>1. NoEntries \in Memos
  BY DEF NoEntries, Memos
<1> QED
  BY <1>1, NothingCopied DEF TypeOK, End, Statements, Results

LEMMA EndKeepsIInv ==
  ASSUME IInv, NEW how \in Results, End(how), TypeOK',
         ManifestBesideWholeGraph', FullIsCurrent', RerunSucceeds'
  PROVE  IInv'
<1>1. LocalsInv' /\ GraphInv' /\ IndexInv' /\ CurrentInv'
  BY DEF End, LocalsInv, GraphInv, IndexInv, CurrentInv, Without, BeforeRead, AfterCopy
<1> QED
  BY <1>1 DEF IInv

-----------------------------------------------------------------------------
(* The environment.  No index run overlaps an enrich.                      *)

LEMMA ChangeKeepsIInv ==
  ASSUME ~ IndexMeanwhile, IInv, IndexStep \/ EditTree PROVE IInv'
<1>1. /\ pc = "idle" /\ result' = "none"
      /\ UNCHANGED <<graph, control, faulted, missed>>
  BY DEF IndexStep, EditTree, Change
<1>2. memo' \in Memos /\ tree' \in Trees
  <2>1. CASE IndexStep
    BY <2>1 DEF IndexStep, IInv, TypeOK, Memos
  <2>2. CASE EditTree
    BY <2>2 DEF EditTree, IInv, TypeOK
  <2> QED
    BY <2>1, <2>2
<1>3. used' \in [changes : Nat, enriches : Nat, crashes : Nat, faults : Nat]
  BY DEF IndexStep, EditTree, Change, IInv, TypeOK
<1>4. TypeOK'
  BY <1>1, <1>2, <1>3 DEF IInv, TypeOK, control, Results
<1>5. LocalsInv' /\ GraphInv' /\ IndexInv' /\ CurrentInv'
  BY <1>1 DEF IInv, control, LocalsInv, GraphInv, IndexInv, CurrentInv, Without,
              BeforeRead, AfterCopy
<1>6. ManifestBesideWholeGraph' /\ FullIsCurrent' /\ RerunSucceeds'
  BY <1>1 DEF IInv, ManifestBesideWholeGraph, Without, Whole, FullIsCurrent, RerunSucceeds
<1> QED
  BY <1>4, <1>5, <1>6 DEF IInv

LEMMA CrashKeepsIInv == ASSUME IInv, Crash \/ Fault PROVE IInv'
<1>1. /\ UNCHANGED <<memo, tree, graph, missed>> /\ faulted' \in BOOLEAN
      /\ used' \in [changes : Nat, enriches : Nat, crashes : Nat, faults : Nat]
  <2>1. CASE Crash
    BY <2>1 DEF Crash, IInv, TypeOK
  <2>2. CASE Fault
    BY <2>2 DEF Fault, IInv, TypeOK
  <2> QED
    BY <2>1, <2>2
<1>2. End("none") \/ (End("failed") /\ faulted')
  BY DEF Crash, Fault
<1>3. PICK how \in Results : End(how) /\ how # "full" /\ (how = "failed" => faulted')
  BY <1>2 DEF Results
<1>4. TypeOK'
  BY <1>1, <1>3, EndKeepsType DEF IInv, TypeOK
<1>5. ManifestBesideWholeGraph' /\ FullIsCurrent' /\ RerunSucceeds'
  BY <1>1, <1>3
  DEF IInv, End, ManifestBesideWholeGraph, Without, Whole, FullIsCurrent, RerunSucceeds
<1> QED
  BY <1>3, <1>4, <1>5, EndKeepsIInv

(* The graph is finished before the manifest is touched.                   *)
LEMMA FinishedGraph ==
  ASSUME IInv, pc \in {"manifest", "clearManifest", "writeManifest"}
  PROVE  Whole /\ graph.build = [memo |-> Without(memo), tree |-> tree]
BY DEF IInv, GraphInv, IndexInv, CurrentInv, Without, Whole, AfterCopy

LEMMA SwallowedFaultKeepsIInv == ASSUME IInv, SwallowedFault PROVE IInv'
<1>1. /\ pc = "iterate" /\ faulted' = TRUE
      /\ UNCHANGED <<memo, tree, graph, pc, force, read, loaded, snapshot,
                     copies, result>>
      /\ used' \in [changes : Nat, enriches : Nat, crashes : Nat, faults : Nat]
  BY DEF SwallowedFault, IInv, TypeOK
<1>2. PICK lost \in SUBSET Pending :
        /\ missed' = missed \cup lost
        /\ cursor' = [p \in Paths |-> IF p \in lost THEN NoHash ELSE cursor[p]]
  BY DEF SwallowedFault
<1>3. TypeOK'
  <2>1. cursor' \in Memos
    BY <1>2 DEF IInv, TypeOK, Memos
  <2>2. missed' \subseteq Paths
    BY <1>2 DEF IInv, TypeOK, Pending
  <2> QED
    BY <1>1, <2>1, <2>2 DEF IInv, TypeOK
<1>4. LocalsInv' /\ GraphInv' /\ IndexInv'
  BY <1>1 DEF IInv, LocalsInv, GraphInv, IndexInv, BeforeRead, AfterCopy
<1>5. CurrentInv'
  <2>1. \A p \in Paths :
          IF cursor'[p] = NoHash
            THEN loaded[p] = IF p \in missed' THEN NoHash ELSE memo[p]
            ELSE cursor'[p] = memo[p] /\ loaded[p] = NoHash /\ p \notin missed'
    BY <1>1, <1>2 DEF IInv, CurrentInv, Pending, Without
  <2> QED
    BY <1>1, <2>1 DEF CurrentInv, Without, AfterCopy
<1>6. ManifestBesideWholeGraph' /\ FullIsCurrent' /\ RerunSucceeds'
  BY <1>1 DEF IInv, GraphInv, LocalsInv, BeforeRead, ManifestBesideWholeGraph, Without,
              FullIsCurrent, RerunSucceeds
<1> QED
  BY <1>3, <1>4, <1>5, <1>6 DEF IInv

LEMMA IgnoredFaultKeepsIInv == ASSUME IInv, IgnoredFault PROVE IInv'
<1>1. /\ UNCHANGED <<memo, tree, graph, missed>> /\ faulted' = TRUE
      /\ used' \in [changes : Nat, enriches : Nat, crashes : Nat, faults : Nat]
  BY DEF IgnoredFault, IInv, TypeOK
<1>2. CASE /\ pc \in {"dropLabel", "dropLexical"}
           /\ pc' = IF pc = "dropLabel" THEN "dropLexical" ELSE "createLabel"
           /\ UNCHANGED <<force, read, cursor, loaded, snapshot, copies, result>>
  <2>1. TypeOK'
    BY <1>1, <1>2 DEF IInv, TypeOK, Statements
  <2>2. LocalsInv' /\ GraphInv'
    BY <1>1, <1>2 DEF IInv, LocalsInv, GraphInv, BeforeRead, AfterCopy
  <2>3. IndexInv' /\ CurrentInv'
    BY <1>1, <1>2 DEF IInv, IndexInv, CurrentInv, Without, AfterCopy
  <2>4. ManifestBesideWholeGraph' /\ FullIsCurrent' /\ RerunSucceeds'
    BY <1>1, <1>2
    DEF IInv, ManifestBesideWholeGraph, Without, Whole, FullIsCurrent, RerunSucceeds
  <2> QED
    BY <2>1, <2>2, <2>3, <2>4 DEF IInv
<1>3. CASE /\ pc \in {"manifest", "clearManifest", "writeManifest"}
           /\ End("full")
  <2>1. TypeOK'
    BY <1>1, <1>3, EndKeepsType DEF IInv, TypeOK, Results
  <2>2. ManifestBesideWholeGraph'
    BY <1>1 DEF IInv, ManifestBesideWholeGraph, Without, Whole
  <2>3. FullIsCurrent' /\ RerunSucceeds'
    BY <1>1, <1>3, FinishedGraph DEF End, FullIsCurrent, Without, RerunSucceeds, Whole
  <2> QED
    BY <1>3, <2>1, <2>2, <2>3, EndKeepsIInv DEF Results
<1> QED
  BY <1>2, <1>3 DEF IgnoredFault

LEMMA StartKeepsIInv ==
  ASSUME IInv, NEW f \in BOOLEAN, StartEnrich(f) PROVE IInv'
<1>1. used' \in [changes : Nat, enriches : Nat, crashes : Nat, faults : Nat]
  BY DEF StartEnrich, IInv, TypeOK
<1>2. TypeOK'
  BY <1>1 DEF IInv, TypeOK, StartEnrich, Goto, Statements, Results
<1>3. LocalsInv' /\ GraphInv' /\ IndexInv' /\ CurrentInv'
  BY DEF IInv, StartEnrich, Goto, LocalsInv, GraphInv, IndexInv, CurrentInv, Without,
         BeforeRead, AfterCopy
<1>4. ManifestBesideWholeGraph' /\ FullIsCurrent' /\ RerunSucceeds'
  BY DEF IInv, StartEnrich, ManifestBesideWholeGraph, Without, Whole, FullIsCurrent,
         RerunSucceeds
<1> QED
  BY <1>2, <1>3, <1>4 DEF IInv

-----------------------------------------------------------------------------
(* The statements of Enrich.                                               *)

(* A statement after which Enrich goes on: the outcome is still open, so   *)
(* only what the graph and the locals say has to be shown.                 *)
LEMMA StatementKeepsIInv ==
  ASSUME IInv, pc # "idle", UNCHANGED <<memo, tree, result, faulted>>, TypeOK',
         LocalsInv', GraphInv', IndexInv', CurrentInv', ManifestBesideWholeGraph'
  PROVE  IInv'
<1>1. result' = "none"
  BY DEF IInv, LocalsInv
<1>2. FullIsCurrent' /\ RerunSucceeds'
  BY <1>1 DEF FullIsCurrent, Without, RerunSucceeds
<1> QED
  BY <1>2 DEF IInv

LEMMA ManifestsKeepIInv ==
  ASSUME IInv, ReadCacheManifest \/ CompareManifests PROVE IInv'
<1>1. CASE ReadCacheManifest
  <2>1. TypeOK'
    BY <1>1 DEF IInv, TypeOK, ReadCacheManifest, Goto, Statements
  <2>2. LocalsInv' /\ GraphInv' /\ IndexInv' /\ CurrentInv'
    BY <1>1 DEF IInv, ReadCacheManifest, Goto, LocalsInv, GraphInv, IndexInv,
                CurrentInv, Without, BeforeRead, AfterCopy
  <2>3. ManifestBesideWholeGraph'
    BY <1>1 DEF IInv, ReadCacheManifest, ManifestBesideWholeGraph, Without, Whole
  <2> QED
    BY <1>1, <2>1, <2>2, <2>3, StatementKeepsIInv DEF ReadCacheManifest
<1>2. CASE CompareManifests /\ End("short-circuit")
  <2>1. UNCHANGED <<memo, tree, graph, faulted, missed, used>>
    BY <1>2 DEF CompareManifests
  <2>2. TypeOK'
    BY <1>2, <2>1, EndKeepsType DEF IInv, TypeOK, Results
  <2>3. ManifestBesideWholeGraph' /\ FullIsCurrent' /\ RerunSucceeds'
    BY <1>2, <2>1 DEF IInv, End, ManifestBesideWholeGraph, Without, Whole, FullIsCurrent,
                      RerunSucceeds
  <2> QED
    BY <1>2, <2>2, <2>3, EndKeepsIInv DEF Results
<1>3. CASE CompareManifests /\ Goto("resetNodes")
           /\ UNCHANGED <<force, read, cursor, loaded, snapshot, copies, result>>
  <2>1. TypeOK'
    BY <1>3 DEF IInv, TypeOK, CompareManifests, Goto, Statements
  <2>2. LocalsInv' /\ GraphInv' /\ IndexInv' /\ CurrentInv'
    BY <1>3 DEF IInv, CompareManifests, Goto, LocalsInv, GraphInv, IndexInv,
                CurrentInv, Without, BeforeRead, AfterCopy
  <2>3. ManifestBesideWholeGraph'
    BY <1>3 DEF IInv, CompareManifests, ManifestBesideWholeGraph, Without, Whole
  <2> QED
    BY <1>3, <2>1, <2>2, <2>3, StatementKeepsIInv DEF CompareManifests
<1> QED
  BY <1>1, <1>2, <1>3 DEF CompareManifests

LEMMA ResetNodesKeepsIInv == ASSUME IInv, ResetNodes PROVE IInv'
<1>1. /\ graph' = [graph EXCEPT !.build = None, !.copied = 0]
      /\ pc = "resetNodes" /\ pc' = "resetMeta" /\ missed' = {}
      /\ UNCHANGED <<memo, tree, force, read, cursor, loaded, snapshot, copies,
                     result, faulted, used>>
  BY DEF ResetNodes, Goto
<1>2. /\ graph' \in Graphs /\ graph'.copied = 0
      /\ graph'.manifest = graph.manifest
  BY <1>1, NothingCopied DEF IInv, TypeOK, Graphs
<1>3. TypeOK'
  BY <1>1, <1>2 DEF IInv, TypeOK, Statements
<1>4. LocalsInv' /\ GraphInv' /\ IndexInv' /\ CurrentInv'
  BY <1>1, <1>2 DEF IInv, LocalsInv, GraphInv, IndexInv, CurrentInv, Without,
                    BeforeRead, AfterCopy
<1>5. ManifestBesideWholeGraph'
  BY <1>2 DEF ManifestBesideWholeGraph, Without
<1> QED
  BY <1>1, <1>3, <1>4, <1>5, StatementKeepsIInv

LEMMA ResetMetaKeepsIInv == ASSUME IInv, ResetMeta PROVE IInv'
<1>1. /\ graph' = [graph EXCEPT !.manifest = None]
      /\ cursor' = memo
      /\ pc = "resetMeta" /\ pc' = "iterate"
      /\ UNCHANGED <<memo, tree, force, read, loaded, snapshot, copies,
                     result, faulted, missed, used>>
  BY DEF ResetMeta, Goto
<1>2. /\ graph' \in Graphs /\ graph'.copied = 0 /\ graph'.manifest = None
  BY <1>1 DEF IInv, TypeOK, Graphs, GraphInv
<1>3. TypeOK'
  BY <1>1, <1>2 DEF IInv, TypeOK, Statements
<1>4. LocalsInv' /\ GraphInv' /\ IndexInv'
  BY <1>1, <1>2 DEF IInv, LocalsInv, GraphInv, IndexInv, BeforeRead, AfterCopy
<1>5. CurrentInv'
  <2>1. loaded' = NoEntries /\ missed' = {}
    BY <1>1 DEF IInv, LocalsInv, BeforeRead
  <2> QED
    BY <1>1, <2>1 DEF CurrentInv, NoEntries, Without, AfterCopy
<1>6. ManifestBesideWholeGraph'
  BY <1>2 DEF ManifestBesideWholeGraph, Without
<1> QED
  BY <1>1, <1>3, <1>4, <1>5, <1>6, StatementKeepsIInv

LEMMA IterateKeepsIInv == ASSUME IInv, Iterate PROVE IInv'
<1>1. /\ pc = "iterate" /\ UNCHANGED <<memo, tree, graph, faulted, missed, used>>
      /\ graph.manifest = None
      /\ loaded \in Memos /\ cursor \in Memos /\ memo \in Memos
  BY DEF Iterate, IInv, TypeOK, GraphInv, BeforeRead
<1>2. \A p \in Paths :
        IF cursor[p] = NoHash
          THEN loaded[p] = Without(memo)[p]
          ELSE cursor[p] = memo[p] /\ loaded[p] = NoHash /\ p \notin missed
  BY <1>1 DEF IInv, CurrentInv, Without
<1>3. ManifestBesideWholeGraph'
  BY <1>1 DEF ManifestBesideWholeGraph, Without
<1>4. CASE Pending = {} /\ Goto("passes")
           /\ UNCHANGED <<force, read, cursor, loaded, snapshot, copies, result>>
  <2>1. TypeOK'
    BY <1>1, <1>4 DEF IInv, TypeOK, Goto, Statements
  <2>2. loaded = Without(memo)
    <3>1. \A p \in Paths : loaded[p] = Without(memo)[p]
      BY <1>2, <1>4 DEF Pending
    <3> QED
      BY <1>1, <3>1 DEF Without, Memos
  <2>3. LocalsInv' /\ GraphInv' /\ IndexInv' /\ CurrentInv'
    BY <1>1, <1>4, <2>2 DEF IInv, Goto, LocalsInv, GraphInv, IndexInv,
                            CurrentInv, Without, BeforeRead, AfterCopy
  <2> QED
    BY <1>1, <1>3, <1>4, <2>1, <2>3, StatementKeepsIInv
<1>5. ASSUME NEW p \in Paths, cursor[p] # NoHash, memo[p] = cursor[p],
             loaded' = [loaded EXCEPT ![p] = cursor[p]],
             cursor' = [cursor EXCEPT ![p] = NoHash],
             UNCHANGED <<pc, force, read, snapshot, copies, result>>
      PROVE  IInv'
  <2>1. loaded' \in Memos /\ cursor' \in Memos
    BY <1>1, <1>5 DEF Memos
  <2>2. TypeOK'
    BY <1>1, <1>5, <2>1 DEF IInv, TypeOK
  <2>3. LocalsInv' /\ GraphInv' /\ IndexInv'
    BY <1>1, <1>5 DEF IInv, LocalsInv, GraphInv, IndexInv, BeforeRead, AfterCopy
  <2>4. CurrentInv'
    BY <1>1, <1>2, <1>5 DEF CurrentInv, Without, AfterCopy, Memos
  <2> QED
    BY <1>1, <1>3, <1>5, <2>2, <2>3, <2>4, StatementKeepsIInv
<1> QED
  BY <1>2, <1>4, <1>5 DEF Iterate, Pending

LEMMA RunPassesKeepsIInv == ASSUME IInv, RunPasses PROVE IInv'
<1>1. /\ snapshot' = [memo |-> loaded, tree |-> tree]
      /\ pc = "passes" /\ pc' = "copy"
      /\ UNCHANGED <<memo, tree, graph, force, read, cursor, loaded, copies,
                     result, faulted, missed, used>>
  BY DEF RunPasses, Goto
<1>2. snapshot' \in Builds
  BY <1>1 DEF IInv, TypeOK, Builds
<1>3. TypeOK'
  BY <1>1, <1>2 DEF IInv, TypeOK, Statements
<1>4. graph.copied = 0 /\ copies = 0 /\ Copies > 0
  BY <1>1, EnrichAssumption DEF IInv, GraphInv, LocalsInv
<1>5. LocalsInv' /\ GraphInv' /\ IndexInv' /\ CurrentInv'
  BY <1>1, <1>4 DEF IInv, LocalsInv, GraphInv, IndexInv, CurrentInv, Without,
                    BeforeRead, AfterCopy
<1>6. ManifestBesideWholeGraph'
  BY <1>1, <1>4 DEF ManifestBesideWholeGraph, Without
<1> QED
  BY <1>1, <1>3, <1>5, <1>6, StatementKeepsIInv

LEMMA CopyKeepsIInv == ASSUME IInv, Copy PROVE IInv'
<1>1. /\ pc = "copy" /\ UNCHANGED <<memo, tree, faulted, missed, used>>
      /\ graph.copied = copies /\ copies < Copies /\ graph.manifest = None
      /\ snapshot = [memo |-> Without(memo), tree |-> tree]
      /\ snapshot \in Builds
      /\ graph \in Graphs /\ copies \in 0 .. Copies
  <2>1. Without(memo) \in Memos
    BY DEF IInv, TypeOK, Without, Memos
  <2> QED
    BY <2>1 DEF Copy, IInv, TypeOK, GraphInv, CurrentInv, BeforeRead, Builds
<1>2. /\ graph' = [graph EXCEPT !.build = snapshot, !.copied = @ + 1]
      /\ copies' = copies + 1
      /\ pc' = IF copies + 1 = Copies THEN "dropLabel" ELSE "copy"
      /\ UNCHANGED <<force, read, cursor, loaded, snapshot, result>>
  <2>1. ~ (graph.copied > copies)
    BY <1>1, EnrichAssumption
  <2> QED
    BY <2>1 DEF Copy, Goto
<1>3. copies' \in 0 .. Copies
  BY <1>1, <1>2, EnrichAssumption
<1>4. /\ graph'.copied = copies' /\ graph'.build = snapshot
      /\ graph'.manifest = None
  BY <1>1, <1>2 DEF Graphs
<1>5. graph' \in Graphs
  BY <1>1, <1>2, <1>3, <1>4 DEF Graphs
<1>6. TypeOK'
  BY <1>1, <1>2, <1>3, <1>5 DEF IInv, TypeOK, Statements
<1>7. \/ pc' = "dropLabel" /\ copies' = Copies
      \/ pc' = "copy" /\ copies' < Copies
  <2>1. CASE copies + 1 = Copies
    BY <1>2, <2>1
  <2>2. CASE copies + 1 # Copies
    <3>1. copies + 1 < Copies
      BY <1>1, <2>2, EnrichAssumption
    <3> QED
      BY <1>2, <2>2, <3>1
  <2> QED
    BY <2>1, <2>2
<1>8. LocalsInv' /\ GraphInv'
  <2>1. LocalsInv'
    BY <1>1, <1>2, <1>7 DEF IInv, LocalsInv, BeforeRead
  <2>2. graph'.copied = copies' /\ graph'.build = snapshot'
    BY <1>2, <1>4
  <2>3. GraphInv'
    BY <1>4, <1>7, <2>2 DEF GraphInv, BeforeRead, AfterCopy
  <2> QED
    BY <2>1, <2>3
<1>9. IndexInv' /\ CurrentInv'
  BY <1>1, <1>2, <1>7 DEF IndexInv, CurrentInv, Without, AfterCopy
<1>10. ManifestBesideWholeGraph'
  BY <1>4 DEF ManifestBesideWholeGraph, Without
<1> QED
  BY <1>1, <1>2, <1>6, <1>8, <1>9, <1>10, StatementKeepsIInv

(* A statement on one of the text indexes that goes through.               *)
LEMMA IndexStatementKeepsIInv ==
  ASSUME IInv,
         UNCHANGED <<memo, tree, force, read, cursor, loaded, snapshot, copies,
                     result, faulted, missed, used>>,
         pc \in AfterCopy, pc' \in AfterCopy \ {"clearManifest", "writeManifest"},
         graph' \in Graphs,
         /\ graph'.build = graph.build /\ graph'.copied = graph.copied
         /\ graph'.manifest = graph.manifest,
         IndexInv'
  PROVE  IInv'
<1>1. TypeOK'
  BY DEF IInv, TypeOK, AfterCopy, Statements
<1>2. LocalsInv' /\ GraphInv' /\ CurrentInv' /\ pc # "idle"
  BY DEF IInv, LocalsInv, GraphInv, CurrentInv, Without, BeforeRead, AfterCopy
<1>3. ManifestBesideWholeGraph'
  BY DEF IInv, GraphInv, BeforeRead, AfterCopy, ManifestBesideWholeGraph, Without
<1> QED
  BY <1>1, <1>2, <1>3, StatementKeepsIInv

LEMMA DropIndexKeepsIInv ==
  ASSUME IInv, DropLabelIndex \/ DropLexicalIndex PROVE IInv'
<1>1. CASE DropLabelIndex
  <2>1. /\ pc = "dropLabel" /\ pc' = "dropLexical"
        /\ graph' = [graph EXCEPT !.labelIndex = None]
        /\ UNCHANGED <<memo, tree, force, read, cursor, loaded, snapshot, copies,
                       result, faulted, missed, used>>
    BY <1>1 DEF DropLabelIndex, Goto
  <2>2. /\ graph' \in Graphs /\ graph'.labelIndex = None
        /\ graph'.build = graph.build /\ graph'.copied = graph.copied
        /\ graph'.manifest = graph.manifest
    BY <2>1 DEF IInv, TypeOK, Graphs
  <2>3. IndexInv'
    BY <2>1, <2>2 DEF IndexInv
  <2> QED
    BY <2>1, <2>2, <2>3, IndexStatementKeepsIInv DEF AfterCopy
<1>2. CASE DropLexicalIndex
  <2>1. /\ pc = "dropLexical" /\ pc' = "createLabel"
        /\ graph' = [graph EXCEPT !.lexicalIndex = None]
        /\ UNCHANGED <<memo, tree, force, read, cursor, loaded, snapshot, copies,
                       result, faulted, missed, used>>
    BY <1>2 DEF DropLexicalIndex, Goto
  <2>2. /\ graph' \in Graphs /\ graph'.lexicalIndex = None
        /\ graph'.labelIndex = graph.labelIndex
        /\ graph'.build = graph.build /\ graph'.copied = graph.copied
        /\ graph'.manifest = graph.manifest
    BY <2>1 DEF IInv, TypeOK, Graphs
  <2>3. IndexInv'
    BY <2>1, <2>2 DEF IInv, IndexInv
  <2> QED
    BY <2>1, <2>2, <2>3, IndexStatementKeepsIInv DEF AfterCopy
<1> QED
  BY <1>1, <1>2

LEMMA CreateIndexKeepsIInv ==
  ASSUME IInv, CreateLabelIndex \/ CreateLexicalIndex PROVE IInv'
<1>1. CASE CreateLabelIndex /\ graph.labelIndex = None
  <2>1. /\ pc = "createLabel" /\ pc' = "createLexical"
        /\ graph' = [graph EXCEPT !.labelIndex = graph.build]
        /\ UNCHANGED <<memo, tree, force, read, cursor, loaded, snapshot, copies,
                       result, faulted, missed, used>>
    BY <1>1 DEF CreateLabelIndex, Goto
  <2>2. /\ graph' \in Graphs /\ graph'.labelIndex = graph'.build
        /\ graph'.lexicalIndex = graph.lexicalIndex
        /\ graph'.build = graph.build /\ graph'.copied = graph.copied
        /\ graph'.manifest = graph.manifest
    BY <2>1 DEF IInv, TypeOK, Graphs
  <2>3. IndexInv'
    BY <2>1, <2>2 DEF IInv, IndexInv
  <2> QED
    BY <2>1, <2>2, <2>3, IndexStatementKeepsIInv DEF AfterCopy
<1>2. CASE CreateLexicalIndex /\ graph.lexicalIndex = None
  <2>1. /\ pc = "createLexical" /\ pc' = "manifest"
        /\ graph' = [graph EXCEPT !.lexicalIndex = graph.build]
        /\ UNCHANGED <<memo, tree, force, read, cursor, loaded, snapshot, copies,
                       result, faulted, missed, used>>
    BY <1>2 DEF CreateLexicalIndex, Goto
  <2>2. /\ graph' \in Graphs /\ graph'.lexicalIndex = graph'.build
        /\ graph'.labelIndex = graph.labelIndex
        /\ graph'.build = graph.build /\ graph'.copied = graph.copied
        /\ graph'.manifest = graph.manifest
    BY <2>1 DEF IInv, TypeOK, Graphs
  <2>3. IndexInv'
    BY <2>1, <2>2 DEF IInv, IndexInv
  <2> QED
    BY <2>1, <2>2, <2>3, IndexStatementKeepsIInv DEF AfterCopy
<1>3. CASE \/ CreateLabelIndex /\ graph.labelIndex # None
           \/ CreateLexicalIndex /\ graph.lexicalIndex # None
  <2>1. End("failed") /\ UNCHANGED <<memo, tree, graph, faulted, missed, used>>
    BY <1>3 DEF CreateLabelIndex, CreateLexicalIndex
  <2>2. faulted
    BY <1>3 DEF IInv, IndexInv, CreateLabelIndex, CreateLexicalIndex
  <2>3. TypeOK'
    BY <2>1, EndKeepsType DEF IInv, TypeOK, Results
  <2>4. ManifestBesideWholeGraph' /\ FullIsCurrent' /\ RerunSucceeds'
    BY <2>1, <2>2 DEF IInv, End, ManifestBesideWholeGraph, Without, Whole, FullIsCurrent,
                      RerunSucceeds
  <2> QED
    BY <2>1, <2>3, <2>4, EndKeepsIInv DEF Results
<1> QED
  BY <1>1, <1>2, <1>3

LEMMA ReadAgainKeepsIInv ==
  ASSUME IInv, ReadManifestAgain \/ ClearManifest PROVE IInv'
<1>1. /\ UNCHANGED <<memo, tree, force, cursor, loaded, snapshot, copies,
                     result, faulted, missed, used>>
      /\ read' = memo
      /\ \/ pc = "manifest" /\ pc' = "clearManifest"
         \/ pc = "clearManifest" /\ pc' = "writeManifest"
  BY DEF ReadManifestAgain, ClearManifest, Goto, IInv, CurrentInv, Without
<1>2. graph.manifest = None
  BY <1>1 DEF IInv, GraphInv, BeforeRead
<1>3. graph' = graph
  <2>1. graph = [graph EXCEPT !.manifest = graph.manifest]
    BY DEF IInv, TypeOK, Graphs
  <2> QED
    BY <1>2, <2>1 DEF ReadManifestAgain, ClearManifest
<1>4. TypeOK'
  BY <1>1, <1>3 DEF IInv, TypeOK, Statements
<1>5. LocalsInv' /\ GraphInv' /\ IndexInv' /\ CurrentInv'
  BY <1>1, <1>3 DEF IInv, LocalsInv, GraphInv, IndexInv, CurrentInv, Without,
                    BeforeRead, AfterCopy
<1>6. ManifestBesideWholeGraph'
  BY <1>2, <1>3 DEF ManifestBesideWholeGraph, Without
<1> QED
  BY <1>1, <1>4, <1>5, <1>6, StatementKeepsIInv

LEMMA WriteManifestKeepsIInv == ASSUME IInv, WriteManifest PROVE IInv'
<1>1. /\ pc = "writeManifest" /\ End("full")
      /\ graph' = [graph EXCEPT !.manifest = memo]
      /\ UNCHANGED <<memo, tree, faulted, missed, used>>
  BY DEF WriteManifest, IInv, CurrentInv, Without
<1>2. Whole /\ graph.build = [memo |-> Without(memo), tree |-> tree]
  BY <1>1, FinishedGraph
<1>3. /\ graph' \in Graphs /\ graph'.manifest = memo
      /\ graph'.build = graph.build /\ graph'.copied = graph.copied
      /\ graph'.labelIndex = graph.labelIndex
      /\ graph'.lexicalIndex = graph.lexicalIndex
  BY <1>1 DEF IInv, TypeOK, Graphs
<1>4. Whole' /\ graph'.build = [memo |-> Without(memo), tree |-> tree]
  BY <1>2, <1>3 DEF Whole, Without
<1>5. TypeOK'
  BY <1>1, <1>3, EndKeepsType DEF IInv, TypeOK, Results
<1>6. ManifestBesideWholeGraph' /\ FullIsCurrent' /\ RerunSucceeds'
  BY <1>1, <1>3, <1>4
  DEF End, ManifestBesideWholeGraph, Without, FullIsCurrent, RerunSucceeds
<1> QED
  BY <1>1, <1>5, <1>6, EndKeepsIInv DEF Results

-----------------------------------------------------------------------------
LEMMA StutterKeepsIInv == ASSUME IInv, UNCHANGED vars PROVE IInv'
<1>1. TypeOK' /\ LocalsInv' /\ GraphInv' /\ IndexInv' /\ CurrentInv'
  BY DEF IInv, vars, control, TypeOK, LocalsInv, GraphInv, IndexInv, CurrentInv, Without
<1>2. ManifestBesideWholeGraph' /\ FullIsCurrent' /\ RerunSucceeds'
  BY DEF IInv, vars, control, ManifestBesideWholeGraph, Without, Whole, FullIsCurrent,
         RerunSucceeds
<1> QED
  BY <1>1, <1>2 DEF IInv

LEMMA NextKeepsIInv ==
  ASSUME ~ IndexMeanwhile PROVE IInv /\ [Next]_vars => IInv'
<1>1. IInv /\ Enrich => IInv'
  BY ManifestsKeepIInv, ResetNodesKeepsIInv, ResetMetaKeepsIInv,
     IterateKeepsIInv, RunPassesKeepsIInv, CopyKeepsIInv, DropIndexKeepsIInv,
     CreateIndexKeepsIInv, ReadAgainKeepsIInv, WriteManifestKeepsIInv DEF Enrich
<1>2. IInv /\ Environment => IInv'
  BY ChangeKeepsIInv, CrashKeepsIInv, SwallowedFaultKeepsIInv,
     IgnoredFaultKeepsIInv, StartKeepsIInv DEF Environment
<1> QED
  BY <1>1, <1>2, StutterKeepsIInv DEF Next

(* What every theorem below follows from: at each statement of Enrich its  *)
(* locals, the graph, the indexes and the manifest are what is left of the *)
(* statements before it, also of those of an enrich that was killed.       *)
THEOREM InductiveInvariant == ASSUME ~ IndexMeanwhile PROVE Spec => []IInv
BY InitIInv, NextKeepsIInv, PTL DEF Spec

(* The variables of an enrich keep their types.                            *)
THEOREM TypeCorrect == ASSUME ~ IndexMeanwhile PROVE Spec => []TypeOK
<1>1. IInv => TypeOK
  BY DEF IInv
<1> QED
  BY <1>1, InductiveInvariant, PTL

(* Whatever statement fails or is the last before a kill, a manifest in    *)
(* the graph store stands beside the whole graph of the entries it digests,*)
(* or beside no rows at all.                                               *)
THEOREM ManifestIsEarned ==
  ASSUME ~ IndexMeanwhile PROVE Spec => []ManifestBesideWholeGraph
<1>1. IInv => ManifestBesideWholeGraph
  BY DEF IInv
<1> QED
  BY <1>1, InductiveInvariant, PTL

(* An enrich that returns success has loaded the graph of the cache and of *)
(* the tree as they are.                                                   *)
THEOREM SuccessIsCurrent ==
  ASSUME ~ IndexMeanwhile PROVE Spec => []FullIsCurrent
<1>1. IInv => FullIsCurrent
  BY DEF IInv
<1> QED
  BY <1>1, InductiveInvariant, PTL

(* "safe to re-run": no enrich fails because of what an earlier one left.  *)
THEOREM SafeToRerun ==
  ASSUME ~ IndexMeanwhile PROVE Spec => []RerunSucceeds
<1>1. IInv => RerunSucceeds
  BY DEF IInv
<1> QED
  BY <1>1, InductiveInvariant, PTL
=============================================================================
