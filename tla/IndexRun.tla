------------------------------ MODULE IndexRun ------------------------------
(***************************************************************************)
(* `codeiq index`: Analyzer.Run, Analyzer.Diff and Analyzer.processFile    *)
(* over the analysis cache, while files change on disk and the process may *)
(* die at any point.                                                       *)
(*                                                                         *)
(* The main goroutine walks the phases                                     *)
(*     idle -> diff -> purge -> discover -> work -> done                   *)
(* (a --force run goes from idle straight to discover).  In the work phase *)
(* it hands the discovered files, in sorted order, to a pool of workers,   *)
(* and every worker takes the file it got through processFile:             *)
(*                                                                         *)
(*   idle -> read -> has -> getFile -> getNodes -> getEdges -> idle   hit  *)
(*                \-----\---------\--> purge -> upgrade -> purgeCommit     *)
(*                                       \--------\-----> put <--/         *)
(*                                                         |               *)
(*                                                     putCommit -> idle   *)
(*                                                                         *)
(* Every worker uses its own SQLite connection, in WAL mode with deferred  *)
(* transactions and a 5 s busy timeout (the DSN of cache.Open).  What the  *)
(* model takes from SQLite: one write transaction at a time; a transaction *)
(* whose first statement writes waits for the writer; one that began by    *)
(* reading and then writes is refused at once if another writer is active  *)
(* or has committed since its read.  Put is of the first kind, PurgeByPath *)
(* of the second.                                                          *)
(***************************************************************************)
EXTENDS AnalysisCache

CONSTANTS
  Workers,      \* the goroutines of the pool (Options.Workers)
  NoWorker,     \* nobody holds the SQLite write lock
  NoHash,       \* a file that is absent from disk, an unset digest
  NoPath,       \* an idle worker has no job
  Writable,     \* Writable[p]: the contents edits may give to path p
  Tracked,      \* the paths in git's index: ls-files lists them even when gone
  MaxEdits, MaxRuns, MaxCrashes, MaxStalls   \* bounds of the environment

ASSUME RunAssumption ==
  /\ NoWorker \notin Workers
  /\ NoHash \notin Hashes
  /\ NoPath \notin Paths
  /\ Writable \in [Paths -> SUBSET Hashes]
  /\ Tracked \subseteq Paths
  /\ MaxEdits \in Nat /\ MaxRuns \in Nat
  /\ MaxCrashes \in Nat /\ MaxStalls \in Nat

VARIABLES
  disk,         \* the content of each path, or NoHash
  db,           \* the committed cache
  phase,        \* where the main goroutine is
  force,        \* Options.Force of this run
  diffing,      \* files Diff has yet to classify
  seen,         \* Diff's map of discovered paths
  delta,        \* the class Diff gave to each path
  deleted,      \* Delta.Deleted still to purge: one entry per cached row
  queue,        \* files not yet handed to a worker
  pc, job,      \* per worker: the step it is at, the file it has
  digest,       \* per worker: the hash of the content it read
  picked,       \* per worker: the hash the SELECT of PurgeByPath returned
  got,          \* per worker: the nodes rows Get has read
  stale,        \* workers whose purge snapshot is older than the last commit
  lock,         \* holder of the SQLite write lock
  outcome,      \* per path: how processFile ended in this run
  dirty,        \* history: paths edited since the run began
  purgeFailed,  \* history: paths a worker failed to purge
  used          \* how much of each bound is spent

main == <<phase, force, diffing, seen, delta, deleted, queue>>
worker == <<pc, job, digest, picked, got>>
vars == <<disk, db, main, worker, stale, lock, outcome, dirty, purgeFailed,
          used>>

Phases == {"idle", "diff", "purge", "discover", "work", "done"}
Classes == {"none", "added", "modified", "unchanged"}
Outcomes == {"none", "hit", "parsed", "failed"}
Steps == {"idle", "read", "has", "getFile", "getNodes", "getEdges",
          "purge", "upgrade", "purgeCommit", "put", "putCommit"}

-----------------------------------------------------------------------------
(* Discover: the files git knows of, or those the walk finds.              *)
Discovered == {p \in Paths : disk[p] # NoHash} \cup Tracked

(* Both loops over the discovered files go in path order.                  *)
First(S) == {p \in S : \A q \in S : p <= q}

Running == phase \in {"diff", "purge", "discover", "work"}

Init ==
  /\ disk \in {f \in [Paths -> Hashes \cup {NoHash}] :
                 \A p \in Paths : f[p] \in Writable[p] \cup {NoHash}}
  /\ db = EmptyDatabase
  /\ phase = "idle" /\ force = FALSE
  /\ diffing = {} /\ seen = {} /\ deleted = {} /\ queue = {}
  /\ delta = [p \in Paths |-> "none"]
  /\ pc = [w \in Workers |-> "idle"]
  /\ job = [w \in Workers |-> NoPath]
  /\ digest = [w \in Workers |-> NoHash]
  /\ picked = [w \in Workers |-> NoHash]
  /\ got = [w \in Workers |-> {}]
  /\ stale = {} /\ lock = NoWorker
  /\ outcome = [p \in Paths |-> "none"]
  /\ dirty = {} /\ purgeFailed = {}
  /\ used = [edits |-> 0, runs |-> 0, crashes |-> 0, stalls |-> 0]

-----------------------------------------------------------------------------
(* The environment: the user edits files and clears the cache, the process *)
(* is killed.                                                              *)

Edit(p, h) ==
  /\ used.edits < MaxEdits
  /\ h \in (Writable[p] \cup {NoHash}) \ {disk[p]}
  /\ disk' = [disk EXCEPT ![p] = h]
  /\ dirty' = dirty \cup {p}
  /\ used' = [used EXCEPT !.edits = @ + 1]
  /\ UNCHANGED <<db, main, worker, stale, lock, outcome, purgeFailed>>

(* `codeiq cache clear`, between runs.                                     *)
ClearCache ==
  /\ ~ Running
  /\ db # EmptyDatabase
  /\ used.edits < MaxEdits
  /\ db' = Clear(db)
  /\ phase' = "idle"
  /\ used' = [used EXCEPT !.edits = @ + 1]
  /\ UNCHANGED <<disk, force, diffing, seen, delta, deleted, queue, worker,
                 stale, lock, outcome, dirty, purgeFailed>>

(* Transactions that did not commit are rolled back by the next Open.      *)
Crash ==
  /\ Running
  /\ used.crashes < MaxCrashes
  /\ used' = [used EXCEPT !.crashes = @ + 1]
  /\ phase' = "idle" /\ force' = FALSE
  /\ diffing' = {} /\ seen' = {} /\ deleted' = {} /\ queue' = {}
  /\ delta' = [p \in Paths |-> "none"]
  /\ pc' = [w \in Workers |-> "idle"]
  /\ job' = [w \in Workers |-> NoPath]
  /\ digest' = [w \in Workers |-> NoHash]
  /\ picked' = [w \in Workers |-> NoHash]
  /\ got' = [w \in Workers |-> {}]
  /\ stale' = {} /\ lock' = NoWorker
  /\ outcome' = [p \in Paths |-> "none"]
  /\ UNCHANGED <<disk, db, dirty, purgeFailed>>

-----------------------------------------------------------------------------
(* The main goroutine.                                                     *)

(* Run begins.  Without --force it calls Diff, which begins by discovering.*)
StartRun(f) ==
  /\ ~ Running
  /\ used.runs < MaxRuns
  /\ used' = [used EXCEPT !.runs = @ + 1]
  /\ force' = f
  /\ delta' = [p \in Paths |-> "none"]
  /\ outcome' = [p \in Paths |-> "none"]
  /\ dirty' = {}
  /\ IF f THEN /\ phase' = "discover"
               /\ UNCHANGED <<diffing, seen>>
          ELSE /\ phase' = "diff"
               /\ diffing' = Discovered
               /\ seen' = Discovered
  /\ UNCHANGED <<disk, db, deleted, queue, worker, stale, lock, purgeFailed>>

(* Mutant of DiffFile: the two digests are compared the wrong way round.   *)
DiffFileSwapped ==
  /\ phase = "diff"
  /\ \E p \in First(diffing) :
       /\ diffing' = diffing \ {p}
       /\ \/ /\ disk[p] = NoHash \/ HashesAt(db, p) = {}
             /\ UNCHANGED delta
          \/ \E h \in HashesAt(db, p) :
               delta' = [delta EXCEPT ![p] =
                           IF h # disk[p] THEN "unchanged" ELSE "modified"]
  /\ UNCHANGED <<disk, db, phase, force, seen, deleted, queue, worker, stale,
                 lock, outcome, dirty, purgeFailed, used>>

(* Diff compares one file with the row GetFileByPath returns.  A file it   *)
(* cannot read stays in seen and gets no class.                            *)
DiffFile ==
  /\ phase = "diff"
  /\ \E p \in First(diffing) :
       /\ diffing' = diffing \ {p}
       /\ \/ /\ disk[p] = NoHash
             /\ UNCHANGED delta
          \/ /\ disk[p] # NoHash
             /\ HashesAt(db, p) = {}
             /\ delta' = [delta EXCEPT ![p] = "added"]
          \/ /\ disk[p] # NoHash
             /\ \E h \in HashesAt(db, p) :
                  delta' = [delta EXCEPT ![p] =
                              IF h = disk[p] THEN "unchanged" ELSE "modified"]
  /\ UNCHANGED <<disk, db, phase, force, seen, deleted, queue, worker, stale,
                 lock, outcome, dirty, purgeFailed, used>>

(* Mutant of FindDeleted: the cached rows are compared with no discovery.  *)
FindDeletedNone ==
  /\ phase = "diff" /\ diffing = {}
  /\ phase' = "purge"
  /\ deleted' = {} /\ seen' = {}
  /\ UNCHANGED <<disk, db, force, diffing, delta, queue, worker, stale, lock,
                 outcome, dirty, purgeFailed, used>>

(* AllFiles: the cached rows whose path was not discovered are Deleted.    *)
FindDeleted ==
  /\ phase = "diff" /\ diffing = {}
  /\ phase' = "purge"
  /\ deleted' = {r \in db.files : r.path \notin seen}
  /\ seen' = {}
  /\ UNCHANGED <<disk, db, force, diffing, delta, queue, worker, stale, lock,
                 outcome, dirty, purgeFailed, used>>

(* PurgeByPath of one Deleted entry.  No worker runs yet, so SQLite never  *)
(* refuses the write; a foreign key may, and the error is only logged.     *)
PurgeDeleted ==
  /\ phase = "purge"
  /\ \E r \in deleted :
       /\ deleted' = deleted \ {r}
       /\ \/ /\ HashesAt(db, r.path) = {}
             /\ UNCHANGED db
          \/ \E h \in HashesAt(db, r.path) :
               db' = IF PurgeBreaksForeignKey(db, r.path, h)
                       THEN db ELSE Purge(db, r.path, h)
  /\ UNCHANGED <<disk, phase, force, diffing, seen, delta, queue, worker,
                 stale, lock, outcome, dirty, purgeFailed, used>>

PurgesDone ==
  /\ phase = "purge" /\ deleted = {}
  /\ phase' = "discover"
  /\ UNCHANGED <<disk, db, force, diffing, seen, delta, deleted, queue, worker,
                 stale, lock, outcome, dirty, purgeFailed, used>>

(* Run discovers a second time and starts the pool on what it finds.       *)
DiscoverFiles ==
  /\ phase = "discover"
  /\ phase' = "work"
  /\ queue' = Discovered
  /\ UNCHANGED <<disk, db, force, diffing, seen, delta, deleted, worker, stale,
                 lock, outcome, dirty, purgeFailed, used>>

(* Mutant of FinishRun: Run returns once the jobs are handed out.          *)
FinishRunWithoutWait ==
  /\ phase = "work" /\ queue = {}
  /\ phase' = "done"
  /\ UNCHANGED <<disk, db, force, diffing, seen, delta, deleted, queue, worker,
                 stale, lock, outcome, dirty, purgeFailed, used>>

(* wg.Wait returns: every job is taken and every worker is through.        *)
FinishRun ==
  /\ phase = "work" /\ queue = {}
  /\ \A w \in Workers : pc[w] = "idle"
  /\ phase' = "done"
  /\ UNCHANGED <<disk, db, force, diffing, seen, delta, deleted, queue, worker,
                 stale, lock, outcome, dirty, purgeFailed, used>>

-----------------------------------------------------------------------------
(* processFile, one step per access to what workers share.                 *)

Goto(w, step) == pc' = [pc EXCEPT ![w] = step]

(* processFile returns.                                                    *)
Return(w, result) ==
  /\ Goto(w, "idle")
  /\ outcome' = [outcome EXCEPT ![job[w]] = result]
  /\ job' = [job EXCEPT ![w] = NoPath]
  /\ digest' = [digest EXCEPT ![w] = NoHash]
  /\ picked' = [picked EXCEPT ![w] = NoHash]
  /\ got' = [got EXCEPT ![w] = {}]

TakeJob(w) ==
  /\ phase = "work"
  /\ pc[w] = "idle"
  /\ \E p \in First(queue) :
       /\ queue' = queue \ {p}
       /\ job' = [job EXCEPT ![w] = p]
  /\ Goto(w, "read")
  /\ UNCHANGED <<disk, db, phase, force, diffing, seen, delta, deleted, digest,
                 picked, got, stale, lock, outcome, dirty, purgeFailed, used>>

(* Mutant of ReadFile: the error of os.ReadFile is not looked at.          *)
ReadFileUnchecked(w) ==
  /\ pc[w] = "read"
  /\ digest' = [digest EXCEPT ![w] = disk[job[w]]]
  /\ Goto(w, IF force THEN "purge" ELSE "has")
  /\ UNCHANGED <<disk, db, main, job, picked, got, stale, lock, outcome, dirty,
                 purgeFailed, used>>

(* os.ReadFile and HashString.                                             *)
ReadFile(w) ==
  /\ pc[w] = "read"
  /\ \/ /\ disk[job[w]] = NoHash
        /\ Return(w, "failed")
     \/ /\ disk[job[w]] # NoHash
        /\ digest' = [digest EXCEPT ![w] = disk[job[w]]]
        /\ Goto(w, IF force THEN "purge" ELSE "has")
        /\ UNCHANGED <<job, picked, got, outcome>>
  /\ UNCHANGED <<disk, db, main, stale, lock, dirty, purgeFailed, used>>

(* Mutant of LookUp: every file is parsed anew, cached or not.             *)
LookUpNever(w) ==
  /\ pc[w] = "has"
  /\ Goto(w, "purge")
  /\ UNCHANGED <<disk, db, main, job, digest, picked, got, stale, lock,
                 outcome, dirty, purgeFailed, used>>

(* Cache.Has; a miss goes on to parse and detect, which share nothing.     *)
LookUp(w) ==
  /\ pc[w] = "has"
  /\ Goto(w, IF Has(db, digest[w]) THEN "getFile" ELSE "purge")
  /\ UNCHANGED <<disk, db, main, job, digest, picked, got, stale, lock,
                 outcome, dirty, purgeFailed, used>>

(* Cache.Get, three queries outside a transaction.  The row may be gone    *)
(* since Has: then processFile parses after all.                           *)
GetFile(w) ==
  /\ pc[w] = "getFile"
  /\ Goto(w, IF Has(db, digest[w]) THEN "getNodes" ELSE "purge")
  /\ UNCHANGED <<disk, db, main, job, digest, picked, got, stale, lock,
                 outcome, dirty, purgeFailed, used>>

(* Mutant of GetNodes: the rows are selected by path.                      *)
GetNodesByPath(w) ==
  /\ pc[w] = "getNodes"
  /\ got' = [got EXCEPT ![w] = {r \in db.nodes : r.from = job[w]}]
  /\ Goto(w, "getEdges")
  /\ UNCHANGED <<disk, db, main, job, digest, picked, stale, lock, outcome,
                 dirty, purgeFailed, used>>

GetNodes(w) ==
  /\ pc[w] = "getNodes"
  /\ got' = [got EXCEPT ![w] = Under(db.nodes, digest[w])]
  /\ Goto(w, "getEdges")
  /\ UNCHANGED <<disk, db, main, job, digest, picked, stale, lock, outcome,
                 dirty, purgeFailed, used>>

(* A hit: the cached entry is the result, and the cache stays as it is.    *)
GetEdges(w) ==
  /\ pc[w] = "getEdges"
  /\ Return(w, "hit")
  /\ UNCHANGED <<disk, db, main, stale, lock, dirty, purgeFailed, used>>

(* Mutants of PurgeSelect: the old row is not purged at all, or only when  *)
(* the run is not a --force one.                                           *)
PurgeSelectNever(w) ==
  /\ pc[w] = "purge"
  /\ Goto(w, "put")
  /\ UNCHANGED <<disk, db, main, job, digest, picked, got, stale, lock,
                 outcome, dirty, purgeFailed, used>>

PurgeSelectUnlessForced(w) ==
  /\ pc[w] = "purge"
  /\ \/ /\ force \/ HashesAt(db, job[w]) = {}
        /\ Goto(w, "put")
        /\ UNCHANGED picked
     \/ \E h \in HashesAt(db, job[w]) :
          /\ ~ force
          /\ picked' = [picked EXCEPT ![w] = h]
          /\ Goto(w, "upgrade")
  /\ UNCHANGED <<disk, db, main, job, digest, got, stale, lock, outcome, dirty,
                 purgeFailed, used>>

(* PurgeByPath begins: its SELECT fixes the snapshot of the transaction.   *)
(* No row: it returns nil.                                                 *)
PurgeSelect(w) ==
  /\ pc[w] = "purge"
  /\ \/ /\ HashesAt(db, job[w]) = {}
        /\ Goto(w, "put")
        /\ UNCHANGED picked
     \/ \E h \in HashesAt(db, job[w]) :
          /\ picked' = [picked EXCEPT ![w] = h]
          /\ Goto(w, "upgrade")
  /\ UNCHANGED <<disk, db, main, job, digest, got, stale, lock, outcome, dirty,
                 purgeFailed, used>>

(* Its first DELETE must turn the read transaction into the write one.     *)
(* SQLITE_BUSY is returned at once, and processFile drops the error.       *)
PurgeUpgrade(w) ==
  /\ pc[w] = "upgrade"
  /\ stale' = stale \ {w}
  /\ \/ /\ lock = NoWorker /\ w \notin stale
        /\ lock' = w
        /\ Goto(w, "purgeCommit")
        /\ UNCHANGED purgeFailed
     \/ /\ lock # NoWorker \/ w \in stale
        /\ purgeFailed' = purgeFailed \cup {job[w]}
        /\ Goto(w, "put")
        /\ UNCHANGED lock
  /\ UNCHANGED <<disk, db, main, job, digest, picked, got, outcome, dirty,
                 used>>

(* The snapshots of purges under way, once a transaction has committed.    *)
StaleAfterCommit(w) == {v \in Workers \ {w} : pc[v] = "upgrade"}

(* Mutant of PurgeCommit: no tx.Rollback where the foreign key refuses.    *)
PurgeCommitNoRollback(w) ==
  /\ pc[w] = "purgeCommit"
  /\ Goto(w, "put")
  /\ IF PurgeBreaksForeignKey(db, job[w], picked[w])
       THEN /\ purgeFailed' = purgeFailed \cup {job[w]}
            /\ UNCHANGED <<db, stale, lock>>
       ELSE /\ db' = Purge(db, job[w], picked[w])
            /\ lock' = NoWorker
            /\ stale' = StaleAfterCommit(w)
            /\ UNCHANGED purgeFailed
  /\ UNCHANGED <<disk, main, job, digest, picked, got, outcome, dirty, used>>

PurgeCommit(w) ==
  /\ pc[w] = "purgeCommit"
  /\ lock' = NoWorker
  /\ Goto(w, "put")
  /\ IF PurgeBreaksForeignKey(db, job[w], picked[w])
       THEN /\ purgeFailed' = purgeFailed \cup {job[w]}
            /\ UNCHANGED <<db, stale>>
       ELSE /\ db' = Purge(db, job[w], picked[w])
            /\ stale' = StaleAfterCommit(w)
            /\ UNCHANGED purgeFailed
  /\ UNCHANGED <<disk, main, job, digest, picked, got, outcome, dirty, used>>

(* Put writes first, so it waits while another worker writes...            *)
PutBegin(w) ==
  /\ pc[w] = "put"
  /\ lock = NoWorker
  /\ lock' = w
  /\ Goto(w, "putCommit")
  /\ UNCHANGED <<disk, db, main, job, digest, picked, got, stale, outcome,
                 dirty, purgeFailed, used>>

(* ... for five seconds, after which processFile returns the error.        *)
PutTimeout(w) ==
  /\ pc[w] = "put"
  /\ lock # NoWorker
  /\ used.stalls < MaxStalls
  /\ used' = [used EXCEPT !.stalls = @ + 1]
  /\ Return(w, "failed")
  /\ UNCHANGED <<disk, db, main, stale, lock, dirty, purgeFailed>>

PutCommit(w) ==
  /\ pc[w] = "putCommit"
  /\ db' = Put(db, digest[w], job[w])
  /\ lock' = NoWorker
  /\ stale' = StaleAfterCommit(w)
  /\ Return(w, "parsed")
  /\ UNCHANGED <<disk, main, dirty, purgeFailed, used>>

-----------------------------------------------------------------------------
Environment ==
  \/ \E p \in Paths : \E h \in Hashes \cup {NoHash} : Edit(p, h)
  \/ ClearCache
  \/ Crash
  \/ \E f \in BOOLEAN : StartRun(f)

Main == \/ DiffFile \/ FindDeleted \/ PurgeDeleted \/ PurgesDone
        \/ DiscoverFiles \/ FinishRun

Worker(w) == \/ TakeJob(w) \/ ReadFile(w) \/ LookUp(w)
             \/ GetFile(w) \/ GetNodes(w) \/ GetEdges(w)
             \/ PurgeSelect(w) \/ PurgeUpgrade(w) \/ PurgeCommit(w)
             \/ PutBegin(w) \/ PutTimeout(w) \/ PutCommit(w)

Next == Environment \/ Main \/ \E w \in Workers : Worker(w)

Spec == Init /\ [][Next]_vars

(* The Go scheduler runs every runnable goroutine; nobody has to edit, to  *)
(* start a run or to kill one.                                             *)
FairSpec == Spec /\ WF_vars(Main) /\ \A w \in Workers : WF_vars(Worker(w))

-----------------------------------------------------------------------------
(* Type invariant.                                                         *)
TypeOK ==
  /\ disk \in [Paths -> Hashes \cup {NoHash}]
  /\ db \in Database
  /\ phase \in Phases /\ force \in BOOLEAN
  /\ diffing \subseteq Paths /\ seen \subseteq Paths /\ queue \subseteq Paths
  /\ delta \in [Paths -> Classes]
  /\ deleted \subseteq FileRow
  /\ pc \in [Workers -> Steps]
  /\ job \in [Workers -> Paths \cup {NoPath}]
  /\ digest \in [Workers -> Hashes \cup {NoHash}]
  /\ picked \in [Workers -> Hashes \cup {NoHash}]
  /\ got \in [Workers -> SUBSET EmissionRow]
  /\ stale \subseteq Workers
  /\ lock \in Workers \cup {NoWorker}
  /\ outcome \in [Paths -> Outcomes]
  /\ dirty \subseteq Paths /\ purgeFailed \subseteq Paths
  /\ used \in [edits : Nat, runs : Nat, crashes : Nat, stalls : Nat]

(* Whatever the workers, crashes and refused transactions do, every cached *)
(* entry holds exactly what the detectors emit for the path that owns it,  *)
(* no digest is held twice, and no nodes row outlives its files row.       *)
CacheConsistent == Consistent(db)

(* What processFile's comment claims: "a single path never has two cache   *)
(* entries".  True of a pool of one worker, not of a larger one.           *)
PathHasOneEntry == PathIsKey(db)

(* What holds for every pool: a path gets a second entry only after a      *)
(* PurgeByPath whose error processFile dropped.                            *)
TwoEntriesOnlyAfterFailedPurge ==
  \A r, s \in db.files : r.path = s.path /\ r # s => r.path \in purgeFailed

(* A hit replays what parsing the file would emit: Get, although it reads  *)
(* in three separate queries, never sees half an entry or another path's.  *)
HitReplaysDetectors ==
  \A w \in Workers : pc[w] = "getEdges" => got[w] = NodesOf(digest[w], job[w])

(* A completed run leaves a current entry for every readable file that was *)
(* not edited meanwhile and whose Put did not time out.                    *)
EveryFileCached ==
  phase = "done" =>
    \A p \in Paths \ dirty :
      disk[p] # NoHash /\ outcome[p] # "failed" => disk[p] \in HashesAt(db, p)

(* A completed incremental run leaves no other entry either: neither an    *)
(* older content of the file, nor entries of deleted files.                *)
SettledPathsMatchDisk ==
  phase = "done" /\ ~ force =>
    \A p \in Paths \ dirty :
      HashesAt(db, p) = IF disk[p] = NoHash THEN {} ELSE {disk[p]}

(* The counters the CLI prints agree: the files Diff calls Unchanged are   *)
(* cache hits, and those it calls Added or Modified are parsed.            *)
DeltaPredictsWork ==
  phase = "done" /\ ~ force =>
    \A p \in Paths \ dirty :
      /\ delta[p] = "unchanged" => outcome[p] = "hit"
      /\ delta[p] \in {"added", "modified"} => outcome[p] = "parsed"

(* The cache a --force run over the present disk leaves in a fresh         *)
(* .codeiq/, with one worker: the last path in order owns a content.       *)
CleanRebuild ==
  {[hash |-> disk[p], path |-> p] :
     p \in {q \in Paths : /\ disk[q] # NoHash
                          /\ \A r \in Paths : r > q => disk[r] # disk[q]}}

(* TestIncrementalEqualsFull: "a sequence of incremental runs must produce *)
(* a graph identical to a clean full rebuild on the final state".          *)
IncrementalEqualsFull ==
  phase = "done" /\ ~ force /\ dirty = {} => db.files = CleanRebuild

(* Delta's comment: Deleted is "in cache, missing from disk".  So once the *)
(* deletions are purged no entry of a missing file is left.                *)
DeletedFilesPurged ==
  phase = "done" /\ ~ force =>
    \A r \in db.files : r.path \notin dirty => disk[r.path] # NoHash

(* Every run ends: no worker waits forever for the SQLite lock, and the    *)
(* main goroutine does not wait forever for the pool.                      *)
RunEnds == Running ~> ~ Running

(* The cache as the memo of IndexMemo: the content a path was last indexed *)
(* with.                                                                   *)
MemoOf(p) == IF HashesAt(db, p) = {} THEN NoHash
             ELSE CHOOSE h \in HashesAt(db, p) : TRUE

Memo == INSTANCE IndexMemo WITH
          memo <- [p \in Paths |-> MemoOf(p)],
          stage <- IF Running THEN "running" ELSE phase,
          full <- force

(* `codeiq index` implements the per-path memo.                            *)
MemoSpec == Memo!Spec
=============================================================================
