--------------------------- MODULE IndexRunProofs ---------------------------
(***************************************************************************)
(* Theorems about the analysis cache under `codeiq index`, for every set   *)
(* of paths, contents and workers; then what a completed run leaves        *)
(* behind, where no two paths ever hold the same content.                  *)
(***************************************************************************)
EXTENDS IndexRun, TLAPS

USE CacheAssumption, RunAssumption

-----------------------------------------------------------------------------
(* What the write transactions of the cache do to a database.              *)

LEMMA EmptyDatabaseType == EmptyDatabase \in Database
BY DEF EmptyDatabase, Database

LEMMA EmptyDatabaseConsistent == Consistent(EmptyDatabase)
BY DEF EmptyDatabase, Consistent, HashIsKey, NodesHaveFile, EntriesFaithful

LEMMA PutType ==
  ASSUME NEW d \in Database, NEW h \in Hashes, NEW p \in Paths
  PROVE  Put(d, h, p) \in Database
BY DEF Database, Put, FileRow, EmissionRow, NodesOf, EdgesOf, Under

LEMMA PurgeType ==
  ASSUME NEW d \in Database, NEW p \in Paths, NEW h \in Hashes
  PROVE  Purge(d, p, h) \in Database
BY DEF Database, Purge, FileRow, EmissionRow, Under

LEMMA PutFiles ==
  ASSUME NEW d \in Database, NEW h \in Hashes, NEW p \in Paths, NEW r
  PROVE  r \in Put(d, h, p).files <=>
           \/ r \in d.files /\ r.hash # h
           \/ r = [hash |-> h, path |-> p]
BY DEF Put

LEMMA PurgeFiles ==
  ASSUME NEW d \in Database, NEW p \in Paths, NEW h \in Hashes, NEW r
  PROVE  r \in Purge(d, p, h).files <=> r \in d.files /\ r.path # p
BY DEF Purge

(* Put keeps a cache consistent, whoever owned the digest before.          *)
LEMMA PutConsistent ==
  ASSUME NEW d \in Database, Consistent(d), NEW h \in Hashes, NEW p \in Paths
  PROVE  Consistent(Put(d, h, p))
<1> DEFINE e == Put(d, h, p)
<1>1. HashIsKey(e)
  BY PutFiles DEF Consistent, HashIsKey
<1>2. NodesHaveFile(e)
  <2> SUFFICES ASSUME NEW n \in e.nodes PROVE Has(e, n.hash)
    BY DEF NodesHaveFile
  <2>1. CASE n \in NodesOf(h, p)
    <3>1. n.hash = h
      BY <2>1 DEF NodesOf
    <3>2. [hash |-> h, path |-> p] \in e.files
      BY PutFiles
    <3> QED
      BY <3>1, <3>2 DEF Has
  <2>2. CASE n \in d.nodes /\ n.hash # h
    <3>1. PICK r \in d.files : r.hash = n.hash
      BY <2>2 DEF Consistent, NodesHaveFile, Has
    <3>2. r \in e.files
      BY <2>2, <3>1, PutFiles
    <3> QED
      BY <3>1, <3>2 DEF Has
  <2> QED
    BY <2>1, <2>2 DEF Put, Under
<1>3. EntriesFaithful(e)
  <2> SUFFICES ASSUME NEW r \in e.files
               PROVE  /\ Under(e.nodes, r.hash) = NodesOf(r.hash, r.path)
                      /\ Under(e.edges, r.hash) = EdgesOf(r.hash, r.path)
    BY DEF EntriesFaithful
  <2>1. CASE r = [hash |-> h, path |-> p]
    BY <2>1 DEF Put, Under, NodesOf, EdgesOf
  <2>2. CASE r \in d.files /\ r.hash # h
    <3>1. /\ Under(d.nodes, r.hash) = NodesOf(r.hash, r.path)
          /\ Under(d.edges, r.hash) = EdgesOf(r.hash, r.path)
      BY <2>2 DEF Consistent, EntriesFaithful
    <3>2. Under(e.nodes, r.hash) = Under(d.nodes, r.hash)
      BY <2>2 DEF Put, Under, NodesOf
    <3>3. Under(e.edges, r.hash) = Under(d.edges, r.hash)
      BY <2>2 DEF Put, Under, EdgesOf
    <3> QED
      BY <3>1, <3>2, <3>3
  <2> QED
    BY <2>1, <2>2, PutFiles
<1> QED
  BY <1>1, <1>2, <1>3 DEF Consistent

(* So does a purge the foreign key lets through.                           *)
LEMMA PurgeConsistent ==
  ASSUME NEW d \in Database, Consistent(d), NEW p \in Paths, NEW h \in Hashes,
         [hash |-> h, path |-> p] \in d.files,
         ~ PurgeBreaksForeignKey(d, p, h)
  PROVE  Consistent(Purge(d, p, h))
<1> DEFINE e == Purge(d, p, h)
<1>1. HashIsKey(e)
  BY PurgeFiles DEF Consistent, HashIsKey
<1>2. NodesHaveFile(e)
  BY DEF NodesHaveFile, PurgeBreaksForeignKey
<1>3. EntriesFaithful(e)
  <2> SUFFICES ASSUME NEW r \in e.files
               PROVE  /\ Under(e.nodes, r.hash) = NodesOf(r.hash, r.path)
                      /\ Under(e.edges, r.hash) = EdgesOf(r.hash, r.path)
    BY DEF EntriesFaithful
  <2>1. r \in d.files /\ r.path # p
    BY PurgeFiles
  <2>2. r.hash # h
    BY <2>1 DEF Consistent, HashIsKey
  <2>3. /\ Under(d.nodes, r.hash) = NodesOf(r.hash, r.path)
        /\ Under(d.edges, r.hash) = EdgesOf(r.hash, r.path)
    BY <2>1 DEF Consistent, EntriesFaithful
  <2>4. /\ Under(e.nodes, r.hash) = Under(d.nodes, r.hash)
        /\ Under(e.edges, r.hash) = Under(d.edges, r.hash)
    BY <2>2 DEF Purge, Under
  <2> QED
    BY <2>3, <2>4
<1> QED
  BY <1>1, <1>2, <1>3 DEF Consistent

(* Where no path has two entries, the foreign key never refuses a purge.   *)
LEMMA PurgeOfOnlyEntry ==
  ASSUME NEW d \in Database, Consistent(d), PathIsKey(d),
         NEW p \in Paths, NEW h \in Hashes,
         [hash |-> h, path |-> p] \in d.files
  PROVE  ~ PurgeBreaksForeignKey(d, p, h)
<1> DEFINE e == Purge(d, p, h)
<1> SUFFICES ASSUME NEW n \in e.nodes PROVE Has(e, n.hash)
  BY DEF PurgeBreaksForeignKey
<1>1. n \in d.nodes /\ n.hash # h
  BY DEF Purge, Under
<1>2. PICK r \in d.files : r.hash = n.hash
  BY <1>1 DEF Consistent, NodesHaveFile, Has
<1>3. r.path # p
  BY <1>1, <1>2 DEF PathIsKey
<1> QED
  BY <1>2, <1>3, PurgeFiles DEF Has

LEMMA HashesAtRow ==
  ASSUME NEW d \in Database, NEW p \in Paths
  PROVE  /\ \A h \in HashesAt(d, p) :
              h \in Hashes /\ [hash |-> h, path |-> p] \in d.files
         /\ HashesAt(d, p) = {} => \A r \in d.files : r.path # p
<1>1. ASSUME NEW r \in d.files, r.path = p PROVE r.hash \in HashesAt(d, p)
  BY <1>1 DEF Database, FileRow, HashesAt
<1> QED
  BY <1>1 DEF HashesAt
-----------------------------------------------------------------------------
(* The inductive invariant.                                                *)

(* A file is with one worker at a time, and with none once the pool rests. *)
JobInv ==
  \A w \in Workers :
    pc[w] # "idle" =>
      /\ phase = "work"
      /\ job[w] \in Paths \ queue
      /\ \A v \in Workers : v # w /\ pc[v] # "idle" => job[v] # job[w]

DigestInv == \A w \in Workers : pc[w] \notin {"idle", "read"} => digest[w] \in Hashes

LockInv ==
  \A w \in Workers : pc[w] \in {"purgeCommit", "putCommit"} <=> lock = w

(* The row a purge selected is still there when it writes: either nothing  *)
(* was committed since, or the purge knows that its snapshot is stale.     *)
PurgeInv ==
  \A w \in Workers :
    /\ pc[w] \in {"upgrade", "purgeCommit"} => picked[w] \in Hashes
    /\ pc[w] = "purgeCommit" \/ (pc[w] = "upgrade" /\ w \notin stale) =>
         [hash |-> picked[w], path |-> job[w]] \in db.files

(* A worker about to Put has cleared its path, unless its purge failed.    *)
PutInv ==
  \A w \in Workers :
    pc[w] \in {"put", "putCommit"} /\ job[w] \notin purgeFailed =>
      \A r \in db.files : r.path # job[w]

IInv == /\ TypeOK /\ JobInv /\ DigestInv /\ LockInv /\ PurgeInv /\ PutInv
        /\ CacheConsistent
        /\ TwoEntriesOnlyAfterFailedPurge

LEMMA InitIInv == Init => IInv
<1> SUFFICES ASSUME Init PROVE IInv
  OBVIOUS
<1>1. TypeOK
  BY EmptyDatabaseType DEF Init, TypeOK, Phases, Classes, Outcomes, Steps
<1>2. CacheConsistent /\ TwoEntriesOnlyAfterFailedPurge
  BY EmptyDatabaseConsistent
  DEF Init, CacheConsistent, TwoEntriesOnlyAfterFailedPurge, EmptyDatabase
<1>3. JobInv /\ DigestInv /\ LockInv /\ PurgeInv /\ PutInv
  BY DEF Init, JobInv, DigestInv, LockInv, PurgeInv, PutInv
<1> QED
  BY <1>1, <1>2, <1>3 DEF IInv

(* Steps that leave the workers, the lock and the database alone, and only *)
(* take files off the queue.                                               *)
LEMMA QuietStep ==
  ASSUME IInv, TypeOK',
         UNCHANGED <<db, pc, job, digest, picked, stale, lock, purgeFailed>>,
         phase = "work" => phase' = "work" \/ \A w \in Workers : pc[w] = "idle",
         phase = "work" => queue' \subseteq queue
  PROVE  IInv'
<1>1. CacheConsistent' /\ TwoEntriesOnlyAfterFailedPurge'
  BY DEF IInv, CacheConsistent, TwoEntriesOnlyAfterFailedPurge
<1>2. JobInv' /\ DigestInv' /\ LockInv' /\ PurgeInv' /\ PutInv'
  BY DEF IInv, TypeOK, JobInv, DigestInv, LockInv, PurgeInv, PutInv
<1> QED
  BY <1>1, <1>2 DEF IInv

LEMMA EnvironmentKeepsIInv == IInv /\ Environment => IInv'
<1> SUFFICES ASSUME IInv, Environment PROVE IInv'
  OBVIOUS
<1>1. ASSUME NEW p \in Paths, NEW h \in Hashes \cup {NoHash}, Edit(p, h)
      PROVE  IInv'
  <2>1. TypeOK'
    BY <1>1 DEF IInv, Edit, TypeOK, main, worker
  <2> QED
    BY <1>1, <2>1, QuietStep DEF Edit, main, worker
<1>2. CASE ClearCache
  <2>1. TypeOK'
    BY <1>2, EmptyDatabaseType
    DEF IInv, ClearCache, TypeOK, worker, Clear, Phases
  <2>2. \A w \in Workers : pc[w] = "idle"
    BY <1>2 DEF IInv, ClearCache, Running, JobInv
  <2>3. db' = EmptyDatabase
    BY <1>2 DEF ClearCache, Clear
  <2>4. CacheConsistent' /\ TwoEntriesOnlyAfterFailedPurge'
    BY <2>3, EmptyDatabaseConsistent
    DEF CacheConsistent, TwoEntriesOnlyAfterFailedPurge, EmptyDatabase
  <2>5. JobInv' /\ DigestInv' /\ LockInv' /\ PurgeInv' /\ PutInv'
    BY <1>2, <2>2
    DEF IInv, TypeOK, ClearCache, worker, JobInv, DigestInv, LockInv, PurgeInv, PutInv
  <2> QED
    BY <2>1, <2>4, <2>5 DEF IInv
<1>3. CASE Crash
  <2>1. TypeOK'
    <3>1. used' \in [edits : Nat, runs : Nat, crashes : Nat, stalls : Nat]
      BY <1>3 DEF IInv, Crash, TypeOK
    <3>2. /\ delta' \in [Paths -> Classes] /\ outcome' \in [Paths -> Outcomes]
          /\ pc' \in [Workers -> Steps]
          /\ job' \in [Workers -> Paths \cup {NoPath}]
          /\ digest' \in [Workers -> Hashes \cup {NoHash}]
          /\ picked' \in [Workers -> Hashes \cup {NoHash}]
          /\ got' \in [Workers -> SUBSET EmissionRow]
      BY <1>3 DEF Crash, Classes, Outcomes, Steps
    <3> QED
      BY <1>3, <3>1, <3>2 DEF IInv, Crash, TypeOK, Phases
  <2>2. CacheConsistent' /\ TwoEntriesOnlyAfterFailedPurge'
    BY <1>3 DEF IInv, Crash, CacheConsistent, TwoEntriesOnlyAfterFailedPurge
  <2>3. JobInv' /\ DigestInv' /\ LockInv' /\ PurgeInv' /\ PutInv'
    BY <1>3 DEF Crash, JobInv, DigestInv, LockInv, PurgeInv, PutInv
  <2> QED
    BY <2>1, <2>2, <2>3 DEF IInv
<1>4. ASSUME NEW f \in BOOLEAN, StartRun(f) PROVE IInv'
  <2>1. TypeOK'
    BY <1>4
    DEF IInv, StartRun, TypeOK, worker, Phases, Classes, Outcomes, Discovered
  <2> QED
    BY <1>4, <2>1, QuietStep DEF StartRun, Running, worker
<1> QED
  BY <1>1, <1>2, <1>3, <1>4 DEF Environment

LEMMA MainKeepsIInv == IInv /\ Main => IInv'
<1> SUFFICES ASSUME IInv, Main PROVE IInv'
  OBVIOUS
<1>1. CASE DiffFile
  <2>1. PICK p \in First(diffing) : diffing' = diffing \ {p}
    BY <1>1 DEF DiffFile
  <2>2. \/ delta' = delta
        \/ \E q \in Paths, c \in Classes : delta' = [delta EXCEPT ![q] = c]
    <3>1. ASSUME NEW q \in First(diffing), NEW h,
                 delta' = [delta EXCEPT ![q] =
                             IF h = disk[q] THEN "unchanged" ELSE "modified"]
          PROVE  \E c \in Classes : delta' = [delta EXCEPT ![q] = c]
      BY <3>1 DEF Classes
    <3> QED
      BY <1>1, <3>1 DEF DiffFile, First, Classes, IInv, TypeOK
  <2>3. delta' \in [Paths -> Classes]
    BY <2>2 DEF IInv, TypeOK
  <2>4. TypeOK'
    BY <1>1, <2>1, <2>3 DEF IInv, DiffFile, TypeOK, worker
  <2> QED
    BY <1>1, <2>4, QuietStep DEF DiffFile, worker
<1>2. CASE FindDeleted
  <2>1. TypeOK'
    BY <1>2 DEF IInv, FindDeleted, TypeOK, worker, Phases, Database
  <2> QED
    BY <1>2, <2>1, QuietStep DEF FindDeleted, worker
<1>3. CASE PurgeDeleted
  <2>1. PICK r \in deleted :
          /\ deleted' = deleted \ {r}
          /\ \/ HashesAt(db, r.path) = {} /\ UNCHANGED db
             \/ \E h \in HashesAt(db, r.path) :
                  db' = IF PurgeBreaksForeignKey(db, r.path, h)
                          THEN db ELSE Purge(db, r.path, h)
    BY <1>3 DEF PurgeDeleted
  <2>2. r.path \in Paths
    BY DEF IInv, TypeOK, FileRow
  <2>3. \/ db' = db
        \/ \E h \in Hashes :
             /\ [hash |-> h, path |-> r.path] \in db.files
             /\ ~ PurgeBreaksForeignKey(db, r.path, h)
             /\ db' = Purge(db, r.path, h)
    BY <2>1, <2>2, HashesAtRow DEF IInv, TypeOK
  <2>4. db' \in Database /\ Consistent(db') /\ db'.files \subseteq db.files
    <3>1. db \in Database /\ Consistent(db)
      BY DEF IInv, TypeOK, CacheConsistent
    <3>2. ASSUME NEW h \in Hashes,
                 [hash |-> h, path |-> r.path] \in db.files,
                 ~ PurgeBreaksForeignKey(db, r.path, h),
                 db' = Purge(db, r.path, h)
          PROVE  db' \in Database /\ Consistent(db') /\ db'.files \subseteq db.files
      BY <2>2, <3>1, <3>2, PurgeType, PurgeConsistent, PurgeFiles
    <3> QED
      BY <2>3, <3>1, <3>2
  <2>5. TypeOK'
    BY <1>3, <2>1, <2>4 DEF IInv, PurgeDeleted, TypeOK, worker
  <2>6. CacheConsistent' /\ TwoEntriesOnlyAfterFailedPurge'
    BY <1>3, <2>4
    DEF IInv, PurgeDeleted, CacheConsistent, TwoEntriesOnlyAfterFailedPurge
  <2>7. \A w \in Workers : pc[w] = "idle"
    BY <1>3 DEF IInv, PurgeDeleted, JobInv
  <2>8. JobInv' /\ DigestInv' /\ LockInv' /\ PurgeInv' /\ PutInv'
    BY <1>3, <2>7
    DEF IInv, PurgeDeleted, worker, JobInv, DigestInv, LockInv, PurgeInv, PutInv
  <2> QED
    BY <2>5, <2>6, <2>8 DEF IInv
<1>4. CASE PurgesDone
  <2>1. TypeOK'
    BY <1>4 DEF IInv, PurgesDone, TypeOK, worker, Phases
  <2> QED
    BY <1>4, <2>1, QuietStep DEF PurgesDone, worker
<1>5. CASE DiscoverFiles
  <2>1. TypeOK'
    BY <1>5 DEF IInv, DiscoverFiles, TypeOK, worker, Phases, Discovered
  <2> QED
    BY <1>5, <2>1, QuietStep DEF DiscoverFiles, worker
<1>6. CASE FinishRun
  <2>1. TypeOK'
    BY <1>6 DEF IInv, FinishRun, TypeOK, worker, Phases
  <2> QED
    BY <1>6, <2>1, QuietStep DEF FinishRun, worker
<1> QED
  BY <1>1, <1>2, <1>3, <1>4, <1>5, <1>6 DEF Main

-----------------------------------------------------------------------------
(* The workers.                                                            *)

Reading == {"read", "has", "getFile", "getNodes", "getEdges"}

(* What a step of worker w leaves alone in the other workers.              *)
OthersKeep(w) ==
  \A v \in Workers \ {w} : /\ pc'[v] = pc[v] /\ job'[v] = job[v]
                           /\ digest'[v] = digest[v] /\ picked'[v] = picked[v]

(* Steps before the first write, and those that end processFile there.     *)
LEMMA ReadingStep ==
  ASSUME IInv, TypeOK', NEW w \in Workers, OthersKeep(w),
         UNCHANGED <<db, stale, lock, purgeFailed, phase, queue>>,
         pc[w] \in Reading,
         pc'[w] \in Reading \cup {"idle", "purge"},
         pc'[w] # "idle" => job'[w] = job[w] /\ digest'[w] \in Hashes
  PROVE  IInv'
<1>1. CacheConsistent' /\ TwoEntriesOnlyAfterFailedPurge'
  BY DEF IInv, CacheConsistent, TwoEntriesOnlyAfterFailedPurge
<1>2. JobInv'
  BY DEF IInv, TypeOK, JobInv, OthersKeep, Reading
<1>3. DigestInv' /\ LockInv'
  BY DEF IInv, TypeOK, DigestInv, LockInv, OthersKeep, Reading
<1>4. PurgeInv' /\ PutInv'
  BY DEF IInv, TypeOK, PurgeInv, PutInv, OthersKeep, Reading
<1> QED
  BY <1>1, <1>2, <1>3, <1>4 DEF IInv

LEMMA TakeJobKeepsIInv ==
  ASSUME IInv, NEW w \in Workers, TakeJob(w) PROVE IInv'
<1>1. PICK p \in First(queue) : /\ queue' = queue \ {p}
                                /\ job' = [job EXCEPT ![w] = p]
  BY DEF TakeJob
<1>2. p \in queue /\ p \in Paths
  BY DEF First, IInv, TypeOK
<1>3. TypeOK'
  BY <1>1, <1>2 DEF IInv, TypeOK, TakeJob, Goto, Steps
<1>4. CacheConsistent' /\ TwoEntriesOnlyAfterFailedPurge'
  BY DEF IInv, TakeJob, CacheConsistent, TwoEntriesOnlyAfterFailedPurge
<1>5. JobInv'
  BY <1>1, <1>2 DEF IInv, TypeOK, TakeJob, Goto, JobInv
<1>6. DigestInv' /\ LockInv' /\ PurgeInv' /\ PutInv'
  BY <1>1, <1>2
  DEF IInv, TypeOK, TakeJob, Goto, DigestInv, LockInv, PurgeInv, PutInv
<1> QED
  BY <1>3, <1>4, <1>5, <1>6 DEF IInv

LEMMA ReadFileKeepsIInv ==
  ASSUME IInv, NEW w \in Workers, ReadFile(w) PROVE IInv'
<1>1. job[w] \in Paths
  BY DEF IInv, ReadFile, JobInv
<1>2. CASE disk[job[w]] = NoHash /\ Return(w, "failed")
  <2>1. TypeOK'
    BY <1>1, <1>2 DEF IInv, TypeOK, ReadFile, Return, Goto, main, Steps, Outcomes
  <2> QED
    BY <1>2, <2>1, ReadingStep
    DEF IInv, TypeOK, ReadFile, Return, Goto, main, Reading, OthersKeep
<1>3. CASE /\ disk[job[w]] # NoHash
           /\ digest' = [digest EXCEPT ![w] = disk[job[w]]]
           /\ Goto(w, IF force THEN "purge" ELSE "has")
           /\ UNCHANGED <<job, picked, got, outcome>>
  <2>1. disk[job[w]] \in Hashes
    BY <1>1, <1>3 DEF IInv, TypeOK
  <2>2. TypeOK'
    BY <1>1, <1>3, <2>1 DEF IInv, TypeOK, ReadFile, Goto, main, Steps
  <2> QED
    BY <1>3, <2>1, <2>2, ReadingStep
    DEF IInv, TypeOK, ReadFile, Goto, main, Reading, OthersKeep
<1> QED
  BY <1>2, <1>3 DEF ReadFile

LEMMA LookUpKeepsIInv ==
  ASSUME IInv, NEW w \in Workers, LookUp(w) \/ GetFile(w) \/ GetNodes(w)
  PROVE  IInv'
<1>1. digest[w] \in Hashes
  BY DEF IInv, DigestInv, LookUp, GetFile, GetNodes
<1>2. TypeOK'
  <2>1. Under(db.nodes, digest[w]) \in SUBSET EmissionRow
    BY DEF IInv, TypeOK, Database, Under
  <2>2. /\ pc' \in [Workers -> Steps]
        /\ got' \in [Workers -> SUBSET EmissionRow]
    <3>1. CASE LookUp(w)
      BY <3>1 DEF IInv, TypeOK, LookUp, Goto, Steps
    <3>2. CASE GetFile(w)
      BY <3>2 DEF IInv, TypeOK, GetFile, Goto, Steps
    <3>3. CASE GetNodes(w)
      BY <2>1, <3>3 DEF IInv, TypeOK, GetNodes, Goto, Steps
    <3> QED
      BY <3>1, <3>2, <3>3
  <2>3. UNCHANGED <<disk, db, main, job, digest, picked, stale, lock, outcome,
                    dirty, purgeFailed, used>>
    BY DEF LookUp, GetFile, GetNodes
  <2> QED
    BY <2>2, <2>3 DEF IInv, TypeOK, main
<1> QED
  BY <1>1, <1>2, ReadingStep
  DEF IInv, TypeOK, LookUp, GetFile, GetNodes, Goto, main, Reading, OthersKeep

LEMMA GetEdgesKeepsIInv ==
  ASSUME IInv, NEW w \in Workers, GetEdges(w) PROVE IInv'
<1>1. TypeOK'
  BY DEF IInv, TypeOK, GetEdges, Return, Goto, main, Steps, Outcomes
<1> QED
  BY <1>1, ReadingStep
  DEF IInv, TypeOK, GetEdges, Return, Goto, main, Reading, OthersKeep

LEMMA PurgeSelectKeepsIInv ==
  ASSUME IInv, NEW w \in Workers, PurgeSelect(w) PROVE IInv'
<1>1. job[w] \in Paths /\ db \in Database
  BY DEF IInv, PurgeSelect, JobInv, TypeOK
<1>2. \/ /\ \A r \in db.files : r.path # job[w]
         /\ Goto(w, "put") /\ picked' = picked
      \/ \E h \in Hashes : /\ [hash |-> h, path |-> job[w]] \in db.files
                           /\ picked' = [picked EXCEPT ![w] = h]
                           /\ Goto(w, "upgrade")
  BY <1>1, HashesAtRow DEF PurgeSelect
<1>3. TypeOK'
  <2>1. /\ pc' \in [Workers -> Steps]
        /\ picked' \in [Workers -> Hashes \cup {NoHash}]
    <3>1. picked' \in [Workers -> Hashes \cup {NoHash}]
      BY <1>2 DEF IInv, TypeOK
    <3>2. pc' \in [Workers -> Steps]
      BY <1>2 DEF IInv, TypeOK, Goto, Steps
    <3> QED
      BY <3>1, <3>2
  <2>2. UNCHANGED <<disk, db, main, job, digest, got, stale, lock, outcome,
                    dirty, purgeFailed, used>>
    BY DEF PurgeSelect
  <2> QED
    BY <2>1, <2>2 DEF IInv, TypeOK, main
<1>4. CacheConsistent' /\ TwoEntriesOnlyAfterFailedPurge'
  BY DEF IInv, PurgeSelect, CacheConsistent, TwoEntriesOnlyAfterFailedPurge
<1>5. JobInv' /\ DigestInv' /\ LockInv'
  BY <1>2 DEF IInv, TypeOK, PurgeSelect, Goto, main, JobInv, DigestInv, LockInv
<1>6. PurgeInv' /\ PutInv'
  BY <1>2 DEF IInv, TypeOK, PurgeSelect, Goto, main, PurgeInv, PutInv
<1> QED
  BY <1>3, <1>4, <1>5, <1>6 DEF IInv

LEMMA PurgeUpgradeKeepsIInv ==
  ASSUME IInv, NEW w \in Workers, PurgeUpgrade(w) PROVE IInv'
<1>1. job[w] \in Paths
  BY DEF IInv, PurgeUpgrade, JobInv
<1>2. TypeOK'
  BY <1>1 DEF IInv, TypeOK, PurgeUpgrade, Goto, main, Steps
<1>3. CacheConsistent' /\ TwoEntriesOnlyAfterFailedPurge'
  BY DEF IInv, PurgeUpgrade, CacheConsistent, TwoEntriesOnlyAfterFailedPurge
<1>4. JobInv' /\ DigestInv' /\ LockInv'
  BY DEF IInv, TypeOK, PurgeUpgrade, Goto, main, JobInv, DigestInv, LockInv
<1>5. PurgeInv' /\ PutInv'
  BY DEF IInv, TypeOK, PurgeUpgrade, Goto, main, PurgeInv, PutInv
<1> QED
  BY <1>2, <1>3, <1>4, <1>5 DEF IInv

LEMMA PurgeCommitKeepsIInv ==
  ASSUME IInv, NEW w \in Workers, PurgeCommit(w) PROVE IInv'
<1> DEFINE p == job[w]
           h == picked[w]
<1>1. /\ p \in Paths /\ h \in Hashes /\ db \in Database /\ Consistent(db)
      /\ [hash |-> h, path |-> p] \in db.files
      /\ lock = w
      /\ \A v \in Workers \ {w} : pc[v] \notin {"purgeCommit", "putCommit"}
      /\ \A v \in Workers \ {w} : pc[v] # "idle" => job[v] # p
  BY DEF IInv, PurgeCommit, JobInv, PurgeInv, LockInv, TypeOK, CacheConsistent
<1>2. CASE PurgeBreaksForeignKey(db, p, h)
  <2>1. /\ purgeFailed' = purgeFailed \cup {p} /\ db' = db /\ stale' = stale
        /\ lock' = NoWorker /\ pc' = [pc EXCEPT ![w] = "put"]
        /\ UNCHANGED <<disk, main, job, digest, picked, got, outcome, dirty, used>>
    BY <1>2 DEF PurgeCommit, Goto
  <2>2. TypeOK'
    BY <1>1, <2>1 DEF IInv, TypeOK, main, Steps
  <2>3. CacheConsistent' /\ TwoEntriesOnlyAfterFailedPurge'
    BY <2>1 DEF IInv, CacheConsistent, TwoEntriesOnlyAfterFailedPurge
  <2>4. JobInv' /\ DigestInv' /\ LockInv'
    BY <1>1, <2>1 DEF IInv, TypeOK, PurgeCommit, main, JobInv, DigestInv, LockInv
  <2>5. PurgeInv' /\ PutInv'
    BY <1>1, <2>1 DEF IInv, TypeOK, PurgeCommit, main, PurgeInv, PutInv
  <2> QED
    BY <2>2, <2>3, <2>4, <2>5 DEF IInv
<1>3. CASE ~ PurgeBreaksForeignKey(db, p, h)
  <2>1. /\ db' = Purge(db, p, h) /\ purgeFailed' = purgeFailed
        /\ stale' = {v \in Workers \ {w} : pc[v] = "upgrade"}
        /\ lock' = NoWorker /\ pc' = [pc EXCEPT ![w] = "put"]
        /\ UNCHANGED <<disk, main, job, digest, picked, got, outcome, dirty, used>>
    BY <1>3 DEF PurgeCommit, Goto, StaleAfterCommit
  <2>2. /\ db' \in Database /\ Consistent(db')
        /\ \A r : r \in db'.files <=> r \in db.files /\ r.path # p
    BY <1>1, <1>3, <2>1, PurgeType, PurgeConsistent, PurgeFiles
  <2>3. TypeOK'
    BY <1>1, <2>1, <2>2 DEF IInv, TypeOK, main, Steps
  <2>4. CacheConsistent' /\ TwoEntriesOnlyAfterFailedPurge'
    BY <2>1, <2>2 DEF IInv, CacheConsistent, TwoEntriesOnlyAfterFailedPurge
  <2>5. JobInv' /\ DigestInv' /\ LockInv'
    BY <1>1, <2>1 DEF IInv, TypeOK, PurgeCommit, main, JobInv, DigestInv, LockInv
  <2>6. PurgeInv' /\ PutInv'
    BY <1>1, <2>1, <2>2 DEF IInv, TypeOK, PurgeCommit, main, PurgeInv, PutInv
  <2> QED
    BY <2>3, <2>4, <2>5, <2>6 DEF IInv
<1> QED
  BY <1>2, <1>3

LEMMA PutBeginKeepsIInv ==
  ASSUME IInv, NEW w \in Workers, PutBegin(w) PROVE IInv'
<1>1. TypeOK'
  BY DEF IInv, TypeOK, PutBegin, Goto, main, Steps
<1>2. CacheConsistent' /\ TwoEntriesOnlyAfterFailedPurge'
  BY DEF IInv, PutBegin, CacheConsistent, TwoEntriesOnlyAfterFailedPurge
<1>3. JobInv' /\ DigestInv' /\ LockInv' /\ PurgeInv' /\ PutInv'
  BY DEF IInv, TypeOK, PutBegin, Goto, main,
         JobInv, DigestInv, LockInv, PurgeInv, PutInv
<1> QED
  BY <1>1, <1>2, <1>3 DEF IInv

LEMMA PutTimeoutKeepsIInv ==
  ASSUME IInv, NEW w \in Workers, PutTimeout(w) PROVE IInv'
<1>1. TypeOK'
  <2>1. used' \in [edits : Nat, runs : Nat, crashes : Nat, stalls : Nat]
    BY DEF IInv, TypeOK, PutTimeout
  <2>2. /\ pc' \in [Workers -> Steps]
        /\ outcome' \in [Paths -> Outcomes]
        /\ job' \in [Workers -> Paths \cup {NoPath}]
        /\ digest' \in [Workers -> Hashes \cup {NoHash}]
        /\ picked' \in [Workers -> Hashes \cup {NoHash}]
        /\ got' \in [Workers -> SUBSET EmissionRow]
    BY DEF IInv, TypeOK, PutTimeout, Return, Goto, Steps, Outcomes
  <2>3. UNCHANGED <<disk, db, main, stale, lock, dirty, purgeFailed>>
    BY DEF PutTimeout
  <2> QED
    BY <2>1, <2>2, <2>3 DEF IInv, TypeOK, main
<1>2. CacheConsistent' /\ TwoEntriesOnlyAfterFailedPurge'
  BY DEF IInv, PutTimeout, CacheConsistent, TwoEntriesOnlyAfterFailedPurge
<1>3. JobInv' /\ DigestInv' /\ LockInv' /\ PurgeInv' /\ PutInv'
  BY DEF IInv, TypeOK, PutTimeout, Return, Goto, main,
         JobInv, DigestInv, LockInv, PurgeInv, PutInv
<1> QED
  BY <1>1, <1>2, <1>3 DEF IInv

LEMMA PutCommitKeepsIInv ==
  ASSUME IInv, NEW w \in Workers, PutCommit(w) PROVE IInv'
<1> DEFINE p == job[w]
           h == digest[w]
<1>1. /\ p \in Paths /\ h \in Hashes /\ db \in Database /\ Consistent(db)
      /\ lock = w
      /\ \A v \in Workers \ {w} : pc[v] \notin {"purgeCommit", "putCommit"}
      /\ \A v \in Workers \ {w} : pc[v] # "idle" => job[v] # p
      /\ p \notin purgeFailed => \A r \in db.files : r.path # p
  BY DEF IInv, PutCommit, JobInv, DigestInv, PutInv, LockInv, TypeOK, CacheConsistent
<1>2. /\ db' = Put(db, h, p) /\ purgeFailed' = purgeFailed
      /\ stale' = {v \in Workers \ {w} : pc[v] = "upgrade"}
      /\ lock' = NoWorker /\ Return(w, "parsed")
      /\ UNCHANGED <<disk, main, dirty, used>>
  BY DEF PutCommit, StaleAfterCommit
<1>3. /\ db' \in Database /\ Consistent(db')
      /\ \A r : r \in db'.files <=> \/ r \in db.files /\ r.hash # h
                                    \/ r = [hash |-> h, path |-> p]
  BY <1>1, <1>2, PutType, PutConsistent, PutFiles
<1>4. TypeOK'
  BY <1>1, <1>2, <1>3 DEF IInv, TypeOK, Return, Goto, main, Steps, Outcomes
<1>5. CacheConsistent'
  BY <1>3 DEF CacheConsistent
<1>6. TwoEntriesOnlyAfterFailedPurge'
  BY <1>1, <1>2, <1>3 DEF IInv, TwoEntriesOnlyAfterFailedPurge
<1>7. JobInv' /\ DigestInv' /\ LockInv'
  BY <1>1, <1>2
  DEF IInv, TypeOK, PutCommit, Return, Goto, main, JobInv, DigestInv, LockInv
<1>8. PurgeInv' /\ PutInv'
  <2>1. ASSUME NEW v \in Workers \ {w}
        PROVE  /\ pc'[v] = pc[v] /\ job'[v] = job[v] /\ picked'[v] = picked[v]
               /\ pc[v] = "upgrade" => v \in stale'
    BY <1>2 DEF IInv, TypeOK, Return, Goto
  <2>2. pc'[w] = "idle"
    BY <1>2 DEF IInv, TypeOK, Return, Goto
  <2>3. PurgeInv'
    BY <1>1, <2>1, <2>2 DEF IInv, PurgeInv
  <2>4. PutInv'
    BY <1>1, <1>2, <1>3, <2>1, <2>2 DEF IInv, PutInv
  <2> QED
    BY <2>3, <2>4
<1> QED
  BY <1>4, <1>5, <1>6, <1>7, <1>8 DEF IInv

LEMMA StutterKeepsIInv == IInv /\ UNCHANGED vars => IInv'
<1> SUFFICES ASSUME IInv, UNCHANGED vars PROVE IInv'
  OBVIOUS
<1>1. TypeOK'
  BY DEF IInv, TypeOK, vars, main, worker
<1> QED
  BY <1>1, QuietStep DEF vars, main, worker

LEMMA NextKeepsIInv == IInv /\ [Next]_vars => IInv'
<1>1. ASSUME IInv, NEW w \in Workers, Worker(w) PROVE IInv'
  BY <1>1, TakeJobKeepsIInv, ReadFileKeepsIInv, LookUpKeepsIInv,
     GetEdgesKeepsIInv, PurgeSelectKeepsIInv, PurgeUpgradeKeepsIInv,
     PurgeCommitKeepsIInv, PutBeginKeepsIInv, PutTimeoutKeepsIInv,
     PutCommitKeepsIInv DEF Worker
<1> QED
  BY <1>1, EnvironmentKeepsIInv, MainKeepsIInv, StutterKeepsIInv DEF Next

(* What every theorem below follows from: at each step of the pool the     *)
(* cache is consistent, and each worker is what its place in processFile   *)
(* implies.                                                                *)
THEOREM InductiveInvariant == Spec => []IInv
BY InitIInv, NextKeepsIInv, PTL DEF Spec

(* The variables of an index run keep their types.                         *)
THEOREM TypeCorrect == Spec => []TypeOK
<1>1. IInv => TypeOK
  BY DEF IInv
<1> QED
  BY <1>1, InductiveInvariant, PTL

(* For any pool, and whatever is edited, killed or refused: each cached    *)
(* entry is exactly what the detectors emit for the path that owns it.     *)
THEOREM CacheStaysConsistent == Spec => []CacheConsistent
<1>1. IInv => CacheConsistent
  BY DEF IInv
<1> QED
  BY <1>1, InductiveInvariant, PTL

(* For any pool, a second entry of a path is the trace of a PurgeByPath    *)
(* error that processFile dropped.                                         *)
THEOREM SecondEntryNeedsFailedPurge == Spec => []TwoEntriesOnlyAfterFailedPurge
<1>1. IInv => TwoEntriesOnlyAfterFailedPurge
  BY DEF IInv
<1> QED
  BY <1>1, InductiveInvariant, PTL

-----------------------------------------------------------------------------
(* A pool of one worker never fails a purge.                               *)

SerialInv == purgeFailed = {} /\ stale = {}

LEMMA SerialStep ==
  ASSUME NEW w0, Workers = {w0}
  PROVE  IInv /\ SerialInv /\ [Next]_vars => SerialInv'
<1> SUFFICES ASSUME IInv, SerialInv, [Next]_vars PROVE SerialInv'
  OBVIOUS
<1>1. PathIsKey(db)
  BY DEF IInv, SerialInv, TwoEntriesOnlyAfterFailedPurge, PathIsKey
<1>2. CASE Environment
  BY <1>2 DEF Environment, Edit, ClearCache, Crash, StartRun, SerialInv
<1>3. CASE Main
  BY <1>3 DEF Main, DiffFile, FindDeleted, PurgeDeleted, PurgesDone,
              DiscoverFiles, FinishRun, SerialInv
<1>4. ASSUME NEW w \in Workers, PurgeUpgrade(w) PROVE SerialInv'
  <2>1. lock = NoWorker
    BY <1>4 DEF IInv, TypeOK, LockInv, PurgeUpgrade
  <2> QED
    BY <1>4, <2>1 DEF PurgeUpgrade, SerialInv
<1>5. ASSUME NEW w \in Workers, PurgeCommit(w) PROVE SerialInv'
  <2>1. ~ PurgeBreaksForeignKey(db, job[w], picked[w])
    BY <1>1, <1>5, PurgeOfOnlyEntry
    DEF IInv, TypeOK, CacheConsistent, JobInv, PurgeInv, PurgeCommit
  <2> QED
    BY <1>5, <2>1 DEF PurgeCommit, StaleAfterCommit, SerialInv
<1>6. ASSUME NEW w \in Workers, PutCommit(w) PROVE SerialInv'
  BY <1>6 DEF PutCommit, StaleAfterCommit, SerialInv
<1>7. ASSUME NEW w \in Workers,
             \/ TakeJob(w) \/ ReadFile(w) \/ LookUp(w) \/ GetFile(w)
             \/ GetNodes(w) \/ GetEdges(w) \/ PurgeSelect(w)
             \/ PutBegin(w) \/ PutTimeout(w)
      PROVE  SerialInv'
  BY <1>7 DEF TakeJob, ReadFile, LookUp, GetFile, GetNodes, GetEdges,
              PurgeSelect, PutBegin, PutTimeout, SerialInv
<1>8. CASE UNCHANGED vars
  BY <1>8 DEF vars, SerialInv
<1> QED
  BY <1>2, <1>3, <1>4, <1>5, <1>6, <1>7, <1>8 DEF Next, Worker

(* With one worker, as the incremental tests run it, "a single path never  *)
(* has two cache entries" is true for every tree and every history.        *)
THEOREM SerialPoolKeepsOneEntryPerPath ==
  ASSUME NEW w0, Workers = {w0}
  PROVE  Spec => []PathHasOneEntry
<1>1. Init => SerialInv
  BY DEF Init, SerialInv
<1>2. IInv /\ SerialInv /\ [Next]_vars => SerialInv'
  BY SerialStep
<1>3. IInv /\ SerialInv => PathHasOneEntry
  BY DEF IInv, SerialInv, TwoEntriesOnlyAfterFailedPurge, PathHasOneEntry, PathIsKey
<1> QED
  BY <1>1, <1>2, <1>3, InductiveInvariant, PTL DEF Spec
-----------------------------------------------------------------------------
(***************************************************************************)
(* What a completed `codeiq index` leaves behind, for every set of paths   *)
(* and contents and any bounds, where no two paths ever hold the same      *)
(* content: that a hit replays the detectors and every readable file is    *)
(* cached holds for any pool of workers; that the cache is then exactly    *)
(* the disk, that Diff's classes predict the work done, and that the whole *)
(* is the per-path memo of IndexMemo, for a pool of one.                   *)
(***************************************************************************)

(* No two paths ever hold the same content.  The cache is keyed by content *)
(* and processFile thinks in paths; where two files are equal they share   *)
(* one entry, and what follows is false (IncrementalEqualsFull is the      *)
(* disagreement that shows it).                                            *)
OwnContents == \A p, q \in Paths : p # q => Writable[p] \cap Writable[q] = {}

-----------------------------------------------------------------------------
(* The inductive invariant of any pool.                                    *)

DiskOwn == \A p \in Paths : disk[p] \in Writable[p] \cup {NoHash}

RowsOwn == \A r \in db.files : r.hash \in Writable[r.path]

Current(p) == [hash |-> disk[p], path |-> p] \in db.files

(* The entry for what worker w has read.                                   *)
Entry(w) == [hash |-> digest[w], path |-> job[w]]

Writing == {"purge", "upgrade", "purgeCommit", "put", "putCommit"}

(* What a worker read is still on disk, unless the path was edited.        *)
ReadOwn(w) ==
  pc[w] \notin {"idle", "read"} =>
    /\ digest[w] \in Writable[job[w]]
    /\ job[w] \notin dirty => digest[w] = disk[job[w]]

(* Once Get has found the row nobody takes it away: another worker purges  *)
(* and replaces only rows of its own path.                                 *)
HitOwn(w) ==
  /\ pc[w] \in {"getNodes", "getEdges"} => Entry(w) \in db.files
  /\ pc[w] = "getEdges" => got[w] = NodesOf(digest[w], job[w])

(* A run that is not forced rewrites only what was not there.              *)
MissOwn(w) == pc[w] \in Writing /\ ~ force => Entry(w) \notin db.files

WorkerOwn(w) == ReadOwn(w) /\ HitOwn(w) /\ MissOwn(w)

(* Where a file of the run is: waiting, with a worker, or through.         *)
Waiting(p) == p \in queue \/ \E w \in Workers : pc[w] # "idle" /\ job[w] = p

FileInv(p) ==
  /\ outcome[p] # "none" => ~ Waiting(p)
  /\ p \notin dirty /\ disk[p] # NoHash => outcome[p] # "none" \/ Waiting(p)
  /\ p \notin dirty /\ outcome[p] \in {"hit", "parsed"} => disk[p] # NoHash /\ Current(p)

(* Before the pool starts nothing is through.                              *)
OutcomeInv ==
  /\ phase \in {"diff", "purge", "discover"} => \A p \in Paths : outcome[p] = "none"
  /\ phase \in {"work", "done"} => \A p \in Paths : FileInv(p)
  /\ phase # "work" => queue = {}

OwnInv == /\ DiskOwn /\ RowsOwn
          /\ \A w \in Workers : WorkerOwn(w)
          /\ OutcomeInv

-----------------------------------------------------------------------------
(* The cache has the row of a digest only under the path that owns it.     *)
LEMMA OwnerHasIt ==
  ASSUME OwnContents, RowsOwn, db \in Database, NEW p \in Paths,
         NEW h \in Writable[p], Has(db, h)
  PROVE  [hash |-> h, path |-> p] \in db.files
<1>1. PICK r \in db.files : r.hash = h
  BY DEF Has
<1>2. r \in FileRow
  BY DEF Database
<1>3. r.path = p
  BY <1>1, <1>2 DEF RowsOwn, OwnContents, FileRow
<1> QED
  BY <1>1, <1>2, <1>3 DEF FileRow

(* A commit of one worker leaves the rows of all other paths alone, and    *)
(* stores nothing but a content of its own path.                           *)
LEMMA CommitIsLocal ==
  ASSUME OwnContents, IInv, OwnInv, NEW w \in Workers,
         PurgeCommit(w) \/ PutCommit(w)
  PROVE  /\ \A q \in Paths \ {job[w]}, h \in Hashes :
               [hash |-> h, path |-> q] \in db'.files
                 <=> [hash |-> h, path |-> q] \in db.files
         /\ RowsOwn'
<1> DEFINE p == job[w]
<1>1. p \in Paths /\ db \in Database /\ digest[w] \in Hashes /\ RowsOwn
      /\ digest[w] \in Writable[p]
  BY DEF IInv, TypeOK, JobInv, DigestInv, OwnInv, WorkerOwn, ReadOwn,
         PurgeCommit, PutCommit
<1>2. CASE PurgeCommit(w)
  <2>1. picked[w] \in Hashes
    BY <1>2 DEF IInv, PurgeInv, PurgeCommit
  <2>2. \/ db' = db
        \/ \A r : r \in db'.files <=> r \in db.files /\ r.path # p
    <3>1. db' = db \/ db' = Purge(db, p, picked[w])
      BY <1>2 DEF PurgeCommit
    <3>2. \A r : r \in Purge(db, p, picked[w]).files <=> r \in db.files /\ r.path # p
      BY <1>1, <2>1, PurgeFiles
    <3> QED
      BY <3>1, <3>2
  <2> QED
    BY <1>1, <2>2 DEF RowsOwn
<1>3. CASE PutCommit(w)
  <2>1. \A r : r \in db'.files <=> \/ r \in db.files /\ r.hash # digest[w]
                                   \/ r = [hash |-> digest[w], path |-> p]
    BY <1>1, <1>3, PutFiles DEF PutCommit
  <2>2. ASSUME NEW q \in Paths \ {p}, NEW h \in Hashes,
               [hash |-> h, path |-> q] \in db.files
        PROVE  h # digest[w]
    BY <1>1, <2>2 DEF RowsOwn, OwnContents
  <2>3. RowsOwn'
    BY <1>1, <2>1 DEF RowsOwn
  <2> QED
    BY <2>1, <2>2, <2>3
<1> QED
  BY <1>2, <1>3

-----------------------------------------------------------------------------
(* Preservation of OwnInv.                                                 *)

LEMMA InitOwn == Init => OwnInv
<1> SUFFICES ASSUME Init PROVE OwnInv
  OBVIOUS
<1>1. DiskOwn /\ RowsOwn
  BY DEF Init, DiskOwn, RowsOwn, EmptyDatabase
<1>2. \A w \in Workers : WorkerOwn(w)
  BY DEF Init, WorkerOwn, ReadOwn, HitOwn, MissOwn, Writing
<1>3. OutcomeInv
  BY DEF Init, OutcomeInv
<1> QED
  BY <1>1, <1>2, <1>3 DEF OwnInv

(* With every worker idle, WorkerOwn says nothing.                         *)
LEMMA IdleOwn ==
  ASSUME NEW w \in Workers, pc[w] = "idle" PROVE WorkerOwn(w)
BY DEF WorkerOwn, ReadOwn, HitOwn, MissOwn, Writing

LEMMA RestingPool == IInv /\ phase # "work" => \A w \in Workers : pc[w] = "idle"
BY DEF IInv, JobInv

LEMMA EnvironmentKeepsOwn ==
  ASSUME IInv, OwnInv, Environment PROVE OwnInv'
<1>1. ASSUME NEW p \in Paths, NEW h \in Hashes \cup {NoHash}, Edit(p, h)
      PROVE  OwnInv'
  <2>1. /\ disk' = [disk EXCEPT ![p] = h] /\ dirty' = dirty \cup {p}
        /\ h \in Writable[p] \cup {NoHash}
        /\ UNCHANGED <<db, phase, force, queue, pc, job, digest, got, outcome>>
    BY <1>1 DEF Edit, main, worker
  <2>2. \A q \in Paths : q # p => disk'[q] = disk[q]
    BY <2>1 DEF IInv, TypeOK
  <2>3. DiskOwn' /\ RowsOwn'
    BY <2>1 DEF OwnInv, DiskOwn, RowsOwn, IInv, TypeOK
  <2>4. ASSUME NEW w \in Workers PROVE WorkerOwn(w)'
    <3>1. pc[w] \notin {"idle", "read"} => job[w] \in Paths
      BY DEF IInv, JobInv
    <3> QED
      BY <2>1, <2>2, <3>1
      DEF OwnInv, WorkerOwn, ReadOwn, HitOwn, MissOwn, Entry
  <2>5. ASSUME NEW q \in Paths, FileInv(q) PROVE FileInv(q)'
    BY <2>1, <2>2, <2>5 DEF FileInv, Waiting, Current
  <2>6. OutcomeInv'
    BY <2>1, <2>5 DEF OwnInv, OutcomeInv
  <2> QED
    BY <2>3, <2>4, <2>6 DEF OwnInv
<1>2. CASE ClearCache
  <2>1. \A w \in Workers : pc'[w] = "idle"
    BY <1>2, RestingPool DEF ClearCache, Running, worker
  <2>2. \A w \in Workers : WorkerOwn(w)'
    BY <2>1, IdleOwn DEF WorkerOwn, ReadOwn, HitOwn, MissOwn, Writing
  <2>3. DiskOwn' /\ RowsOwn' /\ OutcomeInv'
    BY <1>2 DEF ClearCache, Running, OwnInv, DiskOwn, RowsOwn, OutcomeInv,
                Clear, EmptyDatabase, IInv, TypeOK, Phases
  <2> QED
    BY <2>2, <2>3 DEF OwnInv
<1>3. CASE Crash
  <2>1. \A w \in Workers : WorkerOwn(w)'
    BY <1>3 DEF Crash, WorkerOwn, ReadOwn, HitOwn, MissOwn, Writing
  <2>2. DiskOwn' /\ RowsOwn' /\ OutcomeInv'
    BY <1>3 DEF Crash, OwnInv, DiskOwn, RowsOwn, OutcomeInv
  <2> QED
    BY <2>1, <2>2 DEF OwnInv
<1>4. ASSUME NEW f \in BOOLEAN, StartRun(f) PROVE OwnInv'
  <2>1. phase # "work" /\ phase' \in {"diff", "discover"} /\ queue' = queue
        /\ outcome' = [p \in Paths |-> "none"]
        /\ UNCHANGED <<disk, db, pc>>
    BY <1>4 DEF StartRun, Running, worker
  <2>2. \A w \in Workers : WorkerOwn(w)'
    BY <2>1, RestingPool DEF WorkerOwn, ReadOwn, HitOwn, MissOwn, Writing
  <2>3. DiskOwn' /\ RowsOwn' /\ OutcomeInv'
    BY <2>1 DEF OwnInv, DiskOwn, RowsOwn, OutcomeInv
  <2> QED
    BY <2>2, <2>3 DEF OwnInv
<1> QED
  BY <1>1, <1>2, <1>3, <1>4 DEF Environment

LEMMA MainKeepsOwn ==
  ASSUME IInv, OwnInv, Main PROVE OwnInv'
<1>1. CASE DiffFile \/ FindDeleted \/ PurgesDone
  <2>1. /\ phase # "work" /\ phase' \in {"diff", "purge", "discover"}
        /\ phase \in {"diff", "purge", "discover"}
        /\ UNCHANGED <<disk, db, force, queue, pc, job, digest, got, outcome, dirty>>
    BY <1>1 DEF DiffFile, FindDeleted, PurgesDone, worker
  <2>2. \A w \in Workers : WorkerOwn(w)'
    BY <2>1, RestingPool DEF WorkerOwn, ReadOwn, HitOwn, MissOwn, Writing
  <2>3. DiskOwn' /\ RowsOwn' /\ OutcomeInv'
    BY <2>1 DEF OwnInv, DiskOwn, RowsOwn, OutcomeInv
  <2> QED
    BY <2>2, <2>3 DEF OwnInv
<1>2. CASE PurgeDeleted
  <2>1. /\ phase = "purge" /\ db'.files \subseteq db.files
        /\ UNCHANGED <<disk, phase, force, queue, pc, job, digest, got, outcome, dirty>>
    BY <1>2 DEF PurgeDeleted, worker, Purge
  <2>2. \A w \in Workers : WorkerOwn(w)'
    BY <2>1, RestingPool DEF WorkerOwn, ReadOwn, HitOwn, MissOwn, Writing
  <2>3. DiskOwn' /\ RowsOwn' /\ OutcomeInv'
    BY <2>1 DEF OwnInv, DiskOwn, RowsOwn, OutcomeInv
  <2> QED
    BY <2>2, <2>3 DEF OwnInv
<1>3. CASE DiscoverFiles
  <2>1. /\ phase = "discover" /\ phase' = "work"
        /\ \A p \in Paths : disk[p] # NoHash => p \in queue'
        /\ UNCHANGED <<disk, db, force, pc, job, digest, got, outcome, dirty>>
    BY <1>3 DEF DiscoverFiles, Discovered, worker
  <2>2. \A w \in Workers : WorkerOwn(w)'
    BY <2>1, RestingPool DEF WorkerOwn, ReadOwn, HitOwn, MissOwn, Writing
  <2>3. \A p \in Paths : FileInv(p)'
    BY <2>1 DEF OwnInv, OutcomeInv, FileInv, Waiting
  <2>4. DiskOwn' /\ RowsOwn' /\ OutcomeInv'
    BY <2>1, <2>3 DEF OwnInv, DiskOwn, RowsOwn, OutcomeInv
  <2> QED
    BY <2>2, <2>4 DEF OwnInv
<1>4. CASE FinishRun
  <2>1. /\ phase = "work" /\ phase' = "done" /\ queue = {}
        /\ UNCHANGED <<disk, db, force, queue, pc, job, digest, got, outcome, dirty>>
    BY <1>4 DEF FinishRun, worker
  <2>2. \A w \in Workers : WorkerOwn(w)'
    BY <2>1 DEF OwnInv, WorkerOwn, ReadOwn, HitOwn, MissOwn, Entry
  <2>3. \A p \in Paths : FileInv(p)'
    BY <2>1 DEF OwnInv, OutcomeInv, FileInv, Waiting, Current
  <2>4. DiskOwn' /\ RowsOwn' /\ OutcomeInv'
    BY <2>1, <2>3 DEF OwnInv, DiskOwn, RowsOwn, OutcomeInv
  <2> QED
    BY <2>2, <2>4 DEF OwnInv
<1> QED
  BY <1>1, <1>2, <1>3, <1>4 DEF Main

(* What a step of worker w inside processFile leaves alone: everything but *)
(* w, the rows of its path and the outcome of its path.                    *)
Inside(w) ==
  /\ pc[w] # "idle"
  /\ UNCHANGED <<disk, dirty, phase, force, queue>>
  /\ OthersKeep(w) /\ \A v \in Workers \ {w} : got'[v] = got[v]
  /\ \A q \in Paths \ {job[w]} : outcome'[q] = outcome[q]
  /\ \A q \in Paths \ {job[w]}, h \in Hashes :
       [hash |-> h, path |-> q] \in db'.files
         <=> [hash |-> h, path |-> q] \in db.files
  /\ RowsOwn'

(* So the other workers and the other files are as they were.              *)
LEMMA OthersUndisturbed ==
  ASSUME IInv, OwnInv, NEW w \in Workers, Inside(w),
         pc'[w] # "idle" => job'[w] = job[w], WorkerOwn(w)',
         NEW p \in Paths, p = job[w], FileInv(p)'
  PROVE  OwnInv'
<1>1. phase = "work" /\ job[w] \in Paths
  BY DEF IInv, JobInv, Inside
<1>2. ASSUME NEW v \in Workers, v # w PROVE WorkerOwn(v)'
  <2>1. /\ pc'[v] = pc[v] /\ job'[v] = job[v] /\ digest'[v] = digest[v]
        /\ got'[v] = got[v]
    BY <1>2 DEF Inside, OthersKeep
  <2>2. CASE pc[v] \in {"idle", "read"}
    BY <2>1, <2>2 DEF WorkerOwn, ReadOwn, HitOwn, MissOwn, Writing
  <2>3. CASE pc[v] \notin {"idle", "read"}
    <3>1. job[v] \in Paths \ {job[w]} /\ digest[v] \in Hashes
      BY <1>2, <2>3 DEF IInv, JobInv, DigestInv, Inside
    <3>2. (Entry(v) \in db.files)' <=> Entry(v) \in db.files
      BY <2>1, <3>1 DEF Inside, Entry
    <3>3. ReadOwn(v)'
      BY <2>1, <2>3 DEF OwnInv, WorkerOwn, ReadOwn, Inside
    <3>4. HitOwn(v)' /\ MissOwn(v)'
      BY <2>1, <3>2 DEF OwnInv, WorkerOwn, HitOwn, MissOwn, Inside
    <3> QED
      BY <3>3, <3>4 DEF WorkerOwn
  <2> QED
    BY <2>2, <2>3
<1>3. ASSUME NEW q \in Paths, q # job[w] PROVE FileInv(q)'
  <2>1. FileInv(q)
    BY <1>1 DEF OwnInv, OutcomeInv
  <2>2. Waiting(q)' <=> Waiting(q)
    BY <1>3 DEF Waiting, Inside, OthersKeep
  <2>3. disk[q] # NoHash => (Current(q)' <=> Current(q))
    BY <1>3 DEF Current, Inside, IInv, TypeOK
  <2> QED
    BY <1>3, <2>1, <2>2, <2>3 DEF FileInv, Inside
<1>4. DiskOwn' /\ OutcomeInv'
  BY <1>1, <1>3 DEF OwnInv, DiskOwn, OutcomeInv, Inside
<1> QED
  BY <1>2, <1>4 DEF OwnInv, Inside

(* processFile goes on.                                                    *)
LEMMA GoingOn ==
  ASSUME IInv, OwnInv, NEW w \in Workers, Inside(w),
         pc'[w] # "idle", job'[w] = job[w], outcome' = outcome, WorkerOwn(w)'
  PROVE  OwnInv'
<1>1. phase = "work" /\ job[w] \in Paths
  BY DEF IInv, JobInv, Inside
<1>2. PICK p \in Paths : p = job[w]
  BY <1>1
<1>3. Waiting(p) /\ Waiting(p)'
  BY <1>2 DEF Waiting, Inside
<1>4. FileInv(p)'
  BY <1>1, <1>3 DEF OwnInv, OutcomeInv, FileInv, Inside
<1> QED
  BY <1>2, <1>4, OthersUndisturbed

(* processFile returns.                                                    *)
LEMMA Returning ==
  ASSUME IInv, OwnInv, NEW w \in Workers, Inside(w),
         NEW result \in {"hit", "parsed", "failed"}, Return(w, result),
         NEW p \in Paths, p = job[w],
         p \notin dirty /\ result # "failed" => disk[p] # NoHash /\ Current(p)'
  PROVE  OwnInv'
<1>1. phase = "work" /\ p \notin queue
      /\ \A v \in Workers : v # w /\ pc[v] # "idle" => job[v] # p
  BY DEF IInv, JobInv, Inside
<1>2. pc'[w] = "idle" /\ outcome'[p] = result
  BY DEF Return, Goto, IInv, TypeOK
<1>3. ~ Waiting(p)'
  <2> SUFFICES ASSUME NEW v \in Workers, pc'[v] # "idle" PROVE job'[v] # p
    BY <1>1 DEF Waiting, Inside
  <2> QED
    BY <1>1, <1>2 DEF Inside, OthersKeep
<1>4. FileInv(p)'
  BY <1>2, <1>3 DEF FileInv, Inside
<1>5. WorkerOwn(w)'
  BY <1>2 DEF WorkerOwn, ReadOwn, HitOwn, MissOwn, Writing
<1> QED
  BY <1>2, <1>4, <1>5, OthersUndisturbed

-----------------------------------------------------------------------------
(* The steps of processFile.                                               *)

LEMMA TakeJobKeepsOwn ==
  ASSUME IInv, OwnInv, NEW w \in Workers, TakeJob(w) PROVE OwnInv'
<1>1. PICK p \in First(queue) : queue' = queue \ {p} /\ job' = [job EXCEPT ![w] = p]
  BY DEF TakeJob
<1>2. /\ p \in queue /\ p \in Paths /\ phase = "work" /\ pc[w] = "idle"
      /\ pc' = [pc EXCEPT ![w] = "read"]
      /\ UNCHANGED <<disk, db, phase, force, digest, got, outcome, dirty>>
  BY <1>1 DEF First, IInv, TypeOK, TakeJob, Goto
<1>3. /\ pc'[w] = "read" /\ job'[w] = p
      /\ \A v \in Workers \ {w} : pc'[v] = pc[v] /\ job'[v] = job[v]
  BY <1>1, <1>2 DEF IInv, TypeOK
<1>4. ASSUME NEW v \in Workers PROVE WorkerOwn(v)'
  BY <1>2, <1>3
  DEF OwnInv, WorkerOwn, ReadOwn, HitOwn, MissOwn, Entry, Writing
<1>5. ASSUME NEW q \in Paths PROVE FileInv(q)'
  <2>1. Waiting(q)' <=> Waiting(q)
    BY <1>1, <1>2, <1>3 DEF Waiting
  <2> QED
    BY <1>2, <2>1 DEF OwnInv, OutcomeInv, FileInv, Current
<1>6. DiskOwn' /\ RowsOwn' /\ OutcomeInv'
  BY <1>2, <1>5 DEF OwnInv, DiskOwn, RowsOwn, OutcomeInv
<1> QED
  BY <1>4, <1>6 DEF OwnInv

LEMMA ReadFileKeepsOwn ==
  ASSUME IInv, OwnInv, NEW w \in Workers, ReadFile(w) PROVE OwnInv'
<1>1. PICK p \in Paths : p = job[w]
  BY DEF IInv, JobInv, ReadFile
<1>2. UNCHANGED <<disk, db, phase, force, queue, dirty>> /\ pc[w] = "read"
  BY DEF ReadFile, main
<1>3. RowsOwn'
  BY <1>2 DEF OwnInv, RowsOwn
<1>4. CASE disk[job[w]] = NoHash /\ Return(w, "failed")
  <2>1. Inside(w)
    BY <1>1, <1>2, <1>3, <1>4 DEF Inside, OthersKeep, Return, Goto, IInv, TypeOK
  <2> QED
    BY <1>1, <1>4, <2>1, Returning
<1>5. CASE /\ disk[job[w]] # NoHash
           /\ digest' = [digest EXCEPT ![w] = disk[job[w]]]
           /\ Goto(w, IF force THEN "purge" ELSE "has")
           /\ UNCHANGED <<job, picked, got, outcome>>
  <2>1. Inside(w)
    BY <1>2, <1>3, <1>5 DEF Inside, OthersKeep, Goto, IInv, TypeOK
  <2>2. /\ pc'[w] = IF force THEN "purge" ELSE "has"
        /\ digest'[w] = disk[p] /\ job'[w] = p
    BY <1>1, <1>5 DEF Goto, IInv, TypeOK
  <2>3. ReadOwn(w)'
    BY <1>1, <1>2, <1>5, <2>2 DEF OwnInv, DiskOwn, ReadOwn
  <2>4. HitOwn(w)' /\ MissOwn(w)'
    BY <1>2, <2>2 DEF HitOwn, MissOwn, Writing
  <2> QED
    BY <1>5, <2>1, <2>2, <2>3, <2>4, GoingOn DEF WorkerOwn
<1> QED
  BY <1>4, <1>5 DEF ReadFile

(* Has, and the first query of Get.                                        *)
LEMMA LookUpKeepsOwn ==
  ASSUME OwnContents, IInv, OwnInv, NEW w \in Workers, LookUp(w) \/ GetFile(w)
  PROVE  OwnInv'
<1>1. /\ job[w] \in Paths /\ db \in Database /\ pc[w] \in {"has", "getFile"}
      /\ digest[w] \in Writable[job[w]] /\ digest[w] \in Hashes
      /\ UNCHANGED <<disk, db, phase, force, queue, job, digest, got, outcome, dirty>>
  BY DEF IInv, TypeOK, JobInv, DigestInv, OwnInv, WorkerOwn, ReadOwn,
         LookUp, GetFile, main
<1>2. Inside(w)
  BY <1>1 DEF Inside, OthersKeep, LookUp, GetFile, Goto, IInv, TypeOK, OwnInv, RowsOwn
<1>3. \/ Has(db, digest[w]) /\ pc'[w] \in {"getFile", "getNodes"}
      \/ ~ Has(db, digest[w]) /\ pc'[w] = "purge"
  BY DEF LookUp, GetFile, Goto, IInv, TypeOK
<1>4. Has(db, digest[w]) <=> Entry(w) \in db.files
  BY <1>1, OwnerHasIt DEF Has, Entry, OwnInv
<1>5. WorkerOwn(w)'
  BY <1>1, <1>3, <1>4
  DEF OwnInv, WorkerOwn, ReadOwn, HitOwn, MissOwn, Entry, Writing
<1> QED
  BY <1>1, <1>2, <1>3, <1>5, GoingOn

LEMMA GetNodesKeepsOwn ==
  ASSUME IInv, OwnInv, NEW w \in Workers, GetNodes(w) PROVE OwnInv'
<1>1. /\ job[w] \in Paths /\ digest[w] \in Hashes /\ Entry(w) \in db.files
      /\ UNCHANGED <<disk, db, phase, force, queue, job, digest, outcome, dirty>>
  BY DEF IInv, TypeOK, JobInv, DigestInv, OwnInv, WorkerOwn, HitOwn, GetNodes, main
<1>2. Inside(w)
  BY <1>1 DEF Inside, OthersKeep, GetNodes, Goto, IInv, TypeOK, OwnInv, RowsOwn
<1>3. pc'[w] = "getEdges" /\ got'[w] = Under(db.nodes, digest[w])
  BY DEF GetNodes, Goto, IInv, TypeOK
<1>4. Under(db.nodes, digest[w]) = NodesOf(digest[w], job[w])
  BY <1>1 DEF IInv, CacheConsistent, Consistent, EntriesFaithful, Entry
<1>5. WorkerOwn(w)'
  <2>1. ReadOwn(w)'
    BY <1>1 DEF GetNodes, OwnInv, WorkerOwn, ReadOwn
  <2>2. HitOwn(w)' /\ MissOwn(w)'
    BY <1>1, <1>3, <1>4 DEF HitOwn, MissOwn, Entry, Writing
  <2> QED
    BY <2>1, <2>2 DEF WorkerOwn
<1> QED
  BY <1>1, <1>2, <1>3, <1>5, GoingOn

LEMMA GetEdgesKeepsOwn ==
  ASSUME IInv, OwnInv, NEW w \in Workers, GetEdges(w) PROVE OwnInv'
<1>1. PICK p \in Paths : p = job[w]
  BY DEF IInv, JobInv, GetEdges
<1>2. /\ digest[w] \in Hashes /\ Entry(w) \in db.files
      /\ p \notin dirty => digest[w] = disk[p]
      /\ UNCHANGED <<disk, db, phase, force, queue, dirty>>
  BY <1>1 DEF IInv, DigestInv, OwnInv, WorkerOwn, ReadOwn, HitOwn, GetEdges, main
<1>3. Return(w, "hit")
  BY DEF GetEdges
<1>4. Inside(w)
  BY <1>1, <1>2, <1>3
  DEF Inside, OthersKeep, GetEdges, Return, Goto, IInv, TypeOK, OwnInv, RowsOwn
<1>5. p \notin dirty => disk[p] # NoHash /\ Current(p)'
  BY <1>1, <1>2, RunAssumption DEF Current, Entry
<1> QED
  BY <1>1, <1>3, <1>4, <1>5, Returning

(* The purge up to its first write, and the beginning of Put.              *)
LEMMA WriteBeginsKeepsOwn ==
  ASSUME IInv, OwnInv, NEW w \in Workers,
         PurgeSelect(w) \/ PurgeUpgrade(w) \/ PutBegin(w)
  PROVE  OwnInv'
<1>1. /\ pc[w] \in Writing /\ pc' = [pc EXCEPT ![w] = pc'[w]] /\ pc'[w] \in Writing
      /\ UNCHANGED <<disk, db, phase, force, queue, job, digest, got, outcome, dirty>>
  BY DEF PurgeSelect, PurgeUpgrade, PutBegin, Goto, main, IInv, TypeOK, Writing
<1>2. \A v \in Workers \ {w} : pc'[v] = pc[v] /\ picked'[v] = picked[v]
  BY DEF PurgeSelect, PurgeUpgrade, PutBegin, Goto, IInv, TypeOK
<1>3. Inside(w)
  BY <1>1, <1>2 DEF Inside, OthersKeep, OwnInv, RowsOwn, Writing
<1>4. WorkerOwn(w)'
  BY <1>1 DEF OwnInv, WorkerOwn, ReadOwn, HitOwn, MissOwn, Entry, Writing
<1> QED
  BY <1>1, <1>3, <1>4, GoingOn DEF Writing

LEMMA PutTimeoutKeepsOwn ==
  ASSUME IInv, OwnInv, NEW w \in Workers, PutTimeout(w) PROVE OwnInv'
<1>1. PICK p \in Paths : p = job[w]
  BY DEF IInv, JobInv, PutTimeout
<1>2. Return(w, "failed") /\ UNCHANGED <<disk, db, phase, force, queue, dirty>>
  BY DEF PutTimeout, main
<1>3. Inside(w)
  BY <1>1, <1>2
  DEF Inside, OthersKeep, PutTimeout, Return, Goto, IInv, TypeOK, OwnInv, RowsOwn
<1> QED
  BY <1>1, <1>2, <1>3, Returning

LEMMA PurgeCommitKeepsOwn ==
  ASSUME OwnContents, IInv, OwnInv, NEW w \in Workers, PurgeCommit(w)
  PROVE  OwnInv'
<1>1. /\ job[w] \in Paths /\ db'.files \subseteq db.files
      /\ pc[w] = "purgeCommit" /\ pc' = [pc EXCEPT ![w] = "put"]
      /\ UNCHANGED <<disk, phase, force, queue, job, digest, picked, got, outcome, dirty>>
  BY DEF PurgeCommit, Goto, main, IInv, JobInv, Purge
<1>2. pc'[w] = "put" /\ \A v \in Workers \ {w} : pc'[v] = pc[v]
  BY <1>1 DEF IInv, TypeOK
<1>3. Inside(w)
  BY <1>1, <1>2, CommitIsLocal DEF Inside, OthersKeep
<1>4. WorkerOwn(w)'
  BY <1>1, <1>2 DEF OwnInv, WorkerOwn, ReadOwn, HitOwn, MissOwn, Entry, Writing
<1> QED
  BY <1>1, <1>2, <1>3, <1>4, GoingOn

LEMMA PutCommitKeepsOwn ==
  ASSUME OwnContents, IInv, OwnInv, NEW w \in Workers, PutCommit(w)
  PROVE  OwnInv'
<1>1. PICK p \in Paths : p = job[w]
  BY DEF IInv, JobInv, PutCommit
<1>2. /\ UNCHANGED <<disk, phase, force, queue, dirty>>
      /\ pc[w] = "putCommit" /\ digest[w] \in Hashes
      /\ p \notin dirty => digest[w] = disk[p]
      /\ [hash |-> digest[w], path |-> p] \in db'.files
  BY <1>1, PutFiles
  DEF PutCommit, main, IInv, TypeOK, DigestInv, OwnInv, WorkerOwn, ReadOwn
<1>3. Return(w, "parsed")
  BY DEF PutCommit
<1>4. Inside(w)
  BY <1>1, <1>2, <1>3, CommitIsLocal
  DEF Inside, OthersKeep, Return, Goto, IInv, TypeOK
<1>5. p \notin dirty => disk[p] # NoHash /\ Current(p)'
  BY <1>2, RunAssumption DEF Current
<1> QED
  BY <1>1, <1>3, <1>4, <1>5, Returning

LEMMA StutterKeepsOwn ==
  ASSUME OwnInv, UNCHANGED vars PROVE OwnInv'
<1>1. UNCHANGED <<disk, db, phase, force, queue, pc, job, digest, got, outcome, dirty>>
  BY DEF vars, main, worker
<1>2. \A w \in Workers : WorkerOwn(w)'
  BY <1>1 DEF OwnInv, WorkerOwn, ReadOwn, HitOwn, MissOwn, Entry
<1>3. \A p \in Paths : FileInv(p) => FileInv(p)'
  BY <1>1 DEF FileInv, Waiting, Current
<1> QED
  BY <1>1, <1>2, <1>3 DEF OwnInv, DiskOwn, RowsOwn, OutcomeInv

LEMMA NextKeepsOwn ==
  ASSUME OwnContents PROVE IInv /\ OwnInv /\ [Next]_vars => OwnInv'
<1>1. ASSUME IInv, OwnInv, NEW w \in Workers, Worker(w) PROVE OwnInv'
  BY <1>1, TakeJobKeepsOwn, ReadFileKeepsOwn, LookUpKeepsOwn, GetNodesKeepsOwn,
     GetEdgesKeepsOwn, WriteBeginsKeepsOwn, PutTimeoutKeepsOwn,
     PurgeCommitKeepsOwn, PutCommitKeepsOwn DEF Worker
<1> QED
  BY <1>1, EnvironmentKeepsOwn, MainKeepsOwn, StutterKeepsOwn DEF Next

(* The invariant of any pool holds of every index run.                     *)
THEOREM OwnInvariant ==
  ASSUME OwnContents PROVE Spec => []OwnInv
BY InitOwn, NextKeepsOwn, InductiveInvariant, PTL DEF Spec

(* For any pool: what a cache hit puts into the graph is what the          *)
(* detectors would have found, although Get reads in three queries and     *)
(* other workers purge and store in between.                               *)
THEOREM HitsReplayDetectors ==
  ASSUME OwnContents PROVE Spec => []HitReplaysDetectors
<1>1. OwnInv => HitReplaysDetectors
  BY DEF OwnInv, WorkerOwn, HitOwn, HitReplaysDetectors
<1> QED
  BY <1>1, OwnInvariant, PTL

(* For any pool: a completed run has a current entry for each file that    *)
(* could be read, was not edited meanwhile and whose Put did not time out. *)
THEOREM CompletedRunCachesFiles ==
  ASSUME OwnContents PROVE Spec => []EveryFileCached
<1>1. IInv /\ OwnInv => EveryFileCached
  <2> SUFFICES ASSUME IInv, OwnInv, phase = "done", NEW p \in Paths \ dirty,
                      disk[p] # NoHash, outcome[p] # "failed"
               PROVE  disk[p] \in HashesAt(db, p)
    BY DEF EveryFileCached
  <2>1. ~ Waiting(p)
    BY RestingPool DEF Waiting, OwnInv, OutcomeInv
  <2>2. FileInv(p)
    BY DEF OwnInv, OutcomeInv
  <2>3. outcome[p] \in {"hit", "parsed"}
    BY <2>1, <2>2 DEF FileInv, IInv, TypeOK, Outcomes
  <2>4. Current(p) /\ disk[p] \in Hashes
    BY <2>2, <2>3 DEF FileInv, IInv, TypeOK
  <2> QED
    BY <2>4 DEF Current, HashesAt
<1> QED
  BY <1>1, InductiveInvariant, OwnInvariant, PTL

-----------------------------------------------------------------------------
(* What a pool of one adds.                                                *)

(* Only a missing file fails.                                              *)
FailInv == \A p \in Paths \ dirty : outcome[p] = "failed" => disk[p] = NoHash

(* Entries of missing files are on their way out, and then gone, unless    *)
(* git still lists the file.                                               *)
MissingInv ==
  /\ phase = "diff" =>
       \A p \in Paths \ dirty : /\ disk[p] # NoHash => p \in seen
                                /\ p \in seen => disk[p] # NoHash \/ p \in Tracked
  /\ phase = "purge" =>
       /\ \A r \in deleted : r.path \in dirty \/ disk[r.path] = NoHash
       /\ \A r \in db.files : \/ r.path \in dirty \cup Tracked
                             \/ disk[r.path] # NoHash
                             \/ r \in deleted
  /\ phase \in {"discover", "work", "done"} /\ ~ force =>
       \A r \in db.files : r.path \in dirty \cup Tracked \/ disk[r.path] # NoHash

(* What Diff said of a file is true of the cache until the file is through *)
(* and true of its outcome from then on.                                   *)
ClassInv(p) ==
  /\ delta[p] # "none" => disk[p] # NoHash
  /\ delta[p] = "unchanged" => Current(p) /\ outcome[p] # "parsed"
  /\ delta[p] \in {"added", "modified"} =>
       /\ outcome[p] = "none" => ~ Current(p)
       /\ outcome[p] # "hit"

DeltaInv ==
  phase # "idle" /\ ~ force => \A p \in Paths \ dirty : ClassInv(p)

SoloInv == /\ SerialInv /\ FailInv /\ MissingInv /\ DeltaInv

LEMMA OneEntry == IInv /\ SerialInv => PathIsKey(db)
BY DEF IInv, SerialInv, TwoEntriesOnlyAfterFailedPurge, PathIsKey

LEMMA QuietSolo ==
  ASSUME FailInv, MissingInv, DeltaInv,
         UNCHANGED <<disk, db, phase, force, seen, delta, deleted, outcome, dirty>>
  PROVE  FailInv' /\ MissingInv' /\ DeltaInv'
BY DEF FailInv, MissingInv, DeltaInv, ClassInv, Current

LEMMA EnvironmentKeepsSolo ==
  ASSUME IInv, FailInv, MissingInv, DeltaInv, Environment
  PROVE  FailInv' /\ MissingInv' /\ DeltaInv'
<1>1. ASSUME NEW p \in Paths, NEW h \in Hashes \cup {NoHash}, Edit(p, h)
      PROVE  FailInv' /\ MissingInv' /\ DeltaInv'
  <2>1. /\ dirty' = dirty \cup {p} /\ \A q \in Paths : q # p => disk'[q] = disk[q]
        /\ UNCHANGED <<db, phase, force, seen, delta, deleted, outcome>>
    BY <1>1 DEF Edit, main, IInv, TypeOK
  <2>2. db.files \subseteq FileRow /\ deleted \subseteq FileRow
    BY DEF IInv, TypeOK, Database
  <2>3. \A r \in FileRow : r.path \in Paths
    BY DEF FileRow
  <2>4. FailInv' /\ DeltaInv'
    BY <2>1 DEF FailInv, DeltaInv, ClassInv, Current
  <2>5. MissingInv'
    BY <2>1, <2>2, <2>3 DEF MissingInv
  <2> QED
    BY <2>4, <2>5
<1>2. CASE ClearCache
  BY <1>2 DEF ClearCache, FailInv, MissingInv, DeltaInv
<1>3. CASE Crash
  BY <1>3 DEF Crash, FailInv, MissingInv, DeltaInv
<1>4. ASSUME NEW f \in BOOLEAN, StartRun(f)
      PROVE  FailInv' /\ MissingInv' /\ DeltaInv'
  <2>1. /\ outcome' = [p \in Paths |-> "none"] /\ delta' = [p \in Paths |-> "none"]
        /\ force' = f /\ disk' = disk
        /\ \/ f /\ phase' = "discover"
           \/ phase' = "diff" /\ seen' = {p \in Paths : disk[p] # NoHash} \cup Tracked
    BY <1>4 DEF StartRun, Discovered
  <2> QED
    BY <2>1 DEF FailInv, MissingInv, DeltaInv, ClassInv
<1> QED
  BY <1>1, <1>2, <1>3, <1>4 DEF Environment

LEMMA DiffFileKeepsSolo ==
  ASSUME IInv, OwnInv, SoloInv, DiffFile
  PROVE  FailInv' /\ MissingInv' /\ DeltaInv'
<1>1. PICK p \in First(diffing) :
        \/ delta' = delta
        \/ /\ disk[p] # NoHash /\ HashesAt(db, p) = {}
           /\ delta' = [delta EXCEPT ![p] = "added"]
        \/ /\ disk[p] # NoHash
           /\ \E h \in HashesAt(db, p) :
                delta' = [delta EXCEPT ![p] =
                            IF h = disk[p] THEN "unchanged" ELSE "modified"]
  BY DEF DiffFile
<1>2. /\ p \in Paths /\ PathIsKey(db) /\ db \in Database
      /\ phase = "diff" /\ outcome[p] = "none"
      /\ UNCHANGED <<disk, db, phase, force, seen, deleted, outcome, dirty>>
  BY OneEntry
  DEF First, IInv, TypeOK, SoloInv, OwnInv, OutcomeInv, DiffFile
<1>3. FailInv' /\ MissingInv'
  BY <1>2 DEF SoloInv, FailInv, MissingInv
<1>4. \/ delta'[p] = delta[p]
      \/ disk[p] # NoHash /\ delta'[p] = "added" /\ ~ Current(p)
      \/ disk[p] # NoHash /\ delta'[p] = "unchanged" /\ Current(p)
      \/ disk[p] # NoHash /\ delta'[p] = "modified" /\ ~ Current(p)
  <2>1. CASE delta' = delta
    BY <2>1
  <2>2. CASE /\ disk[p] # NoHash /\ HashesAt(db, p) = {}
             /\ delta' = [delta EXCEPT ![p] = "added"]
    BY <1>2, <2>2, HashesAtRow DEF Current, IInv, TypeOK
  <2>3. ASSUME disk[p] # NoHash, NEW h \in HashesAt(db, p),
               delta' = [delta EXCEPT ![p] =
                           IF h = disk[p] THEN "unchanged" ELSE "modified"]
        PROVE  \/ delta'[p] = "unchanged" /\ Current(p)
               \/ delta'[p] = "modified" /\ ~ Current(p)
    <3>1. [hash |-> h, path |-> p] \in db.files
      BY <1>2, HashesAtRow
    <3>2. h # disk[p] => ~ Current(p)
      BY <3>1, <1>2 DEF Current, PathIsKey
    <3>3. delta'[p] = IF h = disk[p] THEN "unchanged" ELSE "modified"
      BY <1>2, <2>3 DEF IInv, TypeOK
    <3> QED
      BY <3>1, <3>2, <3>3 DEF Current
  <2> QED
    BY <1>1, <2>1, <2>2, <2>3
<1>5. \A q \in Paths : q # p => delta'[q] = delta[q]
  BY <1>1 DEF IInv, TypeOK
<1>6. DeltaInv'
  BY <1>2, <1>4, <1>5 DEF SoloInv, DeltaInv, ClassInv, Current
<1> QED
  BY <1>3, <1>6

LEMMA PurgeDeletedKeepsSolo ==
  ASSUME IInv, SoloInv, PurgeDeleted
  PROVE  FailInv' /\ MissingInv' /\ DeltaInv'
<1>1. PICK r \in deleted :
        /\ deleted' = deleted \ {r}
        /\ \/ HashesAt(db, r.path) = {} /\ UNCHANGED db
           \/ \E h \in HashesAt(db, r.path) :
                db' = IF PurgeBreaksForeignKey(db, r.path, h)
                        THEN db ELSE Purge(db, r.path, h)
  BY DEF PurgeDeleted
<1>2. /\ r.path \in Paths /\ db \in Database /\ PathIsKey(db) /\ Consistent(db)
      /\ db.files \subseteq FileRow /\ phase = "purge"
      /\ r.path \in dirty \/ disk[r.path] = NoHash
      /\ UNCHANGED <<disk, phase, force, seen, delta, outcome, dirty>>
  BY OneEntry DEF IInv, TypeOK, FileRow, Database, SoloInv, MissingInv,
                  CacheConsistent, PurgeDeleted
<1>3. \A s : s \in db'.files <=> s \in db.files /\ s.path # r.path
  <2>1. CASE HashesAt(db, r.path) = {} /\ UNCHANGED db
    BY <1>2, <2>1, HashesAtRow
  <2>2. ASSUME NEW h \in HashesAt(db, r.path),
               db' = IF PurgeBreaksForeignKey(db, r.path, h)
                       THEN db ELSE Purge(db, r.path, h)
        PROVE  \A s : s \in db'.files <=> s \in db.files /\ s.path # r.path
    BY <1>2, <2>2, HashesAtRow, PurgeOfOnlyEntry, PurgeFiles
  <2> QED
    BY <1>1, <2>1, <2>2
<1>4. FailInv'
  BY <1>2 DEF SoloInv, FailInv
<1>5. MissingInv'
  BY <1>1, <1>2, <1>3 DEF SoloInv, MissingInv
<1>6. DeltaInv'
  BY <1>2, <1>3 DEF SoloInv, DeltaInv, ClassInv, Current
<1> QED
  BY <1>4, <1>5, <1>6

LEMMA MainKeepsSolo ==
  ASSUME IInv, OwnInv, SoloInv, Main
  PROVE  FailInv' /\ MissingInv' /\ DeltaInv'
<1>1. CASE FindDeleted
  <2>1. /\ phase = "diff" /\ phase' = "purge"
        /\ deleted' = {r \in db.files : r.path \notin seen}
        /\ UNCHANGED <<disk, db, force, delta, outcome, dirty>>
    BY <1>1 DEF FindDeleted
  <2>2. \A r \in db.files : r.path \in Paths
    BY DEF IInv, TypeOK, Database, FileRow
  <2>3. MissingInv'
    BY <2>1, <2>2 DEF SoloInv, MissingInv
  <2> QED
    BY <2>1, <2>3 DEF SoloInv, FailInv, DeltaInv, ClassInv, Current
<1>2. CASE PurgesDone \/ DiscoverFiles \/ FinishRun
  <2>1. /\ \/ phase = "purge" /\ phase' = "discover" /\ deleted = {}
           \/ phase \in {"discover", "work"} /\ phase' \in {"work", "done"}
        /\ UNCHANGED <<disk, db, force, delta, outcome, dirty>>
    BY <1>2 DEF PurgesDone, DiscoverFiles, FinishRun
  <2> QED
    BY <2>1 DEF SoloInv, FailInv, MissingInv, DeltaInv, ClassInv, Current
<1> QED
  BY <1>1, <1>2, DiffFileKeepsSolo, PurgeDeletedKeepsSolo DEF Main

(* The steps of a worker that end processFile or commit.                   *)

LEMMA ReadFileKeepsSolo ==
  ASSUME IInv, SoloInv, NEW w \in Workers, ReadFile(w)
  PROVE  FailInv' /\ MissingInv' /\ DeltaInv'
<1>1. PICK p \in Paths : p = job[w]
  BY DEF IInv, JobInv, ReadFile
<1>2. UNCHANGED <<disk, db, phase, force, seen, delta, deleted, dirty>>
  BY DEF ReadFile, main
<1>3. \/ UNCHANGED outcome
      \/ disk[p] = NoHash /\ \A q \in Paths : q # p => outcome'[q] = outcome[q]
  BY <1>1 DEF ReadFile, Return, IInv, TypeOK
<1>4. CASE UNCHANGED outcome
  BY <1>2, <1>4, QuietSolo DEF SoloInv
<1>5. CASE disk[p] = NoHash /\ \A q \in Paths : q # p => outcome'[q] = outcome[q]
  <2>1. FailInv'
    BY <1>2, <1>5 DEF SoloInv, FailInv
  <2>2. MissingInv'
    BY <1>2 DEF SoloInv, MissingInv
  <2>3. DeltaInv'
    BY <1>2, <1>5 DEF SoloInv, DeltaInv, ClassInv, Current
  <2> QED
    BY <2>1, <2>2, <2>3
<1> QED
  BY <1>3, <1>4, <1>5

LEMMA GetEdgesKeepsSolo ==
  ASSUME IInv, OwnInv, SoloInv, NEW w \in Workers, GetEdges(w)
  PROVE  FailInv' /\ MissingInv' /\ DeltaInv'
<1>1. PICK p \in Paths : p = job[w]
  BY DEF IInv, JobInv, GetEdges
<1>2. UNCHANGED <<disk, db, phase, force, seen, delta, deleted, dirty>>
  BY DEF GetEdges, main
<1>3. outcome'[p] = "hit" /\ \A q \in Paths : q # p => outcome'[q] = outcome[q]
  BY <1>1 DEF GetEdges, Return, IInv, TypeOK
<1>4. p \notin dirty => outcome[p] = "none" /\ Current(p)
  <2>1. outcome[p] = "none"
    BY <1>1 DEF IInv, JobInv, GetEdges, OwnInv, OutcomeInv, FileInv, Waiting
  <2> QED
    BY <1>1, <2>1 DEF GetEdges, OwnInv, WorkerOwn, ReadOwn, HitOwn, Entry, Current
<1>5. FailInv' /\ MissingInv'
  BY <1>2, <1>3 DEF SoloInv, FailInv, MissingInv
<1>6. DeltaInv'
  BY <1>2, <1>3, <1>4 DEF SoloInv, DeltaInv, ClassInv, Current
<1> QED
  BY <1>5, <1>6

LEMMA CommitsKeepSolo ==
  ASSUME OwnContents, IInv, OwnInv, SoloInv, NEW w \in Workers,
         PurgeCommit(w) \/ PutCommit(w)
  PROVE  FailInv' /\ MissingInv' /\ DeltaInv'
<1>1. PICK p \in Paths : p = job[w]
  BY DEF IInv, JobInv, PurgeCommit, PutCommit
<1>2. /\ phase = "work" /\ digest[w] \in Hashes /\ db \in Database
      /\ UNCHANGED <<disk, phase, force, seen, delta, deleted, dirty>>
  BY DEF IInv, TypeOK, JobInv, DigestInv, PurgeCommit, PutCommit, main
<1>3. /\ \A q \in Paths : q # p => outcome'[q] = outcome[q]
      /\ outcome'[p] = outcome[p] \/ outcome'[p] = "parsed"
  BY <1>1 DEF PurgeCommit, PutCommit, Return, IInv, TypeOK
<1>4. /\ p \notin dirty => digest[w] = disk[p]
      /\ p \notin dirty /\ ~ force => ~ Current(p)
  BY <1>1 DEF PurgeCommit, PutCommit, OwnInv, WorkerOwn, ReadOwn, MissOwn, Entry,
              Writing, Current
<1>5. /\ \A q \in Paths \ {p}, h \in Hashes :
           [hash |-> h, path |-> q] \in db'.files
             <=> [hash |-> h, path |-> q] \in db.files
  BY <1>1, CommitIsLocal
<1>6. \A r \in db'.files : r \in db.files \/ r = [hash |-> digest[w], path |-> p]
  BY <1>1 DEF PurgeCommit, PutCommit, Purge, Put
<1>7. FailInv'
  BY <1>2, <1>3 DEF SoloInv, FailInv
<1>8. MissingInv'
  <2>1. p \notin dirty => disk[p] # NoHash
    BY <1>2, <1>4, RunAssumption
  <2> QED
    BY <1>2, <1>6, <2>1 DEF SoloInv, MissingInv
<1>9. DeltaInv'
  <2> SUFFICES ASSUME ~ force, NEW q \in Paths \ dirty PROVE ClassInv(q)'
    BY <1>2 DEF DeltaInv
  <2>1. ClassInv(q)
    BY <1>2 DEF SoloInv, DeltaInv
  <2>2. CASE q # p
    <3>1. disk[q] # NoHash => (Current(q)' <=> Current(q))
      BY <1>2, <1>5, <2>2 DEF Current, IInv, TypeOK
    <3> QED
      BY <1>2, <1>3, <2>1, <2>2, <3>1 DEF ClassInv
  <2>3. CASE q = p
    <3>1. delta[p] # "unchanged"
      BY <1>4, <2>1, <2>3 DEF ClassInv
    <3>2. outcome'[p] = "none" => ~ Current(p)'
      <4>1. CASE PurgeCommit(w)
        BY <1>2, <1>4, <2>3, <4>1 DEF PurgeCommit, Purge, Current
      <4>2. CASE PutCommit(w)
        <5>1. outcome'[p] = "parsed"
          BY <1>1, <4>2 DEF PutCommit, Return, IInv, TypeOK
        <5> QED
          BY <5>1
      <4> QED
        BY <4>1, <4>2
    <3> QED
      BY <1>2, <1>3, <2>1, <2>3, <3>1, <3>2 DEF ClassInv
  <2> QED
    BY <2>2, <2>3
<1> QED
  BY <1>7, <1>8, <1>9

(* A worker that is alone never waits for the lock.                        *)
LEMMA NoTimeoutAlone ==
  ASSUME IInv, NEW w0, Workers = {w0}, NEW w \in Workers, PutTimeout(w)
  PROVE  FALSE
BY DEF IInv, TypeOK, LockInv, PutTimeout

LEMMA NextKeepsSolo ==
  ASSUME OwnContents, NEW w0, Workers = {w0}
  PROVE  IInv /\ OwnInv /\ SoloInv /\ [Next]_vars => SoloInv'
<1> SUFFICES ASSUME IInv, OwnInv, SoloInv, [Next]_vars
             PROVE  FailInv' /\ MissingInv' /\ DeltaInv'
  BY SerialStep DEF SoloInv
<1>1. CASE Environment
  BY <1>1, EnvironmentKeepsSolo DEF SoloInv
<1>2. CASE Main
  BY <1>2, MainKeepsSolo
<1>3. ASSUME NEW w \in Workers, Worker(w)
      PROVE  FailInv' /\ MissingInv' /\ DeltaInv'
  <2>1. CASE \/ TakeJob(w) \/ LookUp(w) \/ GetFile(w) \/ GetNodes(w)
             \/ PurgeSelect(w) \/ PurgeUpgrade(w) \/ PutBegin(w)
    <3>1. UNCHANGED <<disk, db, phase, force, seen, delta, deleted, outcome, dirty>>
      BY <2>1 DEF TakeJob, LookUp, GetFile, GetNodes, PurgeSelect, PurgeUpgrade,
                  PutBegin, main
    <3> QED
      BY <3>1, QuietSolo DEF SoloInv
  <2> QED
    BY <1>3, <2>1, ReadFileKeepsSolo, GetEdgesKeepsSolo, CommitsKeepSolo,
       NoTimeoutAlone DEF Worker
<1>4. CASE UNCHANGED vars
  BY <1>4, QuietSolo DEF vars, main, SoloInv
<1> QED
  BY <1>1, <1>2, <1>3, <1>4 DEF Next

(* So does what a pool of one adds, also where git lists missing files.    *)
THEOREM SoloInvariant ==
  ASSUME OwnContents, NEW w0, Workers = {w0}
  PROVE  Spec => []SoloInv
<1>1. Init => SoloInv
  BY DEF Init, SoloInv, SerialInv, FailInv, MissingInv, DeltaInv
<1>2. IInv /\ OwnInv /\ SoloInv /\ [Next]_vars => SoloInv'
  BY NextKeepsSolo
<1> QED
  BY <1>1, <1>2, InductiveInvariant, OwnInvariant, PTL DEF Spec

(* With one worker, after a completed incremental run the cache is the     *)
(* disk, for all paths nobody edited meanwhile: one entry with the present *)
(* content of each file that is there, none of a file that is gone,        *)
(* whatever earlier runs, kills and edits have left.                       *)
THEOREM CacheSettlesToDisk ==
  ASSUME OwnContents, Tracked = {}, NEW w0, Workers = {w0}
  PROVE  Spec => []SettledPathsMatchDisk
<1>1. IInv /\ OwnInv /\ SoloInv => SettledPathsMatchDisk
  <2> SUFFICES ASSUME IInv, OwnInv, SoloInv, phase = "done", ~ force,
                      NEW p \in Paths \ dirty
               PROVE  HashesAt(db, p) = IF disk[p] = NoHash THEN {} ELSE {disk[p]}
    BY DEF SettledPathsMatchDisk
  <2>1. CASE disk[p] = NoHash
    BY <2>1 DEF SoloInv, MissingInv, HashesAt
  <2>2. CASE disk[p] # NoHash
    <3>1. outcome[p] # "none" /\ FileInv(p)
      BY <2>2, RestingPool DEF OwnInv, OutcomeInv, FileInv, Waiting
    <3>2. outcome[p] \in {"hit", "parsed"}
      BY <2>2, <3>1 DEF SoloInv, FailInv, IInv, TypeOK, Outcomes
    <3>3. Current(p) /\ disk[p] \in Hashes
      BY <3>1, <3>2 DEF FileInv, IInv, TypeOK
    <3>4. \A h \in HashesAt(db, p) : h = disk[p]
      BY <3>3, OneEntry DEF SoloInv, PathIsKey, Current, HashesAt
    <3> QED
      BY <2>2, <3>3, <3>4 DEF HashesAt, Current
  <2> QED
    BY <2>1, <2>2
<1> QED
  BY <1>1, InductiveInvariant, OwnInvariant, SoloInvariant, PTL

(* With one worker, what Diff announces is what the run does: the files it *)
(* calls Unchanged are cache hits, those it calls Added or Modified are    *)
(* parsed, although Diff has looked at each file long before its worker.   *)
THEOREM DiffPredictsRun ==
  ASSUME OwnContents, NEW w0, Workers = {w0}
  PROVE  Spec => []DeltaPredictsWork
<1>1. IInv /\ OwnInv /\ SoloInv => DeltaPredictsWork
  <2> SUFFICES ASSUME IInv, OwnInv, SoloInv, phase = "done", ~ force,
                      NEW p \in Paths \ dirty, delta[p] # "none"
               PROVE  /\ delta[p] = "unchanged" => outcome[p] = "hit"
                      /\ delta[p] \in {"added", "modified"} => outcome[p] = "parsed"
    BY DEF DeltaPredictsWork
  <2>1. ClassInv(p) /\ FileInv(p)
    BY DEF SoloInv, DeltaInv, OwnInv, OutcomeInv
  <2>2. disk[p] # NoHash /\ outcome[p] # "none"
    BY <2>1, RestingPool DEF ClassInv, FileInv, Waiting, OwnInv, OutcomeInv
  <2>3. outcome[p] \in {"hit", "parsed"}
    BY <2>2 DEF SoloInv, FailInv, IInv, TypeOK, Outcomes
  <2> QED
    BY <2>1, <2>3 DEF ClassInv
<1> QED
  BY <1>1, InductiveInvariant, OwnInvariant, SoloInvariant, PTL

-----------------------------------------------------------------------------
(* The refinement of IndexMemo.                                            *)

memo == [p \in Paths |-> MemoOf(p)]
stage == IF Running THEN "running" ELSE phase

LEMMA MemoOfRow ==
  ASSUME PathIsKey(db), NEW p \in Paths, NEW h \in Hashes,
         [hash |-> h, path |-> p] \in db.files
  PROVE  MemoOf(p) = h
<1>1. HashesAt(db, p) = {h}
  BY DEF PathIsKey, HashesAt
<1> QED
  BY <1>1 DEF MemoOf

LEMMA MemoOfNone ==
  ASSUME NEW p \in Paths, \A h \in Hashes : [hash |-> h, path |-> p] \notin db.files
  PROVE  MemoOf(p) = NoHash
BY DEF MemoOf, HashesAt

LEMMA MemoKept ==
  ASSUME NEW p \in Paths,
         \A h \in Hashes : [hash |-> h, path |-> p] \in db'.files
                             <=> [hash |-> h, path |-> p] \in db.files
  PROVE  MemoOf(p)' = MemoOf(p)
<1>1. HashesAt(db, p)' = HashesAt(db, p)
  BY DEF HashesAt
<1> QED
  BY <1>1 DEF MemoOf

(* A step that keeps the cache, the disk and the main variables.           *)
LEMMA QuietMemo ==
  ASSUME UNCHANGED <<disk, db, force, dirty>>, stage' = stage
  PROVE  UNCHANGED Memo!memoVars
<1>1. memo' = memo
  BY DEF memo, MemoOf, HashesAt
<1> QED
  BY <1>1 DEF Memo!memoVars, memo, stage

LEMMA EnvironmentImplements ==
  ASSUME IInv, Environment PROVE Memo!Next
<1>1. ASSUME NEW p \in Paths, NEW h \in Hashes \cup {NoHash}, Edit(p, h)
      PROVE  Memo!Edit
  <2>1. /\ disk' = [disk EXCEPT ![p] = h] /\ dirty' = dirty \cup {p}
        /\ db' = db /\ phase' = phase /\ force' = force
    BY <1>1 DEF Edit, main
  <2>2. memo' = memo /\ stage' = stage
    BY <2>1 DEF memo, MemoOf, HashesAt, stage, Running
  <2> QED
    BY <2>1, <2>2 DEF Memo!Edit, Memo!Contents, memo, stage
<1>2. ASSUME ClearCache PROVE Memo!Clear
  <2>1. /\ ~ Running /\ db' = EmptyDatabase /\ phase' = "idle"
        /\ UNCHANGED <<disk, force, dirty>>
    BY <1>2 DEF ClearCache, Clear
  <2>2. \A p \in Paths : MemoOf(p)' = NoHash
    BY <2>1 DEF MemoOf, HashesAt, EmptyDatabase
  <2>3. memo' = [p \in Paths |-> NoHash]
    BY <2>2 DEF memo
  <2>4. stage # "running" /\ stage' = "idle"
    BY <2>1 DEF stage, Running, IInv, TypeOK, Phases
  <2> QED
    BY <2>1, <2>3, <2>4 DEF Memo!Clear, memo, stage
<1>3. ASSUME Crash PROVE Memo!Abort
  <2>1. /\ Running /\ phase' = "idle" /\ force' = FALSE
        /\ UNCHANGED <<disk, db, dirty>>
    BY <1>3 DEF Crash
  <2>2. memo' = memo /\ stage = "running" /\ stage' = "idle"
    BY <2>1 DEF memo, MemoOf, HashesAt, stage, Running
  <2> QED
    BY <2>1, <2>2 DEF Memo!Abort, memo, stage
<1>4. ASSUME NEW f \in BOOLEAN, StartRun(f) PROVE Memo!Begin
  <2>1. /\ ~ Running /\ phase' \in {"diff", "discover"} /\ force' = f /\ dirty' = {}
        /\ UNCHANGED <<disk, db>>
    BY <1>4 DEF StartRun
  <2>2. memo' = memo
    BY <2>1 DEF memo, MemoOf, HashesAt
  <2>3. stage # "running" /\ stage' = "running"
    BY <2>1 DEF stage, Running, IInv, TypeOK, Phases
  <2> QED
    BY <2>1, <2>2, <2>3 DEF Memo!Begin, memo, stage
<1> QED
  BY <1>1, <1>2, <1>3, <1>4 DEF Environment, Memo!Next

(* A purge forgets its path and nothing else.                              *)
LEMMA PurgeForgets ==
  ASSUME NEW p \in Paths,
         \A s : s \in db'.files <=> s \in db.files /\ s.path # p
  PROVE  memo' = [memo EXCEPT ![p] = NoHash]
<1>1. MemoOf(p)' = NoHash
  BY DEF MemoOf, HashesAt
<1>2. ASSUME NEW q \in Paths, q # p PROVE MemoOf(q)' = MemoOf(q)
  <2>1. \A h \in Hashes : [hash |-> h, path |-> q] \in db'.files
                            <=> [hash |-> h, path |-> q] \in db.files
    BY <1>2
  <2> QED
    BY <2>1, MemoKept
<1> QED
  BY <1>1, <1>2 DEF memo

LEMMA MainImplements ==
  ASSUME Tracked = {}, IInv, OwnInv, SoloInv, Main PROVE [Memo!Next]_Memo!memoVars
<1>1. CASE DiffFile \/ FindDeleted \/ PurgesDone \/ DiscoverFiles
  <2>1. /\ UNCHANGED <<disk, db, force, dirty>>
        /\ stage = "running" /\ stage' = "running"
    BY <1>1 DEF DiffFile, FindDeleted, PurgesDone, DiscoverFiles, stage, Running
  <2> QED
    BY <2>1, QuietMemo
<1>2. CASE PurgeDeleted
  <2>1. PICK r \in deleted :
          \/ HashesAt(db, r.path) = {} /\ UNCHANGED db
          \/ \E h \in HashesAt(db, r.path) :
               db' = IF PurgeBreaksForeignKey(db, r.path, h)
                       THEN db ELSE Purge(db, r.path, h)
    BY <1>2 DEF PurgeDeleted
  <2>2. /\ r.path \in Paths /\ db \in Database /\ PathIsKey(db) /\ Consistent(db)
        /\ r.path \in dirty \/ disk[r.path] = NoHash
        /\ UNCHANGED <<disk, force, dirty>>
        /\ stage = "running" /\ stage' = "running"
    BY <1>2, OneEntry DEF IInv, TypeOK, FileRow, SoloInv, MissingInv,
                      CacheConsistent, PurgeDeleted, stage, Running
  <2>3. CASE UNCHANGED db
    BY <2>2, <2>3, QuietMemo
  <2>4. ASSUME NEW h \in HashesAt(db, r.path), ~ UNCHANGED db,
               db' = IF PurgeBreaksForeignKey(db, r.path, h)
                       THEN db ELSE Purge(db, r.path, h)
        PROVE  Memo!Forget
    <3>1. h \in Hashes /\ [hash |-> h, path |-> r.path] \in db.files
      BY <2>2, <2>4, HashesAtRow
    <3>2. \A s : s \in db'.files <=> s \in db.files /\ s.path # r.path
      BY <2>2, <2>4, <3>1, PurgeFiles
    <3>3. memo' = [memo EXCEPT ![r.path] = NoHash]
      BY <2>2, <3>2, PurgeForgets
    <3>4. memo[r.path] = h /\ h # NoHash
      BY <2>2, <3>1, MemoOfRow, RunAssumption DEF memo
    <3>5. r.path \in dirty \/ memo[r.path] # disk[r.path]
      BY <2>2, <3>4
    <3> QED
      BY <2>2, <3>3, <3>5 DEF Memo!Forget, memo, stage
  <2> QED
    BY <2>1, <2>3, <2>4 DEF Memo!Next
<1>3. CASE FinishRun
  <2>1. /\ UNCHANGED <<disk, db, force, dirty>> /\ phase = "work" /\ queue = {}
        /\ phase' = "done" /\ \A w \in Workers : pc[w] = "idle"
    BY <1>3 DEF FinishRun
  <2>2. memo' = memo /\ stage = "running" /\ stage' = "done"
    BY <2>1 DEF memo, MemoOf, HashesAt, stage, Running
  <2>3. ASSUME NEW p \in Paths \ dirty
        PROVE  memo[p] = disk[p] \/ (force /\ disk[p] = NoHash)
    <3>1. CASE disk[p] = NoHash
      <4>1. ~ force => \A h \in Hashes : [hash |-> h, path |-> p] \notin db.files
        BY <2>1, <3>1 DEF SoloInv, MissingInv
      <4> QED
        BY <3>1, <4>1, MemoOfNone DEF memo
    <3>2. CASE disk[p] # NoHash
      <4>1. outcome[p] # "none" /\ FileInv(p)
        BY <2>1, <3>2 DEF OwnInv, OutcomeInv, FileInv, Waiting
      <4>2. outcome[p] \in {"hit", "parsed"}
        BY <3>2, <4>1 DEF SoloInv, FailInv, IInv, TypeOK, Outcomes
      <4>3. Current(p) /\ disk[p] \in Hashes
        BY <4>1, <4>2 DEF FileInv, IInv, TypeOK
      <4> QED
        BY <4>3, OneEntry, MemoOfRow DEF SoloInv, Current, memo
    <3> QED
      BY <3>1, <3>2
  <2>4. Memo!Finish
    BY <2>1, <2>2, <2>3 DEF Memo!Finish, Memo!UpToDate, memo, stage
  <2> QED
    BY <2>4 DEF Memo!Next
<1> QED
  BY <1>1, <1>2, <1>3 DEF Main

(* A commit of PurgeByPath forgets the file's old content, one of Put      *)
(* learns the new one.                                                     *)

LEMMA PurgeCommitImplements ==
  ASSUME IInv, OwnInv, SoloInv, NEW w \in Workers, PurgeCommit(w)
  PROVE  Memo!Forget
<1>1. PICK p \in Paths : p = job[w]
  BY DEF IInv, JobInv, PurgeCommit
<1>2. /\ picked[w] \in Hashes /\ [hash |-> picked[w], path |-> p] \in db.files
      /\ db \in Database /\ PathIsKey(db) /\ Consistent(db)
      /\ UNCHANGED <<disk, force, dirty>>
      /\ stage = "running" /\ stage' = "running"
  BY <1>1, OneEntry DEF IInv, TypeOK, JobInv, PurgeInv, CacheConsistent, SoloInv,
                        PurgeCommit, main, stage, Running
<1>3. db' = Purge(db, p, picked[w])
  BY <1>1, <1>2, PurgeOfOnlyEntry DEF PurgeCommit
<1>4. memo' = [memo EXCEPT ![p] = NoHash]
  BY <1>2, <1>3, PurgeFiles, PurgeForgets
<1>5. memo[p] = picked[w]
  BY <1>2, MemoOfRow DEF memo
<1>6. p \notin dirty /\ ~ force => picked[w] # disk[p]
  BY <1>1, <1>2
  DEF OwnInv, WorkerOwn, ReadOwn, MissOwn, Entry, Writing, PurgeCommit
<1> QED
  BY <1>2, <1>4, <1>5, <1>6 DEF Memo!Forget, memo, stage

LEMMA PutCommitImplements ==
  ASSUME OwnContents, IInv, OwnInv, SoloInv, NEW w \in Workers, PutCommit(w),
         PathIsKey(db')
  PROVE  Memo!Learn
<1>1. PICK p \in Paths : p = job[w]
  BY DEF IInv, JobInv, PutCommit
<1>2. /\ digest[w] \in Hashes /\ db \in Database
      /\ p \notin dirty => digest[w] = disk[p]
      /\ \A r \in db.files : r.path # p
      /\ UNCHANGED <<disk, force, dirty>>
      /\ stage = "running" /\ stage' = "running"
  BY <1>1 DEF IInv, TypeOK, JobInv, DigestInv, PutInv, SoloInv, SerialInv,
              OwnInv, WorkerOwn, ReadOwn, PutCommit, main, stage, Running
<1>3. memo[p] = NoHash
  BY <1>2, MemoOfNone DEF memo
<1>4. memo' = [memo EXCEPT ![p] = digest[w]]
  <2>1. MemoOf(p)' = digest[w]
    <3>1. [hash |-> digest[w], path |-> p] \in db'.files
      BY <1>1, <1>2, PutFiles DEF PutCommit
    <3>2. HashesAt(db', p) = {digest[w]}
      BY <1>2, <3>1 DEF PathIsKey, HashesAt
    <3> QED
      BY <3>2 DEF MemoOf
  <2>2. ASSUME NEW q \in Paths, q # p PROVE MemoOf(q)' = MemoOf(q)
    BY <1>1, <2>2, CommitIsLocal, MemoKept
  <2> QED
    BY <2>1, <2>2 DEF memo
<1> QED
  BY <1>2, <1>3, <1>4 DEF Memo!Learn, memo, stage

LEMMA WorkerImplements ==
  ASSUME OwnContents, IInv, OwnInv, SoloInv, NEW w \in Workers, Worker(w),
         PathIsKey(db')
  PROVE  [Memo!Next]_Memo!memoVars
<1>1. CASE \/ TakeJob(w) \/ ReadFile(w) \/ LookUp(w) \/ GetFile(w)
           \/ GetNodes(w) \/ GetEdges(w) \/ PurgeSelect(w) \/ PurgeUpgrade(w)
           \/ PutBegin(w) \/ PutTimeout(w)
  <2>1. UNCHANGED <<disk, db, force, dirty, phase>>
    BY <1>1 DEF TakeJob, ReadFile, LookUp, GetFile, GetNodes, GetEdges,
                PurgeSelect, PurgeUpgrade, PutBegin, PutTimeout, main
  <2> QED
    BY <2>1, QuietMemo DEF stage, Running
<1> QED
  BY <1>1, PurgeCommitImplements, PutCommitImplements DEF Worker, Memo!Next

(* With one worker `codeiq index` implements IndexMemo: the cache is a     *)
(* memo per path, a current entry is only thrown away to be learnt anew,   *)
(* and a run is complete only when memo and disk agree.                    *)
THEOREM IndexImplementsMemo ==
  ASSUME OwnContents, Tracked = {}, NEW w0, Workers = {w0}
  PROVE  Spec => MemoSpec
<1>1. Init => Memo!Init
  BY DEF Init, Memo!Init, Memo!Contents, MemoOf, HashesAt, EmptyDatabase, Running
<1>2. ASSUME IInv, OwnInv, SoloInv, IInv', SoloInv', [Next]_vars
      PROVE  [Memo!Next]_Memo!memoVars
  <2>1. PathIsKey(db')
    BY <1>2 DEF IInv, SoloInv, SerialInv, TwoEntriesOnlyAfterFailedPurge, PathIsKey
  <2>2. CASE UNCHANGED vars
    BY <2>2, QuietMemo DEF vars, main, stage, Running
  <2> QED
    BY <1>2, <2>1, <2>2, EnvironmentImplements, MainImplements, WorkerImplements
    DEF Next
<1> QED
  BY <1>1, <1>2, InductiveInvariant, OwnInvariant, SoloInvariant, PTL
  DEF Spec, MemoSpec, Memo!Spec
=============================================================================
