--------------------------- MODULE AnalysisCache ---------------------------
(***************************************************************************)
(* The analysis cache of internal/cache: the SQLite file                   *)
(* .codeiq/cache/codeiq.sqlite that `codeiq index` fills and               *)
(* `codeiq enrich` reads.                                                  *)
(*                                                                         *)
(* A database value is what one committed transaction leaves behind: the   *)
(* rows of the tables files, nodes and edges.  The module has no state of  *)
(* its own; it gives the effect of every statement sequence the Go methods *)
(* of Cache run, as an operator on database values.  IndexRun and          *)
(* EnrichRun hold a database in a variable and decide when each            *)
(* transaction takes place.                                                *)
(*                                                                         *)
(* A file content is named by its SHA-256 digest: Hashes is the set of the *)
(* contents a file may have, and hashing is injective.  What the detectors *)
(* emit depends on the content and on the path (node ids and file_path     *)
(* carry the path), so a nodes row is the digest it is stored under and    *)
(* the path it was emitted for, and stands for all the nodes of that file. *)
(***************************************************************************)
EXTENDS Integers

CONSTANTS
  Paths,        \* the discoverable paths, as their rank in the sorted order
  Hashes,       \* the contents (SHA-256 digests) a file may have
  NodeHashes,   \* the contents in which some detector finds a node
  EdgeHashes    \* the contents in which some detector finds an edge

ASSUME CacheAssumption ==
  /\ Paths \subseteq Nat
  /\ NodeHashes \subseteq Hashes
  /\ EdgeHashes \subseteq Hashes

FileRow == [hash : Hashes, path : Paths]
EmissionRow == [hash : Hashes, from : Paths]

Database == [files : SUBSET FileRow,
             nodes : SUBSET EmissionRow,
             edges : SUBSET EmissionRow]

(* The database Open creates: the schema, and no rows.                     *)
EmptyDatabase == [files |-> {}, nodes |-> {}, edges |-> {}]

-----------------------------------------------------------------------------
(* What the detectors find in content h at path p, as rows.                *)

NodesOf(h, p) == IF h \in NodeHashes THEN {[hash |-> h, from |-> p]} ELSE {}
EdgesOf(h, p) == IF h \in EdgeHashes THEN {[hash |-> h, from |-> p]} ELSE {}

-----------------------------------------------------------------------------
(* Reads.                                                                  *)

(* Rows of an emission table stored under h.                               *)
Under(rows, h) == {r \in rows : r.hash = h}

(* SELECT COUNT( * ) FROM files WHERE content_hash = h.                    *)
Has(d, h) == \E r \in d.files : r.hash = h

(* The digests cached for a path.  GetFileByPath and PurgeByPath take one  *)
(* of them: their SELECT has no ORDER BY.                                  *)
HashesAt(d, p) == {h \in Hashes : [hash |-> h, path |-> p] \in d.files}

(* ManifestHash digests the sorted (path, content_hash) pairs, so two      *)
(* manifests are equal when the pairs are.                                 *)
ManifestHash(d) == d.files

-----------------------------------------------------------------------------
(* Writes: the database a committed transaction leaves.                    *)

(* Put wipes all rows of the digest, whichever path they belong to, and    *)
(* inserts those of the entry.                                             *)
Put(d, h, p) ==
  [files |-> {r \in d.files : r.hash # h} \cup {[hash |-> h, path |-> p]},
   nodes |-> (d.nodes \ Under(d.nodes, h)) \cup NodesOf(h, p),
   edges |-> (d.edges \ Under(d.edges, h)) \cup EdgesOf(h, p)]

(* PurgeByPath, after its SELECT returned h: the nodes and edges of h go,  *)
(* and every files row of the path.                                        *)
Purge(d, p, h) ==
  [files |-> {r \in d.files : r.path # p},
   nodes |-> d.nodes \ Under(d.nodes, h),
   edges |-> d.edges \ Under(d.edges, h)]

(* Mutant of PurgeBreaksForeignKey: PRAGMA foreign_keys is left off.       *)
ForeignKeysOff(d, p, h) == FALSE

(* nodes.content_hash references files: the DELETE FROM files of a purge   *)
(* is refused when it would leave a nodes row without its files row.       *)
PurgeBreaksForeignKey(d, p, h) ==
  \E r \in Purge(d, p, h).nodes : ~ Has(Purge(d, p, h), r.hash)

(* Cache.Clear: every row of every table.                                  *)
Clear(d) == EmptyDatabase

-----------------------------------------------------------------------------
(* What a database must look like at all times.                            *)

(* The foreign key.                                                        *)
NodesHaveFile(d) == \A r \in d.nodes : Has(d, r.hash)

(* Every entry has the rows of the path that owns it, all of them and no   *)
(* other's.  (What the data of a row may pick up from other files before   *)
(* it is stored is the subject of GraphBuild.)                             *)
EntriesFaithful(d) ==
  \A r \in d.files : /\ Under(d.nodes, r.hash) = NodesOf(r.hash, r.path)
                     /\ Under(d.edges, r.hash) = EdgesOf(r.hash, r.path)

(* content_hash is the primary key of files.                               *)
HashIsKey(d) == \A r, s \in d.files : r.hash = s.hash => r = s

Consistent(d) == HashIsKey(d) /\ NodesHaveFile(d) /\ EntriesFaithful(d)

(* "a single path never has two cache entries"                             *)
PathIsKey(d) == \A r, s \in d.files : r.path = s.path => r = s
=============================================================================
