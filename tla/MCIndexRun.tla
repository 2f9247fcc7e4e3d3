----------------------------- MODULE MCIndexRun -----------------------------
(* Values for the constants of IndexRun.                                   *)
EXTENDS IndexRun

TwoPaths == {1, 2}

(* Content 10 * p + v is the v-th version of the file at path p, so that   *)
(* no two paths ever hold the same content.  Content 11 has neither nodes  *)
(* nor edges, content 20 has nodes but no edges.                           *)
OwnVersions == [p \in Paths |-> {10 * p, 10 * p + 1}]
OwnHashes == UNION {OwnVersions[p] : p \in Paths}
OwnNodeHashes == OwnHashes \ {11}
OwnEdgeHashes == OwnHashes \ {11, 20}

(* Contents that move between paths: copies and renames.                   *)
SharedHashes == {"h1", "h2"}
SharedVersions == [p \in Paths |-> SharedHashes]
=============================================================================
