----------------------------- MODULE IndexMemo -----------------------------
(***************************************************************************)
(* What `codeiq index` promises, without workers, transactions or rows:    *)
(* the cache is a memo that gives each path the content it was last        *)
(* indexed with.  A run forgets and learns one path at a time, in any      *)
(* order, and may claim completion only when the memo agrees with the disk *)
(* for all paths nobody edited meanwhile.  IndexRun implements this module *)
(* for a pool of one worker and contents that no two paths share.          *)
(***************************************************************************)
CONSTANTS Paths, Hashes, NoHash

VARIABLES
  disk,     \* the content of each path, or NoHash
  memo,     \* the content each path was last indexed with, or NoHash
  stage,    \* "idle", "running", "done"
  full,     \* a --force run: re-learns everything, forgets no deleted file
  dirty     \* paths edited since the run began

memoVars == <<disk, memo, stage, full, dirty>>

Contents == Hashes \cup {NoHash}

Init == /\ disk \in [Paths -> Contents]
        /\ memo = [p \in Paths |-> NoHash]
        /\ stage = "idle" /\ full = FALSE /\ dirty = {}

Edit == /\ \E p \in Paths, h \in Contents :
             /\ disk' = [disk EXCEPT ![p] = h]
             /\ dirty' = dirty \cup {p}
        /\ UNCHANGED <<memo, stage, full>>

Clear == /\ stage # "running"
         /\ memo' = [p \in Paths |-> NoHash]
         /\ stage' = "idle"
         /\ UNCHANGED <<disk, full, dirty>>

Begin == /\ stage # "running"
         /\ stage' = "running"
         /\ full' \in BOOLEAN
         /\ dirty' = {}
         /\ UNCHANGED <<disk, memo>>

(* A current entry is never thrown away, except to be learnt anew.         *)
Forget == /\ stage = "running"
          /\ \E p \in Paths :
               /\ full \/ p \in dirty \/ memo[p] # disk[p]
               /\ memo' = [memo EXCEPT ![p] = NoHash]
          /\ UNCHANGED <<disk, stage, full, dirty>>

(* The content learnt is the one on disk, or one it had during the run;    *)
(* the entry it replaces was forgotten first.                              *)
Learn == /\ stage = "running"
         /\ \E p \in Paths, h \in Hashes :
              /\ memo[p] = NoHash
              /\ p \in dirty \/ h = disk[p]
              /\ memo' = [memo EXCEPT ![p] = h]
         /\ UNCHANGED <<disk, stage, full, dirty>>

UpToDate == \A p \in Paths \ dirty :
              memo[p] = disk[p] \/ (full /\ disk[p] = NoHash)

Finish == /\ stage = "running"
          /\ UpToDate
          /\ stage' = "done"
          /\ UNCHANGED <<disk, memo, full, dirty>>

(* The process dies: what was forgotten stays forgotten.                   *)
Abort == /\ stage = "running"
         /\ stage' = "idle"
         /\ full' = FALSE
         /\ UNCHANGED <<disk, memo, dirty>>

Next == Edit \/ Clear \/ Begin \/ Forget \/ Learn \/ Finish \/ Abort

Spec == Init /\ [][Next]_memoVars

=============================================================================
