----------------------------- MODULE GraphBuild -----------------------------
(***************************************************************************)
(* GraphBuilder, the deduplicating buffer every detector result goes       *)
(* through, with the two pipelines that feed it: the worker pool of        *)
(* `codeiq index`, which adds what the detectors emit and then stores the  *)
(* same Go objects in the cache, and `codeiq enrich`, which adds the       *)
(* entries of the cache one after the other.                               *)
(*                                                                         *)
(* Nodes and edges are treated alike: an emission has a key (the node ID,  *)
(* or the triple source, target, kind of an edge), a confidence and        *)
(* fields (the scalars merging fills in, and the property keys).  A field  *)
(* of which only the presence matters stands for the annotations.          *)
(*                                                                         *)
(* An emission is a pointer: the builder, the entry processFile collects   *)
(* and the json.Marshal of Put all see the one object, and merging writes  *)
(* into it.  The SQLite side of Put is in IndexRun; here a Put marshals    *)
(* the objects of its file one by one and then commits.                    *)
(***************************************************************************)
EXTENDS SequencesExt, Integers

CONSTANTS
  Files,       \* the files, as their rank in path order
  Keys,        \* node IDs and edge keys
  Ends,        \* Ends[k]: the nodes edge k joins; {} when k is a node
  Fields, Values,
  Absent,      \* the field is empty or the property missing
  Emitted,     \* Emitted[f]: per detector, the emissions for file f
  Workers,
  NoObject, NoFile,
  MaxIndexes, MaxDeletes   \* bounds of the environment

Data == [Fields -> Values \cup {Absent}]

Emission == [key : Keys, confidence : 1 .. 3, data : Data]

ASSUME BuildAssumption ==
  /\ Files \subseteq Nat
  /\ Ends \in [Keys -> SUBSET Keys]
  /\ \A f \in Files : Emitted[f] \in Seq(Seq(Emission)) /\ Len(Emitted[f]) > 0

(* The emissions of one detector for a file, and of all of them.           *)
Batch(f, b) == [i \in DOMAIN Emitted[f][b] |-> <<f, b, i>>]
EntryOf(f) == FlattenSeq([b \in DOMAIN Emitted[f] |-> Batch(f, b)])

ObjectsOf(f) == ToSet(EntryOf(f))
Objects == UNION {ObjectsOf(f) : f \in Files}

ASSUME ObjectAssumption == NoObject \notin Objects

KeyOf(o) == Emitted[o[1]][o[2]][o[3]].key
Confidence(o) == Emitted[o[1]][o[2]][o[3]].confidence
OwnData(o) == Emitted[o[1]][o[2]][o[3]].data

VARIABLES
  present,     \* the files on disk
  cached,      \* the files with a cache entry
  stored,      \* the data of their objects in the cache
  phase,       \* "rest", "index", "enrich"
  queue,       \* files still to be taken
  builder,     \* the GraphBuilder
  added,       \* history: the objects Add has seen
  stats,       \* the counters of the index just completed: none or one
  pc, job, next,   \* per worker: step, file, its next batch or object
  writing,     \* per worker: the object json.Marshal is at
  entry,       \* per worker: the data marshalled so far
  used

pool == <<pc, job, next, writing, entry>>
vars == <<present, cached, stored, phase, queue, builder, added, stats, pool,
          used>>

-----------------------------------------------------------------------------
(* GraphBuilder.                                                           *)

NewBuilder(data) ==
  [held |-> [k \in Keys |-> NoObject], data |-> data, deduped |-> 0]

(* Mutants of Filled: the donor's fields replace the map, are ignored, win.*)
FilledAnew(survivor, donor) ==
  [x \in {y \in Fields : survivor[y] = Absent} |-> donor[x]]
FilledNot(survivor, donor) == survivor
FilledByDonor(survivor, donor) ==
  [x \in Fields |-> IF donor[x] # Absent THEN donor[x] ELSE survivor[x]]

(* The donor fills in what the survivor lacks.                             *)
Filled(survivor, donor) ==
  [x \in Fields |-> IF survivor[x] # Absent THEN survivor[x] ELSE donor[x]]

(* Mutant of AddOne: the object that came first survives.                  *)
AddOneFirstSurvives(b, o) ==
  LET k == KeyOf(o)
      existing == b.held[k]
  IN IF existing = NoObject THEN [b EXCEPT !.held[k] = o]
     ELSE [b EXCEPT !.data[existing] = Filled(@, b.data[o]), !.deduped = @ + 1]

(* One iteration of the loops of Add; mergeNode and mergeEdge.             *)
AddOne(b, o) ==
  LET k == KeyOf(o)
      existing == b.held[k]
      Merge(survivor, donor) ==
        [held |-> [b.held EXCEPT ![k] = survivor],
         data |-> [b.data EXCEPT ![survivor] = Filled(@, b.data[donor])],
         deduped |-> b.deduped + 1]
  IN IF existing = NoObject THEN [b EXCEPT !.held[k] = o]
     ELSE IF Confidence(o) > Confidence(existing) THEN Merge(o, existing)
     ELSE Merge(existing, o)

(* Add holds the mutex from its first to its last emission.                *)
Add(b, objects) == FoldLeft(AddOne, b, objects)

(* Mutant of Kept: an edge is dropped only if both ends are missing.       *)
KeptWithOneEnd(b) ==
  LET held == {k \in Keys : b.held[k] # NoObject}
  IN {k \in held : Ends[k] = {} \/ Ends[k] \cap held # {}}

(* Snapshot drops the edges one of whose ends is missing.                  *)
Held(b) == {k \in Keys : b.held[k] # NoObject}
Kept(b) == {k \in Held(b) : Ends[k] \subseteq Held(b)}

StatsOf(b) == [nodes |-> Cardinality({k \in Kept(b) : Ends[k] = {}}),
               edges |-> Cardinality({k \in Kept(b) : Ends[k] # {}}),
               deduped |-> b.deduped,
               dropped |-> Cardinality(Held(b) \ Kept(b))]

-----------------------------------------------------------------------------
Own == [o \in Objects |-> OwnData(o)]

Init ==
  /\ present = Files /\ cached = {} /\ stored = Own
  /\ phase = "rest" /\ queue = {}
  /\ builder = NewBuilder(Own) /\ added = {} /\ stats = {}
  /\ pc = [w \in Workers |-> "idle"]
  /\ job = [w \in Workers |-> NoFile]
  /\ next = [w \in Workers |-> 0]
  /\ writing = [w \in Workers |-> NoObject]
  /\ entry = [w \in Workers |-> <<>>]
  /\ used = [indexes |-> 0, deletes |-> 0]

(* A file disappears from disk, between runs.                              *)
Delete(f) ==
  /\ phase = "rest"
  /\ f \in present
  /\ used.deletes < MaxDeletes
  /\ used' = [used EXCEPT !.deletes = @ + 1]
  /\ present' = present \ {f}
  /\ stats' = {}
  /\ UNCHANGED <<cached, stored, phase, queue, builder, added, pool>>

(* Run: Diff has the entries of deleted files purged; the files are handed *)
(* out in path order.                                                      *)
StartIndex ==
  /\ phase = "rest"
  /\ used.indexes < MaxIndexes
  /\ used' = [used EXCEPT !.indexes = @ + 1]
  /\ phase' = "index"
  /\ queue' = present
  /\ cached' = cached \cap present
  /\ builder' = NewBuilder(Own) /\ added' = {} /\ stats' = {}
  /\ UNCHANGED <<present, stored, pool>>

FirstOf(S) == {f \in S : \A g \in S : f <= g}

TakeFile(w) ==
  /\ phase = "index"
  /\ pc[w] = "idle"
  /\ \E f \in FirstOf(queue) :
       /\ queue' = queue \ {f}
       /\ job' = [job EXCEPT ![w] = f]
       /\ pc' = [pc EXCEPT ![w] = IF f \in cached THEN "hit" ELSE "detect"]
  /\ next' = [next EXCEPT ![w] = 1]
  /\ UNCHANGED <<present, cached, stored, phase, builder, added, stats,
                 writing, entry, used>>

(* processFile is through with its file.                                   *)
Return(w) ==
  /\ pc' = [pc EXCEPT ![w] = "idle"]
  /\ job' = [job EXCEPT ![w] = NoFile]
  /\ next' = [next EXCEPT ![w] = 0]

(* The objects of file f as the cache has them.                            *)
Decoded(f, data) ==
  [o \in Objects |-> IF o \in ObjectsOf(f) THEN stored[o] ELSE data[o]]

(* A cache hit: the decoded entry is added as one result.                  *)
Hit(w) ==
  /\ pc[w] = "hit"
  /\ builder' = Add([builder EXCEPT !.data = Decoded(job[w], @)],
                    EntryOf(job[w]))
  /\ added' = added \cup ObjectsOf(job[w])
  /\ Return(w)
  /\ UNCHANGED <<present, cached, stored, phase, queue, stats, writing, entry,
                 used>>

(* One detector runs and its result is added.                              *)
Detect(w) ==
  /\ pc[w] = "detect"
  /\ LET batch == Batch(job[w], next[w])
         last == next[w] = Len(Emitted[job[w]])
     IN /\ builder' = Add(builder, batch)
        /\ added' = added \cup ToSet(batch)
        /\ next' = [next EXCEPT ![w] = IF last THEN 1 ELSE @ + 1]
        /\ pc' = [pc EXCEPT ![w] = IF last THEN "marshal" ELSE "detect"]
  /\ UNCHANGED <<present, cached, stored, phase, queue, stats, job, writing,
                 entry, used>>

(* Put: json.Marshal of an object, which other workers may be merging into *)
(* meanwhile.  What it then reads is the data before or after the merge; of*)
(* the other outcome, Go's fatal "concurrent map iteration and map write", *)
(* nothing is left to model.                                               *)
BeginMarshal(w) ==
  /\ pc[w] = "marshal"
  /\ writing[w] = NoObject
  /\ next[w] <= Len(EntryOf(job[w]))
  /\ writing' = [writing EXCEPT ![w] = EntryOf(job[w])[next[w]]]
  /\ UNCHANGED <<present, cached, stored, phase, queue, builder, added, stats,
                 pc, job, next, entry, used>>

EndMarshal(w) ==
  /\ writing[w] # NoObject
  /\ entry' = [entry EXCEPT ![w] = Append(@, builder.data[writing[w]])]
  /\ writing' = [writing EXCEPT ![w] = NoObject]
  /\ next' = [next EXCEPT ![w] = @ + 1]
  /\ UNCHANGED <<present, cached, stored, phase, queue, builder, added, stats,
                 pc, job, used>>

(* Put: the transaction commits.                                           *)
PutEntry(w) ==
  /\ pc[w] = "marshal"
  /\ writing[w] = NoObject
  /\ next[w] > Len(EntryOf(job[w]))
  /\ cached' = cached \cup {job[w]}
  /\ stored' = [o \in Objects |->
                  IF o \notin ObjectsOf(job[w]) THEN stored[o]
                  ELSE entry[w][CHOOSE i \in DOMAIN entry[w] :
                                  EntryOf(job[w])[i] = o]]
  /\ entry' = [entry EXCEPT ![w] = <<>>]
  /\ Return(w)
  /\ UNCHANGED <<present, phase, queue, builder, added, stats, writing, used>>

(* wg.Wait, Snapshot and the counters Run returns.                         *)
FinishIndex ==
  /\ phase = "index" /\ queue = {}
  /\ \A w \in Workers : pc[w] = "idle"
  /\ phase' = "rest"
  /\ stats' = {StatsOf(builder)}
  /\ UNCHANGED <<present, cached, stored, queue, builder, added, pool, used>>

(* Enrich: a fresh builder, and the entries IterateAll yields.             *)
StartEnrich ==
  /\ phase = "rest"
  /\ cached # {}
  /\ phase' = "enrich"
  /\ queue' = cached
  /\ builder' = NewBuilder(stored) /\ added' = {} /\ stats' = {}
  /\ UNCHANGED <<present, cached, stored, pool, used>>

AddEntry ==
  /\ phase = "enrich"
  /\ \E f \in FirstOf(queue) :
       /\ queue' = queue \ {f}
       /\ builder' = Add(builder, EntryOf(f))
       /\ added' = added \cup ObjectsOf(f)
  /\ UNCHANGED <<present, cached, stored, phase, stats, pool, used>>

FinishEnrich ==
  /\ phase = "enrich" /\ queue = {}
  /\ phase' = "rest"
  /\ UNCHANGED <<present, cached, stored, queue, builder, added, stats, pool,
                 used>>

Worker(w) == \/ TakeFile(w) \/ Hit(w) \/ Detect(w)
             \/ BeginMarshal(w) \/ EndMarshal(w) \/ PutEntry(w)

Next == \/ \E f \in Files : Delete(f)
        \/ StartIndex \/ FinishIndex
        \/ StartEnrich \/ AddEntry \/ FinishEnrich
        \/ \E w \in Workers : Worker(w)

Spec == Init /\ [][Next]_vars

-----------------------------------------------------------------------------
(* Type invariant.                                                         *)
TypeOK ==
  /\ present \subseteq Files /\ cached \subseteq Files
  /\ stored \in [Objects -> Data]
  /\ phase \in {"rest", "index", "enrich"} /\ queue \subseteq Files
  /\ builder.held \in [Keys -> Objects \cup {NoObject}]
  /\ builder.data \in [Objects -> Data]
  /\ builder.deduped \in Nat
  /\ added \subseteq Objects
  /\ pc \in [Workers -> {"idle", "hit", "detect", "marshal"}]
  /\ job \in [Workers -> Files \cup {NoFile}]
  /\ next \in [Workers -> Nat]
  /\ writing \in [Workers -> Objects \cup {NoObject}]
  /\ entry \in [Workers -> Seq(Data)]

(* Whichever order the pool adds results in, each key that was emitted has *)
(* one object, and no emission of that key is more confident than it.      *)
SurvivorIsStrongest ==
  \A k \in Keys :
    LET emissions == {o \in added : KeyOf(o) = k}
    IN IF emissions = {} THEN builder.held[k] = NoObject
       ELSE /\ builder.held[k] \in emissions
            /\ \A o \in emissions :
                 Confidence(o) <= Confidence(builder.held[k])

(* No merge loses a field: the survivor has every field that any emission  *)
(* of its key has.                                                         *)
NoFieldLost ==
  \A o \in added : \A x \in Fields :
    OwnData(o)[x] # Absent => builder.data[builder.held[KeyOf(o)]][x] # Absent

(* "do not clobber": no merge, nor a trip through the cache, changes a     *)
(* field that the detector itself filled in.                               *)
FieldsNeverClobbered ==
  \A o \in Objects : \A x \in Fields :
    OwnData(o)[x] # Absent => builder.data[o][x] = OwnData(o)[x]

(* The counters of a completed index depend on the files alone: not on the *)
(* order of the workers, nor on which files were cache hits.  An edge is   *)
(* kept exactly if both its ends were emitted, by whichever file.          *)
StatsExact ==
  \A s \in stats :
    LET all == UNION {ObjectsOf(f) : f \in present}
        keys == {KeyOf(o) : o \in all}
        kept == {k \in keys : Ends[k] \subseteq keys}
    IN s = [nodes |-> Cardinality({k \in kept : Ends[k] = {}}),
            edges |-> Cardinality({k \in kept : Ends[k] # {}}),
            deduped |-> Cardinality(all) - Cardinality(keys),
            dropped |-> Cardinality(keys \ kept)]

(* The incremental test: after an incremental index "enrich on it must     *)
(* produce a graph identical to a clean full rebuild".  So nothing in an   *)
(* enriched graph comes from a file that is no longer there.               *)
NothingFromDeletedFiles ==
  phase = "enrich" /\ queue = {} /\ cached = present =>
    \A k \in Held(builder) : \A x \in Fields :
      builder.data[builder.held[k]][x] \in
        {Absent} \cup {OwnData(o)[x] : o \in {q \in added : KeyOf(q) = k}}

(* "Concurrent-safe": no Add writes into an object that json.Marshal is    *)
(* reading.                                                                *)
NoWriteDuringMarshal ==
  [][\A w \in Workers : writing[w] # NoObject =>
       builder'.data[writing[w]] = builder.data[writing[w]]]_vars
=============================================================================
