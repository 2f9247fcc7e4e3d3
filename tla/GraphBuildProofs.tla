-------------------------- MODULE GraphBuildProofs --------------------------
(***************************************************************************)
(* Theorems about the builder, for every set of files, whatever detectors  *)
(* emit for them, and every pool of workers. Add folds AddOne over a       *)
(* result; what it does to a builder is therefore an induction over the    *)
(* result, in the lemma AddKeeps. The invariant of the pipelines says      *)
(* which objects have been added when.                                     *)
(***************************************************************************)
EXTENDS GraphBuild, InductionLemmas, FiniteSetTheorems

(* The values a GraphBuilder takes.                                        *)
Builder == [held : [Keys -> Objects \cup {NoObject}], data : [Objects -> Data],
            deduped : Nat]

(* The keys of a set of objects.                                           *)
KeysOf(A) == {KeyOf(o) : o \in A}

(* The data of object o still has every field its detector filled in.      *)
Extends(d, o) == \A x \in Fields : OwnData(o)[x] # Absent => d[x] = OwnData(o)[x]

(* Of each key seen in A the builder holds the strongest emission.         *)
Strongest(b, A) ==
  \A k \in Keys :
    LET emissions == {o \in A : KeyOf(o) = k}
    IN IF emissions = {} THEN b.held[k] = NoObject
       ELSE /\ b.held[k] \in emissions
            /\ \A o \in emissions : Confidence(o) <= Confidence(b.held[k])

(* What is held for a key has every field that an emission of it has.      *)
NothingLost(b, A) ==
  \A o \in A : \A x \in Fields :
    OwnData(o)[x] # Absent => b.data[b.held[KeyOf(o)]][x] # Absent

(* The counter says how many emissions were merged away.                   *)
Counted(b, A) ==
  IsFiniteSet(A) /\ b.deduped = Cardinality(A) - Cardinality(KeysOf(A))

(* What is true of a builder to which the objects in A have been added.    *)
Holds(b, A) ==
  /\ b \in Builder /\ A \subseteq Objects
  /\ \A o \in Objects : Extends(b.data[o], o)
  /\ Strongest(b, A) /\ NothingLost(b, A) /\ Counted(b, A)

(* The objects the first detectors of file f have emitted, before the      *)
(* n-th.                                                                   *)
Reported(f, n) == {o \in ObjectsOf(f) : o[2] < n}

(* Neither does a trip through the cache change what a detector filled in. *)
StoredInv == \A o \in Objects : Extends(stored[o], o)

(* What a worker's step says of the objects of its file: a hit has added   *)
(* none of them, the n-th detector all before it, and Put marshals them in *)
(* their order once all are added.                                         *)
WorkerInv(w) ==
  /\ pc[w] # "idle" => phase = "index" /\ job[w] \in present \ queue
  /\ pc[w] = "hit" => ObjectsOf(job[w]) \cap added = {}
  /\ pc[w] = "detect" => /\ next[w] \in DOMAIN Emitted[job[w]]
                         /\ ObjectsOf(job[w]) \cap added = Reported(job[w], next[w])
  /\ pc[w] = "marshal" =>
       /\ ObjectsOf(job[w]) \subseteq added
       /\ next[w] = Len(entry[w]) + 1 /\ Len(entry[w]) <= Len(EntryOf(job[w]))
       /\ \A i \in DOMAIN entry[w] : Extends(entry[w][i], EntryOf(job[w])[i])
       /\ writing[w] # NoObject => /\ next[w] <= Len(EntryOf(job[w]))
                                   /\ writing[w] = EntryOf(job[w])[next[w]]
  /\ pc[w] # "marshal" => writing[w] = NoObject /\ entry[w] = <<>>

(* The workers that have a file.                                           *)
Busy == {w \in Workers : pc[w] # "idle"}

(* A file is queued, with one worker, or done. So no object is added       *)
(* twice, and when the run is over all are.                                *)
ProgressInv ==
  /\ \A v, w \in Busy : v # w => job[v] # job[w]
  /\ phase = "index" => /\ queue \subseteq present
                        /\ added \subseteq UNION {ObjectsOf(f) : f \in present}
                        /\ \A f \in present : \/ f \in queue
                                              \/ \E w \in Busy : job[w] = f
                                              \/ ObjectsOf(f) \subseteq added
  /\ phase = "rest" => queue = {}
  /\ \A f \in queue : ObjectsOf(f) \cap added = {}

(* The invariant that every step keeps.                                    *)
IInv == /\ TypeOK
        /\ Holds(builder, added) /\ StoredInv
        /\ \A w \in Workers : WorkerInv(w)
        /\ ProgressInv /\ StatsExact
-----------------------------------------------------------------------------
(* A detector's result has no object twice.                                *)
LEMMA BatchFacts ==
  ASSUME NEW f \in Files, NEW b \in DOMAIN Emitted[f]
  PROVE  /\ Batch(f, b) \in Seq(ToSet(Batch(f, b)))
         /\ ToSet(Batch(f, b)) = {<<f, b, i>> : i \in DOMAIN Emitted[f][b]}
         /\ IsInjective(Batch(f, b))
<1>1. Emitted[f] \in Seq(Seq(Emission))
  BY BuildAssumption
<1>2. Emitted[f][b] \in Seq(Emission)
  BY <1>1
<1>3. DOMAIN Emitted[f][b] = 1 .. Len(Emitted[f][b]) /\ Len(Emitted[f][b]) \in Nat
  BY <1>2
<1>4. DOMAIN Batch(f, b) = DOMAIN Emitted[f][b]
      /\ \A i \in DOMAIN Emitted[f][b] : Batch(f, b)[i] = <<f, b, i>>
  BY DEF Batch
<1>5. ToSet(Batch(f, b)) = {<<f, b, i>> : i \in DOMAIN Emitted[f][b]}
  BY <1>4 DEF ToSet
<1>6. Batch(f, b) \in Seq(ToSet(Batch(f, b)))
  <2>1. Batch(f, b) = [i \in 1 .. Len(Emitted[f][b]) |-> <<f, b, i>>]
    BY <1>3 DEF Batch
  <2> QED
    BY <1>3, <1>5, <2>1
<1>7. IsInjective(Batch(f, b))
  BY <1>4 DEF IsInjective
<1> QED
  BY <1>5, <1>6, <1>7

(* Nor do the results of all detectors, one after the other.               *)
LEMMA EntryFacts ==
  ASSUME NEW f \in Files
  PROVE  /\ EntryOf(f) \in Seq(ObjectsOf(f))
         /\ IsInjective(EntryOf(f))
         /\ ObjectsOf(f) = UNION {ToSet(Batch(f, b)) : b \in DOMAIN Emitted[f]}
<1> DEFINE S == UNION {ToSet(Batch(f, b)) : b \in DOMAIN Emitted[f]}
           batches == [b \in DOMAIN Emitted[f] |-> Batch(f, b)]
<1>1. Emitted[f] \in Seq(Seq(Emission))
  BY BuildAssumption
<1>2. DOMAIN Emitted[f] = 1 .. Len(Emitted[f]) /\ Len(Emitted[f]) \in Nat
  BY <1>1
<1>3. \A b \in DOMAIN Emitted[f] : Batch(f, b) \in Seq(S)
  <2> SUFFICES ASSUME NEW b \in DOMAIN Emitted[f] PROVE Batch(f, b) \in Seq(S)
    OBVIOUS
  <2>1. ToSet(Batch(f, b)) \subseteq S
    OBVIOUS
  <2>2. Batch(f, b) \in Seq(ToSet(Batch(f, b)))
    BY BatchFacts
  <2> HIDE DEF S
  <2> QED
    BY <2>1, <2>2
<1>4. batches \in Seq(Seq(S))
  <2> HIDE DEF S
  <2> QED
    BY <1>2, <1>3
<1>5. DOMAIN batches = DOMAIN Emitted[f]
      /\ \A b \in DOMAIN Emitted[f] : batches[b] = Batch(f, b)
  OBVIOUS
<1>6. EntryOf(f) = FlattenSeq(batches)
  BY DEF EntryOf
<1>7. EntryOf(f) \in Seq(S) /\ ToSet(EntryOf(f)) = S
  <2>1. FlattenSeq(batches) \in Seq(S)
    BY <1>4, FlattenElements
  <2>2. ToSet(FlattenSeq(batches)) = UNION {ToSet(batches[b]) : b \in DOMAIN batches}
    BY <1>4, FlattenElements
  <2> QED
    BY <1>5, <1>6, <2>1, <2>2
<1>8. IsInjective(EntryOf(f))
  <2>1. \A b \in DOMAIN batches : IsInjective(batches[b])
    BY <1>5, BatchFacts
  <2>2. \A b, c \in DOMAIN batches :
          b # c => ToSet(batches[b]) \cap ToSet(batches[c]) = {}
    <3> SUFFICES ASSUME NEW b \in DOMAIN Emitted[f], NEW c \in DOMAIN Emitted[f],
                        b # c
                 PROVE  ToSet(Batch(f, b)) \cap ToSet(Batch(f, c)) = {}
      BY <1>5
    <3>1. ToSet(Batch(f, b)) = {<<f, b, i>> : i \in DOMAIN Emitted[f][b]}
      BY BatchFacts
    <3>2. ToSet(Batch(f, c)) = {<<f, c, i>> : i \in DOMAIN Emitted[f][c]}
      BY BatchFacts
    <3> QED
      BY <3>1, <3>2
  <2> HIDE DEF batches
  <2> QED
    BY <1>4, <1>6, <2>1, <2>2, FlattenInjective
<1> QED
  BY <1>7, <1>8 DEF ObjectsOf

(* Objects are distinct emissions, each of one file and detector.          *)
LEMMA ObjectFacts ==
  /\ \A f \in Files : ObjectsOf(f) \subseteq Objects
  /\ \A f \in Files : \A o \in ObjectsOf(f) :
       /\ o[1] = f /\ o[2] \in DOMAIN Emitted[f]
       /\ o \in ToSet(Batch(f, o[2]))
  /\ \A o \in Objects : /\ KeyOf(o) \in Keys /\ Confidence(o) \in 1 .. 3
                        /\ OwnData(o) \in Data
<1>1. \A f \in Files : ObjectsOf(f) \subseteq Objects
  BY DEF Objects
<1>2. ASSUME NEW f \in Files, NEW o \in ObjectsOf(f)
      PROVE  /\ o[1] = f /\ o[2] \in DOMAIN Emitted[f]
             /\ o \in ToSet(Batch(f, o[2]))
             /\ o[3] \in DOMAIN Emitted[f][o[2]]
  <2>1. PICK b \in DOMAIN Emitted[f] : o \in ToSet(Batch(f, b))
    BY EntryFacts
  <2>2. PICK i \in DOMAIN Emitted[f][b] : o = <<f, b, i>>
    BY <2>1, BatchFacts
  <2> QED
    BY <2>1, <2>2
<1>3. ASSUME NEW o \in Objects
      PROVE  KeyOf(o) \in Keys /\ Confidence(o) \in 1 .. 3 /\ OwnData(o) \in Data
  <2>1. PICK f \in Files : o \in ObjectsOf(f)
    BY DEF Objects
  <2>2. o[1] = f /\ o[2] \in DOMAIN Emitted[f] /\ o[3] \in DOMAIN Emitted[f][o[2]]
    BY <1>2, <2>1
  <2>3. Emitted[f] \in Seq(Seq(Emission))
    BY BuildAssumption
  <2>4. Emitted[f][o[2]] \in Seq(Emission)
    BY <2>2, <2>3
  <2>5. Emitted[o[1]][o[2]][o[3]] \in Emission
    BY <2>2, <2>4
  <2> QED
    BY <2>5 DEF Emission, KeyOf, Confidence, OwnData
<1> QED
  BY <1>1, <1>2, <1>3

(* An iteration of Add either holds a new key or merges two objects, the   *)
(* less confident one into the other.                                      *)
LEMMA AddOneCases ==
  ASSUME NEW b \in Builder, NEW o \in Objects
  PROVE  LET k == KeyOf(o)
             existing == b.held[k]
             c == AddOne(b, o)
         IN /\ existing = NoObject => c = [held |-> [b.held EXCEPT ![k] = o],
                                           data |-> b.data, deduped |-> b.deduped]
            /\ existing # NoObject =>
                 \E survivor, donor \in {o, existing} :
                   /\ {survivor, donor} = {o, existing}
                   /\ Confidence(donor) <= Confidence(survivor)
                   /\ c = [held |-> [b.held EXCEPT ![k] = survivor],
                           data |-> [b.data EXCEPT ![survivor] =
                                       Filled(b.data[survivor], b.data[donor])],
                           deduped |-> b.deduped + 1]
<1> DEFINE k == KeyOf(o)
           existing == b.held[k]
<1>1. b = [held |-> b.held, data |-> b.data, deduped |-> b.deduped]
      /\ k \in Keys /\ existing \in Objects \cup {NoObject}
      /\ b.held \in [Keys -> Objects \cup {NoObject}] /\ b.data \in [Objects -> Data]
  BY ObjectFacts DEF Builder
<1>3. CASE existing = NoObject
  BY <1>1, <1>3 DEF AddOne
<1>4. CASE existing # NoObject /\ Confidence(o) > Confidence(existing)
  <2>1. AddOne(b, o) = [held |-> [b.held EXCEPT ![k] = o],
                        data |-> [b.data EXCEPT ![o] =
                                    Filled(b.data[o], b.data[existing])],
                        deduped |-> b.deduped + 1]
    BY <1>1, <1>4 DEF AddOne
  <2>2. Confidence(existing) <= Confidence(o)
    BY <1>1, <1>4, ObjectFacts
  <2> QED
    BY <1>4, <2>1, <2>2
<1>5. CASE existing # NoObject /\ ~ (Confidence(o) > Confidence(existing))
  <2>1. AddOne(b, o) = [held |-> [b.held EXCEPT ![k] = existing],
                        data |-> [b.data EXCEPT ![existing] =
                                    Filled(b.data[existing], b.data[o])],
                        deduped |-> b.deduped + 1]
    BY <1>1, <1>5 DEF AddOne
  <2>2. Confidence(o) <= Confidence(existing)
    BY <1>1, <1>5, ObjectFacts
  <2> QED
    BY <1>5, <2>1, <2>2
<1> QED
  BY <1>3, <1>4, <1>5

(* Filling in changes no field that is there and loses none.               *)
LEMMA FilledFacts ==
  ASSUME NEW survivor \in Data, NEW donor \in Data
  PROVE  /\ Filled(survivor, donor) \in Data
         /\ \A x \in Fields :
              /\ survivor[x] # Absent => Filled(survivor, donor)[x] = survivor[x]
              /\ survivor[x] # Absent \/ donor[x] # Absent =>
                   Filled(survivor, donor)[x] # Absent
BY DEF Filled, Data

(* An object more is a key more or a merge more.                           *)
LEMMA CountOneMore ==
  ASSUME NEW A, IsFiniteSet(A), A \subseteq Objects, NEW o \in Objects \ A
  PROVE  /\ IsFiniteSet(A \cup {o}) /\ IsFiniteSet(KeysOf(A))
         /\ Cardinality(A) \in Nat /\ Cardinality(KeysOf(A)) \in Nat
         /\ Cardinality(A \cup {o}) = Cardinality(A) + 1
         /\ Cardinality(KeysOf(A \cup {o})) =
              IF KeyOf(o) \in KeysOf(A) THEN Cardinality(KeysOf(A))
              ELSE Cardinality(KeysOf(A)) + 1
<1>1. IsFiniteSet(KeysOf(A))
  <2> DEFINE f == [q \in A |-> KeyOf(q)]
  <2>1. f \in Surjection(A, KeysOf(A))
    BY DEF Surjection, KeysOf
  <2> QED
    BY <2>1, FS_Surjection
<1>2. KeysOf(A \cup {o}) = KeysOf(A) \cup {KeyOf(o)}
  BY DEF KeysOf
<1>3. Cardinality(A \cup {o}) = Cardinality(A) + 1 /\ IsFiniteSet(A \cup {o})
  BY FS_AddElement
<1>4. CASE KeyOf(o) \in KeysOf(A)
  <2>1. KeysOf(A \cup {o}) = KeysOf(A)
    BY <1>2, <1>4
  <2> QED
    BY <1>1, <1>3, <1>4, <2>1, FS_CardinalityType
<1>5. CASE KeyOf(o) \notin KeysOf(A)
  <2>1. Cardinality(KeysOf(A) \cup {KeyOf(o)}) = Cardinality(KeysOf(A)) + 1
    BY <1>1, <1>5, FS_AddElement
  <2>2. Cardinality(A) \in Nat /\ Cardinality(KeysOf(A)) \in Nat
    BY <1>1, FS_CardinalityType
  <2> QED
    BY <1>1, <1>2, <1>3, <1>5, <2>1, <2>2
<1> QED
  BY <1>4, <1>5

(* One iteration of Add, for an object not seen before.                    *)
LEMMA AddOneKeeps ==
  ASSUME NEW b, NEW A, Holds(b, A), NEW o \in Objects \ A
  PROVE  Holds(AddOne(b, o), A \cup {o})
<1> DEFINE k == KeyOf(o)
           existing == b.held[k]
           c == AddOne(b, o)
           B == A \cup {o}
<1>1. b \in Builder /\ A \subseteq Objects /\ k \in Keys /\ B \subseteq Objects
  BY ObjectFacts DEF Holds
<1>2. /\ b.held \in [Keys -> Objects \cup {NoObject}]
      /\ b.data \in [Objects -> Data] /\ b.deduped \in Nat
  BY <1>1 DEF Builder
<1>3. existing = NoObject \/ existing \in Objects
  BY <1>1, <1>2
<1>4. existing = NoObject <=> k \notin KeysOf(A)
  BY <1>1, ObjectAssumption DEF Holds, Strongest, KeysOf
<1>5. Counted(c, B)
  <2>1. c.deduped = IF existing = NoObject THEN b.deduped ELSE b.deduped + 1
    BY <1>1, AddOneCases
  <2>2. IsFiniteSet(A) /\ b.deduped = Cardinality(A) - Cardinality(KeysOf(A))
    BY DEF Holds, Counted
  <2> HIDE DEF c, k, existing
  <2> QED
    BY <1>1, <1>4, <2>1, <2>2, CountOneMore DEF Counted, k
<1>6. CASE existing = NoObject
  <2>1. c = [held |-> [b.held EXCEPT ![k] = o], data |-> b.data,
             deduped |-> b.deduped]
    BY <1>1, <1>6, AddOneCases
  <2>2. c.held = [b.held EXCEPT ![k] = o] /\ c.data = b.data
        /\ c.deduped = b.deduped
    BY <2>1
  <2> HIDE DEF c
  <2>3. c \in Builder
    BY <1>1, <1>2, <2>1 DEF Builder
  <2>4. \A q \in Objects : Extends(c.data[q], q)
    BY <2>2 DEF Holds
  <2>5. Strongest(c, B)
    <3> SUFFICES ASSUME NEW l \in Keys
                 PROVE  LET emissions == {q \in B : KeyOf(q) = l}
                        IN IF emissions = {} THEN c.held[l] = NoObject
                           ELSE /\ c.held[l] \in emissions
                                /\ \A q \in emissions :
                                     Confidence(q) <= Confidence(c.held[l])
      BY DEF Strongest
    <3>1. CASE l = k
      <4>1. \A q \in B : KeyOf(q) = k => q = o
        BY <1>4, <1>6 DEF KeysOf
      <4>2. c.held[l] = o
        BY <1>2, <2>2, <3>1
      <4>3. Confidence(o) <= Confidence(o)
        BY ObjectFacts
      <4> QED
        BY <3>1, <4>1, <4>2, <4>3
    <3>2. CASE l # k
      <4>1. {q \in B : KeyOf(q) = l} = {q \in A : KeyOf(q) = l}
        BY <3>2
      <4>2. c.held[l] = b.held[l]
        BY <1>2, <2>2, <3>2
      <4> QED
        BY <4>1, <4>2 DEF Holds, Strongest
    <3> QED
      BY <3>1, <3>2
  <2>6. NothingLost(c, B)
    <3> SUFFICES ASSUME NEW q \in B, NEW x \in Fields, OwnData(q)[x] # Absent
                 PROVE  c.data[c.held[KeyOf(q)]][x] # Absent
      BY DEF NothingLost
    <3>1. CASE q = o
      <4>1. c.held[KeyOf(q)] = o
        BY <1>1, <1>2, <2>2, <3>1
      <4> QED
        BY <2>2, <3>1, <4>1 DEF Holds, Extends
    <3>2. CASE q \in A
      <4>1. KeyOf(q) # k /\ KeyOf(q) \in Keys
        BY <1>1, <1>4, <1>6, <3>2, ObjectFacts DEF KeysOf
      <4>2. c.held[KeyOf(q)] = b.held[KeyOf(q)]
        BY <1>2, <2>2, <4>1
      <4> QED
        BY <2>2, <3>2, <4>2 DEF Holds, NothingLost
    <3> QED
      BY <3>1, <3>2
  <2> QED
    BY <1>1, <1>5, <2>3, <2>4, <2>5, <2>6 DEF Holds, c
<1>7. CASE existing # NoObject
  <2>1. PICK survivor, donor \in {o, existing} :
          /\ {survivor, donor} = {o, existing}
          /\ Confidence(donor) <= Confidence(survivor)
          /\ c = [held |-> [b.held EXCEPT ![k] = survivor],
                  data |-> [b.data EXCEPT ![survivor] =
                              Filled(b.data[survivor], b.data[donor])],
                  deduped |-> b.deduped + 1]
    BY <1>1, <1>7, AddOneCases
  <2> DEFINE filled == Filled(b.data[survivor], b.data[donor])
  <2>2. /\ c.held = [b.held EXCEPT ![k] = survivor]
        /\ c.data = [b.data EXCEPT ![survivor] = filled]
        /\ c.deduped = b.deduped + 1
    BY <2>1
  <2>3. /\ existing \in A /\ KeyOf(existing) = k
        /\ \A q \in A : KeyOf(q) = k => Confidence(q) <= Confidence(existing)
    BY <1>1, <1>4, <1>7, ObjectAssumption DEF Holds, Strongest, KeysOf
  <2>4. /\ survivor \in B /\ donor \in B /\ KeyOf(survivor) = k
        /\ survivor \in Objects /\ donor \in Objects
    BY <1>1, <2>1, <2>3
  <2>5. /\ b.data[survivor] \in Data /\ b.data[donor] \in Data
        /\ filled \in Data
        /\ \A x \in Fields :
             /\ b.data[survivor][x] # Absent => filled[x] = b.data[survivor][x]
             /\ b.data[survivor][x] # Absent \/ b.data[donor][x] # Absent =>
                  filled[x] # Absent
    BY <1>2, <2>4, FilledFacts
  <2> HIDE DEF c, filled
  <2>6. c \in Builder
    <3>1. /\ [b.held EXCEPT ![k] = survivor] \in [Keys -> Objects \cup {NoObject}]
          /\ [b.data EXCEPT ![survivor] = filled] \in [Objects -> Data]
          /\ b.deduped + 1 \in Nat
      <4> HIDE DEF k
      <4> QED
        BY <1>1, <1>2, <2>4, <2>5
    <3>2. c = [held |-> [b.held EXCEPT ![k] = survivor],
               data |-> [b.data EXCEPT ![survivor] = filled],
               deduped |-> b.deduped + 1]
      BY <2>1 DEF filled
    <3> QED
      BY <3>1, <3>2 DEF Builder
  <2>7. \A q \in Objects : Extends(c.data[q], q)
    <3> SUFFICES ASSUME NEW q \in Objects, NEW x \in Fields, OwnData(q)[x] # Absent
                 PROVE  c.data[q][x] = OwnData(q)[x]
      BY DEF Extends
    <3>1. b.data[q][x] = OwnData(q)[x]
      BY DEF Holds, Extends
    <3>2. CASE q = survivor
      BY <1>2, <2>2, <2>5, <3>1, <3>2
    <3>3. CASE q # survivor
      BY <1>2, <2>2, <3>1, <3>3
    <3> QED
      BY <3>2, <3>3
  <2>8. Strongest(c, B)
    <3> SUFFICES ASSUME NEW l \in Keys
                 PROVE  LET emissions == {q \in B : KeyOf(q) = l}
                        IN IF emissions = {} THEN c.held[l] = NoObject
                           ELSE /\ c.held[l] \in emissions
                                /\ \A q \in emissions :
                                     Confidence(q) <= Confidence(c.held[l])
      BY DEF Strongest
    <3>1. CASE l = k
      <4>1. c.held[l] = survivor
        BY <1>2, <2>2, <3>1
      <4>2. ASSUME NEW q \in B, KeyOf(q) = k
            PROVE  Confidence(q) <= Confidence(survivor)
        <5>1. Confidence(existing) <= Confidence(survivor)
              /\ Confidence(o) <= Confidence(survivor)
          BY <2>1, <2>4, ObjectFacts
        <5>2. q = o \/ Confidence(q) <= Confidence(existing)
          BY <2>3, <4>2
        <5>3. Confidence(q) \in 1 .. 3 /\ Confidence(existing) \in 1 .. 3
              /\ Confidence(survivor) \in 1 .. 3
          BY <1>1, <2>3, <2>4, ObjectFacts
        <5> QED
          BY <5>1, <5>2, <5>3
      <4> QED
        BY <2>4, <3>1, <4>1, <4>2
    <3>2. CASE l # k
      <4>1. {q \in B : KeyOf(q) = l} = {q \in A : KeyOf(q) = l}
        BY <3>2
      <4>2. c.held[l] = b.held[l]
        BY <1>2, <2>2, <3>2
      <4> QED
        BY <4>1, <4>2 DEF Holds, Strongest
    <3> QED
      BY <3>1, <3>2
  <2>9. NothingLost(c, B)
    <3> SUFFICES ASSUME NEW q \in B, NEW x \in Fields, OwnData(q)[x] # Absent
                 PROVE  c.data[c.held[KeyOf(q)]][x] # Absent
      BY DEF NothingLost
    <3>1. KeyOf(q) \in Keys
      BY <1>1, ObjectFacts
    <3>2. CASE KeyOf(q) = k
      <4>1. c.held[KeyOf(q)] = survivor /\ c.data[survivor] = filled
        BY <1>1, <1>2, <2>2, <2>4, <3>2
      <4>2. CASE q = o
        <5>1. b.data[o][x] # Absent
          BY <4>2 DEF Holds, Extends
        <5> QED
          BY <2>1, <2>5, <4>1, <5>1
      <4>3. CASE q \in A
        <5>1. b.data[existing][x] # Absent
          BY <3>2, <4>3 DEF Holds, NothingLost
        <5> QED
          BY <2>1, <2>5, <4>1, <5>1
      <4> QED
        BY <4>2, <4>3
    <3>3. CASE KeyOf(q) # k
      <4>1. q \in A
        BY <3>3
      <4>2. b.held[KeyOf(q)] \in {p \in A : KeyOf(p) = KeyOf(q)}
        BY <3>1, <4>1 DEF Holds, Strongest
      <4>3. b.held[KeyOf(q)] # survivor /\ b.held[KeyOf(q)] \in Objects
        BY <1>1, <2>4, <3>3, <4>2
      <4>4. c.held[KeyOf(q)] = b.held[KeyOf(q)]
            /\ c.data[b.held[KeyOf(q)]] = b.data[b.held[KeyOf(q)]]
        BY <1>2, <2>2, <3>1, <3>3, <4>3
      <4> QED
        BY <4>1, <4>4 DEF Holds, NothingLost
    <3> QED
      BY <3>2, <3>3
  <2> QED
    BY <1>1, <1>5, <2>6, <2>7, <2>8, <2>9 DEF Holds, c
<1> QED
  BY <1>6, <1>7

(* The type of what an iteration returns.                                  *)
LEMMA AddOneStaysBuilder ==
  ASSUME NEW b \in Builder, NEW o \in Objects
  PROVE  AddOne(b, o) \in Builder
<1> DEFINE k == KeyOf(o)
<1>1. /\ b.held \in [Keys -> Objects \cup {NoObject}]
      /\ b.data \in [Objects -> Data] /\ b.deduped \in Nat /\ k \in Keys
  BY ObjectFacts DEF Builder
<1>2. CASE b.held[k] = NoObject
  <2>1. AddOne(b, o) = [held |-> [b.held EXCEPT ![k] = o], data |-> b.data,
                        deduped |-> b.deduped]
    BY <1>2, AddOneCases
  <2> QED
    BY <1>1, <2>1 DEF Builder
<1>3. CASE b.held[k] # NoObject
  <2>1. PICK survivor, donor \in {o, b.held[k]} :
          AddOne(b, o) = [held |-> [b.held EXCEPT ![k] = survivor],
                          data |-> [b.data EXCEPT ![survivor] =
                                      Filled(b.data[survivor], b.data[donor])],
                          deduped |-> b.deduped + 1]
    BY <1>3, AddOneCases
  <2>2. survivor \in Objects /\ donor \in Objects
    BY <1>1, <1>3, <2>1
  <2> DEFINE filled == Filled(b.data[survivor], b.data[donor])
  <2>3. filled \in Data
    BY <1>1, <2>2, FilledFacts
  <2> HIDE DEF filled, k
  <2>4. AddOne(b, o) = [held |-> [b.held EXCEPT ![k] = survivor],
                        data |-> [b.data EXCEPT ![survivor] = filled],
                        deduped |-> b.deduped + 1]
    BY <2>1 DEF filled, k
  <2>5. /\ [b.held EXCEPT ![k] = survivor] \in [Keys -> Objects \cup {NoObject}]
        /\ [b.data EXCEPT ![survivor] = filled] \in [Objects -> Data]
        /\ b.deduped + 1 \in Nat
    BY <1>1, <2>2, <2>3
  <2> QED
    BY <2>4, <2>5 DEF Builder
<1> QED
  BY <1>2, <1>3

(* Add of a whole result, by induction over its length.                    *)
LEMMA AddKeeps ==
  ASSUME NEW b, NEW A, Holds(b, A),
         NEW S, S \subseteq Objects, NEW os \in Seq(S),
         IsInjective(os), ToSet(os) \cap A = {}
  PROVE  Holds(Add(b, os), A \cup ToSet(os))
<1> DEFINE n == Len(os)
           step == [p \in Builder \X (1 .. n) |-> AddOne(p[1], os[p[2]])]
           Iterates(g) == g = [s \in SUBSET (1 .. n) |->
                                 IF s = {} THEN b
                                 ELSE AddOne(g[s \ {Max(s)}], os[Max(s)])]
           iter == CHOOSE g : Iterates(g)
           Seen(k) == A \cup {os[i] : i \in 1 .. k}
<1>1. /\ n \in Nat /\ DOMAIN os = 1 .. n /\ b \in Builder
      /\ \A i \in 1 .. n : os[i] \in Objects
  BY DEF Holds
<1>2. step \in [Builder \X (1 .. n) -> Builder]
  <2> SUFFICES ASSUME NEW c \in Builder, NEW i \in 1 .. n
               PROVE  AddOne(c, os[i]) \in Builder
    OBVIOUS
  <2> QED
    BY <1>1, AddOneStaysBuilder
<1>3. Iterates(iter)
  <2>1. PICK g \in [SUBSET (1 .. n) -> Builder] : IsFold(n, b, step, g)
    <3> HIDE DEF n, step
    <3> QED
      BY <1>1, <1>2, FoldDefined
  <2>2. ASSUME NEW s \in SUBSET (1 .. n)
        PROVE  g[s] = IF s = {} THEN b ELSE AddOne(g[s \ {Max(s)}], os[Max(s)])
    <3>1. CASE s = {}
      BY <2>1, <3>1 DEF IsFold
    <3>2. CASE s # {}
      <4>1. Max(s) \in 1 .. n /\ s \ {Max(s)} \in SUBSET (1 .. n)
        BY <1>1, <3>2, MaxOfIndices
      <4>2. <<g[s \ {Max(s)}], Max(s)>> \in Builder \X (1 .. n)
        BY <4>1
      <4>3. step[<<g[s \ {Max(s)}], Max(s)>>] = AddOne(g[s \ {Max(s)}], os[Max(s)])
        BY <4>2
      <4>4. g[s] = step[<<g[s \ {Max(s)}], Max(s)>>]
        BY <2>1, <3>2 DEF IsFold
      <4> QED
        BY <3>2, <4>3, <4>4
    <3> QED
      BY <3>1, <3>2
  <2>3. Iterates(g)
    BY <2>2
  <2> HIDE DEF Iterates
  <2> QED
    BY <2>3
<1>4. Add(b, os) = iter[1 .. n]
  BY <1>1, Zenon DEF Add, FoldLeft, MapThenFoldSet
<1> HIDE DEF iter
<1>5. iter[{}] = b
  BY <1>3
<1>6. ASSUME NEW k \in 0 .. n - 1
      PROVE  iter[1 .. k + 1] = AddOne(iter[1 .. k], os[k + 1])
  <2>1. k + 1 \in 1 .. n /\ 1 .. k + 1 \in SUBSET (1 .. n) /\ 1 .. k + 1 # {}
        /\ (k + 1) - 1 = k
    <3>1. k + 1 \in 1 .. n /\ k + 1 \in 1 .. k + 1 /\ (k + 1) - 1 = k
      BY <1>1
    <3>2. \A i \in 1 .. k + 1 : i \in 1 .. n
      BY <1>1
    <3> QED
      BY <3>1, <3>2
  <2>2. Max(1 .. k + 1) = k + 1 /\ (1 .. k + 1) \ {k + 1} = 1 .. k
    BY <1>1, <2>1, LastOfPrefix
  <2> QED
    BY <1>3, <2>1, <2>2
<1> DEFINE T == {k \in 0 .. n : Holds(iter[1 .. k], Seen(k))}
<1>7. 0 \in T
  <2>1. 1 .. 0 = {} /\ Seen(0) = A /\ 0 \in 0 .. n
    BY <1>1
  <2> QED
    BY <1>5, <2>1
<1>8. ASSUME NEW k \in 0 .. n - 1, k \in T PROVE k + 1 \in T
  <2>1. k + 1 \in 1 .. n /\ k + 1 \in 0 .. n /\ 1 .. k + 1 = (1 .. k) \cup {k + 1}
        /\ \A i \in 1 .. k : i \in 1 .. n /\ i # k + 1
    BY <1>1
  <2>2. os[k + 1] \in Objects \ Seen(k)
    <3>1. os[k + 1] \in ToSet(os)
      BY <1>1, <2>1 DEF ToSet
    <3>2. \A i \in 1 .. k : os[i] # os[k + 1]
      BY <1>1, <2>1 DEF IsInjective
    <3> QED
      BY <1>1, <2>1, <3>1, <3>2
  <2>3. Seen(k + 1) = Seen(k) \cup {os[k + 1]}
    BY <2>1
  <2>4. Holds(iter[1 .. k], Seen(k))
    BY <1>8
  <2> HIDE DEF Seen
  <2>5. Holds(AddOne(iter[1 .. k], os[k + 1]), Seen(k) \cup {os[k + 1]})
    BY <2>2, <2>4, AddOneKeeps
  <2> QED
    BY <1>6, <2>1, <2>3, <2>5
<1>9. n \in T
  <2> HIDE DEF T
  <2>1. 0 .. n \subseteq T
    BY <1>1, <1>7, <1>8, Induction
  <2> QED
    BY <1>1, <2>1
<1>10. Seen(n) = A \cup ToSet(os)
  BY <1>1 DEF ToSet
<1> QED
  BY <1>4, <1>9, <1>10

-----------------------------------------------------------------------------
(* Files share no object.                                                  *)
LEMMA FilesDisjoint ==
  ASSUME NEW f \in Files, NEW g \in Files, f # g
  PROVE  ObjectsOf(f) \cap ObjectsOf(g) = {}
BY ObjectFacts

(* NewGraphBuilder, over any objects that still have their own fields.     *)
LEMMA EmptyBuilderHolds ==
  ASSUME NEW data \in [Objects -> Data], \A o \in Objects : Extends(data[o], o)
  PROVE  Holds(NewBuilder(data), {})
<1>1. NewBuilder(data).held = [k \in Keys |-> NoObject]
      /\ NewBuilder(data).data = data /\ NewBuilder(data).deduped = 0
  BY DEF NewBuilder
<1>2. NewBuilder(data) \in Builder
  BY DEF NewBuilder, Builder
<1>3. Counted(NewBuilder(data), {})
  <2>1. KeysOf({}) = {}
    BY DEF KeysOf
  <2> QED
    BY <1>1, <2>1, FS_EmptySet DEF Counted
<1>4. Strongest(NewBuilder(data), {}) /\ NothingLost(NewBuilder(data), {})
  BY <1>1 DEF Strongest, NothingLost
<1> QED
  BY <1>1, <1>2, <1>3, <1>4 DEF Holds

(* What the detectors emit, as they emit it.                               *)
LEMMA OwnFacts == Own \in [Objects -> Data] /\ \A o \in Objects : Extends(Own[o], o)
BY ObjectFacts DEF Own, Extends

LEMMA InitIInv == Init => IInv
<1> SUFFICES ASSUME Init PROVE IInv
  OBVIOUS
<1>1. Holds(builder, added) /\ StoredInv
  BY OwnFacts, EmptyBuilderHolds DEF Init, StoredInv
<1>2. builder.held \in [Keys -> Objects \cup {NoObject}]
      /\ builder.data \in [Objects -> Data] /\ builder.deduped \in Nat
  BY <1>1 DEF Holds, Builder
<1>3. TypeOK
  <2>1. \A w \in Workers : entry[w] = <<>>
    BY DEF Init
  <2> QED
    BY <1>2, <2>1, OwnFacts DEF Init, TypeOK
<1>4. \A w \in Workers : WorkerInv(w)
  BY DEF Init, WorkerInv
<1>5. ProgressInv /\ StatsExact
  BY DEF Init, ProgressInv, Busy, StatsExact
<1> QED
  BY <1>1, <1>3, <1>4, <1>5 DEF IInv

(* The types of the builder's parts.                                       *)
LEMMA BuilderTyped ==
  ASSUME NEW b, NEW A, Holds(b, A)
  PROVE  /\ b.held \in [Keys -> Objects \cup {NoObject}]
         /\ b.data \in [Objects -> Data] /\ b.deduped \in Nat
         /\ A \subseteq Objects
BY DEF Holds, Builder

LEMMA DeleteKeepsIInv ==
  ASSUME IInv, NEW f \in Files, Delete(f) PROVE IInv'
<1>1. TypeOK'
  BY DEF IInv, TypeOK, Delete, pool
<1>2. Holds(builder, added)' /\ StoredInv'
  BY DEF IInv, Delete, StoredInv
<1>3. ASSUME NEW w \in Workers PROVE WorkerInv(w)'
  BY DEF IInv, WorkerInv, Delete, pool
<1>4. ProgressInv'
  BY DEF IInv, ProgressInv, Busy, Delete, pool
<1>5. StatsExact'
  BY DEF Delete, StatsExact
<1> QED
  BY <1>1, <1>2, <1>3, <1>4, <1>5 DEF IInv

(* Outside an index run no worker has a file.                              *)
LEMMA AllIdle ==
  ASSUME IInv, phase # "index" PROVE \A w \in Workers : pc[w] = "idle"
BY DEF IInv, WorkerInv

LEMMA StartIndexKeepsIInv ==
  ASSUME IInv, StartIndex PROVE IInv'
<1>1. Holds(builder, added)' /\ StoredInv'
  BY OwnFacts, EmptyBuilderHolds DEF IInv, StartIndex, StoredInv
<1>2. TypeOK'
  BY <1>1, BuilderTyped DEF IInv, TypeOK, StartIndex, pool
<1>3. ASSUME NEW w \in Workers PROVE WorkerInv(w)'
  <2>1. pc[w] = "idle"
    BY AllIdle DEF StartIndex
  <2> QED
    BY <2>1 DEF IInv, WorkerInv, StartIndex, pool
<1>4. ProgressInv'
  <2>1. Busy' = {}
    BY AllIdle DEF StartIndex, Busy, pool
  <2> QED
    BY <2>1 DEF ProgressInv, StartIndex, pool
<1>5. StatsExact'
  BY DEF StartIndex, StatsExact
<1> QED
  BY <1>1, <1>2, <1>3, <1>4, <1>5 DEF IInv

LEMMA StartEnrichKeepsIInv ==
  ASSUME IInv, StartEnrich PROVE IInv'
<1>1. Holds(builder, added)' /\ StoredInv'
  BY EmptyBuilderHolds DEF IInv, TypeOK, StartEnrich, StoredInv
<1>2. TypeOK'
  BY <1>1, BuilderTyped DEF IInv, TypeOK, StartEnrich, pool
<1>3. ASSUME NEW w \in Workers PROVE WorkerInv(w)'
  <2>1. pc[w] = "idle"
    BY AllIdle DEF StartEnrich
  <2> QED
    BY <2>1 DEF IInv, WorkerInv, StartEnrich, pool
<1>4. ProgressInv'
  <2>1. Busy' = {}
    BY AllIdle DEF StartEnrich, Busy, pool
  <2> QED
    BY <2>1 DEF ProgressInv, StartEnrich, pool
<1>5. StatsExact'
  BY DEF StartEnrich, StatsExact
<1> QED
  BY <1>1, <1>2, <1>3, <1>4, <1>5 DEF IInv

LEMMA FinishEnrichKeepsIInv ==
  ASSUME IInv, FinishEnrich PROVE IInv'
<1>1. Holds(builder, added)' /\ StoredInv' /\ TypeOK'
  BY DEF IInv, FinishEnrich, StoredInv, TypeOK, pool
<1>2. ASSUME NEW w \in Workers PROVE WorkerInv(w)'
  <2>1. pc[w] = "idle"
    BY AllIdle DEF FinishEnrich
  <2> QED
    BY <2>1 DEF IInv, WorkerInv, FinishEnrich, pool
<1>3. ProgressInv'
  <2>1. Busy' = {}
    BY AllIdle DEF FinishEnrich, Busy, pool
  <2> QED
    BY <2>1 DEF ProgressInv, FinishEnrich, pool
<1>4. StatsExact'
  BY DEF IInv, FinishEnrich, StatsExact
<1> QED
  BY <1>1, <1>2, <1>3, <1>4 DEF IInv

LEMMA AddEntryKeepsIInv ==
  ASSUME IInv, AddEntry PROVE IInv'
<1>1. PICK f \in FirstOf(queue) :
        /\ queue' = queue \ {f}
        /\ builder' = Add(builder, EntryOf(f))
        /\ added' = added \cup ObjectsOf(f)
  BY DEF AddEntry
<1>2. f \in queue /\ queue \subseteq Files /\ phase = "enrich" /\ phase' = phase
      /\ stats' = stats /\ stored' = stored /\ present' = present
      /\ ObjectsOf(f) \cap added = {}
  BY <1>1 DEF FirstOf, IInv, TypeOK, AddEntry, ProgressInv
<1>3. Holds(builder, added)'
  BY <1>1, <1>2, AddKeeps, EntryFacts, ObjectFacts DEF IInv, ObjectsOf
<1>4. StoredInv'
  BY <1>2 DEF IInv, StoredInv
<1>5. TypeOK'
  BY <1>1, <1>2, <1>3, BuilderTyped DEF IInv, TypeOK, AddEntry, pool
<1>6. ASSUME NEW w \in Workers PROVE WorkerInv(w)'
  <2>1. pc[w] = "idle"
    BY <1>2, AllIdle
  <2> QED
    BY <2>1 DEF IInv, WorkerInv, AddEntry, pool
<1>7. ProgressInv'
  <2>1. Busy' = {}
    BY <1>2, AllIdle DEF AddEntry, Busy, pool
  <2>2. \A g \in queue' : g # f /\ g \in queue /\ ObjectsOf(g) \cap added = {}
    BY <1>1 DEF IInv, ProgressInv
  <2>3. \A g \in queue' : ObjectsOf(g) \cap added' = {}
    BY <1>1, <1>2, <2>2, FilesDisjoint
  <2> QED
    BY <1>2, <2>1, <2>3 DEF ProgressInv
<1>8. StatsExact'
  BY <1>2 DEF IInv, StatsExact
<1> QED
  BY <1>3, <1>4, <1>5, <1>6, <1>7, <1>8 DEF IInv

LEMMA FinishIndexKeepsIInv ==
  ASSUME IInv, FinishIndex PROVE IInv'
<1>1. Holds(builder, added)' /\ StoredInv' /\ TypeOK'
  BY DEF IInv, FinishIndex, StoredInv, TypeOK, pool
<1>2. \A w \in Workers : pc[w] = "idle"
  BY DEF FinishIndex
<1>3. ASSUME NEW w \in Workers PROVE WorkerInv(w)'
  BY <1>2 DEF IInv, WorkerInv, FinishIndex, pool
<1>4. ProgressInv'
  <2>1. Busy' = {}
    BY <1>2 DEF FinishIndex, Busy, pool
  <2> QED
    BY <2>1 DEF ProgressInv, FinishIndex, pool
<1>5. StatsExact'
  <2> DEFINE all == UNION {ObjectsOf(f) : f \in present}
             keys == {KeyOf(o) : o \in all}
             kept == {k \in keys : Ends[k] \subseteq keys}
  <2>1. added = all
    <3>1. Busy = {} /\ queue = {} /\ phase = "index"
      BY <1>2 DEF Busy, FinishIndex
    <3> QED
      BY <3>1 DEF IInv, ProgressInv
  <2>2. Held(builder) = keys
    <3>1. \A k \in Keys : builder.held[k] # NoObject <=> k \in KeysOf(added)
      BY BuilderTyped, ObjectAssumption DEF IInv, Holds, Strongest, KeysOf
    <3>2. KeysOf(added) \subseteq Keys
      BY BuilderTyped, ObjectFacts DEF IInv, KeysOf
    <3> QED
      BY <2>1, <3>1, <3>2 DEF Held, KeysOf
  <2>3. Kept(builder) = kept
    BY <2>2 DEF Kept
  <2>4. builder.deduped = Cardinality(all) - Cardinality(keys)
    BY <2>1 DEF IInv, Holds, Counted, KeysOf
  <2>5. stats' = {StatsOf(builder)} /\ present' = present
    BY DEF FinishIndex
  <2> HIDE DEF all, keys, kept
  <2>6. StatsOf(builder) =
          [nodes |-> Cardinality({k \in kept : Ends[k] = {}}),
           edges |-> Cardinality({k \in kept : Ends[k] # {}}),
           deduped |-> Cardinality(all) - Cardinality(keys),
           dropped |-> Cardinality(keys \ kept)]
    BY <2>2, <2>3, <2>4 DEF StatsOf
  <2> QED
    BY <2>5, <2>6 DEF StatsExact, all, keys, kept
<1> QED
  BY <1>1, <1>3, <1>4, <1>5 DEF IInv

LEMMA TakeFileKeepsIInv ==
  ASSUME IInv, NEW w \in Workers, TakeFile(w) PROVE IInv'
<1>1. PICK f \in FirstOf(queue) :
        /\ queue' = queue \ {f}
        /\ job' = [job EXCEPT ![w] = f]
        /\ pc' = [pc EXCEPT ![w] = IF f \in cached THEN "hit" ELSE "detect"]
  BY DEF TakeFile
<1>2. /\ f \in queue /\ f \in Files /\ f \in present /\ phase = "index"
      /\ pc[w] = "idle" /\ ObjectsOf(f) \cap added = {}
      /\ queue \subseteq present
  BY <1>1 DEF FirstOf, IInv, TypeOK, TakeFile, ProgressInv
<1>3. Holds(builder, added)' /\ StoredInv' /\ StatsExact'
  BY DEF IInv, TakeFile, StoredInv, StatsExact
<1>4. TypeOK'
  BY <1>1, <1>2 DEF IInv, TypeOK, TakeFile
<1>5. ASSUME NEW v \in Workers PROVE WorkerInv(v)'
  <2>1. CASE v = w
    <3>1. /\ pc'[v] \in {"hit", "detect"} /\ job'[v] = f /\ next'[v] = 1
          /\ writing'[v] = NoObject /\ entry'[v] = <<>>
      BY <1>1, <1>2, <2>1 DEF IInv, TypeOK, WorkerInv, TakeFile
    <3>2. 1 \in DOMAIN Emitted[f] /\ Reported(f, 1) = {}
      <4>1. Emitted[f] \in Seq(Seq(Emission)) /\ Len(Emitted[f]) > 0
        BY <1>2, BuildAssumption
      <4>2. \A o \in ObjectsOf(f) : o[2] \in 1 .. Len(Emitted[f])
        BY <1>2, <4>1, ObjectFacts
      <4> QED
        BY <4>1, <4>2 DEF Reported
    <3> QED
      BY <1>1, <1>2, <3>1, <3>2 DEF WorkerInv, TakeFile
  <2>2. CASE v # w
    <3>1. /\ pc'[v] = pc[v] /\ job'[v] = job[v] /\ next'[v] = next[v]
          /\ writing' = writing /\ entry' = entry /\ phase' = phase
          /\ present' = present /\ added' = added
      BY <1>1, <2>2 DEF IInv, TypeOK, TakeFile
    <3> QED
      BY <1>1, <3>1 DEF IInv, WorkerInv
  <2> QED
    BY <2>1, <2>2
<1>6. ProgressInv'
  <2>1. Busy' = Busy \cup {w}
    BY <1>1, <1>2 DEF IInv, TypeOK, Busy
  <2>2. \A v \in Busy : v # w /\ v \in Workers /\ job'[v] = job[v] /\ job[v] # f
    BY <1>1, <1>2 DEF IInv, TypeOK, Busy, WorkerInv
  <2>3. job'[w] = f
    BY <1>1 DEF IInv, TypeOK
  <2>4. phase' = phase /\ present' = present /\ added' = added
    BY DEF TakeFile
  <2> QED
    BY <1>1, <1>2, <2>1, <2>2, <2>3, <2>4 DEF IInv, ProgressInv
<1> QED
  BY <1>3, <1>4, <1>5, <1>6 DEF IInv

(* A step of one worker, and what it adds, does not concern another one's  *)
(* file.                                                                   *)
LEMMA OthersKeepWorkerInv ==
  ASSUME IInv, NEW w \in Workers, NEW v \in Workers, v # w,
         pc'[v] = pc[v], job'[v] = job[v], next'[v] = next[v],
         writing'[v] = writing[v], entry'[v] = entry[v],
         UNCHANGED <<phase, present, queue>>,
         added' = added
           \/ (pc[w] # "idle" /\ \E A : added' = added \cup A /\ A \subseteq ObjectsOf(job[w]))
  PROVE  WorkerInv(v)'
<1>1. WorkerInv(v)
  BY DEF IInv
<1>2. CASE added' = added
  BY <1>1, <1>2 DEF WorkerInv
<1>3. CASE pc[w] # "idle" /\ \E A : added' = added \cup A /\ A \subseteq ObjectsOf(job[w])
  <2>1. PICK A : added' = added \cup A /\ A \subseteq ObjectsOf(job[w])
    BY <1>3
  <2>2. pc[v] # "idle" => ObjectsOf(job[v]) \cap A = {}
    <3> SUFFICES ASSUME pc[v] # "idle" PROVE ObjectsOf(job[v]) \cap A = {}
      OBVIOUS
    <3>1. job[v] \in Files /\ job[w] \in Files /\ job[v] # job[w]
      BY <1>3 DEF IInv, TypeOK, WorkerInv, ProgressInv, Busy
    <3> QED
      BY <2>1, <3>1, FilesDisjoint
  <2> QED
    BY <1>1, <2>1, <2>2 DEF WorkerInv
<1> QED
  BY <1>2, <1>3

(* A worker that adds objects of its file, or is done with it, keeps       *)
(* ProgressInv.                                                            *)
LEMMA AddedKeepsProgress ==
  ASSUME IInv, NEW w \in Workers, pc[w] # "idle",
         NEW A, A \subseteq ObjectsOf(job[w]), added' = added \cup A,
         UNCHANGED <<phase, present, queue>>,
         \A v \in Workers : v # w => pc'[v] = pc[v] /\ job'[v] = job[v],
         \/ pc'[w] # "idle" /\ job'[w] = job[w]
         \/ pc'[w] = "idle" /\ ObjectsOf(job[w]) \subseteq added'
  PROVE  ProgressInv'
<1>1. phase = "index" /\ job[w] \in present \ queue /\ job[w] \in Files
      /\ queue \subseteq Files
  BY DEF IInv, TypeOK, WorkerInv
<1>2. \A f \in queue : ObjectsOf(f) \cap A = {}
  BY <1>1, FilesDisjoint
<1>3. Busy' \subseteq Busy /\ \A v \in Busy : v # w => v \in Busy' /\ job'[v] = job[v]
  BY DEF Busy
<1>4. w \in Busy /\ (w \in Busy' => job'[w] = job[w])
      /\ (w \notin Busy' => ObjectsOf(job[w]) \subseteq added')
  BY DEF Busy
<1>5. \A v, u \in Busy' : v # u => job'[v] # job'[u]
  BY <1>3, <1>4 DEF IInv, ProgressInv
<1>6. added' \subseteq UNION {ObjectsOf(f) : f \in present}
  BY <1>1 DEF IInv, ProgressInv
<1>7. \A f \in present : \/ f \in queue
                         \/ \E v \in Busy' : job'[v] = f
                         \/ ObjectsOf(f) \subseteq added'
  <2> SUFFICES ASSUME NEW f \in present, f \notin queue, ~ (ObjectsOf(f) \subseteq added')
               PROVE  \E v \in Busy' : job'[v] = f
    OBVIOUS
  <2>1. PICK v \in Busy : job[v] = f
    BY <1>1 DEF IInv, ProgressInv
  <2> QED
    BY <1>3, <1>4, <2>1
<1>8. \A f \in queue : ObjectsOf(f) \cap added' = {}
  BY <1>2 DEF IInv, ProgressInv
<1> QED
  BY <1>1, <1>5, <1>6, <1>7, <1>8 DEF IInv, ProgressInv

(* A cache hit brings back objects of a file none of which has been added, *)
(* so nothing the builder holds changes.                                   *)
LEMMA DecodedHolds ==
  ASSUME NEW b, NEW A, Holds(b, A), NEW f \in Files, ObjectsOf(f) \cap A = {},
         stored \in [Objects -> Data], StoredInv
  PROVE  Holds([b EXCEPT !.data = Decoded(f, @)], A)
<1> DEFINE c == [b EXCEPT !.data = Decoded(f, @)]
<1>1. b \in Builder /\ A \subseteq Objects
  BY DEF Holds
<1>2. c = [held |-> b.held, data |-> Decoded(f, b.data), deduped |-> b.deduped]
  BY <1>1 DEF Builder
<1> HIDE DEF c
<1>3. c.held = b.held /\ c.data = Decoded(f, b.data) /\ c.deduped = b.deduped
  BY <1>2
<1>4. Decoded(f, b.data) \in [Objects -> Data]
  BY BuilderTyped DEF Decoded
<1>5. c \in Builder
  BY <1>2, <1>4, BuilderTyped DEF Builder
<1>6. \A o \in Objects : Extends(c.data[o], o)
  BY <1>3 DEF Decoded, Holds, StoredInv
<1>7. Strongest(c, A) /\ Counted(c, A)
  BY <1>3 DEF Holds, Strongest, Counted
<1>8. NothingLost(c, A)
  <2> SUFFICES ASSUME NEW o \in A PROVE c.data[c.held[KeyOf(o)]] = b.data[b.held[KeyOf(o)]]
    BY DEF NothingLost, Holds
  <2>1. b.held[KeyOf(o)] \in A
    BY <1>1, ObjectFacts DEF Holds, Strongest
  <2> QED
    BY <1>1, <1>3, <2>1 DEF Decoded
<1> QED
  BY <1>1, <1>5, <1>6, <1>7, <1>8 DEF Holds, c

LEMMA HitKeepsIInv ==
  ASSUME IInv, NEW w \in Workers, Hit(w) PROVE IInv'
<1> DEFINE f == job[w]
<1>1. /\ pc[w] = "hit" /\ f \in Files /\ ObjectsOf(f) \cap added = {}
      /\ EntryOf(f) \in Seq(ObjectsOf(f)) /\ IsInjective(EntryOf(f))
      /\ ObjectsOf(f) \subseteq Objects /\ ToSet(EntryOf(f)) = ObjectsOf(f)
  BY EntryFacts, ObjectFacts DEF IInv, TypeOK, WorkerInv, Hit, ObjectsOf
<1>2. /\ pc' = [pc EXCEPT ![w] = "idle"] /\ job' = [job EXCEPT ![w] = NoFile]
      /\ next' = [next EXCEPT ![w] = 0] /\ added' = added \cup ObjectsOf(f)
      /\ UNCHANGED <<present, cached, stored, phase, queue, stats, writing, entry,
                     used>>
  BY DEF Hit, Return
<1>3. Holds(builder, added)'
  <2> DEFINE b == [builder EXCEPT !.data = Decoded(f, @)]
  <2>1. Holds(b, added)
    BY <1>1, DecodedHolds DEF IInv, TypeOK
  <2>2. builder' = Add(b, EntryOf(f))
    BY DEF Hit
  <2> HIDE DEF b, f
  <2> QED
    BY <1>1, <1>2, <2>1, <2>2, AddKeeps
<1>4. StoredInv' /\ StatsExact'
  BY <1>2 DEF IInv, StoredInv, StatsExact
<1>5. TypeOK'
  BY <1>2, <1>3, BuilderTyped DEF IInv, TypeOK
<1>6. ASSUME NEW v \in Workers PROVE WorkerInv(v)'
  <2>1. CASE v = w
    <3>1. WorkerInv(w) /\ pc'[w] = "idle"
      BY <1>2 DEF IInv, TypeOK
    <3> QED
      BY <1>1, <1>2, <2>1, <3>1 DEF WorkerInv
  <2>2. CASE v # w
    <3>1. pc'[v] = pc[v] /\ job'[v] = job[v] /\ next'[v] = next[v]
      BY <1>2, <2>2 DEF IInv, TypeOK
    <3> QED
      BY <1>1, <1>2, <2>2, <3>1, OthersKeepWorkerInv
  <2> QED
    BY <2>1, <2>2
<1>7. ProgressInv'
  <2>1. \A v \in Workers : v # w => pc'[v] = pc[v] /\ job'[v] = job[v]
    BY <1>2 DEF IInv, TypeOK
  <2>2. pc'[w] = "idle" /\ ObjectsOf(f) \subseteq added'
    BY <1>2 DEF IInv, TypeOK
  <2> QED
    BY <1>1, <1>2, <2>1, <2>2, AddedKeepsProgress
<1> QED
  BY <1>3, <1>4, <1>5, <1>6, <1>7 DEF IInv

LEMMA DetectKeepsIInv ==
  ASSUME IInv, NEW w \in Workers, Detect(w) PROVE IInv'
<1> DEFINE f == job[w]
           n == next[w]
           batch == Batch(f, n)
           last == n = Len(Emitted[f])
<1>1. /\ pc[w] = "detect" /\ f \in Files /\ n \in DOMAIN Emitted[f]
      /\ ObjectsOf(f) \cap added = Reported(f, n)
      /\ WorkerInv(w) /\ n \in Nat
  BY DEF IInv, TypeOK, WorkerInv, Detect
<1>2. /\ builder' = Add(builder, batch) /\ added' = added \cup ToSet(batch)
      /\ next' = [next EXCEPT ![w] = IF last THEN 1 ELSE @ + 1]
      /\ pc' = [pc EXCEPT ![w] = IF last THEN "marshal" ELSE "detect"]
      /\ UNCHANGED <<present, cached, stored, phase, queue, stats, job, writing,
                     entry, used>>
  BY DEF Detect
<1>3. /\ batch \in Seq(ToSet(batch)) /\ IsInjective(batch)
      /\ ToSet(batch) = {o \in ObjectsOf(f) : o[2] = n}
      /\ ToSet(batch) \subseteq Objects
  <2>1. ToSet(batch) \subseteq ObjectsOf(f)
    BY <1>1, EntryFacts
  <2>2. \A o \in ToSet(batch) : o[2] = n
    BY <1>1, BatchFacts
  <2>3. \A o \in ObjectsOf(f) : o[2] = n => o \in ToSet(batch)
    BY <1>1, ObjectFacts
  <2>4. batch \in Seq(ToSet(batch)) /\ IsInjective(batch)
    BY <1>1, BatchFacts
  <2> QED
    BY <1>1, <2>1, <2>2, <2>3, <2>4, ObjectFacts
<1>4. ToSet(batch) \cap added = {}
  <2>1. \A o \in ToSet(batch) : o \notin Reported(f, n)
    BY <1>1, <1>3 DEF Reported
  <2> QED
    BY <1>1, <1>3, <2>1
<1>5. Holds(builder, added)'
  <2> HIDE DEF batch
  <2> QED
    BY <1>2, <1>3, <1>4, AddKeeps DEF IInv
<1>6. StoredInv' /\ StatsExact'
  BY <1>2 DEF IInv, StoredInv, StatsExact
<1>7. pc'[w] = (IF last THEN "marshal" ELSE "detect") /\ job'[w] = f
      /\ next'[w] = (IF last THEN 1 ELSE n + 1)
  BY <1>2 DEF IInv, TypeOK
<1>8. TypeOK'
  <2>1. next' \in [Workers -> Nat]
    BY <1>1, <1>2 DEF IInv, TypeOK
  <2> QED
    BY <1>2, <1>5, <2>1, BuilderTyped DEF IInv, TypeOK
<1>9. ASSUME NEW v \in Workers PROVE WorkerInv(v)'
  <2>1. CASE v = w
    <3>1. Emitted[f] \in Seq(Seq(Emission))
      BY <1>1, BuildAssumption
    <3>2. DOMAIN Emitted[f] = 1 .. Len(Emitted[f]) /\ Len(Emitted[f]) \in Nat
      BY <3>1
    <3>3. \A o \in ObjectsOf(f) : o[2] \in 1 .. Len(Emitted[f])
      BY <1>1, <3>2, ObjectFacts
    <3>4. ObjectsOf(f) \cap added' = Reported(f, n + 1)
      BY <1>1, <1>2, <1>3, <3>2, <3>3 DEF Reported
    <3>5. phase' = "index" /\ job'[w] \in (present \ queue)'
          /\ writing'[w] = NoObject /\ entry'[w] = <<>>
      BY <1>1, <1>2 DEF WorkerInv
    <3>6. CASE ~ last
      <4>1. n + 1 \in DOMAIN Emitted[f]
        BY <1>1, <3>2, <3>6
      <4> QED
        BY <1>7, <2>1, <3>4, <3>5, <3>6, <4>1 DEF WorkerInv
    <3>7. CASE last
      <4>1. ObjectsOf(f) \subseteq added'
        BY <1>1, <3>2, <3>3, <3>4, <3>7 DEF Reported
      <4>2. EntryOf(f) \in Seq(ObjectsOf(f))
        BY <1>1, EntryFacts
      <4>3. Len(EntryOf(f)) \in Nat /\ Len(<<>>) = 0 /\ DOMAIN <<>> = {}
        BY <4>2
      <4> QED
        BY <1>7, <2>1, <3>5, <3>7, <4>1, <4>3 DEF WorkerInv
    <3> QED
      BY <3>6, <3>7
  <2>2. CASE v # w
    <3>1. pc'[v] = pc[v] /\ next'[v] = next[v]
      BY <1>2, <2>2 DEF IInv, TypeOK
    <3>2. ToSet(batch) \subseteq ObjectsOf(f)
      BY <1>3
    <3> QED
      BY <1>1, <1>2, <2>2, <3>1, <3>2, OthersKeepWorkerInv
  <2> QED
    BY <2>1, <2>2
<1>10. ProgressInv'
  <2>1. \A v \in Workers : v # w => pc'[v] = pc[v] /\ job'[v] = job[v]
    BY <1>2 DEF IInv, TypeOK
  <2>2. pc'[w] # "idle" /\ job'[w] = f /\ ToSet(batch) \subseteq ObjectsOf(f)
    BY <1>3, <1>7
  <2> HIDE DEF batch
  <2> QED
    BY <1>1, <1>2, <2>1, <2>2, AddedKeepsProgress
<1> QED
  BY <1>5, <1>6, <1>8, <1>9, <1>10 DEF IInv

LEMMA BeginMarshalKeepsIInv ==
  ASSUME IInv, NEW w \in Workers, BeginMarshal(w) PROVE IInv'
<1> DEFINE f == job[w]
<1>1. /\ pc[w] = "marshal" /\ f \in Files /\ WorkerInv(w)
      /\ next[w] \in Nat /\ next[w] <= Len(EntryOf(f))
      /\ next[w] = Len(entry[w]) + 1 /\ entry[w] \in Seq(Data)
      /\ writing' = [writing EXCEPT ![w] = EntryOf(f)[next[w]]]
      /\ UNCHANGED <<present, cached, stored, phase, queue, builder, added, stats,
                     pc, job, next, entry, used>>
  BY DEF IInv, TypeOK, WorkerInv, BeginMarshal
<1>2. EntryOf(f)[next[w]] \in Objects
  <2>1. EntryOf(f) \in Seq(ObjectsOf(f)) /\ next[w] \in 1 .. Len(EntryOf(f))
    BY <1>1, EntryFacts
  <2> QED
    BY <1>1, <2>1, ObjectFacts
<1>3. Holds(builder, added)' /\ StoredInv' /\ StatsExact'
  BY <1>1 DEF IInv, StoredInv, StatsExact
<1>4. TypeOK'
  BY <1>1, <1>2 DEF IInv, TypeOK
<1>5. ASSUME NEW v \in Workers PROVE WorkerInv(v)'
  <2>1. CASE v = w
    <3>1. writing'[w] = EntryOf(f)[next[w]]
      BY <1>1 DEF IInv, TypeOK
    <3> QED
      BY <1>1, <2>1, <3>1 DEF WorkerInv
  <2>2. CASE v # w
    <3>1. writing'[v] = writing[v]
      BY <1>1, <2>2 DEF IInv, TypeOK
    <3> QED
      BY <1>1, <2>2, <3>1, OthersKeepWorkerInv
  <2> QED
    BY <2>1, <2>2
<1>6. ProgressInv'
  BY <1>1 DEF IInv, ProgressInv, Busy
<1> QED
  BY <1>3, <1>4, <1>5, <1>6 DEF IInv

LEMMA EndMarshalKeepsIInv ==
  ASSUME IInv, NEW w \in Workers, EndMarshal(w) PROVE IInv'
<1> DEFINE f == job[w]
           d == builder.data[writing[w]]
<1>1. /\ pc[w] = "marshal" /\ f \in Files /\ WorkerInv(w)
      /\ writing[w] # NoObject /\ writing[w] \in Objects
      /\ next[w] \in Nat /\ next[w] <= Len(EntryOf(f))
      /\ writing[w] = EntryOf(f)[next[w]]
      /\ next[w] = Len(entry[w]) + 1 /\ entry[w] \in Seq(Data)
      /\ entry' = [entry EXCEPT ![w] = Append(entry[w], d)]
      /\ writing' = [writing EXCEPT ![w] = NoObject]
      /\ next' = [next EXCEPT ![w] = next[w] + 1]
      /\ UNCHANGED <<present, cached, stored, phase, queue, builder, added, stats,
                     pc, job, used>>
  BY DEF IInv, TypeOK, WorkerInv, EndMarshal
<1>2. d \in Data /\ Extends(d, writing[w])
  BY <1>1 DEF IInv, TypeOK, Holds
<1>3. Holds(builder, added)' /\ StoredInv' /\ StatsExact'
  BY <1>1 DEF IInv, StoredInv, StatsExact
<1> HIDE DEF d
<1>4. /\ Append(entry[w], d) \in Seq(Data)
      /\ Len(Append(entry[w], d)) = Len(entry[w]) + 1
      /\ DOMAIN Append(entry[w], d) = 1 .. Len(entry[w]) + 1
      /\ Append(entry[w], d)[Len(entry[w]) + 1] = d
      /\ \A i \in DOMAIN entry[w] : Append(entry[w], d)[i] = entry[w][i]
      /\ DOMAIN entry[w] = 1 .. Len(entry[w]) /\ Len(entry[w]) \in Nat
  BY <1>1, <1>2
<1>5. \A v \in Workers : entry'[v] = IF v = w THEN Append(entry[w], d) ELSE entry[v]
  BY <1>1 DEF IInv, TypeOK
<1>6. TypeOK'
  <2>1. entry' \in [Workers -> Seq(Data)]
    BY <1>1, <1>4 DEF IInv, TypeOK
  <2>2. next' \in [Workers -> Nat] /\ writing' \in [Workers -> Objects \cup {NoObject}]
    BY <1>1 DEF IInv, TypeOK
  <2> QED
    BY <1>1, <2>1, <2>2 DEF IInv, TypeOK
<1>7. ASSUME NEW v \in Workers PROVE WorkerInv(v)'
  <2>1. CASE v = w
    <3>1. /\ writing'[w] = NoObject /\ next'[w] = next[w] + 1
          /\ entry'[w] = Append(entry[w], d)
      BY <1>1 DEF IInv, TypeOK
    <3>2. \A i \in 1 .. Len(entry[w]) + 1 : i \in 1 .. Len(entry[w]) \/ i = Len(entry[w]) + 1
      BY <1>4
    <3>3. \A i \in DOMAIN entry'[w] : Extends(entry'[w][i], EntryOf(f)[i])
      BY <1>1, <1>2, <1>4, <3>1, <3>2 DEF WorkerInv
    <3>4. Len(entry'[w]) <= Len(EntryOf(f)) /\ next'[w] = Len(entry'[w]) + 1
      BY <1>1, <1>4, <3>1
    <3> QED
      BY <1>1, <2>1, <3>1, <3>3, <3>4 DEF WorkerInv
  <2>2. CASE v # w
    <3>1. writing'[v] = writing[v] /\ next'[v] = next[v] /\ entry'[v] = entry[v]
      BY <1>1, <1>5, <2>2 DEF IInv, TypeOK
    <3> QED
      BY <1>1, <2>2, <3>1, OthersKeepWorkerInv
  <2> QED
    BY <2>1, <2>2
<1>8. ProgressInv'
  BY <1>1 DEF IInv, ProgressInv, Busy
<1> QED
  BY <1>3, <1>6, <1>7, <1>8 DEF IInv

LEMMA PutEntryKeepsIInv ==
  ASSUME IInv, NEW w \in Workers, PutEntry(w) PROVE IInv'
<1> DEFINE f == job[w]
           At(o) == CHOOSE i \in DOMAIN entry[w] : EntryOf(f)[i] = o
<1>1. /\ pc[w] = "marshal" /\ f \in Files /\ WorkerInv(w)
      /\ Len(entry[w]) = Len(EntryOf(f)) /\ ObjectsOf(f) \subseteq added
      /\ entry[w] \in Seq(Data) /\ EntryOf(f) \in Seq(ObjectsOf(f))
      /\ ToSet(EntryOf(f)) = ObjectsOf(f)
      /\ \A i \in DOMAIN entry[w] : Extends(entry[w][i], EntryOf(f)[i])
  <2>1. /\ pc[w] = "marshal" /\ f \in Files /\ WorkerInv(w)
        /\ entry[w] \in Seq(Data) /\ next[w] > Len(EntryOf(f))
    BY DEF IInv, TypeOK, WorkerInv, PutEntry
  <2>2. EntryOf(f) \in Seq(ObjectsOf(f)) /\ ToSet(EntryOf(f)) = ObjectsOf(f)
    BY <2>1, EntryFacts DEF ObjectsOf
  <2>3. Len(EntryOf(f)) \in Nat /\ Len(entry[w]) \in Nat
    BY <2>1, <2>2
  <2> QED
    BY <2>1, <2>2, <2>3 DEF WorkerInv
<1>2. /\ cached' = cached \cup {f}
      /\ stored' = [o \in Objects |-> IF o \notin ObjectsOf(f) THEN stored[o]
                                      ELSE entry[w][At(o)]]
      /\ entry' = [entry EXCEPT ![w] = <<>>]
      /\ pc' = [pc EXCEPT ![w] = "idle"] /\ job' = [job EXCEPT ![w] = NoFile]
      /\ next' = [next EXCEPT ![w] = 0]
      /\ UNCHANGED <<present, phase, queue, builder, added, stats, writing, used>>
  BY DEF PutEntry, Return
<1>3. ASSUME NEW o \in ObjectsOf(f)
      PROVE  entry[w][At(o)] \in Data /\ Extends(entry[w][At(o)], o)
  <2>1. DOMAIN entry[w] = DOMAIN EntryOf(f)
    BY <1>1
  <2>2. \E i \in DOMAIN entry[w] : EntryOf(f)[i] = o
    BY <1>1, <2>1 DEF ToSet
  <2>3. At(o) \in DOMAIN entry[w] /\ EntryOf(f)[At(o)] = o
    BY <2>2
  <2> HIDE DEF At
  <2> QED
    BY <1>1, <2>3
<1> HIDE DEF At
<1>4. Holds(builder, added)' /\ StatsExact'
  BY <1>2 DEF IInv, StatsExact
<1>5. stored' \in [Objects -> Data] /\ StoredInv'
  BY <1>2, <1>3 DEF IInv, TypeOK, StoredInv
<1>6. \A v \in Workers : entry'[v] = IF v = w THEN <<>> ELSE entry[v]
  BY <1>2 DEF IInv, TypeOK
<1>7. TypeOK'
  <2>1. entry' \in [Workers -> Seq(Data)]
    <3>1. <<>> \in Seq(Data)
      OBVIOUS
    <3> QED
      BY <1>2, <3>1 DEF IInv, TypeOK
  <2> QED
    BY <1>1, <1>2, <1>5, <2>1 DEF IInv, TypeOK
<1>8. ASSUME NEW v \in Workers PROVE WorkerInv(v)'
  <2>1. CASE v = w
    <3>1. pc'[w] = "idle" /\ entry'[w] = <<>> /\ writing'[w] = NoObject
      BY <1>2, <1>6 DEF IInv, TypeOK, PutEntry
    <3> QED
      BY <2>1, <3>1 DEF WorkerInv
  <2>2. CASE v # w
    <3>1. /\ pc'[v] = pc[v] /\ job'[v] = job[v] /\ next'[v] = next[v]
          /\ entry'[v] = entry[v]
      BY <1>2, <1>6, <2>2 DEF IInv, TypeOK
    <3> QED
      BY <1>2, <2>2, <3>1, OthersKeepWorkerInv
  <2> QED
    BY <2>1, <2>2
<1>9. ProgressInv'
  <2>1. \A v \in Workers : v # w => pc'[v] = pc[v] /\ job'[v] = job[v]
    BY <1>2 DEF IInv, TypeOK
  <2>2. pc'[w] = "idle" /\ ObjectsOf(f) \subseteq added' /\ added' = added \cup {}
    BY <1>1, <1>2 DEF IInv, TypeOK
  <2> QED
    BY <1>1, <1>2, <2>1, <2>2, AddedKeepsProgress
<1> QED
  BY <1>4, <1>5, <1>7, <1>8, <1>9 DEF IInv

(* Every step keeps the invariant.                                         *)
LEMMA NextKeepsIInv == IInv /\ [Next]_vars => IInv'
<1> SUFFICES ASSUME IInv, [Next]_vars PROVE IInv'
  OBVIOUS
<1>1. ASSUME NEW w \in Workers, Worker(w) PROVE IInv'
  BY <1>1, TakeFileKeepsIInv, HitKeepsIInv, DetectKeepsIInv,
     BeginMarshalKeepsIInv, EndMarshalKeepsIInv, PutEntryKeepsIInv DEF Worker
<1>2. CASE UNCHANGED vars
  <2>1. TypeOK' /\ Holds(builder, added)' /\ StoredInv' /\ StatsExact'
    BY <1>2 DEF vars, pool, IInv, TypeOK, StoredInv, StatsExact
  <2>2. (\A w \in Workers : WorkerInv(w)') /\ ProgressInv'
    BY <1>2 DEF vars, pool, IInv, WorkerInv, ProgressInv, Busy
  <2> QED
    BY <2>1, <2>2 DEF IInv
<1> QED
  BY <1>1, <1>2, DeleteKeepsIInv, StartIndexKeepsIInv, FinishIndexKeepsIInv,
     StartEnrichKeepsIInv, AddEntryKeepsIInv, FinishEnrichKeepsIInv DEF Next

(* The invariant holds in every reachable state.                           *)
THEOREM InductiveInvariant == Spec => []IInv
BY InitIInv, NextKeepsIInv, PTL DEF Spec

(* The variables of the two pipelines keep their types.                    *)
THEOREM TypeCorrect == Spec => []TypeOK
<1>1. IInv => TypeOK
  BY DEF IInv
<1> QED
  BY <1>1, InductiveInvariant, PTL

(* Whichever order the pool adds results in, the object held for a key is  *)
(* its most confident emission: mergeNode and mergeEdge do not depend on   *)
(* the order.                                                              *)
THEOREM StrongestSurvives == Spec => []SurvivorIsStrongest
<1>1. IInv => SurvivorIsStrongest
  BY DEF IInv, Holds, Strongest, SurvivorIsStrongest
<1> QED
  BY <1>1, InductiveInvariant, PTL

(* mergeNode and mergeEdge lose no field: the survivor has each field that *)
(* any emission of its key has.                                            *)
THEOREM MergesLoseNothing == Spec => []NoFieldLost
<1>1. IInv => NoFieldLost
  BY DEF IInv, Holds, NothingLost, NoFieldLost
<1> QED
  BY <1>1, InductiveInvariant, PTL

(* No merge, no cache hit and no marshalling beside a merge changes a      *)
(* field that the detector itself filled in.                               *)
THEOREM DetectorsFieldsStay == Spec => []FieldsNeverClobbered
<1>1. IInv => FieldsNeverClobbered
  BY DEF IInv, Holds, Extends, FieldsNeverClobbered
<1> QED
  BY <1>1, InductiveInvariant, PTL

(* The counters Run returns depend on the files alone, not on the order of *)
(* the workers nor on which files were cache hits.                         *)
THEOREM CountersAreExact == Spec => []StatsExact
<1>1. IInv => StatsExact
  BY DEF IInv
<1> QED
  BY <1>1, InductiveInvariant, PTL
=============================================================================
