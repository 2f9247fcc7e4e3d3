--------------------------- MODULE GraphStoreProofs ---------------------------
(***************************************************************************)
(* Theorems about the store, for any number of goroutines, any operations   *)
(* they call, any rel tables and any batch size:                           *)
(*   - no statement runs on a closed connection (whatever a program is);    *)
(*   - a read-only store changes nothing on disk: the programs of all      *)
(*     methods are gone through, a call follows its program, and a text     *)
(*     that could change something does not pass the gate;                 *)
(*   - CypherRows returns the rows it should and says truncated truthfully: *)
(*     the primary key makes as many rows as nodes, and the mutex keeps     *)
(*     other calls out while it fetches;                                   *)
(*   - RemoveFile and ReplaceFile are accepted statement by statement and   *)
(*     leave the rest of the graph and the new rows: what the nodes and     *)
(*     edges are after each statement of their program is written down, and *)
(*     the single writer keeps the other calls off them.                   *)
(***************************************************************************)
EXTENDS GraphStore, InductionLemmas, FiniteSetTheorems, TLAPS

\* The variables the argument is about, in their ranges.
MutexShape == /\ at \in [Callers -> Phases]
              /\ open \in BOOLEAN

\* Who is between its Lock and its Unlock holds the mutex; so at most one is.
InsideHolds ==
  \A c \in Callers : at[c] \in {"check", "run", "fetch"} => holder = c

\* A call that has checked the connection still has it: Close, too, must hold
\* the mutex to take it away.
CheckedIsOpen == \A c \in Callers : at[c] \in {"run", "fetch"} => open

StoreInv == MutexShape /\ InsideHolds /\ CheckedIsOpen

-----------------------------------------------------------------------------
\* A call leaves the mutex: whichever way the statement ended, nobody else
\* moved.
Leaves(c) ==
  /\ holder' = NoCaller
  /\ \E p \in {"returned", "lock"} : at' = [at EXCEPT ![c] = p]

\* The deferred Unlock leaves.
LEMMA UnlockedLeaves ==
  ASSUME NEW c, NEW call, Unlocked(c, call)
  PROVE  Leaves(c)
<1>0. /\ holder' = NoCaller
      /\ at' = [at EXCEPT ![c] = IF call.todo = <<>> THEN "returned" ELSE "lock"]
  BY DEF Unlocked
<1>1. CASE call.todo = <<>>
  BY <1>0, <1>1 DEF Leaves
<1>2. CASE call.todo # <<>>
  BY <1>0, <1>2 DEF Leaves
<1>3. QED
  BY <1>1, <1>2

\* An error leaves too, whatever is done about it.
LEMMA OnErrorLeaves ==
  ASSUME NEW c, NEW err, OnError(c, err)
  PROVE  Leaves(c)
<1>1. CASE St(c).do = "dropIndex"
  BY <1>1, UnlockedLeaves DEF OnError
<1>2. CASE St(c).do = "search"
  BY <1>2, UnlockedLeaves DEF OnError
<1>3. CASE St(c).do \notin {"dropIndex", "search"}
  BY <1>3, UnlockedLeaves DEF OnError, Fails
<1>4. QED
  BY <1>1, <1>2, <1>3

\* Leaving keeps the invariant, also when the leaving call closes the store:
\* it held the mutex, so no other call has checked the connection.
LEMMA LeavingKeeps ==
  ASSUME StoreInv, NEW c \in Callers, at[c] \in {"check", "run", "fetch"},
         Leaves(c), open' \in BOOLEAN
  PROVE  StoreInv'
<1>1. PICK p \in {"returned", "lock"} : at' = [at EXCEPT ![c] = p]
  BY DEF Leaves
<1>2. \A d \in Callers : at'[d] \notin {"check", "run", "fetch"}
  BY <1>1 DEF StoreInv, MutexShape, InsideHolds, Phases
<1>3. MutexShape'
  BY <1>1 DEF StoreInv, MutexShape, Phases
<1>4. QED
  BY <1>2, <1>3 DEF StoreInv, InsideHolds, CheckedIsOpen
-----------------------------------------------------------------------------
\* One step of one goroutine.
LEMMA CallKeeps ==
  ASSUME StoreInv, NEW c \in Callers, NEW op, Call(c, op)
  PROVE  StoreInv'
BY DEF Call, StoreInv, MutexShape, InsideHolds, CheckedIsOpen, Phases

\* Lock waits for a free mutex, so nobody is inside.
LEMMA LockKeeps ==
  ASSUME StoreInv, NEW c \in Callers, Lock(c)
  PROVE  StoreInv'
BY CallerAssumption
   DEF Lock, StoreInv, MutexShape, InsideHolds, CheckedIsOpen, Phases

\* Check is where the connection is looked at and where Close takes it.
LEMMA CheckKeeps ==
  ASSUME StoreInv, NEW c \in Callers, Check(c)
  PROVE  StoreInv'
<1>1. at[c] = "check"
  BY DEF Check
<1>2. CASE Leaves(c) /\ open' \in BOOLEAN
  BY <1>1, <1>2, LeavingKeeps
<1>3. CASE /\ open /\ at' = [at EXCEPT ![c] = "run"]
           /\ UNCHANGED <<open, holder>>
  BY <1>1, <1>3 DEF StoreInv, MutexShape, InsideHolds, CheckedIsOpen, Phases
<1>4. \/ Leaves(c) /\ open' \in BOOLEAN
      \/ /\ open /\ at' = [at EXCEPT ![c] = "run"]
         /\ UNCHANGED <<open, holder>>
  BY UnlockedLeaves, OnErrorLeaves DEF Check, StoreInv, MutexShape
<1>5. QED
  BY <1>2, <1>3, <1>4

LEMMA RunKeeps ==
  ASSUME StoreInv, NEW c \in Callers, Run(c)
  PROVE  StoreInv'
<1>1. at[c] = "run" /\ open' = open
  BY DEF Run
<1>2. CASE Leaves(c)
  BY <1>1, <1>2, LeavingKeeps DEF StoreInv, MutexShape
<1>3. CASE at' = [at EXCEPT ![c] = "fetch"] /\ UNCHANGED holder
  BY <1>1, <1>3 DEF StoreInv, MutexShape, InsideHolds, CheckedIsOpen, Phases
<1>4. \/ Leaves(c)
      \/ at' = [at EXCEPT ![c] = "fetch"] /\ UNCHANGED holder
  BY UnlockedLeaves, OnErrorLeaves DEF Run
<1>5. QED
  BY <1>2, <1>3, <1>4

LEMMA FetchKeeps ==
  ASSUME StoreInv, NEW c \in Callers, Fetch(c)
  PROVE  StoreInv'
<1>1. at[c] = "fetch" /\ open' = open
  BY DEF Fetch
<1>2. CASE Leaves(c)
  BY <1>1, <1>2, LeavingKeeps DEF StoreInv, MutexShape
<1>3. CASE UNCHANGED <<at, holder>>
  BY <1>1, <1>3 DEF StoreInv, MutexShape, InsideHolds, CheckedIsOpen
<1>4. Leaves(c) \/ UNCHANGED <<at, holder>>
  BY UnlockedLeaves DEF Fetch
<1>5. QED
  BY <1>2, <1>3, <1>4

LEMMA TimeOutKeeps ==
  ASSUME StoreInv, NEW c \in Callers, TimeOut(c)
  PROVE  StoreInv'
<1>1. Leaves(c) /\ open' = open /\ at[c] \in {"run", "fetch"}
  BY OnErrorLeaves DEF TimeOut
<1>2. QED
  BY <1>1, LeavingKeeps DEF StoreInv, MutexShape

LEMMA ReturnKeeps ==
  ASSUME StoreInv, NEW c \in Callers, Return(c)
  PROVE  StoreInv'
BY DEF Return, StoreInv, MutexShape, InsideHolds, CheckedIsOpen, Phases

-----------------------------------------------------------------------------
\* Every step keeps the mutex and the connection in order.
LEMMA NextKeepsStore ==
  ASSUME StoreInv, [Next]_vars PROVE StoreInv'
<1>1. CASE UNCHANGED vars
  BY <1>1 DEF vars, StoreInv, MutexShape, InsideHolds, CheckedIsOpen
<1>2. ASSUME NEW c \in Callers, NEW op \in Operations, Call(c, op)
      PROVE StoreInv'
  BY <1>2, CallKeeps
<1>3. ASSUME NEW c \in Callers, Goroutine(c) PROVE StoreInv'
  BY <1>3, LockKeeps, CheckKeeps, RunKeeps, FetchKeeps, ReturnKeeps
     DEF Goroutine
<1>4. ASSUME NEW c \in Callers, TimeOut(c) PROVE StoreInv'
  BY <1>4, TimeOutKeeps
<1>5. QED
  BY <1>1, <1>2, <1>3, <1>4 DEF Next

\* No statement runs on a connection that Close has taken away, and a call that
\* runs one holds the mutex (Store.Cypher, CypherRows and Close).
THEOREM StoreSafe == Spec => []NoStatementAfterClose
<1>1. Init => StoreInv
  BY DEF Init, StoreInv, MutexShape, InsideHolds, CheckedIsOpen, Phases
<1>2. StoreInv /\ [Next]_vars => StoreInv'
  BY NextKeepsStore
<1>3. StoreInv => NoStatementAfterClose
  BY DEF StoreInv, InsideHolds, CheckedIsOpen, NoStatementAfterClose
<1>4. QED
  BY <1>1, <1>2, <1>3, PTL DEF Spec

-----------------------------------------------------------------------------
(* The gate, and the programs *)

\* The least of a nonempty set of places is one of them.
LEMMA MinOfPlaces ==
  ASSUME NEW n \in Nat, NEW s \in SUBSET (1 .. n), s # {}
  PROVE  Min(s) \in s
<1>1. PICK m \in s : \A i \in s : m <= i
  BY LeastNumber
<1> QED
  BY <1>1, Zenon DEF Min

\* The gate lets no text pass that holds a word with which Kuzu changes
\* something.
LEMMA GateSound ==
  ASSUME NEW S, NEW words \in Seq(S), Mutates(words)
  PROVE  MutationKeyword(words) # ""
<1> DEFINE At(set) == {i \in DOMAIN words : words[i] \in set}
<1>1. DOMAIN words = 1 .. Len(words) /\ Len(words) \in Nat
  OBVIOUS
<1>2. ASSUME NEW set, At(set) # {}
      PROVE  words[Min(At(set))] \in set
  BY <1>1, <1>2, MinOfPlaces
<1>3. At(BlockedWords) # {} \/ At(OtherCalls) # {}
  BY <1>1, Zenon DEF Mutates, Range
<1>4. "" \notin BlockedWords \cup OtherCalls
  BY DEF BlockedWords, OtherCalls
<1>5. CASE At(BlockedWords) # {}
  <2>1. MutationKeyword(words) = words[Min(At(BlockedWords))]
    BY <1>5 DEF MutationKeyword
  <2> QED
    BY <1>2, <1>4, <1>5, <2>1
<1>6. CASE At(BlockedWords) = {}
  <2>1. MutationKeyword(words) = words[Min(At(OtherCalls))]
    BY <1>3, <1>6 DEF MutationKeyword
  <2> QED
    BY <1>2, <1>3, <1>4, <1>6, <2>1
<1> QED
  BY <1>5, <1>6

\* The statements that change nodes or edges, and those that change anything.
GraphChanging == {"deleteRels", "deleteNodes", "wipeRels", "wipeNodes", "copyNodes",
                  "copyRels"}
Changing == GraphChanging \cup {"dropIndex", "createIndex"}

\* What the proofs need of a statement of a call: its text holds a changing
\* word if it changes anything, only a writing call changes the graph
\* otherwise than through CypherRows, and what it copies is finite and of a
\* known kind.
Sound(op, st) ==
  /\ st.words \in Seq(Range(st.words))
  /\ st.do \in Changing => Mutates(st.words)
  /\ st.do \in GraphChanging => op.do \in Writing
  /\ st.do = "rows" => op.do = "cypher"
  /\ st.do = "search" => op.do = "search"
  /\ st.do = "copyNodes" => IsFiniteSet(st.rows)
  /\ st.do = "copyRels" => \A r \in st.rows : r.kind \in Range(RelKinds)

SoundProgram(op, program) ==
  /\ program \in Seq(Range(program))
  /\ \A st \in Range(program) : Sound(op, st)

\* The texts the programs send.
LEMMA KnownWords ==
  /\ Deleting \in Seq(Range(Deleting)) /\ Mutates(Deleting)
  /\ Reading \in Seq(Range(Reading)) /\ <<>> \in Seq(Range(<<>>))
  /\ \A w : <<w>> \in Seq(Range(<<w>>))
  /\ \A w \in BlockedWords \cup OtherCalls : Mutates(<<w>>)
<1>1. /\ DOMAIN Deleting = 1 .. 2 /\ Deleting[1] = "MATCH" /\ Deleting[2] = "DELETE"
      /\ DOMAIN Reading = 1 .. 2 /\ Reading[1] = "MATCH" /\ Reading[2] = "RETURN"
  BY DEF Deleting, Reading
<1>2. /\ Range(Deleting) = {"MATCH", "DELETE"}
      /\ Range(Reading) = {"MATCH", "RETURN"}
  BY <1>1 DEF Range
<1>3. Mutates(Deleting)
  BY <1>2 DEF Mutates, BlockedWords
<1>4. Deleting \in Seq(Range(Deleting)) /\ Reading \in Seq(Range(Reading))
  BY <1>2 DEF Deleting, Reading
<1>5. \A w : Range(<<w>>) = {w} /\ <<w>> \in Seq({w})
  BY DEF Range
<1>6. \A w \in BlockedWords \cup OtherCalls : Mutates(<<w>>)
  <2> TAKE w \in BlockedWords \cup OtherCalls
  <2> QED
    BY <1>5 DEF Mutates
<1> QED
  BY <1>3, <1>4, <1>5, <1>6

\* A program is sound statement by statement.
LEMMA SoundEach ==
  ASSUME NEW op, NEW n \in Nat, NEW S, NEW program \in [1 .. n -> S],
         \A i \in 1 .. n : Sound(op, program[i])
  PROVE  SoundProgram(op, program)
<1>1. program \in [1 .. n -> Range(program)]
  BY DEF Range
<1>2. program \in Seq(Range(program))
  BY <1>1
<1> QED
  BY <1>2, Zenon DEF SoundProgram, Range

\* A program of one statement.
LEMMA SoundOne ==
  ASSUME NEW op, NEW st, Sound(op, st)
  PROVE  SoundProgram(op, <<st>>)
<1>1. <<st>> \in [1 .. 1 -> {st}] /\ \A i \in 1 .. 1 : <<st>>[i] = st
  OBVIOUS
<1> QED
  BY <1>1, SoundEach

\* One program after another.
LEMMA SoundConcat ==
  ASSUME NEW op, NEW p, NEW q, SoundProgram(op, p), SoundProgram(op, q)
  PROVE  SoundProgram(op, p \o q)
<1> DEFINE S == Range(p) \cup Range(q)
<1>1. p \in Seq(S) /\ q \in Seq(S)
  BY DEF SoundProgram
<1> HIDE DEF S
<1>2. p \o q \in Seq(S) /\ ToSet(p \o q) = ToSet(p) \cup ToSet(q)
  BY <1>1, ConcatElements
<1>3. Range(p \o q) = S
  BY <1>2, Zenon DEF ToSet, Range, S
<1> QED
  BY <1>2, <1>3, Zenon DEF SoundProgram, S

\* Programs one after another.
LEMMA SoundFlattening ==
  ASSUME NEW op, NEW n \in Nat, NEW seqs, DOMAIN seqs = 1 .. n,
         seqs = [i \in 1 .. n |-> seqs[i]],
         \A i \in 1 .. n : SoundProgram(op, seqs[i])
  PROVE  SoundProgram(op, FlattenSeq(seqs))
<1> DEFINE S == UNION {Range(seqs[i]) : i \in 1 .. n}
<1>1. \A i \in 1 .. n : seqs[i] \in Seq(S)
  <2> TAKE i \in 1 .. n
  <2>1. seqs[i] \in Seq(Range(seqs[i])) /\ Range(seqs[i]) \subseteq S
    BY DEF SoundProgram
  <2> HIDE DEF S
  <2> QED
    BY <2>1
<1> HIDE DEF S
<1>2. seqs \in Seq(Seq(S))
  BY <1>1
<1>3. /\ FlattenSeq(seqs) \in Seq(S)
      /\ ToSet(FlattenSeq(seqs)) = UNION {ToSet(seqs[i]) : i \in DOMAIN seqs}
  BY <1>2, FlattenElements
<1>4. Range(FlattenSeq(seqs)) = S
  BY <1>3, Zenon DEF Range, ToSet, S
<1>5. \A st \in S : Sound(op, st)
  BY DEF SoundProgram, S
<1> QED
  BY <1>3, <1>4, <1>5, Zenon DEF SoundProgram

\* A loop over the rel tables.
LEMMA SoundRelLoop ==
  ASSUME NEW op, NEW program, DOMAIN program = DOMAIN RelKinds,
         program = [k \in DOMAIN RelKinds |-> program[k]],
         \A k \in DOMAIN RelKinds : Sound(op, program[k])
  PROVE  SoundProgram(op, program)
<1>1. DOMAIN RelKinds = 1 .. Len(RelKinds) /\ Len(RelKinds) \in Nat
  BY RelKindsAssumption
<1>2. program \in [1 .. Len(RelKinds) -> Range(program)]
  BY <1>1 DEF Range
<1> QED
  BY <1>1, <1>2, SoundEach

\* The programs that write.
LEMMA SoundRemove ==
  ASSUME NEW op, op.do \in Writing, NEW file
  PROVE  SoundProgram(op, RemoveFile(file))
<1> DEFINE loop == [k \in DOMAIN RelKinds |->
                      [do |-> "deleteRels", words |-> Deleting, kind |-> RelKinds[k],
                       file |-> file]]
           last == [do |-> "deleteNodes", words |-> Deleting, file |-> file]
<1>1. \A k \in DOMAIN RelKinds : Sound(op, loop[k])
  BY KnownWords DEF Sound, BlockedWords
<1>2. Sound(op, last)
  BY KnownWords DEF Sound, BlockedWords
<1>3. SoundProgram(op, loop)
  <2> HIDE DEF last
  <2>1. DOMAIN loop = DOMAIN RelKinds /\ loop = [k \in DOMAIN RelKinds |-> loop[k]]
    OBVIOUS
  <2> HIDE DEF loop
  <2> QED
    BY <1>1, <2>1, SoundRelLoop
<1>4. SoundProgram(op, <<last>>)
  BY <1>2, SoundOne
<1>5. RemoveFile(file) = loop \o <<last>>
  BY DEF RemoveFile
<1> HIDE DEF loop, last
<1> QED
  BY <1>3, <1>4, <1>5, SoundConcat

\* The batches are numbered from one.
LEMMA BatchCount ==
  ASSUME NEW places, IsFiniteSet(places)
  PROVE  \E n \in Nat : DOMAIN Batches(places) = 1 .. n
<1>1. Cardinality(places) \in Nat
  BY FS_CardinalityType
<1>2. (Cardinality(places) + BatchSize - 1) \div BatchSize \in Nat
  BY <1>1, BatchAssumption
<1> QED
  BY <1>2 DEF Batches

LEMMA SoundLoadNodes ==
  ASSUME NEW op, op.do \in Writing, NEW nodes \in Seq(Node)
  PROVE  SoundProgram(op, BulkLoadNodes(nodes))
<1>1. IsFiniteSet(DOMAIN nodes)
  BY FS_Interval
<1>2. PICK n \in Nat : DOMAIN Batches(DOMAIN nodes) = 1 .. n
  BY <1>1, BatchCount
<1> DEFINE program == BulkLoadNodes(nodes)
<1>3. /\ program \in [1 .. n -> Range(program)]
      /\ \A i \in 1 .. n : program[i].do = "copyNodes" /\ program[i].words = <<"COPY">>
  BY <1>2 DEF BulkLoadNodes, Range
<1>4. \A i \in 1 .. n : IsFiniteSet(program[i].rows)
  <2> TAKE i \in 1 .. n
  <2> DEFINE batch == Batches(DOMAIN nodes)[i]
  <2>1. batch \in SUBSET DOMAIN nodes
    BY <1>2 DEF Batches
  <2>2. IsFiniteSet(batch)
    BY <1>1, <2>1, FS_Subset
  <2>3. program[i].rows = {Encoded(nodes[k]) : k \in batch}
    BY <1>2 DEF BulkLoadNodes
  <2> DEFINE f == [k \in batch |-> Encoded(nodes[k])]
  <2>4. program[i].rows = Range(f) /\ f \in [batch -> Range(f)]
    BY <2>3 DEF Range
  <2>5. f \in Surjection(batch, Range(f))
    BY <2>4 DEF Surjection, Range
  <2> HIDE DEF batch, f, program
  <2> QED
    BY <2>2, <2>4, <2>5, FS_Surjection
<1>5. \A i \in 1 .. n : Sound(op, program[i])
  BY <1>3, <1>4, KnownWords DEF Sound, BlockedWords
<1> HIDE DEF program
<1>6. SoundProgram(op, program)
  BY <1>3, <1>5, SoundEach
<1> QED
  BY <1>6 DEF program

LEMMA SoundEdgeGroup ==
  ASSUME NEW op, op.do \in Writing, NEW edges \in Seq(Edge), NEW kind
  PROVE  SoundProgram(op, CopyEdgeGroup(kind, edges))
<1> DEFINE places == {i \in DOMAIN edges : edges[i].kind = kind}
<1>1. IsFiniteSet(places)
  BY FS_Interval, FS_Subset
<1>2. PICK n \in Nat : DOMAIN Batches(places) = 1 .. n
  BY <1>1, BatchCount
<1> DEFINE program == CopyEdgeGroup(kind, edges)
<1>3. /\ program \in [1 .. n -> Range(program)]
      /\ \A i \in 1 .. n : program[i].do = "copyRels" /\ program[i].words = <<"COPY">>
  BY <1>2 DEF CopyEdgeGroup, Range
<1>4. \A i \in 1 .. n : program[i].rows \subseteq Edge
  <2> TAKE i \in 1 .. n
  <2>1. program[i].rows = {edges[k] : k \in Batches(places)[i]}
    BY <1>2 DEF CopyEdgeGroup
  <2>2. Batches(places)[i] \subseteq DOMAIN edges
    BY <1>2 DEF Batches
  <2>3. \A k \in DOMAIN edges : edges[k] \in Edge
    <3> HIDE DEF program
    <3> QED
      OBVIOUS
  <2> HIDE DEF program
  <2> QED
    BY <2>1, <2>2, <2>3
<1>5. \A i \in 1 .. n : Sound(op, program[i])
  BY <1>3, <1>4, KnownWords DEF Sound, BlockedWords, Edge
<1> HIDE DEF program
<1>6. SoundProgram(op, program)
  BY <1>3, <1>5, SoundEach
<1> QED
  BY <1>6 DEF program

LEMMA SoundLoadEdges ==
  ASSUME NEW op, op.do \in Writing, NEW edges \in Seq(Edge)
  PROVE  SoundProgram(op, BulkLoadEdges(edges))
<1> DEFINE groups == [k \in DOMAIN RelKinds |-> CopyEdgeGroup(RelKinds[k], edges)]
           n == Len(RelKinds)
<1>1. DOMAIN RelKinds = 1 .. n /\ n \in Nat
  BY RelKindsAssumption
<1>2. /\ DOMAIN groups = 1 .. n
      /\ groups = [k \in 1 .. n |-> groups[k]]
      /\ \A k \in 1 .. n : SoundProgram(op, groups[k])
  BY <1>1, SoundEdgeGroup
<1>3. BulkLoadEdges(edges) = FlattenSeq(groups)
  BY DEF BulkLoadEdges
<1> HIDE DEF groups
<1> QED
  BY <1>1, <1>2, <1>3, SoundFlattening

\* CreateIndexes changes indexes, with words the gate knows.
LEMMA SoundIndex ==
  ASSUME NEW op
  PROVE  SoundProgram(op, CreateIndexes)
<1> DEFINE first == [do |-> "fts", words |-> <<"INSTALL">>]
           second == [do |-> "fts", words |-> <<"LOAD EXTENSION">>]
           drops == [i \in DOMAIN Indexes |->
                       [do |-> "dropIndex", words |-> <<"CALL drop_fts_index">>,
                        index |-> Indexes[i]]]
           creates == [i \in DOMAIN Indexes |->
                         [do |-> "createIndex", words |-> <<"CALL create_fts_index">>,
                          index |-> Indexes[i]]]
<1>1. DOMAIN Indexes = 1 .. 2
  BY DEF Indexes
<1>2. SoundProgram(op, <<first, second>>)
  <2>1. \A i \in 1 .. 2 : Sound(op, <<first, second>>[i])
    <3>1. Sound(op, first) /\ Sound(op, second)
      BY KnownWords DEF Sound, Changing, GraphChanging, OtherCalls
    <3> HIDE DEF first, second
    <3> QED
      BY <3>1
  <2> HIDE DEF first, second
  <2>2. <<first, second>> \in [1 .. 2 -> {first, second}]
    OBVIOUS
  <2> QED
    BY <2>1, <2>2, SoundEach
<1>3. SoundProgram(op, drops)
  <2>1. \A i \in 1 .. 2 : Sound(op, drops[i])
    BY <1>1, KnownWords DEF Sound, Changing, GraphChanging, OtherCalls
  <2>2. drops \in [1 .. 2 -> Range(drops)]
    BY <1>1 DEF Range
  <2> HIDE DEF drops
  <2> QED
    BY <2>1, <2>2, SoundEach
<1>4. SoundProgram(op, creates)
  <2>1. \A i \in 1 .. 2 : Sound(op, creates[i])
    BY <1>1, KnownWords DEF Sound, Changing, GraphChanging, OtherCalls
  <2>2. creates \in [1 .. 2 -> Range(creates)]
    BY <1>1 DEF Range
  <2> HIDE DEF creates
  <2> QED
    BY <2>1, <2>2, SoundEach
<1>5. CreateIndexes = (<<first, second>> \o drops) \o creates
  BY DEF CreateIndexes
<1> HIDE DEF first, second, drops, creates
<1> QED
  BY <1>2, <1>3, <1>4, <1>5, SoundConcat

\* WipeLinkerEdges issues nothing if there is no source to wipe.
LEMMA SoundWipe ==
  ASSUME NEW op, op.do \in Writing, NEW sources
  PROVE  SoundProgram(op, WipeLinkerEdges(sources))
<1> DEFINE loop == [k \in DOMAIN RelKinds |->
                      [do |-> "wipeRels", words |-> Deleting, kind |-> RelKinds[k],
                       sources |-> sources]]
           last == [do |-> "wipeNodes", words |-> Deleting, sources |-> sources]
<1>1. \A k \in DOMAIN RelKinds : Sound(op, loop[k])
  BY KnownWords DEF Sound
<1>2. Sound(op, last)
  BY KnownWords DEF Sound
<1>3. SoundProgram(op, loop)
  <2> HIDE DEF last
  <2>1. DOMAIN loop = DOMAIN RelKinds /\ loop = [k \in DOMAIN RelKinds |-> loop[k]]
    OBVIOUS
  <2> HIDE DEF loop
  <2> QED
    BY <1>1, <2>1, SoundRelLoop
<1>4. SoundProgram(op, <<last>>)
  BY <1>2, SoundOne
<1>5. SoundProgram(op, <<>>)
  BY DEF SoundProgram, Range
<1>6. WipeLinkerEdges(sources) = IF sources = {} THEN <<>> ELSE loop \o <<last>>
  BY DEF WipeLinkerEdges
<1> HIDE DEF loop, last
<1> QED
  BY <1>3, <1>4, <1>5, <1>6, SoundConcat

\* LoadAllNodes and LoadAllEdges only read.
LEMMA SoundLoad ==
  ASSUME NEW op
  PROVE  SoundProgram(op, LoadAllNodes \o LoadAllEdges)
<1> DEFINE first == [do |-> "nodes", words |-> Reading]
<1>1. Sound(op, first)
  BY KnownWords DEF Sound, Changing, GraphChanging
<1>2. SoundProgram(op, LoadAllNodes)
  <2> HIDE DEF first
  <2>1. SoundProgram(op, <<first>>)
    BY <1>1, SoundOne
  <2> QED
    BY <2>1 DEF LoadAllNodes, first
<1>3. SoundProgram(op, LoadAllEdges)
  <2>1. \A k \in DOMAIN RelKinds : Sound(op, LoadAllEdges[k])
    BY KnownWords DEF LoadAllEdges, Sound, Changing, GraphChanging
  <2>2. /\ DOMAIN LoadAllEdges = DOMAIN RelKinds
        /\ LoadAllEdges = [k \in DOMAIN RelKinds |-> LoadAllEdges[k]]
    BY DEF LoadAllEdges
  <2> QED
    BY <2>1, <2>2, SoundRelLoop
<1> QED
  BY <1>2, <1>3, SoundConcat

LEMMA SoundInsert ==
  ASSUME NEW op, op.do \in Writing, NEW nodes \in Seq(Node), NEW edges \in Seq(Edge)
  PROVE  SoundProgram(op, InsertFile(nodes, edges))
BY SoundLoadNodes, SoundLoadEdges, SoundConcat DEF InsertFile

LEMMA SoundReplace ==
  ASSUME NEW op, op.do \in Writing, NEW file, NEW nodes \in Seq(Node),
         NEW edges \in Seq(Edge)
  PROVE  SoundProgram(op, ReplaceFile(file, nodes, edges))
BY SoundInsert, SoundRemove, SoundConcat DEF ReplaceFile

\* The programs of one statement that only reads.
LEMMA SoundReads ==
  ASSUME NEW op
  PROVE  /\ \A id, outgoing : SoundProgram(op, Neighbors(id, outgoing))
         /\ \A key : SoundProgram(op, CountBy(key))
         /\ \A id : SoundProgram(op, FindByID(id))
         /\ \A kind, offset, limit : SoundProgram(op, Page(kind, offset, limit))
         /\ SoundProgram(op, <<[do |-> "close", words |-> <<>>]>>)
<1>1. ASSUME NEW id, NEW outgoing
      PROVE  SoundProgram(op, Neighbors(id, outgoing))
  <2> DEFINE st == [do |-> "neighbors", words |-> Reading, id |-> id, outgoing |-> outgoing]
  <2>1. Sound(op, st)
    BY KnownWords DEF Sound, Changing, GraphChanging
  <2>2. Neighbors(id, outgoing) = <<st>>
    BY DEF Neighbors
  <2> HIDE DEF st
  <2> QED
    BY <2>1, <2>2, SoundOne
<1>2. ASSUME NEW key
      PROVE  SoundProgram(op, CountBy(key))
  <2> DEFINE st == [do |-> "count", words |-> Reading, key |-> key]
  <2>1. Sound(op, st)
    BY KnownWords DEF Sound, Changing, GraphChanging
  <2>2. CountBy(key) = <<st>>
    BY DEF CountBy
  <2> HIDE DEF st
  <2> QED
    BY <2>1, <2>2, SoundOne
<1>3. ASSUME NEW id
      PROVE  SoundProgram(op, FindByID(id))
  <2> DEFINE st == [do |-> "byId", words |-> Reading, id |-> id]
  <2>1. Sound(op, st)
    BY KnownWords DEF Sound, Changing, GraphChanging
  <2>2. FindByID(id) = <<st>>
    BY DEF FindByID
  <2> HIDE DEF st
  <2> QED
    BY <2>1, <2>2, SoundOne
<1>4. ASSUME NEW kind, NEW offset, NEW limit
      PROVE  SoundProgram(op, Page(kind, offset, limit))
  <2> DEFINE st == [do |-> "page", words |-> Reading, kind |-> kind,
                    skip |-> Max({0, offset}), limit |-> Max({0, limit})]
  <2>1. Sound(op, st)
    BY KnownWords DEF Sound, Changing, GraphChanging
  <2>2. Page(kind, offset, limit) = <<st>>
    BY DEF Page
  <2> HIDE DEF st
  <2> QED
    BY <2>1, <2>2, SoundOne
<1>5. SoundProgram(op, <<[do |-> "close", words |-> <<>>]>>)
  <2> DEFINE st == [do |-> "close", words |-> <<>>]
  <2>1. Sound(op, st)
    BY KnownWords DEF Sound, Changing, GraphChanging
  <2> HIDE DEF st
  <2>2. SoundProgram(op, <<st>>)
    BY <2>1, SoundOne
  <2> QED
    BY <2>2 DEF st
<1> QED
  BY <1>1, <1>2, <1>3, <1>4, <1>5

\* The text a client sends is its own.
LEMMA SoundCypher ==
  ASSUME NEW op, op.do = "cypher", op.words \in Seq(STRING), NEW max
  PROVE  SoundProgram(op, CypherRows(op.words, max))
<1> DEFINE st == [do |-> "rows", words |-> op.words, max |-> IF max <= 0 THEN 1 ELSE max]
<1>1. op.words \in Seq(Range(op.words))
  BY DEF Range
<1>2. Sound(op, st)
  BY <1>1 DEF Sound, Changing, GraphChanging
<1>3. CypherRows(op.words, max) = <<st>>
  BY DEF CypherRows
<1> HIDE DEF st
<1> QED
  BY <1>2, <1>3, SoundOne

\* A search is one statement.
LEMMA SoundSearch ==
  ASSUME NEW op, op.do = "search", NEW index, NEW needle, NEW limit
  PROVE  /\ SoundProgram(op, Search(index, needle, limit))
         /\ Len(Search(index, needle, limit)) = 1
<1> DEFINE st == [do |-> "search", words |-> <<"CALL query_fts_index">>, index |-> index,
                  needle |-> needle, limit |-> Max({0, limit})]
<1>1. Sound(op, st)
  BY KnownWords DEF Sound, Changing, GraphChanging
<1>2. Search(index, needle, limit) = <<st>>
  BY DEF Search
<1> HIDE DEF st
<1> QED
  BY <1>1, <1>2, SoundOne

\* Every program of an operation is sound.
LEMMA ProgramsAreSound ==
  ASSUME NEW op \in Operations
  PROVE  SoundProgram(op, Program(op))
<1>1. CASE op.do = "insert"
  <2>1. Program(op) = InsertFile(op.nodes, op.edges)
    BY <1>1 DEF Program
  <2>2. op.nodes \in Seq(Node) /\ op.edges \in Seq(Edge)
    BY <1>1, OperationAssumption
  <2> QED
    BY <1>1, <2>1, <2>2, SoundInsert DEF Writing
<1>2. CASE op.do = "remove"
  <2>1. Program(op) = RemoveFile(op.file)
    BY <1>2 DEF Program
  <2> QED
    BY <1>2, <2>1, SoundRemove DEF Writing
<1>3. CASE op.do = "replace"
  <2>1. Program(op) = ReplaceFile(op.file, op.nodes, op.edges)
    BY <1>3 DEF Program
  <2>2. op.nodes \in Seq(Node) /\ op.edges \in Seq(Edge)
    BY <1>3, OperationAssumption
  <2> QED
    BY <1>3, <2>1, <2>2, SoundReplace DEF Writing
<1>4. CASE op.do = "wipe"
  <2>1. Program(op) = WipeLinkerEdges(op.sources)
    BY <1>4 DEF Program
  <2> QED
    BY <1>4, <2>1, SoundWipe DEF Writing
<1>5. CASE op.do = "index"
  BY <1>5, SoundIndex DEF Program
<1>6. CASE op.do = "load"
  BY <1>6, SoundLoad DEF Program
<1>7. CASE op.do = "cypher"
  <2>1. Program(op) = CypherRows(op.words, op.max)
    BY <1>7 DEF Program
  <2> QED
    BY <1>7, <2>1, OperationAssumption, SoundCypher
<1>8. CASE op.do = "search"
  <2>1. Program(op) = Search(op.index, op.needle, op.limit)
    BY <1>8 DEF Program
  <2> QED
    BY <1>8, <2>1, SoundSearch
<1>9. CASE op.do = "neighbors"
  BY <1>9, SoundReads DEF Program
<1>10. CASE op.do = "count"
  BY <1>10, SoundReads DEF Program
<1>11. CASE op.do = "find"
  BY <1>11, SoundReads DEF Program
<1>12. CASE op.do = "page"
  BY <1>12, SoundReads DEF Program
<1>13. CASE op.do = "close"
  BY <1>13, SoundReads DEF Program
<1> QED
  BY <1>1, <1>2, <1>3, <1>4, <1>5, <1>6, <1>7, <1>8, <1>9, <1>10, <1>11, <1>12, <1>13,
     OperationAssumption

\* What a statement may do to the database.
LEMMA OnlyWordsChange ==
  ASSUME NEW op, NEW st, Sound(op, st), NEW d, ~ Mutates(st.words)
  PROVE  After(d, st) = d
BY DEF After, Sound, Changing, GraphChanging

\* A call that is no writer leaves nodes and edges alone.
LEMMA OnlyWritersChange ==
  ASSUME NEW op \in Operations, NEW st, Sound(op, st), ~ Writes(op),
         st.do = "rows" => st.words = op.words,
         NEW d, d = [nodes |-> d.nodes, rels |-> d.rels, indexes |-> d.indexes]
  PROVE  After(d, st).nodes = d.nodes /\ After(d, st).rels = d.rels
BY DEF After, Sound, Writes, GraphChanging

-----------------------------------------------------------------------------
(* A call follows its program *)

\* A call, field by field.
IsCall(r) ==
  r = [op |-> r.op, todo |-> r.todo, rows |-> r.rows, truncated |-> r.truncated,
       err |-> r.err, before |-> r.before, count |-> r.count]

\* The variables, in their ranges.
Shape == /\ at \in [Callers -> Phases]
         /\ readOnly \in BOOLEAN /\ open \in BOOLEAN
         /\ calls = [d \in Callers |-> calls[d]]
         /\ \A d \in Callers : IsCall(calls[d])

\* How many statements of its program a call has behind it.
Done(call) == Len(Program(call.op)) - Len(call.todo)

\* s is what is left of the sequence P.
IsRest(s, P) ==
  /\ s \in Seq(Range(P))
  /\ Len(P) - Len(s) \in Nat
  /\ \A i \in 1 .. Len(s) : s[i] = P[Len(P) - Len(s) + i]

\* What is left to do is the end of the program, or the fallback of a search.
OnCourse(call) == IsRest(call.todo, Program(call.op))

FallenBack(call) ==
  /\ call.op.do = "search"
  /\ call.todo = <<SearchFallback(Program(call.op)[1])>>

\* A call in hand: it follows its program, and with an error nothing is left.
CallInv(call) ==
  /\ call.op \in Operations
  /\ OnCourse(call) \/ FallenBack(call)
  /\ call.err = "" \/ call.todo = <<>>

Inside == {"lock", "check", "run", "fetch"}

\* A caller at each step of a statement: a statement that reached Kuzu on a
\* read-only store has passed the gate, and only CypherRows fetches.
CallerInv(c) ==
  /\ at[c] = "idle" => calls[c].op = NoOp
  /\ at[c] # "idle" => CallInv(calls[c])
  /\ at[c] \in Inside => calls[c].todo # <<>>
  /\ at[c] = "returned" => calls[c].todo = <<>>
  /\ at[c] = "run" /\ readOnly => ~ Mutates(St(c).words)
  /\ at[c] = "fetch" => St(c).do = "rows"
  /\ at[c] = "run" => St(c).do # "close"

\* Enrich is the single writer.
WriterAlone ==
  \A c, d \in Callers : Writes(calls[c].op) /\ Writes(calls[d].op) => c = d

CallsInv == Shape /\ WriterAlone /\ \A c \in Callers : CallerInv(c)

\* A program is a sequence of sound statements.
LEMMA ProgramSeq ==
  ASSUME NEW op \in Operations
  PROVE  /\ Program(op) \in Seq(Range(Program(op)))
         /\ Len(Program(op)) \in Nat /\ DOMAIN Program(op) = 1 .. Len(Program(op))
         /\ \A i \in DOMAIN Program(op) : Sound(op, Program(op)[i])
<1>1. Program(op) \in Seq(Range(Program(op)))
  BY ProgramsAreSound DEF SoundProgram
<1>2. Len(Program(op)) \in Nat /\ DOMAIN Program(op) = 1 .. Len(Program(op))
  BY <1>1
<1>3. \A st \in Range(Program(op)) : Sound(op, st)
  BY ProgramsAreSound DEF SoundProgram
<1> QED
  BY <1>1, <1>2, <1>3 DEF Range

\* What is left of a sequence, one element after another.
LEMMA RestSteps ==
  ASSUME NEW P, P \in Seq(Range(P))
  PROVE  /\ IsRest(P, P) /\ Len(P) - Len(P) = 0
         /\ IsRest(<<>>, P)
         /\ \A s : IsRest(s, P) /\ s # <<>> =>
              /\ Len(s) \in Nat \ {0}
              /\ Len(P) - Len(s) + 1 \in 1 .. Len(P)
              /\ Head(s) = P[Len(P) - Len(s) + 1]
              /\ IsRest(Tail(s), P)
              /\ Len(P) - Len(Tail(s)) = Len(P) - Len(s) + 1
<1>0. Len(P) \in Nat
  OBVIOUS
<1>1. IsRest(P, P) /\ IsRest(<<>>, P) /\ Len(P) - Len(P) = 0
  BY <1>0 DEF IsRest
<1>2. ASSUME NEW s, IsRest(s, P), s # <<>>
      PROVE  /\ Len(s) \in Nat \ {0}
             /\ Len(P) - Len(s) + 1 \in 1 .. Len(P)
             /\ Head(s) = P[Len(P) - Len(s) + 1]
             /\ IsRest(Tail(s), P)
             /\ Len(P) - Len(Tail(s)) = Len(P) - Len(s) + 1
  <2> DEFINE m == Len(P) - Len(s)
             t == Tail(s)
  <2>1. s \in Seq(Range(P)) /\ m \in Nat /\ \A i \in 1 .. Len(s) : s[i] = P[m + i]
    BY <1>2 DEF IsRest
  <2>2. /\ Len(s) \in Nat \ {0} /\ Head(s) = s[1]
        /\ t \in Seq(Range(P)) /\ Len(t) = Len(s) - 1
        /\ \A i \in 1 .. Len(t) : t[i] = s[i + 1]
    BY <1>2, <2>1
  <2>3. m = Len(P) - Len(s) /\ Len(P) - Len(t) = m + 1
    BY <1>0, <2>2
  <2> HIDE DEF m, t
  <2>4. \A i \in 1 .. Len(t) : t[i] = P[(m + 1) + i]
    <3> TAKE i \in 1 .. Len(t)
    <3>1. i + 1 \in 1 .. Len(s) /\ m + (i + 1) = (m + 1) + i
      BY <2>1, <2>2
    <3> QED
      BY <2>1, <2>2, <3>1
  <2>5. IsRest(t, P)
    BY <2>1, <2>2, <2>3, <2>4 DEF IsRest
  <2>6. m + 1 \in 1 .. Len(P)
    BY <1>0, <2>1, <2>2, <2>3
  <2>7. Head(s) = P[m + 1]
    BY <2>1, <2>2
  <2> QED
    BY <2>2, <2>3, <2>5, <2>6, <2>7 DEF t, m
<1> QED
  BY <1>1, <1>2

\* The statement a call is at is one of its program, or the fallback.
LEMMA HeadOfTodo ==
  ASSUME NEW call, CallInv(call), call.todo # <<>>
  PROVE  /\ Sound(call.op, Head(call.todo))
         /\ OnCourse(call) =>
              /\ Len(call.todo) \in Nat \ {0}
              /\ Done(call) + 1 \in 1 .. Len(Program(call.op))
              /\ Head(call.todo) = Program(call.op)[Done(call) + 1]
         /\ FallenBack(call) => Head(call.todo).do = "contains"
<1> DEFINE P == Program(call.op)
<1>1. P \in Seq(Range(P)) /\ DOMAIN P = 1 .. Len(P)
  BY ProgramSeq DEF CallInv
<1>2. OnCourse(call) =>
        /\ Len(call.todo) \in Nat \ {0}
        /\ Done(call) + 1 \in 1 .. Len(P)
        /\ Head(call.todo) = P[Done(call) + 1]
  BY <1>1, RestSteps, Zenon DEF OnCourse, Done
<1>3. OnCourse(call) => Sound(call.op, Head(call.todo))
  BY <1>1, <1>2, ProgramSeq DEF CallInv
<1>4. FallenBack(call) =>
        Head(call.todo).do = "contains" /\ Head(call.todo).words = Reading
  BY DEF FallenBack, SearchFallback
<1>5. FallenBack(call) => Sound(call.op, Head(call.todo))
  BY <1>4, KnownWords DEF Sound, Changing, GraphChanging
<1> HIDE DEF P
<1> QED
  BY <1>2, <1>3, <1>4, <1>5 DEF CallInv, P

\* The call after its last statement.
LEMMA NothingLeft ==
  ASSUME NEW call, call.op \in Operations, call.todo = <<>>
  PROVE  CallInv(call) /\ OnCourse(call)
<1>1. Program(call.op) \in Seq(Range(Program(call.op)))
  BY ProgramSeq
<1>2. IsRest(<<>>, Program(call.op))
  BY <1>1, RestSteps
<1> QED
  BY <1>2, Zenon DEF CallInv, OnCourse

\* The call after a statement.
LEMMA TailOnCourse ==
  ASSUME NEW call, CallInv(call), call.todo # <<>>, NEW next, next.op = call.op,
         next.todo = Tail(call.todo), next.err = call.err
  PROVE  /\ CallInv(next)
         /\ OnCourse(call) => OnCourse(next) /\ Done(next) = Done(call) + 1
<1>0. call.op \in Operations /\ call.err = ""
  BY DEF CallInv
<1>1. Program(call.op) \in Seq(Range(Program(call.op)))
  BY <1>0, ProgramSeq
<1>2. OnCourse(call) => OnCourse(next) /\ Done(next) = Done(call) + 1
  BY <1>1, RestSteps, Zenon DEF OnCourse, Done
<1>3. FallenBack(call) => next.todo = <<>>
  BY DEF FallenBack
<1> QED
  BY <1>0, <1>2, <1>3, NothingLeft DEF CallInv

\* A call starts with its whole program.
LEMMA StartOnCourse ==
  ASSUME NEW call, call.op \in Operations, call.todo = Program(call.op), call.err = ""
  PROVE  CallInv(call) /\ OnCourse(call) /\ Done(call) = 0
<1>1. Program(call.op) \in Seq(Range(Program(call.op)))
  BY ProgramSeq
<1>2. OnCourse(call) /\ Done(call) = 0
  BY <1>1, RestSteps, Zenon DEF OnCourse, Done
<1> QED
  BY <1>2 DEF CallInv

\* A search falls back to its one other statement.
LEMMA SearchOnCourse ==
  ASSUME NEW call, CallInv(call), call.todo # <<>>, Head(call.todo).do = "search",
         NEW next, next.op = call.op, next.todo = <<SearchFallback(Head(call.todo))>>,
         next.err = call.err
  PROVE  CallInv(next) /\ FallenBack(next)
<1>1. OnCourse(call) /\ call.op \in Operations
  BY HeadOfTodo DEF CallInv
<1>2. call.op.do = "search"
  BY HeadOfTodo DEF Sound
<1>3. Program(call.op) = Search(call.op.index, call.op.needle, call.op.limit)
  BY <1>2 DEF Program
<1>4. Len(Program(call.op)) = 1
  BY <1>2, <1>3, SoundSearch
<1>5. Head(call.todo) = Program(call.op)[1]
  <2>1. Done(call) + 1 \in 1 .. 1 /\ Head(call.todo) = Program(call.op)[Done(call) + 1]
    BY <1>1, <1>4, HeadOfTodo
  <2> QED
    BY <1>1, <2>1 DEF OnCourse
<1>6. call.err = ""
  BY DEF CallInv
<1> QED
  BY <1>1, <1>2, <1>5, <1>6 DEF CallInv, FallenBack

\* The caller c goes on with the call `call`, and the others stay.
Continues(c, call) ==
  /\ calls' = [calls EXCEPT ![c] = call]
  /\ IsCall(call) /\ call.op = calls[c].op /\ call.before = calls[c].before
  /\ CallInv(call)

\* An error ends the call, except of a drop and of a search.
LEMMA ErrorContinues ==
  ASSUME Shape, NEW c \in Callers, CallerInv(c), at[c] \in Inside, NEW err, OnError(c, err)
  PROVE  \E call : /\ Unlocked(c, call) /\ Continues(c, call)
                   /\ call.err \in {"", err}
                   /\ St(c).do \notin {"dropIndex", "search"} => call.err = err /\ call.todo = <<>>
<1> DEFINE old == calls[c]
<1>1. /\ IsCall(old) /\ CallInv(old) /\ old.todo # <<>> /\ old.err = ""
      /\ old.op \in Operations
  BY DEF Shape, CallerInv, Inside, CallInv
<1> HIDE DEF old
<1>2. CASE St(c).do = "dropIndex"
  <2>0. PICK call : call = [old EXCEPT !.todo = Tail(@)]
    OBVIOUS
  <2>1. Unlocked(c, call)
    BY <1>2, <2>0, Zenon DEF OnError, old
  <2>2. /\ IsCall(call) /\ call.op = old.op /\ call.before = old.before
        /\ call.err = old.err /\ call.todo = Tail(old.todo)
    BY <1>1, <2>0 DEF IsCall
  <2>3. CallInv(call)
    BY <1>1, <2>2, TailOnCourse
  <2>4. calls' = [calls EXCEPT ![c] = call]
    BY <2>1 DEF Unlocked
  <2> QED
    BY <1>1, <1>2, <2>1, <2>2, <2>3, <2>4, Zenon DEF Continues, old
<1>3. CASE St(c).do = "search"
  <2>0. PICK call : call = [old EXCEPT !.todo = <<SearchFallback(St(c))>>]
    OBVIOUS
  <2>1. Unlocked(c, call)
    BY <1>3, <2>0, Zenon DEF OnError, old
  <2>2. /\ IsCall(call) /\ call.op = old.op /\ call.before = old.before
        /\ call.err = old.err /\ call.todo = <<SearchFallback(St(c))>>
    BY <1>1, <2>0 DEF IsCall
  <2>3. CallInv(call)
    BY <1>1, <1>3, <2>2, SearchOnCourse DEF St, old
  <2>4. calls' = [calls EXCEPT ![c] = call]
    BY <2>1 DEF Unlocked
  <2> QED
    BY <1>1, <1>3, <2>1, <2>2, <2>3, <2>4, Zenon DEF Continues, old
<1>4. CASE St(c).do \notin {"dropIndex", "search"}
  <2>0. PICK call : call = [old EXCEPT !.todo = <<>>, !.err = err]
    OBVIOUS
  <2>1. Unlocked(c, call)
    BY <1>4, <2>0 DEF OnError, Fails, old
  <2>2. /\ IsCall(call) /\ call.op = old.op /\ call.before = old.before
        /\ call.err = err /\ call.todo = <<>>
    BY <1>1, <2>0 DEF IsCall
  <2>3. CallInv(call)
    BY <1>1, <2>2, NothingLeft
  <2>4. calls' = [calls EXCEPT ![c] = call]
    BY <2>1 DEF Unlocked
  <2> QED
    BY <1>1, <1>4, <2>1, <2>2, <2>3, <2>4, Zenon DEF Continues, old
<1> QED
  BY <1>2, <1>3, <1>4

\* What the others are at, when one call goes on.
LEMMA OthersStay ==
  ASSUME CallsInv, NEW c \in Callers, NEW call, calls' = [calls EXCEPT ![c] = call],
         IsCall(call), NEW p \in Phases, at' = [at EXCEPT ![c] = p],
         readOnly' = readOnly, open' \in BOOLEAN
  PROVE  /\ Shape' /\ calls'[c] = call /\ at'[c] = p
         /\ \A d \in Callers \ {c} : /\ calls'[d] = calls[d] /\ at'[d] = at[d]
                                     /\ St(d)' = St(d) /\ CallerInv(d)'
<1>1. /\ calls = [d \in Callers |-> calls[d]] /\ at \in [Callers -> Phases]
      /\ \A d \in Callers : IsCall(calls[d])
  BY DEF CallsInv, Shape
<1>2. /\ calls'[c] = call /\ at'[c] = p
      /\ \A d \in Callers \ {c} : calls'[d] = calls[d] /\ at'[d] = at[d]
      /\ calls' = [d \in Callers |-> calls'[d]] /\ at' \in [Callers -> Phases]
  BY <1>1
<1>3. Shape'
  BY <1>1, <1>2 DEF Shape, CallsInv
<1>4. ASSUME NEW d \in Callers \ {c}
      PROVE  St(d)' = St(d) /\ CallerInv(d)'
  <2>1. calls'[d] = calls[d] /\ at'[d] = at[d] /\ CallerInv(d)
    BY <1>2 DEF CallsInv
  <2> QED
    BY <2>1 DEF St, CallerInv
<1> QED
  BY <1>2, <1>3, <1>4

LEMMA UnlockedKeepsCalls ==
  ASSUME CallsInv, NEW c \in Callers, NEW call, Unlocked(c, call), Continues(c, call),
         readOnly' = readOnly, open' \in BOOLEAN
  PROVE  CallsInv'
<1> DEFINE p == IF call.todo = <<>> THEN "returned" ELSE "lock"
<1>1. p \in {"returned", "lock"} /\ at' = [at EXCEPT ![c] = p]
  BY DEF Unlocked
<1>2. /\ Shape' /\ calls'[c] = call /\ at'[c] = p
      /\ \A d \in Callers \ {c} : calls'[d] = calls[d] /\ CallerInv(d)'
  BY <1>1, OthersStay, Zenon DEF Continues, Phases
<1>3. CallerInv(c)'
  BY <1>2 DEF CallerInv, Continues, Inside
<1>4. WriterAlone'
  <2>1. \A d \in Callers : calls'[d].op = calls[d].op
    BY <1>2 DEF Continues
  <2> QED
    BY <2>1 DEF WriterAlone, CallsInv
<1> QED
  BY <1>2, <1>3, <1>4 DEF CallsInv

\* Steps that leave the call alone.
LEMMA MoveKeepsCalls ==
  ASSUME CallsInv, NEW c \in Callers, NEW p \in Phases, at' = [at EXCEPT ![c] = p],
         UNCHANGED <<calls, readOnly, open>>, CallerInv(c)'
  PROVE  CallsInv'
<1>1. calls' = [calls EXCEPT ![c] = calls[c]] /\ IsCall(calls[c])
  BY DEF CallsInv, Shape
<1>2. /\ Shape'
      /\ \A d \in Callers \ {c} : CallerInv(d)'
  BY <1>1, OthersStay DEF CallsInv, Shape
<1>3. WriterAlone'
  BY DEF WriterAlone, CallsInv
<1> QED
  BY <1>2, <1>3 DEF CallsInv

\* A new call has its whole program before it.
LEMMA CallStarts ==
  ASSUME CallsInv, NEW c \in Callers, NEW op \in Operations, Call(c, op)
  PROVE  /\ IsCall(calls'[c])
         /\ calls'[c].op = op /\ calls'[c].todo = Program(op) /\ calls'[c].before = db
         /\ calls'[c].err = "" /\ calls'[c].rows = <<>> /\ calls'[c].truncated = FALSE
         /\ CallInv(calls'[c]) /\ Done(calls'[c]) = 0 /\ OnCourse(calls'[c])
         /\ CallsInv'
<1>1. PICK call : call = [Idle EXCEPT !.op = op, !.todo = Program(op), !.before = db,
                                      !.count = calls[c].count + 1]
  OBVIOUS
<1>2. /\ IsCall(call) /\ call.op = op /\ call.todo = Program(op) /\ call.before = db
      /\ call.err = "" /\ call.rows = <<>> /\ call.truncated = FALSE
  BY <1>1 DEF Idle, IsCall
<1>3. CallInv(call) /\ OnCourse(call) /\ Done(call) = 0
  BY <1>2, StartOnCourse
<1>4. /\ calls' = [calls EXCEPT ![c] = call]
      /\ readOnly' = readOnly /\ open' = open
      /\ at[c] = "idle"
      /\ Writes(op) => \A d \in Callers : ~ Writes(calls[d].op)
  BY <1>1, Zenon DEF Call
<1> DEFINE p == IF Program(op) = <<>> THEN "returned" ELSE "lock"
<1>5. p \in Phases /\ at' = [at EXCEPT ![c] = p]
  BY DEF Call, Phases
<1>6. /\ Shape' /\ calls'[c] = call /\ at'[c] = p
      /\ \A d \in Callers \ {c} : calls'[d] = calls[d] /\ CallerInv(d)'
  <2>1. open' \in BOOLEAN
    BY <1>4 DEF CallsInv, Shape
  <2> QED
    BY <1>2, <1>4, <1>5, <2>1, OthersStay, Zenon
<1>7. CallerInv(c)'
  BY <1>2, <1>3, <1>6 DEF CallerInv, Inside
<1>8. WriterAlone'
  <2>1. calls'[c].op = op /\ \A d \in Callers \ {c} : calls'[d].op = calls[d].op
    BY <1>2, <1>6
  <2>2. \A d \in Callers \ {c} : Writes(op) => ~ Writes(calls[d].op)
    BY <1>4
  <2> QED
    BY <2>1, <2>2, Zenon DEF WriterAlone, CallsInv
<1> QED
  BY <1>2, <1>3, <1>6, <1>7, <1>8, Zenon DEF CallsInv

\* Lock, Check, Run, Fetch, the timeout and Return keep CallsInv.
LEMMA LockKeepsCalls ==
  ASSUME CallsInv, NEW c \in Callers, Lock(c)
  PROVE  CallsInv'
<1>1. /\ at[c] = "lock" /\ at' = [at EXCEPT ![c] = "check"] /\ at'[c] = "check"
      /\ UNCHANGED <<calls, readOnly, open>>
  BY DEF Lock, CallsInv, Shape
<1>2. CallerInv(c)'
  BY <1>1 DEF CallsInv, CallerInv, Inside
<1> QED
  BY <1>1, <1>2, MoveKeepsCalls DEF Phases

\* A statement that passes the gate of a read-only store changes nothing.
LEMMA PassesGate ==
  ASSUME NEW call, CallInv(call), call.todo # <<>>,
         MutationKeyword(Head(call.todo).words) = ""
  PROVE  ~ Mutates(Head(call.todo).words)
<1>1. Head(call.todo).words \in Seq(Range(Head(call.todo).words))
  BY HeadOfTodo DEF Sound
<1> QED
  BY <1>1, GateSound

LEMMA CheckKeepsCalls ==
  ASSUME CallsInv, NEW c \in Callers, Check(c)
  PROVE  CallsInv'
<1>0. /\ at[c] = "check" /\ CallerInv(c) /\ Shape /\ readOnly' = readOnly
      /\ at[c] \in Inside
  BY DEF Check, CallsInv, Inside
<1>1. ASSUME St(c).do = "close", Unlocked(c, [calls[c] EXCEPT !.todo = <<>>]),
             open' = FALSE
      PROVE  CallsInv'
  <2>1. PICK call : call = [calls[c] EXCEPT !.todo = <<>>]
    OBVIOUS
  <2>2. IsCall(calls[c]) /\ calls[c].op \in Operations
    BY <1>0 DEF Shape, CallerInv, CallInv
  <2>3. /\ IsCall(call) /\ call.op = calls[c].op /\ call.before = calls[c].before
        /\ call.todo = <<>>
    BY <2>1, <2>2 DEF IsCall
  <2>4. CallInv(call)
    BY <2>2, <2>3, NothingLeft
  <2>5. Unlocked(c, call)
    BY <1>1, <2>1
  <2>6. Continues(c, call)
    BY <2>3, <2>4, <2>5 DEF Continues, Unlocked
  <2> QED
    BY <1>0, <1>1, <2>5, <2>6, UnlockedKeepsCalls
<1>2. ASSUME NEW err, OnError(c, err), open' = open
      PROVE  CallsInv'
  <2>1. open' \in BOOLEAN
    BY <1>0, <1>2 DEF Shape
  <2> QED
    BY <1>0, <1>2, <2>1, ErrorContinues, UnlockedKeepsCalls
<1>3. ASSUME St(c).do # "close", ~ Blocked(c), at' = [at EXCEPT ![c] = "run"],
             UNCHANGED <<open, holder, calls>>
      PROVE  CallsInv'
  <2>1. at'[c] = "run" /\ UNCHANGED <<calls, readOnly, open>>
    BY <1>0, <1>3 DEF Shape
  <2>2. CallInv(calls[c]) /\ calls[c].todo # <<>>
    BY <1>0 DEF CallerInv
  <2>3. readOnly => ~ Mutates(St(c).words)
    BY <1>3, <2>2, PassesGate DEF Blocked, St
  <2>4. St(c)' = St(c)
    BY <2>1 DEF St
  <2>5. CallerInv(c)'
    BY <1>0, <1>3, <2>1, <2>2, <2>3, <2>4 DEF CallerInv, Inside
  <2> QED
    BY <1>3, <2>1, <2>5, MoveKeepsCalls DEF Phases
<1> QED
  BY <1>1, <1>2, <1>3 DEF Check

LEMMA RunKeepsCalls ==
  ASSUME CallsInv, NEW c \in Callers, Run(c)
  PROVE  CallsInv'
<1>0. /\ at[c] = "run" /\ CallerInv(c) /\ Shape /\ readOnly' = readOnly
      /\ at[c] \in Inside /\ open' = open /\ open \in BOOLEAN
  BY DEF Run, CallsInv, Inside, Shape
<1>1. ASSUME OnError(c, "refused")
      PROVE  CallsInv'
  BY <1>0, <1>1, ErrorContinues, UnlockedKeepsCalls
<1>2. ASSUME St(c).do = "rows", at' = [at EXCEPT ![c] = "fetch"],
             UNCHANGED <<holder, calls>>
      PROVE  CallsInv'
  <2>1. at'[c] = "fetch" /\ UNCHANGED <<calls, readOnly, open>> /\ St(c)' = St(c)
    BY <1>0, <1>2 DEF Shape, St
  <2>2. CallerInv(c)'
    BY <1>0, <1>2, <2>1 DEF CallerInv, Inside
  <2> QED
    BY <1>2, <2>1, <2>2, MoveKeepsCalls DEF Phases
<1>3. ASSUME Unlocked(c, [calls[c] EXCEPT !.todo = Tail(@),
                                          !.rows = @ \o Rows(db, St(c))])
      PROVE  CallsInv'
  <2>1. PICK call : call = [calls[c] EXCEPT !.todo = Tail(@),
                                            !.rows = @ \o Rows(db, St(c))]
    OBVIOUS
  <2>2. IsCall(calls[c]) /\ CallInv(calls[c]) /\ calls[c].todo # <<>>
    BY <1>0 DEF Shape, CallerInv
  <2>3. /\ IsCall(call) /\ call.op = calls[c].op /\ call.before = calls[c].before
        /\ call.todo = Tail(calls[c].todo) /\ call.err = calls[c].err
    BY <2>1, <2>2 DEF IsCall
  <2>4. CallInv(call)
    BY <2>2, <2>3, TailOnCourse
  <2>5. Unlocked(c, call)
    BY <1>3, <2>1
  <2>6. Continues(c, call)
    BY <2>3, <2>4, <2>5 DEF Continues, Unlocked
  <2> QED
    BY <1>0, <2>5, <2>6, UnlockedKeepsCalls
<1> QED
  BY <1>1, <1>2, <1>3 DEF Run

LEMMA FetchKeepsCalls ==
  ASSUME CallsInv, NEW c \in Callers, Fetch(c)
  PROVE  CallsInv'
<1> DEFINE all == Rows(db, St(c))
           got == Len(calls[c].rows)
<1>0. /\ at[c] = "fetch" /\ CallerInv(c) /\ Shape /\ readOnly' = readOnly
      /\ at[c] \in Inside /\ open' = open /\ open \in BOOLEAN
      /\ IsCall(calls[c]) /\ CallInv(calls[c]) /\ calls[c].op \in Operations
  BY DEF Fetch, CallsInv, Inside, Shape, CallerInv, CallInv
<1>1. ASSUME NEW call, Unlocked(c, call), IsCall(call), call.op = calls[c].op,
             call.before = calls[c].before, call.todo = <<>>
      PROVE  CallsInv'
  <2>1. CallInv(call)
    BY <1>0, <1>1, NothingLeft
  <2>2. Continues(c, call)
    BY <1>1, <2>1 DEF Continues, Unlocked
  <2> QED
    BY <1>0, <1>1, <2>2, UnlockedKeepsCalls
<1>2. CASE Unlocked(c, [calls[c] EXCEPT !.todo = <<>>])
  <2>1. PICK call : call = [calls[c] EXCEPT !.todo = <<>>]
    OBVIOUS
  <2>2. /\ IsCall(call) /\ call.op = calls[c].op /\ call.before = calls[c].before
        /\ call.todo = <<>>
    BY <1>0, <2>1 DEF IsCall
  <2> QED
    BY <1>1, <1>2, <2>1, <2>2
<1>3. CASE Unlocked(c, [calls[c] EXCEPT !.todo = <<>>, !.truncated = TRUE])
  <2>1. PICK call : call = [calls[c] EXCEPT !.todo = <<>>, !.truncated = TRUE]
    OBVIOUS
  <2>2. /\ IsCall(call) /\ call.op = calls[c].op /\ call.before = calls[c].before
        /\ call.todo = <<>>
    BY <1>0, <2>1 DEF IsCall
  <2> QED
    BY <1>1, <1>3, <2>1, <2>2
<1>4. CASE /\ calls' = [calls EXCEPT ![c].rows = Append(@, all[got + 1])]
           /\ UNCHANGED <<holder, at>>
  <2>1. PICK call : call = [calls[c] EXCEPT !.rows = Append(@, all[got + 1])]
    OBVIOUS
  <2>2. /\ IsCall(call) /\ call.op = calls[c].op /\ call.before = calls[c].before
        /\ call.todo = calls[c].todo /\ call.err = calls[c].err
    BY <1>0, <2>1 DEF IsCall
  <2>3. calls' = [calls EXCEPT ![c] = call]
    BY <1>4, <2>1 DEF Shape
  <2>4. at' = [at EXCEPT ![c] = at[c]] /\ at[c] \in Phases
    BY <1>0, <1>4 DEF Shape
  <2> HIDE DEF all, got
  <2>5. /\ Shape' /\ calls'[c] = call /\ at'[c] = at[c]
        /\ \A d \in Callers \ {c} : calls'[d] = calls[d] /\ CallerInv(d)'
    BY <1>0, <2>2, <2>3, <2>4, OthersStay, Zenon
  <2>6. CallInv(call)
    BY <1>0, <2>2 DEF CallInv, OnCourse, FallenBack, Done
  <2>7. St(c)' = St(c)
    BY <2>2, <2>5 DEF St
  <2>8. CallerInv(c)'
    BY <1>0, <2>2, <2>5, <2>6, <2>7 DEF CallerInv
  <2>9. WriterAlone'
    BY <2>2, <2>5 DEF WriterAlone, CallsInv
  <2> QED
    BY <2>5, <2>8, <2>9 DEF CallsInv
<1> QED
  BY <1>2, <1>3, <1>4 DEF Fetch

LEMMA TimeOutKeepsCalls ==
  ASSUME CallsInv, NEW c \in Callers, TimeOut(c)
  PROVE  CallsInv'
<1>1. /\ at[c] \in Inside /\ OnError(c, "timeout") /\ CallerInv(c) /\ Shape
      /\ readOnly' = readOnly /\ open' \in BOOLEAN
  BY DEF TimeOut, CallsInv, Shape, Inside
<1> QED
  BY <1>1, ErrorContinues, UnlockedKeepsCalls

LEMMA ReturnKeepsCalls ==
  ASSUME CallsInv, NEW c \in Callers, Return(c)
  PROVE  CallsInv'
<1>1. PICK call : call = [Idle EXCEPT !.count = calls[c].count]
  OBVIOUS
<1>2. IsCall(call) /\ call.op = NoOp
  BY <1>1 DEF Idle, IsCall
<1>3. /\ calls' = [calls EXCEPT ![c] = call] /\ at' = [at EXCEPT ![c] = "idle"]
      /\ readOnly' = readOnly /\ open' = open
  BY <1>1, Zenon DEF Return
<1>4. /\ Shape' /\ calls'[c] = call /\ at'[c] = "idle"
      /\ \A d \in Callers \ {c} : calls'[d] = calls[d] /\ CallerInv(d)'
  <2>1. "idle" \in Phases /\ open' \in BOOLEAN
    BY <1>3 DEF Phases, CallsInv, Shape
  <2> QED
    BY <1>2, <1>3, <2>1, OthersStay, Zenon
<1>5. CallerInv(c)'
  BY <1>2, <1>4 DEF CallerInv, Inside
<1>6. ~ Writes(NoOp)
  BY DEF NoOp, Writes, Writing
<1>7. WriterAlone'
  BY <1>2, <1>4, <1>6 DEF WriterAlone, CallsInv
<1> QED
  BY <1>4, <1>5, <1>7 DEF CallsInv

\* Nobody has called anything yet.
LEMMA InitCalls == Init => CallsInv
<1> SUFFICES ASSUME Init PROVE CallsInv
  OBVIOUS
<1>1. calls = [c \in Callers |-> Idle] /\ at = [c \in Callers |-> "idle"]
  BY DEF Init
<1>2. IsCall(Idle) /\ Idle.op = NoOp
  BY DEF IsCall, Idle
<1>3. ~ Writes(NoOp)
  BY DEF NoOp, Writes, Writing
<1>4. Shape
  BY <1>1, <1>2 DEF Init, Shape, Phases
<1> QED
  BY <1>1, <1>2, <1>3, <1>4 DEF CallsInv, WriterAlone, CallerInv, Inside

LEMMA NextKeepsCalls ==
  ASSUME CallsInv, [Next]_vars
  PROVE  CallsInv'
<1>1. CASE UNCHANGED vars
  BY <1>1 DEF vars, CallsInv, WriterAlone, CallerInv, Shape, St
<1>2. ASSUME NEW c \in Callers, NEW op \in Operations, Call(c, op) PROVE CallsInv'
  BY <1>2, CallStarts
<1>3. ASSUME NEW c \in Callers, Goroutine(c) PROVE CallsInv'
  BY <1>3, LockKeepsCalls, CheckKeepsCalls, RunKeepsCalls, FetchKeepsCalls,
     ReturnKeepsCalls DEF Goroutine
<1>4. ASSUME NEW c \in Callers, TimeOut(c) PROVE CallsInv'
  BY <1>4, TimeOutKeepsCalls
<1> QED
  BY <1>1, <1>2, <1>3, <1>4 DEF Next

\* A store opened read-only never changes what is on disk, whichever methods
\* are called by however many goroutines and whatever text a client sends
\* through CypherRows (Store.Cypher, CypherRows, MutationKeyword).
THEOREM GateHolds == Spec => ReadOnlyNeverWrites
<1>1. Spec => []CallsInv
  BY InitCalls, NextKeepsCalls, PTL DEF Spec
<1>2. CallsInv /\ [Next]_vars => [readOnly => UNCHANGED db]_vars
  <2> SUFFICES ASSUME CallsInv, Next, readOnly PROVE UNCHANGED db
    BY DEF vars
  <2>1. ASSUME NEW c \in Callers, NEW op \in Operations, Call(c, op) PROVE UNCHANGED db
    BY <2>1 DEF Call
  <2>2. ASSUME NEW c \in Callers, TimeOut(c) PROVE UNCHANGED db
    BY <2>2 DEF TimeOut
  <2>3. ASSUME NEW c \in Callers, Lock(c) \/ Check(c) \/ Fetch(c) \/ Return(c)
        PROVE  UNCHANGED db
    BY <2>3 DEF Lock, Check, Fetch, Return
  <2>4. ASSUME NEW c \in Callers, Run(c) PROVE UNCHANGED db
    <3>1. at[c] = "run" /\ CallerInv(c)
      BY <2>4 DEF CallsInv, Run
    <3>2. CallInv(calls[c]) /\ calls[c].todo # <<>> /\ ~ Mutates(St(c).words)
      BY <3>1 DEF CallerInv, Inside
    <3>3. Sound(calls[c].op, St(c))
      BY <3>2, HeadOfTodo DEF St
    <3>4. After(db, St(c)) = db
      BY <3>2, <3>3, OnlyWordsChange
    <3> QED
      BY <2>4, <3>4 DEF Run
  <2> QED
    BY <2>1, <2>2, <2>3, <2>4 DEF Next, Goroutine
<1> QED
  BY <1>1, <1>2, PTL DEF ReadOnlyNeverWrites, Spec

-----------------------------------------------------------------------------
(* The rows of CypherRows *)

\* What the model relies on of the database: nodes are finitely many and no
\* two have the same primary key; edges lie in the known rel tables.
DbInv(d) ==
  /\ d = [nodes |-> d.nodes, rels |-> d.rels, indexes |-> d.indexes]
  /\ IsFiniteSet(d.nodes) /\ UniqueIds(d.nodes)
  /\ \A r \in d.rels : r.kind \in Range(RelKinds)

\* The primary key: as many IDs as nodes.
LEMMA IdsOfUnique ==
  ASSUME NEW nodes, IsFiniteSet(nodes)
  PROVE  /\ IsFiniteSet({n.id : n \in nodes})
         /\ Cardinality({n.id : n \in nodes}) \in Nat
         /\ UniqueIds(nodes) <=> Cardinality({n.id : n \in nodes}) = Cardinality(nodes)
         /\ Cardinality({n.id : n \in nodes}) <= Cardinality(nodes)
<1> DEFINE ids == {n.id : n \in nodes}
           f == [n \in nodes |-> n.id]
<1>1. f \in Surjection(nodes, ids)
  BY DEF Surjection
<1>2. UniqueIds(nodes) <=> f \in Injection(nodes, ids)
  BY DEF UniqueIds, Injection, IsInjective
<1> HIDE DEF ids, f
<1>3. /\ IsFiniteSet(ids) /\ Cardinality(ids) <= Cardinality(nodes)
      /\ Cardinality(ids) = Cardinality(nodes) <=> f \in Injection(nodes, ids)
  BY <1>1, FS_Surjection
<1> QED
  BY <1>2, <1>3, FS_CardinalityType DEF ids

\* Kuzu keeps to the primary key: it refuses a COPY that would break it.
LEMMA AfterKeepsDb ==
  ASSUME NEW d, DbInv(d), NEW op, NEW st, Sound(op, st), ~ Refused(d, st)
  PROVE  DbInv(After(d, st))
<1> DEFINE e == After(d, st)
<1>1. CASE st.do = "copyNodes"
  <2>1. e = [d EXCEPT !.nodes = @ \cup st.rows]
    BY <1>1 DEF After
  <2>2. /\ IsFiniteSet(st.rows)
        /\ Cardinality({n.id : n \in st.rows}) >= Cardinality(st.rows)
        /\ {n.id : n \in st.rows} \cap {n.id : n \in d.nodes} = {}
    <3>1. Cardinality(st.rows) \in Nat /\ Cardinality({n.id : n \in st.rows}) \in Nat
      BY <1>1, IdsOfUnique, FS_CardinalityType DEF Sound
    <3>2. ~ (Cardinality({n.id : n \in st.rows}) < Cardinality(st.rows))
      BY <1>1 DEF Refused
    <3>3. {n.id : n \in st.rows} \cap {n.id : n \in d.nodes} = {}
      BY <1>1 DEF Refused
    <3>4. IsFiniteSet(st.rows)
      BY <1>1 DEF Sound
    <3>5. Cardinality({n.id : n \in st.rows}) >= Cardinality(st.rows)
      BY <3>1, <3>2
    <3> QED
      BY <3>3, <3>4, <3>5
  <2>3. UniqueIds(st.rows)
    BY <2>2, IdsOfUnique, FS_CardinalityType
  <2>4. UniqueIds(d.nodes \cup st.rows)
    BY <2>2, <2>3 DEF UniqueIds, DbInv
  <2>5. IsFiniteSet(d.nodes \cup st.rows)
    BY <2>2, FS_Union DEF DbInv
  <2>6. /\ e.nodes = d.nodes \cup st.rows /\ e.rels = d.rels
        /\ e = [nodes |-> e.nodes, rels |-> e.rels, indexes |-> e.indexes]
    BY <2>1 DEF DbInv
  <2> HIDE DEF e
  <2> QED
    BY <2>4, <2>5, <2>6 DEF DbInv, e
<1>2. CASE st.do # "copyNodes"
  <2>1. /\ e.nodes \subseteq d.nodes
        /\ e = [nodes |-> e.nodes, rels |-> e.rels, indexes |-> e.indexes]
        /\ e.rels \subseteq d.rels \/ (st.do = "copyRels" /\ e.rels = d.rels \cup st.rows)
    <3>1. CASE st.do = "deleteRels"
      BY <3>1 DEF After, DbInv
    <3>2. CASE st.do = "deleteNodes"
      BY <3>2 DEF After, DbInv
    <3>3. CASE st.do = "wipeRels"
      BY <3>3 DEF After, DbInv
    <3>4. CASE st.do = "wipeNodes"
      BY <3>4 DEF After, DbInv
    <3>5. CASE st.do = "copyRels"
      BY <3>5 DEF After, DbInv
    <3>6. CASE st.do = "dropIndex"
      BY <3>6 DEF After, DbInv
    <3>7. CASE st.do = "createIndex"
      BY <3>7 DEF After, DbInv
    <3>8. CASE st.do = "rows" /\ Mutates(st.words)
      BY <3>8 DEF After, DbInv
    <3>9. CASE /\ st.do \notin Changing
               /\ ~ (st.do = "rows" /\ Mutates(st.words))
      BY <3>9 DEF After, DbInv, Changing, GraphChanging
    <3> QED
      BY <1>2, <3>1, <3>2, <3>3, <3>4, <3>5, <3>6, <3>7, <3>8, <3>9
         DEF Changing, GraphChanging
  <2> HIDE DEF e
  <2>2. IsFiniteSet(e.nodes) /\ UniqueIds(e.nodes)
    BY <2>1, FS_Subset DEF DbInv, UniqueIds
  <2>3. \A r \in e.rels : r.kind \in Range(RelKinds)
    BY <2>1 DEF DbInv, Sound
  <2> QED
    BY <2>1, <2>2, <2>3 DEF DbInv, e
<1> QED
  BY <1>1, <1>2

\* The rows CypherRows fetches are the IDs of all nodes, each once.
LEMMA RowsOfCypher ==
  ASSUME NEW d, DbInv(d), NEW st, st.do = "rows"
  PROVE  /\ Len(Rows(d, st)) = Cardinality(d.nodes)
         /\ Len(Rows(d, st)) \in Nat /\ DOMAIN Rows(d, st) = 1 .. Len(Rows(d, st))
         /\ Rows(d, st) \in Seq(Range(Rows(d, st)))
<1> DEFINE ids == {n.id : n \in d.nodes}
           n == Cardinality(ids)
<1>1. Rows(d, st) = Sorted(ids)
  BY DEF Rows
<1>2. n \in Nat /\ n = Cardinality(d.nodes)
  BY IdsOfUnique DEF DbInv
<1> HIDE DEF ids
<1>3. DOMAIN Sorted(ids) = 1 .. n /\ Sorted(ids) \in [1 .. n -> Range(Sorted(ids))]
  BY DEF Sorted, Range
<1>4. Sorted(ids) \in Seq(Range(Sorted(ids))) /\ Len(Sorted(ids)) = n
  BY <1>2, <1>3
<1> QED
  BY <1>1, <1>2, <1>3, <1>4

\* The one statement of CypherRows.
LEMMA CypherStatement ==
  ASSUME NEW call, CallInv(call), call.op.do = "cypher", call.todo # <<>>
  PROVE  /\ Head(call.todo).do = "rows" /\ Head(call.todo).words = call.op.words
         /\ Head(call.todo).max = IF call.op.max <= 0 THEN 1 ELSE call.op.max
<1> DEFINE st == [do |-> "rows", words |-> call.op.words,
                  max |-> IF call.op.max <= 0 THEN 1 ELSE call.op.max]
<1>1. Program(call.op) = <<st>>
  BY DEF Program, CypherRows
<1>2. OnCourse(call)
  BY DEF CallInv, FallenBack
<1> HIDE DEF st
<1>3. Len(Program(call.op)) = 1 /\ Program(call.op)[1] = st
  BY <1>1
<1>4. /\ Done(call) + 1 \in 1 .. 1 /\ Len(call.todo) \in Nat \ {0}
      /\ Head(call.todo) = Program(call.op)[Done(call) + 1]
  BY <1>2, <1>3, HeadOfTodo
<1>5. Done(call) \in Nat
  BY <1>2 DEF OnCourse, IsRest, Done
<1>6. Done(call) = 0
  BY <1>4, <1>5
<1>7. Len(call.todo) = 1
  BY <1>3, <1>4, <1>6 DEF Done
<1>8. Head(call.todo) = st
  <2>1. Done(call) + 1 = 1
    BY <1>6
  <2> QED
    BY <1>3, <1>4, <2>1
<1> QED
  BY <1>8 DEF st

\* One caller moves at a time, and only a statement it runs changes the
\* database.
LEMMA OneMoves ==
  ASSUME CallsInv, [Next]_vars, ~ UNCHANGED vars
  PROVE  \E c \in Callers :
           /\ \/ \E op \in Operations : Call(c, op)
              \/ Lock(c) \/ Check(c) \/ Run(c) \/ Fetch(c) \/ Return(c) \/ TimeOut(c)
           /\ Run(c) \/ db' = db
BY DEF Next, Goroutine, Call, Lock, Check, Fetch, Return, TimeOut

\* A step moves one caller.
LEMMA OthersUnmoved ==
  ASSUME CallsInv, NEW c \in Callers,
         \/ \E op \in Operations : Call(c, op)
         \/ Lock(c) \/ Check(c) \/ Run(c) \/ Fetch(c) \/ Return(c) \/ TimeOut(c)
  PROVE  \A d \in Callers \ {c} :
           calls'[d] = calls[d] /\ at'[d] = at[d] /\ St(d)' = St(d)
<1>1. /\ calls = [d \in Callers |-> calls[d]] /\ at \in [Callers -> Phases]
  BY DEF CallsInv, Shape
<1>2. \A d \in Callers \ {c} : at'[d] = at[d]
  <2>1. \A d \in Callers \ {c} : \A p : [at EXCEPT ![c] = p][d] = at[d]
    BY <1>1
  <2>2. ASSUME NEW call, Unlocked(c, call) PROVE \A d \in Callers \ {c} : at'[d] = at[d]
    BY <2>1, <2>2 DEF Unlocked
  <2>3. ASSUME NEW err, OnError(c, err) PROVE \A d \in Callers \ {c} : at'[d] = at[d]
    BY <2>2, <2>3 DEF OnError, Fails
  <2> QED
    BY <2>1, <2>2, <2>3 DEF Call, Lock, Check, Run, Fetch, Return, TimeOut
<1>3. \A d \in Callers \ {c} : calls'[d] = calls[d]
  <2>1. \A d \in Callers \ {c} : \A x : [calls EXCEPT ![c] = x][d] = calls[d]
    BY <1>1
  <2>2. ASSUME NEW call, Unlocked(c, call) PROVE \A d \in Callers \ {c} : calls'[d] = calls[d]
    BY <2>1, <2>2 DEF Unlocked
  <2>3. ASSUME NEW err, OnError(c, err) PROVE \A d \in Callers \ {c} : calls'[d] = calls[d]
    BY <2>2, <2>3 DEF OnError, Fails
  <2>4. CASE Fetch(c)
    <3>1. \A x : \A d \in Callers \ {c} : [calls EXCEPT ![c].rows = Append(@, x)][d] = calls[d]
      BY <1>1
    <3> QED
      BY <2>2, <2>4, <3>1 DEF Fetch
  <2> QED
    BY <2>1, <2>2, <2>3, <2>4 DEF Call, Lock, Check, Run, Return, TimeOut
<1> QED
  BY <1>2, <1>3 DEF St

\* Every step keeps the primary key.
LEMMA NextKeepsDb ==
  ASSUME CallsInv, DbInv(db), [Next]_vars
  PROVE  DbInv(db')
<1>1. CASE db' = db
  BY <1>1
<1>2. ASSUME NEW c \in Callers, Run(c), db' # db
      PROVE  DbInv(db')
  <2>1. at[c] = "run" /\ CallerInv(c) /\ db' = After(db, St(c)) /\ ~ Refused(db, St(c))
    BY <1>2 DEF Run, CallsInv
  <2>2. Sound(calls[c].op, St(c))
    BY <2>1, HeadOfTodo DEF St, CallerInv, Inside
  <2> QED
    BY <2>1, <2>2, AfterKeepsDb
<1>3. CASE UNCHANGED vars
  BY <1>3 DEF vars
<1> QED
  BY <1>1, <1>2, <1>3, OneMoves

\* A fetching call holds the first rows of the result, at most as many as its
\* cap, and has not said truncated; it is not locked out while it fetches, so
\* the result is still that of the database.
FetchInv(c) ==
  /\ at[c] \in {"lock", "check", "run"} /\ calls[c].op.do = "cypher" =>
       calls[c].rows = <<>> /\ calls[c].truncated = FALSE
  /\ at[c] = "fetch" =>
       /\ calls[c].op.do = "cypher" /\ calls[c].truncated = FALSE
       /\ calls[c].rows \in Seq(Range(Rows(db, St(c))))
       /\ Len(calls[c].rows) <= Len(Rows(db, St(c)))
       /\ Len(calls[c].rows) <= St(c).max

ReadInv == StoreInv /\ CallsInv /\ DbInv(db) /\ \A c \in Callers : FetchInv(c)

\* Nobody changes the database while another call fetches.
LEMMA OthersFetch ==
  ASSUME ReadInv, NEW c \in Callers, Run(c) \/ db' = db,
         \/ \E op \in Operations : Call(c, op)
         \/ Lock(c) \/ Check(c) \/ Run(c) \/ Fetch(c) \/ Return(c) \/ TimeOut(c),
         NEW d \in Callers \ {c}
  PROVE  FetchInv(d)'
<1>1. calls'[d] = calls[d] /\ at'[d] = at[d] /\ St(d)' = St(d)
  BY OthersUnmoved DEF ReadInv
<1>2. at[d] = "fetch" => db' = db
  <2>1. ASSUME at[d] = "fetch", Run(c) PROVE FALSE
    <3>1. at[c] = "run"
      BY <2>1 DEF Run
    <3> QED
      BY <2>1, <3>1 DEF ReadInv, StoreInv, InsideHolds
  <2> QED
    BY <2>1
<1>3. FetchInv(d)
  BY DEF ReadInv
<1> QED
  BY <1>1, <1>2, <1>3 DEF FetchInv

\* The cap of a CypherRows is what its caller asked for, at least one.
LEMMA CypherIsRows ==
  ASSUME NEW c \in Callers, CallerInv(c), at[c] \in Inside
  PROVE  /\ calls[c].op.do = "cypher" =>
              St(c).do = "rows" /\ St(c).max = IF calls[c].op.max <= 0 THEN 1 ELSE calls[c].op.max
         /\ St(c).do = "rows" => calls[c].op.do = "cypher" /\ calls[c].op.max \in Int
                                 /\ St(c).max \in Nat \ {0}
<1>1. CallInv(calls[c]) /\ calls[c].todo # <<>> /\ calls[c].op \in Operations
  BY DEF CallerInv, Inside, CallInv
<1>2. St(c).do = "rows" => calls[c].op.do = "cypher"
  BY <1>1, HeadOfTodo DEF St, Sound
<1>3. calls[c].op.do = "cypher" => calls[c].op.max \in Int
  BY <1>1, OperationAssumption
<1>4. calls[c].op.do = "cypher" =>
        St(c).do = "rows" /\ St(c).max = IF calls[c].op.max <= 0 THEN 1 ELSE calls[c].op.max
  BY <1>1, CypherStatement DEF St
<1> QED
  BY <1>2, <1>3, <1>4

\* The moving caller, unless it stays at the fetch.
LEMMA MoverFetches ==
  ASSUME ReadInv, NEW c \in Callers,
         \/ \E op \in Operations : Call(c, op)
         \/ Lock(c) \/ Check(c) \/ Run(c) \/ Return(c) \/ TimeOut(c)
  PROVE  FetchInv(c)'
<1>0. /\ Shape /\ CallerInv(c) /\ FetchInv(c) /\ CallsInv
      /\ calls = [d \in Callers |-> calls[d]] /\ at \in [Callers -> Phases]
  BY DEF ReadInv, CallsInv, Shape
<1>1. ASSUME NEW op \in Operations, Call(c, op) PROVE FetchInv(c)'
  <2>1. calls'[c].rows = <<>> /\ calls'[c].truncated = FALSE
    BY <1>0, <1>1, CallStarts
  <2>2. at'[c] \in {"returned", "lock"}
    BY <1>0, <1>1 DEF Call
  <2> QED
    BY <2>1, <2>2 DEF FetchInv
<1>2. CASE Lock(c)
  BY <1>0, <1>2 DEF Lock, FetchInv
<1>3. ASSUME NEW err, OnError(c, err), at[c] \in Inside PROVE FetchInv(c)'
  <2>1. PICK call : /\ Unlocked(c, call) /\ Continues(c, call)
                    /\ St(c).do \notin {"dropIndex", "search"} => call.todo = <<>>
    BY <1>0, <1>3, ErrorContinues
  <2>2. calls'[c] = call /\ call.op = calls[c].op
    BY <1>0, <2>1 DEF Continues
  <2>3. call.op.do = "cypher" => call.todo = <<>>
    BY <1>0, <1>3, <2>1, <2>2, CypherIsRows
  <2>4. at'[c] = IF call.todo = <<>> THEN "returned" ELSE "lock"
    BY <1>0, <2>1 DEF Unlocked
  <2> QED
    BY <2>2, <2>3, <2>4 DEF FetchInv
<1>4. CASE Check(c)
  <2>1. CASE St(c).do = "close"
    <3>1. calls[c].op.do # "cypher"
      BY <1>0, <1>4, <2>1, CypherIsRows DEF Check, Inside
    <3>2. PICK call : call = [calls[c] EXCEPT !.todo = <<>>]
      OBVIOUS
    <3>3. call.op = calls[c].op
      BY <1>0, <3>2 DEF Shape, IsCall
    <3>4. Unlocked(c, call)
      BY <1>4, <2>1, <3>2 DEF Check
    <3>5. calls'[c].op.do # "cypher" /\ at'[c] \in {"returned", "lock"}
      BY <1>0, <3>1, <3>3, <3>4 DEF Unlocked
    <3> QED
      BY <3>5 DEF FetchInv
  <2>2. CASE at' = [at EXCEPT ![c] = "run"] /\ UNCHANGED calls
    BY <1>0, <1>4, <2>2 DEF FetchInv, Check
  <2> QED
    BY <1>3, <1>4, <2>1, <2>2 DEF Check, Inside
<1>5. CASE Run(c)
  <2>0. at[c] = "run" /\ at[c] \in Inside
    BY <1>5 DEF Run, Inside
  <2>1. ASSUME St(c).do = "rows", at' = [at EXCEPT ![c] = "fetch"], UNCHANGED calls,
               ~ Refused(db, St(c)), db' = After(db, St(c))
        PROVE  FetchInv(c)'
    <3>1. DbInv(db')
      BY <1>0, <2>0, <2>1, HeadOfTodo, AfterKeepsDb DEF ReadInv, CallerInv, Inside, St
    <3>2. /\ calls'[c] = calls[c] /\ at'[c] = "fetch" /\ St(c)' = St(c)
      BY <1>0, <2>1 DEF St
    <3>3. Len(Rows(db', St(c))) \in Nat
      BY <2>1, <3>1, RowsOfCypher
    <3>4. calls[c].op.do = "cypher" /\ St(c).max \in Nat \ {0}
      BY <1>0, <2>0, <2>1, CypherIsRows
    <3>5. calls[c].rows = <<>> /\ calls[c].truncated = FALSE
      BY <1>0, <2>0, <3>4 DEF FetchInv
    <3>6. /\ calls[c].rows \in Seq(Range(Rows(db', St(c))))
          /\ Len(calls[c].rows) = 0
      BY <3>5
    <3> QED
      BY <3>2, <3>3, <3>4, <3>5, <3>6 DEF FetchInv
  <2>2. ASSUME Unlocked(c, [calls[c] EXCEPT !.todo = Tail(@),
                                            !.rows = @ \o Rows(db, St(c))]),
               St(c).do # "rows"
        PROVE  FetchInv(c)'
    <3>1. calls[c].op.do # "cypher"
      BY <1>0, <2>0, <2>2, CypherIsRows
    <3>2. PICK call : call = [calls[c] EXCEPT !.todo = Tail(@),
                                              !.rows = @ \o Rows(db, St(c))]
      OBVIOUS
    <3>3. call.op = calls[c].op
      BY <1>0, <3>2 DEF Shape, IsCall
    <3>4. Unlocked(c, call)
      BY <2>2, <3>2
    <3>5. calls'[c].op.do # "cypher" /\ at'[c] \in {"returned", "lock"}
      BY <1>0, <3>1, <3>3, <3>4 DEF Unlocked
    <3> QED
      BY <3>5 DEF FetchInv
  <2> QED
    BY <1>3, <1>5, <2>0, <2>1, <2>2 DEF Run
<1>6. CASE Return(c)
  BY <1>0, <1>6 DEF Return, FetchInv
<1>7. CASE TimeOut(c)
  BY <1>3, <1>7 DEF TimeOut, Inside
<1> QED
  BY <1>1, <1>2, <1>4, <1>5, <1>6, <1>7

\* A step of the loop of CypherRows.
LEMMA FetchSteps ==
  ASSUME ReadInv, NEW c \in Callers, Fetch(c)
  PROVE  /\ FetchInv(c)'
         /\ at'[c] = "returned" =>
              /\ calls'[c].op = calls[c].op
              /\ Len(calls'[c].rows) <= St(c).max
              /\ calls'[c].truncated <=> Len(calls'[c].rows) < Cardinality(db.nodes)
<1> DEFINE old == calls[c]
           all == Rows(db, St(c))
           got == Len(old.rows)
<1>0. /\ at[c] = "fetch" /\ db' = db
      /\ calls = [d \in Callers |-> calls[d]] /\ at \in [Callers -> Phases]
      /\ IsCall(old) /\ CallerInv(c) /\ FetchInv(c)
  BY DEF Fetch, ReadInv, CallsInv, Shape
<1>1. /\ old.op.do = "cypher" /\ old.truncated = FALSE
      /\ old.rows \in Seq(Range(all)) /\ got <= Len(all) /\ got <= St(c).max
  BY <1>0 DEF FetchInv
<1>2. St(c).do = "rows" /\ St(c).max \in Nat \ {0}
  BY <1>0, CypherIsRows DEF CallerInv, Inside
<1>3. /\ Len(all) \in Nat /\ Len(all) = Cardinality(db.nodes)
      /\ DOMAIN all = 1 .. Len(all)
  BY <1>2, RowsOfCypher DEF ReadInv
<1>4. got \in Nat
  BY <1>1
<1> HIDE DEF old, all, got
<1>5. CASE got = Len(all) /\ Unlocked(c, [calls[c] EXCEPT !.todo = <<>>])
  <2>1. PICK call : call = [calls[c] EXCEPT !.todo = <<>>]
    OBVIOUS
  <2>2. /\ call.op = old.op /\ call.todo = <<>> /\ call.rows = old.rows
        /\ call.truncated = old.truncated
    BY <1>0, <2>1 DEF IsCall, old
  <2>3. Unlocked(c, call)
    BY <1>5, <2>1
  <2>4. calls'[c] = call /\ at'[c] = "returned"
    BY <1>0, <2>2, <2>3 DEF Unlocked
  <2>5. FetchInv(c)'
    BY <2>4 DEF FetchInv
  <2>6. Len(call.rows) = got
    BY <2>2 DEF got
  <2> QED
    BY <1>1, <1>3, <1>4, <1>5, <2>2, <2>4, <2>5, <2>6 DEF old
<1>6. CASE /\ got < Len(all) /\ got >= St(c).max
           /\ Unlocked(c, [calls[c] EXCEPT !.todo = <<>>, !.truncated = TRUE])
  <2>1. PICK call : call = [calls[c] EXCEPT !.todo = <<>>, !.truncated = TRUE]
    OBVIOUS
  <2>2. /\ call.op = old.op /\ call.todo = <<>> /\ call.rows = old.rows
        /\ call.truncated = TRUE
    BY <1>0, <2>1 DEF IsCall, old
  <2>3. Unlocked(c, call)
    BY <1>6, <2>1
  <2>4. calls'[c] = call /\ at'[c] = "returned"
    BY <1>0, <2>2, <2>3 DEF Unlocked
  <2>5. FetchInv(c)'
    BY <2>4 DEF FetchInv
  <2>6. Len(call.rows) = got
    BY <2>2 DEF got
  <2> QED
    BY <1>1, <1>3, <1>4, <1>6, <2>2, <2>4, <2>5, <2>6 DEF old
<1>7. CASE /\ got < Len(all) /\ got < St(c).max
           /\ calls' = [calls EXCEPT ![c].rows = Append(@, all[got + 1])]
           /\ UNCHANGED <<holder, at>>
  <2>1. PICK call : call = [calls[c] EXCEPT !.rows = Append(@, all[got + 1])]
    OBVIOUS
  <2>2. /\ call.op = old.op /\ call.todo = old.todo /\ call.truncated = old.truncated
        /\ call.rows = Append(old.rows, all[got + 1])
    BY <1>0, <2>1 DEF IsCall, old
  <2>3. calls'[c] = call /\ at'[c] = "fetch"
    BY <1>0, <1>7, <2>1
  <2>4. all[got + 1] \in Range(all)
    BY <1>3, <1>4, <1>7 DEF Range
  <2>5. call.rows \in Seq(Range(all)) /\ Len(call.rows) = got + 1
    BY <1>1, <2>2, <2>4 DEF got
  <2>6. St(c)' = St(c)
    BY <2>2, <2>3 DEF St, old
  <2>7. Rows(db, St(c))' = all
    BY <1>0, <2>6 DEF all
  <2>8. got + 1 <= Len(all) /\ got + 1 <= St(c).max
    BY <1>2, <1>3, <1>4, <1>7
  <2>9. FetchInv(c)'
    BY <1>1, <2>2, <2>3, <2>5, <2>6, <2>7, <2>8 DEF FetchInv
  <2> QED
    BY <2>3, <2>9
<1> QED
  BY <1>5, <1>6, <1>7 DEF Fetch, old, all, got

\* Every step keeps the reads right.
LEMMA NextKeepsReads ==
  ASSUME ReadInv, [Next]_vars
  PROVE  ReadInv'
<1>1. StoreInv' /\ CallsInv' /\ DbInv(db)'
  BY NextKeepsStore, NextKeepsCalls, NextKeepsDb DEF ReadInv
<1>2. CASE UNCHANGED vars
  <2>1. \A c \in Callers : FetchInv(c)'
    BY <1>2 DEF vars, ReadInv, FetchInv, St
  <2> QED
    BY <1>1, <2>1 DEF ReadInv
<1>3. CASE ~ UNCHANGED vars
  <2>1. PICK c \in Callers :
           /\ \/ \E op \in Operations : Call(c, op)
              \/ Lock(c) \/ Check(c) \/ Run(c) \/ Fetch(c) \/ Return(c) \/ TimeOut(c)
           /\ Run(c) \/ db' = db
    BY <1>3, OneMoves DEF ReadInv
  <2>2. \A d \in Callers \ {c} : FetchInv(d)'
    BY <2>1, OthersFetch
  <2>3. FetchInv(c)'
    BY <2>1, MoverFetches, FetchSteps
  <2> QED
    BY <1>1, <2>2, <2>3 DEF ReadInv
<1> QED
  BY <1>2, <1>3

\* Before the first call.
LEMMA InitReads == Init => ReadInv
<1> SUFFICES ASSUME Init PROVE ReadInv
  OBVIOUS
<1>1. StoreInv
  BY DEF Init, StoreInv, MutexShape, InsideHolds, CheckedIsOpen, Phases
<1>2. DbInv(db)
  <2>1. /\ db \in Database /\ IsFiniteSet(db.nodes) /\ UniqueIds(db.nodes)
    BY DatabaseAssumption DEF Init
  <2>2. db = [nodes |-> db.nodes, rels |-> db.rels, indexes |-> db.indexes]
    BY <2>1 DEF Database
  <2>3. \A r \in db.rels : r.kind \in Range(RelKinds)
    BY <2>1 DEF Database, Edge
  <2> QED
    BY <2>1, <2>2, <2>3 DEF DbInv
<1>3. \A c \in Callers : FetchInv(c)
  BY DEF Init, FetchInv
<1> QED
  BY <1>1, <1>2, <1>3, InitCalls DEF ReadInv

\* The cap as the property writes it.
LEMMA CapIsMax ==
  ASSUME NEW m \in Int
  PROVE  Max({1, m}) = IF m <= 0 THEN 1 ELSE m
<1> DEFINE x == IF m <= 0 THEN 1 ELSE m
<1>1. x \in {1, m} /\ \A y \in {1, m} : x >= y
  OBVIOUS
<1>2. \A z \in {1, m} : (\A y \in {1, m} : z >= y) => z = x
  OBVIOUS
<1> QED
  BY <1>1, <1>2 DEF Max

\* CypherRows returns at most the rows it was asked for, at least what there
\* is of one, and says truncated exactly if the graph holds more, although
\* other goroutines write between its statements (Store.CypherRows).
THEOREM TruncationIsReported == Spec => TruncatedExact
<1>1. Spec => []ReadInv
  BY InitReads, NextKeepsReads, PTL DEF Spec
<1> DEFINE Exact ==
      \A c \in Callers :
        LET call == calls'[c]
        IN at[c] = "fetch" /\ at'[c] = "returned" /\ call.err = "" =>
             /\ Len(call.rows) <= Max({1, call.op.max})
             /\ call.truncated <=> Len(call.rows) < Cardinality(db.nodes)
<1>2. ReadInv /\ [Next]_vars => [Exact]_vars
  <2> SUFFICES ASSUME ReadInv, [Next]_vars, ~ UNCHANGED vars, NEW c \in Callers,
                      at[c] = "fetch", at'[c] = "returned", calls'[c].err = ""
               PROVE  /\ Len(calls'[c].rows) <= Max({1, calls'[c].op.max})
                      /\ calls'[c].truncated <=>
                           Len(calls'[c].rows) < Cardinality(db.nodes)
    OBVIOUS
  <2>0. /\ CallerInv(c) /\ Shape /\ at[c] \in Inside
        /\ calls = [d \in Callers |-> calls[d]] /\ at \in [Callers -> Phases]
    BY DEF ReadInv, CallsInv, Inside, Shape
  <2>1. PICK d \in Callers :
           \/ \E op \in Operations : Call(d, op)
           \/ Lock(d) \/ Check(d) \/ Run(d) \/ Fetch(d) \/ Return(d) \/ TimeOut(d)
    BY OneMoves DEF ReadInv
  <2>2. d = c
    BY <2>1, OthersUnmoved DEF ReadInv
  <2>3. ~ TimeOut(c)
    <3> SUFFICES ASSUME OnError(c, "timeout") PROVE FALSE
      BY DEF TimeOut
    <3>1. St(c).do = "rows"
      BY <2>0 DEF CallerInv
    <3>2. PICK call :
             /\ Unlocked(c, call) /\ Continues(c, call)
             /\ call.err \in {"", "timeout"}
             /\ St(c).do \notin {"dropIndex", "search"} =>
                  call.err = "timeout" /\ call.todo = <<>>
      BY <2>0, ErrorContinues, Zenon
    <3>3. call.err = "timeout"
      BY <3>1, <3>2
    <3>4. calls'[c] = call
      BY <2>0, <3>2 DEF Continues
    <3> QED
      BY <3>3, <3>4
  <2>4. Fetch(c)
    BY <2>1, <2>2, <2>3 DEF Call, Lock, Check, Run, Return
  <2>5. /\ calls'[c].op = calls[c].op /\ Len(calls'[c].rows) <= St(c).max
        /\ calls'[c].truncated <=> Len(calls'[c].rows) < Cardinality(db.nodes)
    BY <2>4, FetchSteps
  <2>6. St(c).max = Max({1, calls[c].op.max})
    <3>1. calls[c].op.do = "cypher" /\ calls[c].op.max \in Int
      BY <2>0, CypherIsRows DEF CallerInv
    <3>2. St(c).max = IF calls[c].op.max <= 0 THEN 1 ELSE calls[c].op.max
      BY <2>0, <3>1, CypherIsRows
    <3> QED
      BY <3>1, <3>2, CapIsMax
  <2> QED
    BY <2>5, <2>6
<1> QED
  BY <1>1, <1>2, PTL DEF TruncatedExact, Spec

-----------------------------------------------------------------------------
(* The COPY batches of a load *)

\* A quotient between its bounds.
LEMMA DivBounds ==
  ASSUME NEW a \in Nat, NEW b \in Nat \ {0}
  PROVE  /\ a \div b \in Nat /\ b * (a \div b) <= a /\ a < b * (a \div b) + b
OBVIOUS

\* A product orders its factors.
LEMMA TimesOrder ==
  ASSUME NEW p \in Nat, NEW q \in Nat, NEW b \in Nat \ {0}, b * p < b * q
  PROVE  p < q
<1> SUFFICES ASSUME q <= p PROVE FALSE
  OBVIOUS
<1>1. PICK d \in Nat : p = q + d
  <2>1. p - q \in Nat /\ p = q + (p - q)
    OBVIOUS
  <2> QED
    BY <2>1
<1>2. b * p = b * q + b * d /\ b * d >= 0 /\ b * q \in Nat /\ b * d \in Nat
  BY <1>1
<1> QED
  BY <1>2

\* The batch of a place is one of the batches: the round-up of BulkLoadNodes.
LEMMA DivNext ==
  ASSUME NEW m \in Nat, NEW n \in Nat, NEW b \in Nat \ {0}, m < n
  PROVE  (m \div b) + 1 \in 1 .. ((n + b - 1) \div b)
<1> DEFINE p == m \div b
           q == (n + b - 1) \div b
<1>1. p \in Nat /\ b * p <= m
  BY DivBounds
<1>2. n + b - 1 \in Nat
  OBVIOUS
<1>3. q \in Nat /\ n + b - 1 < b * q + b
  BY <1>2, DivBounds
<1> HIDE DEF p, q
<1>4. b * p \in Nat /\ b * q \in Nat
  BY <1>1, <1>3
<1>5. b * p < b * q
  BY <1>1, <1>3, <1>4
<1>6. p < q
  BY <1>1, <1>3, <1>5, TimesOrder
<1>7. p + 1 \in 1 .. q
  BY <1>1, <1>3, <1>6
<1> QED
  BY <1>7 DEF p, q

\* The batches part the places: each place is in one batch.
LEMMA BatchesPart ==
  ASSUME NEW n \in Nat, NEW places \in SUBSET (1 .. n)
  PROVE  /\ \A b \in DOMAIN Batches(places) : Batches(places)[b] \subseteq places
         /\ \A i \in places : \E b \in DOMAIN Batches(places) : i \in Batches(places)[b]
         /\ \A b, c \in DOMAIN Batches(places) :
              b # c => Batches(places)[b] \cap Batches(places)[c] = {}
<1> DEFINE Earlier(i) == {j \in places : j < i}
           all == Cardinality(places)
           count == (all + BatchSize - 1) \div BatchSize
<1>0. IsFiniteSet(places) /\ all \in Nat
  <2>1. 1 \in Int /\ n \in Int
    OBVIOUS
  <2>2. IsFiniteSet(1 .. n)
    BY <2>1, FS_Interval
  <2> QED
    BY <2>2, FS_Subset, FS_CardinalityType
<1>1. ASSUME NEW i \in places
      PROVE  Cardinality(Earlier(i)) \in Nat /\ Cardinality(Earlier(i)) < all
  <2>1. Earlier(i) \in SUBSET places /\ Earlier(i) # places
    OBVIOUS
  <2> HIDE DEF Earlier
  <2> QED
    BY <1>0, <2>1, FS_Subset, FS_CardinalityType
<1>2. /\ DOMAIN Batches(places) = 1 .. count
      /\ \A b \in 1 .. count :
           Batches(places)[b] =
             {i \in places : Cardinality(Earlier(i)) \div BatchSize = b - 1}
  BY DEF Batches
<1>3. ASSUME NEW i \in places
      PROVE  \E b \in 1 .. count : Cardinality(Earlier(i)) \div BatchSize = b - 1
  <2> DEFINE m == Cardinality(Earlier(i))
  <2>1. m \in Nat /\ m < all
    BY <1>1
  <2> HIDE DEF m, all
  <2>2. (m \div BatchSize) + 1 \in 1 .. count
    BY <1>0, <2>1, BatchAssumption, DivNext
  <2>3. m \div BatchSize \in Nat
    BY <2>1, BatchAssumption
  <2>4. m \div BatchSize = ((m \div BatchSize) + 1) - 1
    BY <2>3
  <2> HIDE DEF count
  <2>5. \E b \in 1 .. count : m \div BatchSize = b - 1
    BY <2>2, <2>4
  <2> QED
    BY <2>5 DEF m
<1> HIDE DEF Earlier, count
<1>4. \A i \in places : \E b \in DOMAIN Batches(places) : i \in Batches(places)[b]
  BY <1>2, <1>3
<1>5. ASSUME NEW b \in 1 .. count, NEW c \in 1 .. count, b # c
      PROVE  Batches(places)[b] \cap Batches(places)[c] = {}
  <2>1. b - 1 # c - 1
    BY <1>5
  <2> QED
    BY <1>2, <2>1
<1> QED
  BY <1>2, <1>4, <1>5

\* r has the places of p and then those of q.
Joins(r, p, q) ==
  /\ r \in Seq(Range(r))
  /\ Len(p) \in Nat /\ Len(q) \in Nat /\ Len(r) = Len(p) + Len(q)
  /\ \A i \in 1 .. Len(p) : r[i] = p[i]
  /\ \A i \in 1 .. Len(q) : r[Len(p) + i] = q[i]

\* The places of a concatenation.
LEMMA ConcatJoins ==
  ASSUME NEW p, NEW q, p \in Seq(Range(p)), q \in Seq(Range(q))
  PROVE  Joins(p \o q, p, q)
<1> DEFINE S == Range(p) \cup Range(q)
           r == p \o q
<1>1. p \in Seq(S) /\ q \in Seq(S)
  OBVIOUS
<1> HIDE DEF S
<1>2. /\ r \in Seq(S) /\ Len(p) \in Nat /\ Len(q) \in Nat
      /\ Len(r) = Len(p) + Len(q)
      /\ \A i \in 1 .. Len(p) : r[i] = p[i]
      /\ \A i \in 1 .. Len(q) : r[Len(p) + i] = q[i]
  BY <1>1
<1> HIDE DEF r
<1>3. r \in [1 .. Len(r) -> Range(r)] /\ Len(r) \in Nat
  BY <1>2 DEF Range
<1>4. r \in Seq(Range(r))
  BY <1>3
<1>5. Joins(r, p, q)
  BY <1>2, <1>4 DEF Joins
<1> QED
  BY <1>5 DEF r

\* What one rel table is loaded with: the edges of its kind.
LEMMA EdgeGroupRows ==
  ASSUME NEW edges \in Seq(Edge), NEW kind
  PROVE  LET group == CopyEdgeGroup(kind, edges)
         IN /\ group \in Seq(Range(group))
            /\ \A st \in Range(group) : st.do = "copyRels"
            /\ UNION {st.rows : st \in Range(group)} =
                 {edges[i] : i \in {j \in DOMAIN edges : edges[j].kind = kind}}
<1> DEFINE places == {i \in DOMAIN edges : edges[i].kind = kind}
           group == CopyEdgeGroup(kind, edges)
           n == Len(edges)
<1>0. n \in Nat /\ DOMAIN edges = 1 .. n /\ places \in SUBSET (1 .. n)
  OBVIOUS
<1>1. group \in Seq(Range(group))
  <2> DEFINE op == [do |-> "replace"]
  <2>1. op.do \in Writing
    BY DEF Writing
  <2> HIDE DEF op, group
  <2> QED
    BY <2>1, SoundEdgeGroup, Zenon DEF SoundProgram, group
<1>2. /\ DOMAIN group = DOMAIN Batches(places)
      /\ \A b \in DOMAIN group : /\ group[b].do = "copyRels"
                                 /\ group[b].rows = {edges[i] : i \in Batches(places)[b]}
  BY DEF CopyEdgeGroup
<1> HIDE DEF group, places, n
<1>3. /\ \A b \in DOMAIN Batches(places) : Batches(places)[b] \subseteq places
      /\ \A i \in places : \E b \in DOMAIN Batches(places) : i \in Batches(places)[b]
  BY <1>0, BatchesPart
<1>4. UNION {st.rows : st \in Range(group)} = {edges[i] : i \in places}
  <2>1. \A b \in DOMAIN group : group[b].rows \subseteq {edges[i] : i \in places}
    BY <1>2, <1>3
  <2>2. \A i \in places : \E b \in DOMAIN group : edges[i] \in group[b].rows
    BY <1>2, <1>3
  <2>3. \A b \in DOMAIN group : group[b] \in Range(group)
    BY DEF Range
  <2>4. {edges[i] : i \in places} \subseteq UNION {st.rows : st \in Range(group)}
    BY <2>2, <2>3
  <2>5. ASSUME NEW st \in Range(group)
        PROVE  st.rows \subseteq {edges[i] : i \in places}
    BY <2>1 DEF Range
  <2> QED
    BY <2>4, <2>5
<1>5. \A st \in Range(group) : st.do = "copyRels"
  BY <1>2 DEF Range
<1> QED
  BY <1>1, <1>4, <1>5 DEF group, places

\* BulkLoadEdges loads every edge.
LEMMA LoadEdgesRows ==
  ASSUME NEW edges \in Seq(Edge)
  PROVE  LET load == BulkLoadEdges(edges)
         IN /\ load \in Seq(Range(load))
            /\ \A st \in Range(load) : st.do = "copyRels"
            /\ UNION {st.rows : st \in Range(load)} = Range(edges)
<1> DEFINE groups == [k \in DOMAIN RelKinds |-> CopyEdgeGroup(RelKinds[k], edges)]
           load == BulkLoadEdges(edges)
           n == Len(RelKinds)
           S == UNION {Range(groups[k]) : k \in 1 .. n}
<1>1. DOMAIN RelKinds = 1 .. n /\ n \in Nat
  BY RelKindsAssumption
<1>2. load = FlattenSeq(groups) /\ DOMAIN groups = 1 .. n
  BY <1>1 DEF BulkLoadEdges
<1>3. \A k \in 1 .. n :
        /\ groups[k] \in Seq(Range(groups[k]))
        /\ \A st \in Range(groups[k]) : st.do = "copyRels"
        /\ UNION {st.rows : st \in Range(groups[k])} =
             {edges[i] : i \in {j \in DOMAIN edges : edges[j].kind = RelKinds[k]}}
  BY <1>1, EdgeGroupRows
<1>4. \A k \in 1 .. n : groups[k] \in Seq(S)
  <2> TAKE k \in 1 .. n
  <2>1. groups[k] \in Seq(Range(groups[k])) /\ Range(groups[k]) \subseteq S
    BY <1>3
  <2> HIDE DEF S, groups
  <2> QED
    BY <2>1
<1>5. groups \in [1 .. n -> Seq(S)]
  BY <1>1, <1>4
<1> HIDE DEF groups, S
<1>6. groups \in Seq(Seq(S))
  BY <1>1, <1>5
<1>7. load \in Seq(S) /\ ToSet(load) = UNION {ToSet(groups[k]) : k \in 1 .. n}
  BY <1>2, <1>6, FlattenElements
<1>8. Range(load) = S
  BY <1>7, Zenon DEF Range, ToSet, S
<1>9. \A st \in S : st.do = "copyRels"
  BY <1>3, Zenon DEF S
<1>10. UNION {st.rows : st \in S} = Range(edges)
  <2>1. \A i \in DOMAIN edges : \E k \in 1 .. n : edges[i].kind = RelKinds[k]
    <3>1. \A i \in DOMAIN edges : edges[i] \in Edge
      OBVIOUS
    <3>2. \A i \in DOMAIN edges : edges[i].kind \in Range(RelKinds)
      BY <3>1 DEF Edge
    <3> QED
      BY <1>1, <3>2 DEF Range
  <2>2. ASSUME NEW i \in DOMAIN edges PROVE \E st \in S : edges[i] \in st.rows
    <3>1. PICK k \in 1 .. n : edges[i].kind = RelKinds[k]
      BY <2>1
    <3>2. edges[i] \in UNION {st.rows : st \in Range(groups[k])}
      BY <1>3, <3>1
    <3> QED
      BY <3>2, Zenon DEF S
  <2>3. ASSUME NEW st \in S PROVE st.rows \subseteq Range(edges)
    <3>1. PICK k \in 1 .. n : st \in Range(groups[k])
      BY <2>3 DEF S
    <3>2. st.rows \subseteq {edges[i] : i \in {j \in DOMAIN edges : edges[j].kind = RelKinds[k]}}
      BY <1>3, <3>1, Zenon
    <3> QED
      BY <3>2 DEF Range
  <2> QED
    BY <2>2, <2>3 DEF Range
<1> QED
  BY <1>7, <1>8, <1>9, <1>10 DEF load

-----------------------------------------------------------------------------
(* The program of a remove or a replace *)

\* The rows a replace brings; a remove brings none.
Brings(op) == IF op.do = "replace" THEN op ELSE [nodes |-> <<>>, edges |-> <<>>]

\* The program of a remove or a replace: the rel tables one by one, the nodes
\* of the file, the new nodes part by part, the new edges.
Replaces(P, b, parts, file, nodes, edges) ==
  LET R == Len(RelKinds)
  IN /\ P \in Seq(Range(P)) /\ b \in Nat /\ R + 1 + b <= Len(P)
     /\ \A k \in 1 .. R :
          P[k].do = "deleteRels" /\ P[k].kind = RelKinds[k] /\ P[k].file = file
     /\ P[R + 1].do = "deleteNodes" /\ P[R + 1].file = file
     /\ \A k \in 1 .. b : /\ P[R + 1 + k].do = "copyNodes"
                          /\ P[R + 1 + k].rows = {Encoded(nodes[i]) : i \in parts[k]}
     /\ \A k \in R + 2 + b .. Len(P) : P[k].do = "copyRels"
     /\ UNION {P[k].rows : k \in R + 2 + b .. Len(P)} = Range(edges)
     /\ \A k \in 1 .. b : parts[k] \subseteq DOMAIN nodes
     /\ \A i \in DOMAIN nodes : \E k \in 1 .. b : i \in parts[k]
     /\ \A k, l \in 1 .. b : k # l => parts[k] \cap parts[l] = {}

\* RemoveFile goes through the rel tables and then deletes the nodes.
LEMMA RemovePlaces ==
  ASSUME NEW file
  PROVE  LET P == RemoveFile(file)
             R == Len(RelKinds)
         IN /\ P \in Seq(Range(P)) /\ R \in Nat /\ Len(P) = R + 1
            /\ \A k \in 1 .. R :
                 P[k].do = "deleteRels" /\ P[k].kind = RelKinds[k] /\ P[k].file = file
            /\ P[R + 1].do = "deleteNodes" /\ P[R + 1].file = file
<1> DEFINE P == RemoveFile(file)
           R == Len(RelKinds)
           loop == [k \in DOMAIN RelKinds |->
                      [do |-> "deleteRels", words |-> Deleting, kind |-> RelKinds[k],
                       file |-> file]]
           last == [do |-> "deleteNodes", words |-> Deleting, file |-> file]
<1>1. DOMAIN RelKinds = 1 .. R /\ R \in Nat
  BY RelKindsAssumption
<1>2. \A k \in 1 .. R :
        loop[k].do = "deleteRels" /\ loop[k].kind = RelKinds[k] /\ loop[k].file = file
  BY <1>1
<1>3. last.do = "deleteNodes" /\ last.file = file
  OBVIOUS
<1>4. loop \in [1 .. R -> Range(loop)]
  BY <1>1 DEF Range
<1>5. P = loop \o <<last>>
  BY DEF RemoveFile
<1> HIDE DEF loop, last, R, P
<1>6. loop \in Seq(Range(loop)) /\ Len(loop) = R
  BY <1>1, <1>4
<1>7. <<last>> \in Seq(Range(<<last>>)) /\ Len(<<last>>) = 1 /\ <<last>>[1] = last
  BY DEF Range
<1>8. /\ P \in Seq(Range(P)) /\ Len(P) = R + 1
      /\ \A i \in 1 .. R : P[i] = loop[i]
      /\ P[R + 1] = last
  <2> DEFINE end == <<last>>
  <2>1. end \in Seq(Range(end)) /\ Len(end) = 1 /\ end[1] = last /\ P = loop \o end
    BY <1>5, <1>7
  <2> HIDE DEF end
  <2>2. Joins(P, loop, end)
    BY <1>6, <2>1, ConcatJoins, Zenon
  <2>3. 1 \in 1 .. 1
    OBVIOUS
  <2> QED
    BY <1>6, <2>1, <2>2, <2>3, Zenon DEF Joins
<1> QED
  BY <1>1, <1>2, <1>3, <1>8 DEF P, R

\* A remove replaces the file by nothing.
LEMMA RemoveReplaces ==
  ASSUME NEW file
  PROVE  Replaces(RemoveFile(file), 0, <<>>, file, <<>>, <<>>)
<1> DEFINE P == RemoveFile(file)
           R == Len(RelKinds)
<1>1. /\ P \in Seq(Range(P)) /\ R \in Nat /\ Len(P) = R + 1
      /\ \A k \in 1 .. R :
           P[k].do = "deleteRels" /\ P[k].kind = RelKinds[k] /\ P[k].file = file
      /\ P[R + 1].do = "deleteNodes" /\ P[R + 1].file = file
  BY RemovePlaces
<1> HIDE DEF P, R
<1>2. R + 2 + 0 .. Len(P) = {} /\ 1 .. 0 = {} /\ R + 1 + 0 <= Len(P)
  BY <1>1
<1>3. Range(<<>>) = {} /\ DOMAIN <<>> = {}
  BY DEF Range
<1>4. UNION {P[k].rows : k \in R + 2 + 0 .. Len(P)} = Range(<<>>)
  BY <1>2, <1>3
<1> QED
  BY <1>1, <1>2, <1>3, <1>4 DEF Replaces, P, R

\* ReplaceFile removes the file and then loads the rows it brings.
LEMMA ReplaceReplaces ==
  ASSUME NEW file, NEW nodes \in Seq(Node), NEW edges \in Seq(Edge)
  PROVE  \E b, parts : Replaces(ReplaceFile(file, nodes, edges), b, parts, file,
                                nodes, edges)
<1> DEFINE remove == RemoveFile(file)
           load == BulkLoadNodes(nodes)
           link == BulkLoadEdges(edges)
           insert == load \o link
           P == remove \o insert
           R == Len(RelKinds)
           parts == Batches(DOMAIN nodes)
<1>1. PICK b \in Nat : DOMAIN parts = 1 .. b
  <2>1. 1 \in Int /\ Len(nodes) \in Int /\ DOMAIN nodes = 1 .. Len(nodes)
    OBVIOUS
  <2>2. IsFiniteSet(DOMAIN nodes)
    BY <2>1, FS_Interval
  <2> QED
    BY <2>2, BatchCount
<1>2. /\ \A k \in 1 .. b : parts[k] \subseteq DOMAIN nodes
      /\ \A i \in DOMAIN nodes : \E k \in 1 .. b : i \in parts[k]
      /\ \A k, l \in 1 .. b : k # l => parts[k] \cap parts[l] = {}
  <2>1. Len(nodes) \in Nat /\ DOMAIN nodes \in SUBSET (1 .. Len(nodes))
    OBVIOUS
  <2> HIDE DEF parts
  <2> QED
    BY <1>1, <2>1, BatchesPart DEF parts
<1>3. /\ load \in Seq(Range(load)) /\ DOMAIN load = 1 .. b
      /\ \A k \in 1 .. b : /\ load[k].do = "copyNodes"
                           /\ load[k].rows = {Encoded(nodes[i]) : i \in parts[k]}
  <2> DEFINE op == [do |-> "replace"]
  <2>1. op.do \in Writing
    BY DEF Writing
  <2> HIDE DEF op
  <2>2. load \in Seq(Range(load))
    BY <2>1, SoundLoadNodes DEF SoundProgram
  <2>3. /\ DOMAIN load = 1 .. b
        /\ \A k \in 1 .. b : /\ load[k].do = "copyNodes"
                             /\ load[k].rows = {Encoded(nodes[i]) : i \in parts[k]}
    BY <1>1 DEF BulkLoadNodes
  <2> QED
    BY <2>2, <2>3
<1>4. /\ link \in Seq(Range(link))
      /\ \A st \in Range(link) : st.do = "copyRels"
      /\ UNION {st.rows : st \in Range(link)} = Range(edges)
  BY LoadEdgesRows
<1>5. /\ remove \in Seq(Range(remove)) /\ R \in Nat /\ Len(remove) = R + 1
      /\ \A k \in 1 .. R :
           remove[k].do = "deleteRels" /\ remove[k].kind = RelKinds[k]
           /\ remove[k].file = file
      /\ remove[R + 1].do = "deleteNodes" /\ remove[R + 1].file = file
  BY RemovePlaces
<1>6. ReplaceFile(file, nodes, edges) = P
  BY DEF ReplaceFile, InsertFile
<1>20. insert = load \o link /\ P = remove \o insert
  OBVIOUS
<1> HIDE DEF remove, load, link, R, parts, insert, P
<1>7. /\ insert \in Seq(Range(insert)) /\ Len(load) = b /\ Len(link) \in Nat
      /\ Len(insert) = b + Len(link)
      /\ \A i \in 1 .. b : insert[i] = load[i]
      /\ \A i \in 1 .. Len(link) : insert[b + i] = link[i]
  <2>1. Len(load) = b
    BY <1>1, <1>3
  <2>2. Joins(insert, load, link)
    BY <1>3, <1>4, <1>20, ConcatJoins, Zenon
  <2> QED
    BY <2>1, <2>2, Zenon DEF Joins
<1>8. /\ P \in Seq(Range(P)) /\ Len(P) = R + 1 + b + Len(link)
      /\ \A i \in 1 .. R + 1 : P[i] = remove[i]
      /\ \A i \in 1 .. b + Len(link) : P[R + 1 + i] = insert[i]
  <2>1. Joins(P, remove, insert)
    BY <1>5, <1>7, <1>20, ConcatJoins, Zenon
  <2>2. Len(P) = R + 1 + b + Len(link)
    BY <1>1, <1>5, <1>7, <2>1 DEF Joins
  <2> QED
    BY <1>5, <1>7, <2>1, <2>2, Zenon DEF Joins
<1>9. \A k \in 1 .. b : P[R + 1 + k] = load[k]
  <2> TAKE k \in 1 .. b
  <2>1. k \in 1 .. b + Len(link)
    BY <1>7
  <2> QED
    BY <1>7, <1>8, <2>1
<1>10. \A k \in 1 .. Len(link) : P[R + 1 + b + k] = link[k]
  <2> TAKE k \in 1 .. Len(link)
  <2>1. b + k \in 1 .. b + Len(link) /\ R + 1 + b + k = R + 1 + (b + k)
    BY <1>1, <1>5, <1>7
  <2> QED
    BY <1>7, <1>8, <2>1
<1>11. \A k \in R + 2 + b .. Len(P) :
         \E l \in 1 .. Len(link) : k = R + 1 + b + l /\ P[k] = link[l]
  <2> TAKE k \in R + 2 + b .. Len(P)
  <2>0. Len(P) \in Nat /\ Len(P) = R + 1 + b + Len(link)
    BY <1>1, <1>5, <1>7, <1>8
  <2> DEFINE n == Len(P)
             m == Len(link)
  <2>1. k - (R + 1 + b) \in 1 .. Len(link) /\ k = R + 1 + b + (k - (R + 1 + b))
    <3>1. k \in R + 2 + b .. n /\ n \in Nat /\ m \in Nat /\ n = R + 1 + b + m /\ R \in Nat
      BY <1>5, <1>7, <2>0
    <3> HIDE DEF n, m
    <3>2. k - (R + 1 + b) \in 1 .. m /\ k = R + 1 + b + (k - (R + 1 + b))
      BY <1>1, <3>1
    <3> QED
      BY <3>2 DEF m
  <2> QED
    BY <1>10, <2>1
<1>12. \A l \in 1 .. Len(link) : R + 1 + b + l \in R + 2 + b .. Len(P)
  <2> DEFINE n == Len(P)
             m == Len(link)
  <2>1. n = R + 1 + b + m /\ m \in Nat /\ R \in Nat
    BY <1>5, <1>7, <1>8
  <2> HIDE DEF n, m
  <2>2. \A l \in 1 .. m : R + 1 + b + l \in R + 2 + b .. n
    BY <1>1, <2>1
  <2> QED
    BY <2>2 DEF n, m
<1>13. Range(link) = {P[k] : k \in R + 2 + b .. Len(P)}
  <2>1. DOMAIN link = 1 .. Len(link)
    BY <1>4
  <2>2. \A l \in DOMAIN link : link[l] \in {P[k] : k \in R + 2 + b .. Len(P)}
    BY <1>10, <1>12, <2>1
  <2>3. \A k \in R + 2 + b .. Len(P) : P[k] \in Range(link)
    BY <1>11, <2>1 DEF Range
  <2> QED
    BY <2>2, <2>3 DEF Range
<1>14. UNION {P[k].rows : k \in R + 2 + b .. Len(P)} = Range(edges)
  <2>1. {st.rows : st \in {P[k] : k \in R + 2 + b .. Len(P)}} =
          {P[k].rows : k \in R + 2 + b .. Len(P)}
    OBVIOUS
  <2> QED
    BY <1>4, <1>13, <2>1
<1>15. \A k \in R + 2 + b .. Len(P) : P[k].do = "copyRels"
  BY <1>4, <1>13
<1>16. R + 1 + b <= Len(P)
  BY <1>1, <1>5, <1>7, <1>8
<1>17. \A k \in 1 .. R : P[k] = remove[k]
  BY <1>5, <1>8
<1>18. P[R + 1] = remove[R + 1]
  BY <1>5, <1>8
<1>19. Replaces(P, b, parts, file, nodes, edges)
  <2>1. \A k \in 1 .. R :
          P[k].do = "deleteRels" /\ P[k].kind = RelKinds[k] /\ P[k].file = file
    BY <1>5, <1>17
  <2>2. P[R + 1].do = "deleteNodes" /\ P[R + 1].file = file
    BY <1>5, <1>18
  <2>3. \A k \in 1 .. b : /\ P[R + 1 + k].do = "copyNodes"
                         /\ P[R + 1 + k].rows = {Encoded(nodes[i]) : i \in parts[k]}
    BY <1>3, <1>9, Zenon
  <2> QED
    BY <1>1, <1>2, <1>8, <1>14, <1>15, <1>16, <2>1, <2>2, <2>3, Zenon DEF Replaces, R
<1> QED
  BY <1>6, <1>19

\* The programs of the operations are such.
LEMMA ProgramReplaces ==
  ASSUME NEW op \in Operations, op.do \in {"remove", "replace"}
  PROVE  /\ \E b, parts : Replaces(Program(op), b, parts, op.file, Brings(op).nodes,
                                   Brings(op).edges)
         /\ Brings(op).nodes \in Seq(Node)
<1>1. CASE op.do = "remove"
  <2>1. Program(op) = RemoveFile(op.file)
    BY <1>1 DEF Program
  <2>2. Brings(op).nodes = <<>> /\ Brings(op).edges = <<>>
    BY <1>1 DEF Brings
  <2>3. <<>> \in Seq(Node)
    OBVIOUS
  <2> QED
    BY <2>1, <2>2, <2>3, RemoveReplaces
<1>2. CASE op.do = "replace"
  <2>1. Program(op) = ReplaceFile(op.file, op.nodes, op.edges)
    BY <1>2 DEF Program
  <2>2. Brings(op) = op
    BY <1>2 DEF Brings
  <2>3. op.nodes \in Seq(Node) /\ op.edges \in Seq(Edge)
    BY <1>2, OperationAssumption
  <2> QED
    BY <2>1, <2>2, <2>3, ReplaceReplaces
<1> QED
  BY <1>1, <1>2

-----------------------------------------------------------------------------
(* The graph after each of its statements *)

\* A row that is loaded comes back as it was.
LEMMA EncodedNode ==
  ASSUME NEW n \in Node
  PROVE  Encoded(n).id = n.id /\ Hydrated(Encoded(n)) = n
<1>1. n \in NodeWith(Nat)
  BY DEF Node
<1>2. /\ n.line \in Nat /\ n.kind \in NodeKinds /\ n.layer \in Layers
      /\ n = [id |-> n.id, kind |-> n.kind, file |-> n.file, line |-> n.line,
              layer |-> n.layer, source |-> n.source, text |-> n.text]
  BY <1>1 DEF NodeWith
<1> DEFINE e == Encoded(n)
<1>3. /\ e.id = n.id /\ e.kind = n.kind /\ e.file = n.file /\ e.layer = n.layer
      /\ e.source = n.source /\ e.text = n.text
      /\ e.line = IF n.line > 0 THEN n.line ELSE -1
  BY <1>2 DEF Encoded
<1>4. ASSUME NEW names, NEW name, \E i \in DOMAIN names : names[i] = name
      PROVE  names[Parse(names, name)] = name
  BY <1>4 DEF Parse
<1>5. /\ NodeKindNames[Parse(NodeKindNames, n.kind)] = n.kind
      /\ LayerNames[Parse(LayerNames, n.layer)] = n.layer
  BY <1>2, <1>4, Zenon DEF NodeKinds, Layers
<1>6. (IF e.line = -1 THEN 0 ELSE e.line) = n.line
  BY <1>2, <1>3
<1> HIDE DEF e
<1>7. Hydrated(e) = [id |-> n.id, file |-> n.file, source |-> n.source, text |-> n.text,
                     line |-> n.line, kind |-> n.kind, layer |-> n.layer]
  BY <1>3, <1>5, <1>6, Zenon DEF Hydrated
<1> QED
  BY <1>2, <1>3, <1>7 DEF e

\* The database after the first k statements of P.
Kept(old, file) == {n \in old.nodes : n.file # file}
Loaded(P, k, what) == UNION {P[i].rows : i \in {j \in 1 .. k : P[j].do = what}}
NodesAfter(P, k, old, file) ==
  IF k <= Len(RelKinds) THEN old.nodes
  ELSE Kept(old, file) \cup Loaded(P, k, "copyNodes")
Unlinked(k, old, file) ==
  {r \in old.rels : ~ (/\ Incident(r, IdsOf(old, file))
                       /\ \E i \in DOMAIN RelKinds : i <= k /\ r.kind = RelKinds[i])}
RelsAfter(P, k, old, file) == Unlinked(k, old, file) \cup Loaded(P, k, "copyRels")

\* Where the statements of a replace are.
LEMMA ReplacePlaces ==
  ASSUME NEW P, NEW b, NEW parts, NEW file, NEW nodes, NEW edges,
         Replaces(P, b, parts, file, nodes, edges)
  PROVE  LET R == Len(RelKinds)
         IN /\ R \in Nat /\ DOMAIN RelKinds = 1 .. R
            /\ Len(P) \in Nat /\ b \in Nat /\ R + 1 + b <= Len(P)
            /\ \A j \in 1 .. Len(P) : j <= R => P[j].do = "deleteRels"
            /\ \A j \in 1 .. Len(P) : j = R + 1 => P[j].do = "deleteNodes"
            /\ \A j \in 1 .. Len(P) : R + 1 < j /\ j <= R + 1 + b =>
                 /\ j - (R + 1) \in 1 .. b
                 /\ P[j].do = "copyNodes"
                 /\ P[j].rows = {Encoded(nodes[i]) : i \in parts[j - (R + 1)]}
            /\ \A j \in 1 .. Len(P) : R + 1 + b < j =>
                 P[j].do = "copyRels" /\ P[j].rows \subseteq Range(edges)
            /\ \A l \in 1 .. b : /\ R + 1 + l \in 1 .. Len(P)
                                 /\ P[R + 1 + l].do = "copyNodes"
                                 /\ P[R + 1 + l].rows = {Encoded(nodes[i]) : i \in parts[l]}
<1> DEFINE R == Len(RelKinds)
           n == Len(P)
<1>1. R \in Nat /\ DOMAIN RelKinds = 1 .. R
  BY RelKindsAssumption
<1>2. n \in Nat /\ b \in Nat /\ R + 1 + b <= n
  BY DEF Replaces
<1>3. /\ \A k \in 1 .. R : P[k].do = "deleteRels"
      /\ P[R + 1].do = "deleteNodes"
      /\ \A k \in 1 .. b : /\ P[R + 1 + k].do = "copyNodes"
                           /\ P[R + 1 + k].rows = {Encoded(nodes[i]) : i \in parts[k]}
      /\ \A k \in R + 2 + b .. n : P[k].do = "copyRels"
      /\ UNION {P[k].rows : k \in R + 2 + b .. n} = Range(edges)
  BY Zenon DEF Replaces
<1> HIDE DEF R, n
<1>4. \A j \in 1 .. n : j <= R => P[j].do = "deleteRels"
  BY <1>1, <1>2, <1>3
<1>5. \A j \in 1 .. n : j = R + 1 => P[j].do = "deleteNodes"
  BY <1>3
<1>6. ASSUME NEW j \in 1 .. n, R + 1 < j, j <= R + 1 + b
      PROVE  /\ j - (R + 1) \in 1 .. b
             /\ P[j].do = "copyNodes"
             /\ P[j].rows = {Encoded(nodes[i]) : i \in parts[j - (R + 1)]}
  <2>1. j - (R + 1) \in 1 .. b /\ R + 1 + (j - (R + 1)) = j
    BY <1>1, <1>2, <1>6
  <2> DEFINE l == j - (R + 1)
  <2>2. l \in 1 .. b /\ R + 1 + l = j
    BY <2>1
  <2> HIDE DEF l
  <2>3. P[j].do = "copyNodes" /\ P[j].rows = {Encoded(nodes[i]) : i \in parts[l]}
    BY <1>3, <2>2, Zenon
  <2> QED
    BY <2>2, <2>3 DEF l
<1>7. ASSUME NEW j \in 1 .. n, R + 1 + b < j
      PROVE  P[j].do = "copyRels" /\ P[j].rows \subseteq Range(edges)
  <2>1. j \in R + 2 + b .. n
    BY <1>1, <1>2, <1>7
  <2> QED
    BY <1>3, <2>1
<1>8. \A l \in 1 .. b : R + 1 + l \in 1 .. n
  BY <1>1, <1>2
<1> QED
  BY <1>1, <1>2, <1>3, <1>4, <1>5, <1>6, <1>7, <1>8, Zenon DEF R, n

\* Nothing is loaded before its time, and one statement loads its rows.
LEMMA LoadedSteps ==
  ASSUME NEW P, NEW b, NEW parts, NEW file, NEW nodes, NEW edges,
         Replaces(P, b, parts, file, nodes, edges), NEW k \in Nat, k <= Len(P)
  PROVE  /\ k <= Len(RelKinds) + 1 => Loaded(P, k, "copyNodes") = {}
         /\ k <= Len(RelKinds) + 1 + b => Loaded(P, k, "copyRels") = {}
         /\ \A what : Loaded(P, k + 1, what) =
              Loaded(P, k, what) \cup (IF P[k + 1].do = what THEN P[k + 1].rows ELSE {})
<1> DEFINE R == Len(RelKinds)
           n == Len(P)
<1>1. /\ R \in Nat /\ n \in Nat /\ b \in Nat /\ R + 1 + b <= n
      /\ \A j \in 1 .. n : j <= R => P[j].do = "deleteRels"
      /\ \A j \in 1 .. n : j = R + 1 => P[j].do = "deleteNodes"
      /\ \A j \in 1 .. n : R + 1 < j /\ j <= R + 1 + b => P[j].do = "copyNodes"
  BY ReplacePlaces
<1> HIDE DEF R
<1>2. k <= n
  OBVIOUS
<1> HIDE DEF n
<1>3. ASSUME k <= R + 1 PROVE {j \in 1 .. k : P[j].do = "copyNodes"} = {}
  <2> SUFFICES ASSUME NEW j \in 1 .. k PROVE P[j].do # "copyNodes"
    OBVIOUS
  <2>1. j \in 1 .. n /\ (j <= R \/ j = R + 1)
    BY <1>1, <1>2, <1>3
  <2> QED
    BY <1>1, <2>1
<1>4. ASSUME k <= R + 1 + b PROVE {j \in 1 .. k : P[j].do = "copyRels"} = {}
  <2> SUFFICES ASSUME NEW j \in 1 .. k PROVE P[j].do # "copyRels"
    OBVIOUS
  <2>1. j \in 1 .. n /\ (j <= R \/ j = R + 1 \/ (R + 1 < j /\ j <= R + 1 + b))
    BY <1>1, <1>2, <1>4
  <2> QED
    BY <1>1, <2>1
<1>5. ASSUME NEW what
      PROVE  Loaded(P, k + 1, what) =
               Loaded(P, k, what) \cup (IF P[k + 1].do = what THEN P[k + 1].rows ELSE {})
  <2>1. 1 .. k + 1 = (1 .. k) \cup {k + 1}
    OBVIOUS
  <2>2. {j \in 1 .. k + 1 : P[j].do = what} =
          {j \in 1 .. k : P[j].do = what}
            \cup (IF P[k + 1].do = what THEN {k + 1} ELSE {})
    BY <2>1
  <2> QED
    BY <2>2 DEF Loaded
<1> QED
  BY <1>3, <1>4, <1>5 DEF R, Loaded

\* The nodes that are loaded: by their parts, in the end all; and in the end all edges.
LEMMA LoadedRows ==
  ASSUME NEW P, NEW b, NEW parts, NEW file, NEW nodes, NEW edges,
         Replaces(P, b, parts, file, nodes, edges), NEW k \in Nat, k <= Len(P)
  PROVE  /\ \A n \in Loaded(P, k, "copyNodes") :
              \E l \in 1 .. b : /\ l <= k - (Len(RelKinds) + 1)
                                /\ \E i \in parts[l] : n = Encoded(nodes[i])
         /\ Len(RelKinds) + 1 + b <= k =>
              Loaded(P, k, "copyNodes") = {Encoded(nodes[i]) : i \in DOMAIN nodes}
         /\ Loaded(P, Len(P), "copyRels") = Range(edges)
<1> DEFINE R == Len(RelKinds)
           n == Len(P)
<1>1. /\ R \in Nat /\ n \in Nat /\ b \in Nat /\ R + 1 + b <= n
      /\ \A j \in 1 .. n : j <= R => P[j].do = "deleteRels"
      /\ \A j \in 1 .. n : j = R + 1 => P[j].do = "deleteNodes"
      /\ \A j \in 1 .. n : R + 1 < j /\ j <= R + 1 + b =>
           /\ j - (R + 1) \in 1 .. b
           /\ P[j].do = "copyNodes"
           /\ P[j].rows = {Encoded(nodes[i]) : i \in parts[j - (R + 1)]}
      /\ \A j \in 1 .. n : R + 1 + b < j =>
           P[j].do = "copyRels" /\ P[j].rows \subseteq Range(edges)
      /\ \A l \in 1 .. b : /\ R + 1 + l \in 1 .. n
                           /\ P[R + 1 + l].do = "copyNodes"
                           /\ P[R + 1 + l].rows = {Encoded(nodes[i]) : i \in parts[l]}
  BY ReplacePlaces
<1>2. /\ \A l \in 1 .. b : parts[l] \subseteq DOMAIN nodes
      /\ \A i \in DOMAIN nodes : \E l \in 1 .. b : i \in parts[l]
      /\ \A j \in R + 2 + b .. n : P[j].do = "copyRels"
      /\ UNION {P[j].rows : j \in R + 2 + b .. n} = Range(edges)
  BY Zenon DEF Replaces
<1>0. k <= n
  OBVIOUS
<1> HIDE DEF R, n
<1>3. ASSUME NEW m \in Loaded(P, k, "copyNodes")
      PROVE  \E l \in 1 .. b : l <= k - (R + 1) /\ \E i \in parts[l] : m = Encoded(nodes[i])
  <2>1. PICK j \in 1 .. k : P[j].do = "copyNodes" /\ m \in P[j].rows
    BY <1>3 DEF Loaded
  <2>2. j \in 1 .. n /\ j \in Nat /\ j <= k
    BY <1>0, <1>1
  <2>3. R + 1 < j /\ j <= R + 1 + b
    <3>1. ~ j <= R
      BY <1>1, <2>1, <2>2
    <3>2. j # R + 1
      BY <1>1, <2>1, <2>2
    <3>3. ~ R + 1 + b < j
      BY <1>1, <2>1, <2>2
    <3> QED
      BY <1>1, <2>2, <3>1, <3>2, <3>3
  <2>4. j - (R + 1) \in 1 .. b /\ P[j].rows = {Encoded(nodes[i]) : i \in parts[j - (R + 1)]}
    BY <1>1, <2>2, <2>3
  <2>5. j - (R + 1) <= k - (R + 1)
    BY <1>1, <2>2
  <2> QED
    BY <2>1, <2>4, <2>5
<1>4. ASSUME R + 1 + b <= k
      PROVE  Loaded(P, k, "copyNodes") = {Encoded(nodes[i]) : i \in DOMAIN nodes}
  <2>1. ASSUME NEW i \in DOMAIN nodes PROVE Encoded(nodes[i]) \in Loaded(P, k, "copyNodes")
    <3>1. PICK l \in 1 .. b : i \in parts[l]
      BY <1>2
    <3>2. R + 1 + l \in 1 .. k
      BY <1>1, <1>4, <3>1
    <3>3. P[R + 1 + l].do = "copyNodes" /\ Encoded(nodes[i]) \in P[R + 1 + l].rows
      BY <1>1, <3>1
    <3> QED
      BY <3>2, <3>3 DEF Loaded
  <2>2. ASSUME NEW m \in Loaded(P, k, "copyNodes")
        PROVE  m \in {Encoded(nodes[i]) : i \in DOMAIN nodes}
    BY <1>2, <1>3
  <2> QED
    BY <2>1, <2>2
<1>5. Loaded(P, n, "copyRels") = Range(edges)
  <2>1. {j \in 1 .. n : P[j].do = "copyRels"} = R + 2 + b .. n
    <3>1. ASSUME NEW j \in 1 .. n, P[j].do = "copyRels" PROVE j \in R + 2 + b .. n
      <4>1. ~ j <= R
        BY <1>1, <3>1
      <4>2. j # R + 1
        BY <1>1, <3>1
      <4>3. ~ (R + 1 < j /\ j <= R + 1 + b)
        BY <1>1, <3>1
      <4> QED
        BY <1>1, <4>1, <4>2, <4>3
    <3>2. ASSUME NEW j \in R + 2 + b .. n PROVE j \in 1 .. n /\ P[j].do = "copyRels"
      BY <1>1, <1>2
    <3> QED
      BY <3>1, <3>2
  <2> QED
    BY <1>2, <2>1 DEF Loaded
<1> QED
  BY <1>3, <1>4, <1>5 DEF R, n

\* A deletion of edges, table by table.
LEMMA UnlinkedSteps ==
  ASSUME NEW old, NEW file, NEW k \in Nat
  PROVE  LET R == Len(RelKinds) IN
         /\ k + 1 <= R =>
              {r \in Unlinked(k, old, file) : ~ (/\ r.kind = RelKinds[k + 1]
                                                 /\ Incident(r, IdsOf(old, file)))}
                = Unlinked(k + 1, old, file)
         /\ R <= k => Unlinked(k + 1, old, file) = Unlinked(k, old, file)
         /\ R <= k /\ (\A r \in old.rels : r.kind \in Range(RelKinds)) =>
              Unlinked(k, old, file) = {r \in old.rels : ~ Incident(r, IdsOf(old, file))}
<1> DEFINE R == Len(RelKinds)
           Gone(r) == Incident(r, IdsOf(old, file))
           Upto(r, m) == \E i \in DOMAIN RelKinds : i <= m /\ r.kind = RelKinds[i]
<1>1. R \in Nat /\ DOMAIN RelKinds = 1 .. R
  BY RelKindsAssumption
<1>2. \A m : Unlinked(m, old, file) = {r \in old.rels : ~ (Gone(r) /\ Upto(r, m))}
  BY DEF Unlinked
<1> HIDE DEF R, Gone
<1>3. k + 1 <= R => \A r : Upto(r, k + 1) <=> Upto(r, k) \/ r.kind = RelKinds[k + 1]
  BY <1>1
<1>4. R <= k => \A r : Upto(r, k + 1) <=> Upto(r, k)
  BY <1>1
<1>5. R <= k => \A r : r.kind \in Range(RelKinds) => Upto(r, k)
  BY <1>1 DEF Range
<1> HIDE DEF Upto
<1>6. k + 1 <= R =>
        {r \in Unlinked(k, old, file) : ~ (r.kind = RelKinds[k + 1] /\ Gone(r))}
          = Unlinked(k + 1, old, file)
  BY <1>2, <1>3
<1>7. R <= k => Unlinked(k + 1, old, file) = Unlinked(k, old, file)
  BY <1>2, <1>4
<1>8. R <= k /\ (\A r \in old.rels : r.kind \in Range(RelKinds)) =>
        Unlinked(k, old, file) = {r \in old.rels : ~ Gone(r)}
  BY <1>2, <1>5
<1> QED
  BY <1>6, <1>7, <1>8 DEF R, Gone

\* The graph a replace has reached after k statements of its program.
Reached(d, P, k, old, file) ==
  d.nodes = NodesAfter(P, k, old, file) /\ d.rels = RelsAfter(P, k, old, file)

\* Kuzu accepts each statement of a replace whose rows fit, and the next
\* graph is the one foretold.
LEMMA ReplaceSteps ==
  ASSUME NEW P, NEW b, NEW parts, NEW file, NEW new, new.nodes \in Seq(Node),
         Replaces(P, b, parts, file, new.nodes, new.edges),
         \A j \in 1 .. Len(P) : P[j].do = "copyNodes" => IsFiniteSet(P[j].rows),
         NEW old, DbInv(old), Fits(new, Kept(old, file)),
         NEW d, DbInv(d), NEW k \in Nat, k + 1 <= Len(P), Reached(d, P, k, old, file)
  PROVE  ~ Refused(d, P[k + 1]) /\ Reached(After(d, P[k + 1]), P, k + 1, old, file)
<1> DEFINE R == Len(RelKinds)
           n == Len(P)
           st == P[k + 1]
           nodes == new.nodes
           loaded == Loaded(P, k, "copyNodes")
           linked == Loaded(P, k, "copyRels")
<1>1. /\ R \in Nat /\ n \in Nat /\ b \in Nat /\ R + 1 + b <= n
      /\ \A j \in 1 .. n : j <= R => P[j].do = "deleteRels"
      /\ \A j \in 1 .. n : j = R + 1 => P[j].do = "deleteNodes"
      /\ \A j \in 1 .. n : R + 1 < j /\ j <= R + 1 + b =>
           /\ j - (R + 1) \in 1 .. b
           /\ P[j].do = "copyNodes"
           /\ P[j].rows = {Encoded(nodes[i]) : i \in parts[j - (R + 1)]}
      /\ \A j \in 1 .. n : R + 1 + b < j =>
           P[j].do = "copyRels" /\ P[j].rows \subseteq Range(new.edges)
  BY ReplacePlaces
<1>2. /\ \A j \in 1 .. R : P[j].kind = RelKinds[j] /\ P[j].file = file
      /\ P[R + 1].file = file
      /\ \A l \in 1 .. b : parts[l] \subseteq DOMAIN nodes
      /\ \A l, m \in 1 .. b : l # m => parts[l] \cap parts[m] = {}
  BY Zenon DEF Replaces
<1>3. /\ k <= R + 1 => loaded = {}
      /\ k <= R + 1 + b => linked = {}
      /\ \A what : Loaded(P, k + 1, what) =
           Loaded(P, k, what) \cup (IF st.do = what THEN st.rows ELSE {})
  <2>1. k <= Len(P)
    BY <1>1
  <2> QED
    BY <2>1, LoadedSteps
<1>4. /\ \A m \in loaded :
           \E l \in 1 .. b : l <= k - (R + 1) /\ \E i \in parts[l] : m = Encoded(nodes[i])
      /\ R + 1 + b <= k => loaded = {Encoded(nodes[i]) : i \in DOMAIN nodes}
  <2>1. k <= Len(P)
    BY <1>1
  <2> QED
    BY <2>1, LoadedRows
<1>5. /\ k + 1 <= R =>
           {r \in Unlinked(k, old, file) : ~ (r.kind = RelKinds[k + 1]
                                              /\ Incident(r, IdsOf(old, file)))}
             = Unlinked(k + 1, old, file)
      /\ R <= k => Unlinked(k + 1, old, file) = Unlinked(k, old, file)
      /\ R <= k => Unlinked(k, old, file) = {r \in old.rels : ~ Incident(r, IdsOf(old, file))}
  BY UnlinkedSteps DEF DbInv
<1>6. /\ d.nodes = (IF k <= R THEN old.nodes ELSE Kept(old, file) \cup loaded)
      /\ d.rels = Unlinked(k, old, file) \cup linked
      /\ d = [nodes |-> d.nodes, rels |-> d.rels, indexes |-> d.indexes]
  BY DEF Reached, NodesAfter, RelsAfter, DbInv
<1>7. /\ NodesAfter(P, k + 1, old, file) =
           (IF k + 1 <= R THEN old.nodes
            ELSE Kept(old, file) \cup Loaded(P, k + 1, "copyNodes"))
      /\ RelsAfter(P, k + 1, old, file) =
           Unlinked(k + 1, old, file) \cup Loaded(P, k + 1, "copyRels")
  BY DEF NodesAfter, RelsAfter
<1>8. \A i \in DOMAIN nodes : /\ Encoded(nodes[i]).id = nodes[i].id
                              /\ nodes[i] \in Range(nodes)
  BY EncodedNode DEF Range
<1>9. /\ \A i, j \in DOMAIN nodes : nodes[i].id = nodes[j].id => i = j
      /\ \A m \in Range(nodes) : m.id \notin {x.id : x \in Kept(old, file)}
      /\ \A e \in Range(new.edges) :
           {e.from, e.to} \subseteq {x.id : x \in Kept(old, file)} \cup {x.id : x \in Range(nodes)}
  BY DEF Fits
<1>10. k + 1 <= n /\ k + 1 \in 1 .. n
  BY <1>1
<1>11. st.do = "copyNodes" => IsFiniteSet(st.rows)
  BY <1>10
<1> HIDE DEF R, n, st, nodes, loaded, linked
<1>12. CASE k + 1 <= R
  <2>1. st.do = "deleteRels" /\ st.kind = RelKinds[k + 1] /\ st.file = file
    <3>1. k + 1 \in 1 .. R
      BY <1>1, <1>12
    <3> QED
      BY <1>1, <1>2, <1>10, <1>12, <3>1 DEF st
  <2>2. ~ Refused(d, st)
    BY <2>1 DEF Refused
  <2>3. d.nodes = old.nodes /\ d.rels = Unlinked(k, old, file)
    BY <1>1, <1>3, <1>6, <1>12
  <2>4. IdsOf(d, file) = IdsOf(old, file)
    BY <2>3 DEF IdsOf
  <2>5. After(d, st) = [d EXCEPT !.rels = {r \in @ : ~ (r.kind = st.kind
                                                       /\ Incident(r, IdsOf(d, st.file)))}]
    BY <2>1 DEF After
  <2>6. /\ After(d, st).nodes = d.nodes
        /\ After(d, st).rels = {r \in d.rels : ~ (r.kind = RelKinds[k + 1]
                                                  /\ Incident(r, IdsOf(old, file)))}
    BY <1>6, <2>1, <2>4, <2>5
  <2>7. /\ Loaded(P, k + 1, "copyRels") = {}
        /\ NodesAfter(P, k + 1, old, file) = old.nodes
    BY <1>1, <1>3, <1>7, <1>12, <2>1 DEF linked
  <2> QED
    BY <1>5, <1>7, <1>12, <2>2, <2>3, <2>6, <2>7 DEF Reached, st
<1>13. CASE k = R
  <2>1. st.do = "deleteNodes" /\ st.file = file
    BY <1>1, <1>2, <1>10, <1>13 DEF st
  <2>2. d.nodes = old.nodes /\ d.rels = {r \in old.rels : ~ Incident(r, IdsOf(old, file))}
    BY <1>1, <1>3, <1>5, <1>6, <1>13
  <2>3. ~ Refused(d, st)
    BY <2>1, <2>2 DEF Refused, IdsOf
  <2>4. After(d, st).nodes = Kept(old, file) /\ After(d, st).rels = d.rels
    BY <1>6, <2>1, <2>2 DEF After, Kept
  <2>5. Loaded(P, k + 1, "copyNodes") = {} /\ Loaded(P, k + 1, "copyRels") = {}
    BY <1>1, <1>3, <1>13, <2>1 DEF loaded, linked
  <2>6. ~ (k + 1 <= R) /\ R <= k
    BY <1>1, <1>13
  <2>7. After(d, st).nodes = NodesAfter(P, k + 1, old, file)
    BY <1>7, <2>4, <2>5, <2>6
  <2>8. After(d, st).rels = RelsAfter(P, k + 1, old, file)
    BY <1>5, <1>7, <2>2, <2>4, <2>5, <2>6
  <2> QED
    BY <2>3, <2>7, <2>8 DEF Reached, st
<1>14. CASE R < k /\ k <= R + b
  <2> DEFINE l == (k + 1) - (R + 1)
  <2>1. /\ l \in 1 .. b /\ st.do = "copyNodes"
        /\ st.rows = {Encoded(nodes[i]) : i \in parts[l]}
    BY <1>1, <1>10, <1>14 DEF st
  <2>2. \A m \in 1 .. b : m <= k - (R + 1) => m # l
    BY <1>1
  <2> HIDE DEF l
  <2>3. d.nodes = Kept(old, file) \cup loaded /\ linked = {}
    BY <1>1, <1>3, <1>6, <1>14
  <2>4. \A m \in st.rows : \E i \in parts[l] : m = Encoded(nodes[i]) /\ i \in DOMAIN nodes
    BY <1>2, <2>1
  <2>5. UniqueIds(st.rows)
    BY <1>8, <1>9, <2>4 DEF UniqueIds
  <2>6. {m.id : m \in st.rows} \cap {m.id : m \in d.nodes} = {}
    <3> SUFFICES ASSUME NEW m \in st.rows, NEW x \in d.nodes, m.id = x.id PROVE FALSE
      OBVIOUS
    <3>1. PICK i \in parts[l] : m = Encoded(nodes[i]) /\ i \in DOMAIN nodes
      BY <2>4
    <3>2. CASE x \in Kept(old, file)
      BY <1>8, <1>9, <3>1, <3>2
    <3>3. CASE x \in loaded
      <4>1. PICK g \in 1 .. b : g <= k - (R + 1) /\ \E j \in parts[g] : x = Encoded(nodes[j])
        BY <1>4, <3>3
      <4>2. PICK j \in parts[g] : x = Encoded(nodes[j])
        BY <4>1
      <4>3. j \in DOMAIN nodes /\ g # l
        BY <1>2, <2>2, <4>1, <4>2
      <4>4. i = j
        BY <1>8, <1>9, <3>1, <4>2, <4>3
      <4> QED
        BY <1>2, <2>1, <3>1, <4>2, <4>3, <4>4
    <3> QED
      BY <2>3, <3>2, <3>3
  <2>7. ~ Refused(d, st)
    <3>1. /\ IsFiniteSet(st.rows)
          /\ Cardinality({m.id : m \in st.rows}) = Cardinality(st.rows)
          /\ Cardinality({m.id : m \in st.rows}) \in Nat
      BY <1>11, <2>1, <2>5, IdsOfUnique
    <3>2. ~ (Cardinality({m.id : m \in st.rows}) < Cardinality(st.rows))
      BY <3>1
    <3> QED
      BY <2>1, <2>6, <3>2 DEF Refused
  <2>8. After(d, st).nodes = d.nodes \cup st.rows /\ After(d, st).rels = d.rels
    BY <1>6, <2>1 DEF After
  <2>9. /\ Loaded(P, k + 1, "copyNodes") = loaded \cup st.rows
        /\ Loaded(P, k + 1, "copyRels") = {}
    BY <1>3, <2>1, <2>3 DEF loaded, linked
  <2>10. ~ (k + 1 <= R) /\ R <= k
    BY <1>1, <1>14
  <2>11. After(d, st).nodes = NodesAfter(P, k + 1, old, file)
    BY <1>7, <2>3, <2>8, <2>9, <2>10
  <2>12. After(d, st).rels = RelsAfter(P, k + 1, old, file)
    BY <1>5, <1>6, <1>7, <2>3, <2>8, <2>9, <2>10
  <2> QED
    BY <2>7, <2>11, <2>12 DEF Reached, st
<1>15. CASE R + b < k
  <2>1. st.do = "copyRels" /\ st.rows \subseteq Range(new.edges)
    BY <1>1, <1>10, <1>15 DEF st
  <2>2. d.nodes = Kept(old, file) \cup {Encoded(nodes[i]) : i \in DOMAIN nodes}
    BY <1>1, <1>4, <1>6, <1>15
  <2>3. {x.id : x \in Range(nodes)} \subseteq {x.id : x \in d.nodes}
    BY <1>8, <2>2 DEF Range
  <2>4. {x.id : x \in Kept(old, file)} \subseteq {x.id : x \in d.nodes}
    BY <2>2
  <2>5. ~ Refused(d, st)
    BY <1>9, <2>1, <2>3, <2>4 DEF Refused
  <2>6. After(d, st).nodes = d.nodes /\ After(d, st).rels = d.rels \cup st.rows
    BY <1>6, <2>1 DEF After
  <2>7. /\ Loaded(P, k + 1, "copyNodes") = loaded
        /\ Loaded(P, k + 1, "copyRels") = linked \cup st.rows
    BY <1>3, <2>1 DEF loaded, linked
  <2>8. ~ (k + 1 <= R) /\ R <= k /\ ~ (k <= R)
    BY <1>1, <1>15
  <2>9. After(d, st).nodes = NodesAfter(P, k + 1, old, file)
    BY <1>6, <1>7, <2>6, <2>7, <2>8
  <2>10. After(d, st).rels = RelsAfter(P, k + 1, old, file)
    BY <1>5, <1>6, <1>7, <2>6, <2>7, <2>8
  <2> QED
    BY <2>5, <2>9, <2>10 DEF Reached, st
<1> QED
  BY <1>1, <1>12, <1>13, <1>14, <1>15

\* The rest of the old graph, and the new rows.
Refreshed(d, old, file, new) ==
  /\ {Hydrated(n) : n \in d.nodes} =
       {Hydrated(n) : n \in Kept(old, file)} \cup Range(new.nodes)
  /\ d.rels = {r \in old.rels : ~ Incident(r, IdsOf(old, file))} \cup Range(new.edges)

\* After the last statement the file is what was inserted.
LEMMA ReplaceEnds ==
  ASSUME NEW P, NEW b, NEW parts, NEW file, NEW new, new.nodes \in Seq(Node),
         Replaces(P, b, parts, file, new.nodes, new.edges),
         NEW old, DbInv(old), NEW d, Reached(d, P, Len(P), old, file)
  PROVE  Refreshed(d, old, file, new)
<1> DEFINE R == Len(RelKinds)
           n == Len(P)
           nodes == new.nodes
           load == {Encoded(nodes[i]) : i \in DOMAIN nodes}
<1>1. /\ R \in Nat /\ n \in Nat /\ b \in Nat /\ R + 1 + b <= n
  BY ReplacePlaces
<1>2. ~ (n <= R) /\ R <= n /\ R + 1 + b <= n /\ n <= n
  <2> HIDE DEF R, n
  <2> QED
    BY <1>1
<1>3. Loaded(P, n, "copyNodes") = load /\ Loaded(P, n, "copyRels") = Range(new.edges)
  BY <1>1, <1>2, LoadedRows
<1>4. Unlinked(n, old, file) = {r \in old.rels : ~ Incident(r, IdsOf(old, file))}
  BY <1>1, <1>2, UnlinkedSteps DEF DbInv
<1>5. d.nodes = Kept(old, file) \cup load
  BY <1>2, <1>3 DEF Reached, NodesAfter
<1>6. d.rels = {r \in old.rels : ~ Incident(r, IdsOf(old, file))} \cup Range(new.edges)
  BY <1>3, <1>4 DEF Reached, RelsAfter
<1>7. \A i \in DOMAIN nodes : Hydrated(Encoded(nodes[i])) = nodes[i]
  BY EncodedNode
<1>8. {Hydrated(m) : m \in load} = Range(nodes)
  <2>1. \A i \in DOMAIN nodes : nodes[i] \in {Hydrated(m) : m \in load}
    BY <1>7
  <2>2. \A m \in load : Hydrated(m) \in Range(nodes)
    BY <1>7 DEF Range
  <2> HIDE DEF load
  <2> QED
    BY <2>1, <2>2 DEF Range
<1> HIDE DEF load
<1> QED
  BY <1>5, <1>6, <1>8 DEF Refreshed

-----------------------------------------------------------------------------
(* A remove or a replace among other calls *)

\* A remove, or a replace whose rows fit the graph without the file.
Replacing(call) ==
  /\ call.op.do \in {"remove", "replace"}
  /\ Fits(Brings(call.op), Kept(call.before, call.op.file))

\* Such a call meets no error but that of the connection or the gate, and the
\* database is where the statements behind it have taken it.
ReplaceInv(c) ==
  at[c] # "idle" /\ Replacing(calls[c]) =>
    /\ DbInv(calls[c].before)
    /\ calls[c].err \in {"", "closed", "blocked"}
    /\ calls[c].err = "" =>
         /\ OnCourse(calls[c])
         /\ Reached(db, Program(calls[c].op), Done(calls[c]), calls[c].before,
                    calls[c].op.file)

RefreshInv == ReadInv /\ \A c \in Callers : ReplaceInv(c)

\* The statement a replace is at.
LEMMA ReplaceStatement ==
  ASSUME RefreshInv, NEW c \in Callers, at[c] \in Inside, Replacing(calls[c])
  PROVE  /\ calls[c].err = "" /\ CallInv(calls[c]) /\ calls[c].todo # <<>>
         /\ OnCourse(calls[c]) /\ DbInv(calls[c].before)
         /\ St(c).do \in {"deleteRels", "deleteNodes", "copyNodes", "copyRels"}
         /\ Mutates(St(c).words)
         /\ ~ Refused(db, St(c))
         /\ Reached(After(db, St(c)), Program(calls[c].op), Done(calls[c]) + 1,
                    calls[c].before, calls[c].op.file)
<1> DEFINE call == calls[c]
           op == call.op
           P == Program(op)
           k == Done(call)
<1>1. /\ CallInv(call) /\ call.todo # <<>> /\ call.err = "" /\ op \in Operations
      /\ op.do \in {"remove", "replace"} /\ Fits(Brings(op), Kept(call.before, op.file))
  BY DEF RefreshInv, ReadInv, CallsInv, CallerInv, CallInv, Inside, Replacing
<1>2. /\ OnCourse(call) /\ DbInv(call.before) /\ DbInv(db)
      /\ Reached(db, P, k, call.before, op.file)
  BY <1>1 DEF RefreshInv, ReadInv, ReplaceInv, Inside
<1>3. PICK b, parts : /\ Replaces(P, b, parts, op.file, Brings(op).nodes, Brings(op).edges)
                      /\ Brings(op).nodes \in Seq(Node)
  BY <1>1, ProgramReplaces
<1>4. /\ Len(P) \in Nat /\ DOMAIN P = 1 .. Len(P)
      /\ \A i \in DOMAIN P : Sound(op, P[i])
  BY <1>1, ProgramSeq
<1>5. k + 1 \in 1 .. Len(P) /\ St(c) = P[k + 1] /\ Sound(op, St(c))
  BY <1>1, <1>2, HeadOfTodo DEF St
<1>6. k \in Nat
  BY <1>2 DEF OnCourse, IsRest, Done
<1> HIDE DEF call, op, P, k
<1>7. \A j \in 1 .. Len(P) : P[j].do = "copyNodes" => IsFiniteSet(P[j].rows)
  BY <1>4 DEF Sound
<1>8. k + 1 <= Len(P)
  BY <1>4, <1>5
<1>9. /\ ~ Refused(db, P[k + 1])
      /\ Reached(After(db, P[k + 1]), P, k + 1, call.before, op.file)
  BY <1>1, <1>2, <1>3, <1>6, <1>7, <1>8, ReplaceSteps, Zenon
<1>10. P[k + 1].do \in {"deleteRels", "deleteNodes", "copyNodes", "copyRels"}
  <2> DEFINE R == Len(RelKinds)
             n == Len(P)
  <2>1. /\ R \in Nat /\ b \in Nat
        /\ \A j \in 1 .. n : j <= R => P[j].do = "deleteRels"
        /\ \A j \in 1 .. n : j = R + 1 => P[j].do = "deleteNodes"
        /\ \A j \in 1 .. n : R + 1 < j /\ j <= R + 1 + b => P[j].do = "copyNodes"
        /\ \A j \in 1 .. n : R + 1 + b < j => P[j].do = "copyRels"
    BY <1>3, ReplacePlaces
  <2> HIDE DEF R
  <2>2. \/ k + 1 <= R \/ k + 1 = R + 1 \/ (R + 1 < k + 1 /\ k + 1 <= R + 1 + b)
        \/ R + 1 + b < k + 1
    BY <1>6, <2>1
  <2> HIDE DEF n
  <2> QED
    BY <1>5, <2>1, <2>2 DEF n
<1>11. Mutates(St(c).words)
  BY <1>5, <1>10 DEF Sound, Changing, GraphChanging
<1> QED
  BY <1>1, <1>2, <1>5, <1>9, <1>10, <1>11 DEF call, op, P, k

\* Nobody else touches nodes and edges while a replace is on its way.
LEMMA OthersReplace ==
  ASSUME RefreshInv, NEW c \in Callers, Run(c) \/ db' = db,
         \/ \E op \in Operations : Call(c, op)
         \/ Lock(c) \/ Check(c) \/ Run(c) \/ Fetch(c) \/ Return(c) \/ TimeOut(c),
         NEW d \in Callers \ {c}
  PROVE  ReplaceInv(d)'
<1>1. calls'[d] = calls[d] /\ at'[d] = at[d]
  BY OthersUnmoved DEF RefreshInv, ReadInv
<1>2. SUFFICES ASSUME at[d] # "idle", Replacing(calls[d])
               PROVE  db'.nodes = db.nodes /\ db'.rels = db.rels
  BY <1>1 DEF RefreshInv, ReplaceInv, Reached
<1>3. CASE db' = db
  BY <1>3
<1>4. CASE Run(c) /\ db' # db
  <2>1. /\ at[c] = "run" /\ CallerInv(c) /\ db' = After(db, St(c)) /\ DbInv(db)
        /\ WriterAlone
    BY <1>4 DEF Run, RefreshInv, ReadInv, CallsInv
  <2>2. /\ Sound(calls[c].op, St(c)) /\ CallInv(calls[c]) /\ calls[c].todo # <<>>
        /\ calls[c].op \in Operations
    BY <2>1, HeadOfTodo DEF St, CallerInv, Inside, CallInv
  <2>3. Writes(calls[d].op)
    BY <1>2 DEF Replacing, Writes, Writing
  <2>4. ~ Writes(calls[c].op)
    BY <2>1, <2>3 DEF WriterAlone
  <2>5. St(c).do = "rows" => St(c).words = calls[c].op.words
    BY <2>2, CypherStatement DEF Sound, St
  <2>6. db = [nodes |-> db.nodes, rels |-> db.rels, indexes |-> db.indexes]
    BY <2>1 DEF DbInv
  <2>7. After(db, St(c)).nodes = db.nodes /\ After(db, St(c)).rels = db.rels
    BY <2>2, <2>4, <2>5, <2>6, OnlyWritersChange
  <2> QED
    BY <2>1, <2>7
<1> QED
  BY <1>3, <1>4

\* Before its first statement nothing is changed.
LEMMA ReplaceStarts ==
  ASSUME NEW d, NEW P, NEW file
  PROVE  Reached(d, P, 0, d, file)
<1>1. Len(RelKinds) \in Nat /\ DOMAIN RelKinds = 1 .. Len(RelKinds)
  BY RelKindsAssumption
<1>2. 0 <= Len(RelKinds) /\ \A i \in DOMAIN RelKinds : ~ (i <= 0)
  BY <1>1
<1>3. NodesAfter(P, 0, d, file) = d.nodes
  BY <1>2 DEF NodesAfter
<1>4. Unlinked(0, d, file) = d.rels
  BY <1>2 DEF Unlinked
<1>5. Loaded(P, 0, "copyRels") = {}
  BY DEF Loaded
<1> QED
  BY <1>3, <1>4, <1>5 DEF Reached, RelsAfter

\* The moving caller.
LEMMA MoverReplaces ==
  ASSUME RefreshInv, NEW c \in Callers, Run(c) \/ db' = db,
         \/ \E op \in Operations : Call(c, op)
         \/ Lock(c) \/ Check(c) \/ Run(c) \/ Fetch(c) \/ Return(c) \/ TimeOut(c)
  PROVE  ReplaceInv(c)'
<1>0. /\ Shape /\ CallerInv(c) /\ ReplaceInv(c) /\ CallsInv /\ DbInv(db)
      /\ calls = [d \in Callers |-> calls[d]] /\ at \in [Callers -> Phases]
      /\ IsCall(calls[c])
  BY DEF RefreshInv, ReadInv, CallsInv, Shape
<1>1. ASSUME NEW op \in Operations, Call(c, op) PROVE ReplaceInv(c)'
  <2>1. /\ calls'[c].op = op /\ calls'[c].before = db /\ calls'[c].err = ""
        /\ Done(calls'[c]) = 0 /\ OnCourse(calls'[c])
    BY <1>0, <1>1, CallStarts
  <2>2. db' = db
    BY <1>1 DEF Call
  <2> QED
    BY <1>0, <2>1, <2>2, ReplaceStarts DEF ReplaceInv
<1>2. CASE Lock(c)
  <2>1. calls'[c] = calls[c] /\ db' = db /\ at[c] # "idle"
    BY <1>2 DEF Lock
  <2> QED
    BY <1>0, <2>1 DEF ReplaceInv
<1>3. ASSUME NEW err \in {"closed", "blocked"}, OnError(c, err), at[c] \in Inside, db' = db
      PROVE  ReplaceInv(c)'
  <2>1. PICK call :
           /\ Unlocked(c, call) /\ Continues(c, call)
           /\ call.err \in {"", err}
           /\ St(c).do \notin {"dropIndex", "search"} => call.err = err /\ call.todo = <<>>
    BY <1>0, <1>3, ErrorContinues, Zenon
  <2>2. calls'[c] = call /\ call.op = calls[c].op /\ call.before = calls[c].before
    BY <1>0, <2>1 DEF Continues
  <2>3. Replacing(call) => Replacing(calls[c])
    BY <2>2 DEF Replacing
  <2>4. Replacing(call) => DbInv(call.before) /\ call.err = err
    BY <1>3, <2>1, <2>2, <2>3, ReplaceStatement
  <2> QED
    BY <2>2, <2>4 DEF ReplaceInv
<1>4. CASE Check(c)
  <2>0. at[c] = "check" /\ at[c] \in Inside /\ db' = db
    BY <1>4 DEF Check, Inside
  <2>1. CASE St(c).do = "close"
    <3>1. PICK call : call = [calls[c] EXCEPT !.todo = <<>>]
      OBVIOUS
    <3>2. call.op = calls[c].op /\ call.before = calls[c].before
      BY <1>0, <3>1 DEF IsCall
    <3>3. Unlocked(c, call)
      BY <1>4, <2>1, <3>1 DEF Check
    <3>4. calls'[c] = call
      BY <1>0, <3>3 DEF Unlocked
    <3>5. ~ Replacing(calls[c])
      BY <2>0, <2>1, ReplaceStatement
    <3> QED
      BY <3>2, <3>4, <3>5 DEF ReplaceInv, Replacing
  <2>2. CASE at' = [at EXCEPT ![c] = "run"] /\ UNCHANGED calls
    BY <1>0, <2>0, <2>2 DEF ReplaceInv
  <2> QED
    BY <1>3, <1>4, <2>0, <2>1, <2>2 DEF Check
<1>5. CASE Run(c)
  <2>0. at[c] = "run" /\ at[c] \in Inside /\ at[c] # "idle"
    BY <1>5 DEF Run, Inside
  <2>1. CASE ~ Replacing(calls[c])
    <3>1. calls'[c].op = calls[c].op /\ calls'[c].before = calls[c].before
      <4>1. ASSUME OnError(c, "refused")
            PROVE  calls'[c].op = calls[c].op /\ calls'[c].before = calls[c].before
        <5>1. PICK call : Continues(c, call)
          BY <1>0, <2>0, <4>1, ErrorContinues
        <5> QED
          BY <1>0, <5>1 DEF Continues
      <4>2. ASSUME Unlocked(c, [calls[c] EXCEPT !.todo = Tail(@),
                                                !.rows = @ \o Rows(db, St(c))])
            PROVE  calls'[c].op = calls[c].op /\ calls'[c].before = calls[c].before
        <5>1. PICK call : call = [calls[c] EXCEPT !.todo = Tail(@),
                                                  !.rows = @ \o Rows(db, St(c))]
          OBVIOUS
        <5>2. call.op = calls[c].op /\ call.before = calls[c].before
          BY <1>0, <5>1 DEF IsCall
        <5>3. Unlocked(c, call)
          BY <4>2, <5>1
        <5> QED
          BY <1>0, <5>2, <5>3 DEF Unlocked
      <4>3. CASE calls' = calls
        BY <4>3
      <4> QED
        BY <1>5, <4>1, <4>2, <4>3 DEF Run
    <3> QED
      BY <2>1, <3>1 DEF ReplaceInv, Replacing
  <2>2. CASE Replacing(calls[c])
    <3>1. /\ calls[c].err = "" /\ CallInv(calls[c]) /\ calls[c].todo # <<>>
          /\ OnCourse(calls[c]) /\ DbInv(calls[c].before)
          /\ St(c).do # "rows"
          /\ ~ Refused(db, St(c))
          /\ Reached(After(db, St(c)), Program(calls[c].op), Done(calls[c]) + 1,
                     calls[c].before, calls[c].op.file)
      BY <2>0, <2>2, ReplaceStatement
    <3>2. PICK call : call = [calls[c] EXCEPT !.todo = Tail(@),
                                              !.rows = @ \o Rows(db, St(c))]
      OBVIOUS
    <3>3. /\ call.op = calls[c].op /\ call.before = calls[c].before
          /\ call.todo = Tail(calls[c].todo) /\ call.err = calls[c].err
      BY <1>0, <3>2 DEF IsCall
    <3>4. Unlocked(c, call) /\ db' = After(db, St(c))
      BY <1>5, <3>1, <3>2 DEF Run
    <3>5. calls'[c] = call
      BY <1>0, <3>4 DEF Unlocked
    <3>6. OnCourse(call) /\ Done(call) = Done(calls[c]) + 1
      BY <3>1, <3>3, TailOnCourse
    <3>7. Reached(db', Program(call.op), Done(call), call.before, call.op.file)
      BY <3>1, <3>3, <3>4, <3>6
    <3> QED
      BY <3>1, <3>3, <3>5, <3>6, <3>7 DEF ReplaceInv
  <2> QED
    BY <2>1, <2>2
<1>6. CASE Fetch(c)
  <2>0. at[c] = "fetch" /\ at[c] \in Inside
    BY <1>6 DEF Fetch, Inside
  <2>1. ~ Replacing(calls[c])
    BY <1>0, <2>0, ReplaceStatement DEF CallerInv
  <2>2. calls'[c].op = calls[c].op /\ calls'[c].before = calls[c].before
    <3>1. ASSUME NEW call, Unlocked(c, call), call.op = calls[c].op,
                 call.before = calls[c].before
          PROVE  calls'[c].op = calls[c].op /\ calls'[c].before = calls[c].before
      BY <1>0, <3>1 DEF Unlocked
    <3>2. CASE Unlocked(c, [calls[c] EXCEPT !.todo = <<>>])
      <4>1. PICK call : call = [calls[c] EXCEPT !.todo = <<>>]
        OBVIOUS
      <4> QED
        BY <1>0, <3>1, <3>2, <4>1 DEF IsCall
    <3>3. CASE Unlocked(c, [calls[c] EXCEPT !.todo = <<>>, !.truncated = TRUE])
      <4>1. PICK call : call = [calls[c] EXCEPT !.todo = <<>>, !.truncated = TRUE]
        OBVIOUS
      <4> QED
        BY <1>0, <3>1, <3>3, <4>1 DEF IsCall
    <3>4. ASSUME NEW row, calls' = [calls EXCEPT ![c].rows = Append(@, row)]
          PROVE  calls'[c].op = calls[c].op /\ calls'[c].before = calls[c].before
      <4>1. PICK call : call = [calls[c] EXCEPT !.rows = Append(@, row)]
        OBVIOUS
      <4>2. calls'[c] = call
        BY <1>0, <3>4, <4>1
      <4> QED
        BY <1>0, <4>1, <4>2 DEF IsCall
    <3> QED
      BY <1>6, <3>2, <3>3, <3>4 DEF Fetch
  <2> QED
    BY <2>1, <2>2 DEF ReplaceInv, Replacing
<1>7. CASE Return(c)
  <2>1. at'[c] = "idle"
    BY <1>0, <1>7 DEF Return
  <2> QED
    BY <2>1 DEF ReplaceInv
<1>8. CASE TimeOut(c)
  <2>0. at[c] \in {"run", "fetch"} /\ at[c] \in Inside /\ readOnly
    BY <1>8 DEF TimeOut, Inside
  <2>1. ~ Replacing(calls[c])
    BY <1>0, <2>0, ReplaceStatement DEF CallerInv
  <2>2. PICK call : Continues(c, call)
    BY <1>0, <1>8, <2>0, ErrorContinues DEF TimeOut
  <2>3. calls'[c].op = calls[c].op /\ calls'[c].before = calls[c].before
    BY <1>0, <2>2 DEF Continues
  <2> QED
    BY <2>1, <2>3 DEF ReplaceInv, Replacing
<1> QED
  BY <1>1, <1>2, <1>4, <1>5, <1>6, <1>7, <1>8

\* Every step keeps the removes and replaces on course.
LEMMA NextKeepsRefresh ==
  ASSUME RefreshInv, [Next]_vars
  PROVE  RefreshInv'
<1>1. ReadInv'
  BY NextKeepsReads DEF RefreshInv
<1>2. CASE UNCHANGED vars
  <2>1. \A c \in Callers : ReplaceInv(c)'
    BY <1>2 DEF vars, RefreshInv, ReplaceInv
  <2> QED
    BY <1>1, <2>1 DEF RefreshInv
<1>3. CASE ~ UNCHANGED vars
  <2>1. PICK c \in Callers :
           /\ \/ \E op \in Operations : Call(c, op)
              \/ Lock(c) \/ Check(c) \/ Run(c) \/ Fetch(c) \/ Return(c) \/ TimeOut(c)
           /\ Run(c) \/ db' = db
    BY <1>3, OneMoves DEF RefreshInv, ReadInv
  <2>2. \A d \in Callers \ {c} : ReplaceInv(d)'
    BY <2>1, OthersReplace
  <2>3. ReplaceInv(c)'
    BY <2>1, MoverReplaces
  <2> QED
    BY <1>1, <2>2, <2>3 DEF RefreshInv
<1> QED
  BY <1>2, <1>3

\* RemoveFile succeeds whatever edges the file's nodes have, ReplaceFile if
\* its rows fit, and both leave exactly the rest of the graph and the new
\* rows, for any split of the rows into COPY batches and whatever other
\* goroutines do between the statements (Store.RemoveFile, ReplaceFile,
\* BulkLoadNodes, BulkLoadEdges).
THEOREM ReplacementExact == Spec => []FileReplacedExactly
<1>1. Init => RefreshInv
  <2>1. Init => \A c \in Callers : ReplaceInv(c)
    BY DEF Init, ReplaceInv
  <2> QED
    BY <2>1, InitReads DEF RefreshInv
<1>2. RefreshInv => FileReplacedExactly
  <2> SUFFICES ASSUME RefreshInv, NEW c \in Callers,
                      calls[c].op.do \in {"remove", "replace"}, at[c] = "returned",
                      calls[c].err \notin {"closed", "blocked"},
                      Fits(Brings(calls[c].op), Kept(calls[c].before, calls[c].op.file))
               PROVE  /\ calls[c].err = ""
                      /\ Refreshed(db, calls[c].before, calls[c].op.file, Brings(calls[c].op))
    BY DEF FileReplacedExactly, Brings, Kept, Refreshed
  <2> DEFINE call == calls[c]
             op == call.op
             P == Program(op)
  <2>1. Replacing(call)
    BY DEF Replacing
  <2>2. /\ DbInv(call.before) /\ call.err = "" /\ OnCourse(call)
        /\ Reached(db, P, Done(call), call.before, op.file)
    BY <2>1 DEF RefreshInv, ReplaceInv
  <2>3. op \in Operations /\ call.todo = <<>>
    BY DEF RefreshInv, ReadInv, CallsInv, CallerInv, CallInv
  <2>4. Len(P) \in Nat
    BY <2>3, ProgramSeq
  <2>5. Done(call) = Len(P)
    BY <2>3, <2>4 DEF Done
  <2>6. PICK b, parts : /\ Replaces(P, b, parts, op.file, Brings(op).nodes, Brings(op).edges)
                        /\ Brings(op).nodes \in Seq(Node)
    BY <2>3, ProgramReplaces
  <2> HIDE DEF call, op, P
  <2>7. Reached(db, P, Len(P), call.before, op.file)
    BY <2>2, <2>5
  <2>8. Refreshed(db, call.before, op.file, Brings(op))
    BY <2>2, <2>6, <2>7, ReplaceEnds, Zenon
  <2> QED
    BY <2>2, <2>8 DEF call, op
<1> QED
  BY <1>1, <1>2, NextKeepsRefresh, PTL DEF Spec
=============================================================================
