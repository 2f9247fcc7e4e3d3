------------------------------ MODULE GraphStore ------------------------------
(***************************************************************************)
(* graph.Store: goroutines that call its methods, the mutex each statement  *)
(* takes, the connection that Close takes away, the mutation gate of a     *)
(* read-only store, and the cursor of CypherRows.  A method is a program of *)
(* StoreStatements; between its statements the mutex is free.              *)
(***************************************************************************)
EXTENDS StoreStatements

CONSTANTS
  Callers,    \* goroutines
  NoCaller,   \* nobody holds the mutex
  Operations, \* what they may call: records with a field `do`
  InitialDbs, \* what the database may hold when it is opened
  MaxCalls    \* bound: calls per caller

ASSUME CallerAssumption == NoCaller \notin Callers
ASSUME OperationAssumption ==
  \A op \in Operations :
    /\ op.do \in {"insert", "remove", "replace", "wipe", "index", "load", "cypher",
                  "search", "neighbors", "count", "find", "page", "close"}
    /\ op.do \in {"insert", "replace"} => op.nodes \in Seq(Node) /\ op.edges \in Seq(Edge)
    /\ op.do = "cypher" => op.words \in Seq(STRING) /\ op.max \in Int
ASSUME DatabaseAssumption ==
  \A d \in InitialDbs : d \in Database /\ IsFiniteSet(d.nodes) /\ UniqueIds(d.nodes)

VARIABLES
  db,
  readOnly,
  open,    \* s.conn # nil
  holder,  \* who holds s.mu
  at,      \* per caller: which step of its statement is next
  calls    \* per caller: op, what is left of its program, result

vars == <<db, readOnly, open, holder, at, calls>>

Phases == {"idle", "lock", "check", "run", "fetch", "returned"}
NoOp == [do |-> "none"]
Idle == [op |-> NoOp, todo |-> <<>>, rows |-> <<>>, truncated |-> FALSE, err |-> "",
         before |-> EmptyDb, count |-> 0]

Program(op) ==
  CASE op.do = "insert"  -> InsertFile(op.nodes, op.edges)
    [] op.do = "remove"  -> RemoveFile(op.file)
    [] op.do = "replace" -> ReplaceFile(op.file, op.nodes, op.edges)
    [] op.do = "wipe"    -> WipeLinkerEdges(op.sources)
    [] op.do = "index"   -> CreateIndexes
    [] op.do = "load"    -> LoadAllNodes \o LoadAllEdges
    [] op.do = "cypher"  -> CypherRows(op.words, op.max)
    [] op.do = "search"  -> Search(op.index, op.needle, op.limit)
    [] op.do = "neighbors" -> Neighbors(op.id, op.outgoing)
    [] op.do = "count"   -> CountBy(op.key)
    [] op.do = "find"    -> FindByID(op.id)
    [] op.do = "page"    -> Page(op.kind, op.offset, op.limit)
    [] op.do = "close"   -> <<[do |-> "close", words |-> <<>>]>>

Init ==
  /\ db \in InitialDbs /\ readOnly \in BOOLEAN /\ open = TRUE
  /\ holder = NoCaller
  /\ at = [c \in Callers |-> "idle"]
  /\ calls = [c \in Callers |-> Idle]

Writing == {"insert", "remove", "replace", "wipe"}
Writes(op) == op.do \in Writing \/ (op.do = "cypher" /\ Mutates(op.words))

\* Several goroutines may read, but enrich is the single writer.
Call(c, op) ==
  /\ at[c] = "idle" /\ calls[c].count < MaxCalls
  /\ Writes(op) => \A d \in Callers : ~ Writes(calls[d].op)
  /\ calls' = [calls EXCEPT ![c] =
       [Idle EXCEPT !.op = op, !.todo = Program(op), !.before = db,
                    !.count = calls[c].count + 1]]
  /\ at' = [at EXCEPT ![c] = IF Program(op) = <<>> THEN "returned" ELSE "lock"]
  /\ UNCHANGED <<db, readOnly, open, holder>>

Lock(c) ==
  /\ at[c] = "lock" /\ holder = NoCaller
  /\ holder' = c
  /\ at' = [at EXCEPT ![c] = "check"]
  /\ UNCHANGED <<db, readOnly, open, calls>>

St(c) == Head(calls[c].todo)

\* The end of a statement: the deferred Unlock, and the next statement if any.
Unlocked(c, call) ==
  /\ holder' = NoCaller
  /\ calls' = [calls EXCEPT ![c] = call]
  /\ at' = [at EXCEPT ![c] = IF call.todo = <<>> THEN "returned" ELSE "lock"]

Fails(c, err) == Unlocked(c, [calls[c] EXCEPT !.todo = <<>>, !.err = err])

\* CreateIndexes ignores the error of a drop; a search goes on with CONTAINS;
\* any other error is returned.
OnError(c, err) ==
  \/ /\ St(c).do = "dropIndex"
     /\ Unlocked(c, [calls[c] EXCEPT !.todo = Tail(@)])
  \/ /\ St(c).do = "search"
     /\ Unlocked(c, [calls[c] EXCEPT !.todo = <<SearchFallback(St(c))>>])
  \/ /\ St(c).do \notin {"dropIndex", "search"}
     /\ Fails(c, err)

\* Mutant of Check: s.conn is compared with nil before s.mu is locked, that is
\* before Close may still come.
CheckBeforeLock(c) ==
  /\ at[c] = "check"
  /\ IF St(c).do = "close"
     THEN /\ open' = FALSE
          /\ Unlocked(c, [calls[c] EXCEPT !.todo = <<>>])
     ELSE /\ at' = [at EXCEPT ![c] = "run"]
          /\ UNCHANGED <<open, holder, calls>>
  /\ UNCHANGED <<db, readOnly>>

Blocked(c) == readOnly /\ MutationKeyword(St(c).words) # ""

\* Under the mutex: Close, or the two checks before a query.
Check(c) ==
  /\ at[c] = "check"
  /\ \/ /\ St(c).do = "close"
        /\ open' = FALSE
        /\ Unlocked(c, [calls[c] EXCEPT !.todo = <<>>])
     \/ /\ St(c).do # "close" /\ ~ open
        /\ OnError(c, "closed") /\ UNCHANGED open
     \/ /\ St(c).do # "close" /\ open /\ Blocked(c)
        /\ OnError(c, "blocked") /\ UNCHANGED open
     \/ /\ St(c).do # "close" /\ open /\ ~ Blocked(c)
        /\ at' = [at EXCEPT ![c] = "run"]
        /\ UNCHANGED <<open, holder, calls>>
  /\ UNCHANGED <<db, readOnly>>

Run(c) ==
  /\ at[c] = "run"
  /\ IF Refused(db, St(c)) THEN OnError(c, "refused") /\ UNCHANGED db
     ELSE /\ db' = After(db, St(c))
          /\ IF St(c).do = "rows"
             THEN /\ at' = [at EXCEPT ![c] = "fetch"]
                  /\ UNCHANGED <<holder, calls>>
             ELSE Unlocked(c, [calls[c] EXCEPT !.todo = Tail(@),
                                               !.rows = @ \o Rows(db, St(c))])
  /\ UNCHANGED <<readOnly, open>>

\* Mutant of Fetch: the cap is looked at before HasNext.
FetchCapFirst(c) ==
  LET call == calls[c]
      all == Rows(db, St(c))
      got == Len(call.rows)
  IN /\ at[c] = "fetch"
     /\ CASE got >= St(c).max ->
               Unlocked(c, [call EXCEPT !.todo = <<>>, !.truncated = TRUE])
          [] got < St(c).max /\ got = Len(all) ->
               Unlocked(c, [call EXCEPT !.todo = <<>>])
          [] OTHER -> /\ calls' = [calls EXCEPT ![c].rows = Append(@, all[got + 1])]
                      /\ UNCHANGED <<holder, at>>
     /\ UNCHANGED <<db, readOnly, open>>

\* The loop of CypherRows: one tuple, or the end, or the cap.
Fetch(c) ==
  LET call == calls[c]
      all == Rows(db, St(c))
      got == Len(call.rows)
  IN /\ at[c] = "fetch"
     /\ \/ got = Len(all) /\ Unlocked(c, [call EXCEPT !.todo = <<>>])
        \/ /\ got < Len(all) /\ got >= St(c).max
           /\ Unlocked(c, [call EXCEPT !.todo = <<>>, !.truncated = TRUE])
        \/ /\ got < Len(all) /\ got < St(c).max
           /\ calls' = [calls EXCEPT ![c].rows = Append(@, all[got + 1])]
           /\ UNCHANGED <<holder, at>>
     /\ UNCHANGED <<db, readOnly, open>>

\* Only OpenReadOnly sets a timeout.  Kuzu gives up a query, or the next tuple.
TimeOut(c) ==
  /\ readOnly /\ at[c] \in {"run", "fetch"}
  /\ OnError(c, "timeout")
  /\ UNCHANGED <<db, readOnly, open>>

Return(c) ==
  /\ at[c] = "returned"
  /\ at' = [at EXCEPT ![c] = "idle"]
  /\ calls' = [calls EXCEPT ![c] = [Idle EXCEPT !.count = calls[c].count]]
  /\ UNCHANGED <<db, readOnly, open, holder>>

Goroutine(c) == Lock(c) \/ Check(c) \/ Run(c) \/ Fetch(c) \/ Return(c)

Next == \E c \in Callers :
          \/ \E op \in Operations : Call(c, op)
          \/ Goroutine(c)
          \/ TimeOut(c)

Spec == Init /\ [][Next]_vars

\* sync.Mutex hands itself to a waiter that has waited for a millisecond.
FairSpec == Spec /\ \A c \in Callers : WF_vars(Goroutine(c)) /\ SF_vars(Lock(c))
-----------------------------------------------------------------------------
\* A store opened read-only never changes what is on disk, whatever is called.
ReadOnlyNeverWrites == [][readOnly => UNCHANGED db]_vars

\* No statement runs on a connection that Close has taken away, also of calls
\* that were waiting for the mutex when Close came, or lie between two of their
\* statements.
NoStatementAfterClose ==
  \A c \in Callers : at[c] \in {"run", "fetch"} => open /\ holder = c

\* CypherRows says truncated exactly if there are more rows than it returns, and
\* it returns at most the cap, at least what there is of one row.
TruncatedExact ==
  [][\A c \in Callers :
       LET call == calls'[c]
       IN at[c] = "fetch" /\ at'[c] = "returned" /\ call.err = "" =>
            /\ Len(call.rows) =< Max({1, call.op.max})
            /\ call.truncated <=> Len(call.rows) < Cardinality(db.nodes)]_vars

\* The rows of a ReplaceFile fit the graph that is left without the file.
Fits(op, kept) ==
  LET ids == {n.id : n \in kept} \cup {n.id : n \in Range(op.nodes)}
  IN /\ \A i, j \in DOMAIN op.nodes :
          op.nodes[i].id = op.nodes[j].id => i = j
     /\ \A n \in Range(op.nodes) : n.id \notin {m.id : m \in kept}
     /\ \A e \in Range(op.edges) : {e.from, e.to} \subseteq ids

\* RemoveFile succeeds whatever edges the file's nodes have, ReplaceFile if its
\* rows fit, and both touch nothing else: every node of another file is still
\* there, and every edge between other files.  After ReplaceFile the file is
\* what was inserted.
FileReplacedExactly ==
  \A c \in Callers :
    LET call == calls[c]
        old == call.before
        gone == IdsOf(old, call.op.file)
        kept == {n \in old.nodes : n.file # call.op.file}
        edges == {r \in old.rels : ~ Incident(r, gone)}
        new == IF call.op.do = "replace" THEN call.op
               ELSE [nodes |-> <<>>, edges |-> <<>>]
    IN /\ call.op.do \in {"remove", "replace"} /\ at[c] = "returned"
       /\ call.err \notin {"closed", "blocked"}
       /\ Fits(new, kept)
       => /\ call.err = ""
          /\ {Hydrated(n) : n \in db.nodes} =
               {Hydrated(n) : n \in kept} \cup Range(new.nodes)
          /\ db.rels = edges \cup Range(new.edges)

\* Every call returns: the mutex is released on every path.
CallsReturn ==
  \A c \in Callers : (at[c] = "lock") ~> (at[c] = "returned")
=============================================================================
