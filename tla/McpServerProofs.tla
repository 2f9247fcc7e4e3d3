--------------------------- MODULE McpServerProofs ---------------------------
(***************************************************************************)
(* Theorems about the server, for any disks, tools, requests, commands,     *)
(* callers and bounds: the graph it serves stays what it is, so that every  *)
(* answer that was given is what some tool says of that graph; and what     *)
(* follows from it about evidence packs, caps, diagrams and services.       *)
(***************************************************************************)
EXTENDS McpServer, ServiceTopologyProofs

-----------------------------------------------------------------------------
(* The server and the commands beside it.                                   *)

(* The graph of the server's project is there, and stays what it is.       *)
Usable == server.root # <<>> /\ Graph.is # "absent"

DiskSound ==
  /\ disk = [dir \in DOMAIN disk |-> disk[dir]]
  /\ \A dir \in DOMAIN disk : /\ disk[dir] \in [git : BOOLEAN, graph : {disk[dir].graph}]
                              /\ SoundGraph(disk[dir].graph)
  /\ server.root # <<>> => server.root[1] \in DOMAIN disk

ServerSound ==
  /\ server \in [phase : Phases, root : {server.root}, tools : Seq(ToSet(Offered))]
  /\ server.tools # <<>> => Usable

CallsSound ==
  /\ call = [c \in Callers |-> call[c]]
  /\ \A c \in Callers :
       /\ call[c] \in [at : {"idle", "load", "loading", "handle"}, request : {call[c].request}]
       /\ call[c].at # "idle" => /\ Usable
                                 /\ call[c].request \in ToSet(Requests)
                                 /\ call[c].request.tool \in ToSet(Offered)

(* What a handler works on, and what it has answered to a request.         *)
Work(g, fails, st, model) ==
  [g |-> g, wired |-> Wired, fails |-> fails, stats |-> st, model |-> model]
Handled(g, a) ==
  /\ a.asked \in ToSet(Requests)
  /\ a.asked.tool \in ToSet(Offered)
  /\ ~ Fault(a.answer)
  /\ \E fails \in BOOLEAN : \E st, model :
       a.answer = Handle(a.asked.tool, Work(g, fails, st, model), a.asked.p)

(* What the command line has drawn.                                         *)
Drawn(g, a) ==
  /\ a.asked.view \in Views
  /\ a.asked.format \in Formats
  /\ a.answer = Render(Generate(g, a.asked.view), a.asked.format)

(* All answers are about the graph there is.                                *)
AnswersSound ==
  /\ answers \in Seq(ToSet(answers))
  /\ \A k \in DOMAIN answers :
       /\ answers[k].by \in {"mcp", "cli"}
       /\ answers[k].by = "mcp" => Usable /\ Handled(Graph, answers[k])
       /\ answers[k].by = "cli" /\ answers[k].asked.do = "flow" =>
            Usable /\ Drawn(Graph, answers[k])

ServerInv == DiskSound /\ ServerSound /\ CallsSound /\ AnswersSound

(* A command leaves the disk as it is, or makes an empty database where     *)
(* there is none.                                                           *)
Leaves(new) ==
  \/ new = disk
  \/ \E r : disk[r].graph.is = "absent" /\ new = [disk EXCEPT ![r].graph = EmptyDb]

LEMMA CommandKeeps ==
  ASSUME NEW place, NEW k \in DOMAIN Commands
  PROVE  Leaves(RunCommand(disk, place, Commands[k]).disk)
<1> DEFINE c == Commands[k]
           D(outcome) == Leaves(outcome.disk)
<1> HIDE DEF c
<1> USE DEF Resolved, OpenAnd, OpenReadOnlyAnd, UsageError, Failed, Printed, Leaves
<1>1. D(RunQueryFinder(disk, place, c))
  BY DEF RunQueryFinder
<1>2. D(FindKindCommand(disk, place, c))
  BY DEF FindKindCommand
<1>3. D(StatsCommand(disk, place, c))
  BY DEF StatsCommand
<1>4. D(TopologyCommand(disk, place, c))
  BY DEF TopologyCommand
<1>5. D(CypherCommand(disk, place, c))
  BY DEF CypherCommand
<1>6. D(FlowCommand(disk, place, c))
  BY DEF FlowCommand
<1>7. D(GraphCommand(disk, place, c))
  BY DEF GraphCommand
<1>8. D(ReviewCommand(disk, place, c))
  BY DEF ReviewCommand
<1>9. c.do \in {"query", "find", "stats", "topology", "cypher", "flow", "graph", "review"}
  BY OfferedAssumption DEF c
<1> HIDE DEF Resolved, OpenAnd, OpenReadOnlyAnd, UsageError, Failed, Printed, Leaves
<1> QED
  BY <1>1, <1>2, <1>3, <1>4, <1>5, <1>6, <1>7, <1>8, <1>9 DEF RunCommand, c

(* So the graph of the server's project stays what it is.                   *)
LEMMA GraphStays ==
  ASSUME DiskSound, Leaves(disk'), server'.root = server.root
  PROVE  DiskSound' /\ (Usable => Usable' /\ Graph' = Graph)
<1>1. CASE disk' = disk
  BY <1>1 DEF DiskSound, Usable, Graph
<1>2. ASSUME NEW r, disk[r].graph.is = "absent", disk' = [disk EXCEPT ![r].graph = EmptyDb]
      PROVE  DiskSound' /\ (Usable => Usable' /\ Graph' = Graph)
  <2>1. DOMAIN disk' = DOMAIN disk /\ disk' = [dir \in DOMAIN disk' |-> disk'[dir]]
    BY <1>2 DEF DiskSound
  <2>2. ASSUME NEW dir \in DOMAIN disk
        PROVE  /\ disk'[dir] \in [git : BOOLEAN, graph : {disk'[dir].graph}]
               /\ SoundGraph(disk'[dir].graph)
               /\ disk[dir].graph.is # "absent" => disk'[dir] = disk[dir]
    <3>1. disk[dir] \in [git : BOOLEAN, graph : {disk[dir].graph}] /\ SoundGraph(disk[dir].graph)
      BY DEF DiskSound
    <3>2. CASE dir # r
      <4>1. disk'[dir] = disk[dir]
        BY <1>2, <3>2 DEF DiskSound
      <4> QED
        BY <3>1, <4>1
    <3>3. CASE dir = r
      <4>1. disk'[dir] = [disk[dir] EXCEPT !.graph = EmptyDb]
        BY <1>2, <3>3 DEF DiskSound
      <4>2. disk'[dir].graph = EmptyDb /\ disk'[dir] \in [git : BOOLEAN, graph : {EmptyDb}]
        BY <3>1, <4>1
      <4>3. SoundGraph(EmptyDb)
        BY FS_EmptySet DEF SoundGraph, EmptyDb
      <4> QED
        BY <1>2, <3>3, <4>2, <4>3
    <3> QED
      BY <3>2, <3>3
  <2>3. DiskSound'
    BY <2>1, <2>2 DEF DiskSound
  <2>4. Usable => disk'[server.root[1]] = disk[server.root[1]]
    BY <2>2 DEF DiskSound, Usable, Graph
  <2> QED
    BY <2>3, <2>4 DEF Usable, Graph
<1> QED
  BY <1>1, <1>2 DEF Leaves

LEMMA FlowDraws ==
  ASSUME DiskSound, NEW place, NEW c, c.do = "flow",
         RunCommand(disk, place, c).exit = 0, Resolve(disk, place) = server.root
  PROVE  Usable /\ Drawn(Graph, [by |-> "cli", asked |-> c,
                                 answer |-> RunCommand(disk, place, c).answer])
<1>1. RunCommand(disk, place, c) = FlowCommand(disk, place, c)
  BY DEF RunCommand
<1>2. c.view \in Views /\ server.root # <<>>
  BY <1>1 DEF FlowCommand, Resolved, UsageError
<1>3. Graph.is = "graph"
  BY <1>1, <1>2 DEF FlowCommand, Resolved, OpenReadOnlyAnd, Failed, Graph
<1>4. RunCommand(disk, place, c)
        = LET rendered == Render(Generate(Graph, c.view), c.format)
          IN IF rendered.error THEN Failed(disk) ELSE Printed(disk, rendered)
  BY <1>1, <1>2, <1>3 DEF FlowCommand, Resolved, OpenReadOnlyAnd, Graph
<1>5. /\ ~ Render(Generate(Graph, c.view), c.format).error
      /\ RunCommand(disk, place, c).answer = Render(Generate(Graph, c.view), c.format)
  BY <1>4 DEF Failed, Printed
<1>6. c.format \in Formats
  BY <1>5 DEF Render
<1> QED
  BY <1>2, <1>3, <1>5, <1>6 DEF Drawn, Usable

(* Of the directories above one, Deepest chooses one of a set.              *)
LEMMA DeepestIsThere ==
  ASSUME NEW dir \in Seq(STRING), NEW dirs \in SUBSET Ancestors(dir), dirs # {}
  PROVE  Deepest(dirs) \in dirs
<1> DEFINE n == Len(dir) + 1
           s == {k \in 1 .. n : SubSeq(dir, 1, k - 1) \in dirs}
<1>1. n \in Nat /\ s \in SUBSET (1 .. n)
  OBVIOUS
<1>2. \A k \in 0 .. Len(dir) : Len(SubSeq(dir, 1, k)) = k
  OBVIOUS
<1>3. \A d \in dirs : \E k \in 0 .. Len(dir) : d = SubSeq(dir, 1, k)
  BY DEF Ancestors
<1>4. \A d \in dirs : Len(d) + 1 \in s /\ d = SubSeq(dir, 1, Len(d)) /\ Len(d) \in 0 .. Len(dir)
  <2> SUFFICES ASSUME NEW d \in dirs
               PROVE  Len(d) + 1 \in s /\ d = SubSeq(dir, 1, Len(d)) /\ Len(d) \in 0 .. Len(dir)
    OBVIOUS
  <2>1. PICK k \in 0 .. Len(dir) : d = SubSeq(dir, 1, k)
    BY <1>3
  <2>2. Len(d) = k
    BY <1>2, <2>1
  <2>3. k + 1 \in 1 .. n /\ (k + 1) - 1 = k
    OBVIOUS
  <2> QED
    BY <2>1, <2>2, <2>3
<1>5. s # {}
  BY <1>4
<1>6. Max(s) \in s /\ \A i \in s : i <= Max(s)
  <2> HIDE DEF n, s
  <2> QED
    BY <1>1, <1>5, MaxOfIndices
<1> DEFINE top == SubSeq(dir, 1, Max(s) - 1)
<1>7. top \in dirs /\ Len(top) = Max(s) - 1
  <2>1. Max(s) - 1 \in 0 .. Len(dir)
    BY <1>6
  <2> QED
    BY <1>2, <1>6, <2>1
<1>8. \A e \in dirs : Len(e) =< Len(top)
  <2> SUFFICES ASSUME NEW e \in dirs PROVE Len(e) =< Len(top)
    OBVIOUS
  <2>1. Len(e) + 1 =< Max(s) /\ Len(e) \in Int /\ Max(s) \in Int
    BY <1>4, <1>6
  <2> QED
    BY <1>7, <2>1
<1> QED
  BY <1>7, <1>8 DEF Deepest

LEMMA InitSound == Init => ServerInv
<1> SUFFICES ASSUME Init PROVE ServerInv
  OBVIOUS
<1> USE DEF Init
<1>1. /\ disk \in [DOMAIN disk -> [git : BOOLEAN, graph : {disk[dir].graph : dir \in DOMAIN disk}]]
      /\ \A dir \in DOMAIN disk : SoundGraph(disk[dir].graph)
      /\ ServerAt.cwd \in Seq(STRING) /\ Ancestors(ServerAt.cwd) \subseteq DOMAIN disk
  BY DisksAssumption
<1>2. server.root # <<>> => server.root[1] \in DOMAIN disk
  <2>1. server.root = Resolve(disk, ServerAt)
    OBVIOUS
  <2>2. \A path : ValidateDir(disk, path) # <<>> => ValidateDir(disk, path)[1] \in DOMAIN disk
    BY DEF ValidateDir
  <2>3. WalkUp(disk, ServerAt.cwd) # <<>> => WalkUp(disk, ServerAt.cwd)[1] \in DOMAIN disk
    <3> DEFINE A == Ancestors(ServerAt.cwd)
               graphs == {d \in A : disk[d].graph.is # "absent"}
               repositories == {d \in A : disk[d].git}
    <3>1. graphs # {} => Deepest(graphs) \in graphs
      BY <1>1, DeepestIsThere
    <3>2. repositories # {} => Deepest(repositories) \in repositories
      BY <1>1, DeepestIsThere
    <3>3. \/ WalkUp(disk, ServerAt.cwd) = <<Deepest(graphs)>> /\ graphs # {}
          \/ WalkUp(disk, ServerAt.cwd) = <<Deepest(repositories)>> /\ repositories # {}
          \/ WalkUp(disk, ServerAt.cwd) = <<>>
      BY DEF WalkUp
    <3> QED
      BY <1>1, <3>1, <3>2, <3>3
  <2> QED
    BY <2>1, <2>2, <2>3 DEF Resolve
<1>3. DiskSound
  <2>1. \A dir \in DOMAIN disk : disk[dir] \in [git : BOOLEAN, graph : {disk[dir].graph}]
    BY <1>1
  <2> QED
    BY <1>1, <1>2, <2>1 DEF DiskSound
<1>4. ServerSound
  BY DEF ServerSound, Phases
<1>5. CallsSound
  BY DEF CallsSound, Idle
<1>6. AnswersSound
  BY DEF AnswersSound
<1> QED
  BY <1>3, <1>4, <1>5, <1>6 DEF ServerInv

(* What the disk keeps of a graph carries the other parts over a step that  *)
(* leaves them alone.                                                       *)
LEMMA ServerStays ==
  ASSUME ServerSound, Usable => Usable', server' = server
  PROVE  ServerSound'
BY DEF ServerSound

LEMMA CallsStay ==
  ASSUME CallsSound, Usable => Usable', call' = call
  PROVE  CallsSound'
BY DEF CallsSound

LEMMA AnswersStay ==
  ASSUME AnswersSound, Usable => Usable' /\ Graph' = Graph, answers' = answers
  PROVE  AnswersSound'
BY DEF AnswersSound

(* One more answer, which is what it should be.                             *)
LEMMA AnswersGrow ==
  ASSUME AnswersSound, Usable => Usable' /\ Graph' = Graph, NEW by, NEW asked, NEW answer,
         Answered(by, asked, answer), by \in {"mcp", "cli"},
         by = "mcp" =>
           Usable /\ Handled(Graph, [by |-> by, asked |-> asked, answer |-> answer]),
         by = "cli" /\ asked.do = "flow" =>
           Usable /\ Drawn(Graph, [by |-> by, asked |-> asked, answer |-> answer])
  PROVE  AnswersSound'
<1> DEFINE new == [by |-> by, asked |-> asked, answer |-> answer]
           n == Len(answers)
<1>1. answers \in Seq(ToSet(answers)) /\ answers' = Append(answers, new)
  BY DEF AnswersSound, Answered
<1>2. new.by = by /\ new.asked = asked
  OBVIOUS
<1> HIDE DEF new
<1>3. /\ n \in Nat /\ DOMAIN answers' = 1 .. n + 1 /\ DOMAIN answers = 1 .. n
      /\ \A k \in 1 .. n : answers'[k] = answers[k]
      /\ answers'[n + 1] = new
  BY <1>1
<1>4. answers' \in Seq(ToSet(answers'))
  BY <1>1, <1>3 DEF ToSet
<1>5. ASSUME NEW k \in 1 .. n + 1
      PROVE  /\ answers'[k].by \in {"mcp", "cli"}
             /\ answers'[k].by = "mcp" => Usable' /\ Handled(Graph', answers'[k])
             /\ answers'[k].by = "cli" /\ answers'[k].asked.do = "flow" =>
                  Usable' /\ Drawn(Graph', answers'[k])
  <2>1. CASE k \in 1 .. n
    BY <1>3, <2>1 DEF AnswersSound
  <2>2. CASE k = n + 1
    BY <1>2, <1>3, <2>2 DEF new
  <2> QED
    BY <1>3, <2>1, <2>2
<1> QED
  BY <1>3, <1>4, <1>5 DEF AnswersSound

(* The invariant is kept: a step on the same disk.                          *)
LEMMA SameDisk ==
  ASSUME DiskSound, disk' = disk, server'.root = server.root
  PROVE  DiskSound' /\ (Usable => Usable' /\ Graph' = Graph)
BY GraphStays DEF Leaves

LEMMA RegisterKeeps == ServerInv /\ Register => ServerInv'
<1> SUFFICES ASSUME ServerInv, Register PROVE ServerInv'
  OBVIOUS
<1> USE DEF ServerInv
<1>1. /\ server \in [phase : Phases, root : {server.root}, tools : Seq(ToSet(Offered))]
      /\ Len(server.tools) < Len(Offered)
  BY DEF Register, ServerSound
<1>2. Offered[Len(server.tools) + 1] \in ToSet(Offered)
  <2>1. Len(server.tools) + 1 \in DOMAIN Offered
    BY <1>1, OfferedAssumption
  <2> QED
    BY <2>1 DEF ToSet
<1>3. \/ server' = [server EXCEPT !.phase = "stopped"]
      \/ Usable /\ server' = [server EXCEPT !.tools =
                                Append(@, Offered[Len(server.tools) + 1])]
  BY DEF Register, Usable, Graph
<1>4. server'.root = server.root
  BY <1>1, <1>3
<1>5. DiskSound' /\ (Usable => Usable' /\ Graph' = Graph)
  BY <1>4, SameDisk DEF Register
<1>6. ServerSound'
  BY <1>1, <1>2, <1>3, <1>5 DEF ServerSound, Phases
<1>7. CallsSound' /\ AnswersSound'
  BY <1>5, CallsStay, AnswersStay DEF Register
<1> QED
  BY <1>5, <1>6, <1>7

LEMMA ServeKeeps == ServerInv /\ Serve => ServerInv'
<1> SUFFICES ASSUME ServerInv, Serve PROVE ServerInv'
  OBVIOUS
<1> USE DEF ServerInv
<1>1. server \in [phase : Phases, root : {server.root}, tools : Seq(ToSet(Offered))]
      /\ server' = [server EXCEPT !.phase = "serving"]
  BY DEF Serve, ServerSound
<1>2. server'.root = server.root
  BY <1>1
<1>3. DiskSound' /\ (Usable => Usable' /\ Graph' = Graph)
  BY <1>2, SameDisk DEF Serve
<1>4. ServerSound'
  BY <1>1, <1>3 DEF ServerSound, Phases
<1>5. CallsSound' /\ AnswersSound'
  BY <1>3, CallsStay, AnswersStay DEF Serve
<1> QED
  BY <1>3, <1>4, <1>5

LEMMA CallKeeps ==
  ASSUME ServerInv, NEW c \in Callers, NEW k \in DOMAIN Requests, Call(c, k)
  PROVE  ServerInv'
<1> USE DEF ServerInv
<1>1. DiskSound' /\ (Usable => Usable' /\ Graph' = Graph)
  BY SameDisk DEF Call
<1>2. ServerSound' /\ AnswersSound'
  BY <1>1, ServerStays, AnswersStay DEF Call
<1>3. Requests[k] \in ToSet(Requests)
  BY DEF ToSet
<1>4. Requests[k].tool \in ToSet(server.tools) /\ ToSet(server.tools) \subseteq ToSet(Offered)
      /\ server.tools # <<>>
  BY DEF Call, ServerSound, ToSet
<1>5. Usable'
  BY <1>1, <1>4 DEF ServerSound
<1>6. CallsSound'
  BY <1>3, <1>4, <1>5 DEF Call, CallsSound
<1> QED
  BY <1>1, <1>2, <1>6

LEMMA LoadCheckKeeps ==
  ASSUME ServerInv, NEW c \in Callers, LoadCheck(c)
  PROVE  ServerInv'
<1> USE DEF ServerInv
<1>1. DiskSound' /\ (Usable => Usable' /\ Graph' = Graph)
  BY SameDisk DEF LoadCheck
<1>2. ServerSound' /\ AnswersSound'
  BY <1>1, ServerStays, AnswersStay DEF LoadCheck
<1>3. CallsSound'
  BY <1>1 DEF LoadCheck, CallsSound
<1> QED
  BY <1>1, <1>2, <1>3

LEMMA LoadDoneKeeps ==
  ASSUME ServerInv, NEW c \in Callers, LoadDone(c)
  PROVE  ServerInv'
<1> USE DEF ServerInv
<1>1. DiskSound' /\ (Usable => Usable' /\ Graph' = Graph)
  BY SameDisk DEF LoadDone
<1>2. ServerSound' /\ AnswersSound'
  BY <1>1, ServerStays, AnswersStay DEF LoadDone
<1>3. CallsSound'
  BY <1>1 DEF LoadDone, CallsSound
<1> QED
  BY <1>1, <1>2, <1>3

LEMMA AnswerKeeps ==
  ASSUME ServerInv, NEW c \in Callers, Answer(c)
  PROVE  ServerInv'
<1> USE DEF ServerInv
<1>1. DiskSound' /\ (Usable => Usable' /\ Graph' = Graph)
  BY SameDisk DEF Answer
<1>2. ServerSound'
  BY <1>1, ServerStays DEF Answer
<1>3. CallsSound'
  BY <1>1 DEF Answer, CallsSound, Idle
<1> DEFINE r == call[c].request
           answer(fails, model) == Handle(r.tool, Work(Graph, fails, stats, model), r.p)
<1>4. \E fails \in BOOLEAN, model \in Models :
        IF Fault(answer(fails, model)) THEN UNCHANGED answers
        ELSE Answered("mcp", r, answer(fails, model))
  <2>1. QueryFails \subseteq BOOLEAN
    BY RequestsAssumption DEF QueryFails
  <2>2. PICK fails \in QueryFails, model \in Models :
          IF Fault(answer(fails, model)) THEN UNCHANGED answers
          ELSE Answered("mcp", r, answer(fails, model))
    BY Zenon DEF Answer, Work
  <2> HIDE DEF answer
  <2> QED
    BY <2>1, <2>2
<1>5. Usable /\ r \in ToSet(Requests) /\ r.tool \in ToSet(Offered)
  BY DEF Answer, CallsSound
<1>6. PICK fails \in BOOLEAN, model \in Models :
        IF Fault(answer(fails, model)) THEN UNCHANGED answers
        ELSE Answered("mcp", r, answer(fails, model))
  <2> HIDE DEF answer
  <2> QED
    BY <1>4
<1>7. CASE UNCHANGED answers
  BY <1>1, <1>2, <1>3, <1>7, AnswersStay
<1>8. CASE ~ Fault(answer(fails, model)) /\ Answered("mcp", r, answer(fails, model))
  <2> DEFINE a == [by |-> "mcp", asked |-> r, answer |-> answer(fails, model)]
  <2>1. a.asked = r /\ a.answer = answer(fails, model)
    OBVIOUS
  <2>2. \E f \in BOOLEAN : \E st, m : answer(fails, model) = Handle(r.tool, Work(Graph, f, st, m), r.p)
    OBVIOUS
  <2>3. Handled(Graph, a)
    <3> HIDE DEF a, answer, r
    <3> QED
      BY <1>5, <1>8, <2>1, <2>2 DEF Handled
  <2>4. AnswersSound'
    <3> HIDE DEF answer, r
    <3> QED
      BY <1>1, <1>5, <1>8, <2>3, AnswersGrow
  <2> QED
    BY <1>1, <1>2, <1>3, <2>4
<1> QED
  BY <1>6, <1>7, <1>8

LEMMA CommandKeepsInv ==
  ASSUME ServerInv, NEW place \in Places, NEW k \in DOMAIN Commands, Command(place, k)
  PROVE  ServerInv'
<1> USE DEF ServerInv
<1> DEFINE c == Commands[k]
           outcome == RunCommand(disk, place, c)
<1>1. /\ disk' = outcome.disk /\ server' = server /\ call' = call
      /\ IF outcome.exit = 0 /\ Resolve(disk, place) = server.root
         THEN Answered("cli", c, outcome.answer) ELSE UNCHANGED answers
  BY DEF Command
<1>2. Leaves(outcome.disk)
  BY CommandKeeps
<1>3. c.do = "flow" /\ outcome.exit = 0 /\ Resolve(disk, place) = server.root =>
        Usable /\ Drawn(Graph, [by |-> "cli", asked |-> c, answer |-> outcome.answer])
  BY FlowDraws
<1> HIDE DEF outcome, c
<1>4. DiskSound' /\ (Usable => Usable' /\ Graph' = Graph)
  BY <1>1, <1>2, GraphStays
<1>5. ServerSound' /\ CallsSound'
  BY <1>1, <1>4, ServerStays, CallsStay
<1>6. AnswersSound'
  BY <1>1, <1>3, <1>4, AnswersStay, AnswersGrow
<1> QED
  BY <1>4, <1>5, <1>6

LEMMA ServerInvKept == ServerInv /\ [Next]_vars => ServerInv'
<1> SUFFICES ASSUME ServerInv, [Next]_vars PROVE ServerInv'
  OBVIOUS
<1>1. CASE UNCHANGED vars
  <2>1. DiskSound' /\ (Usable => Usable' /\ Graph' = Graph)
    BY <1>1, SameDisk DEF vars, ServerInv
  <2> QED
    BY <1>1, <2>1, ServerStays, CallsStay, AnswersStay DEF vars, ServerInv
<1> QED
  BY <1>1, RegisterKeeps, ServeKeeps, CallKeeps, LoadCheckKeeps, LoadDoneKeeps, AnswerKeeps,
     CommandKeepsInv DEF Next, Handler

(* What the server is, and what it answers from: the graph of its project,  *)
(* which no step changes once it is there.                                  *)
THEOREM ServerIsSound == Spec => []ServerInv
BY InitSound, ServerInvKept, PTL DEF Spec
-----------------------------------------------------------------------------
(* What queries return.                                                     *)

(* Nodes by ID: each of them once.                                          *)
LEMMA ByIdLists ==
  ASSUME NEW g, SoundGraph(g), NEW S \in SUBSET g.nodes
  PROVE  IsFiniteSet(S) /\ IsListing(ById(S), S)
<1> DEFINE P == {pair \in S \X S : pair[1].id < pair[2].id}
<1>1. \A n \in S : n.id \in Nat
  BY DEF SoundGraph
<1>2. \A m, n \in S : m.id = n.id => m = n
  BY DEF SoundGraph
<1>3. \A m, n \in S : <<m, n>> \in P <=> m.id < n.id
  OBVIOUS
<1>4. IsFiniteSet(S)
  BY FS_Subset DEF SoundGraph
<1>5. IsOrder(S, P)
  <2> HIDE DEF P
  <2> QED
    BY <1>1, <1>2, <1>3 DEF IsOrder
<1>6. ById(S) = ByRank(S, Below(S, P))
  <2>1. \A x \in S : {y \in S : y.id < x.id} = {y \in S : <<y, x>> \in P}
    BY <1>3
  <2>2. [x \in S |-> Cardinality({y \in S : y.id < x.id})] = Below(S, P)
    BY <2>1 DEF Below
  <2> HIDE DEF P
  <2> QED
    BY <2>2 DEF ById, Ordered
<1> HIDE DEF P
<1> QED
  BY <1>4, <1>5, <1>6, OrderLists

(* What a query projects of a node, and of all of them.                     *)
RowOf(n) ==
  [id |-> n.id, kind |-> n.kind, label |-> n.label, file |-> n.file, layer |-> n.layer]
RowsIn(g) == {RowOf(n) : n \in g.nodes}

LEMMA RowsOfNodes ==
  ASSUME NEW g, SoundGraph(g), NEW nodes \in Seq(g.nodes)
  PROVE  /\ RowsToNodes(nodes) \in Seq(RowsIn(g))
         /\ Len(RowsToNodes(nodes)) = Len(nodes)
         /\ \A i \in 1 .. Len(nodes) : RowsToNodes(nodes)[i] = RowOf(nodes[i])
         /\ ToSet(RowsToNodes(nodes)) = {RowOf(n) : n \in ToSet(nodes)}
         /\ Ids(ToSet(RowsToNodes(nodes))) = Ids(ToSet(nodes))
<1> DEFINE rows == RowsToNodes(nodes)
<1>1. Len(nodes) \in Nat /\ DOMAIN nodes = 1 .. Len(nodes)
      /\ \A i \in 1 .. Len(nodes) : nodes[i] \in g.nodes
  OBVIOUS
<1>2. rows = [i \in 1 .. Len(nodes) |-> RowOf(nodes[i])]
  BY <1>1 DEF RowsToNodes, RowOf
<1>3. rows \in Seq(RowsIn(g)) /\ Len(rows) = Len(nodes)
  BY <1>1, <1>2 DEF RowsIn
<1>4. ToSet(rows) = {RowOf(n) : n \in ToSet(nodes)}
  BY <1>1, <1>2 DEF ToSet
<1>5. \A n : RowOf(n).id = n.id
  BY DEF RowOf
<1>6. Ids(ToSet(rows)) = Ids(ToSet(nodes))
  BY <1>4, <1>5 DEF Ids
<1> QED
  BY <1>2, <1>3, <1>4, <1>6

LEMMA RowsById ==
  ASSUME NEW g, SoundGraph(g), NEW S \in SUBSET g.nodes
  PROVE  /\ RowsToNodes(ById(S)) \in Seq(RowsIn(g))
         /\ Len(RowsToNodes(ById(S))) = Cardinality(S)
         /\ Ids(ToSet(RowsToNodes(ById(S)))) = Ids(S)
<1>1. IsListing(ById(S), S)
  BY ByIdLists
<1>2. ById(S) \in Seq(g.nodes)
  BY <1>1 DEF IsListing
<1> QED
  BY <1>1, <1>2, RowsOfNodes DEF IsListing

(* The callers and dependents of a node come over an edge from them.        *)
LEMMA CallersAndDependents ==
  ASSUME NEW g, SoundGraph(g), NEW id
  PROVE  /\ FindCallers(g, id) \o FindDependents(g, id) \in Seq(RowsIn(g))
         /\ \A r \in ToSet(FindCallers(g, id) \o FindDependents(g, id)) : id \in Successors(g, r.id)
<1> DEFINE S(kinds) == {n \in g.nodes : \E e \in g.edges : e.kind \in kinds /\ e.to = id /\ e.from = n.id}
           rows(kinds) == RowsToNodes(ById(S(kinds)))
<1>1. ASSUME NEW kinds
      PROVE  /\ rows(kinds) \in Seq(RowsIn(g))
             /\ \A r \in ToSet(rows(kinds)) : id \in Successors(g, r.id)
  <2>1. S(kinds) \in SUBSET g.nodes
    OBVIOUS
  <2>2. \A m \in Ids(S(kinds)) : id \in Successors(g, m)
    BY DEF Ids, Successors
  <2> HIDE DEF S
  <2>3. rows(kinds) \in Seq(RowsIn(g)) /\ Ids(ToSet(rows(kinds))) = Ids(S(kinds))
    BY <2>1, RowsById
  <2> HIDE DEF rows
  <2> QED
    BY <2>2, <2>3 DEF Ids
<1>2. FindCallers(g, id) = rows({"calls"}) /\ FindDependents(g, id) = rows({"depends_on"})
  BY DEF FindCallers, FindDependents, IncomingByKinds
<1> HIDE DEF rows
<1>3. /\ FindCallers(g, id) \in Seq(RowsIn(g)) /\ FindDependents(g, id) \in Seq(RowsIn(g))
      /\ \A r \in ToSet(FindCallers(g, id)) \cup ToSet(FindDependents(g, id)) :
           id \in Successors(g, r.id)
  BY <1>1, <1>2
<1> QED
  BY <1>3, ConcatElements
-----------------------------------------------------------------------------
(* Evidence packs.                                                          *)

LEMMA AppendElements ==
  ASSUME NEW R, NEW out \in Seq(R), NEW r \in R
  PROVE  ToSet(Append(out, r)) = ToSet(out) \cup {r}
<1> DEFINE n == Len(out)
           new == Append(out, r)
<1>1. /\ n \in Nat /\ DOMAIN new = 1 .. n + 1 /\ DOMAIN out = 1 .. n
      /\ \A i \in 1 .. n : new[i] = out[i]
      /\ new[n + 1] = r
  OBVIOUS
<1>2. n + 1 \in 1 .. n + 1 /\ (\A i \in 1 .. n : i \in 1 .. n + 1)
      /\ \A j \in 1 .. n + 1 : j \in 1 .. n \/ j = n + 1
  BY <1>1
<1> HIDE DEF n, new
<1>3. ToSet(out) \cup {r} \subseteq ToSet(new)
  BY <1>1, <1>2 DEF ToSet
<1>4. ToSet(new) \subseteq ToSet(out) \cup {r}
  BY <1>1, <1>2 DEF ToSet
<1> QED
  BY <1>3, <1>4 DEF new

(* The rows taken over one after the other, each node once and none that    *)
(* has matched.                                                             *)
TakeOver(out, r, matched) ==
  IF r.id \in Ids(ToSet(out) \cup ToSet(matched)) THEN out ELSE Append(out, r)
AllTaken(rows, matched) ==
  FoldLeft(LAMBDA out, r : IF r.id \in Ids(ToSet(out) \cup ToSet(matched)) THEN out
                           ELSE Append(out, r), <<>>, rows)

References(out, matched, rows) ==
  /\ Cardinality(Ids(ToSet(out))) = Len(out)
  /\ IsFiniteSet(Ids(ToSet(out)))
  /\ Ids(ToSet(out)) \cap Ids(ToSet(matched)) = {}
  /\ ToSet(out) \subseteq ToSet(rows)

LEMMA TakeOverKeeps ==
  ASSUME NEW R, NEW rows \in Seq(R), NEW matched, NEW out \in Seq(R),
         References(out, matched, rows), NEW r \in ToSet(rows)
  PROVE  TakeOver(out, r, matched) \in Seq(R)
         /\ References(TakeOver(out, r, matched), matched, rows)
<1>1. CASE r.id \in Ids(ToSet(out) \cup ToSet(matched))
  BY <1>1 DEF TakeOver
<1>2. CASE r.id \notin Ids(ToSet(out) \cup ToSet(matched))
  <2> DEFINE new == Append(out, r)
  <2>1. TakeOver(out, r, matched) = new
    BY <1>2 DEF TakeOver
  <2>2. r \in R
    BY DEF ToSet
  <2>3. new \in Seq(R) /\ Len(new) = Len(out) + 1 /\ Len(out) \in Nat
    BY <2>2
  <2>4. ToSet(new) = ToSet(out) \cup {r}
    BY <2>2, AppendElements
  <2> HIDE DEF new
  <2>5. Ids(ToSet(new)) = Ids(ToSet(out)) \cup {r.id}
    BY <2>4 DEF Ids
  <2>6. r.id \notin Ids(ToSet(out)) /\ r.id \notin Ids(ToSet(matched))
    BY <1>2 DEF Ids
  <2>7. /\ IsFiniteSet(Ids(ToSet(new)))
        /\ Cardinality(Ids(ToSet(new))) = Cardinality(Ids(ToSet(out))) + 1
    <3>1. IsFiniteSet(Ids(ToSet(out)))
      BY DEF References
    <3> QED
      BY <2>5, <2>6, <3>1, FS_AddElement
  <2> QED
    BY <2>1, <2>3, <2>4, <2>5, <2>6, <2>7 DEF References
<1> QED
  BY <1>1, <1>2

LEMMA AllTakenAreReferences ==
  ASSUME NEW R, NEW rows \in Seq(R), NEW matched
  PROVE  AllTaken(rows, matched) \in Seq(R) /\ References(AllTaken(rows, matched), matched, rows)
<1> DEFINE n == Len(rows)
           base == <<>>
           S == {out \in Seq(R) : References(out, matched, rows)}
           step == [p \in S \X (1 .. n) |-> TakeOver(p[1], rows[p[2]], matched)]
           Iterates(g) == g = [s \in SUBSET (1 .. n) |->
                                 IF s = {} THEN base
                                 ELSE TakeOver(g[s \ {Max(s)}], rows[Max(s)], matched)]
           iter == CHOOSE g : Iterates(g)
<1>1. n \in Nat /\ DOMAIN rows = 1 .. n /\ \A i \in 1 .. n : rows[i] \in ToSet(rows)
  BY DEF ToSet
<1>2. base \in S
  <2>1. ToSet(<<>>) = {} /\ Ids({}) = {}
    BY DEF ToSet, Ids
  <2>2. References(<<>>, matched, rows)
    BY <2>1, FS_EmptySet DEF References
  <2> QED
    BY <2>2
<1>3. step \in [S \X (1 .. n) -> S]
  <2> SUFFICES ASSUME NEW out \in S, NEW i \in 1 .. n
               PROVE  TakeOver(out, rows[i], matched) \in S
    OBVIOUS
  <2> QED
    BY <1>1, TakeOverKeeps
<1>4. \A out \in S, i \in 1 .. n : step[<<out, i>>] = TakeOver(out, rows[i], matched)
  OBVIOUS
<1> HIDE DEF step
<1>5. Iterates(iter)
  <2>1. PICK g \in [SUBSET (1 .. n) -> S] : IsFold(n, base, step, g)
    <3> HIDE DEF n, S, base
    <3> QED
      BY <1>1, <1>2, <1>3, FoldDefined
  <2>2. ASSUME NEW s \in SUBSET (1 .. n)
        PROVE  g[s] = IF s = {} THEN base
                      ELSE TakeOver(g[s \ {Max(s)}], rows[Max(s)], matched)
    <3>1. CASE s # {}
      <4>1. Max(s) \in 1 .. n /\ s \ {Max(s)} \in SUBSET (1 .. n)
        BY <1>1, <3>1, MaxOfIndices
      <4> HIDE DEF n, S, base
      <4> QED
        BY <1>4, <2>1, <3>1, <4>1 DEF IsFold
    <3> QED
      BY <2>1, <3>1 DEF IsFold
  <2>3. Iterates(g)
    BY <2>2
  <2> HIDE DEF Iterates
  <2> QED
    BY <2>3
<1>6. AllTaken(rows, matched) = iter[1 .. n]
  BY <1>1, Zenon DEF AllTaken, FoldLeft, MapThenFoldSet, TakeOver
<1> HIDE DEF iter, base
<1>7. iter[{}] = base
  BY <1>5
<1>8. \A s \in SUBSET (1 .. n) :
        s # {} /\ iter[s \ {Max(s)}] \in S =>
          iter[s] = step[<<iter[s \ {Max(s)}], Max(s)>>]
  <2> SUFFICES ASSUME NEW s \in SUBSET (1 .. n), s # {}, iter[s \ {Max(s)}] \in S
               PROVE  iter[s] = step[<<iter[s \ {Max(s)}], Max(s)>>]
    OBVIOUS
  <2>1. Max(s) \in 1 .. n
    BY <1>1, MaxOfIndices
  <2>2. iter[s] = TakeOver(iter[s \ {Max(s)}], rows[Max(s)], matched)
    BY <1>5
  <2> HIDE DEF S
  <2> QED
    BY <1>4, <2>1, <2>2
<1>9. FoldsWithin(n, S, base, step, iter)
  BY <1>7, <1>8 DEF FoldsWithin
<1>10. Chained(n, S, base, step, iter[1 .. n])
  <2> HIDE DEF n, S
  <2> QED
    BY <1>1, <1>2, <1>3, <1>9, FoldChain
<1>11. iter[1 .. n] \in S
  <2>1. n \in 0 .. n
    BY <1>1
  <2> HIDE DEF S
  <2> QED
    BY <1>10, <2>1 DEF Chained
<1> QED
  BY <1>6, <1>11

(* The greater and the lesser of two numbers.                               *)
LEMMA MaxOfTwo ==
  ASSUME NEW a \in Int, NEW b \in Int
  PROVE  Max({a, b}) = IF a >= b THEN a ELSE b
<1> DEFINE m == IF a >= b THEN a ELSE b
<1>1. m \in {a, b} /\ \A y \in {a, b} : m >= y
  OBVIOUS
<1>2. \A x \in {a, b} : (\A y \in {a, b} : x >= y) => x = m
  OBVIOUS
<1> HIDE DEF m
<1>3. Max({a, b}) = m
  BY <1>1, <1>2 DEF Max
<1> QED
  BY <1>3 DEF m

LEMMA MinOfTwo ==
  ASSUME NEW a \in Int, NEW b \in Int
  PROVE  Min({a, b}) = IF a =< b THEN a ELSE b
<1> DEFINE m == IF a =< b THEN a ELSE b
<1>1. m \in {a, b} /\ \A y \in {a, b} : m =< y
  OBVIOUS
<1>2. \A x \in {a, b} : (\A y \in {a, b} : x =< y) => x = m
  OBVIOUS
<1> HIDE DEF m
<1>3. Min({a, b}) = m
  BY <1>1, <1>2 DEF Min
<1> QED
  BY <1>3 DEF m

LEMMA SnippetsAreWindows ==
  ASSUME NEW g, SoundGraph(g), NEW n \in g.nodes
  PROVE  SnippetOf(n) \in Seq(Int \X Int)
<1>1. n.lines[1] \in Int /\ n.lines[2] \in Int
  BY DEF SoundGraph
<1>2. ASSUME NEW a \in Int, NEW b \in Int, NEW total \in Nat
      PROVE  Snippet(a, b, total) \in Int \X Int
  <2> DEFINE last == SnippetEnd(a, b)
             start == Max({1, a - DefaultContextLines})
             end == Min({total, last + DefaultContextLines})
             half == ((a + last) \div 2) - (MaxSnippetLines \div 2)
             centred == Max({1, half})
             cut == Min({total, centred + MaxSnippetLines - 1})
  <2>1. MaxSnippetLines \in Int /\ DefaultContextLines \in Int
    BY SnippetAssumption
  <2>2. last \in Int
    BY DEF SnippetEnd
  <2>3. start \in Int
    <3>1. a - DefaultContextLines \in Int
      BY <2>1
    <3> QED
      BY <3>1, MaxOfTwo
  <2>4. end \in Int
    <3>1. last + DefaultContextLines \in Int
      BY <2>1, <2>2
    <3> QED
      BY <3>1, MinOfTwo
  <2>5. half \in Int
    BY <2>1, <2>2
  <2>6. centred \in Int
    <3> HIDE DEF half
    <3> QED
      BY <2>5, MaxOfTwo
  <2>7. cut \in Int
    <3> HIDE DEF centred
    <3>1. centred + MaxSnippetLines - 1 \in Int
      BY <2>1, <2>6
    <3> QED
      BY <3>1, MinOfTwo
  <2>8. Snippet(a, b, total) = IF end - start + 1 > MaxSnippetLines THEN <<centred, cut>>
                               ELSE <<start, end>>
    BY DEF Snippet
  <2> HIDE DEF start, end, centred, cut
  <2> QED
    BY <2>3, <2>4, <2>6, <2>7, <2>8
<1>3. n.file \in DOMAIN Files => Len(Files[n.file].lines) \in Nat
  BY SnippetAssumption
<1>4. n.file \in DOMAIN Files =>
        Snippet(n.lines[1], n.lines[2], Len(Files[n.file].lines)) \in Int \X Int
  BY <1>1, <1>2, <1>3
<1>5. CASE n.lines[1] =< 0 \/ n.file \notin DOMAIN Files \/ Files[n.file].kind # "file"
  BY <1>5 DEF SnippetOf
<1>6. CASE ~ (n.lines[1] =< 0 \/ n.file \notin DOMAIN Files \/ Files[n.file].kind # "file")
  <2> DEFINE w == Snippet(n.lines[1], n.lines[2], Len(Files[n.file].lines))
  <2>1. SnippetOf(n) = <<w>> /\ w \in Int \X Int
    BY <1>4, <1>6 DEF SnippetOf
  <2> HIDE DEF w
  <2> QED
    BY <2>1
<1> QED
  BY <1>5, <1>6

(* No more lines than the bound.                                            *)
LEMMA BoundedSnippet ==
  ASSUME NEW w \in Int \X Int, NEW bound \in Int
  PROVE  BoundSnippet(w, bound)[2] - BoundSnippet(w, bound)[1] + 1 =< bound
BY DEF BoundSnippet

(* What is claimed to be exact has no note.                                 *)
LEMMA ExactHasNoNote ==
  ASSUME NEW language
  PROVE  LET plan == Plan("FIND_SYMBOL", language)
         IN DeriveCapability[plan.route] = "EXACT" => {plan.note} \ {""} = {}
<1> DEFINE route == SelectRoute({TableFor(language)[d] : d \in {"SYMBOL_DEFINITIONS"}})
<1>1. QueryDimensions["FIND_SYMBOL"] = {"SYMBOL_DEFINITIONS"}
      /\ "FIND_SYMBOL" \in DOMAIN QueryDimensions
  BY DEF QueryDimensions
<1>2. Plan("FIND_SYMBOL", language) = [route |-> route, note |-> BuildDegradationNote(route)]
  BY <1>1 DEF Plan
<1>3. route \in {"GRAPH_FIRST", "MERGED", "LEXICAL_FIRST", "DEGRADED"}
  BY DEF SelectRoute
<1> HIDE DEF route
<1>4. /\ Plan("FIND_SYMBOL", language).route = route
      /\ Plan("FIND_SYMBOL", language).note = BuildDegradationNote(route)
  BY <1>2
<1>5. DeriveCapability[route] = "EXACT" => BuildDegradationNote(route) = ""
  <2>1. /\ DeriveCapability["LEXICAL_FIRST"] = "LEXICAL_ONLY"
        /\ DeriveCapability["DEGRADED"] = "UNSUPPORTED"
    BY DEF DeriveCapability
  <2>2. DeriveCapability[route] = "EXACT" => route \in {"GRAPH_FIRST", "MERGED"}
    BY <1>3, <2>1
  <2> QED
    BY <2>2 DEF BuildDegradationNote
<1> QED
  BY <1>4, <1>5

(* A pack is sound: what EvidenceSound says of it.                          *)
PackSound(g, pack, bound) ==
  /\ Cardinality(Ids(ToSet(pack.references))) = Len(pack.references)
  /\ Ids(ToSet(pack.references)) \cap Ids(ToSet(pack.matched)) = {}
  /\ \A id \in Ids(ToSet(pack.references)) :
       \E m \in ToSet(pack.matched) : m.id \in Successors(g, id)
  /\ \A s \in ToSet(pack.snippets) : s[2] - s[1] + 1 =< bound
  /\ pack.capability = "EXACT" => pack.notes = {}

LEMMA EmptyPackSound ==
  ASSUME NEW g, NEW note, NEW bound
  PROVE  PackSound(g, EmptyPack(note), bound)
<1>1. ToSet(<<>>) = {} /\ Ids({}) = {}
  BY DEF ToSet, Ids
<1>2. /\ EmptyPack(note).references = <<>> /\ EmptyPack(note).matched = <<>>
      /\ EmptyPack(note).snippets = <<>> /\ EmptyPack(note).capability = "UNSUPPORTED"
  BY DEF EmptyPack
<1> QED
  BY <1>1, <1>2, FS_EmptySet DEF PackSound

LEMMA ReferencesReach ==
  ASSUME NEW g, SoundGraph(g), NEW matched \in Seq(g.nodes)
  PROVE  LET references == FetchReferences(g, matched)
         IN /\ Cardinality(Ids(ToSet(references))) = Len(references)
            /\ Ids(ToSet(references)) \cap Ids(ToSet(matched)) = {}
            /\ \A id \in Ids(ToSet(references)) :
                 \E m \in ToSet(matched) : m.id \in Successors(g, id)
<1> DEFINE found == [i \in DOMAIN matched |->
                       FindCallers(g, matched[i].id) \o FindDependents(g, matched[i].id)]
           rows == FlattenSeq(found)
           references == FetchReferences(g, matched)
<1>1. /\ Len(matched) \in Nat /\ DOMAIN matched = 1 .. Len(matched)
      /\ \A i \in DOMAIN matched : matched[i] \in ToSet(matched)
  BY DEF ToSet
<1>2. \A i \in DOMAIN matched :
        /\ found[i] \in Seq(RowsIn(g))
        /\ \A r \in ToSet(found[i]) : matched[i].id \in Successors(g, r.id)
  BY CallersAndDependents
<1>3. DOMAIN found = 1 .. Len(matched) /\ found = [i \in 1 .. Len(matched) |-> found[i]]
  BY <1>1
<1>4. references = AllTaken(rows, matched)
  BY Zenon DEF FetchReferences, AllTaken
<1> HIDE DEF found
<1>5. found \in Seq(Seq(RowsIn(g)))
  BY <1>1, <1>2, <1>3
<1>6. rows \in Seq(RowsIn(g)) /\ ToSet(rows) = UNION {ToSet(found[i]) : i \in DOMAIN found}
  BY <1>5, FlattenElements
<1> HIDE DEF rows, references
<1>7. References(references, matched, rows)
  BY <1>4, <1>6, AllTakenAreReferences
<1>8. \A id \in Ids(ToSet(references)) : \E m \in ToSet(matched) : m.id \in Successors(g, id)
  <2> SUFFICES ASSUME NEW r \in ToSet(references)
               PROVE  \E m \in ToSet(matched) : m.id \in Successors(g, r.id)
    BY DEF Ids
  <2>1. r \in ToSet(rows)
    BY <1>7 DEF References
  <2>2. PICK i \in DOMAIN found : r \in ToSet(found[i])
    BY <1>6, <2>1
  <2> QED
    BY <1>1, <1>2, <1>3, <2>2
<1> QED
  BY <1>7, <1>8 DEF References, references

LEMMA AssembledSound ==
  ASSUME NEW g, SoundGraph(g), NEW req, req.maxLines \in Int, req.references \in BOOLEAN
  PROVE  PackSound(g, Assemble(g, req), ResolveMaxLines(req.maxLines, req.limited))
<1> DEFINE plan == Plan("FIND_SYMBOL", InferLanguage(req.ext))
           matched == IF req.symbol # "" THEN FindByIdentifier(g, req.symbol)
                      ELSE FindByFilePath(g, req.file)
           bound == ResolveMaxLines(req.maxLines, req.limited)
           windows == FlattenSeq([i \in DOMAIN matched |-> SnippetOf(matched[i])])
           references == IF req.references THEN FetchReferences(g, matched) ELSE <<>>
           snippets == [i \in DOMAIN windows |-> BoundSnippet(windows[i], bound)]
           provenance == [i \in DOMAIN matched |-> ProvenanceFor(matched[i])]
           pack == [matched |-> matched, files |-> UniqueSortedFiles(matched),
                    references |-> references, snippets |-> snippets,
                    provenance |-> provenance, notes |-> {plan.note} \ {""},
                    capability |-> DeriveCapability[plan.route]]
<1>1. \/ \E note : Assemble(g, req) = EmptyPack(note)
      \/ Assemble(g, req) = pack
  BY DEF Assemble
<1>2. matched \in Seq(g.nodes)
  <2>1. ASSUME NEW S \in SUBSET g.nodes PROVE ById(S) \in Seq(g.nodes)
    <3>1. IsListing(ById(S), S)
      BY ByIdLists
    <3> QED
      BY <3>1 DEF IsListing
  <2>2. ById({n \in g.nodes : n.label = req.symbol}) \in Seq(g.nodes)
        /\ ById({n \in g.nodes : n.file = req.file}) \in Seq(g.nodes)
    BY <2>1
  <2> QED
    BY <2>2 DEF FindByIdentifier, FindByFilePath
<1>3. DeriveCapability[plan.route] = "EXACT" => {plan.note} \ {""} = {}
  BY ExactHasNoNote
<1>4. bound \in Int
  <2>1. ConfiguredSnippet \in Int /\ Max({1, req.maxLines}) \in Int
    BY SnippetAssumption, MaxOfTwo
  <2>2. Min({Max({1, req.maxLines}), ConfiguredSnippet}) \in Int
    BY <2>1, MinOfTwo
  <2> QED
    BY <2>1, <2>2 DEF ResolveMaxLines
<1> HIDE DEF plan, matched, bound
<1>5. windows \in Seq(Int \X Int)
  <2> DEFINE cut == [i \in DOMAIN matched |-> SnippetOf(matched[i])]
  <2>1. Len(matched) \in Nat /\ DOMAIN matched = 1 .. Len(matched)
        /\ \A i \in 1 .. Len(matched) : matched[i] \in g.nodes
    BY <1>2
  <2>2. cut = [i \in 1 .. Len(matched) |-> cut[i]]
        /\ \A i \in 1 .. Len(matched) : cut[i] \in Seq(Int \X Int)
    BY <2>1, SnippetsAreWindows
  <2> HIDE DEF cut
  <2>3. cut \in Seq(Seq(Int \X Int))
    BY <2>1, <2>2
  <2>4. FlattenSeq(cut) \in Seq(Int \X Int)
    BY <2>3, FlattenElements
  <2> QED
    BY <2>4 DEF cut
<1> HIDE DEF windows
<1>6. \A s \in ToSet(snippets) : s[2] - s[1] + 1 =< bound
  <2> SUFFICES ASSUME NEW i \in DOMAIN windows
               PROVE  BoundSnippet(windows[i], bound)[2] - BoundSnippet(windows[i], bound)[1] + 1
                        =< bound
    BY DEF ToSet
  <2>1. windows[i] \in Int \X Int
    BY <1>5
  <2> QED
    BY <1>4, <2>1, BoundedSnippet
<1>7. /\ Cardinality(Ids(ToSet(references))) = Len(references)
      /\ Ids(ToSet(references)) \cap Ids(ToSet(matched)) = {}
      /\ \A id \in Ids(ToSet(references)) :
           \E m \in ToSet(matched) : m.id \in Successors(g, id)
  <2>1. CASE req.references
    BY <1>2, <2>1, ReferencesReach
  <2>2. CASE ~ req.references
    <3>1. references = <<>> /\ ToSet(<<>>) = {} /\ Ids({}) = {}
      BY <2>2 DEF ToSet, Ids
    <3> HIDE DEF references
    <3> QED
      BY <3>1, FS_EmptySet
  <2> QED
    BY <2>1, <2>2
<1>8. /\ pack.references = references /\ pack.matched = matched /\ pack.snippets = snippets
      /\ pack.capability = DeriveCapability[plan.route] /\ pack.notes = {plan.note} \ {""}
  OBVIOUS
<1> HIDE DEF references, snippets, pack
<1>9. PackSound(g, pack, bound)
  BY <1>3, <1>6, <1>7, <1>8 DEF PackSound
<1> QED
  BY <1>1, <1>9, EmptyPackSound DEF bound

(* What is given with a request has its type.                               *)
LEMMA RequestTypes ==
  ASSUME NEW r \in ToSet(Requests)
  PROVE  /\ \A name \in {"limit", "radius", "depth", "node_id", "max_snippet_lines"} :
              name \in DOMAIN r.p => r.p[name] \in Int
         /\ "include_references" \in DOMAIN r.p => r.p.include_references \in BOOLEAN
         /\ r.tool = "run_cypher" /\ "query" \in DOMAIN r.p => r.p.query.rows \in Nat
BY RequestsAssumption DEF ToSet

(* What the evidence tool answers that is no error.                         *)
LEMMA PackAnswered ==
  ASSUME NEW x, NEW p, ~ Fault(ToolGetEvidencePack(x, p))
  PROVE  \E req : /\ ToolGetEvidencePack(x, p) = Assemble(x.g, req)
                  /\ req.maxLines = Arg(p, "max_snippet_lines", 0)
                  /\ req.limited = ("max_snippet_lines" \in DOMAIN p)
                  /\ req.references = Arg(p, "include_references", FALSE)
<1>1. "evidence" \in x.wired /\ "malformed" \notin DOMAIN p
  <2>1. Fault(Unavailable) /\ Fault(Invalid)
    BY DEF Fault, Unavailable, Invalid
  <2> QED
    BY <2>1 DEF ToolGetEvidencePack
<1> DEFINE req == [symbol |-> Arg(p, "symbol", ""), file |-> Arg(p, "file_path", ""),
                   ext |-> ExtensionOf(Arg(p, "file_path", "")),
                   maxLines |-> Arg(p, "max_snippet_lines", 0),
                   limited |-> "max_snippet_lines" \in DOMAIN p,
                   references |-> Arg(p, "include_references", FALSE)]
<1>2. ToolGetEvidencePack(x, p) = Assemble(x.g, req)
  BY <1>1 DEF ToolGetEvidencePack
<1>3. /\ req.maxLines = Arg(p, "max_snippet_lines", 0)
      /\ req.limited = ("max_snippet_lines" \in DOMAIN p)
      /\ req.references = Arg(p, "include_references", FALSE)
  OBVIOUS
<1> HIDE DEF req
<1> QED
  BY <1>2, <1>3

SnippetBound(asked) ==
  IF asked.tool = "get_evidence_pack" /\ "max_snippet_lines" \in DOMAIN asked.p
  THEN Max({1, Min({asked.p.max_snippet_lines, ConfiguredSnippet})})
  ELSE ConfiguredSnippet

LEMMA EvidenceAnswered ==
  ASSUME NEW g, SoundGraph(g), NEW a, Handled(g, a),
         \/ a.asked.tool = "get_evidence_pack"
         \/ a.asked.tool = "inspect_node" /\ Mode(a.asked.p) = "evidence"
  PROVE  PackSound(g, a.answer, SnippetBound(a.asked))
<1> DEFINE p == a.asked.p
           q == IF a.asked.tool = "get_evidence_pack" THEN p
                ELSE Only(p, {"node_id", "file_path"})
<1>1. PICK fails \in BOOLEAN : \E st, model :
        a.answer = Handle(a.asked.tool, Work(g, fails, st, model), p)
  BY DEF Handled
<1>2. PICK st, model : a.answer = Handle(a.asked.tool, Work(g, fails, st, model), p)
  BY <1>1
<1> DEFINE x == Work(g, fails, st, model)
<1>3. x.g = g
  BY DEF Work
<1> HIDE DEF x
<1>4. a.answer = ToolGetEvidencePack(x, q)
  <2>1. CASE a.asked.tool = "get_evidence_pack"
    BY <1>2, <2>1 DEF Handle, x
  <2>2. CASE a.asked.tool = "inspect_node" /\ Mode(p) = "evidence"
    <3>1. a.answer = ToolInspectNode(x, p)
      BY <1>2, <2>2 DEF Handle, x
    <3>2. ToolInspectNode(x, p) = ToolGetEvidencePack(x, Only(p, {"node_id", "file_path"}))
      BY <2>2 DEF ToolInspectNode
    <3> QED
      BY <2>2, <3>1, <3>2
  <2> QED
    BY <2>1, <2>2
<1>5. /\ Arg(q, "max_snippet_lines", 0) \in Int
      /\ Arg(q, "include_references", FALSE) \in BOOLEAN
      /\ "max_snippet_lines" \in DOMAIN q <=>
           a.asked.tool = "get_evidence_pack" /\ "max_snippet_lines" \in DOMAIN p
      /\ "max_snippet_lines" \in DOMAIN q => q["max_snippet_lines"] = p.max_snippet_lines
      /\ "max_snippet_lines" \in DOMAIN q => p.max_snippet_lines \in Int
  <2>1. CASE a.asked.tool = "get_evidence_pack"
    <3>1. q = p
      BY <2>1
    <3>2. a.asked \in ToSet(Requests)
      BY DEF Handled
    <3>3. /\ "max_snippet_lines" \in DOMAIN p => p["max_snippet_lines"] \in Int
          /\ "include_references" \in DOMAIN p => p["include_references"] \in BOOLEAN
      BY <3>2, RequestTypes
    <3> HIDE DEF p, q
    <3>4. Arg(q, "max_snippet_lines", 0) \in Int
      BY <3>1, <3>3 DEF Arg
    <3>5. Arg(q, "include_references", FALSE) \in BOOLEAN
      BY <3>1, <3>3, Zenon DEF Arg
    <3> QED
      BY <2>1, <3>1, <3>3, <3>4, <3>5
  <2>2. CASE a.asked.tool # "get_evidence_pack"
    <3>1. "max_snippet_lines" \notin DOMAIN q /\ "include_references" \notin DOMAIN q
      BY <2>2 DEF Only
    <3> HIDE DEF q
    <3> QED
      BY <2>2, <3>1 DEF Arg
  <2> QED
    BY <2>1, <2>2
<1> HIDE DEF q
<1>6. PICK req : /\ a.answer = Assemble(g, req)
                 /\ req.maxLines = Arg(q, "max_snippet_lines", 0)
                 /\ req.limited = ("max_snippet_lines" \in DOMAIN q)
                 /\ req.references = Arg(q, "include_references", FALSE)
  BY <1>3, <1>4, PackAnswered DEF Handled
<1>7. PackSound(g, a.answer, ResolveMaxLines(req.maxLines, req.limited))
  BY <1>5, <1>6, AssembledSound
<1>8. ResolveMaxLines(req.maxLines, req.limited) = SnippetBound(a.asked)
  <2>1. CASE "max_snippet_lines" \in DOMAIN q
    <3> DEFINE n == p.max_snippet_lines
               c == ConfiguredSnippet
    <3>1. n \in Int /\ c \in Nat \ {0} /\ req.maxLines = n
      BY <1>5, <1>6, <2>1, SnippetAssumption DEF Arg
    <3> HIDE DEF n, c
    <3>2. Max({1, n}) = (IF 1 >= n THEN 1 ELSE n) /\ Min({n, c}) = (IF n =< c THEN n ELSE c)
      BY <3>1, MaxOfTwo, MinOfTwo
    <3>3. Max({1, n}) \in Int /\ Min({n, c}) \in Int
      BY <3>1, <3>2
    <3>4. /\ Min({Max({1, n}), c}) = (IF Max({1, n}) =< c THEN Max({1, n}) ELSE c)
          /\ Max({1, Min({n, c})}) = (IF 1 >= Min({n, c}) THEN 1 ELSE Min({n, c}))
      BY <3>1, <3>3, MaxOfTwo, MinOfTwo
    <3>5. Min({Max({1, n}), c}) = Max({1, Min({n, c})})
      BY <3>1, <3>2, <3>4
    <3> QED
      BY <1>5, <1>6, <2>1, <3>1, <3>5 DEF ResolveMaxLines, SnippetBound, n, c
  <2>2. CASE "max_snippet_lines" \notin DOMAIN q
    BY <1>5, <1>6, <2>2 DEF ResolveMaxLines, SnippetBound
  <2> QED
    BY <2>1, <2>2
<1> QED
  BY <1>7, <1>8

(* EvidenceSound: the references of an evidence pack are other nodes, each  *)
(* once, that reach a match over one edge; its snippets keep to the bound,  *)
(* and what it claims is exact has no note.                                *)
LEMMA EvidenceFollows == ServerInv => EvidenceSound
<1> SUFFICES ASSUME ServerInv,
                    NEW k \in Served("get_evidence_pack", "inspect_node", "evidence")
             PROVE  PackSound(Graph, answers[k].answer, SnippetBound(answers[k].asked))
  BY DEF EvidenceSound, PackSound, SnippetBound
<1>1. Usable /\ Handled(Graph, answers[k])
  BY DEF Served, ByServer, ServerInv, AnswersSound
<1>2. SoundGraph(Graph)
  BY <1>1 DEF ServerInv, DiskSound, Usable, Graph
<1> QED
  BY <1>1, <1>2, EvidenceAnswered DEF Served

(* In every run, the evidence packs answered so far are sound.               *)
THEOREM EvidenceIsSound == Spec => []EvidenceSound
BY ServerIsSound, EvidenceFollows, PTL
-----------------------------------------------------------------------------
(* Answers within their caps.                                               *)

LEMMA CapsInBounds ==
  /\ ResultCap \in Nat \ {0} /\ DepthCap \in Nat \ {0}
  /\ \A n \in Int : CapResults(n) \in 1 .. ResultCap
  /\ \A n \in Int : CapDepth(n) \in 1 .. DepthCap
<1>1. ResultCap \in Nat \ {0} /\ DepthCap \in Nat \ {0}
  BY CapsAssumption DEF ResultCap, DepthCap
<1>2. ASSUME NEW n \in Int, NEW cap \in Nat \ {0}
      PROVE  Min({Max({1, n}), cap}) \in 1 .. cap
  <2>1. Max({1, n}) = IF 1 >= n THEN 1 ELSE n
    BY MaxOfTwo
  <2>2. Max({1, n}) \in Nat \ {0}
    BY <2>1
  <2>3. Min({Max({1, n}), cap}) = IF Max({1, n}) =< cap THEN Max({1, n}) ELSE cap
    BY <2>2, MinOfTwo
  <2> QED
    BY <2>2, <2>3
<1> QED
  BY <1>1, <1>2 DEF CapResults, CapDepth

LEMMA TakeTakes ==
  ASSUME NEW R, NEW rows \in Seq(R), NEW limit \in Nat
  PROVE  /\ Take(rows, limit) \in Seq(R)
         /\ Len(Take(rows, limit)) = Min({limit, Len(rows)})
         /\ Len(Take(rows, limit)) =< limit
         /\ ToSet(Take(rows, limit)) \subseteq ToSet(rows)
<1> DEFINE n == Min({limit, Len(rows)})
<1>1. Len(rows) \in Nat /\ n = (IF limit =< Len(rows) THEN limit ELSE Len(rows))
  BY MinOfTwo
<1>2. n \in 0 .. Len(rows) /\ n =< limit
  BY <1>1
<1> HIDE DEF n
<1>3. /\ SubSeq(rows, 1, n) \in Seq(R) /\ Len(SubSeq(rows, 1, n)) = n
      /\ \A i \in 1 .. n : SubSeq(rows, 1, n)[i] = rows[i]
  BY <1>2
<1>4. ToSet(SubSeq(rows, 1, n)) \subseteq ToSet(rows)
  BY <1>2, <1>3 DEF ToSet
<1> QED
  BY <1>2, <1>3, <1>4 DEF Take, n

LEMMA ListedFields ==
  ASSUME NEW field, field # "count", NEW rows
  PROVE  /\ DOMAIN Listed(field, rows) = {field, "count"}
         /\ Listed(field, rows)[field] = rows
BY DEF Listed, With

LEMMA WithFields ==
  ASSUME NEW f, NEW g
  PROVE  /\ DOMAIN With(f, g) = DOMAIN f \cup DOMAIN g
         /\ \A x \in DOMAIN f : With(f, g)[x] = f[x]
         /\ \A x \in DOMAIN g \ DOMAIN f : With(f, g)[x] = g[x]
BY DEF With

(* What is reached from a node over so many edges.                          *)
Downstream(g, start, hops) ==
  LET next(n) == Successors(g, n) IN Within(start, next, hops)

(* What AnswersCapped says of an answer e to the parameters p.              *)
PagedFields == {"dead_code", "endpoints", "results", "rows", "matches"}
Capped(g, p, e) ==
  /\ \A field \in PagedFields :
       field \in DOMAIN e /\ "count" \in DOMAIN e => Len(e[field]) =< ResultCap
  /\ "limit" \in DOMAIN e => e.limit \in 1 .. ResultCap
  /\ "limit" \in DOMAIN e /\ "nodes" \in DOMAIN e =>
       Len(e.nodes) = Min({e.limit, Cardinality(FindByKind(g, Arg(p, "kind", "")))})
  /\ "limit" \in DOMAIN e /\ "edges" \in DOMAIN e =>
       /\ Len(e.edges) =< e.limit
       /\ "kind" \notin DOMAIN p => Len(e.edges) = Min({e.limit, Cardinality(g.edges)})
  /\ "rows" \in DOMAIN e => (e.truncated <=> p.query.rows > Len(e.rows))
  /\ "radius" \in DOMAIN e => e.radius \in 1 .. DepthCap
  /\ "affected_nodes" \in DOMAIN e =>
       Ids(ToSet(e.affected_nodes)) \subseteq Downstream(g, e.source, DepthCap)
  /\ "prompt" \in DOMAIN e => Len(e.prompt) =< MaxFiles

CappedNames ==
  PagedFields \cup {"limit", "radius", "affected_nodes", "prompt"}

(* None of the fields, or a list that is not counted.                       *)
LEMMA PlainIsCapped ==
  ASSUME NEW g, NEW p, NEW e, DOMAIN e \cap (CappedNames \ PagedFields) = {},
         "rows" \notin DOMAIN e,
         "count" \notin DOMAIN e \/ DOMAIN e \cap PagedFields = {}
  PROVE  Capped(g, p, e)
<1>1. {"limit", "radius", "affected_nodes", "prompt"} \subseteq CappedNames \ PagedFields
  BY DEF CappedNames, PagedFields
<1>2. "limit" \notin DOMAIN e /\ "radius" \notin DOMAIN e
      /\ "affected_nodes" \notin DOMAIN e /\ "prompt" \notin DOMAIN e
  BY <1>1
<1>3. \A field \in PagedFields : ~ (field \in DOMAIN e /\ "count" \in DOMAIN e)
  OBVIOUS
<1> QED
  BY <1>2, <1>3, Zenon DEF Capped

(* A list of no more rows than may be returned, or one that is not paged.   *)
LEMMA ListIsCapped ==
  ASSUME NEW g, NEW p, NEW field, field \notin CappedNames \cup {"count"}, NEW rows
  PROVE  Capped(g, p, Listed(field, rows))
<1>1. DOMAIN Listed(field, rows) = {field, "count"}
  BY ListedFields
<1> QED
  BY <1>1, PlainIsCapped DEF CappedNames, PagedFields

LEMMA PageIsCapped ==
  ASSUME NEW g, NEW p, NEW field \in {"dead_code", "endpoints", "results", "matches"},
         NEW rows, Len(rows) =< ResultCap
  PROVE  Capped(g, p, Listed(field, rows))
<1> DEFINE e == Listed(field, rows)
<1>1. DOMAIN e = {field, "count"} /\ e[field] = rows
  <2>1. \A f \in {"dead_code", "endpoints", "results", "matches"} : f # "count"
    OBVIOUS
  <2> QED
    BY <2>1, ListedFields, Zenon
<1> HIDE DEF e
<1>2. Capped(g, p, e)
  BY <1>1 DEF Capped, PagedFields
<1> QED
  BY <1>2 DEF e

(* An answer is within the caps unless it is an error, and what is checked  *)
(* first is an error, or what comes then.                                   *)
Bounded(g, p, e) == ~ Fault(e) => Capped(g, p, e)

LEMMA CheckedAnswers ==
  ASSUME NEW required, NEW wired, NEW fails, NEW e,
         ~ Fault(Checked(required, wired, fails, e))
  PROVE  Checked(required, wired, fails, e) = e /\ required
<1>1. Fault(Invalid) /\ Fault(Internal)
  BY DEF Fault, Invalid, Internal
<1> QED
  BY <1>1, Zenon DEF Checked

LEMMA CheckedIsBounded ==
  ASSUME NEW g, NEW p, NEW required, NEW wired, NEW fails, NEW e,
         required => Bounded(g, p, e)
  PROVE  Bounded(g, p, Checked(required, wired, fails, e))
BY CheckedAnswers, Zenon DEF Bounded

(* The tools that list what they find, or give one record.                  *)
LEMMA ListedAnswers ==
  ASSUME NEW g, NEW p, NEW required, NEW wired, NEW fails,
         NEW field, field \notin CappedNames \cup {"count"}, NEW rows
  PROVE  Bounded(g, p, Checked(required, wired, fails, Listed(field, rows)))
<1>1. Bounded(g, p, Listed(field, rows))
  BY ListIsCapped, Zenon DEF Bounded
<1> QED
  BY <1>1, CheckedIsBounded, Zenon

LEMMA ListingTools ==
  ASSUME NEW x, NEW p, NEW q
  PROVE  /\ Bounded(x.g, p, ToolFindCycles(x, q))
         /\ Bounded(x.g, p, ToolFindConsumers(x, q))
         /\ Bounded(x.g, p, ToolFindProducers(x, q))
         /\ Bounded(x.g, p, ToolFindCallers(x, q))
         /\ Bounded(x.g, p, ToolFindDependencies(x, q))
         /\ Bounded(x.g, p, ToolFindDependents(x, q))
         /\ Bounded(x.g, p, ToolFindComponentByFile(x, q))
         /\ Bounded(x.g, p, ToolFindBottlenecks(x, q))
         /\ Bounded(x.g, p, ToolFindCircularDeps(x, q))
         /\ Bounded(x.g, p, ToolFindDeadServices(x, q))
<1> DEFINE Unpaged(field) == field \notin CappedNames \cup {"count"}
<1>1. /\ Unpaged("cycles") /\ Unpaged("consumers") /\ Unpaged("producers")
      /\ Unpaged("callers") /\ Unpaged("dependencies") /\ Unpaged("dependents")
      /\ Unpaged("nodes") /\ Unpaged("bottlenecks") /\ Unpaged("dead_services")
  BY DEF CappedNames, PagedFields
<1>2. Bounded(x.g, p, ToolFindCycles(x, q))
  BY <1>1, ListedAnswers, Zenon DEF ToolFindCycles
<1>3. Bounded(x.g, p, ToolFindConsumers(x, q))
  BY <1>1, ListedAnswers, Zenon DEF ToolFindConsumers, ConsumerLikeTool
<1>4. Bounded(x.g, p, ToolFindProducers(x, q))
  BY <1>1, ListedAnswers, Zenon DEF ToolFindProducers, ConsumerLikeTool
<1>5. Bounded(x.g, p, ToolFindCallers(x, q))
  BY <1>1, ListedAnswers, Zenon DEF ToolFindCallers, ConsumerLikeTool
<1>6. Bounded(x.g, p, ToolFindDependencies(x, q))
  BY <1>1, ListedAnswers, Zenon DEF ToolFindDependencies, ConsumerLikeTool
<1>7. Bounded(x.g, p, ToolFindDependents(x, q))
  BY <1>1, ListedAnswers, Zenon DEF ToolFindDependents, ConsumerLikeTool
<1>8. Bounded(x.g, p, ToolFindComponentByFile(x, q))
  BY <1>1, ListedAnswers, Zenon DEF ToolFindComponentByFile
<1>9. Bounded(x.g, p, ToolFindBottlenecks(x, q))
  BY <1>1, ListedAnswers, Zenon DEF ToolFindBottlenecks, TopologyTool
<1>10. Bounded(x.g, p, ToolFindCircularDeps(x, q))
  BY <1>1, ListedAnswers, Zenon DEF ToolFindCircularDeps, TopologyTool
<1>11. Bounded(x.g, p, ToolFindDeadServices(x, q))
  BY <1>1, ListedAnswers, Zenon DEF ToolFindDeadServices, TopologyTool
<1> QED
  BY <1>2, <1>3, <1>4, <1>5, <1>6, <1>7, <1>8, <1>9, <1>10, <1>11

(* The domain of a plain answer is among these.                             *)
PlainNames ==
  {"node_id", "incoming", "outgoing", "path", "length", "bytes", "truncated", "end",
   "services", "connections", "service_count", "connection_count", "service",
   "depends_on", "depended_by", "count", "meta", "matrix", "language", "capabilities",
   "error", "nodes", "edges", "stats", "matched", "files", "references", "snippets",
   "provenance", "notes", "capability"}

LEMMA PlainAnswers ==
  ASSUME NEW g, NEW p, NEW e, DOMAIN e \subseteq PlainNames
  PROVE  Bounded(g, p, e)
<1>1. DOMAIN e \cap (CappedNames \cup PagedFields) = {} /\ "rows" \notin DOMAIN e
  BY DEF PlainNames, CappedNames, PagedFields
<1> HIDE DEF PlainNames, CappedNames, PagedFields
<1>2. DOMAIN e \cap (CappedNames \ PagedFields) = {} /\ DOMAIN e \cap PagedFields = {}
  BY <1>1
<1> QED
  BY <1>1, <1>2, PlainIsCapped DEF Bounded

LEMMA PlainTools ==
  ASSUME NEW x, NEW p, NEW q
  PROVE  /\ Bounded(x.g, p, ToolGetNodeNeighbors(x, q))
         /\ Bounded(x.g, p, ToolFindShortestPath(x, q))
         /\ Bounded(x.g, p, ToolReadFile(x, q))
         /\ Bounded(x.g, p, ToolGetTopology(x, q))
         /\ Bounded(x.g, p, ToolServiceDependencies(x, q))
         /\ Bounded(x.g, p, ToolServiceDependents(x, q))
         /\ Bounded(x.g, p, ToolFindPath(x, q))
         /\ Bounded(x.g, p, ToolGetArtifactMetadata(x, q))
         /\ Bounded(x.g, p, ToolGetCapabilities(x, q))
<1> USE DEF PlainNames
<1>1. Bounded(x.g, p, Unavailable)
  <2>1. DOMAIN Unavailable \subseteq PlainNames
    BY DEF Unavailable
  <2> QED
    BY <2>1, PlainAnswers
<1>2. Bounded(x.g, p, ToolGetNodeNeighbors(x, q))
  <2>1. ASSUME NEW a, NEW in, NEW out,
               DOMAIN in \subseteq {"incoming"}, DOMAIN out \subseteq {"outgoing"}
        PROVE  Bounded(x.g, p, With([node_id |-> a], With(in, out)))
    <3>1. DOMAIN With([node_id |-> a], With(in, out))
            = {"node_id"} \cup (DOMAIN in \cup DOMAIN out)
      <4> DEFINE rest == With(in, out)
                 id == [node_id |-> a]
      <4>1. DOMAIN rest = DOMAIN in \cup DOMAIN out
        BY WithFields, Zenon
      <4>2. DOMAIN id = {"node_id"}
        OBVIOUS
      <4> HIDE DEF rest, id
      <4>3. DOMAIN With(id, rest) = DOMAIN id \cup DOMAIN rest
        BY WithFields, Zenon
      <4> QED
        BY <4>1, <4>2, <4>3, Zenon DEF rest, id
    <3>2. DOMAIN With([node_id |-> a], With(in, out)) \subseteq PlainNames
      BY <2>1, <3>1
    <3> HIDE DEF PlainNames
    <3> QED
      BY <3>2, PlainAnswers, Zenon
  <2>2. ASSUME NEW b, NEW rows
        PROVE  DOMAIN (IF b THEN [incoming |-> rows] ELSE <<>>) \subseteq {"incoming"}
    OBVIOUS
  <2>3. ASSUME NEW b, NEW rows
        PROVE  DOMAIN (IF b THEN [outgoing |-> rows] ELSE <<>>) \subseteq {"outgoing"}
    OBVIOUS
  <2> HIDE DEF PlainNames
  <2> QED
    BY <2>1, <2>2, <2>3, CheckedIsBounded, Zenon DEF ToolGetNodeNeighbors
<1>3. Bounded(x.g, p, ToolFindShortestPath(x, q))
  <2>1. ASSUME NEW path PROVE Bounded(x.g, p, [path |-> path, length |-> Len(path) - 1])
    BY PlainAnswers
  <2> HIDE DEF PlainNames
  <2> QED
    BY <1>1, <2>1, CheckedIsBounded, Zenon DEF ToolFindShortestPath
<1>4. Bounded(x.g, p, ToolReadFile(x, q))
  <2>1. ASSUME NEW lines, NEW start, NEW end
        PROVE  Bounded(x.g, p, ReadLineRange(lines, start, end))
    <3>1. DOMAIN ReadLineRange(lines, start, end) = {"bytes", "truncated", "end"}
      BY DEF ReadLineRange
    <3> QED
      BY <3>1, PlainAnswers
  <2>2. ASSUME NEW lines PROVE Bounded(x.g, p, ReadWholeFile(lines))
    BY PlainAnswers DEF ReadWholeFile
  <2>3. Bounded(x.g, p, ReadFailed)
    BY DEF Bounded, Fault, ReadFailed
  <2> HIDE DEF PlainNames
  <2>4. ASSUME NEW path, NEW start, NEW end
        PROVE  Bounded(x.g, p, ReadRepoFile(path, start, end))
    BY <2>1, <2>2, <2>3, Zenon DEF ReadRepoFile
  <2> QED
    BY <2>4, CheckedIsBounded, Zenon DEF ToolReadFile
<1>5. Bounded(x.g, p, ToolGetTopology(x, q))
  <2>1. DOMAIN GetTopology(x.g)
          = {"services", "connections", "service_count", "connection_count"}
    BY DEF GetTopology
  <2>2. Bounded(x.g, p, GetTopology(x.g))
    BY <2>1, PlainAnswers
  <2> HIDE DEF PlainNames
  <2> QED
    BY <2>2, CheckedIsBounded, Zenon DEF ToolGetTopology, TopologyTool
<1>6. /\ Bounded(x.g, p, ToolServiceDependencies(x, q))
      /\ Bounded(x.g, p, ToolServiceDependents(x, q))
  <2>1. ASSUME NEW name PROVE Bounded(x.g, p, ServiceDependencies(x.g, name))
    BY PlainAnswers DEF ServiceDependencies
  <2>2. ASSUME NEW name PROVE Bounded(x.g, p, ServiceDependents(x.g, name))
    BY PlainAnswers DEF ServiceDependents
  <2> HIDE DEF PlainNames
  <2>3. Bounded(x.g, p, ToolServiceDependencies(x, q))
    BY <2>1, CheckedIsBounded, Zenon DEF ToolServiceDependencies, ServiceTool
  <2>4. Bounded(x.g, p, ToolServiceDependents(x, q))
    BY <2>2, CheckedIsBounded, Zenon DEF ToolServiceDependents, ServiceTool
  <2> QED
    BY <2>3, <2>4
<1>7. Bounded(x.g, p, ToolFindPath(x, q))
  <2>1. ASSUME NEW path PROVE Bounded(x.g, p, [path |-> path, length |-> Len(path)])
    BY PlainAnswers
  <2> HIDE DEF PlainNames
  <2> QED
    BY <1>1, <2>1, CheckedIsBounded, Zenon DEF ToolFindPath
<1>8. Bounded(x.g, p, ToolGetArtifactMetadata(x, q))
  <2>1. Bounded(x.g, p, [meta |-> TRUE])
    BY PlainAnswers
  <2> QED
    BY <1>1, <2>1 DEF ToolGetArtifactMetadata
<1>9. Bounded(x.g, p, ToolGetCapabilities(x, q))
  <2>1. Bounded(x.g, p, [matrix |-> AllCapabilities])
    BY PlainAnswers
  <2>2. ASSUME NEW language
        PROVE  Bounded(x.g, p, [language |-> language, capabilities |-> TableFor(language)])
    BY PlainAnswers
  <2> QED
    BY <2>1, <2>2, Zenon DEF ToolGetCapabilities
<1> QED
  BY <1>2, <1>3, <1>4, <1>5, <1>6, <1>7, <1>8, <1>9

LEMMA OtherPlainTools ==
  ASSUME NEW x, NEW p, NEW q
  PROVE  /\ Bounded(x.g, p, ToolServiceDetail(x, q))
         /\ Bounded(x.g, p, ToolGetEvidencePack(x, q))
         /\ Bounded(x.g, p, ToolGenerateFlow(x, q))
<1>1. Bounded(x.g, p, ToolServiceDetail(x, q))
  <2>1. ASSUME NEW name PROVE Bounded(x.g, p, ServiceDetail(x.g, name))
    <3> DEFINE e == ServiceDetail(x.g, name)
    <3>1. DOMAIN e = {"name", "endpoints", "entities", "guards", "databases", "queues"}
      BY DEF ServiceDetail
    <3> HIDE DEF e
    <3>2. /\ DOMAIN e \cap (CappedNames \ PagedFields) = {}
          /\ "rows" \notin DOMAIN e /\ "count" \notin DOMAIN e
      BY <3>1 DEF CappedNames, PagedFields
    <3>3. Bounded(x.g, p, e)
      BY <3>2, PlainIsCapped DEF Bounded
    <3> QED
      BY <3>3 DEF e
  <2> QED
    BY <2>1, CheckedIsBounded, Zenon DEF ToolServiceDetail, ServiceTool
<1>2. Bounded(x.g, p, ToolGetEvidencePack(x, q))
  <2> SUFFICES ASSUME ~ Fault(ToolGetEvidencePack(x, q))
               PROVE  Bounded(x.g, p, ToolGetEvidencePack(x, q))
    BY DEF Bounded
  <2>1. PICK req : ToolGetEvidencePack(x, q) = Assemble(x.g, req)
    BY PackAnswered
  <2> DEFINE Names0 == {"matched", "files", "references", "snippets", "provenance",
                        "notes", "capability"}
  <2>2. ASSUME NEW note PROVE DOMAIN EmptyPack(note) = Names0
    BY DEF EmptyPack
  <2>3. DOMAIN Assemble(x.g, req) = Names0
    <3>1. ASSUME NEW a1, NEW a2, NEW a3, NEW a4, NEW a5, NEW a6, NEW a7
          PROVE  DOMAIN [matched |-> a1, files |-> a2, references |-> a3, snippets |-> a4,
                         provenance |-> a5, notes |-> a6, capability |-> a7] = Names0
      OBVIOUS
    <3> HIDE DEF Names0
    <3> QED
      BY <2>2, <3>1, Zenon DEF Assemble
  <2>4. Names0 \subseteq PlainNames
    BY DEF PlainNames
  <2> HIDE DEF Names0
  <2> QED
    BY <2>1, <2>3, <2>4, PlainAnswers
<1>3. Bounded(x.g, p, ToolGenerateFlow(x, q))
  <2>1. ASSUME NEW d, NEW format PROVE Bounded(x.g, p, Render(d, format))
    <3> DEFINE shown == [error |-> FALSE, nodes |-> AllNodes(d), edges |-> ValidEdges(d)]
               more == IF format \in {"", "json", "yaml", "yml"} THEN [stats |-> d.stats]
                       ELSE <<>>
    <3>1. DOMAIN shown = {"error", "nodes", "edges"} /\ DOMAIN more \subseteq {"stats"}
      <4>1. DOMAIN shown = {"error", "nodes", "edges"}
        OBVIOUS
      <4>2. DOMAIN [stats |-> d.stats] = {"stats"} /\ DOMAIN <<>> = {}
        OBVIOUS
      <4>3. DOMAIN more \subseteq {"stats"}
        BY <4>2
      <4> QED
        BY <4>1, <4>3
    <3>2. Render(d, format) = IF format \notin Formats THEN [error |-> TRUE]
                              ELSE With(shown, more)
      BY DEF Render
    <3> HIDE DEF shown, more
    <3>3. DOMAIN With(shown, more) = DOMAIN shown \cup DOMAIN more
      BY WithFields, Zenon
    <3>4. DOMAIN With(shown, more) \subseteq PlainNames
      BY <3>1, <3>3 DEF PlainNames
    <3>5. DOMAIN [error |-> TRUE] \subseteq PlainNames
      BY DEF PlainNames
    <3> QED
      BY <3>2, <3>4, <3>5, PlainAnswers, Zenon
  <2>2. Bounded(x.g, p, Invalid) /\ Bounded(x.g, p, Unavailable)
    BY DEF Bounded, Fault, Invalid, Unavailable
  <2> QED
    BY <2>1, <2>2, CheckedIsBounded, Zenon DEF ToolGenerateFlow
<1> QED
  BY <1>1, <1>2, <1>3

(* Parameters whose numbers are numbers.                                    *)
Numbers(q) ==
  \A name \in {"limit", "radius", "depth"} : name \in DOMAIN q => q[name] \in Int

LEMMA LimitsInBounds ==
  ASSUME NEW q, Numbers(q), NEW default \in Int
  PROVE  /\ CapResults(OrDefault(Arg(q, "limit", 0), default)) \in 1 .. ResultCap
         /\ CapResults(OrDefaultPositive(Arg(q, "limit", 0), default)) \in 1 .. ResultCap
         /\ CapDepth(OrDefault(Arg(q, "radius", 0), default)) \in 1 .. DepthCap
         /\ CapDepth(OrDefault(Arg(q, "depth", 0), default)) \in 1 .. DepthCap
<1>1. /\ Arg(q, "limit", 0) \in Int /\ Arg(q, "radius", 0) \in Int
      /\ Arg(q, "depth", 0) \in Int
  BY DEF Arg, Numbers
<1>2. \A n \in Int : OrDefault(n, default) \in Int /\ OrDefaultPositive(n, default) \in Int
  BY DEF OrDefault, OrDefaultPositive
<1> QED
  BY <1>1, <1>2, CapsInBounds

(* A list with more fields.                                                 *)
ListsMore(e, field, rows, more) ==
  /\ DOMAIN e = {field, "count"} \cup DOMAIN more
  /\ e[field] = rows
  /\ \A name \in DOMAIN more \ {field, "count"} : e[name] = more[name]

LEMMA ListedMore ==
  ASSUME NEW field, field # "count", NEW rows, NEW more
  PROVE  ListsMore(With(Listed(field, rows), more), field, rows, more)
<1> DEFINE listed == Listed(field, rows)
<1>1. DOMAIN listed = {field, "count"} /\ listed[field] = rows
  BY ListedFields, Zenon
<1> HIDE DEF listed
<1>2. /\ DOMAIN With(listed, more) = DOMAIN listed \cup DOMAIN more
      /\ \A name \in DOMAIN listed : With(listed, more)[name] = listed[name]
      /\ \A name \in DOMAIN more \ DOMAIN listed : With(listed, more)[name] = more[name]
  BY WithFields, Zenon
<1>3. ListsMore(With(listed, more), field, rows, more)
  BY <1>1, <1>2 DEF ListsMore
<1> QED
  BY <1>3 DEF listed

(* Rows up to a limit.                                                      *)
LEMMA RowsUpTo ==
  ASSUME NEW g, SoundGraph(g), NEW S \in SUBSET g.nodes, NEW limit \in Nat
  PROVE  /\ Take(RowsToNodes(ById(S)), limit) \in Seq(RowsIn(g))
         /\ Len(Take(RowsToNodes(ById(S)), limit)) = Min({limit, Cardinality(S)})
         /\ Len(Take(RowsToNodes(ById(S)), limit)) =< limit
BY RowsById, TakeTakes

LEMMA PagedTools ==
  ASSUME NEW x, SoundGraph(x.g), NEW p, NEW q, Numbers(q)
  PROVE  /\ Bounded(x.g, p, ToolSearchGraph(x, q))
         /\ Bounded(x.g, p, ToolFindDeadCode(x, q))
         /\ Bounded(x.g, p, ToolGetEgoGraph(x, q))
<1>1. Bounded(x.g, p, ToolSearchGraph(x, q))
  <2> DEFINE limit == CapResults(OrDefault(Arg(q, "limit", 0), 20))
  <2>1. limit \in Nat /\ limit =< ResultCap
    BY LimitsInBounds, CapsInBounds
  <2>2. ASSUME NEW query PROVE Len(SearchByLabel(x.g, query, limit)) =< ResultCap
    <3> DEFINE S == {n \in x.g.nodes : <<query, n.label>> \in Matches}
               rows == Take(RowsToNodes(ById(S)), limit)
    <3>1. S \in SUBSET x.g.nodes
      OBVIOUS
    <3> HIDE DEF S, limit
    <3>2. rows \in Seq(RowsIn(x.g)) /\ Len(rows) =< limit
      BY <2>1, <3>1, RowsUpTo
    <3>3. Len(rows) \in Nat
      BY <3>2
    <3>4. Len(rows) =< ResultCap
      BY <2>1, <3>2, <3>3, CapsInBounds
    <3> QED
      BY <3>4 DEF SearchByLabel, S
  <2>3. ASSUME NEW query
        PROVE  Bounded(x.g, p, Listed("results", SearchByLabel(x.g, query, limit)))
    <3> HIDE DEF limit
    <3> QED
      BY <2>2, PageIsCapped DEF Bounded
  <2> QED
    BY <2>3, CheckedIsBounded, Zenon DEF ToolSearchGraph
<1>2. Bounded(x.g, p, ToolFindDeadCode(x, q))
  <2> DEFINE cap == CapResults(OrDefaultPositive(Arg(q, "limit", 0), 100))
  <2>1. cap \in Nat /\ cap =< ResultCap /\ ~ cap =< 0
    BY LimitsInBounds, CapsInBounds
  <2> HIDE DEF cap
  <2>2. ASSUME NEW kinds PROVE Len(FindDeadCode(x.g, kinds, cap)) =< ResultCap
    <3> DEFINE wanted == IF kinds = {} THEN DefaultDeadCodeKinds ELSE kinds
               S == {n \in x.g.nodes :
                       /\ n.kind \in wanted \ EntryPointKinds
                       /\ ~ \E e \in x.g.edges : e.kind \in SemanticEdgeKinds /\ e.to = n.id}
               rows == Take(RowsToNodes(ById(S)), cap)
    <3>1. S \in SUBSET x.g.nodes
      OBVIOUS
    <3>2. FindDeadCode(x.g, kinds, cap) = rows
      BY <2>1 DEF FindDeadCode
    <3> HIDE DEF S
    <3>3. rows \in Seq(RowsIn(x.g)) /\ Len(rows) =< cap
      BY <2>1, <3>1, RowsUpTo
    <3>4. Len(rows) \in Nat
      BY <3>3
    <3> QED
      BY <2>1, <3>2, <3>3, <3>4, CapsInBounds
  <2>3. ASSUME NEW kinds
        PROVE  Bounded(x.g, p, Listed("dead_code", FindDeadCode(x.g, kinds, cap)))
    BY <2>2, PageIsCapped DEF Bounded
  <2> QED
    BY <2>3, CheckedIsBounded, Zenon DEF ToolFindDeadCode, cap
<1>3. Bounded(x.g, p, ToolGetEgoGraph(x, q))
  <2> DEFINE depth == CapDepth(OrDefault(Arg(q, "radius", 0), 2))
  <2>1. depth \in 1 .. DepthCap
    BY LimitsInBounds
  <2> HIDE DEF depth
  <2>2. ASSUME NEW rows
        PROVE  Bounded(x.g, p, With(Listed("nodes", rows), [radius |-> depth]))
    <3> DEFINE radius == [radius |-> depth]
               e == With(Listed("nodes", rows), radius)
    <3>1. DOMAIN radius = {"radius"} /\ radius["radius"] = depth
      OBVIOUS
    <3> HIDE DEF radius
    <3>2. DOMAIN e = {"nodes", "count", "radius"} /\ e["radius"] = depth
      <4>1. ListsMore(e, "nodes", rows, radius)
        BY ListedMore
      <4> HIDE DEF e
      <4> QED
        BY <3>1, <4>1 DEF ListsMore
    <3> HIDE DEF e
    <3>3. Capped(x.g, p, e)
      BY <2>1, <3>2 DEF Capped, PagedFields
    <3> QED
      BY <3>3 DEF Bounded, e, radius
  <2> QED
    BY <2>2, CheckedIsBounded, Zenon DEF ToolGetEgoGraph, depth
<1> QED
  BY <1>1, <1>2, <1>3

SameKind(p, q) == Arg(p, "kind", "") = Arg(q, "kind", "")

LEMMA QueryNodesBounded ==
  ASSUME NEW x, SoundGraph(x.g), NEW p, NEW q, Numbers(q), SameKind(p, q)
  PROVE  Bounded(x.g, p, ToolQueryNodes(x, q))
<1> DEFINE limit == CapResults(OrDefault(Arg(q, "limit", 0), 50))
           S == FindByKind(x.g, Arg(q, "kind", ""))
           rows == Take(RowsToNodes(ById(S)), limit)
           more == [limit |-> limit]
           e == With(Listed("nodes", rows), more)
<1>1. limit \in 1 .. ResultCap /\ limit \in Nat
  <2>1. 50 \in Int
    OBVIOUS
  <2>2. limit \in 1 .. ResultCap
    BY <2>1, LimitsInBounds, Zenon
  <2> HIDE DEF limit
  <2> QED
    BY <2>2, CapsInBounds
<1>2. S \in SUBSET x.g.nodes
  BY DEF FindByKind
<1>3. Len(rows) = Min({limit, Cardinality(S)})
  <2> HIDE DEF S, limit
  <2> QED
    BY <1>1, <1>2, RowsUpTo
<1>4. DOMAIN more = {"limit"} /\ more["limit"] = limit
  OBVIOUS
<1>5. ListsMore(e, "nodes", rows, more)
  BY ListedMore
<1>6. ToolQueryNodes(x, q) = Checked(TRUE, "store" \in x.wired, x.fails, e)
  BY DEF ToolQueryNodes
<1> HIDE DEF limit, rows, more, e
<1>7. DOMAIN e = {"nodes", "count", "limit"} /\ e["nodes"] = rows /\ e["limit"] = limit
  BY <1>4, <1>5 DEF ListsMore
<1>8. S = FindByKind(x.g, Arg(p, "kind", ""))
  BY DEF SameKind
<1> HIDE DEF S
<1>9. Capped(x.g, p, e)
  BY <1>1, <1>3, <1>7, <1>8 DEF Capped, PagedFields
<1> QED
  BY <1>6, <1>9, CheckedIsBounded, Zenon DEF Bounded

(* Edges by source, kind and target: each of them once.                     *)
LEMMA EdgesList ==
  ASSUME NEW g, SoundGraph(g), NEW S \in SUBSET g.edges
  PROVE  IsFiniteSet(S) /\ IsListing(ByEdge(S), S)
<1> DEFINE before(d, e) == \/ d.from < e.from
                           \/ d.from = e.from /\ Precedes(d.kind, e.kind)
                           \/ d.from = e.from /\ d.kind = e.kind /\ d.to < e.to
           P == {pair \in S \X S : before(pair[1], pair[2])}
<1>1. S \subseteq [kind : ToSet(Names), from : Ids(g.nodes), to : Ids(g.nodes)]
  BY DEF SoundGraph
<1>2. Ids(g.nodes) \subseteq Nat
  BY DEF SoundGraph, Ids
<1>3. \A e \in S : e.from \in Nat /\ e.to \in Nat /\ e.kind \in ToSet(Names)
  BY <1>1, <1>2
<1>4. \A d, e \in S : <<d, e>> \in P <=> before(d, e)
  OBVIOUS
<1>5. IsFiniteSet(S)
  BY FS_Subset DEF SoundGraph
<1>6. \A d, e \in S : d # e => d.from # e.from \/ d.kind # e.kind \/ d.to # e.to
  BY <1>1
<1>7. IsOrder(S, P)
  <2>1. ASSUME NEW e \in S PROVE ~ before(e, e)
    BY <1>3, NamesOrdered
  <2>2. ASSUME NEW c \in S, NEW d \in S, NEW e \in S, before(c, d), before(d, e)
        PROVE  before(c, e)
    <3>1. CASE c.from < d.from \/ d.from < e.from
      BY <1>3, <2>2, <3>1
    <3>2. CASE ~ (c.from < d.from \/ d.from < e.from)
      <4>1. c.from = d.from /\ d.from = e.from
        BY <1>3, <2>2, <3>2
      <4>2. /\ Precedes(c.kind, d.kind) \/ (c.kind = d.kind /\ c.to < d.to)
            /\ Precedes(d.kind, e.kind) \/ (d.kind = e.kind /\ d.to < e.to)
        BY <2>2, <3>2, <4>1
      <4>3. Precedes(c.kind, e.kind) \/ (c.kind = e.kind /\ c.to < e.to)
        BY <1>3, <4>2, NamesOrdered
      <4> QED
        BY <4>1, <4>3
    <3> QED
      BY <3>1, <3>2
  <2>3. ASSUME NEW d \in S, NEW e \in S, d # e PROVE before(d, e) \/ before(e, d)
    BY <1>3, <1>6, <2>3, NamesOrdered
  <2> HIDE DEF P, before
  <2> QED
    BY <1>4, <2>1, <2>2, <2>3 DEF IsOrder
<1>8. ByEdge(S) = ByRank(S, Below(S, P))
  <2>1. \A e \in S : {d \in S : before(d, e)} = {d \in S : <<d, e>> \in P}
    BY <1>4
  <2>2. [e \in S |-> Cardinality({d \in S : before(d, e)})] = Below(S, P)
    <3> HIDE DEF P, before
    <3> QED
      BY <2>1 DEF Below
  <2> HIDE DEF P
  <2> QED
    BY <2>2 DEF ByEdge, Ordered
<1> HIDE DEF P
<1> QED
  BY <1>5, <1>7, <1>8, OrderLists

LEMMA QueryEdgesBounded ==
  ASSUME NEW x, SoundGraph(x.g), NEW p, NEW q, Numbers(q),
         "kind" \in DOMAIN q => "kind" \in DOMAIN p
  PROVE  Bounded(x.g, p, ToolQueryEdges(x, q))
<1> DEFINE limit == CapResults(OrDefault(Arg(q, "limit", 0), 50))
           kind == Arg(q, "kind", "")
           S == {e \in x.g.edges : kind = "" \/ Tables[e.kind] = kind}
           rows == Take(ByEdge(S), limit)
           more == [limit |-> limit]
           e == With(Listed("edges", rows), more)
<1>1. limit \in 1 .. ResultCap /\ limit \in Nat
  <2>1. 50 \in Int
    OBVIOUS
  <2>2. limit \in 1 .. ResultCap
    BY <2>1, LimitsInBounds, Zenon
  <2> HIDE DEF limit
  <2> QED
    BY <2>2, CapsInBounds
<1>2. S \in SUBSET x.g.edges
  OBVIOUS
<1>3. IsListing(ByEdge(S), S)
  <2> HIDE DEF S
  <2> QED
    BY <1>2, EdgesList
<1>4. Len(rows) = Min({limit, Cardinality(S)}) /\ Len(rows) =< limit
  <2> HIDE DEF S, limit
  <2> QED
    BY <1>1, <1>3, TakeTakes DEF IsListing
<1>5. DOMAIN more = {"limit"} /\ more["limit"] = limit
  OBVIOUS
<1>6. ListsMore(e, "edges", rows, more)
  BY ListedMore
<1>7. ToolQueryEdges(x, q) = Checked(TRUE, "store" \in x.wired, x.fails, e)
  BY DEF ToolQueryEdges
<1>8. "kind" \notin DOMAIN p => S = x.g.edges
  BY DEF Arg
<1> HIDE DEF limit, rows, more, e, S
<1>9. DOMAIN e = {"edges", "count", "limit"} /\ e["edges"] = rows /\ e["limit"] = limit
  BY <1>5, <1>6 DEF ListsMore
<1>10. Capped(x.g, p, e)
  BY <1>1, <1>4, <1>8, <1>9 DEF Capped, PagedFields
<1> QED
  BY <1>7, <1>10, CheckedIsBounded, Zenon DEF Bounded

(* The nodes after each number of hops.                                     *)
IsWalk(g, start, hops, at) ==
  at = [k \in 0 .. hops |-> IF k = 0 THEN {start}
                            ELSE UNION {Successors(g, n) : n \in at[k - 1]}]

LEMMA WalkExists ==
  ASSUME NEW g, NEW start, NEW hops \in Nat
  PROVE  \E at : IsWalk(g, start, hops, at)
<1> DEFINE all == {start} \cup {e.to : e \in g.edges}
           S == SUBSET all
           base == {start}
           m == hops + 1
           step == [p \in S \X (1 .. m) |-> UNION {Successors(g, n) : n \in p[1]}]
<1>1. base \in S /\ m \in Nat
  OBVIOUS
<1>2. step \in [S \X (1 .. m) -> S]
  <2>1. \A n : Successors(g, n) \subseteq all
    BY DEF Successors
  <2> HIDE DEF all
  <2>2. \A p \in S \X (1 .. m) : UNION {Successors(g, n) : n \in p[1]} \in S
    BY <2>1
  <2> QED
    BY <2>2
<1>3. PICK f \in [1 .. m -> S] : IsRecursion(m, base, step, f)
  <2> HIDE DEF m, S, base, step
  <2> QED
    BY <1>1, <1>2, RecursionDefined
<1> DEFINE at == [k \in 0 .. hops |-> f[k + 1]]
<1>4. ASSUME NEW k \in 0 .. hops
      PROVE  at[k] = IF k = 0 THEN {start} ELSE UNION {Successors(g, n) : n \in at[k - 1]}
  <2>1. k + 1 \in 1 .. m /\ (k + 1) - 1 = k
    OBVIOUS
  <2>2. at[k] = IF k + 1 = 1 THEN base ELSE step[<<f[k], k + 1>>]
    BY <1>3, <2>1 DEF IsRecursion
  <2>3. CASE k = 0
    BY <2>2, <2>3
  <2>4. CASE k # 0
    <3>1. k \in 1 .. m /\ k - 1 \in 0 .. hops /\ (k - 1) + 1 = k
      BY <2>4
    <3>2. f[k] \in S /\ at[k - 1] = f[k]
      BY <3>1
    <3>3. <<f[k], k + 1>> \in S \X (1 .. m)
      BY <2>1, <3>2
    <3>4. step[<<f[k], k + 1>>] = UNION {Successors(g, n) : n \in f[k]}
      BY <3>3
    <3> HIDE DEF at, step
    <3> QED
      BY <2>2, <2>4, <3>1, <3>2, <3>4
  <2> QED
    BY <2>3, <2>4
<1>5. at = [k \in 0 .. hops |-> at[k]]
  OBVIOUS
<1> HIDE DEF at
<1>6. IsWalk(g, start, hops, at)
  BY <1>4, <1>5 DEF IsWalk
<1> QED
  BY <1>6

(* It is what Within adds up.                                               *)
LEMMA DownstreamIsWalk ==
  ASSUME NEW g, NEW start, NEW hops \in Nat
  PROVE  \E at : /\ IsWalk(g, start, hops, at)
                 /\ Downstream(g, start, hops) = UNION {at[k] : k \in 1 .. hops}
<1> DEFINE at == CHOOSE f : IsWalk(g, start, hops, f)
<1>1. IsWalk(g, start, hops, at)
  BY WalkExists, Zenon
<1>2. Downstream(g, start, hops) = UNION {at[k] : k \in 1 .. hops}
  BY Zenon DEF Downstream, Within, Steps, IsWalk
<1> HIDE DEF at
<1> QED
  BY <1>1, <1>2

(* Over more hops, no less is reached.                                      *)
LEMMA DownstreamGrows ==
  ASSUME NEW g, NEW start, NEW hops \in Nat, NEW more \in Nat, hops =< more
  PROVE  Downstream(g, start, hops) \subseteq Downstream(g, start, more)
<1>1. PICK a : /\ IsWalk(g, start, hops, a)
               /\ Downstream(g, start, hops) = UNION {a[k] : k \in 1 .. hops}
  BY DownstreamIsWalk
<1>2. PICK b : /\ IsWalk(g, start, more, b)
               /\ Downstream(g, start, more) = UNION {b[k] : k \in 1 .. more}
  BY DownstreamIsWalk
<1> DEFINE Next0(s) == UNION {Successors(g, n) : n \in s}
           T == {k \in 0 .. hops : a[k] = b[k]}
<1>3. /\ \A k \in 0 .. hops : a[k] = IF k = 0 THEN {start} ELSE Next0(a[k - 1])
      /\ \A k \in 0 .. more : b[k] = IF k = 0 THEN {start} ELSE Next0(b[k - 1])
  <2>1. a = [k \in 0 .. hops |-> IF k = 0 THEN {start} ELSE Next0(a[k - 1])]
    BY <1>1 DEF IsWalk
  <2>2. b = [k \in 0 .. more |-> IF k = 0 THEN {start} ELSE Next0(b[k - 1])]
    BY <1>2 DEF IsWalk
  <2> HIDE DEF Next0
  <2> QED
    BY <2>1, <2>2
<1> HIDE DEF Next0
<1>4. 0 \in T
  <2>1. 0 \in 0 .. hops /\ 0 \in 0 .. more
    OBVIOUS
  <2> QED
    BY <1>3, <2>1
<1>5. ASSUME NEW k \in 0 .. hops - 1, k \in T PROVE k + 1 \in T
  <2>1. k + 1 \in 0 .. hops /\ k + 1 \in 0 .. more /\ k + 1 # 0 /\ (k + 1) - 1 = k
    OBVIOUS
  <2>2. a[k + 1] = Next0(a[k]) /\ b[k + 1] = Next0(b[k])
    BY <1>3, <2>1
  <2> QED
    BY <1>5, <2>1, <2>2
<1>6. \A k \in 0 .. hops : a[k] = b[k]
  <2>1. 0 .. hops \subseteq T
    <3> HIDE DEF T
    <3> QED
      BY <1>4, <1>5, Induction
  <2> QED
    BY <2>1
<1>7. \A k \in 1 .. hops : k \in 0 .. hops /\ k \in 1 .. more
  OBVIOUS
<1>8. UNION {a[k] : k \in 1 .. hops} \subseteq UNION {b[k] : k \in 1 .. more}
  BY <1>6, <1>7
<1> QED
  BY <1>1, <1>2, <1>8

(* Neither tool reaches further than the depth allowed.                     *)
LEMMA BlastBounded ==
  ASSUME NEW g, SoundGraph(g), NEW p, NEW id, NEW depth \in 1 .. DepthCap
  PROVE  Bounded(g, p, BlastRadius(g, id, depth))
<1> DEFINE e == BlastRadius(g, id, depth)
           affected == IF id \in Ids(g.nodes) THEN Downstream(g, id, depth) ELSE {}
           S == {n \in g.nodes : n.id \in affected}
<1>1. depth \in Nat /\ ~ depth =< 0 /\ DepthCap \in Nat /\ depth =< DepthCap
  BY CapsInBounds
<1>2. affected \subseteq Downstream(g, id, DepthCap)
  BY <1>1, DownstreamGrows
<1>3. /\ DOMAIN e = {"source", "affected_services", "affected_nodes",
                     "affected_service_count", "affected_node_count"}
      /\ e["source"] = id
      /\ e["affected_nodes"] = RowsToNodes(ById(S))
  <2>1. (IF depth =< 0 THEN 5 ELSE depth) = depth
    BY <1>1
  <2>2. \E nodes, services, k, m :
          /\ e = [source |-> id, affected_services |-> services, affected_nodes |-> nodes,
                  affected_service_count |-> k, affected_node_count |-> m]
          /\ nodes = RowsToNodes(ById(S))
    BY <2>1, Zenon DEF BlastRadius, Downstream
  <2> HIDE DEF e, S
  <2> QED
    BY <2>2
<1> HIDE DEF e
<1>4. S \in SUBSET g.nodes /\ Ids(S) \subseteq affected
  BY DEF Ids
<1> HIDE DEF S, affected
<1>5. Ids(ToSet(e["affected_nodes"])) \subseteq Downstream(g, e["source"], DepthCap)
  BY <1>2, <1>3, <1>4, RowsById
<1>6. Capped(g, p, e)
  BY <1>3, <1>5 DEF Capped, PagedFields
<1> QED
  BY <1>6 DEF Bounded, e

LEMMA ImpactTools ==
  ASSUME NEW x, SoundGraph(x.g), NEW p, NEW q, Numbers(q)
  PROVE  /\ Bounded(x.g, p, ToolTraceImpact(x, q))
         /\ Bounded(x.g, p, ToolBlastRadius(x, q))
<1>1. Bounded(x.g, p, ToolTraceImpact(x, q))
  <2> DEFINE depth == CapDepth(OrDefault(Arg(q, "depth", 0), 3))
  <2>1. 3 \in Int
    OBVIOUS
  <2>2. depth \in 1 .. DepthCap
    BY <2>1, LimitsInBounds, Zenon
  <2>3. Bounded(x.g, p, BlastRadius(x.g, Arg(q, "node_id", 0), depth))
    <3> HIDE DEF depth
    <3> QED
      BY <2>2, BlastBounded, Zenon
  <2> QED
    BY <2>3, CheckedIsBounded, Zenon DEF ToolTraceImpact
<1>2. Bounded(x.g, p, ToolBlastRadius(x, q))
  <2>1. 0 \in Int
    OBVIOUS
  <2>2. CapDepth(0) \in 1 .. DepthCap
    BY <2>1, CapsInBounds, Zenon
  <2>3. Bounded(x.g, p, BlastRadius(x.g, Arg(q, "node_id", 0), CapDepth(0)))
    BY <2>2, BlastBounded, Zenon
  <2> QED
    BY <2>3, CheckedIsBounded, Zenon DEF ToolBlastRadius
<1> QED
  BY <1>1, <1>2

LEMMA CypherBounded ==
  ASSUME NEW x, NEW p, "query" \in DOMAIN p => p.query.rows \in Nat
  PROVE  Bounded(x.g, p, ToolRunCypher(x, p))
<1> DEFINE given == "query" \in DOMAIN p
           rows == IF given THEN p["query"].rows ELSE 0
           n == Min({rows, ResultCap})
           list == [i \in 1 .. n |-> i]
           cut == rows > ResultCap
           more == [truncated |-> cut]
           e == With(Listed("rows", list), more)
<1>1. rows \in Nat /\ ResultCap \in Nat
  BY CapsInBounds
<1>2. n = IF rows =< ResultCap THEN rows ELSE ResultCap
  <2> HIDE DEF rows
  <2> QED
    BY <1>1, MinOfTwo
<1>3. n \in Nat /\ n =< ResultCap /\ (cut <=> rows > n)
  BY <1>1, <1>2
<1>4. Len(list) = n
  BY <1>3
<1>5. DOMAIN more = {"truncated"} /\ more["truncated"] = cut
  OBVIOUS
<1>6. ListsMore(e, "rows", list, more)
  BY ListedMore
<1>7. Bounded(x.g, p, Unavailable)
  BY DEF Bounded, Fault, Unavailable
<1>8. given => rows = p.query.rows
  OBVIOUS
<1> HIDE DEF n, list, cut, more, e
<1>9. given => Bounded(x.g, p, e)
  <2> SUFFICES ASSUME given PROVE Capped(x.g, p, e)
    BY DEF Bounded
  <2>1. DOMAIN e = {"rows", "count", "truncated"} /\ e["rows"] = list
    BY <1>5, <1>6 DEF ListsMore
  <2>2. e["truncated"] = cut
    BY <1>5, <1>6, Zenon DEF ListsMore
  <2>3. e["truncated"] <=> p.query.rows > Len(e["rows"])
    <3>1. cut <=> p.query.rows > n
      BY <1>3, <1>8
    <3>2. Len(e["rows"]) = n
      BY <1>4, <2>1
    <3> HIDE DEF given, rows
    <3> QED
      BY <2>2, <3>1, <3>2, Zenon
  <2>4. Len(e["rows"]) =< ResultCap
    BY <1>3, <1>4, <2>1
  <2> HIDE DEF given, rows
  <2>5. /\ \A field \in PagedFields :
             field \in DOMAIN e /\ "count" \in DOMAIN e => Len(e[field]) =< ResultCap
        /\ "limit" \notin DOMAIN e /\ "radius" \notin DOMAIN e
        /\ "affected_nodes" \notin DOMAIN e /\ "prompt" \notin DOMAIN e
    BY <2>1, <2>4 DEF PagedFields
  <2> QED
    BY <2>3, <2>5, Zenon DEF Capped
<1> QED
  BY <1>7, <1>9, CheckedIsBounded, Zenon DEF ToolRunCypher, given, rows, n, list, cut, more, e

LEMMA RelatedBounded ==
  ASSUME NEW x, SoundGraph(x.g), NEW p, NEW q
  PROVE  Bounded(x.g, p, ToolFindRelatedEndpoints(x, q))
<1> DEFINE g == x.g
           name == Arg(q, "identifier", "")
           targets == {n \in g.nodes : name \in {n.file, n.label, IdName(n.id)}}
           holding == {s \in ServicesOf(g) : \E t \in targets : Holds(g, s, t.id)}
           endpoints == {n \in g.nodes : n.kind \in {"endpoint", "websocket_endpoint"}}
           pairs == {r \in holding \X endpoints : Holds(g, r[1], r[2].id)}
           rows == {[id |-> r[2].id, service |-> r[1].label] : r \in pairs}
           before(a, b) == a.id < b.id \/ (a.id = b.id /\ Precedes(a.service, b.service))
           P == {pair \in rows \X rows : before(pair[1], pair[2])}
           rank == [b \in rows |-> Cardinality({a \in rows : before(a, b)})]
           list == Take(ByRank(rows, rank), CapResults(50))
<1>1. CapResults(50) \in Nat /\ CapResults(50) =< ResultCap /\ ResultCap \in Nat
  BY CapsInBounds
<1>2. holding \subseteq g.nodes /\ endpoints \subseteq g.nodes
  BY DEF ServicesOf
<1>3. \A r \in rows : r.id \in Nat /\ r.service \in ToSet(Names)
  <2>1. \A r \in pairs : r[1] \in g.nodes /\ r[2] \in g.nodes
    BY <1>2
  <2>2. \A n \in g.nodes : n.id \in Nat /\ n.label \in ToSet(Names)
    BY DEF SoundGraph
  <2> HIDE DEF pairs
  <2> QED
    BY <2>1, <2>2
<1>4. \A a, b \in rows : a # b => a.id # b.id \/ a.service # b.service
  <2> HIDE DEF pairs
  <2> QED
    OBVIOUS
<1>5. IsFiniteSet(rows)
  <2>1. IsFiniteSet(holding) /\ IsFiniteSet(endpoints)
    <3> HIDE DEF holding, endpoints
    <3> QED
      BY <1>2, FS_Subset DEF SoundGraph
  <2>2. IsFiniteSet(pairs)
    <3>1. pairs \subseteq holding \X endpoints
      OBVIOUS
    <3> HIDE DEF pairs, holding, endpoints
    <3> QED
      BY <2>1, <3>1, FS_Product, FS_Subset
  <2> HIDE DEF pairs
  <2> DEFINE f == [r \in pairs |-> [id |-> r[2].id, service |-> r[1].label]]
  <2>3. f \in Surjection(pairs, rows)
    BY DEF Surjection
  <2> HIDE DEF rows, f
  <2> QED
    BY <2>2, <2>3, FS_Surjection
<1> HIDE DEF rows
<1>6. \A a, b \in rows : <<a, b>> \in P <=> before(a, b)
  OBVIOUS
<1>7. IsOrder(rows, P)
  <2>1. ASSUME NEW a \in rows PROVE ~ before(a, a)
    BY <1>3, NamesOrdered
  <2>2. ASSUME NEW a \in rows, NEW b \in rows, NEW c \in rows, before(a, b), before(b, c)
        PROVE  before(a, c)
    BY <1>3, <2>2, NamesOrdered
  <2>3. ASSUME NEW a \in rows, NEW b \in rows, a # b PROVE before(a, b) \/ before(b, a)
    BY <1>3, <1>4, <2>3, NamesOrdered
  <2> HIDE DEF P, before
  <2> QED
    BY <1>6, <2>1, <2>2, <2>3 DEF IsOrder
<1>8. rank = Below(rows, P)
  <2>1. \A b \in rows : {a \in rows : before(a, b)} = {a \in rows : <<a, b>> \in P}
    BY <1>6
  <2> HIDE DEF P, before
  <2> QED
    BY <2>1 DEF Below
<1> HIDE DEF P
<1>9. Len(list) =< ResultCap
  <2>1. IsListing(ByRank(rows, rank), rows)
    <3> HIDE DEF rank
    <3> QED
      BY <1>5, <1>7, <1>8, OrderLists
  <2>2. list \in Seq(rows) /\ Len(list) =< CapResults(50)
    <3> HIDE DEF rank
    <3> QED
      BY <1>1, <2>1, TakeTakes DEF IsListing
  <2>3. Len(list) \in Nat
    BY <2>2
  <2> HIDE DEF list
  <2> QED
    BY <1>1, <2>2, <2>3
<1>10. Bounded(g, p, Listed("endpoints", list))
  <2> HIDE DEF list
  <2> QED
    BY <1>9, PageIsCapped DEF Bounded
<1> QED
  BY <1>10, CheckedIsBounded, Zenon DEF ToolFindRelatedEndpoints, Ordered, rows

(* Comments are searched for no language that is inferred from a query.     *)
LEMMA NoLexicalSearch ==
  ASSUME NEW query
  PROVE  Plan("FIND_SYMBOL", InferLanguageFromQuery(query)).route
           \notin {"LEXICAL_FIRST", "MERGED"}
<1> DEFINE language == InferLanguageFromQuery(query)
           level == TableFor(language)["SYMBOL_DEFINITIONS"]
           route == SelectRoute({level})
<1>1. Plan("FIND_SYMBOL", language).route = route
  <2>1. QueryDimensions["FIND_SYMBOL"] = {"SYMBOL_DEFINITIONS"}
        /\ "FIND_SYMBOL" \in DOMAIN QueryDimensions
    BY DEF QueryDimensions
  <2>2. {TableFor(language)[d] : d \in {"SYMBOL_DEFINITIONS"}} = {level}
    OBVIOUS
  <2> HIDE DEF language, level
  <2>3. Plan("FIND_SYMBOL", language) = [route |-> route, note |-> BuildDegradationNote(route)]
    BY <2>1, <2>2 DEF Plan
  <2> HIDE DEF route
  <2> QED
    BY <2>3
<1>2. "SYMBOL_DEFINITIONS" \in Dimensions
  BY DEF Dimensions
<1>3. level \in {"EXACT", "UNSUPPORTED"}
  <2>1. CASE query \in FullyQualified
    <3>1. language = "java" /\ TableFor("java") = Caps("EXACT", [ASYNC_PATTERNS |-> "PARTIAL"])
      <4>1. language = "java"
        BY <2>1 DEF InferLanguageFromQuery
      <4>2. TableFor("java") = Caps("EXACT", [ASYNC_PATTERNS |-> "PARTIAL"])
        BY DEF TableFor, LexicalOnlyLanguages
      <4> QED
        BY <4>1, <4>2
    <3>2. Caps("EXACT", [ASYNC_PATTERNS |-> "PARTIAL"])["SYMBOL_DEFINITIONS"] = "EXACT"
      BY <1>2 DEF Caps, With
    <3> QED
      BY <3>1, <3>2
  <2>2. CASE query \notin FullyQualified
    <3>1. language = "unknown"
      BY <2>2 DEF InferLanguageFromQuery
    <3>2. TableFor("unknown") = Caps("UNSUPPORTED", <<>>)
      BY DEF TableFor, LexicalOnlyLanguages
    <3>3. Caps("UNSUPPORTED", <<>>)["SYMBOL_DEFINITIONS"] = "UNSUPPORTED"
      BY <1>2 DEF Caps, With
    <3> QED
      BY <3>1, <3>2, <3>3
  <2> QED
    BY <2>1, <2>2
<1> HIDE DEF level
<1>4. route \in {"GRAPH_FIRST", "DEGRADED"}
  BY <1>3 DEF SelectRoute
<1> QED
  BY <1>1, <1>4

(* To put the exact matches first loses none and adds none.                 *)
LEMMA ExactFirstKeepsLength ==
  ASSUME NEW R, NEW rows \in Seq(R), NEW query
  PROVE  Len(SortExactFirst(rows, query)) = Len(rows)
<1> DEFINE n == Len(rows)
           I == {i \in DOMAIN rows : <<query, rows[i].label>> \in ExactMatches}
           J == {i \in DOMAIN rows : ~ <<query, rows[i].label>> \in ExactMatches}
           first == Picked(rows, IndicesInOrder(I))
           then == Picked(rows, IndicesInOrder(J))
<1>1. SortExactFirst(rows, query) = first \o then
  BY DEF SortExactFirst, Kept, Ordered, Picked, IndicesInOrder
<1>2. n \in Nat /\ DOMAIN rows = 1 .. n
  OBVIOUS
<1>3. I \in SUBSET DOMAIN rows /\ J \in SUBSET DOMAIN rows
      /\ I \cup J = 1 .. n /\ I \cap J = {}
  BY <1>2
<1> HIDE DEF I, J
<1>4. /\ first \in Seq(R) /\ Len(first) = Cardinality(I) /\ Cardinality(I) \in Nat
      /\ then \in Seq(R) /\ Len(then) = Cardinality(J) /\ Cardinality(J) \in Nat
  BY <1>3, PickedRows
<1>5. Cardinality(I) + Cardinality(J) = n
  <2>1. IsFiniteSet(I) /\ IsFiniteSet(J)
    BY <1>2, <1>3, IndicesList
  <2>2. Cardinality(I \cup J) = Cardinality(I) + Cardinality(J) - Cardinality(I \cap J)
    BY <2>1, FS_Union
  <2>3. Cardinality(I \cap J) = 0
    BY <1>3, FS_EmptySet
  <2>4. Cardinality(1 .. n) = n
    <3>1. 1 \in Int /\ n \in Int
      BY <1>2
    <3>2. Cardinality(1 .. n) = IF 1 > n THEN 0 ELSE n - 1 + 1
      BY <3>1, FS_Interval
    <3> HIDE DEF n
    <3> QED
      BY <1>2, <3>2
  <2>5. Cardinality(I \cup J) = n
    BY <1>3, <2>4
  <2> QED
    BY <1>4, <2>2, <2>3, <2>5
<1> HIDE DEF first, then
<1>6. Len(first \o then) = Len(first) + Len(then)
  BY <1>4
<1> QED
  BY <1>1, <1>4, <1>5, <1>6

LEMMA FindNodeBounded ==
  ASSUME NEW x, SoundGraph(x.g), NEW p, NEW q
  PROVE  Bounded(x.g, p, ToolFindNode(x, q))
<1> DEFINE query == Arg(q, "query", "")
           limit == CapResults(50)
           found == SearchByLabel(x.g, query, limit)
           matches == SortExactFirst(MergeUnique(found, <<>>), query)
<1>1. limit \in Nat /\ limit =< ResultCap /\ ResultCap \in Nat
  BY CapsInBounds
<1>2. found \in Seq(RowsIn(x.g)) /\ Len(found) =< ResultCap
  <2> DEFINE S == {n \in x.g.nodes : <<query, n.label>> \in Matches}
  <2>1. S \in SUBSET x.g.nodes
    OBVIOUS
  <2>2. found = Take(RowsToNodes(ById(S)), limit)
    BY DEF SearchByLabel
  <2> HIDE DEF S, limit, found
  <2>3. found \in Seq(RowsIn(x.g)) /\ Len(found) =< limit
    BY <1>1, <2>1, <2>2, RowsUpTo
  <2>4. Len(found) \in Nat
    BY <2>3
  <2> QED
    BY <1>1, <2>3, <2>4
<1> HIDE DEF found
<1>3. MergeUnique(found, <<>>) = found
  <2> DEFINE empty == <<>>
             I == {i \in DOMAIN empty : empty[i].id \notin Ids(ToSet(found))}
             none == Picked(empty, IndicesInOrder(I))
  <2>1. MergeUnique(found, empty) = found \o none
    BY DEF MergeUnique, Kept, Ordered, Picked, IndicesInOrder
  <2>2. I = {} /\ empty \in Seq(RowsIn(x.g))
    OBVIOUS
  <2>3. I \in SUBSET DOMAIN empty
    OBVIOUS
  <2> HIDE DEF I, empty
  <2>4. none \in Seq(RowsIn(x.g)) /\ Len(none) = 0
    BY <2>2, <2>3, PickedRows, FS_EmptySet
  <2> HIDE DEF none
  <2>5. none = <<>>
    BY <2>4
  <2>6. found \o <<>> = found
    BY <1>2
  <2> QED
    BY <2>1, <2>5, <2>6 DEF empty
<1>4. Len(matches) =< ResultCap
  BY <1>2, <1>3, ExactFirstKeepsLength
<1> HIDE DEF matches
<1>5. ASSUME NEW more, DOMAIN more \subseteq {"note"}
      PROVE  Bounded(x.g, p, With(Listed("matches", matches), more))
  <2> DEFINE e == With(Listed("matches", matches), more)
  <2>1. ListsMore(e, "matches", matches, more)
    BY ListedMore
  <2> HIDE DEF e
  <2>2. DOMAIN e \subseteq {"matches", "count", "note"} /\ e["matches"] = matches
    BY <1>5, <2>1 DEF ListsMore
  <2>3. Capped(x.g, p, e)
    BY <1>4, <2>2 DEF Capped, PagedFields
  <2> QED
    BY <2>3 DEF Bounded, e
<1> DEFINE plan == IF "planner" \in x.wired
                   THEN Plan("FIND_SYMBOL", InferLanguageFromQuery(query))
                   ELSE [route |-> "GRAPH_FIRST", note |-> ""]
           note == IF plan.note = "" THEN <<>> ELSE [note |-> plan.note]
           more == IF plan.route \in {"LEXICAL_FIRST", "MERGED"}
                   THEN SearchLexical(x.g, query, limit) ELSE <<>>
<1>6. more = <<>>
  <2>1. plan.route \notin {"LEXICAL_FIRST", "MERGED"}
    BY NoLexicalSearch
  <2> HIDE DEF plan
  <2> QED
    BY <2>1
<1>7. DOMAIN note \subseteq {"note"}
  <2>1. ASSUME NEW text PROVE DOMAIN [note |-> text] = {"note"} /\ DOMAIN <<>> = {}
    OBVIOUS
  <2> HIDE DEF plan
  <2> QED
    BY <2>1
<1>8. ToolFindNode(x, q)
        = Checked(query # "", "store" \in x.wired, x.fails,
            With(Listed("matches", SortExactFirst(MergeUnique(found, more), query)), note))
  BY Zenon DEF ToolFindNode, found
<1> HIDE DEF more, note, plan, query
<1>9. ToolFindNode(x, q) = Checked(query # "", "store" \in x.wired, x.fails,
                                   With(Listed("matches", matches), note))
  BY <1>6, <1>8 DEF matches
<1> QED
  BY <1>5, <1>7, <1>9, CheckedIsBounded, Zenon

(* What a diff is parsed into: a sequence of files.                         *)
FileDiffs == [path : STRING, added : Nat, removed : Nat, hunks : Seq(Nat)]

LEMMA CountedLine ==
  ASSUME NEW d \in FileDiffs
  PROVE  /\ [d EXCEPT !.added = d.added + 1] \in FileDiffs
         /\ [d EXCEPT !.removed = d.removed + 1] \in FileDiffs
<1>1. d.added + 1 \in Nat /\ d.removed + 1 \in Nat
  BY DEF FileDiffs
<1>2. ASSUME NEW k \in Nat
      PROVE  [d EXCEPT !.added = k] \in FileDiffs /\ [d EXCEPT !.removed = k] \in FileDiffs
  BY DEF FileDiffs
<1> QED
  BY <1>1, <1>2

LEMMA ParseLineKeeps ==
  ASSUME NEW files \in Seq(FileDiffs), NEW line \in DiffLines
  PROVE  ParseLine(files, line) \in Seq(FileDiffs)
<1> DEFINE n == Len(files)
           more(f, start) ==
             LET h == f[n].hunks
             IN [f EXCEPT ![n].hunks = IF h = <<>> THEN start
                                       ELSE [h EXCEPT ![Len(h)] = @ + 1]]
<1>1. line.is \in {"hunk", "add", "remove", "other", "file", "new"}
      /\ (line.is \in {"file", "new"} => line.path \in STRING)
  BY DEF DiffLines
<1>2. n \in Nat /\ DOMAIN files = 1 .. n
  OBVIOUS
<1>3. ASSUME NEW f \in Seq(FileDiffs), Len(f) = n, n > 0, NEW r \in FileDiffs
      PROVE  [f EXCEPT ![n] = r] \in Seq(FileDiffs) /\ Len([f EXCEPT ![n] = r]) = n
             /\ [f EXCEPT ![n] = r][n] = r
  BY <1>2, <1>3
<1>4. ASSUME n > 0, NEW start \in {<<>>, << 1 >>}
      PROVE  /\ more(files, start) \in Seq(FileDiffs)
             /\ Len(more(files, start)) = n
             /\ more(files, start)[n] \in FileDiffs
  <2> DEFINE h == files[n].hunks
             k == IF h = <<>> THEN start ELSE [h EXCEPT ![Len(h)] = h[Len(h)] + 1]
             r == [files[n] EXCEPT !.hunks = k]
  <2>1. files[n] \in FileDiffs /\ h \in Seq(Nat)
    <3>1. n \in 1 .. n
      BY <1>2, <1>4
    <3>2. files[n] \in FileDiffs
      BY <1>2, <3>1
    <3> QED
      BY <3>2 DEF FileDiffs
  <2>2. k \in Seq(Nat)
    <3>1. <<>> \in Seq(Nat) /\ <<1>> \in Seq(Nat)
      OBVIOUS
    <3>2. h # <<>> => Len(h) \in 1 .. Len(h) /\ h[Len(h)] \in Nat
      BY <2>1
    <3> HIDE DEF h
    <3>3. h # <<>> => [h EXCEPT ![Len(h)] = h[Len(h)] + 1] \in Seq(Nat)
      BY <2>1, <3>2
    <3> QED
      BY <1>4, <3>1, <3>3
  <2>3. r \in FileDiffs
    <3> HIDE DEF k
    <3> QED
      BY <2>1, <2>2 DEF FileDiffs
  <2>4. more(files, start) = [files EXCEPT ![n] = r]
    OBVIOUS
  <2> HIDE DEF r, more
  <2> QED
    BY <1>3, <1>4, <2>3, <2>4
<1>5. CASE line.is = "file"
  BY <1>1, <1>5 DEF ParseLine, FileDiffs
<1>6. CASE line.is # "file" /\ n = 0
  BY <1>6 DEF ParseLine
<1>7. CASE line.is = "new" /\ n > 0
  <2> DEFINE r == [files[n] EXCEPT !.path = line.path]
  <2>1. r \in FileDiffs
    <3>1. files[n] \in FileDiffs /\ line.path \in STRING
      BY <1>1, <1>2, <1>7
    <3> QED
      BY <3>1 DEF FileDiffs
  <2>2. ParseLine(files, line) = [files EXCEPT ![n] = r]
    BY <1>7 DEF ParseLine
  <2> HIDE DEF r
  <2> QED
    BY <1>3, <1>7, <2>1, <2>2
<1>8. CASE line.is = "hunk" /\ n > 0
  <2> DEFINE r == [files[n] EXCEPT !.hunks = Append(files[n].hunks, 1)]
  <2>1. files[n] \in FileDiffs
    BY <1>2, <1>8
  <2>2. Append(files[n].hunks, 1) \in Seq(Nat)
    BY <2>1 DEF FileDiffs
  <2>3. r \in FileDiffs
    BY <2>1, <2>2 DEF FileDiffs
  <2>4. ParseLine(files, line) = [files EXCEPT ![n] = r]
    BY <1>8 DEF ParseLine
  <2> HIDE DEF r
  <2> QED
    BY <1>3, <1>8, <2>3, <2>4
<1>9. CASE line.is \in {"add", "remove"} /\ n > 0
  <2> DEFINE f == more(files, <<1>>)
             r == IF line.is = "add" THEN [f[n] EXCEPT !.added = f[n].added + 1]
                  ELSE [f[n] EXCEPT !.removed = f[n].removed + 1]
  <2>1. f \in Seq(FileDiffs) /\ Len(f) = n /\ f[n] \in FileDiffs
    <3>1. <<1>> \in {<<>>, <<1>>}
      OBVIOUS
    <3> HIDE DEF more
    <3> QED
      BY <1>4, <1>9, <3>1
  <2>2. ParseLine(files, line) = [f EXCEPT ![n] = r]
    <3>1. CASE line.is = "add"
      <4>1. ParseLine(files, line) = [f EXCEPT ![n].added = @ + 1]
        BY <1>9, <3>1 DEF ParseLine
      <4> HIDE DEF f
      <4> QED
        BY <3>1, <4>1
    <3>2. CASE line.is = "remove"
      <4>1. ParseLine(files, line) = [f EXCEPT ![n].removed = @ + 1]
        BY <1>9, <3>2 DEF ParseLine
      <4> HIDE DEF f
      <4> QED
        BY <3>2, <4>1
    <3> QED
      BY <1>9, <3>1, <3>2
  <2> HIDE DEF f
  <2>3. r \in FileDiffs
    BY <2>1, CountedLine
  <2> HIDE DEF r
  <2> QED
    BY <1>3, <1>9, <2>1, <2>2, <2>3
<1>10. CASE line.is = "other" /\ n > 0
  <2>1. ParseLine(files, line) = more(files, <<>>)
    BY <1>10 DEF ParseLine
  <2>2. <<>> \in {<<>>, <<1>>}
    OBVIOUS
  <2> HIDE DEF more
  <2> QED
    BY <1>4, <1>10, <2>1, <2>2
<1> QED
  BY <1>1, <1>2, <1>5, <1>6, <1>7, <1>8, <1>9, <1>10

LEMMA ParseDiffGivesFiles ==
  ASSUME NEW raw \in Seq(DiffLines)
  PROVE  ParseDiff(raw) \in Seq(FileDiffs)
<1> DEFINE n == Len(raw)
           base == <<>>
           S == Seq(FileDiffs)
           step == [p \in S \X (1 .. n) |-> ParseLine(p[1], raw[p[2]])]
           Iterates(g) == g = [s \in SUBSET (1 .. n) |->
                                 IF s = {} THEN base
                                 ELSE ParseLine(g[s \ {Max(s)}], raw[Max(s)])]
           iter == CHOOSE g : Iterates(g)
<1>1. n \in Nat /\ DOMAIN raw = 1 .. n /\ \A i \in 1 .. n : raw[i] \in DiffLines
  OBVIOUS
<1>2. base \in S
  OBVIOUS
<1>3. step \in [S \X (1 .. n) -> S]
  <2> SUFFICES ASSUME NEW out \in S, NEW i \in 1 .. n
               PROVE  ParseLine(out, raw[i]) \in S
    OBVIOUS
  <2> QED
    BY <1>1, ParseLineKeeps
<1>4. \A out \in S, i \in 1 .. n : step[<<out, i>>] = ParseLine(out, raw[i])
  OBVIOUS
<1> HIDE DEF step
<1>5. Iterates(iter)
  <2>1. PICK g \in [SUBSET (1 .. n) -> S] : IsFold(n, base, step, g)
    <3> HIDE DEF n, S, base
    <3> QED
      BY <1>1, <1>2, <1>3, FoldDefined
  <2>2. ASSUME NEW s \in SUBSET (1 .. n)
        PROVE  g[s] = IF s = {} THEN base ELSE ParseLine(g[s \ {Max(s)}], raw[Max(s)])
    <3>1. CASE s # {}
      <4>1. Max(s) \in 1 .. n /\ s \ {Max(s)} \in SUBSET (1 .. n)
        BY <1>1, <3>1, MaxOfIndices
      <4> HIDE DEF n, S, base
      <4> QED
        BY <1>4, <2>1, <3>1, <4>1 DEF IsFold
    <3> QED
      BY <2>1, <3>1 DEF IsFold
  <2>3. Iterates(g)
    BY <2>2
  <2> HIDE DEF Iterates
  <2> QED
    BY <2>3
<1>6. ParseDiff(raw) = iter[1 .. n]
  BY <1>1, Zenon DEF ParseDiff, FoldLeft, MapThenFoldSet
<1> HIDE DEF iter, base
<1>7. iter[{}] = base
  BY <1>5
<1>8. \A s \in SUBSET (1 .. n) :
        s # {} /\ iter[s \ {Max(s)}] \in S =>
          iter[s] = step[<<iter[s \ {Max(s)}], Max(s)>>]
  <2> SUFFICES ASSUME NEW s \in SUBSET (1 .. n), s # {}, iter[s \ {Max(s)}] \in S
               PROVE  iter[s] = step[<<iter[s \ {Max(s)}], Max(s)>>]
    OBVIOUS
  <2>1. Max(s) \in 1 .. n
    BY <1>1, MaxOfIndices
  <2>2. iter[s] = ParseLine(iter[s \ {Max(s)}], raw[Max(s)])
    BY <1>5
  <2> HIDE DEF S
  <2> QED
    BY <1>4, <2>1, <2>2
<1>9. FoldsWithin(n, S, base, step, iter)
  BY <1>7, <1>8 DEF FoldsWithin
<1>10. Chained(n, S, base, step, iter[1 .. n])
  <2> HIDE DEF n, S
  <2> QED
    BY <1>1, <1>2, <1>3, <1>9, FoldChain
<1>11. iter[1 .. n] \in S
  <2>1. n \in 0 .. n
    BY <1>1
  <2> HIDE DEF S
  <2> QED
    BY <1>10, <2>1 DEF Chained
<1> QED
  BY <1>6, <1>11

LEMMA ReviewBounded ==
  ASSUME NEW x, NEW p, NEW q
  PROVE  Bounded(x.g, p, ToolReviewChanges(x, q))
<1> DEFINE graphWired == "store" \in x.wired
           base == Arg(q, "base_ref", "")
           head == Arg(q, "head_ref", "")
           focus == Arg(q, "focus_files", {})
           report == Review(graphWired, x.g, base, head, focus, x.model)
<1>1. ASSUME NEW b, NEW h, GitDiff(b, h).ok
      PROVE  GitDiff(b, h).files \in Seq(FileDiffs)
  <2>1. <<b, h>> \in DOMAIN Diffs
    BY <1>1 DEF GitDiff
  <2>2. Diffs[<<b, h>>] \in Seq(DiffLines)
    BY <2>1, ReviewAssumption
  <2>3. ParseDiff(Diffs[<<b, h>>]) \in Seq(FileDiffs)
    BY <2>2, ParseDiffGivesFiles
  <2> QED
    BY <2>1, <2>3 DEF GitDiff
<1>2. ASSUME NEW files \in Seq(FileDiffs), NEW wanted
      PROVE  FilterFocus(files, wanted) \in Seq(FileDiffs)
  <2> DEFINE I == {i \in DOMAIN files : files[i].path \in wanted}
  <2>1. FilterFocus(files, wanted)
          = IF wanted = {} THEN files ELSE Picked(files, IndicesInOrder(I))
    BY DEF FilterFocus, Kept, Ordered, Picked, IndicesInOrder
  <2>2. I \in SUBSET DOMAIN files
    OBVIOUS
  <2> HIDE DEF I
  <2>3. Picked(files, IndicesInOrder(I)) \in Seq(FileDiffs)
    BY <2>2, PickedRows
  <2> QED
    BY <2>1, <2>3
<1>3. ASSUME NEW files \in Seq(FileDiffs), NEW w
      PROVE  Len(BuildPrompt(w, x.g, files)) = Len(files)
  <2> DEFINE row(i) == With(files[i], IF w THEN [evidence |-> EvidenceForFile(x.g, files[i].path)]
                                      ELSE <<>>)
             prompt == [i \in 1 .. Len(files) |-> row(i)]
  <2>1. BuildPrompt(w, x.g, files) = prompt /\ Len(files) \in Nat
    BY DEF BuildPrompt
  <2>2. Len(prompt) = Len(files)
    <3> HIDE DEF row
    <3> QED
      BY <2>1
  <2> QED
    BY <2>1, <2>2
<1>4. ASSUME report.ok PROVE Bounded(x.g, p, report)
  <2> DEFINE b == IF base = "" THEN "HEAD~1" ELSE base
             h == IF head = "" THEN "HEAD" ELSE head
             files == Take(FilterFocus(GitDiff(b, h).files, focus), MaxFiles)
             prompt == BuildPrompt(graphWired, x.g, files)
  <2>1. report = IF ~ GitDiff(b, h).ok THEN [ok |-> FALSE]
                 ELSE ClientReview(prompt, x.model)
    BY DEF Review
  <2>2. GitDiff(b, h).ok
    <3> HIDE DEF report, b, h, prompt
    <3> QED
      BY <1>4, <2>1
  <2>3. report = [ok |-> TRUE, model |-> x.model, prompt |-> prompt]
    <3> HIDE DEF report, b, h, prompt
    <3> QED
      BY <1>4, <2>1, <2>2 DEF ClientReview
  <2>4. Len(prompt) =< MaxFiles
    <3> HIDE DEF b, h
    <3>1. FilterFocus(GitDiff(b, h).files, focus) \in Seq(FileDiffs)
      BY <1>1, <1>2, <2>2
    <3>2. files \in Seq(FileDiffs) /\ Len(files) =< MaxFiles
      BY <3>1, TakeTakes, ReviewAssumption
    <3> HIDE DEF files
    <3> QED
      BY <1>3, <3>2
  <2> HIDE DEF prompt, report
  <2>5. DOMAIN report = {"ok", "model", "prompt"} /\ report["prompt"] = prompt
    BY <2>3
  <2>6. Capped(x.g, p, report)
    BY <2>4, <2>5 DEF Capped, PagedFields
  <2> QED
    BY <2>6 DEF Bounded
<1>5. Bounded(x.g, p, Internal)
  BY DEF Bounded, Fault, Internal
<1>6. ToolReviewChanges(x, q) = Checked(TRUE, "root" \in x.wired, ~ report.ok, report)
  BY DEF ToolReviewChanges
<1> HIDE DEF report
<1>7. ~ report.ok => ToolReviewChanges(x, q) = Internal
  BY <1>6, Zenon DEF Checked
<1> QED
  BY <1>4, <1>6, <1>7, <1>5, CheckedIsBounded, Zenon

(* What a consolidated tool passes on is what it was given.                 *)
LEMMA PassedOn ==
  ASSUME NEW p, Numbers(p), NEW names
  PROVE  /\ Numbers(Only(p, names))
         /\ "kind" \in names => SameKind(p, Only(p, names))
         /\ "kind" \in DOMAIN Only(p, names) => "kind" \in DOMAIN p
<1> DEFINE q == Only(p, names)
<1>1. DOMAIN q = names \cap DOMAIN p /\ \A name \in names \cap DOMAIN p : q[name] = p[name]
  BY DEF Only
<1> HIDE DEF q
<1>2. Numbers(q)
  BY <1>1 DEF Numbers
<1>3. "kind" \in names => SameKind(p, q)
  BY <1>1 DEF SameKind, Arg
<1> QED
  BY <1>1, <1>2, <1>3 DEF q

LEMMA ConsolidatedBounded ==
  ASSUME NEW x, SoundGraph(x.g), NEW p, Numbers(p)
  PROVE  /\ Bounded(x.g, p, ToolFindInGraph(x, p))
         /\ Bounded(x.g, p, ToolInspectNode(x, p))
         /\ Bounded(x.g, p, ToolTraceRelationships(x, p))
         /\ Bounded(x.g, p, ToolAnalyzeImpact(x, p))
         /\ Bounded(x.g, p, ToolTopologyView(x, p))
<1>1. Bounded(x.g, p, Invalid)
  BY DEF Bounded, Fault, Invalid
<1>2. Bounded(x.g, p, ToolFindInGraph(x, p))
  <2> DEFINE paged == Only(p, {"kind", "limit"})
             text == Only(p, {"query", "limit"})
  <2>1. Numbers(paged) /\ SameKind(p, paged) /\ Numbers(text)
        /\ ("kind" \in DOMAIN paged => "kind" \in DOMAIN p)
    BY PassedOn
  <2> HIDE DEF paged, text
  <2>2. /\ Bounded(x.g, p, ToolQueryNodes(x, paged))
        /\ Bounded(x.g, p, ToolQueryEdges(x, paged))
        /\ Bounded(x.g, p, ToolSearchGraph(x, text))
    BY <2>1, QueryNodesBounded, QueryEdgesBounded, PagedTools
  <2>3. \A q : /\ Bounded(x.g, p, ToolFindNode(x, q))
               /\ Bounded(x.g, p, ToolFindComponentByFile(x, q))
               /\ Bounded(x.g, p, ToolFindRelatedEndpoints(x, q))
    BY FindNodeBounded, ListingTools, RelatedBounded
  <2> QED
    BY <1>1, <2>2, <2>3, Zenon DEF ToolFindInGraph, paged, text
<1>3. Bounded(x.g, p, ToolInspectNode(x, p))
  <2> DEFINE ego == Only(p, {"center", "radius"})
  <2>1. Numbers(ego)
    BY PassedOn
  <2> HIDE DEF ego
  <2>2. Bounded(x.g, p, ToolGetEgoGraph(x, ego))
    BY <2>1, PagedTools
  <2>3. \A q : /\ Bounded(x.g, p, ToolGetNodeNeighbors(x, q))
               /\ Bounded(x.g, p, ToolGetEvidencePack(x, q))
               /\ Bounded(x.g, p, ToolReadFile(x, q))
    BY PlainTools, OtherPlainTools
  <2> QED
    BY <1>1, <2>2, <2>3, Zenon DEF ToolInspectNode, ego
<1>4. Bounded(x.g, p, ToolTraceRelationships(x, p))
  <2>1. \A q : /\ Bounded(x.g, p, ToolFindCallers(x, q))
               /\ Bounded(x.g, p, ToolFindConsumers(x, q))
               /\ Bounded(x.g, p, ToolFindProducers(x, q))
               /\ Bounded(x.g, p, ToolFindDependencies(x, q))
               /\ Bounded(x.g, p, ToolFindDependents(x, q))
               /\ Bounded(x.g, p, ToolFindShortestPath(x, q))
    BY ListingTools, PlainTools
  <2> QED
    BY <1>1, <2>1, Zenon DEF ToolTraceRelationships
<1>5. Bounded(x.g, p, ToolAnalyzeImpact(x, p))
  <2> DEFINE deep == Only(p, {"node_id", "depth"})
             paged == Only(p, {"kind", "limit"})
  <2>1. Numbers(deep) /\ Numbers(paged)
    BY PassedOn
  <2> HIDE DEF deep, paged
  <2>2. /\ Bounded(x.g, p, ToolBlastRadius(x, deep))
        /\ Bounded(x.g, p, ToolTraceImpact(x, deep))
        /\ Bounded(x.g, p, ToolFindDeadCode(x, paged))
    BY <2>1, ImpactTools, PagedTools
  <2>3. \A q : /\ Bounded(x.g, p, ToolFindCycles(x, q))
               /\ Bounded(x.g, p, ToolFindCircularDeps(x, q))
               /\ Bounded(x.g, p, ToolFindDeadServices(x, q))
               /\ Bounded(x.g, p, ToolFindBottlenecks(x, q))
    BY ListingTools
  <2> QED
    BY <1>1, <2>2, <2>3, Zenon DEF ToolAnalyzeImpact, deep, paged
<1>6. Bounded(x.g, p, ToolTopologyView(x, p))
  <2>1. \A q : /\ Bounded(x.g, p, ToolGetTopology(x, q))
               /\ Bounded(x.g, p, ToolServiceDetail(x, q))
               /\ Bounded(x.g, p, ToolServiceDependencies(x, q))
               /\ Bounded(x.g, p, ToolServiceDependents(x, q))
               /\ Bounded(x.g, p, ToolGenerateFlow(x, q))
    BY PlainTools, OtherPlainTools
  <2> QED
    BY <1>1, <2>1, Zenon DEF ToolTopologyView
<1> QED
  BY <1>2, <1>3, <1>4, <1>5, <1>6

(* The tools there are.                                                     *)
StatisticsTools == {"get_stats", "get_detailed_stats", "graph_summary"}
NodeTools ==
  {"query_nodes", "query_edges", "get_node_neighbors", "get_ego_graph", "find_cycles",
   "find_shortest_path", "find_consumers", "find_producers", "find_callers",
   "find_dependencies", "find_dependents", "find_dead_code", "find_component_by_file",
   "trace_impact", "find_related_endpoints", "search_graph", "run_cypher", "read_file"}
ServiceTools ==
  {"get_topology", "service_detail", "service_dependencies", "service_dependents",
   "blast_radius", "find_path", "find_bottlenecks", "find_circular_deps",
   "find_dead_services"}
OtherTools ==
  {"find_node", "get_evidence_pack", "get_artifact_metadata", "get_capabilities",
   "generate_flow", "find_in_graph", "inspect_node", "trace_relationships",
   "analyze_impact", "topology_view", "review_changes"}

AllTools == StatisticsTools \cup NodeTools \cup ServiceTools \cup OtherTools

LEMMA ToolsThereAre == ToSet(Offered) \subseteq AllTools
<1> DEFINE groups == GraphTools \o TopologyTools \o IntelligenceTools \o FlowTools
                       \o ConsolidatedTools
<1>1. /\ GraphTools \in Seq(StatisticsTools \cup NodeTools)
      /\ TopologyTools \in Seq(ServiceTools)
      /\ IntelligenceTools \in Seq(OtherTools)
      /\ FlowTools \in Seq(OtherTools)
      /\ ConsolidatedTools \in Seq(StatisticsTools \cup OtherTools)
  <2>1. GraphTools \in Seq(StatisticsTools \cup NodeTools)
    BY DEF GraphTools, StatisticsTools, NodeTools
  <2>2. TopologyTools \in Seq(ServiceTools)
    BY DEF TopologyTools, ServiceTools
  <2>3. IntelligenceTools \in Seq(OtherTools) /\ FlowTools \in Seq(OtherTools)
    BY DEF IntelligenceTools, FlowTools, OtherTools
  <2>4. ConsolidatedTools \in Seq(StatisticsTools \cup OtherTools)
    BY DEF ConsolidatedTools, StatisticsTools, OtherTools
  <2> QED
    BY <2>1, <2>2, <2>3, <2>4
<1>2. groups \in Seq(AllTools)
  <2>1. ASSUME NEW R \in SUBSET AllTools, NEW s \in Seq(R) PROVE s \in Seq(AllTools)
    OBVIOUS
  <2>2. /\ StatisticsTools \cup NodeTools \in SUBSET AllTools
        /\ ServiceTools \in SUBSET AllTools /\ OtherTools \in SUBSET AllTools
        /\ StatisticsTools \cup OtherTools \in SUBSET AllTools
    BY DEF AllTools
  <2>3. /\ GraphTools \in Seq(AllTools) /\ TopologyTools \in Seq(AllTools)
        /\ IntelligenceTools \in Seq(AllTools) /\ FlowTools \in Seq(AllTools)
        /\ ConsolidatedTools \in Seq(AllTools)
    BY <1>1, <2>1, <2>2
  <2> QED
    BY <2>3
<1>3. ToSet(groups) \subseteq AllTools
  <2> HIDE DEF groups
  <2> QED
    BY <1>2 DEF ToSet
<1>4. Offered \in Seq(ToSet(groups))
  BY OfferedAssumption
<1> HIDE DEF groups
<1> QED
  BY <1>3, <1>4 DEF ToSet

(* Whatever tool answers, but for those of statistics.                      *)
LEMMA HandledBounded ==
  ASSUME NEW x, SoundGraph(x.g), NEW p, Numbers(p), NEW tool \in AllTools \ StatisticsTools,
         tool = "run_cypher" /\ "query" \in DOMAIN p => p.query.rows \in Nat
  PROVE  Bounded(x.g, p, Handle(tool, x, p))
<1>0. /\ Bounded(x.g, p, ToolQueryNodes(x, p))
      /\ Bounded(x.g, p, ToolQueryEdges(x, p))
      /\ Bounded(x.g, p, ToolGetNodeNeighbors(x, p))
      /\ Bounded(x.g, p, ToolGetEgoGraph(x, p))
      /\ Bounded(x.g, p, ToolFindCycles(x, p))
      /\ Bounded(x.g, p, ToolFindShortestPath(x, p))
      /\ Bounded(x.g, p, ToolFindConsumers(x, p))
      /\ Bounded(x.g, p, ToolFindProducers(x, p))
      /\ Bounded(x.g, p, ToolFindCallers(x, p))
      /\ Bounded(x.g, p, ToolFindDependencies(x, p))
      /\ Bounded(x.g, p, ToolFindDependents(x, p))
      /\ Bounded(x.g, p, ToolFindDeadCode(x, p))
      /\ Bounded(x.g, p, ToolFindComponentByFile(x, p))
      /\ Bounded(x.g, p, ToolTraceImpact(x, p))
      /\ Bounded(x.g, p, ToolFindRelatedEndpoints(x, p))
      /\ Bounded(x.g, p, ToolSearchGraph(x, p))
      /\ tool = "run_cypher" => Bounded(x.g, p, ToolRunCypher(x, p))
      /\ Bounded(x.g, p, ToolReadFile(x, p))
      /\ Bounded(x.g, p, ToolGetTopology(x, p))
      /\ Bounded(x.g, p, ToolServiceDetail(x, p))
      /\ Bounded(x.g, p, ToolServiceDependencies(x, p))
      /\ Bounded(x.g, p, ToolServiceDependents(x, p))
      /\ Bounded(x.g, p, ToolBlastRadius(x, p))
      /\ Bounded(x.g, p, ToolFindPath(x, p))
      /\ Bounded(x.g, p, ToolFindBottlenecks(x, p))
      /\ Bounded(x.g, p, ToolFindCircularDeps(x, p))
      /\ Bounded(x.g, p, ToolFindDeadServices(x, p))
      /\ Bounded(x.g, p, ToolFindNode(x, p))
      /\ Bounded(x.g, p, ToolGetEvidencePack(x, p))
      /\ Bounded(x.g, p, ToolGetArtifactMetadata(x, p))
      /\ Bounded(x.g, p, ToolGetCapabilities(x, p))
      /\ Bounded(x.g, p, ToolGenerateFlow(x, p))
      /\ Bounded(x.g, p, ToolFindInGraph(x, p))
      /\ Bounded(x.g, p, ToolInspectNode(x, p))
      /\ Bounded(x.g, p, ToolTraceRelationships(x, p))
      /\ Bounded(x.g, p, ToolAnalyzeImpact(x, p))
      /\ Bounded(x.g, p, ToolTopologyView(x, p))
      /\ Bounded(x.g, p, ToolReviewChanges(x, p))
  <2>1. SameKind(p, p)
    BY DEF SameKind
  <2> QED
    BY <2>1, ListingTools, PlainTools, OtherPlainTools, PagedTools, QueryNodesBounded,
       QueryEdgesBounded, ImpactTools, CypherBounded, RelatedBounded, FindNodeBounded,
       ReviewBounded, ConsolidatedBounded
<1>1. CASE tool \in NodeTools
  <2>1. CASE tool = "query_nodes"
    BY <1>0, <2>1 DEF Handle
  <2>2. CASE tool = "query_edges"
    BY <1>0, <2>2 DEF Handle
  <2>3. CASE tool = "get_node_neighbors"
    BY <1>0, <2>3 DEF Handle
  <2>4. CASE tool = "get_ego_graph"
    BY <1>0, <2>4 DEF Handle
  <2>5. CASE tool = "find_cycles"
    BY <1>0, <2>5 DEF Handle
  <2>6. CASE tool = "find_shortest_path"
    BY <1>0, <2>6 DEF Handle
  <2>7. CASE tool = "find_consumers"
    BY <1>0, <2>7 DEF Handle
  <2>8. CASE tool = "find_producers"
    BY <1>0, <2>8 DEF Handle
  <2>9. CASE tool = "find_callers"
    BY <1>0, <2>9 DEF Handle
  <2>10. CASE tool = "find_dependencies"
    BY <1>0, <2>10 DEF Handle
  <2>11. CASE tool = "find_dependents"
    BY <1>0, <2>11 DEF Handle
  <2>12. CASE tool = "find_dead_code"
    BY <1>0, <2>12 DEF Handle
  <2>13. CASE tool = "find_component_by_file"
    BY <1>0, <2>13 DEF Handle
  <2>14. CASE tool = "trace_impact"
    BY <1>0, <2>14 DEF Handle
  <2>15. CASE tool = "find_related_endpoints"
    BY <1>0, <2>15 DEF Handle
  <2>16. CASE tool = "search_graph"
    BY <1>0, <2>16 DEF Handle
  <2>17. CASE tool = "run_cypher"
    BY <1>0, <2>17 DEF Handle
  <2>18. CASE tool = "read_file"
    BY <1>0, <2>18 DEF Handle
  <2> QED
    BY <1>1, <2>1, <2>2, <2>3, <2>4, <2>5, <2>6, <2>7, <2>8, <2>9, <2>10, <2>11,
       <2>12, <2>13, <2>14, <2>15, <2>16, <2>17, <2>18 DEF NodeTools
<1>2. CASE tool \in ServiceTools
  <2>1. CASE tool = "get_topology"
    BY <1>0, <2>1 DEF Handle
  <2>2. CASE tool = "service_detail"
    BY <1>0, <2>2 DEF Handle
  <2>3. CASE tool = "service_dependencies"
    BY <1>0, <2>3 DEF Handle
  <2>4. CASE tool = "service_dependents"
    BY <1>0, <2>4 DEF Handle
  <2>5. CASE tool = "blast_radius"
    BY <1>0, <2>5 DEF Handle
  <2>6. CASE tool = "find_path"
    BY <1>0, <2>6 DEF Handle
  <2>7. CASE tool = "find_bottlenecks"
    BY <1>0, <2>7 DEF Handle
  <2>8. CASE tool = "find_circular_deps"
    BY <1>0, <2>8 DEF Handle
  <2>9. CASE tool = "find_dead_services"
    BY <1>0, <2>9 DEF Handle
  <2> QED
    BY <1>2, <2>1, <2>2, <2>3, <2>4, <2>5, <2>6, <2>7, <2>8, <2>9 DEF ServiceTools
<1>3. CASE tool \in OtherTools
  <2>1. CASE tool = "find_node"
    BY <1>0, <2>1 DEF Handle
  <2>2. CASE tool = "get_evidence_pack"
    BY <1>0, <2>2 DEF Handle
  <2>3. CASE tool = "get_artifact_metadata"
    BY <1>0, <2>3 DEF Handle
  <2>4. CASE tool = "get_capabilities"
    BY <1>0, <2>4 DEF Handle
  <2>5. CASE tool = "generate_flow"
    BY <1>0, <2>5 DEF Handle
  <2>6. CASE tool = "find_in_graph"
    BY <1>0, <2>6 DEF Handle
  <2>7. CASE tool = "inspect_node"
    BY <1>0, <2>7 DEF Handle
  <2>8. CASE tool = "trace_relationships"
    BY <1>0, <2>8 DEF Handle
  <2>9. CASE tool = "analyze_impact"
    BY <1>0, <2>9 DEF Handle
  <2>10. CASE tool = "topology_view"
    BY <1>0, <2>10 DEF Handle
  <2>11. CASE tool = "review_changes"
    BY <1>0, <2>11 DEF Handle
  <2> QED
    BY <1>3, <2>1, <2>2, <2>3, <2>4, <2>5, <2>6, <2>7, <2>8, <2>9, <2>10, <2>11 DEF
       OtherTools
<1> QED
  BY <1>1, <1>2, <1>3 DEF AllTools

LEMMA AnswerCapped ==
  ASSUME NEW g, SoundGraph(g), NEW a, Handled(g, a), a.asked.tool \notin StatsTools
  PROVE  Capped(g, a.asked.p, a.answer)
<1> DEFINE p == a.asked.p
           tool == a.asked.tool
<1>1. PICK fails \in BOOLEAN : \E st, model :
        a.answer = Handle(tool, Work(g, fails, st, model), p)
  BY DEF Handled
<1>2. PICK st, model : a.answer = Handle(tool, Work(g, fails, st, model), p)
  BY <1>1
<1> DEFINE x == Work(g, fails, st, model)
<1>3. x.g = g
  BY DEF Work
<1>4. tool \in AllTools \ StatisticsTools
  BY ToolsThereAre DEF Handled, StatsTools, StatisticsTools
<1>5. a.asked \in ToSet(Requests) /\ ~ Fault(a.answer)
  BY DEF Handled
<1>6. Numbers(p) /\ (tool = "run_cypher" /\ "query" \in DOMAIN p => p.query.rows \in Nat)
  BY <1>5, RequestTypes DEF Numbers
<1> HIDE DEF x, p, tool
<1>7. Bounded(x.g, p, Handle(tool, x, p))
  BY <1>3, <1>4, <1>6, HandledBounded
<1>8. Capped(g, p, a.answer)
  BY <1>2, <1>3, <1>5, <1>7 DEF Bounded, x
<1> QED
  BY <1>8 DEF p

(* AnswersCapped: what is paged has as many rows as there are, up to what   *)
(* was asked for and is allowed, and no depth exceeds the one allowed.      *)
LEMMA CapsFollow == ServerInv => AnswersCapped
<1> SUFFICES ASSUME ServerInv, NEW k \in ByServer, answers[k].asked.tool \notin StatsTools
             PROVE  Capped(Graph, answers[k].asked.p, answers[k].answer)
  BY Zenon DEF AnswersCapped, Capped, PagedFields, Downstream, Has
<1>1. Usable /\ Handled(Graph, answers[k])
  BY DEF ByServer, ServerInv, AnswersSound
<1>2. SoundGraph(Graph)
  BY <1>1 DEF ServerInv, DiskSound, Usable, Graph
<1> QED
  BY <1>1, <1>2, AnswerCapped

(* In every run, the answers given so far are within the caps.               *)
THEOREM AnswersAreCapped == Spec => []AnswersCapped
BY ServerIsSound, CapsFollow, PTL
-----------------------------------------------------------------------------
(* Diagrams.                                                                *)

(* The resource a box of the deploy view stands for.                        *)
ResourceOf(g, box) ==
  LET group == CHOOSE j \in DOMAIN DeployGroups : DeployGroups[j] = box[1]
  IN DeployGroup(g, group)[box[2] + 1].id

(* Every resource is in a group of the deploy view.                         *)
DeployMembers(g, k) ==
  IF k = Len(DeployGroups) THEN Unmarked(Infra(g), DeployWords)
  ELSE Marked(Infra(g), DeployWords, k)

LEMMA ResourcesAreGrouped ==
  ASSUME NEW g, NEW n \in Infra(g)
  PROVE  \E k \in DOMAIN DeployGroups : n \in DeployMembers(g, k)
<1> DEFINE hit(k) == n.marks \cap DeployWords[k] # {}
<1>1. DOMAIN DeployGroups = 1 .. 5 /\ DOMAIN DeployWords = 1 .. 4 /\ Len(DeployGroups) = 5
  BY DEF DeployGroups, DeployWords
<1>2. \A k \in 1 .. 4 : hit(k) /\ (\A j \in 1 .. k - 1 : ~ hit(j)) => n \in DeployMembers(g, k)
  BY <1>1 DEF DeployMembers, Marked
<1>3. (\A k \in 1 .. 4 : ~ hit(k)) => n \in DeployMembers(g, 5)
  BY <1>1 DEF DeployMembers, Unmarked
<1> HIDE DEF hit
<1>4. \/ \A k \in 1 .. 4 : ~ hit(k)
      \/ \E k \in 1 .. 4 : hit(k) /\ (\A j \in 1 .. k - 1 : ~ hit(j))
  <2>1. CASE hit(1)
    BY <2>1
  <2>2. CASE ~ hit(1) /\ hit(2)
    BY <2>2
  <2>3. CASE ~ hit(1) /\ ~ hit(2) /\ hit(3)
    BY <2>3
  <2>4. CASE ~ hit(1) /\ ~ hit(2) /\ ~ hit(3) /\ hit(4)
    BY <2>4
  <2>5. CASE ~ hit(1) /\ ~ hit(2) /\ ~ hit(3) /\ ~ hit(4)
    BY <2>5
  <2> QED
    BY <2>1, <2>2, <2>3, <2>4, <2>5
<1> QED
  BY <1>1, <1>2, <1>3, <1>4

(* The box it resolves to stands for it, shown or not.                      *)
LEMMA ResolvesToResource ==
  ASSUME NEW g, SoundGraph(g), NEW id \in Ids(Infra(g))
  PROVE  ResourceOf(g, ResolveGroupIndex(g, id)) = id
<1> DEFINE in(j) == id \in Ids(ToSet(DeployGroup(g, j)))
           k == CHOOSE j \in DOMAIN DeployGroups : in(j)
           i == CHOOSE j \in DOMAIN DeployGroup(g, k) : DeployGroup(g, k)[j].id = id
           box == ResolveGroupIndex(g, id)
<1>1. PICK n \in Infra(g) : n.id = id
  BY DEF Ids
<1>2. \A j : IsListing(DeployGroup(g, j), DeployMembers(g, j))
  <2>1. \A j : DeployMembers(g, j) \in SUBSET g.nodes
    BY DEF DeployMembers, Marked, Unmarked, Infra, FindByKind
  <2>2. \A j : DeployGroup(g, j) = ById(DeployMembers(g, j))
    BY DEF DeployGroup, DeployMembers
  <2> QED
    BY <2>1, <2>2, ByIdLists
<1>3. \E j \in DOMAIN DeployGroups : in(j)
  BY <1>1, <1>2, ResourcesAreGrouped DEF IsListing, Ids
<1> HIDE DEF in
<1>4. k \in DOMAIN DeployGroups /\ in(k)
  BY <1>3
<1> HIDE DEF k
<1>5. \E j \in DOMAIN DeployGroup(g, k) : DeployGroup(g, k)[j].id = id
  BY <1>4 DEF in, Ids, ToSet
<1>6. i \in DOMAIN DeployGroup(g, k) /\ DeployGroup(g, k)[i].id = id
  BY <1>5
<1>7. i \in Int
  BY <1>2, <1>6 DEF IsListing
<1>8. box = <<DeployGroups[k], i - 1>>
  BY DEF ResolveGroupIndex, in, k
<1> HIDE DEF i, box
<1>9. box[1] = DeployGroups[k] /\ box[2] + 1 = i
  BY <1>7, <1>8
<1>10. \A j \in DOMAIN DeployGroups : DeployGroups[j] = DeployGroups[k] => j = k
  BY <1>4 DEF DeployGroups
<1>11. (CHOOSE j \in DOMAIN DeployGroups : DeployGroups[j] = box[1]) = k
  BY <1>4, <1>9, <1>10
<1> QED
  BY <1>6, <1>9, <1>11 DEF ResourceOf, box

(* A diagram's edges come in a sequence.                                    *)
Sequenced(edges) == \E R : edges \in Seq(R)

LEMMA OneEdge ==
  ASSUME NEW condition, NEW edge
  PROVE  Sequenced(EdgeIf(condition, edge))
<1>1. <<>> \in Seq({edge}) /\ <<edge>> \in Seq({edge})
  OBVIOUS
<1> QED
  BY <1>1, Zenon DEF EdgeIf, Sequenced

LEMMA JoinedEdges ==
  ASSUME NEW s, NEW t, Sequenced(s), Sequenced(t)
  PROVE  Sequenced(s \o t)
<1>1. PICK R : s \in Seq(R)
  BY DEF Sequenced
<1>2. PICK T : t \in Seq(T)
  BY DEF Sequenced
<1>3. s \in Seq(R \cup T) /\ t \in Seq(R \cup T)
  BY <1>1, <1>2
<1>4. s \o t \in Seq(R \cup T)
  BY <1>3
<1> QED
  BY <1>4 DEF Sequenced

LEMMA MadeEdges ==
  ASSUME NEW n \in Nat, NEW edges, edges = [i \in 1 .. n |-> edges[i]]
  PROVE  Sequenced(edges)
<1>1. [i \in 1 .. n |-> edges[i]] \in Seq({edges[i] : i \in 1 .. n})
  OBVIOUS
<1> QED
  BY <1>1, Zenon DEF Sequenced

LEMMA RenderedEdges ==
  ASSUME NEW d, Sequenced(d.edges), NEW format \in Formats
  PROVE  /\ Render(d, format).nodes = AllNodes(d)
         /\ \A e \in ToSet(Render(d, format).edges) :
              /\ e \in ToSet(d.edges)
              /\ {e.from, e.to} \subseteq {n.id : n \in ToSet(AllNodes(d))}
<1> DEFINE shown == {n.id : n \in ToSet(AllNodes(d))}
           I == {i \in DOMAIN d.edges : {d.edges[i].from, d.edges[i].to} \subseteq shown}
           edges == ValidEdges(d)
           base == [error |-> FALSE, nodes |-> AllNodes(d), edges |-> edges]
           numbers == IF format \in {"", "json", "yaml", "yml"} THEN [stats |-> d.stats] ELSE <<>>
<1>1. PICK R : d.edges \in Seq(R)
  BY DEF Sequenced
<1>2. ValidEdges(d) = Picked(d.edges, IndicesInOrder(I))
  BY DEF ValidEdges, Kept, Ordered, Picked, IndicesInOrder
<1>3. ToSet(ValidEdges(d)) = {d.edges[i] : i \in I}
  <2>1. I \in SUBSET DOMAIN d.edges
    OBVIOUS
  <2> HIDE DEF I
  <2> QED
    BY <1>1, <1>2, <2>1, PickedRows
<1>4. \A e \in ToSet(ValidEdges(d)) : e \in ToSet(d.edges) /\ {e.from, e.to} \subseteq shown
  BY <1>3 DEF ToSet
<1>5. Render(d, format) = With(base, numbers)
  BY Zenon DEF Render
<1> HIDE DEF edges, numbers
<1>6. DOMAIN base = {"error", "nodes", "edges"} /\ base["nodes"] = AllNodes(d) /\ base["edges"] = edges
  OBVIOUS
<1> HIDE DEF base
<1>7. Render(d, format)["nodes"] = AllNodes(d) /\ Render(d, format)["edges"] = edges
  <2>1. "nodes" \in DOMAIN base /\ "edges" \in DOMAIN base
    BY <1>6
  <2>2. \A field \in DOMAIN base : With(base, numbers)[field] = base[field]
    BY WithFields, Zenon
  <2>3. With(base, numbers)["nodes"] = base["nodes"] /\ With(base, numbers)["edges"] = base["edges"]
    BY <2>1, <2>2
  <2> QED
    BY <1>5, <1>6, <2>3
<1> QED
  BY <1>4, <1>7 DEF edges

(* The views whose edges are there or not.                                  *)
LEMMA EdgesOfDiagram ==
  ASSUME NEW view, NEW groups, NEW edges, NEW numbers, Sequenced(edges)
  PROVE  Sequenced(Diagram(view, groups, edges, numbers).edges)
<1>1. Diagram(view, groups, edges, numbers).edges = edges
  BY DEF Diagram
<1> QED
  BY <1>1

LEMMA OverviewSequenced ==
  ASSUME NEW g
  PROVE  Sequenced(BuildOverview(g).edges)
<1>1. ASSUME NEW jobs, NEW endpoints, NEW entities, NEW topics, NEW guards, NEW ci,
             NEW infra, NEW app
      PROVE  Sequenced(OverviewEdges(jobs, endpoints, entities, topics, guards, ci, infra, app))
  <2> DEFINE source == IF jobs = {} THEN <<"ci_pipelines", "">> ELSE <<"ci_jobs", "">>
             s1 == EdgeIf(jobs # {}, Edge(<<"ci_pipelines", "">>, <<"ci_jobs", "">>, "", "solid"))
             s2 == EdgeIf(endpoints # {} /\ entities # {},
                     Edge(<<"app_endpoints", "">>, <<"app_entities", "">>, "queries", "solid"))
             s3 == EdgeIf(endpoints # {} /\ topics # {},
                     Edge(<<"app_endpoints", "">>, <<"app_messaging", "">>, "", "dotted"))
             s4 == EdgeIf(guards # {} /\ endpoints # {},
                     Edge(<<"sec_guards", "">>, <<"app_endpoints", "">>, "protects", "thick"))
             s5 == EdgeIf(ci # <<>> /\ infra # <<>>,
                     Edge(source, Head(infra).id, "deploys", "solid"))
             s6 == EdgeIf(infra # <<>> /\ app # <<>>,
                     Edge(Head(infra).id, Head(app).id, "hosts", "solid"))
  <2>1. /\ Sequenced(s1) /\ Sequenced(s2) /\ Sequenced(s3)
        /\ Sequenced(s4) /\ Sequenced(s5) /\ Sequenced(s6)
    BY OneEdge, Zenon
  <2>2. OverviewEdges(jobs, endpoints, entities, topics, guards, ci, infra, app)
          = s1 \o s2 \o s3 \o s4 \o s5 \o s6
    BY Zenon DEF OverviewEdges
  <2> HIDE DEF s1, s2, s3, s4, s5, s6
  <2>3. Sequenced(s1 \o s2 \o s3)
    BY <2>1, JoinedEdges
  <2>4. Sequenced(s1 \o s2 \o s3 \o s4 \o s5)
    BY <2>1, <2>3, JoinedEdges
  <2>5. Sequenced(s1 \o s2 \o s3 \o s4 \o s5 \o s6)
    BY <2>1, <2>4, JoinedEdges
  <2> QED
    BY <2>2, <2>5
<1> QED
  BY <1>1 DEF BuildOverview, Diagram

LEMMA RuntimeSequenced ==
  ASSUME NEW g
  PROVE  Sequenced(BuildRuntimeView(g).edges)
BY OneEdge, JoinedEdges, EdgesOfDiagram, SMTT(30) DEF BuildRuntimeView

(* The other views make an edge of each box, or of each edge of the graph.  *)
LEMMA AuthSequenced ==
  ASSUME NEW g, SoundGraph(g)
  PROVE  Sequenced(BuildAuthView(g).edges)
<1> DEFINE guards == FindByKind(g, "guard")
           middleware == FindByKind(g, "middleware")
           endpoints == FindByKind(g, "endpoint")
           protected == {n \in endpoints : \E e \in g.edges : e.kind = "protects" /\ e.to = n.id}
           authType(n) == Prop(n, "auth_type", "unknown")
           names == {authType(n) : n \in guards}
           types == ByName(names)
           box(i) == FlowNode("auth", types[i],
                              Cardinality({n \in guards : authType(n) = types[i]}))
           first == [i \in DOMAIN types |-> box(i)]
           last == IF middleware = {} THEN <<>>
                   ELSE <<FlowNode("auth", "middleware", Cardinality(middleware))>>
           boxes == first \o last
           edges == IF protected = {} THEN <<>>
                    ELSE [i \in DOMAIN boxes |->
                            Edge(boxes[i].id, <<"ep_protected", "">>, "protects", "thick")]
<1>1. Cardinality(names) \in Nat
  <2>1. IsFiniteSet(guards)
    BY FS_Subset DEF SoundGraph, FindByKind
  <2> DEFINE image == [n \in guards |-> authType(n)]
  <2>2. image \in Surjection(guards, names)
    BY DEF Surjection
  <2> HIDE DEF guards, names, image
  <2> QED
    BY <2>1, <2>2, FS_Surjection, FS_CardinalityType
<1>2. DOMAIN types = 1 .. Cardinality(names)
  <2> HIDE DEF names
  <2> QED
    BY DEF ByName, Ordered, ByRank
<1>3. \E n \in Nat : DOMAIN boxes = 1 .. n
  <2> HIDE DEF names, types
  <2>1. first = [i \in 1 .. Cardinality(names) |-> first[i]]
    BY <1>2
  <2>2. Sequenced(last)
    <3> DEFINE one == FlowNode("auth", "middleware", Cardinality(middleware))
    <3>1. last = <<>> \/ last = <<one>>
      OBVIOUS
    <3> HIDE DEF one, last
    <3>2. last \in Seq({one})
      <4>1. <<>> \in Seq({one}) /\ <<one>> \in Seq({one})
        OBVIOUS
      <4> QED
        BY <3>1, <4>1, Zenon
    <3> QED
      BY <3>2 DEF Sequenced
  <2> HIDE DEF first, last
  <2>3. Sequenced(boxes)
    BY <1>1, <2>1, <2>2, MadeEdges, JoinedEdges
  <2> HIDE DEF boxes
  <2>4. PICK R : boxes \in Seq(R)
    BY <2>3 DEF Sequenced
  <2> QED
    BY <2>4
<1>4. Sequenced(edges)
  <2> HIDE DEF boxes, protected
  <2>1. <<>> \in Seq({1})
    OBVIOUS
  <2>2. CASE protected = {}
    BY <2>1, <2>2 DEF Sequenced
  <2>3. CASE protected # {}
    <3>1. PICK n \in Nat : DOMAIN boxes = 1 .. n
      BY <1>3
    <3>2. edges = [i \in 1 .. n |-> Edge(boxes[i].id, <<"ep_protected", "">>, "protects", "thick")]
      BY <2>3, <3>1
    <3>3. edges = [i \in 1 .. n |-> edges[i]]
      BY <3>2
    <3> HIDE DEF edges
    <3> QED
      BY <3>3, MadeEdges
  <2> QED
    BY <2>2, <2>3
<1>5. BuildAuthView(g).edges = edges
  BY DEF BuildAuthView, Diagram
<1> QED
  BY <1>4, <1>5

LEMMA CISequenced ==
  ASSUME NEW g, SoundGraph(g)
  PROVE  Sequenced(BuildCIView(g).edges)
<1> DEFINE workflows == ById(CI(g, "module"))
           triggers == Take(ById(CI(g, "config_key")), MaxTriggers)
           box(n) == <<"job", n.slug>>
           needing == {e \in g.edges :
             /\ e.kind = "depends_on"
             /\ IsCINode(Node(g, e.from)) /\ IsCINode(Node(g, e.to))}
           needs == ByEdge(needing)
           first == [k \in DOMAIN needs |->
             Edge(box(Node(g, needs[k].from)), box(Node(g, needs[k].to)), "needs", "solid")]
           second == [k \in DOMAIN workflows |->
             Edge(<<"trigger", 0>>, <<"wf", workflows[k].slug>>, "", "dotted")]
           last == IF triggers = <<>> THEN <<>> ELSE second
<1>1. PICK n \in Nat : DOMAIN needs = 1 .. n
  <2>1. IsListing(needs, needing)
    BY EdgesList
  <2> HIDE DEF needs, needing
  <2> QED
    BY <2>1 DEF IsListing
<1>2. PICK m \in Nat : DOMAIN workflows = 1 .. m
  <2>1. CI(g, "module") \in SUBSET g.nodes
    BY DEF CI, FindByKind
  <2>2. IsListing(workflows, CI(g, "module"))
    BY <2>1, ByIdLists
  <2> HIDE DEF workflows
  <2> QED
    BY <2>2 DEF IsListing
<1> HIDE DEF needs, workflows, triggers
<1>3. Sequenced(first)
  <2>1. first = [i \in 1 .. n |-> first[i]]
    BY <1>1
  <2> HIDE DEF first
  <2> QED
    BY <2>1, MadeEdges
<1>4. Sequenced(last)
  <2>1. second = [i \in 1 .. m |-> second[i]]
    BY <1>2
  <2> HIDE DEF second
  <2>2. Sequenced(second)
    BY <2>1, MadeEdges
  <2>3. Sequenced(<<>>)
    <3>1. <<>> \in Seq({1})
      OBVIOUS
    <3> QED
      BY <3>1 DEF Sequenced
  <2> QED
    BY <2>2, <2>3
<1>5. Sequenced(first \o last)
  <2> HIDE DEF first, last
  <2> QED
    BY <1>3, <1>4, JoinedEdges
<1>6. BuildCIView(g).edges = first \o last
  BY DEF BuildCIView, Diagram, needs, workflows, triggers
<1> QED
  BY <1>5, <1>6

LEMMA DeployEdges ==
  ASSUME NEW g, SoundGraph(g)
  PROVE  /\ Sequenced(BuildDeployView(g).edges)
         /\ \A edge \in ToSet(BuildDeployView(g).edges) :
              \E e \in g.edges : /\ e.from = ResourceOf(g, edge.from)
                                 /\ e.to = ResourceOf(g, edge.to)
<1> DEFINE S == {e \in g.edges : /\ e.kind \in {"connects_to", "depends_on"}
                                 /\ {e.from, e.to} \subseteq Ids(Infra(g))}
           rows == ByEdge(S)
           edges == [i \in DOMAIN rows |-> Edge(ResolveGroupIndex(g, rows[i].from),
                                                ResolveGroupIndex(g, rows[i].to), "", "solid")]
<1>1. IsListing(rows, S)
  <2>1. S \in SUBSET g.edges
    OBVIOUS
  <2> HIDE DEF S
  <2> QED
    BY <2>1, EdgesList
<1> HIDE DEF rows
<1>2. PICK n \in Nat : DOMAIN rows = 1 .. n
  <2> HIDE DEF S
  <2> QED
    BY <1>1 DEF IsListing
<1>3. BuildDeployView(g).edges = edges
  BY DEF BuildDeployView, Diagram, rows
<1>4. Sequenced(edges)
  <2>1. edges = [i \in 1 .. n |-> edges[i]]
    BY <1>2
  <2> HIDE DEF edges
  <2> QED
    BY <2>1, MadeEdges
<1>5. ASSUME NEW i \in DOMAIN rows
      PROVE  \E e \in g.edges : /\ e.from = ResourceOf(g, edges[i].from)
                                /\ e.to = ResourceOf(g, edges[i].to)
  <2>1. rows[i] \in S
    <3> HIDE DEF S
    <3> QED
      BY <1>1 DEF IsListing
  <2>2. /\ rows[i] \in g.edges
        /\ rows[i].from \in Ids(Infra(g)) /\ rows[i].to \in Ids(Infra(g))
    BY <2>1
  <2>3. /\ edges[i].from = ResolveGroupIndex(g, rows[i].from)
        /\ edges[i].to = ResolveGroupIndex(g, rows[i].to)
    BY DEF Edge
  <2> HIDE DEF edges
  <2> QED
    BY <2>2, <2>3, ResolvesToResource
<1>6. DOMAIN edges = DOMAIN rows
  OBVIOUS
<1> HIDE DEF edges
<1> QED
  BY <1>3, <1>4, <1>5, <1>6 DEF ToSet

LEMMA ViewsSequenced ==
  ASSUME NEW g, SoundGraph(g), NEW view \in Views
  PROVE  Sequenced(Generate(g, view).edges)
<1>1. CASE view = "overview"
  BY <1>1, OverviewSequenced DEF Generate
<1>2. CASE view = "ci"
  BY <1>2, CISequenced DEF Generate
<1>3. CASE view = "deploy"
  BY <1>3, DeployEdges DEF Generate
<1>4. CASE view = "runtime"
  BY <1>4, RuntimeSequenced DEF Generate
<1>5. CASE view = "auth"
  BY <1>5, AuthSequenced DEF Generate
<1> QED
  BY <1>1, <1>2, <1>3, <1>4, <1>5 DEF Views

(* What DiagramTruthful says of a drawing, where a view was asked for.       *)
DrawnTruthfully(g, asked, diagram) ==
  LET boxes == {n.id : n \in ToSet(diagram.nodes)}
  IN \A edge \in ToSet(diagram.edges) :
       /\ {edge.from, edge.to} \subseteq boxes
       /\ asked = "deploy" =>
            \E e \in g.edges : /\ e.from = ResourceOf(g, edge.from)
                               /\ e.to = ResourceOf(g, edge.to)

LEMMA RenderedTruthfully ==
  ASSUME NEW g, SoundGraph(g), NEW view \in Views, NEW format \in Formats,
         NEW asked, asked = "deploy" => view = "deploy"
  PROVE  DrawnTruthfully(g, asked, Render(Generate(g, view), format))
<1> DEFINE d == Generate(g, view)
<1>1. Sequenced(d.edges)
  BY ViewsSequenced
<1>2. view = "deploy" => d = BuildDeployView(g)
  BY DEF Generate
<1> HIDE DEF d
<1>3. /\ Render(d, format).nodes = AllNodes(d)
      /\ \A e \in ToSet(Render(d, format).edges) :
           /\ e \in ToSet(d.edges)
           /\ {e.from, e.to} \subseteq {n.id : n \in ToSet(AllNodes(d))}
  BY <1>1, RenderedEdges
<1>4. DrawnTruthfully(g, asked, Render(d, format))
  BY <1>2, <1>3, DeployEdges DEF DrawnTruthfully
<1> QED
  BY <1>4 DEF d

(* What the flow tool answers that is no error.                             *)
LEMMA FlowAnswered ==
  ASSUME NEW x, SoundGraph(x.g), NEW q, ~ Fault(ToolGenerateFlow(x, q))
  PROVE  DrawnTruthfully(x.g, Arg(q, "view", ""), ToolGenerateFlow(x, q))
<1> DEFINE view == IF Arg(q, "view", "") = "" THEN "overview" ELSE q["view"]
           format == IF Arg(q, "format", "") = "" THEN "json" ELSE q["format"]
           rendered == Render(Generate(x.g, view), format)
           then == IF rendered.error THEN Invalid ELSE rendered
<1>1. Fault(Unavailable) /\ Fault(Invalid) /\ Fault(Internal)
  BY DEF Fault, Unavailable, Invalid, Internal
<1>2. ToolGenerateFlow(x, q)
        = CASE view \notin Views -> Invalid
            [] view \in Views /\ "flow" \notin x.wired -> Unavailable
            [] OTHER -> Checked(TRUE, TRUE, x.fails, then)
  BY Zenon DEF ToolGenerateFlow
<1>3. Arg(q, "view", "") = "deploy" => view = "deploy"
  BY DEF Arg
<1> HIDE DEF view, format, rendered, then
<1>4. view \in Views /\ ToolGenerateFlow(x, q) = Checked(TRUE, TRUE, x.fails, then)
  BY <1>1, <1>2
<1>5. ToolGenerateFlow(x, q) = then
  BY <1>1, <1>4, CheckedAnswers, Zenon
<1>6. ~ rendered.error /\ ToolGenerateFlow(x, q) = rendered
  BY <1>1, <1>5 DEF then
<1>7. format \in Formats
  BY <1>6 DEF rendered, Render
<1>8. DrawnTruthfully(x.g, Arg(q, "view", ""), rendered)
  BY <1>3, <1>4, <1>7, RenderedTruthfully DEF rendered
<1> QED
  BY <1>6, <1>8

LEMMA FlowServed ==
  ASSUME NEW g, SoundGraph(g), NEW a, Handled(g, a),
         \/ a.asked.tool = "generate_flow"
         \/ a.asked.tool = "topology_view" /\ Mode(a.asked.p) = "flow"
  PROVE  DrawnTruthfully(g, Arg(a.asked.p, "view", ""), a.answer)
<1> DEFINE p == a.asked.p
           q == IF a.asked.tool = "generate_flow" THEN p ELSE Only(p, {"view", "format"})
<1>1. PICK fails \in BOOLEAN : \E st, model :
        a.answer = Handle(a.asked.tool, Work(g, fails, st, model), p)
  BY DEF Handled
<1>2. PICK st, model : a.answer = Handle(a.asked.tool, Work(g, fails, st, model), p)
  BY <1>1
<1> DEFINE x == Work(g, fails, st, model)
<1>3. x.g = g
  BY DEF Work
<1> HIDE DEF x
<1>4. a.answer = ToolGenerateFlow(x, q)
  <2>1. CASE a.asked.tool = "generate_flow"
    BY <1>2, <2>1 DEF Handle, x
  <2>2. CASE a.asked.tool = "topology_view" /\ Mode(p) = "flow"
    <3>1. a.answer = ToolTopologyView(x, p)
      BY <1>2, <2>2 DEF Handle, x
    <3>2. ToolTopologyView(x, p) = ToolGenerateFlow(x, Only(p, {"view", "format"}))
      BY <2>2 DEF ToolTopologyView
    <3> QED
      BY <2>2, <3>1, <3>2
  <2> QED
    BY <2>1, <2>2
<1>5. Arg(q, "view", "") = Arg(p, "view", "")
  <2> HIDE DEF p
  <2> QED
    BY DEF Arg, Only
<1> HIDE DEF q
<1> QED
  BY <1>3, <1>4, <1>5, FlowAnswered DEF Handled

(* DiagramTruthful: a diagram's edges join boxes that are shown, and in the *)
(* deploy view only boxes of resources the graph connects.                  *)
LEMMA DiagramsFollow == ServerInv => DiagramTruthful
<1> SUFFICES ASSUME ServerInv, NEW k \in Diagrams
             PROVE  DrawnTruthfully(Graph, ViewAsked(k), answers[k].answer)
  BY Zenon DEF DiagramTruthful, DrawnTruthfully, ResourceOf
<1>1. CASE k \in Served("generate_flow", "topology_view", "flow")
  <2>1. Usable /\ Handled(Graph, answers[k]) /\ answers[k].by = "mcp"
    BY <1>1 DEF Served, ByServer, ServerInv, AnswersSound
  <2>2. SoundGraph(Graph)
    BY <2>1 DEF ServerInv, DiskSound, Usable, Graph
  <2>3. ViewAsked(k) = Arg(answers[k].asked.p, "view", "")
    BY <2>1 DEF ViewAsked
  <2> QED
    BY <1>1, <2>1, <2>2, <2>3, FlowServed DEF Served
<1>2. CASE k \in DOMAIN answers /\ answers[k].by = "cli" /\ answers[k].asked.do = "flow"
  <2>1. Usable /\ Drawn(Graph, answers[k])
    BY <1>2 DEF ServerInv, AnswersSound
  <2>2. SoundGraph(Graph)
    BY <2>1 DEF ServerInv, DiskSound, Usable, Graph
  <2>3. ViewAsked(k) = answers[k].asked.view
    BY <1>2 DEF ViewAsked
  <2> QED
    BY <2>1, <2>2, <2>3, RenderedTruthfully DEF Drawn
<1> QED
  BY <1>1, <1>2 DEF Diagrams

(* In every run, what was drawn is true of the graph and of itself.          *)
THEOREM DiagramsAreTruthful == Spec => []DiagramTruthful
BY ServerIsSound, DiagramsFollow, PTL
-----------------------------------------------------------------------------
(* The service tools.                                                       *)

LEMMA FaultsAre == Fault(Invalid) /\ Fault(Internal) /\ Fault(Unavailable)
BY DEF Fault, Invalid, Internal, Unavailable

(* What they answer that is no error.                                       *)
LEMMA ServiceToolAnswers ==
  ASSUME NEW x, NEW q
  PROVE  /\ ~ Fault(ToolGetTopology(x, q)) => ToolGetTopology(x, q) = GetTopology(x.g)
         /\ ~ Fault(ToolServiceDependencies(x, q)) =>
              \E name : ToolServiceDependencies(x, q) = ServiceDependencies(x.g, name)
         /\ ~ Fault(ToolServiceDependents(x, q)) =>
              \E name : ToolServiceDependents(x, q) = ServiceDependents(x.g, name)
         /\ ~ Fault(ToolFindBottlenecks(x, q)) =>
              ToolFindBottlenecks(x, q) = Listed("bottlenecks", FindBottlenecks(x.g))
         /\ ~ Fault(ToolFindCircularDeps(x, q)) =>
              ToolFindCircularDeps(x, q) = Listed("cycles", FindCircular(x.g))
         /\ ~ Fault(ToolFindDeadServices(x, q)) =>
              ToolFindDeadServices(x, q) = Listed("dead_services", FindDeadServices(x.g))
<1>1. ~ Fault(ToolGetTopology(x, q)) => ToolGetTopology(x, q) = GetTopology(x.g)
  BY FaultsAre, Zenon DEF Checked, ToolGetTopology, TopologyTool
<1>2. ~ Fault(ToolServiceDependencies(x, q)) =>
        \E name : ToolServiceDependencies(x, q) = ServiceDependencies(x.g, name)
  BY FaultsAre, Zenon DEF Checked, ToolServiceDependencies, ServiceTool
<1>3. ~ Fault(ToolServiceDependents(x, q)) =>
        \E name : ToolServiceDependents(x, q) = ServiceDependents(x.g, name)
  BY FaultsAre, Zenon DEF Checked, ToolServiceDependents, ServiceTool
<1>4. ~ Fault(ToolFindBottlenecks(x, q)) =>
        ToolFindBottlenecks(x, q) = Listed("bottlenecks", FindBottlenecks(x.g))
  BY FaultsAre, Zenon DEF Checked, ToolFindBottlenecks, TopologyTool
<1>5. ~ Fault(ToolFindCircularDeps(x, q)) =>
        ToolFindCircularDeps(x, q) = Listed("cycles", FindCircular(x.g))
  BY FaultsAre, Zenon DEF Checked, ToolFindCircularDeps, TopologyTool
<1>6. ~ Fault(ToolFindDeadServices(x, q)) =>
        ToolFindDeadServices(x, q) = Listed("dead_services", FindDeadServices(x.g))
  BY FaultsAre, Zenon DEF Checked, ToolFindDeadServices, TopologyTool
<1> QED
  BY <1>1, <1>2, <1>3, <1>4, <1>5, <1>6

(* Whichever tool is called for it.                                         *)
Asks(a, tool, chooser, mode) ==
  a.asked.tool = tool \/ (a.asked.tool = chooser /\ Mode(a.asked.p) = mode)

LEMMA ServicesServed ==
  ASSUME NEW g, NEW a, Handled(g, a)
  PROVE  /\ Asks(a, "get_topology", "topology_view", "summary") => a.answer = GetTopology(g)
         /\ Asks(a, "service_dependencies", "topology_view", "service_deps") =>
              \E name : a.answer = ServiceDependencies(g, name)
         /\ Asks(a, "service_dependents", "topology_view", "service_dependents") =>
              \E name : a.answer = ServiceDependents(g, name)
         /\ Asks(a, "find_bottlenecks", "analyze_impact", "bottlenecks") =>
              a.answer = Listed("bottlenecks", FindBottlenecks(g))
         /\ Asks(a, "find_circular_deps", "analyze_impact", "circular_deps") =>
              a.answer = Listed("cycles", FindCircular(g))
         /\ Asks(a, "find_dead_services", "analyze_impact", "dead_services") =>
              a.answer = Listed("dead_services", FindDeadServices(g))
<1> DEFINE p == a.asked.p
           mode == Mode(p)
           tool == a.asked.tool
<1>1. PICK fails \in BOOLEAN : \E st, model :
        a.answer = Handle(tool, Work(g, fails, st, model), p)
  BY DEF Handled
<1>2. PICK st, model : a.answer = Handle(tool, Work(g, fails, st, model), p)
  BY <1>1
<1> DEFINE x == Work(g, fails, st, model)
<1>3. x.g = g
  BY DEF Work
<1>4. ~ Fault(a.answer)
  BY DEF Handled
<1> HIDE DEF x
<1>5. /\ tool = "get_topology" => a.answer = ToolGetTopology(x, p)
      /\ tool = "service_dependencies" => a.answer = ToolServiceDependencies(x, p)
      /\ tool = "service_dependents" => a.answer = ToolServiceDependents(x, p)
      /\ tool = "find_bottlenecks" => a.answer = ToolFindBottlenecks(x, p)
      /\ tool = "find_circular_deps" => a.answer = ToolFindCircularDeps(x, p)
      /\ tool = "find_dead_services" => a.answer = ToolFindDeadServices(x, p)
      /\ tool = "topology_view" => a.answer = ToolTopologyView(x, p)
      /\ tool = "analyze_impact" => a.answer = ToolAnalyzeImpact(x, p)
  <2> HIDE DEF p
  <2> QED
    BY <1>2 DEF Handle, x
<1>6. /\ mode = "summary" => ToolTopologyView(x, p) = ToolGetTopology(x, <<>>)
      /\ mode = "service_deps" =>
           ToolTopologyView(x, p) = ToolServiceDependencies(x, Only(p, {"service_name"}))
      /\ mode = "service_dependents" =>
           ToolTopologyView(x, p) = ToolServiceDependents(x, Only(p, {"service_name"}))
      /\ mode = "bottlenecks" => ToolAnalyzeImpact(x, p) = ToolFindBottlenecks(x, <<>>)
      /\ mode = "circular_deps" => ToolAnalyzeImpact(x, p) = ToolFindCircularDeps(x, <<>>)
      /\ mode = "dead_services" => ToolAnalyzeImpact(x, p) = ToolFindDeadServices(x, <<>>)
  <2> HIDE DEF p
  <2> QED
    BY DEF ToolTopologyView, ToolAnalyzeImpact
<1> HIDE DEF p, tool, mode
<1>7. \A t, c, m : Asks(a, t, c, m) <=> tool = t \/ (tool = c /\ mode = m)
  BY DEF Asks, tool, mode, p
<1>8. Asks(a, "get_topology", "topology_view", "summary") => a.answer = GetTopology(g)
  BY <1>3, <1>4, <1>5, <1>6, <1>7, ServiceToolAnswers
<1>9. Asks(a, "service_dependencies", "topology_view", "service_deps") =>
        \E name : a.answer = ServiceDependencies(g, name)
  BY <1>3, <1>4, <1>5, <1>6, <1>7, ServiceToolAnswers
<1>10. Asks(a, "service_dependents", "topology_view", "service_dependents") =>
         \E name : a.answer = ServiceDependents(g, name)
  BY <1>3, <1>4, <1>5, <1>6, <1>7, ServiceToolAnswers
<1>11. Asks(a, "find_bottlenecks", "analyze_impact", "bottlenecks") =>
         a.answer = Listed("bottlenecks", FindBottlenecks(g))
  BY <1>3, <1>4, <1>5, <1>6, <1>7, ServiceToolAnswers
<1>12. Asks(a, "find_circular_deps", "analyze_impact", "circular_deps") =>
         a.answer = Listed("cycles", FindCircular(g))
  BY <1>3, <1>4, <1>5, <1>6, <1>7, ServiceToolAnswers
<1>13. Asks(a, "find_dead_services", "analyze_impact", "dead_services") =>
         a.answer = Listed("dead_services", FindDeadServices(g))
  BY <1>3, <1>4, <1>5, <1>6, <1>7, ServiceToolAnswers
<1> QED
  BY <1>8, <1>9, <1>10, <1>11, <1>12, <1>13

LEMMA PathServed ==
  ASSUME NEW g, NEW a, Handled(g, a), a.asked.tool = "find_path"
  PROVE  /\ FindPath(g, a.asked.p.source, a.asked.p.target).found
         /\ a.answer.path = FindPath(g, a.asked.p.source, a.asked.p.target).hops
<1> DEFINE p == a.asked.p
           source == Arg(p, "source", "")
           target == Arg(p, "target", "")
           path == FindPath(g, source, target)
           then == IF path.found THEN [path |-> path.hops, length |-> Len(path.hops)]
                   ELSE Unavailable
<1>1. PICK fails \in BOOLEAN : \E st, model :
        a.answer = Handle("find_path", Work(g, fails, st, model), p)
  BY DEF Handled
<1>2. PICK st, model : a.answer = Handle("find_path", Work(g, fails, st, model), p)
  BY <1>1
<1> DEFINE x == Work(g, fails, st, model)
<1>3. x.g = g /\ ~ Fault(a.answer)
  BY DEF Work, Handled
<1> HIDE DEF x
<1>4. a.answer = ToolFindPath(x, p)
  <2> HIDE DEF p
  <2> QED
    BY <1>2 DEF Handle, x
<1>5. a.answer = Checked(source # "" /\ target # "", "topology" \in x.wired, x.fails, then)
  BY <1>3, <1>4, Zenon DEF ToolFindPath
<1> HIDE DEF p, then
<1>6. a.answer = then /\ source # "" /\ target # ""
  BY <1>3, <1>5, FaultsAre, Zenon DEF Checked
<1>7. "source" \in DOMAIN p /\ "target" \in DOMAIN p
  BY <1>6 DEF Arg
<1>8. source = p["source"] /\ target = p["target"]
  BY <1>7 DEF Arg
<1>9. path.found
  BY <1>3, <1>6, FaultsAre, Zenon DEF then
<1>10. a.answer.path = path.hops
  <2>1. a.answer = [path |-> path.hops, length |-> Len(path.hops)]
    BY <1>6, <1>9, Zenon DEF then
  <2> HIDE DEF path
  <2> QED
    BY <2>1
<1> QED
  BY <1>8, <1>9, <1>10 DEF p

LEMMA ServiceRows ==
  ASSUME NEW rows
  PROVE  /\ Listed("dead_services", rows).dead_services = rows
         /\ Listed("bottlenecks", rows).bottlenecks = rows
         /\ Listed("cycles", rows).cycles = rows
BY DEF Listed, With

(* TopologyAgrees: the service tools tell one story, whichever of them are  *)
(* called, in any order and by anyone.                                      *)
LEMMA TopologyFollows == ServerInv => TopologyAgrees
<1> SUFFICES ASSUME ServerInv PROVE TopologyAgrees
  OBVIOUS
<1> DEFINE conns == CrossServiceConnections(Graph)
           targets == {c.target : c \in conns}
           found == Found(CircularOf(conns))
<1>1. ASSUME NEW k \in ByServer PROVE Usable /\ Handled(Graph, answers[k])
  BY DEF ByServer, ServerInv, AnswersSound
<1>2. ASSUME NEW k \in ByServer PROVE SoundGraph(Graph)
  BY <1>1 DEF ServerInv, DiskSound, Usable, Graph
<1>3. \A tool, chooser, mode : \A k \in Served(tool, chooser, mode) :
        k \in ByServer /\ Asks(answers[k], tool, chooser, mode)
  BY DEF Served, Asks
<1>4. ASSUME NEW i \in Dependencies, NEW j \in Dependents
      PROVE  answers[j].answer.service \in ToSet(answers[i].answer.depends_on)
               <=> answers[i].answer.service \in ToSet(answers[j].answer.depended_by)
  <2>1. /\ i \in ByServer /\ Asks(answers[i], "service_dependencies", "topology_view",
                                  "service_deps")
        /\ j \in ByServer /\ Asks(answers[j], "service_dependents", "topology_view",
                                  "service_dependents")
    BY <1>3 DEF Dependencies, Dependents
  <2>2. PICK a : answers[i].answer = ServiceDependencies(Graph, a)
    BY <1>1, <2>1, ServicesServed
  <2>3. PICK b : answers[j].answer = ServiceDependents(Graph, b)
    BY <1>1, <2>1, ServicesServed
  <2>4. ServiceDependencies(Graph, a).service = a /\ ServiceDependents(Graph, b).service = b
    BY DEF ServiceDependencies, ServiceDependents
  <2> QED
    BY <1>2, <2>1, <2>2, <2>3, <2>4, DependenciesMirror
<1>5. ASSUME NEW i \in Topologies
      PROVE  /\ SoundGraph(Graph) /\ answers[i].answer.connections = conns
             /\ {answers[i].answer.services[k].name : k \in DOMAIN answers[i].answer.services}
                  = Labels(Graph)
  <2> DEFINE t == answers[i].answer
             rows == ServiceSummaries(Graph)
             more(row) == [connections_out |-> Cardinality(From(conns, row.name)),
                           connections_in |-> Cardinality(To(conns, row.name))]
             full == [k \in DOMAIN rows |-> With(rows[k], more(rows[k]))]
  <2>1. i \in ByServer /\ Asks(answers[i], "get_topology", "topology_view", "summary")
    BY <1>3 DEF Topologies
  <2>2. t = GetTopology(Graph)
    BY <1>1, <2>1, ServicesServed
  <2>3. SoundGraph(Graph)
    BY <1>2, <2>1
  <2>4. t.connections = conns /\ t.services = full
    BY <2>2 DEF GetTopology
  <2>5. {row.name : row \in ToSet(rows)} = Labels(Graph)
    BY <2>3, ServicesListed
  <2>6. \A k \in DOMAIN rows : "name" \in DOMAIN rows[k]
    BY DEF ServiceSummaries
  <2> HIDE DEF rows
  <2>7. \A k \in DOMAIN rows : full[k].name = rows[k].name
    <3> SUFFICES ASSUME NEW k \in DOMAIN rows PROVE full[k].name = rows[k].name
      OBVIOUS
    <3> DEFINE row == rows[k]
    <3>1. full[k] = With(row, more(row))
      OBVIOUS
    <3>2. "name" \in DOMAIN row
      BY <2>6
    <3> HIDE DEF row, more, full
    <3>3. With(row, more(row))["name"] = row["name"]
      BY <3>2, WithFields
    <3> QED
      BY <3>1, <3>3 DEF row
  <2>8. DOMAIN full = DOMAIN rows
    OBVIOUS
  <2> HIDE DEF full
  <2>9. {full[k].name : k \in DOMAIN full} = {rows[k].name : k \in DOMAIN rows}
    BY <2>7, <2>8
  <2>10. {rows[k].name : k \in DOMAIN rows} = Labels(Graph)
    BY <2>5 DEF ToSet
  <2> QED
    BY <2>3, <2>4, <2>9, <2>10
<1>6. ASSUME NEW j \in DeadServices
      PROVE  {s.name : s \in ToSet(answers[j].answer.dead_services)} = Labels(Graph) \ targets
  <2>1. j \in ByServer /\ Asks(answers[j], "find_dead_services", "analyze_impact", "dead_services")
    BY <1>3 DEF DeadServices
  <2>2. answers[j].answer = Listed("dead_services", FindDeadServices(Graph))
    BY <1>1, <2>1, ServicesServed
  <2>3. answers[j].answer.dead_services = FindDeadServices(Graph)
    BY <2>2, ServiceRows
  <2> QED
    BY <1>2, <2>1, <2>3, DeadServicesAre
<1>7. ASSUME NEW j \in Bottlenecks
      PROVE  {s.service : s \in ToSet(answers[j].answer.bottlenecks)}
               = targets \cup {c.source : c \in conns}
  <2>1. j \in ByServer /\ Asks(answers[j], "find_bottlenecks", "analyze_impact", "bottlenecks")
    BY <1>3 DEF Bottlenecks
  <2>2. answers[j].answer = Listed("bottlenecks", FindBottlenecks(Graph))
    BY <1>1, <2>1, ServicesServed
  <2>3. answers[j].answer.bottlenecks = FindBottlenecks(Graph)
    BY <2>2, ServiceRows
  <2> QED
    BY <1>2, <2>1, <2>3, BottlenecksAre
<1>8. ASSUME NEW j \in CircularDeps
      PROVE  /\ UNION {ToSet(w) : w \in ToSet(answers[j].answer.cycles)} = found
             /\ found \subseteq Cyclic(conns)
             /\ \A name \in Cyclic(conns) :
                  \E other \in found : /\ other \in Reached(conns, name)
                                       /\ name \in Reached(conns, other)
  <2>1. j \in ByServer /\ Asks(answers[j], "find_circular_deps", "analyze_impact", "circular_deps")
    BY <1>3 DEF CircularDeps
  <2>2. answers[j].answer = Listed("cycles", FindCircular(Graph))
    BY <1>1, <2>1, ServicesServed
  <2>3. answers[j].answer.cycles = FindCircular(Graph)
    BY <2>2, ServiceRows
  <2>4. FindCircular(Graph) = CircularOf(conns).cycles
    BY Zenon DEF FindCircular, CircularOf
  <2>5. Sortable(conns)
    BY <1>2, <2>1, SoundConnections
  <2> HIDE DEF conns
  <2>6. UNION {ToSet(w) : w \in ToSet(answers[j].answer.cycles)} = found
    BY <2>3, <2>4 DEF Found
  <2> QED
    BY <2>5, <2>6, CircularDependenciesFound
<1>9. ASSUME NEW j \in Paths
      PROVE  /\ answers[j].asked.p.source # answers[j].asked.p.target =>
                  answers[j].asked.p.target \in Reached(conns, answers[j].asked.p.source)
             /\ \A hop \in ToSet(answers[j].answer.path) :
                  [source |-> hop.from, target |-> hop.to, type |-> hop.type] \in conns
  <2>1. j \in ByServer /\ answers[j].asked.tool = "find_path"
    BY DEF Paths
  <2> DEFINE p == answers[j].asked.p
             path == FindPath(Graph, p.source, p.target)
  <2>2. path.found /\ answers[j].answer.path = path.hops
    BY <1>1, <2>1, PathServed
  <2>3. SoundGraph(Graph)
    BY <1>2, <2>1
  <2> QED
    BY <2>2, <2>3, PathsFollowConnections
<1> HIDE DEF conns, targets, found
<1> QED
  BY <1>4, <1>5, <1>6, <1>7, <1>8, <1>9 DEF TopologyAgrees, targets

(* In every run, the service tools have told one story.                      *)
THEOREM TopologiesAgree == Spec => []TopologyAgrees
BY ServerIsSound, TopologyFollows, PTL
=============================================================================
