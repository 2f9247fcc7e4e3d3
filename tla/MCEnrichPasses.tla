---------------------------- MODULE MCEnrichPasses ----------------------------
(* Values for the constants of EnrichPasses: families of small projects,    *)
(* each of which makes one pass's cases happen.                            *)
EXTENDS EnrichPasses

Extensions == [f \in {"a.java", "b.go", "c.py", "d.js"} |->
                 CASE f = "a.java" -> "java" [] f = "b.go" -> "go"
                   [] f = "c.py" -> "py" [] f = "d.js" -> "js"]
Lowered == [w \in {"User", "user", "Repository", "Order"} |->
              IF w = "User" THEN "user" ELSE w]

Node(name, kind, label, path) ==
  [id |-> <<"n", name>>, kind |-> kind, label |-> label, fqn |-> <<>>,
   module |-> NoModule, path |-> path, line |-> 1, layer |-> "unknown",
   language |-> "", framework |-> "", fileType |-> "source", marks |-> {},
   service |-> None, comment |-> NoComment, configKey |-> <<>>, hint |-> NoHint]

Before(from, kind, to) == Edge(kind, <<"n", from>>, <<"n", to>>, NoSource, <<>>)
NoNames == [f \in NamedFiles |-> None]
NoFiles == [p \in {} |-> <<>>]
Project(nodeList, edgeSet, tree, declared, files) ==
  [nodes |-> nodeList, edges |-> edgeSet, tree |-> tree, declared |-> declared,
   files |-> files]

(* Every choice of at most three build files beside each other. *)
BuildFileSets == UNION {kSubset(k, Range(BuildFiles)) : k \in 0..3}
OneDirectory ==
  {Project(<<Node("e", "endpoint", <<"E">>, <<"a", "a.java">>)>>, {},
           [d \in {<<"a">>} |-> files], NoNames, NoFiles) :
     files \in BuildFileSets}

(* Nested services, with different names and with the same one. *)
Dirs == {<<>>, <<"a">>, <<"a", "b">>, <<"vendor">>}
InDirs == <<Node("root", "endpoint", <<"E">>, <<"a.java">>),
            Node("a", "entity", <<"E">>, <<"a", "a.java">>),
            Node("ab", "endpoint", <<"E">>, <<"a", "b", "a.java">>),
            Node("v", "endpoint", <<"E">>, <<"vendor", "a.java">>),
            [Node("x", "endpoint", <<"E">>, <<"x", "a.java">>)
               EXCEPT !.service = <<"Greeter">>]>>
NestedServices ==
  {Project(InDirs, {}, tree, names, NoFiles) :
     tree \in [Dirs -> {{}, {"package.json"}, {"go.mod", "Dockerfile"}}],
     names \in {NoNames, [NoNames EXCEPT !["package.json"] = <<"shop">>,
                                        !["go.mod"] = <<"shop">>]}}

(* Topics, entities and modules, with any of the detectors' edges between. *)
Linked ==
  <<Node("p", "method", <<"P">>, <<>>), Node("q", "method", <<"Q">>, <<>>),
    Node("t", "topic", <<"T">>, <<>>), Node("u", "queue", <<"U">>, <<>>),
    Node("v", "event", <<"T">>, <<>>),
    Node("e", "entity", <<"User">>, <<>>),
    [Node("f", "entity", <<"Order">>, <<>>) EXCEPT !.fqn = <<"Order", "User">>],
    [Node("r", "repository", <<"User", "Repository">>, <<>>)
       EXCEPT !.module = "m", !.marks = {"sharedPkg"}],
    [Node("mod", "module", <<"m">>, <<>>) EXCEPT !.id = ModuleId("k")],
    [Node("c", "class", <<"C">>, <<>>) EXCEPT !.module = "k", !.framework = "spring"],
    [Node("d", "class", <<"D">>, <<>>) EXCEPT !.module = "k", !.marks = {"backendPkg"}]>>
SomeEdges == {Before("p", "produces", "t"), Before("q", "consumes", "t"),
              Before("p", "publishes", "u"), Before("q", "listens", "v"),
              Before("q", "receives_from", "u"),
              Before("r", "queries", "e"), Before("r", "queries", "f"),
              Edge("contains", ModuleId("k"), <<"n", "c">>, NoSource, <<>>)}
Links == {Project(Linked, es, [d \in {} |-> {}], NoNames, NoFiles) :
            es \in SUBSET SomeEdges}

(* Every look of three lines beside a declaration. *)
Content0 == [lines |-> <<>>, decls |-> <<>>, bases |-> [l \in {} |-> NoHint],
             assertion |-> NoHint, exports |-> NoHint, minified |-> FALSE]
OneFile(file, decl, lines) ==
  Project(<<[Node("c", "class", <<"C">>, <<file>>) EXCEPT !.line = decl]>>, {},
          [d \in {} |-> {}], NoNames,
          [p \in {<<file>>} |-> [Content0 EXCEPT !.lines = lines]])
CurlyLooks == [1..3 -> LineLooks \ {"quote", "quotes"}]
PythonLooks == [1..3 -> {"blank", "code", "quote", "quotes"}]
Commented == {OneFile("a.java", 4, l \o <<"code">>) : l \in CurlyLooks}
        \cup {OneFile("b.go", 4, l \o <<"code">>) :
                l \in [1..3 -> {"blank", "slashes", "code", "open"}]}
        \cup {OneFile("c.py", 1, <<"code">> \o l) : l \in PythonLooks}

(* Calls between the files of a pool that is one goroutine too small, one of *)
(* them gone, or taken for minified.                                         *)
Call(text, line) == [text |-> text, line |-> line]
Fn(name, callList) == [name |-> <<name>>, calls |-> callList]
Method(name, path) ==
  [Node(name, "method", <<name>>, path) EXCEPT !.fqn = <<name>>]
Callers ==
  <<Method("f", <<"a.java">>), Method("g", <<"a.java">>),
    Method("h", <<"b.go">>), Method("i", <<"d.js">>),
    [Node("c", "class", <<"C">>, <<"c.py">>) EXCEPT !.line = 2],
    [Method("f", <<"b.go">>) EXCEPT !.id = <<"n", "f2">>]>>
CallerFiles ==
  [p \in {<<"a.java">>, <<"b.go">>, <<"c.py">>, <<"d.js">>} |->
     CASE p = <<"a.java">> ->
            [Content0 EXCEPT !.decls = <<Fn("g", <<Call(<<"o", "f">>, 1),
                                                   Call(<<"o", "h">>, 2)>>),
                                         Fn("f", <<Call(<<"f">>, 3),
                                                   Call(<<"i">>, 4)>>)>>]
       [] p = <<"b.go">> ->
            [Content0 EXCEPT !.decls = <<Fn("h", <<Call(<<"p", "f">>, 5)>>)>>]
       [] p = <<"c.py">> ->
            [Content0 EXCEPT !.bases = [l \in {<<"C">>} |-> <<"Base">>]]
       [] p = <<"d.js">> ->
            [Content0 EXCEPT !.decls = <<Fn("i", <<Call(<<"h">>, 6),
                                                   Call(<<"i">>, 7)>>)>>,
                             !.minified = TRUE]]
Pools == {Project(Callers, {}, [d \in {} |-> {}], NoNames, CallerFiles),
          Project(Callers, {}, [d \in {} |-> {}], NoNames,
                  [p \in {<<"a.java">>, <<"c.py">>, <<"d.js">>} |->
                     [CallerFiles[p] EXCEPT !.minified = FALSE]])}

SmallProjects == OneDirectory \cup NestedServices \cup Links \cup Commented
                 \cup Pools
FileOrder == <<<<"a.java">>, <<"b.go">>, <<"c.py">>, <<"d.js">>>>
=============================================================================
