--------------------------- MODULE ServiceDetector ---------------------------
(***************************************************************************)
(* ServiceDetector.Detect: the walk for build files, the module a          *)
(* directory is registered as, its service's name, and the assignment of   *)
(* every node to the service of a directory.                               *)
(*                                                                         *)
(* A directory is the sequence of its path's components, the root <<>>.    *)
(* The tree is a function from directories to the set of build files in    *)
(* them, and `declared` gives the name each file's content declares.  One  *)
(* file name stands for those that behave alike; BuildFiles is in the      *)
(* order in which a directory is walked, which is byte order.              *)
(***************************************************************************)
EXTENDS Linkers

CONSTANTS
  None,        \* no name, no service
  ProjectDir   \* base name of the project root, the root service's last resort

BuildFiles ==
  <<"App.csproj", "Dockerfile", "Lib.csproj", "build.gradle", "go.mod",
    "manage.py", "nx.json", "package.json", "pyproject.toml",
    "requirements.txt", "settings.gradle", "setup.py">>

\* What stands for "no file" is none of them.
ASSUME NoneAssumption == \A k \in DOMAIN BuildFiles : BuildFiles[k] # None

SuffixFiles == {"App.csproj", "Lib.csproj"}

Tool(file) ==
  CASE file \in SuffixFiles                                        -> "dotnet"
    [] file = "Dockerfile"                                         -> "docker"
    [] file = "nx.json"                                            -> "nx"
    [] file \in {"build.gradle", "settings.gradle"}                -> "gradle"
    [] file = "go.mod"                                             -> "go"
    [] file = "package.json"                                       -> "npm"
    [] file = "manage.py"                                          -> "django"
    [] file \in {"pyproject.toml", "requirements.txt", "setup.py"} -> "python"

SupplementalTools == {"docker", "nx"}
IsPython(tool) == tool \in {"python", "django"}
PythonBuildFiles == <<"pyproject.toml", "setup.py", "requirements.txt", "manage.py">>
PythonPriority(file) == Parse(PythonBuildFiles, file)

SkipDirs == {"vendor"}

-----------------------------------------------------------------------------
(* walkFilesystem and registerModule.  A module is the file it was          *)
(* registered with, None while there is none.                              *)

\* Mutant of KeepsExisting: supplemental tools are not told from real ones.
KeepsExistingReal(existing, file) ==
  \/ IsPython(Tool(file)) /\ ~ IsPython(Tool(existing))
  \/ /\ IsPython(Tool(file)) /\ IsPython(Tool(existing))
     /\ PythonPriority(file) >= PythonPriority(existing)
  \/ file = "settings.gradle" /\ Tool(existing) = "gradle"

\* registerModule replaces what is registered unless one of its returns applies.
KeepsExisting(existing, file) ==
  \/ Tool(file) \in SupplementalTools
  \/ IsPython(Tool(file)) /\ ~ IsPython(Tool(existing))
  \/ /\ IsPython(Tool(file)) /\ IsPython(Tool(existing))
     /\ PythonPriority(file) >= PythonPriority(existing)
  \/ file = "settings.gradle" /\ Tool(existing) = "gradle"

RegisterModule(existing, file) ==
  IF existing = None THEN file
  ELSE IF KeepsExisting(existing, file) THEN existing ELSE file

\* A suffix file registers only where nothing is registered yet.
VisitFile(existing, file) ==
  IF file \in SuffixFiles
  THEN IF existing = None THEN file ELSE existing
  ELSE RegisterModule(existing, file)

\* What a directory is registered as once its files up to each are visited.
RegisteredFile(files) ==
  LET visited[k \in DOMAIN BuildFiles] ==
        LET before == IF k = 1 THEN None ELSE visited[k - 1]
        IN IF BuildFiles[k] \in files THEN VisitFile(before, BuildFiles[k])
           ELSE before
  IN visited[Len(BuildFiles)]

Walked(dir) == \A i \in DOMAIN dir : dir[i] \notin SkipDirs

\* modules after the walk; without any, the root stands for the project.
Modules(tree) ==
  LET found == {d \in DOMAIN tree : Walked(d) /\ tree[d] # {}}
  IN IF found = {} THEN [d \in {<<>>} |-> None]
     ELSE [d \in found |-> RegisteredFile(tree[d])]
-----------------------------------------------------------------------------
(* extractServiceName and readNameFromBuildFile *)

\* The build files whose content is searched for a name.
NamedFiles == {"go.mod", "package.json", "pyproject.toml", "settings.gradle",
               "setup.py"}

ServiceName(dir, file, declared) ==
  CASE file \in NamedFiles /\ declared[file] # None -> declared[file]
    [] OTHER -> IF dir = <<>> THEN <<ProjectDir>> ELSE <<Last(dir)>>

ServiceId(dir, name) == <<"service", dir, name>>
-----------------------------------------------------------------------------
(* Detect *)

Matches(dir, path) == dir = <<>> \/ IsPrefix(dir, path)

\* Mutant of Deeper: ascending, as by a swapped comparison.
Shallower(dir, other) == Len(dir) < Len(other)

\* The order in which the directories are tried.
Deeper(dir, other) == Len(dir) > Len(other)

\* The directory a node's path is assigned to, the first of those that match,
\* as a set of at most one.
MatchDir(dirs, path) ==
  LET around == {d \in dirs : Matches(d, path)}
  IN {d \in around : \A e \in around \ {d} : ~ Deeper(e, d)}

\* One service per module, and the label its directory's nodes get.
ServiceLabels(tree, declared) ==
  LET modules == Modules(tree)
  IN [d \in DOMAIN modules |-> ServiceName(d, modules[d], declared)]

\* Mutant of CountUnder: a node counts for every directory around it.
CountUnderAll(nodes, labels, label, kind) ==
  Cardinality({i \in OfKind(nodes, {kind}) :
                 \E d \in DOMAIN labels :
                   Matches(d, nodes[i].path) /\ labels[d] = label})

\* How many nodes of a kind the services of one label contain: the counter is
\* kept per label, whatever the directory.
CountUnder(nodes, labels, label, kind) ==
  Cardinality({i \in OfKind(nodes, {kind}) :
                 \E d \in MatchDir(DOMAIN labels, nodes[i].path) :
                   labels[d] = label})

ServiceNode(nodes, labels, modules, dir) ==
  [id |-> ServiceId(dir, labels[dir]), label |-> labels[dir], dir |-> dir,
   detectedFrom |-> modules[dir],
   endpoints |-> CountUnder(nodes, labels, labels[dir], "endpoint"),
   entities  |-> CountUnder(nodes, labels, labels[dir], "entity")]

Services(nodes, labels, modules) ==
  {ServiceNode(nodes, labels, modules, d) : d \in DOMAIN labels}

ServiceEdges(nodes, labels) ==
  UNION {{Edge("contains", ServiceId(d, labels[d]), nodes[i].id, NoSource, <<>>) :
            d \in MatchDir(DOMAIN labels, nodes[i].path)} : i \in DOMAIN nodes}
=============================================================================
