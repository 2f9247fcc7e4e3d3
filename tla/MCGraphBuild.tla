---------------------------- MODULE MCGraphBuild ----------------------------
(* Values for the constants of GraphBuild: a Maven tree.  The root pom     *)
(* emits its module, a placeholder for its sub-module and the edge between *)
(* them; the pom of the sub-module emits the module itself and a           *)
(* dependency on a module no file emits.  A third file, whose detectors    *)
(* are two, claims the sub-module for itself, with more confidence.        *)
EXTENDS GraphBuild

Module(key, confidence, path, parent) ==
  [key |-> key, confidence |-> confidence,
   data |-> [file_path |-> path, parent |-> parent]]

Edge(key) == Module(key, 1, Absent, Absent)

MavenKeys == {"root", "sub", "contains", "dependsOn", "external"}
MavenEnds == [k \in MavenKeys |->
                CASE k = "contains" -> {"root", "sub"}
                  [] k = "dependsOn" -> {"sub", "external"}
                  [] OTHER -> {}]
MavenFields == {"file_path", "parent"}
MavenValues == {"pom.xml", "sub/pom.xml", "sub/build.gradle", "root"}

RootPom == <<<<Module("root", 1, "pom.xml", Absent),
               Module("sub", 1, Absent, "root"),
               Edge("contains")>>>>
SubPom == <<<<Module("sub", 1, "sub/pom.xml", Absent), Edge("dependsOn")>>>>
OtherFile == <<<<Edge("contains")>>,
               <<Module("sub", 2, "sub/build.gradle", Absent)>>>>

TwoPoms == <<RootPom, SubPom>>
ThreeEmitters == <<RootPom, SubPom, OtherFile>>
TwoFiles == {1, 2}
ThreeFiles == {1, 2, 3}
=============================================================================
