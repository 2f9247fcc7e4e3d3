--------------------------- MODULE LayerClassifier ---------------------------
(***************************************************************************)
(* LayerClassifier.classifyOne: the first rule that applies decides.       *)
(* What the regular expressions read from a path or an ID is a set of      *)
(* marks that a path carries: FilePath and ID are matched by different     *)
(* expressions, the package rules by both.                                 *)
(***************************************************************************)
EXTENDS CodeModel, Integers

FrontendKinds == {"component", "hook"}
BackendKinds  == {"guard", "middleware", "endpoint", "repository",
                  "database_connection", "query", "entity", "migration",
                  "service", "topic", "queue", "event", "message_queue",
                  "rmi_interface", "websocket_endpoint"}
InfraKinds    == {"infra_resource", "azure_resource", "azure_function",
                  "sql_entity"}
SharedKinds   == {"config_file", "config_key", "config_definition",
                  "protocol_message"}
InfraLangs    == {"terraform", "bicep", "dockerfile"}
\* One framework stands for those of its layer.
FrontendFrameworks == {"react"}
BackendFrameworks  == {"spring"}

\* The path marks: the extension (.tsx, .jsx), the directories the two path
\* expressions and the three package expressions look for, and the last
\* rule's standard layout.
PathMarks == {"frontendExt", "frontendPath", "backendPath", "frontendPkg",
              "backendPkg", "sharedPkg", "srcMainJvm"}

ByKind(n) ==
  CASE n.kind \in FrontendKinds -> "frontend"
    [] n.kind \in BackendKinds  -> "backend"
    [] n.kind \in InfraKinds    -> "infra"
    [] OTHER                    -> "unknown"

ByPath(marks) ==
  IF {"frontendExt", "frontendPath"} \cap marks # {} THEN "frontend"
  ELSE IF "backendPath" \in marks THEN "backend"
  ELSE "unknown"

ByFramework(framework) ==
  CASE framework \in FrontendFrameworks -> "frontend"
    [] framework \in BackendFrameworks  -> "backend"
    [] OTHER                            -> "unknown"

\* The fallback over path and ID, then the JVM source layout.
ByPackage(marks) ==
  IF "frontendPkg" \in marks THEN "frontend"
  ELSE IF "backendPkg" \in marks THEN "backend"
  ELSE IF "sharedPkg" \in marks THEN "shared"
  ELSE IF "srcMainJvm" \in marks THEN "backend"
  ELSE "unknown"

\* The rules in order; "unknown" means that a rule does not apply.
Rules(n, marks) ==
  <<ByKind(n),
    IF n.language \in InfraLangs THEN "infra" ELSE "unknown",
    ByPath(marks),
    ByFramework(n.framework),
    IF n.kind \in SharedKinds THEN "shared" ELSE "unknown",
    ByPackage(marks)>>

\* Mutant of ClassifyOne: no fallback when no rule applies.
ClassifyOneUnset(n, marks) ==
  LET rules == Rules(n, marks)
  IN IF \E i \in DOMAIN rules : rules[i] # "unknown"
     THEN rules[CHOOSE i \in DOMAIN rules :
                  rules[i] # "unknown" /\ \A j \in 1..(i - 1) : rules[j] = "unknown"]
     ELSE ""

ClassifyOne(n, marks) ==
  LET rules == Rules(n, marks)
      applies == {i \in DOMAIN rules : rules[i] # "unknown"}
  IN IF applies = {} THEN "unknown"
     ELSE rules[CHOOSE i \in applies : \A j \in applies : i =< j]
=============================================================================
