-------------------------- MODULE LanguageExtractors --------------------------
(***************************************************************************)
(* The four language extractors: CALLS edges of methods, resolved through  *)
(* the registry of all nodes, and type hints of classes and modules.       *)
(*                                                                         *)
(* What they see of a parsed file is a record:                             *)
(*   decls      its functions in the order of the tree walk, each with a   *)
(*              name and the calls below it; a call has the text of its    *)
(*              callee (a sequence of words) and a line                    *)
(*   bases      super types by class name, exports and the interface       *)
(*              assertion of the file as a whole                           *)
(*   minified   the size and mean line length isLikelyMinified looks for   *)
(***************************************************************************)
EXTENDS Linkers

CONSTANTS
  Extension,  \* of a path's last component
  NoHint      \* no type hint

DetectLanguage(ext) ==
  CASE ext = "java"                       -> "java"
    [] ext \in {"ts", "tsx"}              -> "typescript"
    [] ext \in {"js", "jsx", "mjs", "cjs"} -> "javascript"
    [] ext \in {"py", "pyw"}              -> "python"
    [] ext = "go"                         -> "go"
    [] OTHER                              -> ""

\* languageAliases, then the extractors Enrich registers; "" if there is none.
ExtractorOf(path) ==
  LET language == DetectLanguage(Extension[Last(path)])
  IN IF language = "javascript" THEN "typescript" ELSE language

MinifiableExtensions == {"js", "mjs", "cjs", "css", "jsx", "ts"}
IsLikelyMinified(path, content) ==
  content.minified /\ Extension[Last(path)] \in MinifiableExtensions

SkippedFileTypes == {"test", "generated", "minified", "binary", "text", "filtered"}

\* buildRegistry as a function of the key: the last node whose ID or qualified
\* name it is.  The IDs that extractors look up are never IDs of other nodes,
\* so only qualified names matter, and IDs that are single words.
Registered(nodes, name) ==
  LET keyed == {i \in DOMAIN nodes : nodes[i].id = name \/ nodes[i].fqn = name}
  IN {nodes[i].id : i \in {j \in keyed : \A k \in keyed : k =< j}}

\* lookupSingleMatch: a METHOD label that two nodes share resolves to nothing.
SingleMatch(nodes, name) ==
  LET methods == {nodes[i].id : i \in {j \in OfKind(nodes, {"method"}) :
                                         nodes[j].label = name}}
  IN IF Cardinality(methods) = 1 THEN methods ELSE {}

(* How a callee's text becomes a key of the registry.                      *)
JavaCallee(nodes, text)       == SingleMatch(nodes, <<Last(text)>>)
GoCallee(nodes, text)         == Registered(nodes, <<Last(text)>>)
PythonCallee(nodes, text)     == Registered(nodes, text)
TypeScriptCallee(nodes, text) == Registered(nodes, text)

Callee(language, nodes, text) ==
  CASE language = "java"       -> JavaCallee(nodes, text)
    [] language = "go"         -> GoCallee(nodes, text)
    [] language = "python"     -> PythonCallee(nodes, text)
    [] language = "typescript" -> TypeScriptCallee(nodes, text)

\* The first declaration of that name, at most one.
Declaration(content, label) ==
  LET i == SelectInSeq(content.decls, LAMBDA d : d.name = label)
  IN IF i = 0 THEN <<>> ELSE content.decls[i].calls

CallEdge(from, to, line) == Edge("calls", from, to, NoSource, line)

CallEdges(language, nodes, node, content) ==
  LET sites == Declaration(content, node.label)
      callees(k) == Callee(language, nodes, sites[k].text) \ {node.id}
  IN FlattenSeq([k \in DOMAIN sites |->
       SetToSeq({CallEdge(node.id, to, sites[k].line) : to \in callees(k)})])

BaseOf(content, label) ==
  IF label \in DOMAIN content.bases THEN content.bases[label] ELSE NoHint

(* The hint of a node that is not a method, by language.                    *)
JavaHint(node, content) ==
  IF node.kind \in {"class", "abstract_class", "interface"}
  THEN BaseOf(content, node.label) ELSE NoHint

GoHint(node, content) ==
  IF node.kind = "class" THEN content.assertion ELSE NoHint

PythonHint(node, content) ==
  CASE node.kind = "class"  -> BaseOf(content, node.label)
    [] node.kind = "module" -> content.exports
    [] OTHER                -> NoHint

TypeScriptHint(node, content) ==
  IF node.kind = "module" THEN content.exports ELSE NoHint

Hint(language, node, content) ==
  CASE language = "java"       -> JavaHint(node, content)
    [] language = "go"         -> GoHint(node, content)
    [] language = "python"     -> PythonHint(node, content)
    [] language = "typescript" -> TypeScriptHint(node, content)

\* ExtractFromTree: one result per node of the file, in order.
ExtractFromTree(language, nodes, own, content) ==
  [j \in DOMAIN own |->
     [edges |-> IF nodes[own[j]].kind = "method"
                THEN CallEdges(language, nodes, nodes[own[j]], content) ELSE <<>>,
      hint  |-> Hint(language, nodes[own[j]], content)]]
=============================================================================
