---------------------------- MODULE EvidencePacks ----------------------------
(***************************************************************************)
(* The query planner, which chooses between graph and text by what the      *)
(* extractors can do for a language, and the evidence packs assembled on   *)
(* its plan.  A node also has `lines`, its first and last line as stored;   *)
(* Files is the work tree as it is now, which may have changed since.      *)
(***************************************************************************)
EXTENDS GraphQueries, LexicalPass

CONSTANTS
  Files,              \* path -> [kind, text, lines]; lines are their lengths
  Extensions,         \* path -> its extension
  ConfiguredSnippet   \* the assembler's own bound on snippet lines

ASSUME SnippetAssumption ==
  /\ MaxSnippetLines \in Nat /\ DefaultContextLines \in Nat
  /\ ConfiguredSnippet \in Nat \ {0}
  /\ \A path \in DOMAIN Files : Files[path].lines \in Seq(Nat)

Dimensions ==
  {"SYMBOL_DEFINITIONS", "SYMBOL_REFERENCES", "IMPORT_RESOLUTION", "TYPE_INFO",
   "CLASS_HIERARCHY", "FRAMEWORK_SEMANTICS", "ORM_ENTITY_MAPPING", "AUTH_SECURITY",
   "ASYNC_PATTERNS"}
LexicalOnlyLanguages ==
  {"kotlin", "scala", "ruby", "php", "shell", "bash", "powershell", "markdown", "proto",
   "hcl", "terraform", "dockerfile", "yaml", "json", "toml", "ini", "properties", "xml",
   "sql"}

\* Every dimension has the same level but for the exceptions.
Caps(level, exceptions) == With(exceptions, [d \in Dimensions |-> level])
TableFor(language) ==
  CASE language = "java" -> Caps("EXACT", [ASYNC_PATTERNS |-> "PARTIAL"])
    [] language \in {"typescript", "csharp", "c#"} -> Caps("PARTIAL", <<>>)
    [] language \in {"javascript", "python"} ->
         Caps("PARTIAL", [TYPE_INFO |-> "LEXICAL_ONLY"])
    [] language = "go" ->
         Caps("PARTIAL", [CLASS_HIERARCHY |-> "LEXICAL_ONLY",
                          AUTH_SECURITY |-> "LEXICAL_ONLY"])
    [] language \in {"cpp", "c++"} ->
         Caps("PARTIAL", [ORM_ENTITY_MAPPING |-> "UNSUPPORTED",
                          AUTH_SECURITY |-> "LEXICAL_ONLY"])
    [] language = "rust" ->
         Caps("PARTIAL", [CLASS_HIERARCHY |-> "LEXICAL_ONLY",
                          ORM_ENTITY_MAPPING |-> "UNSUPPORTED",
                          AUTH_SECURITY |-> "LEXICAL_ONLY"])
    [] language \in LexicalOnlyLanguages ->
         Caps("LEXICAL_ONLY", [TYPE_INFO |-> "UNSUPPORTED",
                               ORM_ENTITY_MAPPING |-> "UNSUPPORTED"])
    [] OTHER -> Caps("UNSUPPORTED", <<>>)

AllCapabilities ==
  [l \in {"java", "typescript", "javascript", "python", "go", "csharp", "rust", "cpp",
          "kotlin", "scala", "ruby", "php", "shell"} |-> TableFor(l)]
-----------------------------------------------------------------------------
(* The planner *)

QueryDimensions ==
  [FIND_SYMBOL |-> {"SYMBOL_DEFINITIONS"}, FIND_REFERENCES |-> {"SYMBOL_REFERENCES"},
   FIND_CALLERS |-> {"SYMBOL_REFERENCES"}, FIND_DEPENDENCIES |-> {"IMPORT_RESOLUTION"},
   SEARCH_TEXT |-> {}, FIND_CONFIG |-> {"FRAMEWORK_SEMANTICS"}]

\* The strongest demand decides: what is unsupported, then what must be merged.
SelectRoute(levels) ==
  CASE "UNSUPPORTED" \in levels -> "DEGRADED"
    [] "UNSUPPORTED" \notin levels
         /\ ("PARTIAL" \in levels \/ {"LEXICAL_ONLY", "EXACT"} \subseteq levels) -> "MERGED"
    [] levels = {"LEXICAL_ONLY"} -> "LEXICAL_FIRST"
    [] OTHER -> "GRAPH_FIRST"

BuildDegradationNote(route) == IF route \in {"GRAPH_FIRST", "MERGED"} THEN "" ELSE route

Plan(type, language) ==
  LET dims == IF type \in DOMAIN QueryDimensions THEN QueryDimensions[type] ELSE {}
      route == SelectRoute({TableFor(language)[d] : d \in dims})
  IN CASE type = "SEARCH_TEXT" -> [route |-> "LEXICAL_FIRST", note |-> ""]
       [] type # "SEARCH_TEXT" /\ dims = {} -> [route |-> "DEGRADED", note |-> "unmapped"]
       [] OTHER -> [route |-> route, note |-> BuildDegradationNote(route)]
-----------------------------------------------------------------------------
(* Packs *)

DeriveCapability ==
  [GRAPH_FIRST |-> "EXACT", MERGED |-> "PARTIAL", LEXICAL_FIRST |-> "LEXICAL_ONLY",
   DEGRADED |-> "UNSUPPORTED"]

EmptyPack(note) ==
  [matched |-> <<>>, files |-> <<>>, references |-> <<>>, snippets |-> <<>>,
   provenance |-> <<>>, notes |-> {note} \ {""}, capability |-> "UNSUPPORTED"]

\* nil (here 0) is the configured bound; anything else is clamped to 1 .. it.
ResolveMaxLines(requested, given) ==
  IF given THEN Min({Max({1, requested}), ConfiguredSnippet}) ELSE ConfiguredSnippet

\* A snippet is the pair of its first and last line.
BoundSnippet(window, maxLines) ==
  IF window[2] - window[1] + 1 =< maxLines THEN window
  ELSE <<window[1], window[1] + maxLines - 1>>

\* Nothing without a line in the graph, or without a regular file on disk.
SnippetOf(n) ==
  IF n.lines[1] =< 0 \/ n.file \notin DOMAIN Files \/ Files[n.file].kind # "file"
  THEN <<>>
  ELSE <<Snippet(n.lines[1], n.lines[2], Len(Files[n.file].lines))>>

InferLanguage(ext) ==
  CASE ext = "java" -> "java" [] ext \in {"ts", "tsx"} -> "typescript"
    [] ext \in {"js", "jsx"} -> "javascript" [] ext = "py" -> "python"
    [] ext = "go" -> "go" [] ext = "rs" -> "rust" [] ext = "cs" -> "csharp"
    [] OTHER -> "unknown"

ExtensionOf(path) == IF path \in DOMAIN Extensions THEN Extensions[path] ELSE ""

UniqueSortedFiles(nodes) == ByName({n.file : n \in ToSet(nodes)} \ {""})

\* Mutant of FetchReferences: what has matched may be a reference again.
FetchReferencesUnfiltered(g, matched) ==
  FoldLeft(LAMBDA out, n :
             out \o SelectSeq(FindCallers(g, n.id) \o FindDependents(g, n.id),
                              LAMBDA r : r.id \notin Ids(ToSet(out))),
           <<>>, matched)

\* The callers, then the dependents of each match in turn; each node once, and no
\* match among them.
FetchReferences(g, matched) ==
  FoldLeft(LAMBDA out, r : IF r.id \in Ids(ToSet(out) \cup ToSet(matched)) THEN out
                           ELSE Append(out, r),
           <<>>,
           FlattenSeq([i \in DOMAIN matched |->
             FindCallers(g, matched[i].id) \o FindDependents(g, matched[i].id)]))

ProvenanceFor(n) == [file |-> n.file, lines |-> n.lines, kind |-> n.kind]

BuildEmptyNote(plan) == IF plan.route = "DEGRADED" THEN plan.note ELSE "not found"

\* The interfaces it is given: nodes by identifier, else by file.
FindByIdentifier(g, symbol) == ById({n \in g.nodes : n.label = symbol})
FindByFilePath(g, path) == ById({n \in g.nodes : n.file = path})

\* req: symbol, file, ext (of the file), maxLines, limited, references.
Assemble(g, req) ==
  LET plan == Plan("FIND_SYMBOL", InferLanguage(req.ext))
      matched == IF req.symbol # "" THEN FindByIdentifier(g, req.symbol)
                 ELSE FindByFilePath(g, req.file)
      maxLines == ResolveMaxLines(req.maxLines, req.limited)
      windows == FlattenSeq([i \in DOMAIN matched |-> SnippetOf(matched[i])])
  IN CASE req.symbol = "" /\ req.file = "" -> EmptyPack("nothing asked")
       [] (req.symbol # "" \/ req.file # "") /\ matched = <<>> ->
            EmptyPack(BuildEmptyNote(plan))
       [] OTHER ->
            [matched |-> matched, files |-> UniqueSortedFiles(matched),
             references |-> IF req.references THEN FetchReferences(g, matched) ELSE <<>>,
             snippets |-> [i \in DOMAIN windows |-> BoundSnippet(windows[i], maxLines)],
             provenance |-> [i \in DOMAIN matched |-> ProvenanceFor(matched[i])],
             notes |-> {plan.note} \ {""},
             capability |-> DeriveCapability[plan.route]]
=============================================================================
