----------------------------- MODULE LexicalPass -----------------------------
(***************************************************************************)
(* The lexical pass of enrich: configuration keys, and the doc comment      *)
(* before (in Python, after) a declaration; and the snippets cut out of    *)
(* the same files later.  A source file is the sequence of what its lines  *)
(* look like after TrimSpace:                                              *)
(*   "blank", "annotation" (@...), "slashes" (// ...), "code",             *)
(*   "open" (/* ...), "close" (... */), "block" (/* ... */),               *)
(*   "quote" (one triple quote), "quotes" (an opened and closed string).   *)
(* A comment is the pair of its first and last line, NoComment if none.     *)
(***************************************************************************)
EXTENDS CodeModel, Integers, FiniteSetsExt

LineLooks == {"blank", "annotation", "slashes", "code", "open", "close",
              "block", "quote", "quotes"}

NoComment == <<0, 0>>

\* The last line of a set, 0 if it is empty.
LastOf(S) == IF S = {} THEN 0 ELSE Max(S)
FirstOf(S, otherwise) == IF S = {} THEN otherwise ELSE Min(S)

\* Mutant of BlockComment: the last opener is taken whatever lies between.
BlockCommentAnywhere(lines, decl) ==
  LET open == LastOf({i \in 1..(decl - 1) : lines[i] \in {"open", "block"}})
  IN IF open = 0 THEN NoComment ELSE <<open, decl - 1>>

\* extractBlockComment: back over blanks and annotations to a line that ends a
\* block, then back to the nearest line that begins one.
BlockComment(lines, decl) ==
  LET scan == LastOf({i \in 1..(decl - 1) :
                        lines[i] \notin {"blank", "annotation"}})
      open == LastOf({i \in 1..scan : lines[i] \in {"open", "block"}})
  IN IF scan = 0 \/ open = 0 THEN NoComment
     ELSE IF lines[scan] \in {"close", "block"} THEN <<open, scan>>
     ELSE NoComment

\* extractLineComments: back over blanks, then all contiguous // lines.
LineComments(lines, decl) ==
  LET end == LastOf({i \in 1..(decl - 1) : lines[i] # "blank"})
      start == LastOf({i \in 1..end : lines[i] # "slashes"}) + 1
  IN IF end = 0 \/ start > end THEN NoComment ELSE <<start, end>>

DocstringWindow == 15

\* extractPythonDocstring: the body's first line must open the string, and it
\* must be closed within the window.
Docstring(lines, decl) ==
  LET body == decl + 1
      window == body..Min({decl + DocstringWindow, Len(lines)})
      closing == {i \in window : i > body /\ lines[i] \in {"quote", "quotes"}}
  IN IF body \notin window THEN NoComment
     ELSE CASE lines[body] = "quotes" -> <<body, body>>
            [] lines[body] = "quote" /\ closing # {} -> <<body, Min(closing)>>
            [] OTHER -> NoComment

Extract(lines, language, decl) ==
  IF decl \notin DOMAIN lines THEN NoComment
  ELSE CASE language = "python"         -> Docstring(lines, decl)
         [] language \in {"go", "rust"} -> LineComments(lines, decl)
         [] OTHER                       -> BlockComment(lines, decl)

ConfigKinds == {"config_key", "config_file", "config_definition"}
DocCommentCandidates ==
  {"class", "abstract_class", "interface", "enum", "annotation_type",
   "method", "endpoint", "entity", "service", "repository", "component",
   "guard", "middleware"}
-----------------------------------------------------------------------------
(* SnippetStore.ExtractWithContext, for evidence packs and search results.  *)
(* The declaration's lines come from the graph, the file from the disk: it   *)
(* may have become shorter since.                                           *)

CONSTANTS MaxSnippetLines, DefaultContextLines

SnippetEnd(symStart, symEnd) == IF symEnd = 0 THEN symStart ELSE symEnd

\* The window as pair of lines; empty when it starts after it ends.
Snippet(symStart, symEnd, total) ==
  LET last == SnippetEnd(symStart, symEnd)
      start == Max({1, symStart - DefaultContextLines})
      end == Min({total, last + DefaultContextLines})
      centred == Max({1, ((symStart + last) \div 2) - (MaxSnippetLines \div 2)})
  IN IF end - start + 1 > MaxSnippetLines
     THEN <<centred, Min({total, centred + MaxSnippetLines - 1})>>
     ELSE <<start, end>>
=============================================================================
