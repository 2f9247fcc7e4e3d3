------------------------------ MODULE ReviewRun ------------------------------
(***************************************************************************)
(* review.Service: the diff of two revisions, evidence from the graph for   *)
(* each changed file, and one call of the language model.  A diff is the    *)
(* sequence of its lines, each a record [is] with `is` one of               *)
(*   "file" (diff --git, with its path), "new" (+++ b/, with its path),     *)
(*   "hunk" (@@), "add", "remove", "other".                                *)
(* The model answers, or fails in one of the ways Client.Review tells apart. *)
(***************************************************************************)
EXTENDS GraphQueries

CONSTANTS
  MaxFiles,     \* 30 in the code
  NodesShown,   \* 25: nodes of a file that are listed
  CallersShown, \* 15
  Diffs         \* <<base, head>> -> the lines of the diff

DiffLines == [is : {"hunk", "add", "remove", "other"}]
               \cup [is : {"file", "new"}, path : STRING]
ASSUME ReviewAssumption ==
  MaxFiles \in Nat /\ \A revisions \in DOMAIN Diffs : Diffs[revisions] \in Seq(DiffLines)

ModelFailures == {"transport", "body", "status", "envelope", "choices", "content"}

\* One line; the file being read is the last of `files`.  A hunk is the number of
\* its lines: an added or removed line may also begin one, any other only goes on.
ParseLine(files, line) ==
  LET n == Len(files)
      more(f, start) ==
        LET h == f[n].hunks
        IN [f EXCEPT ![n].hunks = IF h = <<>> THEN start ELSE [h EXCEPT ![Len(h)] = @ + 1]]
  IN CASE line.is = "file" ->
            Append(files, [path |-> line.path, added |-> 0, removed |-> 0, hunks |-> <<>>])
       [] line.is # "file" /\ n = 0 -> files
       [] line.is = "new" /\ n > 0 -> [files EXCEPT ![n].path = line.path]
       [] line.is = "hunk" /\ n > 0 -> [files EXCEPT ![n].hunks = Append(@, 1)]
       [] line.is = "add" /\ n > 0 -> [more(files, <<1>>) EXCEPT ![n].added = @ + 1]
       [] line.is = "remove" /\ n > 0 -> [more(files, <<1>>) EXCEPT ![n].removed = @ + 1]
       [] line.is = "other" /\ n > 0 -> more(files, <<>>)
ParseDiff(raw) == FoldLeft(ParseLine, <<>>, raw)

\* git refuses revisions it does not know.
GitDiff(base, head) ==
  IF <<base, head>> \in DOMAIN Diffs
  THEN [ok |-> TRUE, files |-> ParseDiff(Diffs[<<base, head>>])]
  ELSE [ok |-> FALSE]

FilterFocus(files, focus) ==
  IF focus = {} THEN files ELSE Kept(files, LAMBDA f : f.path \in focus)

\* Callers over edges of any kind, the file's own nodes among them.  "" for a file
\* the graph does not know, and when a query fails.
EvidenceForFile(g, path) ==
  LET nodes == Take(ById({n \in g.nodes : n.file = path}), NodesShown)
      callers == {Node(g, e.from) : e \in {f \in g.edges : f.to \in Ids(ToSet(nodes))}}
  IN [nodes |-> RowsToNodes(nodes),
      callers |-> IF nodes = <<>> THEN <<>>
                  ELSE RowsToNodes(Take(ById(callers), CallersShown))]

BuildPrompt(graphWired, g, files) ==
  [i \in DOMAIN files |->
     With(files[i], IF graphWired THEN [evidence |-> EvidenceForFile(g, files[i].path)]
                    ELSE <<>>)]

\* Client.Review: every failure is an error; the model's name is the caller's
\* choice, else the one the answer names.
ClientReview(prompt, answer) ==
  IF answer \in ModelFailures THEN [ok |-> FALSE]
  ELSE [ok |-> TRUE, model |-> answer, prompt |-> prompt]

\* Service.Review
Review(graphWired, g, base, head, focus, answer) ==
  LET diff == GitDiff(IF base = "" THEN "HEAD~1" ELSE base,
                      IF head = "" THEN "HEAD" ELSE head)
  IN IF ~ diff.ok THEN [ok |-> FALSE]
     ELSE ClientReview(BuildPrompt(graphWired, g,
                                   Take(FilterFocus(diff.files, focus), MaxFiles)), answer)
=============================================================================
