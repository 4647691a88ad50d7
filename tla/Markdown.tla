------------------------------ MODULE Markdown ------------------------------
(***************************************************************************)
(* The loop of renderMarkdownHtml() (src/ui/markdown.js), which cuts the   *)
(* lines of a reply into blocks.  The page calls it with all of a reply    *)
(* that has come in, once for each chunk.  What a line says is left out;   *)
(* its kind is what the regular expressions of the loop make of it:        *)
(*   fence   three backquotes, then at most one word                       *)
(*   ticks   three backquotes and more than a word                         *)
(*   heading two or three hashes and a title                               *)
(*   marks   a heading to the test that ends paragraphs only: four hashes  *)
(*           or more, or no title (yet)                                    *)
(***************************************************************************)
EXTENDS Integers, SequencesExt

Kinds == {"fence", "ticks", "heading", "marks", "bullet", "number", "blank", "text"}

\* The first line from i on of a kind that is not among ks, or the end.
RunEnd(lines, i, ks) ==
    Min({k \in i..Len(lines) : lines[k] \notin ks} \cup {Len(lines) + 1})

\* i after one iteration of the loop.
Iterate(lines, i) ==
    CASE lines[i] = "fence" ->
             LET closing == RunEnd(lines, i + 1, Kinds \ {"fence", "ticks"})
             IN  IF closing <= Len(lines) THEN closing + 1 ELSE closing
      [] lines[i] \in {"heading", "blank"} -> i + 1
      [] lines[i] \in {"bullet", "number"} -> RunEnd(lines, i, {lines[i]})
      [] OTHER -> RunEnd(lines, i, {"text"})

\* i when the iterations begin, the first at 0.  An iteration that does not move i is
\* repeated for ever.
Starts(lines) ==
    LET at[n \in 0..Len(lines)] ==
            IF n = 0 THEN 1
            ELSE IF at[n - 1] > Len(lines) THEN at[n - 1] ELSE Iterate(lines, at[n - 1])
    IN  at

\* renderMarkdownHtml(lines) returns: i passes the last line.
Renders(lines) == Starts(lines)[Len(lines)] > Len(lines)

\* A reference for Renders, told line by line: outside a fenced block no line may look
\* like a heading or a fence without being one.
Scan(state, kind) ==
    CASE state = "stuck" -> "stuck"
      [] state = "fenced" -> IF kind \in {"fence", "ticks"} THEN "open" ELSE "fenced"
      [] state = "open" -> IF kind = "fence" THEN "fenced"
                           ELSE IF kind \in {"ticks", "marks"} THEN "stuck" ELSE "open"

Scanned(lines) == FoldLeft(Scan, "open", lines)
=============================================================================
