------------------------------ MODULE Adapters ------------------------------
(***************************************************************************)
(* How the providers' modules turn what the network brings into chunks.    *)
(*                                                                         *)
(* A reply is a sequence of deltas.  On the wire of the SSE providers each *)
(* is a line, and its end, NewLine, may come later than the line.  Yqcloud *)
(* sends bare text, and providers/pollinations-get.js reads all of it at   *)
(* once.  The tags around a model's thoughts are two tokens each, because  *)
(* deltas may cut them in two.                                             *)
(***************************************************************************)
EXTENDS ToolCalls

Formats == {"airforce", "pollinations", "yqcloud", "get"}

\* Answers in these are nothing but text.
Bare == {"yqcloud", "get"}

\* A delta: content, whether it brings reasoning_content, and tool_calls.
Delta == [text : Seq(STRING), thought : BOOLEAN, calls : Seq(Fragment)]

NewLine == [newline |-> TRUE]

Content(text) == [type |-> "content", text |-> text, call |-> <<>>]
Reasoning == [type |-> "reasoning", text |-> <<>>, call |-> <<>>]
ToolCall(f) == [type |-> "tool_call_delta", text |-> <<>>, call |-> <<f>>]

\* A reply as it goes over the wire.
Atoms(format, lines) ==
    IF format = "yqcloud" THEN lines
    ELSE [i \in 1..(2 * Len(lines)) |-> IF i % 2 = 1 THEN lines[(i + 1) \div 2]
                                        ELSE NewLine]

OpenAt(text, i) == i < Len(text) /\ text[i] = "<think" /\ text[i + 1] = ">"
CloseAt(text, i) == i < Len(text) /\ text[i] = "</think" /\ text[i + 1] = ">"

\* The loop over one delta's text: what is left of it, and inThinkBlock after it.
StripInline(text, inThinkBlock) ==
    LET from[i \in 1..(Len(text) + 1)] == [inside \in BOOLEAN |->
            IF i > Len(text) THEN [inside |-> inside, out |-> <<>>]
            ELSE IF IF inside THEN CloseAt(text, i) ELSE OpenAt(text, i)
            THEN from[i + 2][~inside]
            ELSE IF inside THEN from[i + 1][inside]
            ELSE [from[i + 1][inside] EXCEPT !.out = <<text[i]>> \o @]]
    IN  from[1][inThinkBlock]

\* stripThinkTags() of the same file, on a whole text: blocks go, and an open one
\* hides the rest.
Hidden(text, i) == \E j \in 1..i : /\ OpenAt(text, j)
                                   /\ \A k \in j..(i - 2) : ~CloseAt(text, k)

Show(out, w) == IF w.hidden THEN out ELSE Append(out, w.word)

StripThinkTags(text) ==
    FoldLeft(Show, <<>>, [i \in DOMAIN text |-> [word |-> text[i], hidden |-> Hidden(text, i)]])

\* The chunks of one line, in the order of the code, and inThinkBlock after it.
AirforceLine(d, inThinkBlock) ==
    LET strip == StripInline(d.text, inThinkBlock) IN
    [inside |-> strip.inside,
     chunks |-> [i \in DOMAIN d.calls |-> ToolCall(d.calls[i])]
                \o (IF d.text = <<>> /\ d.thought THEN <<Reasoning>> ELSE <<>>)
                \o (IF strip.out # <<>> THEN <<Content(strip.out)>> ELSE <<>>)]

PollinationsLine(d) ==
    (IF d.text # <<>> THEN <<Content(d.text)>> ELSE <<>>)
    \o (IF d.thought THEN <<Reasoning>> ELSE <<>>)
    \o [i \in DOMAIN d.calls |-> ToolCall(d.calls[i])]

\* The lines that are complete in what was received, and what is left of it.
LastNewLine(atoms) == Max({ i \in DOMAIN atoms : atoms[i] = NewLine } \cup {0})

AddLine(lines, atom) == IF atom = NewLine THEN lines ELSE Append(lines, atom)

Lines(atoms) == FoldLeft(AddLine, <<>>, SubSeq(atoms, 1, LastNewLine(atoms)))

Rest(atoms) == SubSeq(atoms, LastNewLine(atoms) + 1, Len(atoms))

AddText(s, d) == s \o d.text

Text(deltas) == FoldLeft(AddText, <<>>, deltas)

AddCalls(s, d) == s \o d.calls

Fragments(deltas) == FoldLeft(AddCalls, <<>>, deltas)

\* The chunks of lines, and inThinkBlock after them.
AirforceLines(lines, inThinkBlock) ==
    LET from[i \in 1..(Len(lines) + 1)] == [inside \in BOOLEAN |->
            IF i > Len(lines) THEN [inside |-> inside, chunks |-> <<>>]
            ELSE LET line == AirforceLine(lines[i], inside) IN
                 [from[i + 1][line.inside] EXCEPT !.chunks = line.chunks \o @]]
    IN  from[1][inThinkBlock]

AddChunks(chunks, d) == chunks \o PollinationsLine(d)

\* A piece of the stream is decoded: the chunks it completes, in order.  Parser
\* state: the buffer, and inThinkBlock.
Decoded(format, parser, piece) ==
    LET atoms == parser.buffer \o piece
        lines == Lines(atoms)
        stripped == AirforceLines(lines, parser.inside)
    IN  CASE format = "airforce" ->
               [buffer |-> Rest(atoms), inside |-> stripped.inside,
                due |-> stripped.chunks]
          [] format = "pollinations" ->
               [buffer |-> Rest(atoms), inside |-> FALSE,
                due |-> FoldLeft(AddChunks, <<>>, lines)]
          [] format = "yqcloud" ->
               [buffer |-> <<>>, inside |-> FALSE,
                due |-> IF Text(piece) = <<>> THEN <<>> ELSE <<Content(Text(piece))>>]
=============================================================================
