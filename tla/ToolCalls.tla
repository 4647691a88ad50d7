----------------------------- MODULE ToolCalls -----------------------------
(***************************************************************************)
(* The tool calls of a completion: how the handlers gather the fragments   *)
(* of a reply by index, and how src/core/proxy-helpers.js makes calls of   *)
(* them.  A JavaScript string is a sequence; <<>> also stands for an       *)
(* absent one.  Arguments are JSON texts over three tokens: "{" and "}"    *)
(* nest, "v" is anything between them.                                     *)
(***************************************************************************)
EXTENDS Integers, FiniteSetsExt, SequencesExt

Tokens == {"{", "}", "v"}

\* A tool_call_delta chunk, and an entry of the accumulator without its index.
Fragment == [index : Nat, id : Seq(STRING), name : Seq(STRING), args : Seq(Tokens)]

NoEntry == [id |-> <<>>, name |-> <<>>, args |-> <<>>]

\* The accumulator acc after one more fragment: an id replaces the one before,
\* names and arguments grow.
Accumulate(acc, f) ==
    LET e == IF f.index \in DOMAIN acc THEN acc[f.index] ELSE NoEntry
        grown == [id |-> IF f.id = <<>> THEN e.id ELSE f.id,
                  name |-> e.name \o f.name,
                  args |-> e.args \o f.args]
    IN  [i \in DOMAIN acc \cup {f.index} |-> IF i = f.index THEN grown ELSE acc[i]]

LooksLikeOpenJson(s) == s # <<>> /\ Head(s) = "{"

\* How deep the text is nested after its first n tokens.
Depth(s, n) == Cardinality({ i \in 1..n : s[i] = "{" })
                   - Cardinality({ i \in 1..n : s[i] = "}" })

\* JSON.parse(s) succeeds: one value, closed exactly at the end.
IsCompleteJson(s) ==
    \/ s = <<"v">>
    \/ /\ LooksLikeOpenJson(s)
       /\ { n \in 1..Len(s) : Depth(s, n) = 0 } = {Len(s)}

\* Mutant: the name of the entry is not looked at.
IsFragmentUnnamed(stitched, e) == /\ stitched # <<>>
                                  /\ e.args # <<>>
                                  /\ ~LooksLikeOpenJson(e.args)
                                  /\ ~IsCompleteJson(Last(stitched).args)

\* Entry e is the tail of the call before it, which came under an index of its own.
IsFragment(stitched, e) == /\ e.name = <<>>
                           /\ stitched # <<>>
                           /\ e.args # <<>>
                           /\ ~LooksLikeOpenJson(e.args)
                           /\ ~IsCompleteJson(Last(stitched).args)

Stitch(stitched, e) ==
    IF IsFragment(stitched, e)
    THEN [stitched EXCEPT ![Len(stitched)].args = @ \o e.args]
    ELSE Append(stitched, e)

\* The message's calls: the entries by index, tails stitched on, ids made up where
\* none came.
BuildToolCalls(acc) ==
    LET indices == SelectSeq([n \in 1..(Max(DOMAIN acc \cup {0}) + 1) |-> n - 1],
                             LAMBDA i : i \in DOMAIN acc)
        entries == [n \in DOMAIN indices |-> acc[indices[n]]]
        stitched == FoldLeft(Stitch, <<>>, entries)
    IN  [n \in DOMAIN stitched |->
            IF stitched[n].id \in {<<>>, <<"">>}
            THEN [stitched[n] EXCEPT !.id = <<"call_", ToString(n - 1)>>]
            ELSE stitched[n]]
=============================================================================
