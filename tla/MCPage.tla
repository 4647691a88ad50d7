------------------------------- MODULE MCPage -------------------------------
EXTENDS Page

MCCallers == 1..MaxRequests

\* A reply with every kind of block; a reply of which the hashes of a heading are there
\* and its title is not; a fence whose opening line has two words.
MCTexts == {<<"heading", "text", "text", "bullet", "bullet", "blank", "number", "fence",
              "marks", "ticks", "text">>,
            <<"heading", "text", "marks">>, <<"text", "ticks">>}

\* The loop and the scan of the lines agree on all texts of up to four lines.
ASSUME RendersAsScanned ==
    \A n \in 0..4 : \A lines \in [1..n -> Kinds] : Renders(lines) <=> Scanned(lines) # "stuck"
=============================================================================
