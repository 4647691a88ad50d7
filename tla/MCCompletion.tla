---------------------------- MODULE MCCompletion ----------------------------
EXTENDS Completion

CONSTANTS a, p, y, g

MCFormat == a :> "airforce" @@ p :> "pollinations" @@ y :> "yqcloud" @@ g :> "get"

\* Failover from every kind to every other is in some order.
MCOrders == {<<a, p>>, <<p, a>>, <<g, y>>}

Says(text) == [text |-> text, thought |-> FALSE, calls |-> <<>>]
Thinks == [text |-> <<>>, thought |-> TRUE, calls |-> <<>>]
Calls(fs) == [text |-> <<>>, thought |-> FALSE, calls |-> fs]

Part(i, id, name, args) == [index |-> i, id |-> id, name |-> name, args |-> args]
Meant(id, name, args) == [id |-> id, name |-> name, args |-> args]

Whole == <<"{", "v", "}">>

\* A thought in one delta, one across deltas, and a tag cut in two.
Thoughtful == [lines |-> <<Says(<<"x", "<think", ">", "h", "</think", ">">>),
                           Says(<<"y", "<think", ">">>),
                           Says(<<"h", "</think", ">", "z">>)>>, meant |-> <<>>]
Cut == [lines |-> <<Says(<<"x", "<think">>), Says(<<">", "h">>)>>, meant |-> <<>>]

\* A call fragment by fragment; three calls side by side, one without arguments; a
\* call whose tail has an index of its own, alone and after a call that needs none;
\* one whose tail begins like arguments.
Streamed == [lines |-> <<Thinks, Calls(<<Part(0, <<"i">>, <<"f">>, <<"{">>)>>),
                         Calls(<<Part(0, <<>>, <<>>, <<"v", "}">>)>>)>>,
             meant |-> <<Meant(<<"i">>, <<"f">>, Whole)>>]
Parallel == [lines |-> <<Calls(<<Part(0, <<>>, <<"f">>, <<>>),
                                 Part(2, <<>>, <<"h">>, <<"{">>)>>),
                         Calls(<<Part(1, <<>>, <<"g">>, <<"v">>),
                                 Part(2, <<>>, <<>>, <<"v", "}">>)>>)>>,
             meant |-> <<Meant(<<"call_", "0">>, <<"f">>, <<>>),
                         Meant(<<"call_", "1">>, <<"g">>, <<"v">>),
                         Meant(<<"call_", "2">>, <<"h">>, Whole)>>]
Apart == [lines |-> <<Calls(<<Part(0, <<"i">>, <<"f">>, <<"{", "v">>)>>),
                      Calls(<<Part(1, <<>>, <<>>, <<"}">>)>>)>>,
          meant |-> <<Meant(<<"i">>, <<"f">>, Whole)>>]
ApartLater == [lines |-> <<Calls(<<Part(0, <<"i">>, <<"f">>, Whole)>>),
                           Calls(<<Part(2, <<>>, <<>>, <<"}">>)>>),
                           Calls(<<Part(1, <<>>, <<"g">>, <<"{">>)>>)>>,
               meant |-> <<Meant(<<"i">>, <<"f">>, Whole),
                           Meant(<<"call_", "1">>, <<"g">>, <<"{", "}">>)>>]
Misleading == [lines |-> <<Calls(<<Part(0, <<"i">>, <<"f">>, <<"{">>),
                                   Part(1, <<>>, <<>>, <<"{", "}", "}">>)>>)>>,
               meant |-> <<Meant(<<"i">>, <<"f">>, <<"{", "{", "}", "}">>)>>]

Plain == [lines |-> <<Says(<<"x">>), Says(<<"y">>)>>, meant |-> <<>>]

MCReplies == a :> {Thoughtful, Cut, Streamed} @@ p :> {Parallel, Apart, ApartLater, Misleading}
             @@ y :> {Plain} @@ g :> {Plain}
=============================================================================
