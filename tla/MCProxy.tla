------------------------------ MODULE MCProxy ------------------------------
(***************************************************************************)
(* Small instances of Proxy for TLC.                                       *)
(***************************************************************************)
EXTENDS Proxy

CONSTANTS k1, k2, p, q

Chat(k, t, provider) == [kind |-> "chat", key |-> k, tools |-> t, provider |-> provider]

Other(kind) == [kind |-> kind, key |-> k1, tools |-> FALSE, provider |-> AutoId]

\* Every kind of request, two keys, with and without tools.
MCAsks == {Chat(k1, FALSE, AutoId), Chat(k2, FALSE, AutoId), Chat(k1, TRUE, AutoId),
           Other("models"), Other("simple"), Other("preflight")}

\* The same question, pinned and not.
PinAsks == {Chat(k1, FALSE, AutoId), Chat(k1, FALSE, p)}
=============================================================================
