------------------------------ MODULE MCRouter ------------------------------
EXTENDS Router

AutoPlain == [provider |-> AutoId, tools |-> FALSE, verbose |-> FALSE]
AutoTools == [provider |-> AutoId, tools |-> TRUE, verbose |-> TRUE]
PinnedTools(p) == [provider |-> p, tools |-> TRUE, verbose |-> FALSE]

MCRegistrations == {[id |-> p, capability |-> "plain", prepend |-> TRUE,
                     addToFailover |-> TRUE] : p \in ToolIds}

\* One provider is named twice, before another one.
MCOrders == {<<p, p, q>> : p \in Ids \ ToolIds, q \in ToolIds}

Symmetric == Permutations(Callers)

MCAsks == {AutoPlain, AutoTools} \cup {PinnedTools(p) : p \in ToolIds}

\* Where the registry changes, every automatic call reports its failures.
MCRegistryAsks == {[AutoPlain EXCEPT !.verbose = TRUE], AutoTools}
                      \cup {PinnedTools(p) : p \in ToolIds}
=============================================================================
