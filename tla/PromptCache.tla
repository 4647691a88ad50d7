---------------------------- MODULE PromptCache ----------------------------
(***************************************************************************)
(* The prompt cache of src/core/cache.js: a JavaScript Map from request    *)
(* keys to answers with an expiry time, read in insertion order for the    *)
(* eviction of the oldest.  Its users compose the actions below.           *)
(***************************************************************************)
EXTENDS Integers, SequencesExt

CONSTANTS Keys,        \* what keyFor() tells apart
          TtlMs,       \* this.ttlMs
          MaxEntries   \* this.max

ASSUME CacheAssumption == TtlMs \in Nat /\ MaxEntries \in Nat \ {0}

VARIABLES entries,  \* this.map, in the map's order
          now       \* Date.now()

Entry(Values) == [key : Keys, value : Values, expires : Nat]

CacheTypeOK(Values) ==
    /\ entries \in Seq(Entry(Values))
    /\ Len(entries) <= MaxEntries
    /\ \A i, j \in DOMAIN entries : entries[i].key = entries[j].key => i = j
    /\ now \in Nat

CacheInit == entries = <<>> /\ now = 0

IsFor(k) == { e \in Range(entries) : e.key = k }

\* map.delete(k)
Without(k) == IF IsFor(k) = {} THEN entries
              ELSE RemoveAt(entries, CHOOSE i \in DOMAIN entries : entries[i].key = k)

Fresh(k) == { e \in IsFor(k) : e.expires >= now }

\* Mutant: a hit renews the lifetime.
HitRenews(k, v) == \E e \in Fresh(k) :
                      /\ v = e.value
                      /\ entries' = Append(Without(k), [e EXCEPT !.expires = now + TtlMs])

\* get(k) finds the answer v and moves its entry to the young end.
Hit(k, v) == \E e \in Fresh(k) : /\ v = e.value
                                 /\ entries' = Append(Without(k), e)

\* get(k) finds nothing; an expired entry is dropped.
Miss(k) == /\ Fresh(k) = {}
           /\ entries' = Without(k)

\* The map after map.set(): a key it holds keeps its place.
WithEntry(e) == IF IsFor(e.key) = {} THEN Append(entries, e)
                ELSE [i \in DOMAIN entries |-> IF entries[i].key = e.key THEN e
                                               ELSE entries[i]]

\* Mutant: the size is tested before the new entry is in the map.
PutOffByOne(k, v) ==
    LET e == [key |-> k, value |-> v, expires |-> now + TtlMs] IN
    entries' = IF Len(entries) > MaxEntries THEN Tail(WithEntry(e)) ELSE WithEntry(e)

\* put(k, v): one entry more at most, so dropping one restores the bound.
Put(k, v) ==
    LET map == WithEntry([key |-> k, value |-> v, expires |-> now + TtlMs]) IN
    entries' = IF Len(map) > MaxEntries THEN Tail(map) ELSE map

Clear == entries' = <<>>
=============================================================================
