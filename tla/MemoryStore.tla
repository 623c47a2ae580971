---------------------------- MODULE MemoryStore ----------------------------
(***************************************************************************)
(* MemoryCacheStore: a Map in insertion order and the key that was stored  *)
(* or read last.  The operators are the methods; a store is the sequence   *)
(* of its entries, oldest first, and newestKey.                            *)
(***************************************************************************)
EXTENDS Naturals, Sequences, FiniteSets

CONSTANTS MaxEntries, None

Empty == [entries |-> <<>>, newest |-> None]

\* The elements of s at the indices of I, in their order.
Select(s, I) ==
    [n \in 1..Cardinality(I) |-> s[CHOOSE i \in I : Cardinality({j \in I : j <= i}) = n]]

Others(m, k) == Select(m.entries, {i \in DOMAIN m.entries : m.entries[i].key # k})
Holds(m, k) == \E i \in DOMAIN m.entries : m.entries[i].key = k
Found(m, k) ==
    IF Holds(m, k) THEN m.entries[CHOOSE i \in DOMAIN m.entries : m.entries[i].key = k].entry ELSE None

\* get(): a hit becomes the most recently used entry.
Touched(m, k) ==
    IF ~Holds(m, k) \/ m.newest = k THEN m
    ELSE [entries |-> Append(Others(m, k), [key |-> k, entry |-> Found(m, k)]), newest |-> k]

Room(m, k) ==
    LET kept == Others(m, k)
    IN  IF Len(kept) < MaxEntries THEN kept ELSE SubSeq(kept, Len(kept) - MaxEntries + 2, Len(kept))

\* set(): the oldest entries make room.
Stored(m, k, e) ==
    IF MaxEntries = 0 THEN m
    ELSE [entries |-> Append(Room(m, k), [key |-> k, entry |-> e]), newest |-> k]

\* delete() of each of these keys; invalidateTags() for those with the tag.
Without(m, gone) ==
    [entries |-> Select(m.entries, {i \in DOMAIN m.entries : m.entries[i].key \notin gone}),
     newest |-> IF m.newest \in gone THEN None ELSE m.newest]

Deleted(m, k) == Without(m, {k})

Tagged(m) == {m.entries[i].key : i \in {j \in DOMAIN m.entries : m.entries[j].entry.tagged}}

\* A read of the key newestKey names is not moved to the end: that entry has to
\* stand there, or the entry a later write evicts is not the least recently used.
NewestIsLast(m) == Holds(m, m.newest) => m.entries[Len(m.entries)].key = m.newest
=============================================================================
