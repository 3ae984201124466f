-------------------------------- MODULE Cache --------------------------------
(***************************************************************************)
(* The in-memory response cache, src/src/modules/Cache.js.  The Map _mem   *)
(* is the sequence of its entries in insertion order, least recently used  *)
(* first.  An entry's timestamp is kept as its age in clock ticks, which   *)
(* stops growing once the entry is too old to be served.                   *)
(***************************************************************************)
EXTENDS Integers, Sequences, SequencesExt

CONSTANTS
    Ttl, StaleTtl,   \* options.ttl and options.staleTtl, in clock ticks
    MaxItems         \* options.maxItems

ASSUME CacheAssumption ==
    /\ Ttl \in Nat
    /\ StaleTtl \in Nat
    /\ MaxItems \in Nat \ {0}

MaxAge == Ttl + StaleTtl + 1

Keys(mem) == {mem[i].key : i \in DOMAIN mem}

Place(mem, key) == CHOOSE i \in DOMAIN mem : mem[i].key = key

EntryFor(mem, key) == mem[Place(mem, key)]

\* Map.delete: the other entries keep their order.
Drop(mem, key) == IF key \in Keys(mem) THEN RemoveAt(mem, Place(mem, key)) ELSE mem

\* lookup: hit, stale or miss; staleAllowed is options.staleWhileRevalidate.
Freshness(mem, key, staleAllowed) ==
    IF key \notin Keys(mem) THEN "miss"
    ELSE LET age == EntryFor(mem, key).age
         IN  IF age <= Ttl THEN "hit"
             ELSE IF staleAllowed /\ age <= Ttl + StaleTtl THEN "stale" ELSE "miss"

\* What a lookup leaves behind: a served entry moves to the young end, an expired one goes.
AfterLookup(mem, key, staleAllowed) ==
    IF Freshness(mem, key, staleAllowed) = "miss"
    THEN Drop(mem, key)
    ELSE Append(Drop(mem, key), EntryFor(mem, key))

\* The eviction loop of set: drop from the old end until there is room.
Evict(mem) ==
    IF Len(mem) < MaxItems THEN mem
    ELSE SubSeq(mem, Len(mem) - MaxItems + 2, Len(mem))

Store(mem, key, data) ==
    Append(Evict(Drop(mem, key)), [key |-> key, age |-> 0, data |-> data])

\* One clock tick.
Age(mem) ==
    [i \in DOMAIN mem |-> [mem[i] EXCEPT !.age = IF @ < MaxAge THEN @ + 1 ELSE @]]
=============================================================================
