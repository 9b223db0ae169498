-------------------------- MODULE StatementCacheOps --------------------------
(***************************************************************************)
(* The operations of StatementCache (src/src/common/statement_cache.rs) on  *)
(* the keys of its LruCache (the `lru` crate): a cache is the sequence of   *)
(* its keys, least recently used first.  StatementCache adds the stored     *)
(* statements and the state machine; the driver modules use these operators *)
(* for their own caches.                                                    *)
(***************************************************************************)
EXTENDS Integers, Sequences

CONSTANT Capacity  \* the capacity given to StatementCache::new

\* StatementCache::new unwraps NonZeroUsize::new(capacity).
ASSUME CapacityAssumption == Capacity \in Nat \ {0}
-----------------------------------------------------------------------------
Keys(c) == {c[i] : i \in DOMAIN c}

contains_key(c, k) == \E i \in DOMAIN c : c[i] = k

IndexOf(c, k) == CHOOSE i \in DOMAIN c : c[i] = k

\* LruCache::pop_entry of a key that is present.
pop_entry(c, k) ==
    SubSeq(c, 1, IndexOf(c, k) - 1) \o SubSeq(c, IndexOf(c, k) + 1, Len(c))

\* LruCache::get_mut makes the key it finds the most recently used one.
get_mut(c, k) == IF contains_key(c, k) THEN Append(pop_entry(c, k), k) ELSE c

remove_lru(c) == IF c = <<>> THEN c ELSE Tail(c)

\* LruCache::put replaces the value of a present key, and drops the least
\* recently used entry of a full cache without giving it back.
put(c, k) ==
    IF contains_key(c, k) THEN get_mut(c, k)
    ELSE Append(IF Len(c) = Capacity THEN remove_lru(c) ELSE c, k)

MakeRoom_OffByOne(c, k) == IF contains_key(c, k) THEN pop_entry(c, k) ELSE c

\* What insert takes out of the cache before it puts k.
MakeRoom(c, k) ==
    IF Len(c) = Capacity /\ ~ contains_key(c, k) THEN remove_lru(c)
    ELSE IF contains_key(c, k) THEN pop_entry(c, k)
    ELSE c

insert(c, k) == put(MakeRoom(c, k), k)

\* The keys whose statement insert returns: none or one.
Displaced(c, k) == Keys(c) \ Keys(MakeRoom(c, k))
=============================================================================
