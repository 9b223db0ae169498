--------------------------- MODULE StatementCache ---------------------------
(***************************************************************************)
(* The prepared-statement cache of src/src/common/statement_cache.rs, which *)
(* every driver puts in front of its prepared statements.  `inner` is the   *)
(* LruCache of the `lru` crate: the sequence of its keys, least recently    *)
(* used first; `val` holds the statement stored under each key.             *)
(*                                                                         *)
(* Every statement ever inserted is a fresh number.  `lastUse` is history:   *)
(* the time of use that the order of the sequence stands for.  LruMap says   *)
(* what the users of the cache rely on.                                      *)
(***************************************************************************)
EXTENDS StatementCacheOps

CONSTANTS Key,       \* the SQL strings used as cache keys
          MaxClock   \* bound on the number of calls

ASSUME MaxClockAssumption == MaxClock \in Nat

VARIABLES inner,     \* Seq(Key): the LruCache, least recently used key first
          val,       \* [Key -> Nat]: the statement stored under a cached key
          returned,  \* Nat: what the last insert returned, 0 for None
          clock,     \* Nat: number of calls made, also the next statement
          lastUse    \* history [Key -> Nat]: last insert or get_mut of a key

vars == <<inner, val, returned, clock, lastUse>>
-----------------------------------------------------------------------------
Init ==
    /\ inner = <<>>
    /\ val = [k \in Key |-> 0]
    /\ returned = 0
    /\ clock = 0
    /\ lastUse = [k \in Key |-> 0]

Tick == clock < MaxClock /\ clock' = clock + 1

GetMut(k) ==
    /\ Tick
    /\ inner' = get_mut(inner, k)
    /\ lastUse' = IF contains_key(inner, k)
                  THEN [lastUse EXCEPT ![k] = clock + 1] ELSE lastUse
    /\ UNCHANGED <<val, returned>>

Insert(k) ==
    LET out == {val[x] : x \in Displaced(inner, k)} IN
    /\ Tick
    /\ inner' = insert(inner, k)
    /\ val' = [val EXCEPT ![k] = clock + 1]
    /\ returned' = IF out = {} THEN 0 ELSE CHOOSE v \in out : TRUE
    /\ lastUse' = [lastUse EXCEPT ![k] = clock + 1]

\* The drivers' clear_cached_statements of PostgreSQL and MySQL drain the
\* cache this way, closing each statement on the server.
RemoveLru ==
    /\ Tick
    /\ inner' = remove_lru(inner)
    /\ returned' = IF inner = <<>> THEN 0 ELSE val[Head(inner)]
    /\ UNCHANGED <<val, lastUse>>

Clear ==
    /\ Tick
    /\ inner' = <<>>
    /\ UNCHANGED <<val, returned, lastUse>>

Next ==
    \/ \E k \in Key : GetMut(k)
    \/ \E k \in Key : Insert(k)
    \/ RemoveLru
    \/ Clear

Spec == Init /\ [][Next]_vars
-----------------------------------------------------------------------------
\* Every variable has its type; a key is cached at most once and the cache
\* never outgrows its capacity, whatever the order of the calls.
TypeOK ==
    /\ inner \in Seq(Key)
    /\ Len(inner) <= Capacity
    /\ \A i, j \in DOMAIN inner : inner[i] = inner[j] => i = j
    /\ val \in [Key -> 0..MaxClock]
    /\ returned \in 0..MaxClock
    /\ clock \in 0..MaxClock
    /\ lastUse \in [Key -> 0..MaxClock]

\* The sequence is ordered by last use, the order "least recently used" is
\* about: a get_mut or an insert of a present key moves it to the young end.
OrderedByUse ==
    /\ \A i, j \in DOMAIN inner : i < j => lastUse[inner[i]] < lastUse[inner[j]]
    /\ \A i \in DOMAIN inner : lastUse[inner[i]] <= clock

Lru == INSTANCE LruMap WITH held <- Keys(inner), stmt <- val, used <- lastUse,
                            out <- returned, now <- clock

\* The cache keeps the promise of an LRU map.  Whatever leaves it is given back
\* to the caller, who closes it on the server, or is cleared: LruCache::put would
\* drop an entry silently, so insert must have made room before it calls put.
\* What insert pushes out of a full cache, and remove_lru takes, is the
\* statement not used for longest ("the oldest statement will get dropped"), and
\* nothing is pushed out of a cache that is not full.
ImplementsLru == Lru!Spec
=============================================================================
