------------------------------- MODULE LruMap -------------------------------
(***************************************************************************)
(* What a statement cache promises its users (the drivers' get_or_prepare   *)
(* and Statements::get): a map of at most Capacity keys to statements.  A   *)
(* statement leaves it only into the caller's hands or by clear, and when   *)
(* one has to go it is the one that was not used for longest.  There is no  *)
(* order of entries here, only the time of their last use.                  *)
(***************************************************************************)
EXTENDS Integers, FiniteSets

CONSTANTS Key, Capacity, MaxClock

VARIABLES held,  \* the keys that have a statement
          stmt,  \* the statement stored last under each key
          used,  \* when a key was used last
          out,   \* the statement the last call gave back, 0 for none
          now    \* the number of calls

lruVars == <<held, stmt, used, out, now>>

Init ==
    /\ held = {} /\ out = 0 /\ now = 0
    /\ stmt = [k \in Key |-> 0]
    /\ used = [k \in Key |-> 0]

Passes == now < MaxClock /\ now' = now + 1

Use(k) == used' = [used EXCEPT ![k] = now + 1]

Oldest(k) == k \in held /\ \A x \in held : used[k] <= used[x]

Hit(k) ==
    /\ Passes /\ k \in held
    /\ Use(k)
    /\ UNCHANGED <<held, stmt, out>>

Miss(k) ==
    /\ Passes /\ k \notin held
    /\ UNCHANGED <<held, stmt, used, out>>

Store(k) == Passes /\ Use(k) /\ stmt' = [stmt EXCEPT ![k] = now + 1]

Replace(k) == Store(k) /\ k \in held /\ held' = held /\ out' = stmt[k]

Add(k) ==
    /\ Store(k)
    /\ k \notin held /\ Cardinality(held) < Capacity
    /\ held' = held \cup {k} /\ out' = 0

Displace(k, o) ==
    /\ Store(k)
    /\ k \notin held /\ Cardinality(held) = Capacity /\ Oldest(o)
    /\ held' = (held \ {o}) \cup {k} /\ out' = stmt[o]

Remove(o) ==
    /\ Passes /\ Oldest(o)
    /\ held' = held \ {o} /\ out' = stmt[o]
    /\ UNCHANGED <<stmt, used>>

RemoveNone ==
    /\ Passes /\ held = {} /\ out' = 0
    /\ UNCHANGED <<held, stmt, used>>

Clear ==
    /\ Passes /\ held' = {}
    /\ UNCHANGED <<stmt, used, out>>

Next ==
    \/ \E k \in Key : Hit(k) \/ Miss(k) \/ Replace(k) \/ Add(k)
    \/ \E k, o \in Key : Displace(k, o)
    \/ \E o \in Key : Remove(o)
    \/ RemoveNone
    \/ Clear

Spec == Init /\ [][Next]_lruVars
=============================================================================
