---------------------------- MODULE Common_proofs ----------------------------
(***************************************************************************)
(* The two parts that every driver shares.                                  *)
(*                                                                         *)
(* StatementCache implements LruMap, for every capacity and every set of    *)
(* keys: a sequence ordered by last use does the work of the times of use.  *)
(*                                                                         *)
(* The pool, for any number of tasks and connections: a connection is in    *)
(* one place, and get hands out none that was closed.                       *)
(***************************************************************************)
EXTENDS StatementCache, FastPool, FiniteSetTheorems, TLAPS

Unique(c) == \A i, j \in DOMAIN c : c[i] = c[j] => i = j

\* p is c without its element at j.
Without(p, c, j) ==
    /\ p \in Seq(Key) /\ Len(p) = Len(c) - 1
    /\ \A i \in 1..Len(p) : p[i] = IF i < j THEN c[i] ELSE c[i + 1]

\* An injective sequence of keys has as many keys as elements: what insert
\* compares with the capacity is the number of statements.
LEMMA KeysCounted ==
  ASSUME NEW c \in Seq(Key), Unique(c)
  PROVE  Cardinality(Keys(c)) = Len(c)
<1>1. c \in Bijection(1..Len(c), Keys(c))
  BY DEF Bijection, Injection, Surjection, IsInjective, Keys, Unique
<1>2. ExistsBijection(1..Len(c), Keys(c))
  BY <1>1 DEF ExistsBijection
<1> QED BY <1>2, FS_CountingElements

\* Taking one element out takes one key out and keeps the order of the others.
LEMMA WithoutKey ==
  ASSUME NEW c \in Seq(Key), Unique(c), NEW j \in 1..Len(c), NEW p, Without(p, c, j)
  PROVE  /\ Unique(p)
         /\ Keys(p) = Keys(c) \ {c[j]}
<1> USE DEF Without
<1>1. Unique(p)
  <2> SUFFICES ASSUME NEW m \in 1..Len(p), NEW n \in 1..Len(p), p[m] = p[n], m < n
               PROVE  FALSE
    BY DEF Unique
  <2>1. PICK x \in 1..Len(c) : p[m] = c[x] /\ x = IF m < j THEN m ELSE m + 1 OBVIOUS
  <2>2. PICK y \in 1..Len(c) : p[n] = c[y] /\ y = IF n < j THEN n ELSE n + 1 OBVIOUS
  <2>3. c[x] = c[y] BY <2>1, <2>2, Zenon
  <2>4. x \in DOMAIN c /\ y \in DOMAIN c OBVIOUS
  <2>5. x = y BY <2>3, <2>4, Zenon DEF Unique
  <2>6. x < y BY <2>1, <2>2
  <2> QED BY <2>5, <2>6
<1>2. ASSUME NEW x \in Keys(p) PROVE x \in Keys(c) \ {c[j]}
  BY <1>2 DEF Unique, Keys
<1>3. ASSUME NEW x \in Keys(c) \ {c[j]} PROVE x \in Keys(p)
  <2>1. PICK i \in 1..Len(c) : x = c[i] /\ i # j BY <1>3 DEF Keys
  <2>2. CASE i < j
    <3>1. i \in 1..Len(p) /\ p[i] = x BY <2>1, <2>2
    <3> QED BY <3>1 DEF Keys
  <2>3. CASE i > j
    <3>1. i - 1 \in 1..Len(p) /\ p[i - 1] = x BY <2>1, <2>3
    <3> QED BY <3>1 DEF Keys
  <2> QED BY <2>1, <2>2, <2>3
<1> QED BY <1>1, <1>2, <1>3

\* The length of a concatenation, and its elements.
LEMMA Concat ==
  ASSUME NEW a \in Seq(Key), NEW b \in Seq(Key)
  PROVE  /\ a \o b \in Seq(Key) /\ Len(a \o b) = Len(a) + Len(b)
         /\ \A i \in 1..Len(a) : (a \o b)[i] = a[i]
         /\ \A i \in 1..Len(b) : (a \o b)[Len(a) + i] = b[i]
OBVIOUS

\* What is in front of an element followed by what is behind it.
LEMMA Joined ==
  ASSUME NEW c \in Seq(Key), NEW n \in 1..Len(c),
         NEW a \in Seq(Key), Len(a) = n - 1, \A i \in 1..Len(a) : a[i] = c[i],
         NEW b \in Seq(Key), Len(b) = Len(c) - n, \A i \in 1..Len(b) : b[i] = c[n + i]
  PROVE  Without(a \o b, c, n)
<1>0. a \o b \in Seq(Key) /\ Len(a \o b) = Len(a) + Len(b)
  BY Concat, Zenon
<1>1. a \o b \in Seq(Key) /\ Len(a \o b) = Len(c) - 1
  BY <1>0
<1>2. ASSUME NEW i \in 1..(Len(c) - 1)
      PROVE  (a \o b)[i] = IF i < n THEN c[i] ELSE c[i + 1]
  <2>1. CASE i < n
    <3>1. i \in 1..Len(a) BY <2>1
    <3> QED BY <3>1, <2>1, Concat
  <2>2. CASE i >= n
    <3>1. i - (n - 1) \in 1..Len(b) /\ i = Len(a) + (i - (n - 1)) /\ i + 1 = n + (i - (n - 1))
      BY <2>2
    <3>2. PICK m \in 1..Len(b) : i = Len(a) + m /\ i + 1 = n + m BY <3>1
    <3>3. (a \o b)[Len(a) + m] = b[m] BY Concat
    <3>4. b[m] = c[n + m] OBVIOUS
    <3> QED BY <3>2, <3>3, <3>4, <2>2
  <2> QED BY <2>1, <2>2
<1> QED BY <1>1, <1>2, Zenon DEF Without

\* LruCache::pop_entry takes out the entry of its key,
LEMMA PopEntry ==
  ASSUME NEW c \in Seq(Key), NEW k, contains_key(c, k)
  PROVE  /\ IndexOf(c, k) \in 1..Len(c) /\ c[IndexOf(c, k)] = k
         /\ Without(pop_entry(c, k), c, IndexOf(c, k))
<1>1. IndexOf(c, k) \in 1..Len(c) /\ c[IndexOf(c, k)] = k
  BY DEF contains_key, IndexOf
<1>2. PICK n \in 1..Len(c) : n = IndexOf(c, k) BY <1>1
<1>3. pop_entry(c, k) = SubSeq(c, 1, n - 1) \o SubSeq(c, n + 1, Len(c))
  BY <1>2 DEF pop_entry
<1>4. PICK a : a = SubSeq(c, 1, n - 1) BY Zenon
<1>5. a \in Seq(Key) /\ Len(a) = n - 1 /\ \A i \in 1..Len(a) : a[i] = c[i] BY <1>4
<1>6. PICK b : b = SubSeq(c, n + 1, Len(c)) BY Zenon
<1>7. b \in Seq(Key) /\ Len(b) = Len(c) - n /\ \A i \in 1..Len(b) : b[i] = c[n + i] BY <1>6
<1>8. Without(a \o b, c, n) BY <1>5, <1>7, Joined, Zenon
<1> QED BY <1>1, <1>2, <1>3, <1>4, <1>6, <1>8

\* and pop_lru the first one.
LEMMA PopLru ==
  ASSUME NEW c \in Seq(Key), c # <<>>
  PROVE  Without(remove_lru(c), c, 1) /\ Head(c) = c[1] /\ 1 \in 1..Len(c)
BY DEF remove_lru, Without

\* A key that was not there becomes the youngest.
LEMMA PushKey ==
  ASSUME NEW p \in Seq(Key), Unique(p), NEW k \in Key, k \notin Keys(p)
  PROVE  /\ Append(p, k) \in Seq(Key) /\ Unique(Append(p, k))
         /\ Len(Append(p, k)) = Len(p) + 1
         /\ \A i \in 1..Len(p) : Append(p, k)[i] = p[i]
         /\ Append(p, k)[Len(p) + 1] = k
         /\ Keys(Append(p, k)) = Keys(p) \cup {k}
<1> DEFINE q == Append(p, k)
<1>1. q \in Seq(Key) /\ Len(q) = Len(p) + 1 /\ q[Len(p) + 1] = k
      /\ \A i \in 1..Len(p) : q[i] = p[i]
  OBVIOUS
<1> HIDE DEF q
<1>2. Unique(q) BY <1>1 DEF Unique, Keys
<1>3. Keys(q) = Keys(p) \cup {k} BY <1>1 DEF Keys
<1> QED BY <1>1, <1>2, <1>3 DEF q

-----------------------------------------------------------------------------
\* Inductive: the type and the order by use.
CacheInv == TypeOK /\ OrderedByUse

\* A new cache is empty.
LEMMA InitCache == Init => CacheInv /\ Lru!Init
<1> SUFFICES ASSUME Init PROVE CacheInv /\ Lru!Init
  OBVIOUS
<1>1. inner \in Seq(Key) /\ Len(inner) = 0 /\ DOMAIN inner = {} BY DEF Init
<1>2. Keys(inner) = {} BY <1>1 DEF Keys
<1> QED BY <1>1, <1>2, CapacityAssumption, MaxClockAssumption
        DEF Init, CacheInv, TypeOK, OrderedByUse, Lru!Init

\* The first key of the sequence is the one not used for longest.
LEMMA HeadOldest ==
  ASSUME CacheInv, inner # <<>>
  PROVE  Lru!Oldest(inner[1]) /\ inner[1] \in Key
<1> USE DEF CacheInv, TypeOK, OrderedByUse
<1>1. 1 \in DOMAIN inner /\ inner[1] \in Key OBVIOUS
<1>2. ASSUME NEW x \in Keys(inner) PROVE lastUse[inner[1]] <= lastUse[x]
  <2>1. PICK i \in 1..Len(inner) : x = inner[i] BY DEF Keys
  <2>2. CASE i = 1 BY <2>1, <2>2, <1>1
  <2>3. CASE 1 < i
    <3>1. lastUse[inner[1]] < lastUse[inner[i]] BY <2>3, <1>1
    <3>2. lastUse[inner[1]] \in Nat /\ lastUse[inner[i]] \in Nat BY <1>1
    <3> QED BY <2>1, <3>1, <3>2
  <2> QED BY <2>2, <2>3
<1> QED BY <1>1, <1>2 DEF Lru!Oldest, Keys

\* Taking an element out keeps the order by use,
LEMMA WithoutOrdered ==
  ASSUME CacheInv, NEW j \in 1..Len(inner), NEW p, Without(p, inner, j)
  PROVE  /\ p \in Seq(Key) /\ Unique(p) /\ Len(p) < Capacity
         /\ Keys(p) = Keys(inner) \ {inner[j]}
         /\ \A m, n \in DOMAIN p : m < n => lastUse[p[m]] < lastUse[p[n]]
         /\ \A m \in DOMAIN p : lastUse[p[m]] <= clock
<1>1. inner \in Seq(Key) /\ Unique(inner) BY DEF CacheInv, TypeOK, Unique
<1>2. p \in Seq(Key) /\ Len(p) = Len(inner) - 1 BY DEF Without
<1>3. Unique(p) /\ Keys(p) = Keys(inner) \ {inner[j]} BY <1>1, WithoutKey
<1>4. Len(p) < Capacity BY <1>1, <1>2, CapacityAssumption DEF CacheInv, TypeOK
<1>5. ASSUME NEW m \in DOMAIN p
      PROVE  \E x \in DOMAIN inner : p[m] = inner[x] /\ x = IF m < j THEN m ELSE m + 1
  <2>1. m \in 1..Len(p) BY <1>2
  <2>2. m \in 1..Len(inner) /\ m + 1 \in 1..Len(inner) BY <1>1, <1>2, <2>1
  <2>3. DOMAIN inner = 1..Len(inner) BY <1>1
  <2> QED BY <2>1, <2>2, <2>3 DEF Without
<1>6. ASSUME NEW m \in DOMAIN p, NEW n \in DOMAIN p, m < n
      PROVE  lastUse[p[m]] < lastUse[p[n]]
  <2>1. PICK x \in DOMAIN inner : p[m] = inner[x] /\ x = IF m < j THEN m ELSE m + 1 BY <1>5
  <2>2. PICK y \in DOMAIN inner : p[n] = inner[y] /\ y = IF n < j THEN n ELSE n + 1 BY <1>5
  <2>3. x < y BY <1>6, <2>1, <2>2, <1>2, <1>1
  <2> QED BY <2>1, <2>2, <2>3 DEF CacheInv, OrderedByUse
<1>7. ASSUME NEW m \in DOMAIN p PROVE lastUse[p[m]] <= clock
  BY <1>5 DEF CacheInv, OrderedByUse
<1> QED BY <1>2, <1>3, <1>4, <1>6, <1>7

\* and so does the passing of time.
LEMMA TickPreserves ==
  ASSUME CacheInv, Tick, UNCHANGED <<inner, val, lastUse>>, returned' \in 0..MaxClock
  PROVE  CacheInv'
<1>1. clock \in Nat /\ clock' = clock + 1 /\ clock' \in 0..MaxClock
  BY MaxClockAssumption DEF CacheInv, TypeOK, Tick
<1>2. TypeOK' BY <1>1 DEF CacheInv, TypeOK
<1>3. ASSUME NEW i \in DOMAIN inner PROVE lastUse[inner[i]] <= clock + 1
  <2>1. lastUse[inner[i]] \in Nat BY MaxClockAssumption DEF CacheInv, TypeOK
  <2> QED BY <1>1, <2>1 DEF CacheInv, OrderedByUse
<1> QED BY <1>1, <1>2, <1>3 DEF CacheInv, OrderedByUse

\* Times of use are natural numbers.
LEMMA UsesNat ==
  ASSUME CacheInv PROVE clock \in Nat /\ \A q \in Key : lastUse[q] \in Nat
BY MaxClockAssumption DEF CacheInv, TypeOK

\* Making a key that is not there the youngest keeps the order as well.
LEMMA PushOrdered ==
  ASSUME CacheInv, NEW p \in Seq(Key), Unique(p), Len(p) < Capacity,
         \A m, n \in DOMAIN p : m < n => lastUse[p[m]] < lastUse[p[n]],
         \A m \in DOMAIN p : lastUse[p[m]] <= clock,
         NEW k \in Key, k \notin Keys(p), Tick,
         inner' = Append(p, k), lastUse' = [lastUse EXCEPT ![k] = clock + 1],
         val' \in [Key -> 0..MaxClock], returned' \in 0..MaxClock
  PROVE  CacheInv' /\ Keys(inner)' = Keys(p) \cup {k}
<1>1. /\ inner' \in Seq(Key) /\ Unique(inner') /\ Len(inner') = Len(p) + 1
      /\ \A i \in 1..Len(p) : inner'[i] = p[i]
      /\ inner'[Len(p) + 1] = k
      /\ Keys(inner') = Keys(p) \cup {k}
  BY PushKey
<1>2. clock \in Nat /\ clock' = clock + 1 /\ clock' \in 0..MaxClock
  BY MaxClockAssumption DEF CacheInv, TypeOK, Tick
<1>3. lastUse' \in [Key -> 0..MaxClock] BY <1>2 DEF CacheInv, TypeOK
<1>4. Len(inner') <= Capacity BY <1>1, CapacityAssumption
<1>5. ASSUME NEW i \in 1..Len(p) PROVE lastUse'[p[i]] = lastUse[p[i]] /\ p[i] \in Key
  <2>1. p[i] \in Key /\ p[i] # k BY DEF Keys
  <2> QED BY <2>1 DEF CacheInv, TypeOK
<1>6. lastUse'[k] = clock + 1 BY DEF CacheInv, TypeOK
<1>7. DOMAIN inner' = 1..(Len(p) + 1) /\ DOMAIN p = 1..Len(p) BY <1>1
<1>8. ASSUME NEW m \in DOMAIN inner', NEW n \in DOMAIN inner', m < n
      PROVE  lastUse'[inner'[m]] < lastUse'[inner'[n]]
  <2>1. m \in 1..Len(p) BY <1>7, <1>8
  <2>2. CASE n \in 1..Len(p) BY <2>1, <2>2, <1>1, <1>5, <1>7, <1>8
  <2>3. CASE n = Len(p) + 1
    <3>1. lastUse[p[m]] <= clock BY <2>1, <1>7
    <3>2. lastUse[p[m]] \in Nat BY <2>1, <1>5, UsesNat
    <3>3. lastUse[p[m]] < clock + 1 BY <3>1, <3>2, <1>2
    <3> QED BY <2>1, <2>3, <1>1, <1>5, <1>6, <3>3
  <2> QED BY <2>2, <2>3, <1>7
<1>9. ASSUME NEW m \in DOMAIN inner' PROVE lastUse'[inner'[m]] <= clock'
  <2>1. CASE m \in 1..Len(p)
    <3>1. lastUse[p[m]] <= clock BY <2>1, <1>7
    <3>2. lastUse[p[m]] \in Nat BY <2>1, <1>5, UsesNat
    <3> QED BY <3>1, <3>2, <2>1, <1>1, <1>2, <1>5
  <2>2. CASE m = Len(p) + 1 BY <2>2, <1>1, <1>2, <1>6
  <2> QED BY <2>1, <2>2, <1>7
<1>10. TypeOK'
  BY <1>1, <1>2, <1>3, <1>4 DEF TypeOK, Unique
<1> QED BY <1>1, <1>8, <1>9, <1>10, Zenon DEF CacheInv, OrderedByUse, Keys

\* What insert leaves of the cache before it calls put: room for a key that is
\* not there, so that put drops nothing.
LEMMA RoomMade ==
  ASSUME CacheInv, NEW k \in Key
  PROVE  /\ insert(inner, k) = Append(MakeRoom(inner, k), k)
         /\ k \notin Keys(MakeRoom(inner, k))
         /\ MakeRoom(inner, k) \in Seq(Key) /\ Unique(MakeRoom(inner, k))
         /\ Len(MakeRoom(inner, k)) < Capacity
         /\ \A m, n \in DOMAIN MakeRoom(inner, k) :
               m < n => lastUse[MakeRoom(inner, k)[m]] < lastUse[MakeRoom(inner, k)[n]]
         /\ \A m \in DOMAIN MakeRoom(inner, k) : lastUse[MakeRoom(inner, k)[m]] <= clock
         /\ \/ k \in Keys(inner) /\ Keys(MakeRoom(inner, k)) = Keys(inner) \ {k}
            \/ /\ k \notin Keys(inner) /\ Cardinality(Keys(inner)) < Capacity
               /\ Keys(MakeRoom(inner, k)) = Keys(inner)
            \/ /\ k \notin Keys(inner) /\ Cardinality(Keys(inner)) = Capacity
               /\ inner # <<>> /\ Keys(MakeRoom(inner, k)) = Keys(inner) \ {inner[1]}
<1> DEFINE p == MakeRoom(inner, k)
<1>1. inner \in Seq(Key) /\ Unique(inner) /\ Len(inner) <= Capacity
  BY DEF CacheInv, TypeOK, Unique
<1>2. Cardinality(Keys(inner)) = Len(inner) BY <1>1, KeysCounted
<1>3. contains_key(inner, k) <=> k \in Keys(inner) BY DEF contains_key, Keys
<1>4. ASSUME NEW q, k \notin Keys(q), q \in Seq(Key), Len(q) < Capacity
      PROVE  put(q, k) = Append(q, k)
  <2>1. ~ contains_key(q, k) BY <1>4 DEF contains_key, Keys
  <2>2. Len(q) # Capacity BY <1>4, CapacityAssumption
  <2> QED BY <2>1, <2>2 DEF put
<1>5. CASE k \in Keys(inner)
  <2>1. p = pop_entry(inner, k) BY <1>3, <1>5 DEF MakeRoom
  <2>2. /\ IndexOf(inner, k) \in 1..Len(inner) /\ inner[IndexOf(inner, k)] = k
        /\ Without(p, inner, IndexOf(inner, k))
    BY <1>1, <1>3, <1>5, <2>1, PopEntry
  <2> HIDE DEF p
  <2>3. /\ p \in Seq(Key) /\ Unique(p) /\ Len(p) < Capacity
        /\ Keys(p) = Keys(inner) \ {k}
        /\ \A m, n \in DOMAIN p : m < n => lastUse[p[m]] < lastUse[p[n]]
        /\ \A m \in DOMAIN p : lastUse[p[m]] <= clock
    BY <2>2, WithoutOrdered
  <2>4. put(p, k) = Append(p, k) BY <2>3, <1>4
  <2> QED BY <2>3, <2>4, <1>5 DEF p, insert
<1>6. CASE k \notin Keys(inner) /\ Len(inner) = Capacity
  <2>1. p = remove_lru(inner) BY <1>3, <1>6 DEF MakeRoom
  <2>2. inner # <<>> BY <1>1, <1>6, CapacityAssumption
  <2>3. Without(p, inner, 1) /\ 1 \in 1..Len(inner) BY <1>1, <2>1, <2>2, PopLru
  <2> HIDE DEF p
  <2>4. /\ p \in Seq(Key) /\ Unique(p) /\ Len(p) < Capacity
        /\ Keys(p) = Keys(inner) \ {inner[1]}
        /\ \A m, n \in DOMAIN p : m < n => lastUse[p[m]] < lastUse[p[n]]
        /\ \A m \in DOMAIN p : lastUse[p[m]] <= clock
    BY <2>3, WithoutOrdered
  <2>5. put(p, k) = Append(p, k) BY <2>4, <1>4, <1>6
  <2> QED BY <2>2, <2>4, <2>5, <1>2, <1>6 DEF p, insert
<1>7. CASE k \notin Keys(inner) /\ Len(inner) # Capacity
  <2>1. p = inner BY <1>3, <1>7 DEF MakeRoom
  <2>2. Len(inner) < Capacity BY <1>1, <1>7, CapacityAssumption
  <2>3. put(p, k) = Append(p, k) BY <2>1, <2>2, <1>1, <1>4, <1>7
  <2> QED BY <2>1, <2>2, <2>3, <1>1, <1>2, <1>7 DEF p, insert, CacheInv, OrderedByUse
<1> QED BY <1>5, <1>6, <1>7

-----------------------------------------------------------------------------
\* LruMap counts as the standard module does.
LEMMA SameCardinality ==
  ASSUME NEW S PROVE Lru!Cardinality(S) = Cardinality(S)
BY DEF Lru!Cardinality, Cardinality

\* get_mut is a hit or a miss of the map,
LEMMA GetMutImplements ==
  ASSUME CacheInv, NEW k \in Key, GetMut(k)
  PROVE  CacheInv' /\ (Lru!Hit(k) \/ Lru!Miss(k))
<1>1. inner \in Seq(Key) /\ Unique(inner) BY DEF CacheInv, TypeOK, Unique
<1>2. contains_key(inner, k) <=> k \in Keys(inner) BY DEF contains_key, Keys
<1>3. Tick /\ UNCHANGED <<val, returned>> BY DEF GetMut
<1>4. CASE k \in Keys(inner)
  <2>1. inner' = Append(pop_entry(inner, k), k) /\ lastUse' = [lastUse EXCEPT ![k] = clock + 1]
    BY <1>2, <1>4 DEF GetMut, get_mut
  <2>2. PICK p : p = pop_entry(inner, k) OBVIOUS
  <2>3. /\ IndexOf(inner, k) \in 1..Len(inner) /\ inner[IndexOf(inner, k)] = k
        /\ Without(p, inner, IndexOf(inner, k))
    BY <1>1, <1>2, <1>4, <2>2, PopEntry
  <2>4. /\ p \in Seq(Key) /\ Unique(p) /\ Len(p) < Capacity
        /\ Keys(p) = Keys(inner) \ {k}
        /\ \A m, n \in DOMAIN p : m < n => lastUse[p[m]] < lastUse[p[n]]
        /\ \A m \in DOMAIN p : lastUse[p[m]] <= clock
    BY <2>3, WithoutOrdered
  <2>5. k \notin Keys(p) BY <2>4
  <2>6. val' \in [Key -> 0..MaxClock] /\ returned' \in 0..MaxClock
    BY <1>3 DEF CacheInv, TypeOK
  <2>7. CacheInv' /\ Keys(inner)' = Keys(p) \cup {k}
    BY <1>3, <2>1, <2>2, <2>4, <2>5, <2>6, PushOrdered, Zenon
  <2>8. Keys(inner)' = Keys(inner) BY <2>4, <2>7, <1>4
  <2> QED BY <1>3, <1>4, <2>1, <2>7, <2>8 DEF Lru!Hit, Lru!Passes, Lru!Use, Tick
<1>5. CASE k \notin Keys(inner)
  <2>1. inner' = inner /\ lastUse' = lastUse BY <1>2, <1>5 DEF GetMut, get_mut
  <2>2. CacheInv' BY <1>3, <2>1, TickPreserves DEF CacheInv, TypeOK
  <2> QED BY <1>3, <1>5, <2>1, <2>2 DEF Lru!Miss, Lru!Passes, Tick, Keys
<1> QED BY <1>4, <1>5

\* insert replaces a statement, adds one, or displaces the oldest,
LEMMA InsertImplements ==
  ASSUME CacheInv, NEW k \in Key, Insert(k)
  PROVE  CacheInv' /\ (Lru!Replace(k) \/ Lru!Add(k) \/ \E o \in Key : Lru!Displace(k, o))
<1> DEFINE p == MakeRoom(inner, k)
           out == {val[x] : x \in Displaced(inner, k)}
<1>1. /\ Tick /\ inner' = insert(inner, k) /\ val' = [val EXCEPT ![k] = clock + 1]
      /\ returned' = IF out = {} THEN 0 ELSE CHOOSE v \in out : TRUE
      /\ lastUse' = [lastUse EXCEPT ![k] = clock + 1]
  BY DEF Insert
<1>2. Displaced(inner, k) = Keys(inner) \ Keys(p) BY DEF Displaced
<1>3. clock + 1 \in 0..MaxClock BY <1>1, MaxClockAssumption DEF CacheInv, TypeOK, Tick
<1>4. val' \in [Key -> 0..MaxClock] BY <1>1, <1>3 DEF CacheInv, TypeOK
<1>5. Keys(inner) \subseteq Key BY DEF CacheInv, TypeOK, Keys
<1>6. \A x \in Key : val[x] \in 0..MaxClock BY DEF CacheInv, TypeOK
<1>7. 0 \in 0..MaxClock BY MaxClockAssumption
<1>8. inner' = Append(p, k) BY <1>1, RoomMade
<1>9. ASSUME returned' \in 0..MaxClock PROVE CacheInv' /\ Keys(inner)' = Keys(p) \cup {k}
  BY <1>1, <1>4, <1>8, <1>9, RoomMade, PushOrdered, Zenon
<1>10. Lru!Store(k) BY <1>1 DEF Lru!Store, Lru!Passes, Lru!Use, Tick
<1>11. CASE k \in Keys(inner) /\ Keys(p) = Keys(inner) \ {k}
  <2>1. out = {val[k]} BY <1>2, <1>11
  <2>2. returned' = val[k] BY <1>1, <2>1, Zenon
  <2>3. CacheInv' /\ Keys(inner)' = Keys(p) \cup {k} BY <1>6, <1>9, <2>2
  <2>4. Keys(inner)' = Keys(inner) BY <1>11, <2>3
  <2> QED BY <1>10, <1>11, <2>2, <2>3, <2>4 DEF Lru!Replace
<1>12. CASE k \notin Keys(inner) /\ Cardinality(Keys(inner)) < Capacity /\ Keys(p) = Keys(inner)
  <2>1. out = {} BY <1>2, <1>12
  <2>2. returned' = 0 BY <1>1, <2>1
  <2>3. CacheInv' /\ Keys(inner)' = Keys(p) \cup {k} BY <1>7, <1>9, <2>2
  <2> QED BY <1>10, <1>12, <2>2, <2>3, SameCardinality DEF Lru!Add
<1>13. CASE /\ k \notin Keys(inner) /\ Cardinality(Keys(inner)) = Capacity
            /\ inner # <<>> /\ Keys(p) = Keys(inner) \ {inner[1]}
  <2>1. Lru!Oldest(inner[1]) /\ inner[1] \in Key BY <1>13, HeadOldest
  <2>2. inner[1] \in Keys(inner) BY <2>1 DEF Lru!Oldest
  <2>3. out = {val[inner[1]]} BY <1>2, <1>13, <2>2
  <2>4. returned' = val[inner[1]] BY <1>1, <2>3
  <2>5. CacheInv' /\ Keys(inner)' = Keys(p) \cup {k} BY <1>6, <1>9, <2>1, <2>4
  <2>6. Lru!Displace(k, inner[1]) BY <1>10, <1>13, <2>1, <2>4, <2>5, SameCardinality DEF Lru!Displace
  <2> QED BY <2>1, <2>5, <2>6
<1> QED BY <1>11, <1>12, <1>13, RoomMade

\* remove_lru removes the oldest, if there is one,
LEMMA RemoveLruImplements ==
  ASSUME CacheInv, RemoveLru
  PROVE  CacheInv' /\ (Lru!RemoveNone \/ \E o \in Key : Lru!Remove(o))
<1>1. Tick /\ inner' = remove_lru(inner) /\ UNCHANGED <<val, lastUse>> BY DEF RemoveLru
<1>2. inner \in Seq(Key) BY DEF CacheInv, TypeOK
<1>3. CASE inner = <<>>
  <2>1. inner' = inner /\ returned' = 0 BY <1>1, <1>3 DEF RemoveLru, remove_lru
  <2>2. Keys(inner) = {} BY <1>3 DEF Keys
  <2>3. CacheInv' BY <1>1, <2>1, TickPreserves, MaxClockAssumption
  <2> QED BY <1>1, <2>1, <2>2, <2>3 DEF Lru!RemoveNone, Lru!Passes, Tick, Keys
<1>4. CASE inner # <<>>
  <2>1. Without(inner', inner, 1) /\ Head(inner) = inner[1] /\ 1 \in 1..Len(inner)
    BY <1>1, <1>2, <1>4, PopLru
  <2>2. Lru!Oldest(inner[1]) /\ inner[1] \in Key BY <1>4, HeadOldest
  <2>3. returned' = val[inner[1]] BY <1>4, <2>1 DEF RemoveLru
  <2>4. returned' \in 0..MaxClock BY <2>2, <2>3 DEF CacheInv, TypeOK
  <2>5. /\ inner' \in Seq(Key) /\ Unique(inner') /\ Len(inner') < Capacity
        /\ Keys(inner') = Keys(inner) \ {inner[1]}
        /\ \A m, n \in DOMAIN inner' : m < n => lastUse[inner'[m]] < lastUse[inner'[n]]
        /\ \A m \in DOMAIN inner' : lastUse[inner'[m]] <= clock
    BY <2>1, WithoutOrdered
  <2>6. clock \in Nat /\ clock' = clock + 1 /\ clock' \in 0..MaxClock
    BY <1>1, MaxClockAssumption DEF CacheInv, TypeOK, Tick
  <2>7. \A m \in DOMAIN inner' : lastUse[inner'[m]] <= clock + 1
    <3> TAKE m \in DOMAIN inner'
    <3>1. lastUse[inner'[m]] \in Nat BY <2>5, MaxClockAssumption DEF CacheInv, TypeOK
    <3> QED BY <3>1, <2>5, <2>6
  <2>8. Len(inner') <= Capacity BY <2>5, CapacityAssumption
  <2>9. CacheInv'
    BY <1>1, <2>4, <2>5, <2>6, <2>7, <2>8 DEF CacheInv, TypeOK, OrderedByUse, Unique
  <2>10. Lru!Remove(inner[1])
    BY <1>1, <2>2, <2>3, <2>5, Zenon DEF Lru!Remove, Lru!Passes, Tick, Keys
  <2> QED BY <2>2, <2>9, <2>10
<1> QED BY <1>3, <1>4

\* and clear empties it.
LEMMA ClearImplements ==
  ASSUME CacheInv, Clear
  PROVE  CacheInv' /\ Lru!Clear
<1>1. inner' \in Seq(Key) /\ Len(inner') = 0 /\ DOMAIN inner' = {} BY DEF Clear
<1>2. Keys(inner') = {} BY <1>1 DEF Keys
<1>3. clock' \in 0..MaxClock /\ UNCHANGED <<val, returned, lastUse>>
  BY MaxClockAssumption DEF Clear, Tick, CacheInv, TypeOK
<1>4. CacheInv' BY <1>1, <1>3, CapacityAssumption DEF CacheInv, TypeOK, OrderedByUse
<1> QED BY <1>2, <1>4 DEF Clear, Tick, Lru!Clear, Lru!Passes, Keys

\* The cache of src/common/statement_cache.rs, under any sequence of calls, is
\* an LRU map of its capacity: what leaves it is returned or cleared, and is the
\* entry not used for longest.
THEOREM CacheImplementsLru == Spec => ImplementsLru
<1>1. Init => CacheInv /\ Lru!Init BY InitCache
<1>2. CacheInv /\ [Next]_vars => CacheInv' /\ [Lru!Next]_(Lru!lruVars)
  <2> SUFFICES ASSUME CacheInv, [Next]_vars PROVE CacheInv' /\ [Lru!Next]_(Lru!lruVars)
    OBVIOUS
  <2>1. ASSUME NEW k \in Key, GetMut(k) PROVE CacheInv' /\ Lru!Next
    BY <2>1, GetMutImplements DEF Lru!Next
  <2>2. ASSUME NEW k \in Key, Insert(k) PROVE CacheInv' /\ Lru!Next
    BY <2>2, InsertImplements DEF Lru!Next
  <2>3. CASE RemoveLru BY <2>3, RemoveLruImplements DEF Lru!Next
  <2>4. CASE Clear BY <2>4, ClearImplements DEF Lru!Next
  <2>5. CASE UNCHANGED vars
    BY <2>5 DEF vars, CacheInv, TypeOK, OrderedByUse, Lru!lruVars, Keys
  <2> QED BY <2>1, <2>2, <2>3, <2>4, <2>5 DEF Next
<1> QED BY <1>1, <1>2, PTL DEF Spec, ImplementsLru, Lru!Spec

-----------------------------------------------------------------------------
(* The pool. *)

Points == {"idle", "acquire", "connect", "check", "check_close", "held"}

\* The inductive invariant: connections are numbered from 1 in the order they
\* are made, and a task has one exactly where its program point says so.
PoolInv ==
    /\ \E n \in Nat : Conns = 1..n
    /\ pc \in [Task -> Points]
    /\ status \in [Conns -> {"open", "dead", "closed", "abandoned"}]
    /\ held \in [Task -> Conns \cup {None}]
    /\ \A t \in Task : held[t] # None <=> pc[t] \in {"check", "check_close", "held"}
    /\ idle \subseteq Conns /\ closing \subseteq Conns

-----------------------------------------------------------------------------
\* A new connection has a number no connection has: Connected counts them.
LEMMA NewNumber ==
    ASSUME \E n \in Nat : Conns = 1..n
    PROVE  LET c == Cardinality(Conns) + 1
           IN  /\ c \in Nat \ {0} /\ c \notin Conns
               /\ Conns \cup {c} = 1..c
<1>1. PICK n \in Nat : Conns = 1..n
  OBVIOUS
<1>2. Cardinality(Conns) = n
  BY <1>1, FS_Interval, SMT
<1> QED
  BY <1>1, <1>2, SMT

\* None is the number of no connection.
LEMMA NoneIsNone == PoolInv => None \notin Conns
BY DEF PoolInv, None

\* It holds at the start.
LEMMA PoolStart == PoolInit => PoolInv
<1> SUFFICES ASSUME PoolInit PROVE PoolInv
  OBVIOUS
<1>1. Conns = {}
  BY DEF PoolInit, Conns
<1>2. Conns = 1..0
  BY <1>1, SMT
<1> QED
  BY <1>1, <1>2 DEF PoolInit, PoolInv, Points, None

-----------------------------------------------------------------------------
(* Every step keeps the invariant.  The lemmas are about the three ways in *)
(* which the actions move a connection.                                    *)

\* A task moves on and neither takes nor gives a connection.
LEMMA MovesOn ==
    ASSUME PoolInv, NEW t \in Task, NEW p \in Points, Goto(t, p),
           p \in {"check", "check_close", "held"} <=> held[t] # None,
           UNCHANGED <<held, idle, status, closing>>
    PROVE  PoolInv'
BY DEF PoolInv, Goto, Conns

\* It gives its connection up: to the pool, to a task that closes it, or to
\* nobody.
LEMMA GivesUp ==
    ASSUME PoolInv, NEW t \in Task, NEW p \in {"idle", "acquire"}, Goto(t, p),
           held' = [held EXCEPT ![t] = None],
           status' \in [Conns -> {"open", "dead", "closed", "abandoned"}],
           \/ UNCHANGED <<idle, closing>>
           \/ held[t] # None /\ idle' = idle \cup {held[t]} /\ UNCHANGED closing
           \/ held[t] # None /\ closing' = closing \cup {held[t]} /\ UNCHANGED idle
    PROVE  PoolInv'
<1>1. Conns' = Conns
  BY DEF Conns
<1>2. None \notin Conns
  BY NoneIsNone DEF PoolInv
<1> QED
  BY <1>1, <1>2, Zenon DEF PoolInv, Goto, Points

\* It takes an idle connection.
LEMMA TakesIdle == ASSUME PoolInv, NEW t \in Task, TakeIdle(t) PROVE PoolInv'
<1>1. PICK c \in idle : idle' = idle \ {c} /\ held' = [held EXCEPT ![t] = c]
  BY Zenon DEF TakeIdle
<1>2. Conns' = Conns /\ None \notin Conns /\ c \in Conns
  BY <1>1, NoneIsNone DEF PoolInv, TakeIdle, Conns
<1> QED
  BY <1>1, <1>2 DEF PoolInv, TakeIdle, Goto, Points

\* It gets a new one.
LEMMA GetsNew == ASSUME PoolInv, NEW t \in Task, Connected(t) PROVE PoolInv'
<1>1. PICK c : c = Cardinality(Conns) + 1
  OBVIOUS
<1>2. /\ status' = [d \in Conns \cup {c} |-> IF d = c THEN "open" ELSE status[d]]
      /\ held' = [held EXCEPT ![t] = c]
      /\ Goto(t, "held") /\ UNCHANGED <<idle, closing>>
  BY <1>1 DEF Connected
<1>3. c \in Nat \ {0} /\ c \notin Conns /\ Conns \cup {c} = 1..c
  BY <1>1, NewNumber DEF PoolInv
<1>4. Conns' = Conns \cup {c}
  BY <1>2 DEF Conns
<1>5. \E n \in Nat : Conns' = 1..n
  BY <1>3, <1>4
<1>6. status' \in [Conns' -> {"open", "dead", "closed", "abandoned"}]
  BY <1>2, <1>4 DEF PoolInv
<1>7. held' \in [Task -> Conns' \cup {None}]
  BY <1>2, <1>4 DEF PoolInv
<1>8. \A u \in Task : held'[u] # None <=> pc'[u] \in {"check", "check_close", "held"}
  BY <1>2, <1>3 DEF PoolInv, Goto, None
<1>9. pc' \in [Task -> Points] /\ idle' \subseteq Conns' /\ closing' \subseteq Conns'
  BY <1>2, <1>4 DEF PoolInv, Goto, Points
<1> QED
  BY <1>5, <1>6, <1>7, <1>8, <1>9 DEF PoolInv

\* Only the status of a connection changes, or the task that closed it ends.
LEMMA StatusChanges ==
    ASSUME PoolInv, UNCHANGED <<pc, held, idle>>, closing' \subseteq closing,
           status' \in [Conns -> {"open", "dead", "closed", "abandoned"}]
    PROVE  PoolInv'
<1>1. Conns' = Conns
  BY DEF Conns
<1> QED
  BY <1>1, Zenon DEF PoolInv

-----------------------------------------------------------------------------
\* Every step of a task keeps the invariant.
LEMMA StepOfTask ==
    ASSUME PoolInv, NEW t \in Task,
           Get(t) \/ GetTimeoutZero(t) \/ Step(t) \/ TimeOut(t) \/ Close(t) \/ Release(t)
    PROVE  PoolInv'
<1> USE DEF PoolInv
<1>0. /\ pc[t] \in Points /\ status \in [Conns -> {"open", "dead", "closed", "abandoned"}]
      /\ held[t] # None <=> pc[t] \in {"check", "check_close", "held"}
      /\ held[t] # None => held[t] \in Conns
  OBVIOUS
<1>1. CASE Get(t)
  BY <1>0, <1>1, MovesOn DEF Get, Points
<1>2. CASE GetTimeoutZero(t)
  <2>1. PICK p \in {"acquire", "idle"} : Goto(t, p)
    BY <1>2 DEF GetTimeoutZero
  <2> QED
    BY <1>0, <1>2, <2>1, MovesOn DEF GetTimeoutZero, Points
<1>3. CASE TakeIdle(t)
  BY <1>3, TakesIdle
<1>4. CASE Connect(t)
  BY <1>0, <1>4, MovesOn DEF Connect, Points
<1>5. CASE Connected(t)
  BY <1>5, GetsNew
<1>6. CASE ConnectError(t)
  BY <1>0, <1>6, MovesOn DEF ConnectError, Points
<1>7. CASE CheckOk(t)
  BY <1>0, <1>7, MovesOn DEF CheckOk, Points
<1>8. CASE CheckErr(t)
  BY <1>0, <1>8, MovesOn DEF CheckErr, Points
<1>9. CASE CheckClose(t)
  <2>1. status' \in [Conns -> {"open", "dead", "closed", "abandoned"}]
    BY <1>0, <1>9 DEF CheckClose
  <2> QED
    BY <1>0, <1>9, <2>1, GivesUp, Zenon DEF CheckClose, Discard, Drop, spawn_task
<1>10. CASE Expired(t)
  BY <1>0, <1>10, GivesUp, Zenon DEF Expired, Discard, Drop, spawn_task
<1>11. CASE TimeOut(t)
  BY <1>0, <1>11, GivesUp, Zenon DEF TimeOut, Discard, Drop, spawn_task
<1>12. CASE Close(t)
  <2>1. status' \in [Conns -> {"open", "dead", "closed", "abandoned"}]
    BY <1>0, <1>12 DEF Close
  <2> QED
    BY <1>12, <2>1, StatusChanges DEF Close
<1>13. CASE Release(t)
  BY <1>0, <1>13, GivesUp, Zenon DEF Release, Discard, Drop, spawn_task
<1> QED
  BY <1>1, <1>2, <1>3, <1>4, <1>5, <1>6, <1>7, <1>8, <1>9, <1>10, <1>11, <1>12, <1>13 DEF Step

\* So does every step of the system.
LEMMA PoolStep == PoolInv /\ [PoolNext]_(poolVars) => PoolInv'
<1> SUFFICES ASSUME PoolInv, [PoolNext]_(poolVars) PROVE PoolInv'
  OBVIOUS
<1>0. status \in [Conns -> {"open", "dead", "closed", "abandoned"}]
  BY DEF PoolInv
<1>1. ASSUME NEW t \in Task,
             Get(t) \/ GetTimeoutZero(t) \/ Step(t) \/ TimeOut(t) \/ Close(t) \/ Release(t)
      PROVE  PoolInv'
  BY <1>1, StepOfTask
<1>2. ASSUME NEW c \in Conns, AutoClose(c) PROVE PoolInv'
  <2>1. status' \in [Conns -> {"open", "dead", "closed", "abandoned"}]
    BY <1>0, <1>2 DEF AutoClose
  <2> QED
    BY <1>2, <2>1, StatusChanges DEF AutoClose
<1>3. ASSUME NEW c \in Conns, Die(c) PROVE PoolInv'
  <2>1. status' \in [Conns -> {"open", "dead", "closed", "abandoned"}]
    BY <1>0, <1>3 DEF Die
  <2> QED
    BY <1>3, <2>1, StatusChanges DEF Die
<1>4. ASSUME UNCHANGED <<pc, held, idle, status, closing>> PROVE PoolInv'
  BY <1>0, <1>4, StatusChanges
<1> QED
  BY <1>1, <1>2, <1>3, <1>4
  DEF PoolNext, poolVars, set_max_open_conns, set_max_idle_conns, set_conn_max_lifetime

\* The invariant always holds.
LEMMA PoolAlways == PoolSpec => []PoolInv
<1> QED
  BY PoolStart, PoolStep, PTL DEF PoolSpec

\* What get returns has been connected just now or answered a ping, so it is
\* neither closed nor abandoned, although ConnProxy gives closed connections
\* back to the pool.
THEOREM HandsOutOpenTheorem == PoolSpec => HandsOutOpen
<1>1. ASSUME PoolInv, [PoolNext]_(poolVars), NEW t \in Task, pc[t] # "held", pc'[t] = "held"
      PROVE  status'[held'[t]] \notin {"closed", "abandoned"}
  <2>0. pc \in [Task -> Points] /\ held \in [Task -> Conns \cup {None}]
    BY <1>1 DEF PoolInv
  <2>1. \A u \in Task, p \in Points : Goto(u, p) => p = "held" /\ u = t
    BY <1>1, <2>0 DEF Goto
  <2>2. Connected(t) \/ CheckOk(t)
    <3>1. pc' # pc
      BY <1>1
    <3>2. PICK u \in Task : \/ Get(u) \/ GetTimeoutZero(u) \/ Step(u) \/ TimeOut(u)
                            \/ Release(u)
      BY <1>1, <3>1
      DEF PoolNext, poolVars, Close, AutoClose, Die, set_max_open_conns, set_max_idle_conns,
          set_conn_max_lifetime
    <3>3. ~ (Goto(u, "idle") \/ Goto(u, "acquire") \/ Goto(u, "connect") \/ Goto(u, "check")
             \/ Goto(u, "check_close"))
      BY <2>1 DEF Points
    <3>4. Connected(u) \/ CheckOk(u)
      BY <3>2, <3>3, Zenon
      DEF Step, Get, GetTimeoutZero, TimeOut, Release, TakeIdle, Connect, ConnectError,
          CheckErr, CheckClose, Expired
    <3>5. u = t
      BY <2>1, <3>4 DEF Connected, CheckOk, Points
    <3> QED
      BY <3>4, <3>5
  <2>3. CASE Connected(t)
    BY <2>0, <2>3 DEF Connected
  <2>4. CASE CheckOk(t)
    BY <2>0, <2>4 DEF CheckOk, check
  <2> QED
    BY <2>2, <2>3, <2>4
<1>2. PoolInv /\ [PoolNext]_(poolVars) =>
        [\A t \in Task : pc[t] # "held" /\ pc'[t] = "held" =>
            status'[held'[t]] \notin {"closed", "abandoned"}]_(poolVars)
  BY <1>1
<1> QED
  BY <1>2, PoolAlways, PTL DEF PoolSpec, HandsOutOpen
=============================================================================
