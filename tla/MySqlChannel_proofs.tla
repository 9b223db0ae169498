------------------------ MODULE MySqlChannel_proofs ------------------------
(***************************************************************************)
(* The invariant of a MySQL connection: what is still to be read is a run   *)
(* of the protocol that ends where the client's program point and `waiting` *)
(* say.  Lemmas on replies and on the channel, and the steps of the client   *)
(* that read no packet.                                                     *)
(***************************************************************************)
EXTENDS MySqlConnection, TLAPS

(* The packets of a reply. *)

\* A place in a reply, before the next packet: before the first packet of a
\* result, of the reply to a Prepare or to a Ping; in a result set, with a number
\* of definitions before its rows; and with a number of definitions left before
\* the end of the reply.
Place == {"result", "set", "prepare", "ping", "rest"} \X Nat
AResult == <<"result", 0>>
APrepare == <<"prepare", 0>>
APing == <<"ping", 0>>
InSet(n) == <<"set", n>>
Rest(n) == <<"rest", n>>
Over == Rest(0)

\* The definitions behind a count, and an EOF if eof packets are not deprecated.
Defined(de, n) == IF n > 0 /\ ~ de THEN n + 1 ELSE n

\* Packet p leads from place s to place t.
Leads(de, s, p, t) ==
    \/ s = AResult /\ p.kind = "OK" /\ t = IF p.more THEN AResult ELSE Over
    \/ s = AResult /\ p.kind = "ColumnCount" /\ t = InSet(Defined(de, p.n))
    \/ s \in {AResult, InSet(0), APrepare} /\ p.kind = "ERR" /\ t = Over
    \/ s = InSet(0) /\ p.kind = "Row" /\ t = s
    \/ s = InSet(0) /\ p.kind = "EOF" /\ t = IF p.more THEN AResult ELSE Over
    \/ \E n \in Nat :
          /\ p.kind = "Definition" \/ (p.kind = "EOF" /\ ~ de)
          /\ \/ s = InSet(n + 1) /\ t = InSet(n)
             \/ s = Rest(n + 1) /\ t = Rest(n)
    \/ s = APrepare /\ p.kind = "PrepareOk" /\ t = Rest(Defined(de, p.n) + Defined(de, p.cols))
    \/ s = APing /\ p.kind = "OK" /\ t = Over

\* Packets r lead from place s to place t.
Runs(de, r, s, t) ==
    \E f \in [1..Len(r) + 1 -> Place] :
       /\ f[1] = s /\ f[Len(r) + 1] = t
       /\ \A i \in 1..Len(r) : Leads(de, f[i], r[i], f[i + 1])


-----------------------------------------------------------------------------
(* Places and packets. *)

\* The places of a reply are different ones.
LEMMA Places ==
  /\ AResult \in Place /\ APrepare \in Place /\ APing \in Place /\ Over \in Place
  /\ AResult # APrepare /\ AResult # APing /\ APrepare # APing
  /\ \A n \in Nat : /\ InSet(n) \in Place /\ Rest(n) \in Place
                    /\ AResult # InSet(n) /\ APrepare # InSet(n) /\ APing # InSet(n)
                    /\ AResult # Rest(n) /\ APrepare # Rest(n) /\ APing # Rest(n)
  /\ \A n, m \in Nat : /\ InSet(n) # Rest(m)
                       /\ InSet(n) = InSet(m) => n = m
                       /\ Rest(n) = Rest(m) => n = m
BY DEF Place, AResult, APrepare, APing, InSet, Rest, Over

\* Where a packet leads to from the first packet of a result,
LEMMA FromResult ==
  ASSUME NEW de, NEW p, NEW t, Leads(de, AResult, p, t)
  PROVE  \/ p.kind = "OK" /\ t = IF p.more THEN AResult ELSE Over
         \/ p.kind = "ColumnCount" /\ t = InSet(Defined(de, p.n))
         \/ p.kind = "ERR" /\ t = Over
<1>1. \A n \in Nat : AResult # InSet(n + 1) /\ AResult # Rest(n + 1) BY Places
<1> QED BY <1>1, Places DEF Leads

\* from the rows of a result set,
LEMMA FromRows ==
  ASSUME NEW de, NEW p, NEW t, Leads(de, InSet(0), p, t)
  PROVE  \/ p.kind = "Row" /\ t = InSet(0)
         \/ p.kind = "EOF" /\ t = IF p.more THEN AResult ELSE Over
         \/ p.kind = "ERR" /\ t = Over
<1>1. \A n \in Nat : InSet(0) # InSet(n + 1) /\ InSet(0) # Rest(n + 1)
  BY Places
<1>2. InSet(0) # AResult /\ InSet(0) # APrepare /\ InSet(0) # APing BY Places
<1> QED BY <1>1, <1>2 DEF Leads

\* from its definitions,
LEMMA FromDefinitions ==
  ASSUME NEW de, NEW p, NEW t, NEW n \in Nat, n > 0, Leads(de, InSet(n), p, t)
  PROVE  /\ p.kind = "Definition" \/ (p.kind = "EOF" /\ ~ de)
         /\ t = InSet(n - 1)
<1>1. InSet(n) # AResult /\ InSet(n) # APrepare /\ InSet(n) # APing /\ InSet(n) # InSet(0)
  BY Places
<1>2. PICK m \in Nat : /\ p.kind = "Definition" \/ (p.kind = "EOF" /\ ~ de)
                       /\ \/ InSet(n) = InSet(m + 1) /\ t = InSet(m)
                          \/ InSet(n) = Rest(m + 1) /\ t = Rest(m)
  BY <1>1, Zenon DEF Leads
<1>3. m + 1 \in Nat /\ InSet(n) # Rest(m + 1) BY Places
<1>4. n = m + 1 BY <1>2, <1>3, Places
<1>5. m = n - 1 BY <1>4
<1> QED BY <1>2, <1>3, <1>5

\* from the definitions of a statement,
LEMMA FromRest ==
  ASSUME NEW de, NEW p, NEW t, NEW n \in Nat, Leads(de, Rest(n), p, t)
  PROVE  /\ n > 0
         /\ p.kind = "Definition" \/ (p.kind = "EOF" /\ ~ de)
         /\ t = Rest(n - 1)
<1>1. /\ Rest(n) # AResult /\ Rest(n) # APrepare /\ Rest(n) # APing /\ Rest(n) # InSet(0)
  BY Places
<1>2. PICK m \in Nat : /\ p.kind = "Definition" \/ (p.kind = "EOF" /\ ~ de)
                       /\ \/ Rest(n) = InSet(m + 1) /\ t = InSet(m)
                          \/ Rest(n) = Rest(m + 1) /\ t = Rest(m)
  BY <1>1, Zenon DEF Leads
<1>3. m + 1 \in Nat /\ InSet(m + 1) # Rest(n) BY Places
<1>4. n = m + 1 BY <1>2, <1>3, Places
<1>5. m = n - 1 /\ n > 0 BY <1>4
<1> QED BY <1>2, <1>3, <1>5

\* and from the first packet of the reply to a Prepare and to a Ping.
LEMMA FromOthers ==
  ASSUME NEW de, NEW p, NEW t
  PROVE  /\ Leads(de, APrepare, p, t) =>
               \/ p.kind = "ERR" /\ t = Over
               \/ p.kind = "PrepareOk" /\ t = Rest(Defined(de, p.n) + Defined(de, p.cols))
         /\ Leads(de, APing, p, t) => p.kind = "OK" /\ t = Over
<1>1. \A n \in Nat : /\ APrepare # InSet(n + 1) /\ APrepare # Rest(n + 1)
                     /\ APing # InSet(n + 1) /\ APing # Rest(n + 1)
  BY Places
<1>2. APing # InSet(0) /\ APrepare # InSet(0) BY Places
<1> QED BY <1>1, <1>2, Places DEF Leads

\* No packet follows the end of a reply.
LEMMA FromOver ==
  ASSUME NEW de, NEW p, NEW t PROVE ~ Leads(de, Over, p, t)
BY FromRest DEF Over

\* No packets lead nowhere else.
LEMMA RunsNone ==
  ASSUME NEW de, NEW s \in Place, NEW t
  PROVE  Runs(de, <<>>, s, t) <=> s = t
<1>1. Len(<<>>) = 0 OBVIOUS
<1>2. ASSUME s = t PROVE Runs(de, <<>>, s, t)
  <2>1. PICK f : f = [i \in 1..1 |-> s] BY Zenon
  <2>2. f \in [1..Len(<<>>) + 1 -> Place] /\ f[1] = s /\ f[Len(<<>>) + 1] = t BY <1>1, <1>2, <2>1
  <2>3. \A i \in 1..Len(<<>>) : FALSE BY <1>1
  <2> QED BY <2>2, <2>3, Zenon DEF Runs
<1>3. ASSUME Runs(de, <<>>, s, t) PROVE s = t
  BY <1>1, <1>3 DEF Runs
<1> QED BY <1>2, <1>3

\* Reading the first packet.
LEMMA RunsTail ==
  ASSUME NEW S, NEW r \in Seq(S), r # <<>>, NEW de, NEW s, NEW t, Runs(de, r, s, t)
  PROVE  \E x \in Place : Leads(de, s, r[1], x) /\ Runs(de, Tail(r), x, t)
<1>1. PICK f \in [1..Len(r) + 1 -> Place] :
         /\ f[1] = s /\ f[Len(r) + 1] = t
         /\ \A i \in 1..Len(r) : Leads(de, f[i], r[i], f[i + 1])
  BY DEF Runs
<1>2. PICK n \in Nat : n = Len(Tail(r)) /\ Len(r) = n + 1 OBVIOUS
<1>3. PICK g : g = [i \in 1..n + 1 |-> f[i + 1]] BY Zenon
<1>4. g \in [1..n + 1 -> Place] /\ g[1] = f[2] /\ g[n + 1] = t /\ f[2] \in Place
  BY <1>1, <1>2, <1>3
<1>5. ASSUME NEW i \in 1..n PROVE Leads(de, g[i], Tail(r)[i], g[i + 1])
  <2>1. g[i] = f[i + 1] /\ g[i + 1] = f[(i + 1) + 1] BY <1>3
  <2>2. Tail(r)[i] = r[i + 1] /\ i + 1 \in 1..Len(r) BY <1>2
  <2> QED BY <2>1, <2>2, <1>1
<1>6. Leads(de, s, r[1], f[2])
  <2>1. 1 \in 1..Len(r) /\ 1 + 1 = 2 BY <1>2
  <2>2. Leads(de, f[1], r[1], f[1 + 1]) BY <2>1, <1>1, Zenon
  <2> QED BY <2>1, <2>2, <1>1
<1>7. Runs(de, Tail(r), f[2], t) BY <1>2, <1>4, <1>5, Zenon DEF Runs
<1> QED BY <1>4, <1>6, <1>7

\* Part of the packets.
LEMMA RunsPrefix ==
  ASSUME NEW S, NEW r \in Seq(S), NEW n \in 0..Len(r), NEW de, NEW s, NEW t, Runs(de, r, s, t)
  PROVE  \E x \in Place : Runs(de, SubSeq(r, 1, n), s, x)
<1>1. PICK f \in [1..Len(r) + 1 -> Place] :
         /\ f[1] = s /\ f[Len(r) + 1] = t
         /\ \A i \in 1..Len(r) : Leads(de, f[i], r[i], f[i + 1])
  BY DEF Runs
<1>2. PICK q : q = SubSeq(r, 1, n) BY Zenon
<1>3. Len(q) = n /\ \A i \in 1..n : q[i] = r[i] BY <1>2
<1>4. PICK g : g = [i \in 1..n + 1 |-> f[i]] BY Zenon
<1>5. g \in [1..n + 1 -> Place] /\ g[1] = s /\ g[n + 1] \in Place BY <1>1, <1>4
<1>6. ASSUME NEW i \in 1..n PROVE Leads(de, g[i], q[i], g[i + 1])
  <2>1. g[i] = f[i] /\ g[i + 1] = f[i + 1] /\ i \in 1..Len(r) BY <1>4
  <2> QED BY <2>1, <1>1, <1>3
<1>7. Runs(de, q, s, g[n + 1]) BY <1>3, <1>5, <1>6 DEF Runs
<1> QED BY <1>2, <1>5, <1>7

\* Packets after packets.
LEMMA RunsConcat ==
  ASSUME NEW S, NEW a \in Seq(S), NEW b \in Seq(S), NEW de, NEW s, NEW t, NEW u,
         Runs(de, a, s, t), Runs(de, b, t, u)
  PROVE  Runs(de, a \o b, s, u)
<1>1. PICK f \in [1..Len(a) + 1 -> Place] :
         /\ f[1] = s /\ f[Len(a) + 1] = t
         /\ \A i \in 1..Len(a) : Leads(de, f[i], a[i], f[i + 1])
  BY Zenon DEF Runs
<1>2. PICK g \in [1..Len(b) + 1 -> Place] :
         /\ g[1] = t /\ g[Len(b) + 1] = u
         /\ \A i \in 1..Len(b) : Leads(de, g[i], b[i], g[i + 1])
  BY Zenon DEF Runs
<1>3. PICK m \in Nat : m = Len(a) OBVIOUS
<1>4. PICK n \in Nat : n = Len(b) OBVIOUS
<1>5. PICK c : c = a \o b BY Zenon
<1>6. /\ Len(c) = m + n /\ \A i \in 1..m : c[i] = a[i]
      /\ \A i \in 1..n : c[m + i] = b[i]
  BY <1>3, <1>4, <1>5
<1>7. PICK h : h = [i \in 1..m + n + 1 |-> IF i <= m THEN f[i] ELSE g[i - m]] BY Zenon
<1>8. h \in [1..m + n + 1 -> Place] BY <1>3, <1>4, <1>7
<1>9. \A i \in 1..m + 1 : h[i] = f[i]
  BY <1>1, <1>2, <1>3, <1>4, <1>7
<1>10. ASSUME NEW i \in 1..n + 1 PROVE h[m + i] = g[i]
  <2>1. m + i \in 1..m + n + 1 /\ ~ (m + i <= m) /\ (m + i) - m = i OBVIOUS
  <2> QED BY <2>1, <1>7
<1>11. h[1] = s /\ h[m + n + 1] = u
  <2>1. 1 \in 1..m + 1 /\ n + 1 \in 1..n + 1 /\ m + (n + 1) = m + n + 1 OBVIOUS
  <2> QED BY <2>1, <1>1, <1>2, <1>4, <1>9, <1>10
<1>12. ASSUME NEW i \in 1..m + n PROVE Leads(de, h[i], c[i], h[i + 1])
  <2>1. CASE i \in 1..m
    <3>1. i \in 1..m + 1 /\ i + 1 \in 1..m + 1 BY <2>1
    <3>2. h[i] = f[i] /\ h[i + 1] = f[i + 1] /\ c[i] = a[i] BY <2>1, <3>1, <1>6, <1>9
    <3> QED BY <2>1, <3>2, <1>1, <1>3
  <2>2. CASE i > m
    <3>1. PICK j \in 1..n : i = m + j
      <4>1. i - m \in 1..n /\ i = m + (i - m) BY <2>2
      <4> QED BY <4>1
    <3>2. j \in 1..n + 1 /\ j + 1 \in 1..n + 1 /\ i + 1 = m + (j + 1) BY <3>1
    <3>3. h[i] = g[j] /\ h[i + 1] = g[j + 1] /\ c[i] = b[j] BY <3>1, <3>2, <1>6, <1>10
    <3> QED BY <3>3, <1>2, <1>4
  <2> QED BY <2>1, <2>2
<1>13. Runs(de, c, s, u) BY <1>6, <1>8, <1>11, <1>12, Zenon DEF Runs
<1> QED BY <1>13, <1>5

\* One packet.
LEMMA RunsOne ==
  ASSUME NEW de, NEW p, NEW s \in Place, NEW t \in Place, Leads(de, s, p, t)
  PROVE  Runs(de, <<p>>, s, t)
<1>1. PICK r : r = <<p>> BY Zenon
<1>2. Len(r) = 1 /\ r[1] = p BY <1>1
<1>3. PICK f : f = [i \in 1..2 |-> IF i = 1 THEN s ELSE t] BY Zenon
<1>4. f \in [1..Len(r) + 1 -> Place] /\ f[1] = s /\ f[Len(r) + 1] = t BY <1>2, <1>3
<1>5. ASSUME NEW i \in 1..Len(r) PROVE Leads(de, f[i], r[i], f[i + 1])
  <2>1. i = 1 /\ i + 1 = 2 /\ f[2] = t /\ f[1] = s BY <1>2, <1>3
  <2> QED BY <2>1, <1>2
<1>6. Runs(de, r, s, t) BY <1>4, <1>5, Zenon DEF Runs
<1> QED BY <1>1, <1>6

\* Packets that all stay at a place.
LEMMA RunsMany ==
  ASSUME NEW S, NEW r \in Seq(S), NEW de, NEW s \in Place,
         \A i \in 1..Len(r) : Leads(de, s, r[i], s)
  PROVE  Runs(de, r, s, s)
<1>1. PICK n \in Nat : n = Len(r) OBVIOUS
<1>2. PICK f : f = [i \in 1..n + 1 |-> s] BY Zenon
<1>3. f \in [1..n + 1 -> Place] /\ f[1] = s /\ f[n + 1] = s BY <1>2
<1>4. \A i \in 1..n : f[i] = s /\ f[i + 1] = s BY <1>2
<1> QED BY <1>1, <1>3, <1>4 DEF Runs

-----------------------------------------------------------------------------
(* What the server answers. *)

PacketKind == {"OK", "ERR", "EOF", "ColumnCount", "Definition", "Row", "PrepareOk"}
PacketRec == [kind : PacketKind, n : Nat, cols : Nat, id : Nat, more : BOOLEAN, call : Nat]

\* Packets r, sent for operation c.
Stamped(r, c) == [i \in DOMAIN r |-> [r[i] EXCEPT !.call = c]]

\* Sequences of packets, or of anything.
LEMMA SeqFacts ==
  ASSUME NEW S
  PROVE  /\ \A n \in Nat : \A q \in [1..n -> S] : q \in Seq(S) /\ Len(q) = n
         /\ \A x \in S : <<x>> \in Seq(S)
         /\ \A a, b \in Seq(S) : a \o b \in Seq(S)
<1>1. \A n \in Nat : \A q \in [1..n -> S] : q \in Seq(S) /\ Len(q) = n OBVIOUS
<1>2. \A x \in S : <<x>> \in Seq(S) OBVIOUS
<1>3. \A a, b \in Seq(S) : a \o b \in Seq(S) OBVIOUS
<1> QED BY <1>1, <1>2, <1>3

\* A packet of the server,
LEMMA APacket ==
  ASSUME NEW k \in PacketKind, NEW n \in Nat, NEW b \in BOOLEAN
  PROVE  /\ Pkt(k, n, b) \in PacketRec /\ Pkt(k, n, b).kind = k /\ Pkt(k, n, b).n = n
         /\ Pkt(k, n, b).more <=> b
BY DEF Pkt, PacketRec, None

\* and one that is sent for an operation.
LEMMA StampedPacket ==
  ASSUME NEW p \in PacketRec, NEW c \in Nat, NEW q, q = [p EXCEPT !.call = c]
  PROVE  /\ q \in PacketRec /\ q.call = c
         /\ q.kind = p.kind /\ q.n = p.n /\ q.cols = p.cols /\ q.id = p.id /\ q.more = p.more
BY DEF PacketRec

\* The packets keep everything but their call,
LEMMA StampedSeq ==
  ASSUME NEW r \in Seq(PacketRec), NEW c \in Nat
  PROVE  /\ Stamped(r, c) \in Seq(PacketRec) /\ Len(Stamped(r, c)) = Len(r)
         /\ \A i \in 1..Len(r) : Stamped(r, c)[i] = [r[i] EXCEPT !.call = c]
         /\ \A p \in Keys(Stamped(r, c)) : /\ p.call = c
                                           /\ \E x \in Keys(r) : p.kind = x.kind /\ p.id = x.id
<1>1. PICK q : q = Stamped(r, c) BY Zenon
<1>2. DOMAIN r = 1..Len(r) /\ Len(r) \in Nat /\ \A i \in 1..Len(r) : r[i] \in PacketRec OBVIOUS
<1>3. q = [i \in 1..Len(r) |-> [r[i] EXCEPT !.call = c]] BY <1>1, <1>2, Zenon DEF Stamped
<1>4. DOMAIN q = 1..Len(r) /\ \A i \in 1..Len(r) : q[i] = [r[i] EXCEPT !.call = c] BY <1>3, Zenon
<1>5. ASSUME NEW i \in 1..Len(r)
      PROVE  q[i] \in PacketRec /\ q[i].call = c /\ q[i].kind = r[i].kind /\ q[i].id = r[i].id
  <2>1. q[i] = [r[i] EXCEPT !.call = c] /\ r[i] \in PacketRec BY <1>2, <1>4, Zenon
  <2> QED BY <2>1, StampedPacket
<1>6. q \in [1..Len(r) -> PacketRec] BY <1>3, <1>4, <1>5, Zenon
<1>7. q \in Seq(PacketRec) /\ Len(q) = Len(r) BY <1>2, <1>6, SeqFacts
<1>8. \A p \in Keys(q) : p.call = c /\ \E x \in Keys(r) : p.kind = x.kind /\ p.id = x.id
  <2> SUFFICES ASSUME NEW p \in Keys(q)
               PROVE  p.call = c /\ \E x \in Keys(r) : p.kind = x.kind /\ p.id = x.id
    BY Zenon
  <2>1. PICK i \in 1..Len(r) : p = q[i] BY <1>4, Zenon DEF Keys
  <2>2. r[i] \in Keys(r) BY <1>2, Zenon DEF Keys
  <2> QED BY <2>1, <2>2, <1>5, Zenon
<1> QED BY <1>1, <1>4, <1>7, <1>8, Zenon

\* and lead to the same places.
LEMMA StampedRuns ==
  ASSUME NEW r \in Seq(PacketRec), NEW c \in Nat, NEW de, NEW s, NEW t, Runs(de, r, s, t)
  PROVE  Runs(de, Stamped(r, c), s, t)
<1>1. PICK q : q = Stamped(r, c) BY Zenon
<1>2. Len(q) = Len(r) /\ \A i \in 1..Len(r) : q[i] = [r[i] EXCEPT !.call = c]
  BY <1>1, StampedSeq
<1>3. ASSUME NEW i \in 1..Len(r)
      PROVE  q[i].kind = r[i].kind /\ q[i].n = r[i].n /\ q[i].cols = r[i].cols /\ q[i].more = r[i].more
  <2>1. r[i] \in PacketRec OBVIOUS
  <2>2. q[i] = [r[i] EXCEPT !.call = c] BY <1>2, Zenon
  <2> QED BY <2>1, <2>2, StampedPacket
<1>4. ASSUME NEW i \in 1..Len(r), NEW x, NEW y, Leads(de, x, r[i], y)
      PROVE  Leads(de, x, q[i], y)
  BY <1>3, <1>4 DEF Leads
<1>5. PICK f \in [1..Len(r) + 1 -> Place] :
         /\ f[1] = s /\ f[Len(r) + 1] = t
         /\ \A i \in 1..Len(r) : Leads(de, f[i], r[i], f[i + 1])
  BY DEF Runs
<1>6. \A i \in 1..Len(r) : Leads(de, f[i], q[i], f[i + 1]) BY <1>4, <1>5
<1>7. Runs(de, q, s, t) BY <1>2, <1>5, <1>6, Zenon DEF Runs
<1> QED BY <1>1, <1>7

\* Many packets of a kind.
LEMMA ManyPackets ==
  ASSUME NEW k \in PacketKind, NEW n \in Nat
  PROVE  /\ Many(k, n) \in Seq(PacketRec) /\ Len(Many(k, n)) = n
         /\ \A i \in 1..n : Many(k, n)[i] = Pkt(k, 0, FALSE)
<1>1. PICK p : p = Pkt(k, 0, FALSE) BY Zenon
<1>2. p \in PacketRec BY <1>1, APacket, Zenon
<1>3. PICK q : q = [i \in 1..n |-> p] BY Zenon
<1>4. q \in [1..n -> PacketRec] /\ \A i \in 1..n : q[i] = p BY <1>2, <1>3
<1>5. q \in Seq(PacketRec) /\ Len(q) = n BY <1>4, SeqFacts
<1> QED BY <1>1, <1>3, <1>4, <1>5, Zenon DEF Many

\* The definitions and the EOF behind them.
LEMMA DefsRun ==
  ASSUME NEW n \in 0..1, deprecate_eof \in BOOLEAN
  PROVE  /\ Defs(n) \in Seq(PacketRec)
         /\ \A x \in Keys(Defs(n)) : x.kind \in {"Definition", "EOF"}
         /\ Runs(deprecate_eof, Defs(n), InSet(Defined(deprecate_eof, n)), InSet(0))
         /\ \A m \in Nat : Runs(deprecate_eof, Defs(n), Rest(Defined(deprecate_eof, n) + m), Rest(m))
<1>d. PICK d : d = Pkt("Definition", 0, FALSE) BY Zenon
<1>e. PICK e : e = Pkt("EOF", 0, FALSE) BY Zenon
<1>f. d \in PacketRec /\ d.kind = "Definition" /\ e \in PacketRec /\ e.kind = "EOF"
      /\ <<d>> \in Seq(PacketRec) /\ <<e>> \in Seq(PacketRec)
  <2>2. d \in PacketRec /\ d.kind = "Definition" 
    BY <1>d DEF Pkt, PacketRec, PacketKind, None
  <2>3. e \in PacketRec /\ e.kind = "EOF" 
    BY <1>e DEF Pkt, PacketRec, PacketKind, None
  <2> QED BY <2>2, <2>3, SeqFacts
<1>k. Keys(<<d>>) = {d} /\ Keys(<<e>>) = {e} BY DEF Keys
<1>1. CASE n = 0
  <2>1. Many("Definition", 0) = <<>> BY DEF Many
  <2>2. Defs(n) = <<>> BY <1>1, <2>1 DEF Defs
  <2>3. Defined(deprecate_eof, n) = 0 BY <1>1 DEF Defined
  <2>4. \A m \in Nat : 0 + m = m OBVIOUS
  <2>5. InSet(0) \in Place /\ \A m \in Nat : Rest(m) \in Place BY Places
  <2>6. <<>> \in Seq(PacketRec) /\ Keys(<<>>) = {} BY DEF Keys
  <2> QED BY <2>2, <2>3, <2>4, <2>5, <2>6, RunsNone
<1>2. Many("Definition", 1) = <<d>>
  <2>1. PICK w : w = [i \in 1..1 |-> d] BY Zenon
  <2>2. w = <<d>> BY <2>1
  <2> QED BY <2>1, <2>2, <1>d, Zenon DEF Many
<1>p. ASSUME NEW m \in Nat
      PROVE  /\ Runs(deprecate_eof, <<d>>, InSet(m + 1), InSet(m))
             /\ Runs(deprecate_eof, <<d>>, Rest(m + 1), Rest(m))
             /\ ~ deprecate_eof => /\ Runs(deprecate_eof, <<e>>, InSet(m + 1), InSet(m))
                                   /\ Runs(deprecate_eof, <<e>>, Rest(m + 1), Rest(m))
  <2>1. InSet(m) \in Place /\ InSet(m + 1) \in Place /\ Rest(m) \in Place /\ Rest(m + 1) \in Place
    BY Places
  <2>2. /\ Leads(deprecate_eof, InSet(m + 1), d, InSet(m))
        /\ Leads(deprecate_eof, Rest(m + 1), d, Rest(m))
        /\ ~ deprecate_eof => /\ Leads(deprecate_eof, InSet(m + 1), e, InSet(m))
                              /\ Leads(deprecate_eof, Rest(m + 1), e, Rest(m))
    BY <1>f, Zenon DEF Leads
  <2> QED BY <2>1, <2>2, RunsOne, Zenon
<1>3. CASE n = 1 /\ deprecate_eof
  <2>1. Defs(n) = <<d>> BY <1>2, <1>3, <1>f DEF Defs
  <2>2. Defined(deprecate_eof, n) = 1 BY <1>3 DEF Defined
  <2>3. \A m \in Nat : 1 + m = m + 1 OBVIOUS
  <2>4. Runs(deprecate_eof, <<d>>, InSet(0 + 1), InSet(0)) BY <1>p
  <2>5. 0 + 1 = 1 OBVIOUS
  <2> QED BY <2>1, <2>2, <2>3, <2>4, <2>5, <1>f, <1>k, <1>p
<1>4. CASE n = 1 /\ ~ deprecate_eof
  <2>1. Defs(n) = <<d>> \o <<e>> BY <1>2, <1>4, <1>e DEF Defs
  <2>2. Defined(deprecate_eof, n) = 2 BY <1>4 DEF Defined
  <2>3. ASSUME NEW m \in Nat
        PROVE  /\ Runs(deprecate_eof, <<d>> \o <<e>>, InSet(m + 2), InSet(m))
               /\ Runs(deprecate_eof, <<d>> \o <<e>>, Rest(m + 2), Rest(m))
    <3>1. m + 1 \in Nat /\ (m + 1) + 1 = m + 2 OBVIOUS
    <3>2. /\ Runs(deprecate_eof, <<d>>, InSet(m + 2), InSet(m + 1))
          /\ Runs(deprecate_eof, <<d>>, Rest(m + 2), Rest(m + 1))
      BY <3>1, <1>p
    <3>3. /\ Runs(deprecate_eof, <<e>>, InSet(m + 1), InSet(m))
          /\ Runs(deprecate_eof, <<e>>, Rest(m + 1), Rest(m))
      BY <1>4, <1>p
    <3> QED BY <3>2, <3>3, <1>f, RunsConcat, Zenon
  <2>4. \A m \in Nat : 2 + m = m + 2 OBVIOUS
  <2>5. Keys(<<d>> \o <<e>>) = {d, e} BY DEF Keys
  <2>6. Runs(deprecate_eof, <<d>> \o <<e>>, InSet(0 + 2), InSet(0)) BY <2>3
  <2>7. 0 + 2 = 2 /\ <<d>> \o <<e>> \in Seq(PacketRec) BY <1>f
  <2> QED BY <2>1, <2>2, <2>3, <2>4, <2>5, <2>6, <2>7, <1>f
<1> QED BY <1>1, <1>3, <1>4

\* A result set up to its last packet.
LEMMA SetRuns ==
  ASSUME NEW n \in Nat, deprecate_eof \in BOOLEAN,
         NEW p \in PacketRec, NEW t \in Place, Leads(deprecate_eof, InSet(0), p, t)
  PROVE  LET r == <<Pkt("ColumnCount", 1, FALSE)>> \o Defs(1) \o Many("Row", n) \o <<p>>
         IN r \in Seq(PacketRec) /\ Runs(deprecate_eof, r, AResult, t)
<1>1. PICK c : c = Pkt("ColumnCount", 1, FALSE) BY Zenon
<1>2. c \in PacketRec /\ c.kind = "ColumnCount" /\ c.n = 1 /\ <<c>> \in Seq(PacketRec)
  <2>1. c \in PacketRec /\ c.kind = "ColumnCount" /\ c.n = 1
    BY <1>1 DEF Pkt, PacketRec, PacketKind, None
  <2> QED BY <2>1, SeqFacts
<1>3. PICK d : d = Defs(1) BY Zenon
<1>4. /\ d \in Seq(PacketRec)
      /\ Runs(deprecate_eof, d, InSet(Defined(deprecate_eof, 1)), InSet(0))
  BY <1>3, DefsRun
<1>5. PICK w : w = Many("Row", n) BY Zenon
<1>6. "Row" \in PacketKind BY DEF PacketKind
<1>7. w \in Seq(PacketRec) /\ \A i \in 1..Len(w) : w[i] = Pkt("Row", 0, FALSE)
  BY <1>5, <1>6, ManyPackets, Zenon
<1>8. Pkt("Row", 0, FALSE).kind = "Row" BY DEF Pkt
<1>9. Defined(deprecate_eof, 1) \in Nat BY DEF Defined
<1>10. InSet(0) \in Place /\ InSet(Defined(deprecate_eof, 1)) \in Place /\ AResult \in Place
  BY <1>9, Places
<1>11. Runs(deprecate_eof, <<c>>, AResult, InSet(Defined(deprecate_eof, 1)))
  <2>1. Leads(deprecate_eof, AResult, c, InSet(Defined(deprecate_eof, 1)))
    BY <1>2, Zenon DEF Leads
  <2> QED BY <2>1, <1>10, RunsOne
<1>12. Runs(deprecate_eof, w, InSet(0), InSet(0))
  <2>1. \A i \in 1..Len(w) : Leads(deprecate_eof, InSet(0), w[i], InSet(0))
    BY <1>7, <1>8, Zenon DEF Leads
  <2> QED BY <2>1, <1>7, <1>10, RunsMany
<1>13. Runs(deprecate_eof, <<p>>, InSet(0), t) BY <1>10, RunsOne
<1>14. <<c>> \o d \in Seq(PacketRec) /\ Runs(deprecate_eof, <<c>> \o d, AResult, InSet(0))
  BY <1>2, <1>4, <1>11, SeqFacts, RunsConcat, Zenon
<1>15. /\ (<<c>> \o d) \o w \in Seq(PacketRec)
       /\ Runs(deprecate_eof, (<<c>> \o d) \o w, AResult, InSet(0))
  BY <1>7, <1>14, <1>12, SeqFacts, RunsConcat, Zenon
<1>16. <<p>> \in Seq(PacketRec) OBVIOUS
<1>17. /\ ((<<c>> \o d) \o w) \o <<p>> \in Seq(PacketRec)
       /\ Runs(deprecate_eof, ((<<c>> \o d) \o w) \o <<p>>, AResult, t)
  BY <1>15, <1>13, <1>16, SeqFacts, RunsConcat, Zenon
<1> QED BY <1>1, <1>3, <1>5, <1>17, Zenon

\* A result that says whether others follow.
LEMMA ResultRuns ==
  ASSUME MaxRows \in Nat, deprecate_eof \in BOOLEAN, NEW b \in BOOLEAN, NEW r \in OneResult(b)
  PROVE  r \in Seq(PacketRec) /\ Runs(deprecate_eof, r, AResult, IF b THEN AResult ELSE Over)
<1>0. (IF b THEN AResult ELSE Over) \in Place /\ AResult \in Place BY Places
<1>1. CASE r = <<Pkt("OK", 0, b)>>
  <2>1. "OK" \in PacketKind BY DEF PacketKind
  <2>2. /\ Pkt("OK", 0, b) \in PacketRec /\ Pkt("OK", 0, b).kind = "OK"
        /\ (Pkt("OK", 0, b).more <=> b) /\ <<Pkt("OK", 0, b)>> \in Seq(PacketRec)
    BY <2>1, APacket
  <2>3. Leads(deprecate_eof, AResult, Pkt("OK", 0, b), IF b THEN AResult ELSE Over)
    BY <2>2 DEF Leads
  <2> QED BY <1>0, <1>1, <2>2, <2>3, RunsOne
<1>2. ASSUME NEW n \in 0..MaxRows,
             r = <<Pkt("ColumnCount", 1, FALSE)>> \o Defs(1) \o Many("Row", n) \o <<Pkt("EOF", 0, b)>>
      PROVE  r \in Seq(PacketRec) /\ Runs(deprecate_eof, r, AResult, IF b THEN AResult ELSE Over)
  <2>1. "EOF" \in PacketKind BY DEF PacketKind
  <2>2. /\ Pkt("EOF", 0, b) \in PacketRec /\ Pkt("EOF", 0, b).kind = "EOF"
        /\ (Pkt("EOF", 0, b).more <=> b)
    BY <2>1, APacket
  <2>3. Leads(deprecate_eof, InSet(0), Pkt("EOF", 0, b), IF b THEN AResult ELSE Over)
    BY <2>2 DEF Leads
  <2>4. n \in Nat OBVIOUS
  <2> QED BY <1>0, <1>2, <2>2, <2>3, <2>4, SetRuns, Zenon
<1> QED BY <1>1, <1>2, Zenon DEF OneResult

\* A last result.
LEMMA LastRuns ==
  ASSUME MaxRows \in Nat, deprecate_eof \in BOOLEAN, NEW r \in LastResult
  PROVE  r \in Seq(PacketRec) /\ Runs(deprecate_eof, r, AResult, Over)
<1>0. Over \in Place /\ AResult \in Place BY Places
<1>1. CASE r \in OneResult(FALSE)
  <2>1. Runs(deprecate_eof, r, AResult, IF FALSE THEN AResult ELSE Over) /\ r \in Seq(PacketRec)
    BY <1>1, ResultRuns, Zenon
  <2> QED BY <2>1
<1>2. PICK e : e = Pkt("ERR", 0, FALSE) BY Zenon
<1>3. e \in PacketRec /\ e.kind = "ERR" /\ <<e>> \in Seq(PacketRec)
  <2>2. e \in PacketRec /\ e.kind = "ERR"
    BY <1>2 DEF Pkt, PacketRec, PacketKind, None
  <2> QED BY <2>2, SeqFacts
<1>4. Leads(deprecate_eof, AResult, e, Over) /\ Leads(deprecate_eof, InSet(0), e, Over)
  BY <1>3 DEF Leads
<1>5. CASE r = <<e>> BY <1>0, <1>3, <1>4, <1>5, RunsOne
<1>6. ASSUME NEW n \in 0..MaxRows,
             r = <<Pkt("ColumnCount", 1, FALSE)>> \o Defs(1) \o Many("Row", n) \o <<e>>
      PROVE  r \in Seq(PacketRec) /\ Runs(deprecate_eof, r, AResult, Over)
  <2>1. n \in Nat OBVIOUS
  <2> QED BY <2>1, <1>0, <1>3, <1>4, <1>6, SetRuns, Zenon
<1> QED BY <1>1, <1>2, <1>5, <1>6, Zenon DEF LastResult, FailedResult

\* The reply to a command that runs.
LEMMA ResultsRun ==
  ASSUME MaxRows \in Nat, deprecate_eof \in BOOLEAN, NEW r \in Results
  PROVE  r \in Seq(PacketRec) /\ Runs(deprecate_eof, r, AResult, Over)
<1>1. CASE r \in LastResult BY <1>1, LastRuns
<1>2. ASSUME NEW a \in OneResult(TRUE), NEW b \in LastResult, r = a \o b
      PROVE  r \in Seq(PacketRec) /\ Runs(deprecate_eof, r, AResult, Over)
  <2>1. a \in Seq(PacketRec) /\ Runs(deprecate_eof, a, AResult, IF TRUE THEN AResult ELSE Over)
    BY ResultRuns, Zenon
  <2>2. Runs(deprecate_eof, a, AResult, AResult) BY <2>1
  <2>3. b \in Seq(PacketRec) /\ Runs(deprecate_eof, b, AResult, Over) BY LastRuns
  <2>4. Runs(deprecate_eof, a \o b, AResult, Over) BY <2>1, <2>2, <2>3, RunsConcat, Zenon
  <2>5. a \o b \in Seq(PacketRec) BY <2>1, <2>3
  <2> QED BY <1>2, <2>4, <2>5
<1>3. r \in LastResult \/ \E a \in OneResult(TRUE), b \in LastResult : r = a \o b
  <2>1. r \in LastResult \/ r \in {c[1] \o c[2] : c \in OneResult(TRUE) \X LastResult}
    BY Zenon DEF Results
  <2> QED BY <2>1, Zenon
<1> QED BY <1>1, <1>2, <1>3, Zenon

\* The reply to a Prepare that succeeds.
LEMMA PrepareRuns ==
  ASSUME deprecate_eof \in BOOLEAN, NEW n \in 0..1, NEW m \in 0..1, NEW id \in Nat
  PROVE  LET p == [Pkt("PrepareOk", n, FALSE) EXCEPT !.id = id, !.cols = m]
             r == <<p>> \o Defs(n) \o Defs(m)
         IN  /\ r \in Seq(PacketRec) /\ Runs(deprecate_eof, r, APrepare, Over)
             /\ \A x \in Keys(r) : x.kind = "PrepareOk" => x.id = id
<1>1. PICK p : p = [Pkt("PrepareOk", n, FALSE) EXCEPT !.id = id, !.cols = m] BY Zenon
<1>2. p \in PacketRec /\ p.kind = "PrepareOk" /\ p.n = n /\ p.cols = m /\ p.id = id
  BY <1>1, n \in Nat, m \in Nat, Zenon DEF Pkt, PacketRec, PacketKind, None
<1>3. Defined(deprecate_eof, n) \in Nat /\ Defined(deprecate_eof, m) \in Nat
      /\ Defined(deprecate_eof, n) + Defined(deprecate_eof, m) \in Nat
      /\ Defined(deprecate_eof, m) + 0 = Defined(deprecate_eof, m)
  BY DEF Defined
<1>4. Leads(deprecate_eof, APrepare, p, Rest(Defined(deprecate_eof, n) + Defined(deprecate_eof, m)))
  BY <1>2, Zenon DEF Leads
<1>5. Runs(deprecate_eof, <<p>>, APrepare, Rest(Defined(deprecate_eof, n) + Defined(deprecate_eof, m)))
  BY <1>3, <1>4, Places, RunsOne
<1>6. PICK a : a = Defs(n) BY Zenon
<1>7. PICK b : b = Defs(m) BY Zenon
<1>8. /\ a \in Seq(PacketRec) /\ \A x \in Keys(a) : x.kind \in {"Definition", "EOF"}
      /\ Runs(deprecate_eof, a, Rest(Defined(deprecate_eof, n) + Defined(deprecate_eof, m)),
              Rest(Defined(deprecate_eof, m)))
  BY <1>3, <1>6, DefsRun, Zenon
<1>9. /\ b \in Seq(PacketRec) /\ \A x \in Keys(b) : x.kind \in {"Definition", "EOF"}
      /\ Runs(deprecate_eof, b, Rest(Defined(deprecate_eof, m) + 0), Rest(0))
  BY <1>7, DefsRun
<1>10. <<p>> \in Seq(PacketRec) BY <1>2
<1>11. /\ <<p>> \o a \in Seq(PacketRec)
       /\ Runs(deprecate_eof, <<p>> \o a, APrepare, Rest(Defined(deprecate_eof, m)))
  BY <1>5, <1>8, <1>10, SeqFacts, RunsConcat, Zenon
<1>12. /\ (<<p>> \o a) \o b \in Seq(PacketRec)
       /\ Runs(deprecate_eof, (<<p>> \o a) \o b, APrepare, Over)
  <2>1. Runs(deprecate_eof, b, Rest(Defined(deprecate_eof, m)), Over)
    BY <1>3, <1>9 DEF Over
  <2> QED BY <2>1, <1>9, <1>11, SeqFacts, RunsConcat, Zenon
<1>13. \A x \in Keys((<<p>> \o a) \o b) : x = p \/ x \in Keys(a) \/ x \in Keys(b)
  BY <1>2, <1>8, <1>9 DEF Keys
<1> QED BY <1>1, <1>2, <1>6, <1>7, <1>8, <1>9, <1>12, <1>13, Zenon

-----------------------------------------------------------------------------
(* The invariant. *)

CommandKind == {"Prepare", "Execute", "Query", "Ping", "StmtClose", "Quit"}
Asking == {"Prepare", "Execute", "Query", "Ping"}

CommandRec == [kind : CommandKind, id : Nat, sql : Sql \cup {None}, call : Nat]
OpRec == [kind : {"none", "query", "exec", "prepare", "fetch", "ping"},
          sql : Sql \cup {None}, persistent : BOOLEAN, limit : {0, 1},
          running : BOOLEAN, id : Nat, left : Nat, cols : Nat, step : Step]

TypeInv ==
    /\ op \in OpRec /\ calls \in Nat
    /\ waiting \in {<<>>, <<"Result">>, <<"Row">>}
    /\ cache \in Seq(Sql) /\ ids \in [Sql -> Nat] /\ next_id \in Nat \ {0}
    /\ wbuf \in Seq(CommandRec) /\ sent \in Seq(CommandRec) /\ inbox \in Seq(PacketRec)
    /\ deprecate_eof \in BOOLEAN /\ closed \in BOOLEAN /\ open \in BOOLEAN
    /\ \A n \in DOMAIN stmts : n \in Nat /\ n < next_id

\* The steps between the announcement of the reply, if the statement is to run,
\* and the Execute.
PrepareSteps == {"lookup", "prepare_flush", "prepare_ok", "params", "columns",
                 "close_flush", "prepared"}

\* What is announced at each step.
PhaseInv ==
    /\ op.step \in PrepareSteps =>
          /\ op.sql \in Sql
          /\ op.running => waiting = <<"Result">>
          /\ ~ op.running => waiting = <<>>
    /\ op.step \in {"run_flush", "result"} => waiting = <<"Result">>
    /\ op.step \in {"skip", "metadata", "rows"} => waiting = <<"Row">>
    /\ op.step \in {"ping_flush", "ping_ok"} => waiting = <<>>
    /\ op.kind \in {"exec", "prepare", "fetch"} => op.sql \in Sql

\* What is flushed at each step.
BufferInv ==
    /\ ~ Flushing => Keys(wbuf) = {}
    /\ Flushing => \E c \in CommandRec : wbuf = <<c>>
    /\ \A c \in Keys(wbuf) :
          /\ c.call = calls
          /\ op.step = "prepare_flush" => c.kind = "Prepare" /\ c.sql = op.sql
          /\ op.step = "close_flush" => c.kind = "StmtClose"
          /\ op.step = "run_flush" => c.kind \in {"Execute", "Query"}
          /\ op.step = "ping_flush" => c.kind = "Ping"

\* The place in the reply that the next packet read is taken from.
Awaiting(s) ==
    /\ op.step \in {"idle", "ready"} =>
          /\ waiting = <<>> => s = Over
          /\ waiting = <<"Result">> => s = AResult
          /\ waiting = <<"Row">> => \E n \in Nat : s = InSet(n) /\ (n > 0 => deprecate_eof)
    /\ op.step \in {"skip", "metadata"} => s = InSet(op.left)
    /\ op.step = "rows" => s = InSet(0)
    /\ op.step = "result" => s = AResult
    /\ op.step = "prepare_ok" => s = APrepare
    /\ op.step = "params" => s = Rest(op.left + Defined(deprecate_eof, op.cols))
    /\ op.step = "columns" => s = Rest(op.left)
    /\ op.step = "ping_ok" => s = APing
    /\ op.step \in {"lookup", "prepare_flush", "close_flush", "prepared",
                    "run_flush", "ping_flush"} => s = Over

\* It depends on the client alone.
LEMMA AwaitingKept ==
  ASSUME NEW s, Awaiting(s), op' = op, waiting' = waiting, deprecate_eof' = deprecate_eof
  PROVE  Awaiting(s)'
BY Zenon DEF Awaiting

\* The place a command is answered from.
Answer(kind) == CASE kind = "Prepare" -> APrepare [] kind = "Ping" -> APing [] OTHER -> AResult

\* The commands under way that are answered.
Asked == {m \in Keys(sent) : m.kind \in Asking}

\* The reply under way continues at the place the client reads it from: it is
\* still to be sent, or in the inbox, as a whole unless the connection is gone.
ChannelInv ==
    \E s \in Place :
       /\ Awaiting(s)
       /\ \/ inbox = <<>> /\ \E m \in Asked : Answer(m.kind) = s
          \/ /\ Asked = {}
             /\ \E t \in Place : /\ Runs(deprecate_eof, inbox, s, t)
                                 /\ open /\ ~ closed => t = Over

\* No two commands wait for an answer.
OneAsked == \A i, j \in DOMAIN sent : sent[i].kind \in Asking /\ sent[j].kind \in Asking => i = j

Busy == op.step \notin {"idle", "ready", "skip"}

\* Past wait_until_ready everything under way belongs to this operation.
OwnInv ==
    /\ ~ open => sent = <<>>
    /\ Busy => /\ \A m \in Asked : m.call = calls
               /\ \A p \in Keys(inbox) : p.call = calls

\* The steps at which an operation holds its statement.
Held == {"params", "columns", "close_flush", "prepared"}

\* The steps after a miss of the cache.
MissSteps == {"prepare_flush", "prepare_ok", "params", "columns"}

Commands == Keys(sent) \cup Keys(wbuf)

\* The statements the client knows are the server's,
MissInv == op.step \in MissSteps => op.sql \notin Keys(cache)
CacheKnown == \A q \in Keys(cache) : Known(ids[q], q)
HeldKnown == op.step \in Held => Known(op.id, op.sql)
ReplyKnown ==
    op.step = "prepare_ok" =>
        /\ \A p \in Keys(inbox) : p.kind = "PrepareOk" => Known(p.id, op.sql)
        /\ \A m \in Keys(sent) : m.kind = "Prepare" => m.sql = op.sql
ExecuteKnown == \A m \in Commands : m.kind = "Execute" => Known(m.id, m.sql)

\* and a statement that is closed is none of them.
ClosesApart ==
    \A m \in Commands : m.kind = "StmtClose" =>
        /\ m.id < next_id
        /\ \A q \in Keys(cache) : ids[q] # m.id
        /\ op.step \in Held => op.id # m.id
        /\ op.step = "prepare_ok" => \A p \in Keys(inbox) : p.kind = "PrepareOk" => p.id # m.id
        /\ \A x \in Commands : x.kind = "Execute" => x.id # m.id

StatementInv == MissInv /\ CacheKnown /\ HeldKnown /\ ReplyKnown /\ ExecuteKnown /\ ClosesApart

MyInv == TypeInv /\ PhaseInv /\ BufferInv /\ ChannelInv /\ OneAsked /\ OwnInv /\ StatementInv

-----------------------------------------------------------------------------
(* The channel. *)

\* The elements of a sequence.
LEMMA KeysFacts ==
  ASSUME NEW S
  PROVE  /\ Keys(<<>>) = {}
         /\ \A x : Keys(<<x>>) = {x}
         /\ \A a, b \in Seq(S) : Keys(a \o b) = Keys(a) \cup Keys(b)
         /\ \A a \in Seq(S) : a # <<>> => /\ a[1] \in Keys(a)
                                          /\ Keys(Tail(a)) \subseteq Keys(a)
         /\ \A a \in Seq(S) : Keys(a) = {} => a = <<>>
         /\ \A a \in Seq(S) : \A x \in Keys(a) : x \in S
<1>1. Keys(<<>>) = {} /\ \A x : Keys(<<x>>) = {x} BY DEF Keys
<1>2. ASSUME NEW a \in Seq(S), NEW b \in Seq(S) PROVE Keys(a \o b) = Keys(a) \cup Keys(b)
  <2>1. PICK c : c = a \o b BY Zenon
  <2>2. /\ \A i \in DOMAIN a : i \in DOMAIN c /\ c[i] = a[i]
        /\ \A i \in DOMAIN b : i + Len(a) \in DOMAIN c /\ c[i + Len(a)] = b[i]
        /\ \A i \in DOMAIN c : \/ i \in DOMAIN a /\ c[i] = a[i]
                               \/ i - Len(a) \in DOMAIN b /\ c[i] = b[i - Len(a)]
    BY <2>1, SMTT(20)
  <2>3. ASSUME NEW x \in Keys(a) PROVE x \in Keys(c) BY <2>2, <2>3, Zenon DEF Keys
  <2>4. ASSUME NEW x \in Keys(b) PROVE x \in Keys(c) BY <2>2, <2>4, Zenon DEF Keys
  <2>5. ASSUME NEW x \in Keys(c) PROVE x \in Keys(a) \cup Keys(b) BY <2>2, <2>5, Zenon DEF Keys
  <2> QED BY <2>1, <2>3, <2>4, <2>5, Zenon
<1>3. ASSUME NEW a \in Seq(S), a # <<>>
      PROVE  a[1] \in Keys(a) /\ Keys(Tail(a)) \subseteq Keys(a)
  <2>1. 1 \in DOMAIN a /\ \A i \in DOMAIN Tail(a) : i + 1 \in DOMAIN a /\ Tail(a)[i] = a[i + 1]
    BY <1>3
  <2> QED BY <2>1, Zenon DEF Keys
<1>4. ASSUME NEW a \in Seq(S), Keys(a) = {} PROVE a = <<>>
  <2>1. a # <<>> => 1 \in DOMAIN a OBVIOUS
  <2> QED BY <2>1, <1>4, Zenon DEF Keys
<1>5. \A a \in Seq(S) : \A x \in Keys(a) : x \in S
  <2>1. \A a \in Seq(S) : \A i \in DOMAIN a : a[i] \in S OBVIOUS
  <2> QED BY <2>1, Zenon DEF Keys
<1> QED BY <1>1, <1>2, <1>3, <1>4, <1>5, Zenon

\* Where the reply is over, nothing is under way.
LEMMA Silent ==
  ASSUME TypeInv, ChannelInv, \A s \in Place : Awaiting(s) => s = Over
  PROVE  Asked = {} /\ inbox = <<>>
<1>1. PICK s \in Place :
         /\ Awaiting(s)
         /\ \/ inbox = <<>> /\ \E m \in Asked : Answer(m.kind) = s
            \/ /\ Asked = {}
               /\ \E t \in Place : Runs(deprecate_eof, inbox, s, t) /\ (open /\ ~ closed => t = Over)
  BY DEF ChannelInv
<1>2. s = Over BY <1>1
<1>3. \A k : Answer(k) # Over BY Places DEF Answer, Over
<1>4. Asked = {} /\ \E t \in Place : Runs(deprecate_eof, inbox, Over, t) BY <1>1, <1>2, <1>3
<1>5. ASSUME inbox # <<>> PROVE FALSE
  <2>1. inbox \in Seq(PacketRec) BY DEF TypeInv
  <2>2. \E x \in Place : Leads(deprecate_eof, Over, inbox[1], x) BY <1>4, <1>5, <2>1, RunsTail
  <2> QED BY <2>2, FromOver
<1> QED BY <1>4, <1>5

\* What leaves the channel alone.
Quiet == UNCHANGED <<deprecate_eof, closed, sent, inbox, stmts, next_id, open>>

\* The client goes on, and awaits the same.
LEMMA QuietChannel ==
  ASSUME ChannelInv, OneAsked, Quiet, \A s \in Place : Awaiting(s) => Awaiting(s)'
  PROVE  ChannelInv' /\ OneAsked'
<1>1. PICK s \in Place :
         /\ Awaiting(s)
         /\ \/ inbox = <<>> /\ \E m \in Asked : Answer(m.kind) = s
            \/ /\ Asked = {}
               /\ \E t \in Place : Runs(deprecate_eof, inbox, s, t) /\ (open /\ ~ closed => t = Over)
  BY DEF ChannelInv
<1>2. /\ Awaiting(s)' /\ Asked' = Asked /\ inbox' = inbox /\ deprecate_eof' = deprecate_eof
      /\ open' = open /\ closed' = closed /\ sent' = sent
  BY <1>1 DEF Quiet, Asked
<1>3. ChannelInv' BY <1>1, <1>2, Zenon DEF ChannelInv
<1>4. OneAsked' BY <1>2 DEF OneAsked
<1> QED BY <1>3, <1>4

\* The client gives up when the connection is gone and nothing is under way.
LEMMA GivesUp ==
  ASSUME Asked = {}, inbox = <<>>, ~ (open /\ ~ closed), OneAsked, Quiet,
         NEW s \in Place, Awaiting(s)'
  PROVE  ChannelInv' /\ OneAsked'
<1>1. /\ Asked' = Asked /\ inbox' = inbox /\ deprecate_eof' = deprecate_eof
      /\ open' = open /\ closed' = closed /\ sent' = sent
  BY DEF Quiet, Asked
<1>2. Runs(deprecate_eof, <<>>, s, s) BY RunsNone
<1>3. ChannelInv' BY <1>1, <1>2, Zenon DEF ChannelInv
<1>4. OneAsked' BY <1>1 DEF OneAsked
<1> QED BY <1>3, <1>4

\* Between operations some place is awaited.
LEMMA IdleAwaits ==
  ASSUME op.step = "idle", waiting \in {<<>>, <<"Result">>, <<"Row">>}
  PROVE  \E s \in Place : Awaiting(s)
<1>1. CASE waiting = <<>> BY <1>1, Places, Zenon DEF Awaiting
<1>2. CASE waiting = <<"Result">> BY <1>2, Places DEF Awaiting
<1>3. CASE waiting = <<"Row">>
  <2>1. InSet(0) \in Place BY Places
  <2>2. Awaiting(InSet(0)) BY <1>3 DEF Awaiting
  <2> QED BY <2>1, <2>2
<1> QED BY <1>1, <1>2, <1>3

\* A packet is read, and the client awaits what it leads to.
LEMMA ReadChannel ==
  ASSUME TypeInv, ChannelInv, OneAsked, Read, UNCHANGED <<deprecate_eof, closed, sent, open>>,
         \A s, t \in Place : Awaiting(s) /\ Leads(deprecate_eof, s, inbox[1], t) => Awaiting(t)'
  PROVE  ChannelInv' /\ OneAsked'
<1>1. PICK s \in Place :
         /\ Awaiting(s)
         /\ \/ inbox = <<>> /\ \E m \in Asked : Answer(m.kind) = s
            \/ /\ Asked = {}
               /\ \E t \in Place : Runs(deprecate_eof, inbox, s, t) /\ (open /\ ~ closed => t = Over)
  BY DEF ChannelInv
<1>2. inbox # <<>> /\ inbox' = Tail(inbox) /\ inbox \in Seq(PacketRec) BY DEF Read, TypeInv
<1>3. /\ Asked' = Asked /\ deprecate_eof' = deprecate_eof
      /\ open' = open /\ closed' = closed /\ sent' = sent
  BY DEF Asked
<1>4. PICK t \in Place : /\ Asked = {} /\ Runs(deprecate_eof, inbox, s, t)
                         /\ open /\ ~ closed => t = Over
  BY <1>1, <1>2
<1>5. PICK x \in Place : /\ Leads(deprecate_eof, s, inbox[1], x)
                         /\ Runs(deprecate_eof, Tail(inbox), x, t)
  BY <1>2, <1>4, RunsTail
<1>6. Awaiting(x)' BY <1>1, <1>5
<1>7. ChannelInv'
  <2>1. Runs(deprecate_eof', inbox', x, t) /\ Asked' = {} /\ (open' /\ ~ closed' => t = Over)
    BY <1>2, <1>3, <1>4, <1>5
  <2> QED BY <1>6, <2>1, Zenon DEF ChannelInv
<1>8. OneAsked' BY <1>3 DEF OneAsked
<1> QED BY <1>7, <1>8

\* The reply is read by its own operation.
LEMMA ReadOwn ==
  ASSUME TypeInv, OwnInv, Read, UNCHANGED <<calls, sent, open>>, Busy' => Busy
  PROVE  OwnInv'
<1>1. inbox # <<>> /\ inbox' = Tail(inbox) /\ inbox \in Seq(PacketRec) BY DEF Read, TypeInv
<1>2. Keys(inbox') \subseteq Keys(inbox) BY <1>1, KeysFacts
<1>3. Asked' = Asked BY DEF Asked
<1> QED BY <1>2, <1>3 DEF OwnInv

\* An operation goes on, or begins when nothing is under way.
LEMMA QuietOwn ==
  ASSUME OwnInv, Quiet,
         Busy' => (Busy /\ calls' = calls) \/ (Asked = {} /\ inbox = <<>>)
  PROVE  OwnInv'
<1>1. /\ Asked' = Asked /\ inbox' = inbox /\ open' = open /\ sent' = sent BY DEF Quiet, Asked
<1>2. Keys(<<>>) = {} BY KeysFacts
<1> QED BY <1>1, <1>2 DEF OwnInv

\* What claims no statement.
Carries ==
    /\ UNCHANGED <<cache, ids, stmts, next_id>>
    /\ op'.step \in Held => op.step \in Held /\ op'.id = op.id /\ op'.sql = op.sql
    /\ op'.step \in MissSteps => op'.sql = op.sql /\ (op.step \in MissSteps \/ op.sql \notin Keys(cache))
    /\ op'.step = "prepare_ok" =>
          /\ op'.sql = op.sql
          /\ Keys(inbox') # {} => op.step = "prepare_ok" /\ Keys(inbox') \subseteq Keys(inbox)
          /\ \A m \in Keys(sent') : m.kind = "Prepare" => m.sql = op.sql
    /\ \A m \in Commands' : m \in Commands \/ m.kind \notin {"Execute", "StmtClose"}

\* The statements known stay so.
LEMMA CarriesStatements ==
  ASSUME StatementInv, Carries PROVE StatementInv'
<1>1. cache' = cache /\ ids' = ids /\ stmts' = stmts /\ next_id' = next_id BY DEF Carries
<1>2. \A n, q : Known(n, q)' <=> Known(n, q) BY <1>1 DEF Known
<1>3. Keys(cache') = Keys(cache) BY <1>1
<1>4. CacheKnown' BY <1>1, <1>2, <1>3 DEF StatementInv, CacheKnown, Known
<1>5. HeldKnown' BY <1>1 DEF StatementInv, HeldKnown, Carries, Known
<1>6. ReplyKnown' BY <1>1 DEF StatementInv, ReplyKnown, Carries, Known
<1>7. ExecuteKnown' BY <1>1 DEF StatementInv, ExecuteKnown, Carries, Known
<1>8. ClosesApart' BY <1>1, <1>3 DEF StatementInv, ClosesApart, Carries
<1>9. MissInv' BY <1>3 DEF StatementInv, MissInv, Carries
<1> QED BY <1>4, <1>5, <1>6, <1>7, <1>8, <1>9 DEF StatementInv

-----------------------------------------------------------------------------
(* The steps of the client that leave the channel alone. *)

\* The queue holds at most one announcement.
LEMMA Waits ==
  /\ <<"Result">> # <<>> /\ <<"Row">> # <<>> /\ <<"Result">> # <<"Row">>
  /\ <<"Result">>[1] = "Result" /\ <<"Row">>[1] = "Row"
  /\ PopFront(<<>>) = <<>> /\ PopFront(<<"Result">>) = <<>> /\ PopFront(<<"Row">>) = <<>>
  /\ waiting \in {<<"Result">>, <<"Row">>} =>
        SetFront("Result") = <<"Result">> /\ SetFront("Row") = <<"Row">>
  /\ waiting = <<>> => Announce = <<"Result">>
<1>1. <<"Result">> # <<>> /\ <<"Row">> # <<>> /\ <<"Result">> # <<"Row">>
      /\ <<"Result">>[1] = "Result" /\ <<"Row">>[1] = "Row"
  OBVIOUS
<1>2. Tail(<<"Result">>) = <<>> /\ Tail(<<"Row">>) = <<>> OBVIOUS
<1>3. PopFront(<<>>) = <<>> /\ PopFront(<<"Result">>) = <<>> /\ PopFront(<<"Row">>) = <<>>
  BY <1>1, <1>2, Zenon DEF PopFront
<1>4. <<"Result">> \o <<>> = <<"Result">> /\ <<"Row">> \o <<>> = <<"Row">> OBVIOUS
<1>5. waiting \in {<<"Result">>, <<"Row">>} =>
        SetFront("Result") = <<"Result">> /\ SetFront("Row") = <<"Row">>
  BY <1>2, <1>4, Zenon DEF SetFront
<1>6. Append(<<>>, "Result") = <<"Result">> OBVIOUS
<1> QED BY <1>1, <1>3, <1>5, <1>6, Zenon DEF Announce

\* The fields of the operation after a step.
LEMMA Fields ==
  ASSUME op \in OpRec
  PROVE  /\ \A x \in Step : LET g == [op EXCEPT !.step = x] IN
               /\ g \in OpRec /\ g.step = x /\ g.kind = op.kind /\ g.sql = op.sql
               /\ g.running = op.running /\ g.id = op.id /\ g.left = op.left /\ g.cols = op.cols
         /\ \A x \in Step, n \in Nat : LET g == [op EXCEPT !.left = n, !.step = x] IN
               /\ g \in OpRec /\ g.step = x /\ g.kind = op.kind /\ g.sql = op.sql
               /\ g.running = op.running /\ g.id = op.id /\ g.left = n /\ g.cols = op.cols
         /\ \A x \in Step, n \in Nat : LET g == [op EXCEPT !.id = n, !.step = x] IN
               /\ g \in OpRec /\ g.step = x /\ g.kind = op.kind /\ g.sql = op.sql
               /\ g.running = op.running /\ g.id = n /\ g.left = op.left /\ g.cols = op.cols
         /\ Idle \in OpRec /\ Idle.step = "idle" /\ Idle.kind = "none"
<1>1. ASSUME NEW x \in Step
      PROVE  LET g == [op EXCEPT !.step = x] IN
               /\ g \in OpRec /\ g.step = x /\ g.kind = op.kind /\ g.sql = op.sql
               /\ g.running = op.running /\ g.id = op.id /\ g.left = op.left /\ g.cols = op.cols
  BY DEF OpRec
<1>2. ASSUME NEW x \in Step, NEW n \in Nat
      PROVE  LET g == [op EXCEPT !.left = n, !.step = x] IN
               /\ g \in OpRec /\ g.step = x /\ g.kind = op.kind /\ g.sql = op.sql
               /\ g.running = op.running /\ g.id = op.id /\ g.left = n /\ g.cols = op.cols
  BY Zenon DEF OpRec
<1>3. ASSUME NEW x \in Step, NEW n \in Nat
      PROVE  LET g == [op EXCEPT !.id = n, !.step = x] IN
               /\ g \in OpRec /\ g.step = x /\ g.kind = op.kind /\ g.sql = op.sql
               /\ g.running = op.running /\ g.id = n /\ g.left = op.left /\ g.cols = op.cols
  BY Zenon DEF OpRec
<1>4. Idle \in OpRec /\ Idle.step = "idle" /\ Idle.kind = "none"
  BY DEF OpRec, Idle, Step, None
<1> QED BY <1>1, <1>2, <1>3, <1>4, Zenon

\* What send_packet leaves.
LEMMA Sends ==
  ASSUME TypeInv, NEW k \in CommandKind, NEW n \in Nat, NEW x \in Step, Send(k, n, x)
  PROVE  /\ \E c \in CommandRec : /\ wbuf' = <<c>> /\ Keys(wbuf') = {c} /\ wbuf' \in Seq(CommandRec)
                                  /\ c.kind = k /\ c.id = n /\ c.sql = op.sql /\ c.call = calls
         /\ op' = [op EXCEPT !.step = x]
<1>1. PICK c : c = Command(k, n) BY Zenon
<1>2. op.sql \in Sql \cup {None} /\ calls \in Nat BY DEF TypeInv, OpRec
<1>3. c \in CommandRec /\ c.kind = k /\ c.id = n /\ c.sql = op.sql /\ c.call = calls
  BY <1>1, <1>2 DEF Command, CommandRec
<1>4. <<c>> \in Seq(CommandRec) BY <1>3, SeqFacts
<1>5. wbuf' = <<c>> /\ op' = [op EXCEPT !.step = x] BY <1>1, Zenon DEF Send
<1> QED BY <1>3, <1>4, <1>5, KeysFacts, Zenon

\* A step that leaves the channel alone.
LEMMA QuietStep ==
  ASSUME MyInv, Quiet, TypeInv', PhaseInv', BufferInv', StatementInv',
         \A s \in Place : Awaiting(s) => Awaiting(s)',
         Busy' => (Busy /\ calls' = calls) \/ (\A s \in Place : Awaiting(s) => s = Over)
  PROVE  MyInv'
<1>1. ChannelInv' /\ OneAsked' BY QuietChannel DEF MyInv
<1>2. OwnInv' BY Silent, QuietOwn DEF MyInv
<1> QED BY <1>1, <1>2 DEF MyInv

\* The value of a membership.
LEMMA NotIn == ASSUME NEW S, NEW k, k \notin S PROVE (k \in S) = FALSE
OBVIOUS

\* An operation begins.
LEMMA Starts ==
  ASSUME MyInv,
         NEW k \in {"query", "exec", "prepare", "fetch", "ping"},
         NEW q \in Sql \cup {None}, k \in {"exec", "prepare", "fetch"} => q \in Sql,
         NEW p \in BOOLEAN, NEW l \in {0, 1}, Start(k, q, p, l)
  PROVE  MyInv'
<1>1. /\ op.step = "idle" /\ calls' = calls + 1
      /\ op' = [Idle EXCEPT !.kind = k, !.sql = q, !.persistent = p, !.limit = l,
                   !.running = k \in {"query", "fetch"}, !.step = "ready"]
      /\ UNCHANGED <<deprecate_eof, waiting, cache, ids, closed, wbuf, sent, inbox, stmts, next_id, open>>
  BY DEF Start, At, conn, server, statements
<1>2. op' \in OpRec /\ op'.step = "ready" /\ op'.kind = k /\ op'.sql = q
  <2>1. "ready" \in Step BY DEF Step
  <2>2. CASE k \in {"query", "fetch"}
    <3>1. op' = [Idle EXCEPT !.kind = k, !.sql = q, !.persistent = p, !.limit = l,
                    !.running = TRUE, !.step = "ready"]
      BY <1>1, <2>2, Zenon
    <3> QED BY <2>1, <3>1, Zenon DEF OpRec, Idle, None
  <2>3. CASE k \notin {"query", "fetch"}
    <3>1. op' = [Idle EXCEPT !.kind = k, !.sql = q, !.persistent = p, !.limit = l,
                    !.running = FALSE, !.step = "ready"]
      <4>1. (k \in {"query", "fetch"}) = FALSE BY <2>3, NotIn
      <4> QED BY <1>1, <4>1, Zenon
    <3> QED BY <2>1, <3>1, Zenon DEF OpRec, Idle, None
  <2> QED BY <2>2, <2>3
<1>3. TypeInv' BY <1>1, <1>2 DEF MyInv, TypeInv
<1>4. PhaseInv' BY <1>2 DEF PhaseInv, PrepareSteps
<1>5. Keys(wbuf') = {} BY <1>1 DEF MyInv, BufferInv, Flushing
<1>6. BufferInv' BY <1>2, <1>5 DEF BufferInv, Flushing
<1>7. ASSUME NEW s \in Place, Awaiting(s) PROVE Awaiting(s)'
  BY <1>1, <1>2, <1>7 DEF Awaiting
<1>8. ~ Busy' BY <1>2 DEF Busy
<1>9. Carries BY <1>1, <1>2, <1>5 DEF Carries, Held, MissSteps, Commands
<1>10. StatementInv' BY <1>9, CarriesStatements DEF MyInv
<1>11. Quiet BY <1>1 DEF Quiet
<1> QED BY <1>3, <1>4, <1>6, <1>7, <1>8, <1>10, <1>11, QuietStep

\* A step to another one, with nothing else changed.
LEMMA Goes ==
  ASSUME MyInv, NEW x \in Step, ~ Flushing,
         x \notin {"prepare_flush", "close_flush", "run_flush", "ping_flush", "prepare_ok"},
         x \in Held => op.step \in Held /\ op'.id = op.id,
         x \in MissSteps => op.step \in MissSteps,
         op' \in OpRec, op'.step = x, op'.sql = op.sql, op'.kind = op.kind,
         Quiet, UNCHANGED <<calls, wbuf, cache, ids>>,
         waiting' \in {<<>>, <<"Result">>, <<"Row">>}, PhaseInv',
         \A s \in Place : Awaiting(s) => Awaiting(s)',
         Busy' => Busy \/ (\A s \in Place : Awaiting(s) => s = Over)
  PROVE  MyInv'
<1>1. TypeInv' BY DEF MyInv, TypeInv, Quiet
<1>2. Keys(wbuf') = {} BY DEF MyInv, BufferInv
<1>3. BufferInv' BY <1>2 DEF BufferInv, Flushing
<1>4. Carries BY <1>2 DEF Carries, Commands, Quiet
<1>5. StatementInv' BY <1>4, CarriesStatements DEF MyInv
<1> QED BY <1>1, <1>3, <1>5, QuietStep

\* SkipEnd, PrepareWith, ParamsEnd, StoreNot, Prepared, RunPrepared and MetadataEnd.
LEMMA LocalSteps ==
  ASSUME MyInv, \/ SkipEnd \/ PrepareWith \/ ParamsEnd \/ StoreNot
                \/ (Prepared /\ op'.step # "idle") \/ RunPrepared \/ MetadataEnd
  PROVE  MyInv'
<1>t. op \in OpRec /\ waiting \in {<<>>, <<"Result">>, <<"Row">>} /\ PhaseInv
      /\ op.left \in Nat /\ op.cols \in Nat /\ deprecate_eof \in BOOLEAN
  BY DEF MyInv, TypeInv, OpRec
<1>s. \A x \in {"ready", "lookup", "columns", "prepared", "rows"} : x \in Step BY DEF Step
<1>1. CASE SkipEnd
  <2>1. /\ op.step = "skip" /\ op.left = 0 /\ op' = [op EXCEPT !.step = "ready"]
        /\ Quiet /\ UNCHANGED <<calls, waiting, wbuf, cache, ids>>
    BY <1>1 DEF SkipEnd, At, Goto, conn, server, statements, Quiet
  <2>2. op' \in OpRec /\ op'.step = "ready" /\ op'.sql = op.sql /\ op'.kind = op.kind
    BY <2>1, <1>t, <1>s, Fields, Zenon
  <2>3. PhaseInv' BY <2>1, <2>2, <1>t DEF PhaseInv, PrepareSteps
  <2>4. ASSUME NEW s \in Place, Awaiting(s) PROVE Awaiting(s)'
    <3>1. s = InSet(0) /\ waiting' = <<"Row">> BY <2>1, <2>4, <1>t DEF Awaiting, PhaseInv
    <3> QED BY <3>1, <2>2, Waits DEF Awaiting
  <2> QED BY <2>1, <2>2, <2>3, <2>4, <1>t, <1>s, Goes DEF Flushing, Held, MissSteps, Busy
<1>2. CASE PrepareWith
  <2>1. /\ op.step = "ready" /\ waiting = <<>> /\ op' = [op EXCEPT !.step = "lookup"]
        /\ op.kind \in {"exec", "prepare"} /\ ~ op.running
        /\ Quiet /\ UNCHANGED <<calls, waiting, wbuf, cache, ids>>
    BY <1>2 DEF PrepareWith, Ready, At, Goto, conn, server, statements, Quiet
  <2>2. op' \in OpRec /\ op'.step = "lookup" /\ op'.sql = op.sql /\ op'.kind = op.kind
        /\ op'.running = op.running
    BY <2>1, <1>t, <1>s, Fields, Zenon
  <2>3. PhaseInv' BY <2>1, <2>2, <1>t DEF PhaseInv, PrepareSteps
  <2>4. ASSUME NEW s \in Place, Awaiting(s) PROVE Awaiting(s)' /\ s = Over
    BY <2>1, <2>2, <2>4 DEF Awaiting
  <2> QED BY <2>1, <2>2, <2>3, <2>4, <1>t, <1>s, Goes DEF Flushing, Held, MissSteps
<1>3. CASE ParamsEnd
  <2>1. /\ op.step = "params" /\ op.left = 0
        /\ op' = [op EXCEPT !.left = Definitions(op.cols), !.step = "columns"]
        /\ Quiet /\ UNCHANGED <<calls, waiting, wbuf, cache, ids>>
    BY <1>3 DEF ParamsEnd, At, conn, server, statements, Quiet
  <2>2. Definitions(op.cols) = Defined(deprecate_eof, op.cols) /\ Definitions(op.cols) \in Nat
        /\ 0 + Defined(deprecate_eof, op.cols) = Definitions(op.cols)
    BY <1>t DEF Definitions, Defined
  <2>3. op' \in OpRec /\ op'.step = "columns" /\ op'.sql = op.sql /\ op'.kind = op.kind
        /\ op'.running = op.running /\ op'.id = op.id /\ op'.left = Definitions(op.cols)
    <3>1. PICK n \in Nat : n = Definitions(op.cols) BY <2>2
    <3>2. op' = [op EXCEPT !.left = n, !.step = "columns"] /\ "columns" \in Step BY <2>1, <3>1, <1>s
    <3>3. op \in OpRec BY <1>t
    <3>4. op' \in OpRec /\ op'.step = "columns" /\ op'.sql = op.sql /\ op'.kind = op.kind
          /\ op'.running = op.running /\ op'.id = op.id /\ op'.left = n
      BY <3>2, <3>3, Zenon DEF OpRec
    <3> QED BY <3>1, <3>4, Zenon
  <2>4. PhaseInv' BY <2>1, <2>3, <1>t DEF PhaseInv, PrepareSteps
  <2>5. ASSUME NEW s \in Place, Awaiting(s) PROVE Awaiting(s)'
    BY <2>1, <2>2, <2>3, <2>5 DEF Awaiting
  <2> QED BY <2>1, <2>3, <2>4, <2>5, <1>t, <1>s, Goes DEF Flushing, Held, MissSteps, Busy
<1>4. CASE StoreNot
  <2>1. /\ op.step = "columns" /\ op.left = 0 /\ op' = [op EXCEPT !.step = "prepared"]
        /\ Quiet /\ UNCHANGED <<calls, waiting, wbuf, cache, ids>>
    BY <1>4 DEF StoreNot, At, Goto, conn, server, statements, Quiet
  <2>2. op' \in OpRec /\ op'.step = "prepared" /\ op'.sql = op.sql /\ op'.kind = op.kind
        /\ op'.running = op.running /\ op'.id = op.id
    BY <2>1, <1>t, <1>s, Fields, Zenon
  <2>3. PhaseInv' BY <2>1, <2>2, <1>t DEF PhaseInv, PrepareSteps
  <2>4. ASSUME NEW s \in Place, Awaiting(s) PROVE Awaiting(s)'
    BY <2>1, <2>2, <2>4 DEF Awaiting, Over
  <2> QED BY <2>1, <2>2, <2>3, <2>4, <1>t, <1>s, Goes DEF Flushing, Held, MissSteps, Busy
<1>5. CASE Prepared /\ op'.step # "idle"
  <2>1. /\ op.step = "prepared" /\ op' = [op EXCEPT !.running = TRUE, !.step = "ready"]
        /\ ~ op.running
        /\ Quiet /\ UNCHANGED <<calls, waiting, wbuf, cache, ids>>
    BY <1>5, <1>t, Fields, Zenon DEF Prepared, At, End, conn, server, statements, Quiet
  <2>2. op' \in OpRec /\ op'.step = "ready" /\ op'.sql = op.sql /\ op'.kind = op.kind
    BY <2>1, <1>t, Zenon DEF OpRec, Step
  <2>3. PhaseInv' BY <2>1, <2>2, <1>t DEF PhaseInv, PrepareSteps
  <2>4. ASSUME NEW s \in Place, Awaiting(s) PROVE Awaiting(s)'
    <3>1. s = Over /\ waiting' = <<>> BY <2>1, <2>4, <1>t DEF Awaiting, PhaseInv, PrepareSteps
    <3> QED BY <3>1, <2>2, Waits DEF Awaiting
  <2> QED BY <2>1, <2>2, <2>3, <2>4, <1>t, <1>s, Goes DEF Flushing, Held, MissSteps, Busy
<1>6. CASE RunPrepared
  <2>1. /\ op.step = "ready" /\ waiting = <<>> /\ op' = [op EXCEPT !.step = "lookup"]
        /\ op.kind \in {"exec", "fetch"} /\ op.running /\ waiting' = Announce
        /\ Quiet /\ UNCHANGED <<calls, wbuf, cache, ids>>
    BY <1>6 DEF RunPrepared, Ready, At, Goto, conn, server, statements, Quiet
  <2>2. op' \in OpRec /\ op'.step = "lookup" /\ op'.sql = op.sql /\ op'.kind = op.kind
        /\ op'.running = op.running
    BY <2>1, <1>t, <1>s, Fields, Zenon
  <2>3. waiting' = <<"Result">> BY <2>1, Waits
  <2>4. PhaseInv' BY <2>1, <2>2, <2>3, <1>t DEF PhaseInv, PrepareSteps
  <2>5. ASSUME NEW s \in Place, Awaiting(s) PROVE Awaiting(s)' /\ s = Over
    BY <2>1, <2>2, <2>5 DEF Awaiting
  <2> QED BY <2>1, <2>2, <2>3, <2>4, <2>5, <1>t, <1>s, Goes DEF Flushing, Held, MissSteps
<1>7. CASE MetadataEnd
  <2>1. /\ op.step = "metadata" /\ op.left = 0 /\ op' = [op EXCEPT !.step = "rows"]
        /\ Quiet /\ UNCHANGED <<calls, waiting, wbuf, cache, ids>>
    BY <1>7 DEF MetadataEnd, At, Goto, conn, server, statements, Quiet
  <2>2. op' \in OpRec /\ op'.step = "rows" /\ op'.sql = op.sql /\ op'.kind = op.kind
    BY <2>1, <1>t, <1>s, Fields, Zenon
  <2>3. PhaseInv' BY <2>1, <2>2, <1>t DEF PhaseInv, PrepareSteps
  <2>4. ASSUME NEW s \in Place, Awaiting(s) PROVE Awaiting(s)'
    BY <2>1, <2>2, <2>4 DEF Awaiting
  <2> QED BY <2>1, <2>2, <2>3, <2>4, <1>t, <1>s, Goes DEF Flushing, Held, MissSteps, Busy
<1> QED BY <1>1, <1>2, <1>3, <1>4, <1>5, <1>6, <1>7

\* An operation ends or is dropped, and leaves what is announced.
LEMMA Ends ==
  ASSUME MyInv, op' = Idle, Quiet, UNCHANGED <<calls, waiting, cache, ids>>, wbuf' = <<>>,
         \/ \A s \in Place : Awaiting(s) => Awaiting(s)'
         \/ Asked = {} /\ inbox = <<>> /\ ~ (open /\ ~ closed)
  PROVE  MyInv'
<1>1. op' \in OpRec /\ op'.step = "idle" /\ op'.kind = "none" BY Fields, Zenon DEF MyInv, TypeInv
<1>2. wbuf' \in Seq(CommandRec) /\ Keys(wbuf') = {} BY KeysFacts
<1>3. TypeInv' BY <1>1, <1>2 DEF MyInv, TypeInv, Quiet
<1>4. PhaseInv' BY <1>1 DEF PhaseInv, PrepareSteps
<1>5. BufferInv' BY <1>1, <1>2 DEF BufferInv, Flushing
<1>6. Carries BY <1>1, <1>2 DEF Carries, Held, MissSteps, Commands, Quiet
<1>7. StatementInv' BY <1>6, CarriesStatements DEF MyInv
<1>8. ~ Busy' BY <1>1 DEF Busy
<1>9. OwnInv' BY <1>8, QuietOwn DEF MyInv
<1>10. ChannelInv' /\ OneAsked'
  <2>1. (op.step = "idle" /\ waiting \in {<<>>, <<"Result">>, <<"Row">>} => \E s \in Place : Awaiting(s))'
    BY IdleAwaits, PTL
  <2>2. PICK s \in Place : Awaiting(s)' BY <2>1, <1>1, <1>3 DEF TypeInv
  <2>3. CASE \A x \in Place : Awaiting(x) => Awaiting(x)' BY <2>3, QuietChannel DEF MyInv
  <2>4. CASE Asked = {} /\ inbox = <<>> /\ ~ (open /\ ~ closed) BY <2>2, <2>4, GivesUp DEF MyInv
  <2> QED BY <2>3, <2>4
<1> QED BY <1>3, <1>4, <1>5, <1>7, <1>9, <1>10 DEF MyInv

\* Where nothing is awaited nothing is under way.
LEMMA SilentSteps ==
  ASSUME MyInv, \/ op.step \in {"lookup", "prepare_flush", "close_flush", "prepared", "run_flush", "ping_flush"}
                \/ op.step = "ready" /\ waiting = <<>>
                \/ op.step = "columns" /\ op.left = 0
  PROVE  Asked = {} /\ inbox = <<>> /\ \A s \in Place : Awaiting(s) => s = Over
<1>1. \A s \in Place : Awaiting(s) => s = Over BY DEF Awaiting, Over
<1> QED BY <1>1, Silent DEF MyInv

\* Prepared, FlushError, RecvEof and Drop.
LEMMA EndSteps ==
  ASSUME MyInv, DropAt \subseteq Recoverable,
         (Prepared /\ op' = Idle) \/ FlushError \/ RecvEof \/ Drop
  PROVE  MyInv'
<1>t. op \in OpRec /\ waiting \in {<<>>, <<"Result">>, <<"Row">>} /\ PhaseInv
      /\ op.left \in Nat /\ deprecate_eof \in BOOLEAN /\ wbuf \in Seq(CommandRec)
  BY DEF MyInv, TypeInv, OpRec
<1>w. ~ Flushing => wbuf = <<>> BY <1>t, KeysFacts DEF MyInv, BufferInv
<1>i. op' = Idle => op'.step = "idle" BY <1>t, Fields, Zenon
<1>1. CASE Prepared /\ op' = Idle
  <2>1. /\ op.step = "prepared" /\ ~ op.running
        /\ Quiet /\ UNCHANGED <<calls, waiting, wbuf, cache, ids>>
    BY <1>1 DEF Prepared, At, conn, server, statements, Quiet
  <2>2. wbuf' = <<>> BY <2>1, <1>w DEF Flushing
  <2>3. ASSUME NEW s \in Place, Awaiting(s) PROVE Awaiting(s)'
    <3>1. s = Over /\ waiting' = <<>> BY <2>1, <2>3, <1>t DEF Awaiting, PhaseInv, PrepareSteps
    <3> QED BY <3>1, <1>1, <1>i, Waits DEF Awaiting
  <2> QED BY <1>1, <2>1, <2>2, <2>3, Ends
<1>2. CASE FlushError
  <2>1. /\ Flushing /\ (closed \/ ~ open) /\ op' = Idle /\ wbuf' = <<>>
        /\ Quiet /\ UNCHANGED <<calls, waiting, cache, ids>>
    BY <1>2 DEF FlushError, End, conn, server, statements, Quiet
  <2>2. Asked = {} /\ inbox = <<>> BY <2>1, SilentSteps DEF Flushing
  <2> QED BY <2>1, <2>2, Ends
<1>3. CASE RecvEof
  <2>1. /\ Reads /\ inbox = <<>> /\ ~ open /\ op' = Idle
        /\ Quiet /\ UNCHANGED <<calls, waiting, wbuf, cache, ids>>
    BY <1>3 DEF RecvEof, End, conn, server, statements, Quiet
  <2>2. ~ Flushing BY <2>1 DEF Reads, Draining, At, Flushing
  <2>3. Asked = {} BY <2>1, KeysFacts DEF MyInv, OwnInv, Asked
  <2> QED BY <2>1, <2>2, <2>3, <1>w, Ends
<1>4. CASE Drop
  <2>1. /\ <<op.step, deprecate_eof>> \in Recoverable
        /\ op' = Idle /\ wbuf' = <<>> /\ sent' \in IF open THEN {sent, sent \o wbuf} ELSE {sent}
        /\ UNCHANGED <<calls, deprecate_eof, waiting, cache, ids, closed, inbox, stmts, next_id, open>>
    BY <1>4 DEF Drop, End, conn, server, statements
  <2>2. \/ op.step \in {"ready", "result", "rows"}
        \/ op.step \in {"skip", "metadata"} /\ deprecate_eof = TRUE
    BY <2>1, Zenon DEF Recoverable
  <2>3. wbuf = <<>> BY <2>2, <1>w DEF Flushing
  <2>4. sent \o <<>> = sent BY DEF MyInv, TypeInv
  <2>5. Quiet BY <2>1, <2>3, <2>4 DEF Quiet
  <2>6. ASSUME NEW s \in Place, Awaiting(s) PROVE Awaiting(s)'
    <3>1. op'.step = "idle" /\ waiting' = waiting /\ deprecate_eof' = deprecate_eof BY <2>1, <1>i
    <3>2. CASE op.step = "ready" BY <3>1, <3>2, <2>6 DEF Awaiting
    <3>3. CASE op.step = "result"
      <4>1. s = AResult /\ waiting = <<"Result">> BY <3>3, <2>6, <1>t DEF Awaiting, PhaseInv
      <4> QED BY <3>1, <4>1, Waits DEF Awaiting
    <3>4. CASE op.step = "rows"
      <4>1. s = InSet(0) /\ waiting = <<"Row">> BY <3>4, <2>6, <1>t DEF Awaiting, PhaseInv
      <4> QED BY <3>1, <4>1, Waits DEF Awaiting
    <3>5. CASE op.step \in {"skip", "metadata"} /\ deprecate_eof = TRUE
      <4>1. s = InSet(op.left) /\ waiting = <<"Row">> BY <3>5, <2>6, <1>t DEF Awaiting, PhaseInv
      <4> QED BY <3>1, <3>5, <4>1, <1>t, Waits DEF Awaiting
    <3> QED BY <2>2, <3>2, <3>3, <3>4, <3>5, Zenon
  <2> QED BY <2>1, <2>3, <2>5, <2>6, Ends
<1> QED BY <1>1, <1>2, <1>3, <1>4

\* A command is written where nothing is under way.
LEMMA SendStep ==
  ASSUME MyInv, ~ Flushing, Asked = {}, inbox = <<>>, \A s \in Place : Awaiting(s) => s = Over,
         NEW c \in CommandRec, wbuf' = <<c>>, c.call = calls,
         op' \in OpRec,
         \/ op'.step = "prepare_flush" /\ c.kind = "Prepare" /\ c.sql = op'.sql
         \/ op'.step = "close_flush" /\ c.kind = "StmtClose"
         \/ op'.step = "run_flush" /\ c.kind \in {"Execute", "Query"}
         \/ op'.step = "ping_flush" /\ c.kind = "Ping",
         Quiet, calls' = calls, waiting' \in {<<>>, <<"Result">>, <<"Row">>},
         cache' \in Seq(Sql), ids' \in [Sql -> Nat],
         PhaseInv', StatementInv'
  PROVE  MyInv'
<1>1. wbuf' \in Seq(CommandRec) /\ Keys(wbuf') = {c} BY SeqFacts, KeysFacts
<1>2. TypeInv' BY <1>1 DEF MyInv, TypeInv, Quiet
<1>3. BufferInv' BY <1>1 DEF BufferInv, Flushing
<1>4. ASSUME NEW s \in Place, Awaiting(s) PROVE Awaiting(s)' BY <1>4 DEF Awaiting
<1> QED BY <1>2, <1>3, <1>4, QuietStep, Zenon

\* Ping, LookupMiss, RunQuery and Execute.
LEMMA SendSteps ==
  ASSUME MyInv, Ping \/ LookupMiss \/ RunQuery \/ Execute
  PROVE  MyInv'
<1>t. op \in OpRec /\ waiting \in {<<>>, <<"Result">>, <<"Row">>} /\ PhaseInv /\ TypeInv
      /\ cache \in Seq(Sql) /\ ids \in [Sql -> Nat] /\ StatementInv /\ op.id \in Nat
  BY DEF MyInv, TypeInv, OpRec
<1>s. /\ "ping_flush" \in Step /\ "prepare_flush" \in Step /\ "run_flush" \in Step
      /\ "Ping" \in CommandKind /\ "Prepare" \in CommandKind /\ "Query" \in CommandKind
      /\ "Execute" \in CommandKind /\ None \in Nat
  BY DEF Step, CommandKind, None
<1>w. ~ Flushing => Keys(wbuf) = {} BY DEF MyInv, BufferInv
<1>1. CASE Ping
  <2>1. /\ op.step = "ready" /\ waiting = <<>> /\ Send("Ping", None, "ping_flush")
        /\ Quiet /\ UNCHANGED <<calls, waiting, cache, ids>>
    BY <1>1 DEF Ping, Ready, At, conn, server, statements, Quiet
  <2>2. PICK c \in CommandRec : wbuf' = <<c>> /\ Keys(wbuf') = {c} /\ c.kind = "Ping" /\ c.call = calls
    BY <2>1, <1>t, <1>s, Sends
  <2>3. op' = [op EXCEPT !.step = "ping_flush"] BY <2>1 DEF Send
  <2>4. op' \in OpRec /\ op'.step = "ping_flush" /\ op'.sql = op.sql /\ op'.kind = op.kind
    BY <2>3, <1>t, <1>s, Fields, Zenon
  <2>5. PhaseInv' BY <2>1, <2>4, <1>t DEF PhaseInv, PrepareSteps
  <2>6. Carries BY <2>1, <2>2, <2>4 DEF Carries, Held, MissSteps, Commands, Quiet
  <2>7. StatementInv' BY <2>6, <1>t, CarriesStatements
  <2>8. ~ Flushing BY <2>1 DEF Flushing
  <2>9. Asked = {} /\ inbox = <<>> /\ \A s \in Place : Awaiting(s) => s = Over
    BY <2>1, SilentSteps
  <2> QED BY <2>1, <2>2, <2>4, <2>5, <2>7, <2>8, <2>9, <1>t, SendStep
<1>2. CASE LookupMiss
  <2>1. /\ op.step = "lookup" /\ ~ contains_key(cache, op.sql)
        /\ Send("Prepare", None, "prepare_flush")
        /\ Quiet /\ UNCHANGED <<calls, waiting, cache, ids>>
    BY <1>2 DEF LookupMiss, At, conn, server, statements, Quiet
  <2>2. PICK c \in CommandRec : /\ wbuf' = <<c>> /\ Keys(wbuf') = {c} /\ c.kind = "Prepare"
                                /\ c.call = calls /\ c.sql = op.sql
    BY <2>1, <1>t, <1>s, Sends
  <2>3. op' = [op EXCEPT !.step = "prepare_flush"] BY <2>1 DEF Send
  <2>4. op' \in OpRec /\ op'.step = "prepare_flush" /\ op'.sql = op.sql /\ op'.kind = op.kind
        /\ op'.running = op.running
    BY <2>3, <1>t, <1>s, Fields, Zenon
  <2>5. PhaseInv' BY <2>1, <2>4, <1>t DEF PhaseInv, PrepareSteps
  <2>6. op.sql \notin Keys(cache) BY <2>1 DEF contains_key, Keys
  <2>7. Carries BY <2>1, <2>2, <2>4, <2>6 DEF Carries, Held, MissSteps, Commands, Quiet
  <2>8. StatementInv' BY <2>7, <1>t, CarriesStatements
  <2>9. ~ Flushing BY <2>1 DEF Flushing
  <2>10. Asked = {} /\ inbox = <<>> /\ \A s \in Place : Awaiting(s) => s = Over
    BY <2>1, SilentSteps
  <2> QED BY <2>1, <2>2, <2>4, <2>5, <2>8, <2>9, <2>10, <1>t, SendStep
<1>3. CASE RunQuery
  <2>1. /\ op.step = "ready" /\ waiting = <<>> /\ Send("Query", None, "run_flush")
        /\ waiting' = Announce /\ Quiet /\ UNCHANGED <<calls, cache, ids>>
    BY <1>3 DEF RunQuery, Ready, At, conn, server, statements, Quiet
  <2>2. PICK c \in CommandRec : wbuf' = <<c>> /\ Keys(wbuf') = {c} /\ c.kind = "Query" /\ c.call = calls
    BY <2>1, <1>t, <1>s, Sends
  <2>3. op' = [op EXCEPT !.step = "run_flush"] BY <2>1 DEF Send
  <2>4. op' \in OpRec /\ op'.step = "run_flush" /\ op'.sql = op.sql /\ op'.kind = op.kind
    BY <2>3, <1>t, <1>s, Fields, Zenon
  <2>5. waiting' = <<"Result">> BY <2>1, Waits
  <2>6. PhaseInv' BY <2>4, <2>5, <1>t DEF PhaseInv, PrepareSteps
  <2>7. Carries BY <2>1, <2>2, <2>4 DEF Carries, Held, MissSteps, Commands, Quiet
  <2>8. StatementInv' BY <2>7, <1>t, CarriesStatements
  <2>9. ~ Flushing BY <2>1 DEF Flushing
  <2>10. Asked = {} /\ inbox = <<>> /\ \A s \in Place : Awaiting(s) => s = Over
    BY <2>1, SilentSteps
  <2> QED BY <2>1, <2>2, <2>4, <2>5, <2>6, <2>8, <2>9, <2>10, <1>t, SendStep, Zenon
<1>4. CASE Execute
  <2>1. /\ op.step = "prepared" /\ op.running /\ Send("Execute", op.id, "run_flush")
        /\ Quiet /\ UNCHANGED <<calls, waiting, cache, ids>>
    BY <1>4 DEF Execute, At, conn, server, statements, Quiet
  <2>2. PICK c \in CommandRec : /\ wbuf' = <<c>> /\ Keys(wbuf') = {c} /\ c.kind = "Execute"
                                /\ c.call = calls /\ c.id = op.id /\ c.sql = op.sql
    BY <2>1, <1>t, <1>s, Sends
  <2>3. op' = [op EXCEPT !.step = "run_flush"] BY <2>1 DEF Send
  <2>4. op' \in OpRec /\ op'.step = "run_flush" /\ op'.sql = op.sql /\ op'.kind = op.kind
    BY <2>3, <1>t, <1>s, Fields, Zenon
  <2>5. PhaseInv' BY <2>1, <2>4, <1>t DEF PhaseInv, PrepareSteps
  <2>6. ~ Flushing BY <2>1 DEF Flushing
  <2>7. Asked = {} /\ inbox = <<>> /\ \A s \in Place : Awaiting(s) => s = Over
    BY <2>1, SilentSteps
  <2>8. Known(c.id, c.sql) BY <2>1, <2>2, <1>t DEF StatementInv, HeldKnown, Held
  <2>9. /\ cache' = cache /\ ids' = ids /\ stmts' = stmts /\ next_id' = next_id
        /\ Commands = Keys(sent) /\ Commands' = Commands \cup {c}
        /\ \A m \in Commands : m.kind # "Execute"
    BY <2>1, <2>2, <2>6, <2>7, <1>w DEF Quiet, Commands, Asked, Asking
  <2>10. StatementInv'
    <3>1. MissInv' /\ HeldKnown' /\ ReplyKnown'
      BY <2>4 DEF MissInv, HeldKnown, ReplyKnown, MissSteps, Held
    <3>2. CacheKnown' BY <2>9, <1>t DEF StatementInv, CacheKnown, Known
    <3>3. ExecuteKnown' BY <2>8, <2>9 DEF ExecuteKnown, Known
    <3>4. ASSUME NEW m \in Commands, m.kind = "StmtClose"
          PROVE  m.id < next_id /\ (\A q \in Keys(cache) : ids[q] # m.id) /\ op.id # m.id
      BY <2>1, <3>4, <1>t DEF StatementInv, ClosesApart, Held
    <3>5. ClosesApart' BY <2>2, <2>4, <2>9, <3>4 DEF ClosesApart, Held
    <3> QED BY <3>1, <3>2, <3>3, <3>5 DEF StatementInv
  <2> QED BY <2>1, <2>2, <2>4, <2>5, <2>6, <2>7, <2>10, <1>t, SendStep
<1> QED BY <1>1, <1>2, <1>3, <1>4
=============================================================================
