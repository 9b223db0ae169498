--------------------------- MODULE Waiting_proofs ---------------------------
(***************************************************************************)
(* What waits for something else to happen.                                 *)
(*                                                                         *)
(* Worker threads wait for one another in UnlockNotify and miss no wake-up, *)
(* for any set of connections and tables.                                   *)
(*                                                                         *)
(* BufStream implements BytePipe: for every header length, every size and   *)
(* number of messages, reads and writes cut anywhere and futures dropped    *)
(* anywhere.                                                                *)
(*                                                                         *)
(* The streams of fetch_many and run stay in step: for a program of any     *)
(* length.                                                                  *)
(***************************************************************************)
EXTENDS UnlockNotify, BufStream, TryStream, SequenceTheorems, TLAPS

-----------------------------------------------------------------------------
(* The wake-ups of UnlockNotify. *)

\* A freshly opened shared cache has nobody waiting and nothing to call.
LEMMA InitInductive == NotifyInit => Inductive
  BY NoneAssumption, MaxStepsAssumption
  DEF NotifyInit, Inductive, NotifyTypeOK, FiresTheWaiting, Places, ConnOrNone

\* step() up to the registration of its callback.
LEMMA StepPreserves ==
  ASSUME Inductive, NEW c \in Conns,
         StepReturns(c) \/ StepLocked(c) \/ NotifiedAtOnce(c) \/ WouldDeadlock(c)
         \/ Registers(c)
  PROVE  Inductive'
<1> USE NoneAssumption DEF Inductive, NotifyTypeOK, FiresTheWaiting, Places, ConnOrNone, Goes
<1>1. CASE StepReturns(c)
  BY <1>1 DEF StepReturns
<1>2. CASE StepLocked(c)
  BY <1>2 DEF StepLocked
<1>3. CASE NotifiedAtOnce(c)
  BY <1>3 DEF NotifiedAtOnce
<1>4. CASE WouldDeadlock(c)
  BY <1>4 DEF WouldDeadlock
<1>5. CASE Registers(c)
  BY <1>5 DEF Registers
<1> QED BY <1>1, <1>2, <1>3, <1>4, <1>5, Zenon

\* The wait and the retry, and a new call of step().
LEMMA WaitPreserves ==
  ASSUME Inductive, NEW c \in Conns,
         Wait(c) \/ Reset(c) \/ \E t \in Tables : Call(c, t)
  PROVE  Inductive'
<1> USE NoneAssumption DEF Inductive, NotifyTypeOK, FiresTheWaiting, Places, ConnOrNone, Goes
<1>1. CASE Wait(c)
  BY <1>1 DEF Wait, WaitOnce
<1>2. CASE Reset(c)
  BY <1>2 DEF Reset
<1>3. CASE \E t \in Tables : Call(c, t)
  <2>1. PICK t \in Tables : Call(c, t) BY <1>3
  <2>2. steps[c] + 1 \in 0..MaxSteps BY <2>1, MaxStepsAssumption DEF Call
  <2> QED BY <2>1, <2>2 DEF Call
<1> QED BY <1>1, <1>2, <1>3

\* The end of a transaction and the callbacks made in it.
LEMMA CallbackPreserves ==
  ASSUME Inductive, NEW c \in Conns,
         EndTransaction(c) \/ FireNotifies(c) \/ CallbackReturns(c)
         \/ \E p \in Conns : FireSets(c, p)
  PROVE  Inductive'
<1> USE NoneAssumption DEF Inductive, NotifyTypeOK, FiresTheWaiting, Places, ConnOrNone, Goes
<1>1. CASE EndTransaction(c)
  <2>1. 0 \in 0..MaxSteps BY MaxStepsAssumption
  <2> QED BY <1>1, <2>1 DEF EndTransaction
<1>2. CASE FireNotifies(c)
  BY <1>2 DEF FireNotifies, Ring
<1>3. CASE CallbackReturns(c)
  BY <1>3 DEF CallbackReturns
<1>4. CASE \E p \in Conns : FireSets(c, p)
  BY <1>4 DEF FireSets
<1> QED BY <1>1, <1>2, <1>3, <1>4, Zenon

\* Every thread keeps it, whatever the others do.
LEMMA InductiveHolds == NotifySpec => []Inductive
<1>1. Inductive /\ [NotifyNext]_notifyVars => Inductive'
  <2> SUFFICES ASSUME Inductive, [NotifyNext]_notifyVars PROVE Inductive'
    OBVIOUS
  <2>1. CASE UNCHANGED notifyVars
    BY <2>1 DEF notifyVars, Inductive, NotifyTypeOK, FiresTheWaiting
  <2>2. CASE NotifyNext
    <3>1. PICK c \in Conns : Thread(c) \/ EndTransaction(c) \/ \E t \in Tables : Call(c, t)
      BY <2>2 DEF NotifyNext
    <3> QED
      BY <3>1, StepPreserves, WaitPreserves, CallbackPreserves DEF Thread
  <2> QED BY <2>1, <2>2
<1> QED BY <1>1, InitInductive, PTL DEF NotifySpec

\* unlock_notify_cb sets the flag of a Notify only while the frame it lives in
\* is there, for any number of connections waiting for one another.
THEOREM CallbackReachesWaiting == NotifySpec => []FiresTheWaiting
<1>1. Inductive => FiresTheWaiting
  BY DEF Inductive
<1> QED BY <1>1, InductiveHolds, PTL

\* No wake-up is lost or given twice: a worker asleep in Notify::wait has one
\* and only one to come.
THEOREM NoLostWakeUp == NotifySpec => []OneWakeUp
<1>1. Inductive => OneWakeUp
  BY NoneAssumption DEF Inductive, NotifyTypeOK, OneWakeUp, FiresTheWaiting
<1> QED BY <1>1, InductiveHolds, PTL

-----------------------------------------------------------------------------
(* The byte stream. *)

\* The head and the tail of a sequence.
LEMMA Cut ==
  ASSUME NEW S, NEW s \in Seq(S), NEW n \in 0..Len(s)
  PROVE  /\ SubSeq(s, 1, n) \in Seq(S) /\ Len(SubSeq(s, 1, n)) = n
         /\ SubSeq(s, n + 1, Len(s)) \in Seq(S) /\ Len(SubSeq(s, n + 1, Len(s))) = Len(s) - n
         /\ SubSeq(s, 1, n) \o SubSeq(s, n + 1, Len(s)) = s
<1>1. Len(s) \in Nat BY LenProperties
<1>2. 1 \in 1..(Len(s) + 1) /\ n \in (1 - 1)..Len(s) /\ Len(s) \in n..Len(s) BY <1>1
<1>3. SubSeq(s, 1, n) \o SubSeq(s, n + 1, Len(s)) = SubSeq(s, 1, Len(s))
  BY <1>2, ConcatAdjacentSubSeq, Zenon
<1>4. SubSeq(s, 1, Len(s)) = s BY SubSeqFull, Zenon
<1>5. SubSeq(s, 1, n) \in Seq(S) /\ Len(SubSeq(s, 1, n)) = n OBVIOUS
<1>6. SubSeq(s, n + 1, Len(s)) \in Seq(S) /\ Len(SubSeq(s, n + 1, Len(s))) = Len(s) - n
  OBVIOUS
<1> QED BY <1>3, <1>4, <1>5, <1>6, Zenon

\* What moves from the head of one buffer to the tail of the one before it
\* does not change the two together.
LEMMA Moved ==
  ASSUME NEW S, NEW a \in Seq(S), NEW b \in Seq(S), NEW n \in 0..Len(b)
  PROVE  (a \o SubSeq(b, 1, n)) \o SubSeq(b, n + 1, Len(b)) = a \o b
<1>1. PICK h \in Seq(S) : h = SubSeq(b, 1, n) BY Cut, Zenon
<1>2. PICK t \in Seq(S) : t = SubSeq(b, n + 1, Len(b)) BY Cut, Zenon
<1>3. h \o t = b BY <1>1, <1>2, Cut, Zenon
<1>4. (a \o h) \o t = a \o (h \o t) BY SMTT(20)
<1> QED BY <1>1, <1>2, <1>3, <1>4, Zenon

\* What is taken from the head of one buffer is taken from the head of the two
\* together.
LEMMA Handed ==
  ASSUME NEW S, NEW a \in Seq(S), NEW b \in Seq(S), NEW n \in 0..Len(a)
  PROVE  /\ n \in 0..Len(a \o b)
         /\ SubSeq(a \o b, 1, n) = SubSeq(a, 1, n)
         /\ SubSeq(a \o b, n + 1, Len(a \o b)) = SubSeq(a, n + 1, Len(a)) \o b
<1>1. Len(a) \in Nat /\ Len(b) \in Nat BY LenProperties
<1>2. PICK d \in Seq(S) : d = a \o b BY ConcatProperties, Zenon
<1>3. Len(d) = Len(a) + Len(b) BY <1>2, ConcatProperties, Zenon
<1>4. n \in 0..Len(d) BY <1>1, <1>3
<1>5. SubSeq(d, 1, n) = SubSeq(a, 1, n)
  <2>1. CASE n = 0 BY <2>1, SubSeqEmpty
  <2>2. CASE n # 0
    <3>1. 1 \in 1..Len(a) /\ n \in 1..Len(a) BY <2>2, <1>1
    <3> QED BY <3>1, <1>2, SubSeqOfConcat1, Zenon
  <2> QED BY <2>1, <2>2
<1>6. PICK h \in Seq(S) : h = SubSeq(a, 1, n) BY Cut, Zenon
<1>7. PICK t \in Seq(S) : t = SubSeq(a, n + 1, Len(a)) BY Cut, Zenon
<1>8. PICK u \in Seq(S) : u = SubSeq(d, n + 1, Len(d)) BY <1>4, Cut, Zenon
<1>9. a = h \o t BY <1>6, <1>7, Cut, Zenon
<1>10. d = h \o u BY <1>4, <1>5, <1>6, <1>8, Cut, Zenon
<1>11. d = h \o (t \o b)
  <2>1. (h \o t) \o b = h \o (t \o b) BY SMTT(20)
  <2> QED BY <2>1, <1>2, <1>9, Zenon
<1>12. t \o b \in Seq(S) BY ConcatProperties, Zenon
<1>13. u = t \o b BY <1>10, <1>11, <1>12, ConcatSimplifications, Zenon
<1> QED BY <1>2, <1>4, <1>5, <1>7, <1>8, <1>13, Zenon

\* A piece behind the cursor, and what is behind that piece.
LEMMA Behind ==
  ASSUME NEW S, NEW s \in Seq(S), NEW c \in 0..Len(s), NEW n \in 0..(Len(s) - c)
  PROVE  LET t == SubSeq(s, c + 1, Len(s))
         IN  /\ n \in 0..Len(t)
             /\ SubSeq(t, 1, n) = SubSeq(s, c + 1, c + n)
             /\ SubSeq(t, n + 1, Len(t)) = SubSeq(s, c + n + 1, Len(s))
<1>1. Len(s) \in Nat BY LenProperties
<1>2. PICK t \in Seq(S) : t = SubSeq(s, c + 1, Len(s)) BY Cut, Zenon
<1>3. Len(t) = Len(s) - c BY <1>2, Cut, Zenon
<1>4. n \in 0..Len(t) BY <1>3
<1>5. c + n \in 0..Len(s) /\ c \in 0..(c + n) BY <1>1
<1>6. PICK h \in Seq(S) : h = SubSeq(s, 1, c + n) BY <1>5, Cut, Zenon
<1>7. PICK u \in Seq(S) : u = SubSeq(s, c + n + 1, Len(s)) BY <1>5, Cut, Zenon
<1>8. Len(h) = c + n /\ Len(u) = Len(s) - (c + n) /\ s = h \o u BY <1>5, <1>6, <1>7, Cut, Zenon
<1>9. c \in 0..Len(h) BY <1>5, <1>8
<1>10. PICK m \in Seq(S) : m = SubSeq(h, c + 1, Len(h)) BY <1>9, Cut, Zenon
<1>11. Len(m) = n BY <1>1, <1>8, <1>9, <1>10, Cut
<1>12. t = m \o u
  <2>1. SubSeq(h \o u, c + 1, Len(h \o u)) = SubSeq(h, c + 1, Len(h)) \o u BY <1>9, Handed, Zenon
  <2> QED BY <2>1, <1>2, <1>8, <1>10, Zenon
<1>13. n \in 0..Len(m) /\ SubSeq(m, 1, n) = m /\ SubSeq(m, n + 1, Len(m)) = <<>>
  <2>1. n \in 0..Len(m) BY <1>11
  <2>2. SubSeq(m, 1, n) = m BY <1>11, SubSeqFull, Zenon
  <2>3. SubSeq(m, n + 1, Len(m)) = <<>> BY <1>11, SubSeqEmpty
  <2> QED BY <2>1, <2>2, <2>3
<1>14. SubSeq(t, 1, n) = m /\ SubSeq(t, n + 1, Len(t)) = <<>> \o u
  <2>1. /\ SubSeq(m \o u, 1, n) = SubSeq(m, 1, n)
        /\ SubSeq(m \o u, n + 1, Len(m \o u)) = SubSeq(m, n + 1, Len(m)) \o u
    BY <1>13, Handed, Zenon
  <2> QED BY <2>1, <1>12, <1>13, Zenon
<1>15. <<>> \o u = u BY ConcatEmptySeq, Zenon
<1>16. SubSeq(s, c + 1, c + n) = m
  <2>1. CASE n = 0
    <3>1. c + n < c + 1 /\ c + n \in Int /\ c + 1 \in Int BY <2>1
    <3>2. SubSeq(s, c + 1, c + n) = <<>> BY <3>1, SubSeqEmpty, Zenon
    <3>3. m = <<>> BY <2>1, <1>11, EmptySeq
    <3> QED BY <3>2, <3>3, Zenon
  <2>2. CASE n # 0
    <3>1. c + 1 \in 1..Len(h) /\ c + n \in 1..Len(h) BY <2>2, <1>1, <1>8
    <3>2. SubSeq(h \o u, c + 1, c + n) = SubSeq(h, c + 1, c + n) BY <3>1, SubSeqOfConcat1, Zenon
    <3> QED BY <3>2, <1>8, <1>10
  <2> QED BY <2>1, <2>2
<1> QED BY <1>2, <1>4, <1>7, <1>14, <1>15, <1>16, Zenon
-----------------------------------------------------------------------------
Byte == Nat \X Nat

\* The types the mapping rests on, that a read has room for what it was asked
\* for, and that the cursor stays within the write buffer.
PipeInv ==
    /\ rbuf \in Seq(Byte) /\ socket \in Seq(Byte)
    /\ sizes \in Seq(Sizes)
    /\ wbuf \in Seq(Nat) /\ written \in Nat
    /\ cnt \in Nat /\ want \in Nat /\ cursor \in Nat
    /\ IsReading => cnt <= want
    /\ op = "flush" => cursor <= Len(wbuf)

\* A message of the peer is made of bytes.
LEMMA Message ==
  ASSUME NEW i \in Nat, NEW n \in Nat
  PROVE  [k \in 1..n |-> <<i, k>>] \in Seq(Byte)
<1>1. [k \in 1..n |-> <<i, k>>] \in [1..n -> Byte] BY DEF Byte
<1> QED BY <1>1

\* A read that is full has the bytes it was asked for.
LEMMA Enough ==
  ASSUME PipeInv, IsReading, IsFull
  PROVE  /\ cnt \in 0..Len(rbuf)
         /\ Rest \in Seq(Byte) /\ Len(Rest) \in Nat
<1>1. Len(rbuf) \in Nat BY LenProperties DEF PipeInv
<1>2. cnt \in 0..Len(rbuf) BY <1>1 DEF PipeInv, IsFull
<1>3. Rest \in Seq(Byte) BY <1>2, Cut, Zenon DEF PipeInv, Rest
<1> QED BY <1>2, <1>3, LenProperties, Zenon

\* Every step of the stream keeps the types, the room and the cursor.
LEMMA InvKept == PipeInv /\ [Next]_vars => PipeInv'
<1> SUFFICES ASSUME PipeInv, [Next]_vars PROVE PipeInv' OBVIOUS
<1> USE BufStreamAssumption
<1>0. Len(rbuf) \in Nat /\ Len(socket) \in Nat /\ Len(wbuf) \in Nat /\ Len(sizes) \in Nat
  BY LenProperties DEF PipeInv
<1>1. CASE Recv BY <1>1, <1>0 DEF PipeInv, Recv, BeginRead, Reserve, IsReading, peer, writing
<1>2. CASE ReadSome
  <2>1. PICK n \in 1..Min2(Len(socket), Space) :
            /\ rbuf' = rbuf \o SubSeq(socket, 1, n)
            /\ socket' = SubSeq(socket, n + 1, Len(socket))
    BY <1>2, Zenon DEF ReadSome
  <2>2. n \in 0..Len(socket) BY <1>0 DEF Min2, Space, PipeInv
  <2>3. SubSeq(socket, 1, n) \in Seq(Byte) /\ socket' \in Seq(Byte) BY <2>1, <2>2, Cut, Zenon DEF PipeInv
  <2>4. rbuf' \in Seq(Byte) BY <2>1, <2>3, ConcatProperties, Zenon DEF PipeInv
  <2> QED BY <1>2, <2>3, <2>4 DEF PipeInv, ReadSome, IsReading, writing
<1>3. CASE ReadEof BY <1>3 DEF PipeInv, ReadEof, IsReading, Truncate, peer, writing
<1>4. CASE ReadHeader
  <2>1. IsReading /\ IsFull BY <1>4 DEF ReadHeader, IsReading
  <2>2. rbuf' \in Seq(Byte) BY <1>4, <2>1, Enough, Zenon DEF ReadHeader
  <2>3. UNCHANGED <<socket, sizes, wbuf, written, cursor>> BY <1>4 DEF ReadHeader, peer, writing
  <2>4. CASE op' = "idle" /\ UNCHANGED <<cnt, want>> BY <2>2, <2>3, <2>4 DEF PipeInv, IsReading
  <2>5. CASE \E n \in Sizes : op' = "body" /\ cnt' = n /\ want' = Len(Rest) + n
    BY <2>1, <2>2, <2>3, <2>5, Enough DEF PipeInv, IsReading
  <2> QED BY <1>4, <2>4, <2>5, Zenon DEF ReadHeader
<1>5. CASE ReadBody
  <2>1. IsReading /\ IsFull BY <1>5 DEF ReadBody, IsReading
  <2>2. rbuf' \in Seq(Byte) BY <1>5, <2>1, Enough, Zenon DEF ReadBody
  <2> QED BY <1>5, <2>2 DEF PipeInv, ReadBody, IsReading, peer, writing
<1>6. CASE ReadDrop BY <1>6 DEF PipeInv, ReadDrop, IsReading, Truncate, peer, writing
<1>7. CASE Write
  <2>1. wbuf' \in Seq(Nat) BY <1>7 DEF PipeInv, Write
  <2> QED BY <1>7, <2>1 DEF PipeInv, Write, IsReading, reading, peer
<1>8. CASE Flush BY <1>8, <1>0 DEF PipeInv, Flush, IsReading, reading, peer
<1>9. CASE PollWrite
  <2>1. PICK n \in 1..Len(wbuf) - cursor : cursor' = cursor + n BY <1>9 DEF PollWrite
  <2>2. cursor' \in Nat /\ cursor' <= Len(wbuf) BY <2>1, <1>0 DEF PipeInv
  <2> QED BY <1>9, <2>2 DEF PipeInv, PollWrite, IsReading, reading, peer
<1>10. CASE FlushOk BY <1>10 DEF PipeInv, FlushOk, Clear, IsReading, reading, peer
<1>11. CASE FlushDrop BY <1>11 DEF PipeInv, FlushDrop, Clear, IsReading, reading, peer
<1>12. CASE Arrive
  <2>1. PICK n \in Sizes : /\ sizes' = Append(sizes, n)
                           /\ socket' = socket \o [k \in 1..HeaderLen + n |-> <<Len(sizes) + 1, k>>]
    BY <1>12, Zenon DEF Arrive
  <2>2. HeaderLen + n \in Nat /\ Len(sizes) + 1 \in Nat BY <1>0
  <2>3. [k \in 1..HeaderLen + n |-> <<Len(sizes) + 1, k>>] \in Seq(Byte) BY <2>2, Message, Zenon
  <2>4. socket' \in Seq(Byte) BY <2>1, <2>3, ConcatProperties, Zenon DEF PipeInv
  <2>5. sizes' \in Seq(Sizes) BY <2>1 DEF PipeInv
  <2> QED BY <1>12, <2>4, <2>5 DEF PipeInv, Arrive, IsReading, reading, writing
<1>13. CASE PeerCloses BY <1>13 DEF PipeInv, PeerCloses, IsReading, reading, writing
<1>14. CASE UNCHANGED vars BY <1>14 DEF PipeInv, vars, IsReading, reading, peer, writing
<1> QED BY <1>1, <1>2, <1>3, <1>4, <1>5, <1>6, <1>7, <1>8, <1>9, <1>10, <1>11, <1>12, <1>13, <1>14
        DEF Next
-----------------------------------------------------------------------------
\* read_raw hands out what split_to takes from the read buffer.
LEMMA HandOutImplements ==
  ASSUME PipeInv, IsReading, IsFull,
         taken' = taken \o Split, rbuf' = Rest,
         UNCHANGED <<socket, Unsent, out, written, drops>>
  PROVE  Pipe!Next
<1>1. rbuf \in Seq(Byte) /\ socket \in Seq(Byte) /\ cnt \in 0..Len(rbuf)
  BY Enough, Zenon DEF PipeInv
<1>2. /\ cnt \in 0..Len(rbuf \o socket)
      /\ SubSeq(rbuf \o socket, 1, cnt) = SubSeq(rbuf, 1, cnt)
      /\ SubSeq(rbuf \o socket, cnt + 1, Len(rbuf \o socket)) = SubSeq(rbuf, cnt + 1, Len(rbuf)) \o socket
  BY <1>1, Handed, Zenon
<1>3. taken' = taken \o SubSeq(rbuf \o socket, 1, cnt) BY <1>2, Zenon DEF Split
<1>4. rbuf' \o socket' = SubSeq(rbuf \o socket, cnt + 1, Len(rbuf \o socket)) BY <1>2, Zenon DEF Rest
<1>5. Pipe!HandsOut(cnt) BY <1>3, <1>4, Zenon DEF Pipe!HandsOut
<1> QED BY <1>2, <1>5, Zenon DEF Pipe!Next

\* A write of WriteAndFlush::poll sends the head of what the flush has left.
LEMMA PollWriteImplements == PipeInv /\ PollWrite => Pipe!Next
<1> SUFFICES ASSUME PipeInv, PollWrite PROVE Pipe!Next OBVIOUS
<1>1. PICK n \in 1..Len(wbuf) - cursor : /\ out' = out \o SubSeq(wbuf, cursor + 1, cursor + n)
                                         /\ cursor' = cursor + n
  BY Zenon DEF PollWrite
<1>2. Len(wbuf) \in Nat BY LenProperties DEF PipeInv
<1>3. cursor \in 0..Len(wbuf) /\ n \in 0..Len(wbuf) - cursor BY <1>2 DEF PipeInv, PollWrite
<1>4. Unsent = SubSeq(wbuf, cursor + 1, Len(wbuf)) BY DEF Unsent, PollWrite
<1>5. Unsent' = SubSeq(wbuf, cursor + n + 1, Len(wbuf)) BY <1>1, Zenon DEF Unsent, PollWrite
<1>6. /\ n \in 0..Len(Unsent)
      /\ SubSeq(Unsent, 1, n) = SubSeq(wbuf, cursor + 1, cursor + n)
      /\ SubSeq(Unsent, n + 1, Len(Unsent)) = SubSeq(wbuf, cursor + n + 1, Len(wbuf))
  BY <1>3, <1>4, Behind, Zenon DEF PipeInv
<1>7. out' = out \o SubSeq(Unsent, 1, n) BY <1>1, <1>6, Zenon
<1>8. Unsent' = SubSeq(Unsent, n + 1, Len(Unsent)) BY <1>5, <1>6, Zenon
<1>9. UNCHANGED <<rbuf, socket, taken, written, drops>> BY DEF PollWrite, reading, peer
<1>10. Pipe!Sends(n) BY <1>7, <1>8, <1>9, Zenon DEF Pipe!Sends
<1> QED BY <1>6, <1>10, Zenon DEF Pipe!Next

\* What arrives comes behind what is in the read buffer and in the socket.
LEMMA ArriveImplements == PipeInv /\ Arrive => Pipe!Next
<1> SUFFICES ASSUME PipeInv, Arrive PROVE Pipe!Next OBVIOUS
<1> USE BufStreamAssumption
<1>1. PICK n \in Sizes : socket' = socket \o [k \in 1..HeaderLen + n |-> <<Len(sizes) + 1, k>>]
  BY Zenon DEF Arrive
<1>2. HeaderLen + n \in Nat /\ Len(sizes) + 1 \in Nat BY LenProperties DEF PipeInv
<1>3. PICK m \in Seq(Byte) : m = [k \in 1..HeaderLen + n |-> <<Len(sizes) + 1, k>>]
  BY <1>2, Message, Zenon
<1>4. PICK a \in Seq(Byte) : a = rbuf \o socket BY ConcatProperties, Zenon DEF PipeInv
<1>5. UNCHANGED <<rbuf, taken, Unsent, out, written, drops>>
  BY DEF Arrive, Unsent, reading, writing
<1>6. rbuf' \o socket' = a \o m
  <2>1. rbuf \in Seq(Byte) /\ socket \in Seq(Byte) BY DEF PipeInv
  <2>2. (rbuf \o socket) \o m = rbuf \o (socket \o m) BY <2>1, ConcatAssociative, SMTT(20)
  <2> QED BY <2>2, <1>1, <1>3, <1>4, <1>5, Zenon
<1>7. Len(a) <= Len(a \o m) /\ \A i \in DOMAIN a : (a \o m)[i] = a[i]
  <2>1. Len(a) \in Nat /\ Len(m) \in Nat /\ DOMAIN a = 1..Len(a) BY LenProperties
  <2>2. /\ Len(a \o m) = Len(a) + Len(m)
        /\ \A i \in 1..Len(a) + Len(m) : (a \o m)[i] = IF i <= Len(a) THEN a[i] ELSE m[i - Len(a)]
    BY ConcatProperties, Zenon
  <2> QED BY <2>1, <2>2
<1>8. Pipe!Arrives BY <1>4, <1>5, <1>6, <1>7, Zenon DEF Pipe!Arrives
<1> QED BY <1>8 DEF Pipe!Next

\* Every step of the stream is a step of the pipe, or one the pipe does not see.
LEMMA StepImplements == PipeInv /\ [Next]_vars => [Pipe!Next]_(Pipe!pipeVars)
<1> SUFFICES ASSUME PipeInv, [Next]_vars PROVE [Pipe!Next]_(Pipe!pipeVars) OBVIOUS
<1>1. CASE Recv
  BY <1>1 DEF Recv, BeginRead, Unsent, peer, writing, Pipe!pipeVars
<1>2. CASE ReadSome
  <2>1. PICK n \in 1..Min2(Len(socket), Space) :
            /\ rbuf' = rbuf \o SubSeq(socket, 1, n)
            /\ socket' = SubSeq(socket, n + 1, Len(socket))
    BY <1>2, Zenon DEF ReadSome
  <2>2. Len(socket) \in Nat /\ Len(rbuf) \in Nat BY LenProperties DEF PipeInv
  <2>3. n \in 0..Len(socket) BY <2>2 DEF Min2, Space, PipeInv
  <2>4. rbuf' \o socket' = rbuf \o socket BY <2>1, <2>3, Moved, Zenon DEF PipeInv
  <2>5. UNCHANGED <<taken, Unsent, out, written, drops>> BY <1>2 DEF ReadSome, Unsent, writing
  <2> QED BY <2>4, <2>5, Zenon DEF Pipe!pipeVars
<1>3. CASE ReadEof
  BY <1>3 DEF ReadEof, IsReading, Truncate, Unsent, peer, writing, Pipe!pipeVars
<1>4. CASE ReadHeader
  <2>1. UNCHANGED <<socket, Unsent, out, written, drops>>
    BY <1>4 DEF ReadHeader, Unsent, peer, writing
  <2>2. IsReading /\ IsFull /\ taken' = taken \o Split /\ rbuf' = Rest
    BY <1>4 DEF ReadHeader, IsReading
  <2> QED BY <2>1, <2>2, HandOutImplements, Zenon
<1>5. CASE ReadBody
  <2>1. UNCHANGED <<socket, Unsent, out, written, drops>>
    BY <1>5 DEF ReadBody, Unsent, peer, writing
  <2>2. IsReading /\ IsFull /\ taken' = taken \o Split /\ rbuf' = Rest
    BY <1>5 DEF ReadBody, IsReading
  <2> QED BY <2>1, <2>2, HandOutImplements, Zenon
<1>6. CASE ReadDrop
  <2>1. Pipe!Drops BY <1>6 DEF ReadDrop, IsReading, Truncate, Unsent, peer, writing, Pipe!Drops
  <2> QED BY <2>1 DEF Pipe!Next
<1>7. CASE Write
  <2>1. Pipe!Writes BY <1>7 DEF Write, Unsent, reading, peer, Pipe!Writes
  <2> QED BY <2>1 DEF Pipe!Next
<1>8. CASE Flush
  <2>1. SubSeq(wbuf, 0 + 1, Len(wbuf)) = wbuf BY SubSeqFull DEF PipeInv
  <2>2. UNCHANGED Unsent BY <1>8, <2>1 DEF Flush, Unsent
  <2> QED BY <1>8, <2>2 DEF Flush, reading, peer, Pipe!pipeVars
<1>9. CASE PollWrite BY <1>9, PollWriteImplements, Zenon
<1>10. CASE FlushOk
  <2>1. Len(wbuf) \in Nat BY LenProperties DEF PipeInv
  <2>2. SubSeq(wbuf, Len(wbuf) + 1, Len(wbuf)) = <<>> BY <2>1, SubSeqEmpty
  <2>3. UNCHANGED Unsent BY <1>10, <2>2 DEF FlushOk, Clear, Unsent
  <2> QED BY <1>10, <2>3 DEF FlushOk, reading, peer, Pipe!pipeVars
<1>11. CASE FlushDrop
  <2>1. Pipe!Drops BY <1>11 DEF FlushDrop, Clear, Unsent, reading, peer, Pipe!Drops
  <2> QED BY <2>1 DEF Pipe!Next
<1>12. CASE Arrive BY <1>12, ArriveImplements, Zenon
<1>13. CASE PeerCloses
  BY <1>13 DEF PeerCloses, Unsent, reading, writing, Pipe!pipeVars
<1>14. CASE UNCHANGED vars
  BY <1>14 DEF vars, Unsent, reading, peer, writing, Pipe!pipeVars
<1> QED BY <1>1, <1>2, <1>3, <1>4, <1>5, <1>6, <1>7, <1>8, <1>9, <1>10, <1>11, <1>12, <1>13, <1>14
        DEF Next

\* BufStream is a pipe of bytes, whatever the lengths and however reads,
\* writes and dropped futures follow each other: bytes are handed out in the
\* order they arrived, and sent in the order they were written, each once; only
\* what a dropped flush had not sent is lost.
THEOREM BufImplementsPipe == Spec => ImplementsPipe
<1>1. Init => PipeInv BY BufStreamAssumption DEF Init, PipeInv, IsReading
<1>2. Init => Pipe!Init
  <2> SUFFICES ASSUME Init PROVE Pipe!Init OBVIOUS
  <2>1. rbuf \o socket = <<>> BY ConcatEmptySeq, EmptySeq DEF Init
  <2>2. Unsent = <<>> BY DEF Init, Unsent
  <2> QED BY <2>1, <2>2 DEF Init, Pipe!Init
<1> QED BY <1>1, <1>2, InvKept, StepImplements, PTL DEF Spec, ImplementsPipe, Pipe!Spec

-----------------------------------------------------------------------------
(* The nested streams. *)

States == {"run", "flush", "last", "end"}
MemRec == [gen : [Level -> States], q : [Level -> Seq(Nat)], parked : [Level -> BOOLEAN],
           tx : [Level -> BOOLEAN], rx : [Level -> BOOLEAN], done : Nat, ready : BOOLEAN,
           io : BOOLEAN, woken : BOOLEAN, got : Seq(Nat), ended : BOOLEAN]

\* run has returned; and with an error.
Over == mem.gen[1] \in {"last", "end"}
Fails == Over /\ job.prog[Len(job.prog)] = "err"

\* How far the program is, and that the levels end one after the other.
TsPlace ==
    /\ mem.done < Len(job.prog)
    /\ Over => mem.done = Len(job.prog) - 1
    /\ mem.gen[1] = "last" => job.prog[Len(job.prog)] = "err"
    /\ mem.gen[2] \in {"last", "end"} => Over
    /\ mem.ended => mem.gen[2] = "end" /\ at = "ts holds"

\* A channel holds one message while its sender is parked, and only while its
\* level is polled.
TsChannels ==
    /\ \A l \in Level : Len(mem.q[l]) = IF mem.parked[l] THEN 1 ELSE 0
    /\ mem.parked[1] => at \in {"ts gen 1", "ts rx 1"} /\ mem.gen[1] \in {"flush", "last"}
    /\ mem.parked[2] => at \in {"ts gen 2", "ts rx 2"} /\ mem.gen[2] \in {"flush", "last"}

\* Whose poll is running, and why: a receiver is polled with a message to take,
\* at the end, or because run waits for the socket.
TsTurn ==
    /\ at \in {"ts gen 1", "ts rx 1", "ts waits"} => mem.gen[2] = "run"
    /\ at = "ts rx 1" => mem.parked[1] \/ mem.gen[1] \in {"run", "end"}
    /\ at = "ts rx 2" => mem.parked[2] \/ mem.gen[2] \in {"run", "end"}
    /\ at \in {"ts rx 2", "ts waits"} /\ mem.gen[2] = "run" => mem.gen[1] = "run"
    /\ at \in {"ts rx 1", "ts rx 2", "ts waits"} /\ mem.gen[1] = "run" /\ mem.gen[2] = "run" =>
           job.prog[mem.done + 1] = "io" /\ (mem.woken \/ (mem.io /\ ~mem.ready))

\* s is what run has yielded so far.
Flows(p, s, n, f) == (f => Yielded(p, s, n, TRUE)) /\ (~ f => Yielded(p, s, n, FALSE))

\* Nothing is lost or reordered on the way: what the consumer has, and the
\* message that is in a channel, is what run has yielded.
TsFlow ==
    /\ ~ mem.parked[1] /\ ~ mem.parked[2] => Flows(job.prog, mem.got, mem.done, Fails)
    /\ mem.parked[1] => Flows(job.prog, Append(mem.got, mem.q[1][1]), mem.done, Fails)
    /\ mem.parked[2] => Flows(job.prog, Append(mem.got, mem.q[2][1]), mem.done, Fails)

TsType == mem \in MemRec /\ IsProgram(job.prog)

TsInv == TsType /\ TsPlace /\ TsChannels /\ TsTurn /\ TsFlow

\* The names of the control points.
LEMMA Names == /\ Gen[1] = "ts gen 1" /\ Gen[2] = "ts gen 2"
               /\ Rx[1] = "ts rx 1" /\ Rx[2] = "ts rx 2"
               /\ 1 \in Level /\ 2 \in Level /\ \A l \in Level : l = 1 \/ l = 2
BY DEF Gen, Rx, Level

\* What changes at one level does not change at the other.
LEMMA First ==
  ASSUME NEW S, NEW f \in [Level -> S], NEW v
  PROVE  [f EXCEPT ![1] = v][1] = v /\ [f EXCEPT ![1] = v][2] = f[2]
BY Names, Zenon

\* The same of the second level.
LEMMA Second ==
  ASSUME NEW S, NEW f \in [Level -> S], NEW v
  PROVE  [f EXCEPT ![2] = v][2] = v /\ [f EXCEPT ![2] = v][1] = f[1]
BY Names, Zenon

\* What Append does.
LEMMA Appended ==
  ASSUME NEW s \in Seq(Nat), NEW x \in Nat
  PROVE  \E t \in Seq(Nat) : /\ t = Append(s, x) /\ Len(s) \in Nat /\ Len(t) = Len(s) + 1
                            /\ t[Len(t)] = x /\ \A i \in 1..Len(s) : t[i] = s[i]
<1>1. Append(s, x) \in Seq(Nat) OBVIOUS
<1>2. Len(s) \in Nat /\ Len(Append(s, x)) = Len(s) + 1 OBVIOUS
<1>3. Append(s, x)[Len(s) + 1] = x OBVIOUS
<1>4. \A i \in 1..Len(s) : Append(s, x)[i] = s[i] OBVIOUS
<1> QED BY <1>1, <1>2, <1>3, <1>4, Zenon

\* An item goes behind those before it.
LEMMA YieldsItem ==
  ASSUME NEW p, NEW s \in Seq(Nat), NEW n \in Nat, Yielded(p, s, n, FALSE), p[n + 1] = "item"
  PROVE  Yielded(p, Append(s, n + 1), n + 1, FALSE)
<1>1. PICK t \in Seq(Nat) : /\ t = Append(s, n + 1) /\ Len(s) \in Nat /\ Len(t) = Len(s) + 1
                            /\ t[Len(t)] = n + 1 /\ \A i \in 1..Len(s) : t[i] = s[i]
  <2>1. PICK x \in Nat : x = n + 1
    OBVIOUS
  <2>2. \E t \in Seq(Nat) : /\ t = Append(s, x) /\ Len(s) \in Nat /\ Len(t) = Len(s) + 1
                            /\ t[Len(t)] = x /\ \A i \in 1..Len(s) : t[i] = s[i]
    BY Appended, Zenon
  <2> QED
    BY <2>1, <2>2, Zenon
<1>2. /\ \A i, j \in 1..Len(s) : i < j => s[i] < s[j]
      /\ {s[i] : i \in 1..Len(s)} = {i \in 1..n : p[i] = "item"}
  BY DEF Yielded
<1>3. \A i \in 1..Len(s) : s[i] \in 1..n
  BY <1>2
<1>4. \A i, j \in 1..Len(t) : i < j => t[i] < t[j]
  <2> SUFFICES ASSUME NEW i \in 1..Len(t), NEW j \in 1..Len(t), i < j PROVE t[i] < t[j]
    OBVIOUS
  <2>1. i \in 1..Len(s) /\ t[i] = s[i] /\ t[i] \in 1..n
    BY <1>1, <1>3
  <2>2. CASE j = Len(t)
    BY <1>1, <2>1, <2>2
  <2>3. CASE j # Len(t)
    <3>1. j \in 1..Len(s)
      <4>1. Len(s) \in Nat /\ Len(t) = Len(s) + 1
        BY <1>1, Zenon
      <4> QED
        BY <4>1, <2>3, SMTT(20)
    <3>2. s[i] < s[j]
      BY <1>2, <2>1, <3>1
    <3>3. t[j] = s[j]
      BY <1>1, <3>1, Zenon
    <3> QED
      BY <2>1, <3>2, <3>3
  <2> QED
    BY <2>2, <2>3
<1>5. {t[i] : i \in 1..Len(t)} = {s[i] : i \in 1..Len(s)} \cup {n + 1}
  <2>1. 1..Len(t) = 1..Len(s) \cup {Len(t)}
    BY <1>1
  <2>2. \A i \in 1..Len(t) : t[i] = IF i \in 1..Len(s) THEN s[i] ELSE n + 1
    BY <1>1
  <2> QED
    BY <1>1, <2>1, <2>2
<1>6. {i \in 1..(n + 1) : p[i] = "item"} = {i \in 1..n : p[i] = "item"} \cup {n + 1}
  OBVIOUS
<1> QED
  BY <1>1, <1>4, <1>5, <1>6 DEF Yielded

\* A wait yields nothing.
LEMMA YieldsNothing ==
  ASSUME NEW p, NEW s, NEW n \in Nat, NEW f, Yielded(p, s, n, f), p[n + 1] # "item"
  PROVE  Yielded(p, s, n + 1, f)
<1>1. {i \in 1..(n + 1) : p[i] = "item"} = {i \in 1..n : p[i] = "item"}
  OBVIOUS
<1> QED
  BY <1>1 DEF Yielded

\* The error goes behind the items.
LEMMA YieldsError ==
  ASSUME NEW p, NEW s \in Seq(Nat), NEW n \in Nat, Yielded(p, s, n, FALSE)
  PROVE  Yielded(p, Append(s, Failed), n, TRUE)
<1>1. PICK t \in Seq(Nat) : /\ t = Append(s, Failed) /\ Len(s) \in Nat /\ Len(t) = Len(s) + 1
                            /\ t[Len(t)] = Failed /\ \A i \in 1..Len(s) : t[i] = s[i]
  BY Appended, Zenon DEF Failed
<1>2. /\ \A i, j \in 1..Len(s) : i < j => s[i] < s[j]
      /\ {s[i] : i \in 1..Len(s)} = {i \in 1..n : p[i] = "item"}
  BY DEF Yielded
<1>3. {t[i] : i \in 1..Len(s)} = {s[i] : i \in 1..Len(s)}
  BY <1>1
<1>4. t # <<>> /\ Len(t) - 1 = Len(s)
  BY <1>1
<1> QED
  BY <1>1, <1>2, <1>3, <1>4 DEF Yielded

\* The last of a sequence that is yielded is the error exactly if one is.
LEMMA LastYielded ==
  ASSUME NEW p, NEW s \in Seq(Nat), NEW x \in Nat, NEW n \in Nat, NEW f \in BOOLEAN,
         Yielded(p, Append(s, x), n, f)
  PROVE  x = Failed <=> f
<1>1. PICK t \in Seq(Nat) : /\ t = Append(s, x) /\ Len(s) \in Nat /\ Len(t) = Len(s) + 1
                            /\ t[Len(t)] = x
  BY Appended
<1>2. Len(t) \in 1..Len(t) /\ t[Len(t)] = x
  BY <1>1
<1>3. CASE f
  BY <1>1, <1>2, <1>3 DEF Yielded
<1>4. CASE ~ f
  <2>1. t[Len(t)] \in {i \in 1..n : p[i] = "item"}
    BY <1>1, <1>2, <1>4, Zenon DEF Yielded
  <2> QED
    BY <1>2, <1>4, <2>1 DEF Failed
<1> QED
  BY <1>3, <1>4

\* A message that is sent keeps the types.
LEMMA SentType ==
  ASSUME NEW m \in MemRec, NEW l \in Level, NEW x \in Nat, NEW s \in States
  PROVE  Sent(m, l, x, s) \in MemRec
<1>0. PICK n : n = Sent(m, l, x, s) OBVIOUS
<1>1. n.gen = [m.gen EXCEPT ![l] = s] BY <1>0 DEF Sent, MemRec
<1>2. n.q = [m.q EXCEPT ![l] = Append(m.q[l], x)] BY <1>0 DEF Sent, MemRec
<1>3. n.parked = [m.parked EXCEPT ![l] = TRUE] BY <1>0 DEF Sent, MemRec
<1>4. n.tx = m.tx /\ n.rx = [m.rx EXCEPT ![l] = FALSE] BY <1>0 DEF Sent, MemRec
<1>5. n.done = m.done /\ n.ready = m.ready /\ n.io = m.io BY <1>0 DEF Sent, MemRec
<1>6. n.got = m.got /\ n.ended = m.ended BY <1>0 DEF Sent, MemRec
<1>7. n.woken \in BOOLEAN /\ (m.woken => n.woken) BY <1>0 DEF Sent, MemRec
<1>8. n = [gen |-> n.gen, q |-> n.q, parked |-> n.parked, tx |-> n.tx, rx |-> n.rx, done |-> n.done,
           ready |-> n.ready, io |-> n.io, woken |-> n.woken, got |-> n.got, ended |-> n.ended]
  BY <1>0, Zenon DEF Sent, MemRec
<1>9. n.q \in [Level -> Seq(Nat)] BY <1>2 DEF MemRec
<1>10. n.gen \in [Level -> States] BY <1>1 DEF MemRec
<1>11. n.parked \in [Level -> BOOLEAN] /\ n.tx \in [Level -> BOOLEAN] /\ n.rx \in [Level -> BOOLEAN]
  BY <1>3, <1>4 DEF MemRec
<1>12. /\ n.done \in Nat /\ n.ready \in BOOLEAN /\ n.io \in BOOLEAN /\ n.woken \in BOOLEAN
       /\ n.got \in Seq(Nat) /\ n.ended \in BOOLEAN
  BY <1>5, <1>6, <1>7 DEF MemRec
<1>13. n \in MemRec BY <1>8, <1>9, <1>10, <1>11, <1>12 DEF MemRec
<1> QED BY <1>0, <1>13

\* And so does one that is received.
LEMMA ReceivedType ==
  ASSUME NEW m \in MemRec, NEW l \in Level, m.q[l] # <<>>
  PROVE  Received(m, l) \in MemRec
<1>0. PICK n : n = Received(m, l) OBVIOUS
<1>1. n.gen = m.gen BY <1>0 DEF Received, MemRec
<1>2. n.q = [m.q EXCEPT ![l] = Tail(m.q[l])] BY <1>0 DEF Received, MemRec
<1>3. n.parked = [m.parked EXCEPT ![l] = FALSE] BY <1>0 DEF Received, MemRec
<1>4. n.rx = m.rx /\ n.tx = [m.tx EXCEPT ![l] = FALSE] BY <1>0 DEF Received, MemRec
<1>5. n.done = m.done /\ n.ready = m.ready /\ n.io = m.io BY <1>0 DEF Received, MemRec
<1>6. n.got = m.got /\ n.ended = m.ended BY <1>0 DEF Received, MemRec
<1>7. n.woken \in BOOLEAN /\ (m.woken => n.woken) BY <1>0 DEF Received, MemRec
<1>8. n = [gen |-> n.gen, q |-> n.q, parked |-> n.parked, tx |-> n.tx, rx |-> n.rx, done |-> n.done,
           ready |-> n.ready, io |-> n.io, woken |-> n.woken, got |-> n.got, ended |-> n.ended]
  BY <1>0, Zenon DEF Received, MemRec
<1>9. n.q \in [Level -> Seq(Nat)] BY <1>2 DEF MemRec
<1>10. n.gen \in [Level -> States] BY <1>1 DEF MemRec
<1>11. n.parked \in [Level -> BOOLEAN] /\ n.tx \in [Level -> BOOLEAN] /\ n.rx \in [Level -> BOOLEAN]
  BY <1>3, <1>4 DEF MemRec
<1>12. /\ n.done \in Nat /\ n.ready \in BOOLEAN /\ n.io \in BOOLEAN /\ n.woken \in BOOLEAN
       /\ n.got \in Seq(Nat) /\ n.ended \in BOOLEAN
  BY <1>5, <1>6, <1>7 DEF MemRec
<1>13. n \in MemRec BY <1>8, <1>9, <1>10, <1>11, <1>12 DEF MemRec
<1> QED BY <1>0, <1>13

-----------------------------------------------------------------------------
\* The send of a generator is done.
LEMMA FlushedStep == ASSUME TsInv, NEW l \in Level, TsFlushed(l) PROVE TsInv'
<1>t. mem \in MemRec /\ IsProgram(job.prog) /\ TsPlace /\ TsChannels /\ TsTurn /\ TsFlow
  BY DEF TsInv, TsType
<1>1. PICK s \in {"end", "run"} :
        /\ mem' = [mem EXCEPT !.gen[l] = s] /\ job' = job /\ at' = at
        /\ mem.gen[l] = "last" => s = "end"
        /\ mem.gen[l] # "last" => s = "run"
        /\ mem.gen[l] \in {"flush", "last"} /\ ~ mem.parked[l] /\ at = Gen[l]
  BY DEF TsFlushed, Flushed
<1>2. mem' \in MemRec
  BY <1>1, <1>t, Zenon DEF MemRec, States
<1>3. mem'.gen = [mem.gen EXCEPT ![l] = s]
  BY <1>1, <1>t DEF MemRec
<1>4. /\ mem'.q = mem.q /\ mem'.parked = mem.parked
      /\ mem'.done = mem.done /\ mem'.ready = mem.ready /\ mem'.io = mem.io
      /\ mem'.woken = mem.woken /\ mem'.got = mem.got /\ mem'.ended = mem.ended
  BY <1>1, <1>t DEF MemRec
<1>5. mem.gen \in [Level -> States]
  BY <1>t DEF MemRec
<1>6. ASSUME l = 1 PROVE TsPlace' /\ TsTurn' /\ TsChannels' /\ (Fails' <=> Fails)
  <2>1. mem'.gen[1] = s /\ mem'.gen[2] = mem.gen[2]
    BY <1>3, <1>5, <1>6, Names, Zenon
  <2>2. /\ at = "ts gen 1" /\ mem.gen[1] \in {"flush", "last"} /\ ~ mem.parked[1]
        /\ mem.gen[1] = "last" => s = "end"
        /\ mem.gen[1] # "last" => s = "run"
    BY <1>1, <1>6, Names, Zenon
  <2>3. Over' <=> Over
    BY <2>1, <2>2, Zenon DEF Over
  <2> QED
    BY <1>1, <1>4, <2>1, <2>2, <2>3, <1>t, Zenon DEF TsPlace, TsTurn, TsChannels, Fails
<1>7. ASSUME l = 2 PROVE TsPlace' /\ TsTurn' /\ TsChannels' /\ (Fails' <=> Fails)
  <2>1. mem'.gen[2] = s /\ mem'.gen[1] = mem.gen[1]
    BY <1>3, <1>5, <1>7, Names, Zenon
  <2>2. /\ at = "ts gen 2" /\ mem.gen[2] \in {"flush", "last"} /\ ~ mem.parked[2]
        /\ mem.gen[2] = "last" => s = "end"
        /\ mem.gen[2] # "last" => s = "run"
    BY <1>1, <1>7, Names, Zenon
  <2>3. Over' <=> Over
    BY <2>1, <2>2, Zenon DEF Over
  <2> QED
    BY <1>1, <1>4, <2>1, <2>2, <2>3, <1>t, Zenon DEF TsPlace, TsTurn, TsChannels, Fails
<1>8. TsPlace' /\ TsTurn' /\ TsChannels' /\ (Fails' <=> Fails)
  BY <1>6, <1>7, Names, Zenon
<1>9. TsFlow'
  BY <1>1, <1>4, <1>8, <1>t, Zenon DEF TsFlow, Flows
<1> QED
  BY <1>1, <1>2, <1>8, <1>9, <1>t DEF TsInv, TsType

\* It is pending, or has ended.
LEMMA ParkedStep == ASSUME TsInv, NEW l \in Level, TsParked(l) PROVE TsInv'
<1>t. mem \in MemRec /\ IsProgram(job.prog) /\ TsPlace /\ TsChannels /\ TsTurn /\ TsFlow
  BY DEF TsInv, TsType
<1>1. /\ mem' = [mem EXCEPT !.tx[l] = mem.parked[l]] /\ job' = job /\ at' = Rx[l]
      /\ mem.gen[l] # "run" /\ (mem.gen[l] \in {"flush", "last"} => mem.parked[l]) /\ at = Gen[l]
  BY DEF TsParked, Flushed
<1>2. mem' \in MemRec
  BY <1>1, <1>t, Zenon DEF MemRec
<1>3. /\ mem'.gen = mem.gen /\ mem'.q = mem.q /\ mem'.parked = mem.parked
      /\ mem'.done = mem.done /\ mem'.ready = mem.ready /\ mem'.io = mem.io
      /\ mem'.woken = mem.woken /\ mem'.got = mem.got /\ mem'.ended = mem.ended
  BY <1>1, <1>t DEF MemRec
<1>4. mem.gen[l] \in {"flush", "last", "end"}
  BY <1>1, <1>t DEF MemRec, States
<1>5. ASSUME l = 1 PROVE TsPlace' /\ TsTurn' /\ TsChannels'
  <2>1. /\ at = "ts gen 1" /\ at' = "ts rx 1" /\ mem.gen[1] \in {"flush", "last", "end"}
        /\ mem.gen[1] \in {"flush", "last"} => mem.parked[1]
    BY <1>1, <1>4, <1>5, Names, Zenon
  <2> QED
    BY <1>1, <1>3, <2>1, <1>t, Zenon DEF TsPlace, TsTurn, TsChannels, Over
<1>6. ASSUME l = 2 PROVE TsPlace' /\ TsTurn' /\ TsChannels'
  <2>1. /\ at = "ts gen 2" /\ at' = "ts rx 2" /\ mem.gen[2] \in {"flush", "last", "end"}
        /\ mem.gen[2] \in {"flush", "last"} => mem.parked[2]
    BY <1>1, <1>4, <1>6, Names, Zenon
  <2> QED
    BY <1>1, <1>3, <2>1, <1>t, Zenon DEF TsPlace, TsTurn, TsChannels, Over
<1>7. TsPlace' /\ TsTurn' /\ TsChannels'
  BY <1>5, <1>6, Names, Zenon
<1>8. TsFlow'
  BY <1>1, <1>3, <1>t, Zenon DEF TsFlow, Flows, Fails, Over
<1> QED
  BY <1>1, <1>2, <1>7, <1>8, <1>t DEF TsInv, TsType

\* A step of a program that is not its last one.
LEMMA NotLast ==
  ASSUME NEW p, IsProgram(p), NEW d \in Nat, d < Len(p)
  PROVE  /\ p[d + 1] \notin {"ok", "err"} => d + 1 < Len(p)
         /\ p[d + 1] \in {"ok", "err"} => d + 1 = Len(p) /\ d = Len(p) - 1
<1>1. Len(p) \in Nat
  BY DEF IsProgram
<1>2. d + 1 \in 1..Len(p)
  BY <1>1
<1> QED
  BY <1>1, <1>2 DEF IsProgram

\* A message goes into an empty channel.
LEMMA OneMessage ==
  ASSUME NEW q \in Seq(Nat), Len(q) = 0, NEW x \in Nat
  PROVE  Len(Append(q, x)) = 1 /\ Append(q, x)[1] = x
OBVIOUS

\* The only message of a channel is taken.
LEMMA OnlyMessage ==
  ASSUME NEW q \in Seq(Nat)
  PROVE  /\ Len(q) = 1 => q # <<>> /\ q[1] \in Nat /\ Len(Tail(q)) = 0
         /\ Len(q) = 0 => q = <<>>
OBVIOUS

\* What is known while run is polled.
LEMMA RunPolled ==
  ASSUME TsInv, at = "ts gen 1", mem.gen[1] = "run"
  PROVE  /\ ~ mem.parked[1] /\ ~ mem.parked[2] /\ mem.gen[2] = "run"
         /\ mem.q[1] \in Seq(Nat) /\ Len(mem.q[1]) = 0
         /\ ~ Over /\ ~ Fails /\ ~ mem.ended
         /\ mem.done \in Nat /\ mem.got \in Seq(Nat)
         /\ Yielded(job.prog, mem.got, mem.done, FALSE)
<1>t. mem \in MemRec /\ TsPlace /\ TsChannels /\ TsTurn /\ TsFlow
  BY Zenon DEF TsInv, TsType
<1>1. mem.q[1] \in Seq(Nat) /\ mem.done \in Nat /\ mem.got \in Seq(Nat)
  BY <1>t, Names, Zenon DEF MemRec
<1>2. ~ Over /\ ~ Fails
  BY Zenon DEF Over, Fails
<1>3. ~ mem.parked[1] /\ ~ mem.parked[2] /\ mem.gen[2] = "run" /\ ~ mem.ended
  BY <1>t, Zenon DEF TsChannels, TsTurn, TsPlace
<1>4. Len(mem.q[1]) = 0
  BY <1>3, <1>t, Names, Zenon DEF TsChannels
<1>5. Yielded(job.prog, mem.got, mem.done, FALSE)
  BY <1>2, <1>3, <1>t, Zenon DEF TsFlow, Flows
<1> QED
  BY <1>1, <1>2, <1>3, <1>4, <1>5, Zenon

\* run sends a message of its own.
LEMMA SendStep ==
  ASSUME TsInv, at = "ts gen 1", mem.gen[1] = "run", NEW x \in Nat, NEW s \in {"flush", "last"},
         NEW m, m = Sent(mem, 1, x, s), NEW d \in Nat, mem' = [m EXCEPT !.done = d],
         job' = job, at' = at, d < Len(job.prog),
         s = "last" => /\ d = Len(job.prog) - 1 /\ job.prog[Len(job.prog)] = "err"
                       /\ Yielded(job.prog, Append(mem.got, x), d, TRUE),
         s = "flush" => Yielded(job.prog, Append(mem.got, x), d, FALSE)
  PROVE  TsInv'
<1>t. mem \in MemRec /\ IsProgram(job.prog) /\ TsPlace /\ TsChannels /\ TsTurn /\ TsFlow
  BY Zenon DEF TsInv, TsType
<1>1. /\ ~ mem.parked[1] /\ ~ mem.parked[2] /\ mem.gen[2] = "run"
      /\ mem.q[1] \in Seq(Nat) /\ Len(mem.q[1]) = 0 /\ ~ mem.ended
  BY RunPolled, Zenon
<1>2. 1 \in Level /\ s \in States
  BY Names, Zenon DEF States
<1>u. mem \in MemRec /\ m = Sent(mem, 1, x, s)
  BY <1>t, Zenon
<1>g. m.gen = [mem.gen EXCEPT ![1] = s]
  BY <1>u, <1>2, Zenon DEF Sent, MemRec
<1>q. m.q = [mem.q EXCEPT ![1] = Append(mem.q[1], x)]
  BY <1>u, <1>2, Zenon DEF Sent, MemRec
<1>p. m.parked = [mem.parked EXCEPT ![1] = TRUE]
  BY <1>u, <1>2, Zenon DEF Sent, MemRec
<1>3. m.got = mem.got /\ m.ended = mem.ended
  BY <1>t, Zenon DEF Sent, MemRec
<1>m. m \in MemRec
  BY <1>2, <1>t, SentType, Zenon
<1>4. mem' \in MemRec
  BY <1>m, Zenon DEF MemRec
<1>5. /\ mem'.gen = m.gen /\ mem'.q = m.q /\ mem'.parked = m.parked /\ mem'.done = d
      /\ mem'.got = m.got /\ mem'.ended = m.ended
  BY <1>m, Zenon DEF MemRec
<1>l. /\ mem.gen \in [Level -> States] /\ mem.q \in [Level -> Seq(Nat)]
      /\ mem.parked \in [Level -> BOOLEAN]
  BY <1>u, Zenon DEF MemRec
<1>6. mem'.gen[1] = s /\ mem'.gen[2] = "run"
  <2>1. [mem.gen EXCEPT ![1] = s][1] = s /\ [mem.gen EXCEPT ![1] = s][2] = mem.gen[2]
    BY <1>l, First, Zenon
  <2>2. mem'.gen = [mem.gen EXCEPT ![1] = s]
    BY <1>g, <1>5, Zenon
  <2> QED
    BY <1>1, <2>1, <2>2, Zenon
<1>7. mem'.parked[1] /\ ~ mem'.parked[2]
  <2>1. [mem.parked EXCEPT ![1] = TRUE][1] = TRUE /\ [mem.parked EXCEPT ![1] = TRUE][2] = mem.parked[2]
    BY <1>l, First, Zenon
  <2>2. mem'.parked = [mem.parked EXCEPT ![1] = TRUE]
    BY <1>p, <1>5, Zenon
  <2> QED
    BY <1>1, <2>1, <2>2, Zenon
<1>8. mem'.q[1] = Append(mem.q[1], x) /\ mem'.q[2] = mem.q[2]
  <2>1. PICK v : v = Append(mem.q[1], x)
    BY Zenon
  <2>2. [mem.q EXCEPT ![1] = v][1] = v /\ [mem.q EXCEPT ![1] = v][2] = mem.q[2]
    BY <1>l, First, Zenon
  <2>3. mem'.q = [mem.q EXCEPT ![1] = v]
    BY <1>q, <1>5, <2>1, Zenon
  <2> QED
    BY <2>1, <2>2, <2>3, Zenon
<1>9. Len(mem'.q[1]) = 1 /\ mem'.q[1][1] = x
  BY <1>1, <1>8, OneMessage, Zenon
<1>10. Len(mem.q[2]) = 0
  BY <1>1, <1>t, Names, Zenon DEF TsChannels
<1>11. TsPlace'
  BY <1>1, <1>3, <1>5, <1>6, Zenon DEF TsPlace, Over
<1>12. TsChannels'
  <2>1. \A l \in Level : Len(mem'.q[l]) = IF mem'.parked[l] THEN 1 ELSE 0
    BY <1>7, <1>8, <1>9, <1>10, Names, Zenon
  <2> QED
    BY <2>1, <1>6, <1>7, Zenon DEF TsChannels
<1>13. TsTurn'
  BY <1>6, Zenon DEF TsTurn
<1>14. Fails' <=> s = "last"
  BY <1>6, Zenon DEF Fails, Over
<1>15. TsFlow'
  BY <1>3, <1>5, <1>7, <1>9, <1>14, Zenon DEF TsFlow, Flows
<1> QED
  BY <1>4, <1>11, <1>12, <1>13, <1>15, <1>t, Zenon DEF TsInv, TsType

\* run yields an item.
LEMMA ItemStep == ASSUME TsInv, TsItem PROVE TsInv'
<1>t. mem \in MemRec /\ IsProgram(job.prog) /\ TsPlace
  BY DEF TsInv, TsType
<1>1. /\ at = "ts gen 1" /\ mem.gen[1] = "run" /\ job.prog[mem.done + 1] = "item"
      /\ job' = job /\ at' = at
  BY Names, Zenon DEF TsItem, AtStep
<1>2. PICK m : m = Sent(mem, 1, mem.done + 1, "flush")
  OBVIOUS
<1>3. mem' = [m EXCEPT !.done = m.done + 1]
  BY <1>2 DEF TsItem
<1>4. mem.done \in Nat /\ mem.done + 1 \in Nat /\ mem.got \in Seq(Nat)
  BY <1>t DEF MemRec
<1>5. m.done = mem.done
  BY <1>2, <1>t DEF Sent, MemRec
<1>6. Yielded(job.prog, Append(mem.got, mem.done + 1), mem.done + 1, FALSE)
  BY <1>1, <1>4, RunPolled, YieldsItem, Zenon
<1>7. mem.done + 1 < Len(job.prog)
  BY <1>1, <1>4, <1>t, NotLast, Zenon DEF TsPlace
<1>8. PICK d \in Nat : d = mem.done + 1
  BY <1>4
<1> QED
  BY <1>1, <1>2, <1>3, <1>4, <1>5, <1>6, <1>7, <1>8, SendStep, Zenon

\* run returns.
LEMMA ReturnStep == ASSUME TsInv, TsReturn PROVE TsInv'
<1>t. mem \in MemRec /\ IsProgram(job.prog) /\ TsPlace /\ TsChannels /\ TsTurn /\ TsFlow
  BY DEF TsInv, TsType
<1>1. /\ at = "ts gen 1" /\ mem.gen[1] = "run" /\ job.prog[mem.done + 1] \in {"ok", "err"}
      /\ job' = job /\ at' = at
  BY Names, Zenon DEF TsReturn, AtStep
<1>2. mem.done \in Nat /\ mem.got \in Seq(Nat)
  BY <1>t DEF MemRec
<1>3. mem.done + 1 = Len(job.prog) /\ mem.done = Len(job.prog) - 1 /\ mem.done < Len(job.prog)
  BY <1>1, <1>2, <1>t, NotLast, Zenon DEF TsPlace
<1>4. CASE job.prog[mem.done + 1] = "ok"
  <2>1. mem' = [mem EXCEPT !.gen[1] = "end"]
    BY <1>4 DEF TsReturn
  <2>2. mem' \in MemRec
    BY <2>1, <1>t, Names, Zenon DEF MemRec, States
  <2>3. /\ mem'.gen = [mem.gen EXCEPT ![1] = "end"] /\ mem'.q = mem.q /\ mem'.parked = mem.parked
        /\ mem'.done = mem.done /\ mem'.ready = mem.ready /\ mem'.io = mem.io
        /\ mem'.woken = mem.woken /\ mem'.got = mem.got /\ mem'.ended = mem.ended
    BY <2>1, <1>t DEF MemRec
  <2>4. mem'.gen[1] = "end" /\ mem'.gen[2] = mem.gen[2]
    BY <2>3, <1>t, Names, Zenon DEF MemRec
  <2>5. ~ mem.parked[1] /\ ~ mem.parked[2] /\ ~ Fails /\ ~ mem.ended
    BY <1>1, RunPolled, Zenon
  <2>6. ~ Fails'
    BY <1>1, <1>3, <1>4, Zenon DEF Fails
  <2>7. TsPlace'
    BY <1>1, <1>3, <2>3, <2>4, <2>5, <1>t, Zenon DEF TsPlace, Over
  <2>8. TsChannels'
    BY <1>1, <2>3, <2>4, <2>5, <1>t, Zenon DEF TsChannels
  <2>9. TsTurn'
    BY <1>1, <2>3, <2>4, <1>t, Zenon DEF TsTurn
  <2>10. TsFlow'
    BY <1>1, <2>3, <2>5, <2>6, <1>t, Zenon DEF TsFlow, Flows
  <2> QED
    BY <1>1, <2>2, <2>7, <2>8, <2>9, <2>10, <1>t, Zenon DEF TsInv, TsType
<1>5. CASE job.prog[mem.done + 1] = "err"
  <2>1. PICK m : m = Sent(mem, 1, Failed, "last")
    OBVIOUS
  <2>2. mem' = m
    BY <1>5, <2>1 DEF TsReturn
  <2>3. m \in MemRec /\ m.done = mem.done
    <3>1. 1 \in Level /\ "last" \in States /\ Failed \in Nat
      BY Names, Zenon DEF States, Failed
    <3>2. m.done = mem.done
      BY <2>1, <1>t DEF Sent, MemRec
    <3>3. m \in MemRec
      BY <2>1, <3>1, <1>t, SentType
    <3> QED
      BY <3>2, <3>3
  <2>4. mem' = [m EXCEPT !.done = mem.done]
    BY <2>2, <2>3 DEF MemRec
  <2>5. Yielded(job.prog, Append(mem.got, Failed), mem.done, TRUE)
    BY <1>1, <1>2, RunPolled, YieldsError, Zenon
  <2>6. PICK d \in Nat : d = mem.done
    BY <1>2
  <2>7. PICK x \in Nat : x = Failed
    BY DEF Failed
  <2> QED
    BY <1>1, <1>3, <1>5, <2>1, <2>4, <2>5, <2>6, <2>7, SendStep, Zenon
<1> QED
  BY <1>1, <1>4, <1>5, Zenon

\* run awaits the socket.
LEMMA IoStep == ASSUME TsInv, TsIo PROVE TsInv'
<1>t. mem \in MemRec /\ IsProgram(job.prog) /\ TsPlace /\ TsChannels /\ TsTurn /\ TsFlow
  BY DEF TsInv, TsType
<1>1. /\ at = "ts gen 1" /\ mem.gen[1] = "run" /\ job.prog[mem.done + 1] = "io" /\ job' = job
  BY Names, Zenon DEF TsIo, AtStep
<1>2. /\ ~ mem.parked[1] /\ ~ mem.parked[2] /\ mem.gen[2] = "run" /\ ~ mem.ended
      /\ mem.done \in Nat /\ ~ Fails /\ ~ Over
      /\ Yielded(job.prog, mem.got, mem.done, FALSE)
  BY <1>1, RunPolled, Zenon
<1>3. CASE mem.ready
  <2>1. mem' = [mem EXCEPT !.done = mem.done + 1, !.ready = FALSE] /\ at' = at
    BY <1>3 DEF TsIo
  <2>2. mem' \in MemRec
    <3>1. PICK d \in Nat : d = mem.done + 1
      BY <1>2
    <3>2. mem' = [mem EXCEPT !.done = d, !.ready = FALSE]
      BY <2>1, <3>1
    <3> QED
      BY <3>2, <1>t, Zenon DEF MemRec
  <2>3. /\ mem'.gen = mem.gen /\ mem'.q = mem.q /\ mem'.parked = mem.parked
        /\ mem'.done = mem.done + 1 /\ mem'.got = mem.got /\ mem'.ended = mem.ended
    BY <2>1, <1>t DEF MemRec
  <2>4. mem.done + 1 < Len(job.prog)
    BY <1>1, <1>2, <1>t, NotLast, Zenon DEF TsPlace
  <2>5. Yielded(job.prog, mem.got, mem.done + 1, FALSE)
    BY <1>1, <1>2, YieldsNothing, Zenon
  <2>6. ~ Over' /\ ~ Fails'
    BY <1>1, <2>3, Zenon DEF Over, Fails
  <2>7. TsPlace'
    BY <1>1, <1>2, <2>3, <2>4, <2>6, <1>t, Zenon DEF TsPlace
  <2>8. TsChannels'
    BY <1>2, <2>3, <1>t, Zenon DEF TsChannels
  <2>9. TsTurn'
    BY <1>1, <1>2, <2>1, <2>3, Zenon DEF TsTurn
  <2>10. TsFlow'
    BY <1>1, <1>2, <2>3, <2>5, <2>6, Zenon DEF TsFlow, Flows
  <2> QED
    BY <1>1, <2>2, <2>7, <2>8, <2>9, <2>10, <1>t, Zenon DEF TsInv, TsType
<1>4. CASE ~ mem.ready
  <2>1. mem' = [mem EXCEPT !.io = TRUE] /\ at' = "ts rx 1"
    BY <1>4, Names, Zenon DEF TsIo
  <2>2. mem' \in MemRec
    BY <2>1, <1>t, Zenon DEF MemRec
  <2>3. /\ mem'.gen = mem.gen /\ mem'.q = mem.q /\ mem'.parked = mem.parked
        /\ mem'.done = mem.done /\ mem'.got = mem.got /\ mem'.ended = mem.ended
        /\ mem'.io /\ mem'.ready = mem.ready
    BY <2>1, <1>t, Zenon DEF MemRec
  <2>4. TsPlace'
    BY <1>1, <1>2, <2>3, <1>t, Zenon DEF TsPlace, Over
  <2>5. TsChannels'
    BY <1>2, <2>3, <1>t, Zenon DEF TsChannels
  <2>6. TsTurn'
    BY <1>1, <1>2, <1>4, <2>1, <2>3, Zenon DEF TsTurn
  <2>7. TsFlow'
    BY <1>1, <2>3, <1>t, Zenon DEF TsFlow, Flows, Fails, Over
  <2> QED
    BY <1>1, <2>2, <2>4, <2>5, <2>6, <2>7, <1>t, Zenon DEF TsInv, TsType
<1> QED
  BY <1>3, <1>4

\* fetch_many polls run, or the consumer's task polls fetch_many: nothing is on
\* its way.
LEMMA PollStep == ASSUME TsInv, TsTryNext \/ TsPoll PROVE TsInv'
<1>t. mem \in MemRec /\ IsProgram(job.prog) /\ TsPlace /\ TsChannels /\ TsTurn /\ TsFlow
  BY DEF TsInv, TsType
<1>1. /\ job' = job
      /\ \/ at = "ts gen 2" /\ mem.gen[2] = "run" /\ at' = "ts gen 1" /\ mem' = mem
         \/ /\ at \in {"ts holds", "ts waits"} /\ at' = "ts gen 2" /\ mem' = [mem EXCEPT !.woken = FALSE]
            /\ at = "ts holds" => ~ mem.ended
  BY Names, Zenon DEF TsTryNext, TsPoll
<1>2. mem' \in MemRec
  BY <1>1, <1>t, Zenon DEF MemRec
<1>3. /\ mem'.gen = mem.gen /\ mem'.q = mem.q /\ mem'.parked = mem.parked
      /\ mem'.done = mem.done /\ mem'.got = mem.got /\ mem'.ended = mem.ended
  BY <1>1, <1>t, Zenon DEF MemRec
<1>4. TsPlace'
  BY <1>1, <1>3, <1>t, Zenon DEF TsPlace, Over
<1>5. TsChannels'
  BY <1>1, <1>3, <1>t, Zenon DEF TsChannels
<1>6. TsTurn'
  BY <1>1, <1>3, <1>t, Zenon DEF TsTurn
<1>7. TsFlow'
  BY <1>1, <1>3, <1>t, Zenon DEF TsFlow, Flows, Fails, Over
<1> QED
  BY <1>1, <1>2, <1>4, <1>5, <1>6, <1>7, <1>t, Zenon DEF TsInv, TsType

\* What run waits for arrives.
LEMMA ReadyStep == ASSUME TsInv, TsReady PROVE TsInv'
<1>t. mem \in MemRec /\ IsProgram(job.prog) /\ TsPlace /\ TsChannels /\ TsTurn /\ TsFlow
  BY DEF TsInv, TsType
<1>1. /\ mem' = [mem EXCEPT !.ready = TRUE, !.woken = mem.woken \/ mem.io, !.io = FALSE]
      /\ job' = job /\ at' = at
  BY DEF TsReady
<1>2. mem' \in MemRec
  BY <1>1, <1>t, Zenon DEF MemRec
<1>3. /\ mem'.gen = mem.gen /\ mem'.q = mem.q /\ mem'.parked = mem.parked
      /\ mem'.done = mem.done /\ mem'.got = mem.got /\ mem'.ended = mem.ended
  BY <1>1, <1>t DEF MemRec
<1>4. mem.woken \/ mem.io => mem'.woken
  BY <1>1, <1>t DEF MemRec
<1>5. TsPlace'
  BY <1>1, <1>3, <1>t, Zenon DEF TsPlace, Over
<1>6. TsChannels'
  BY <1>1, <1>3, <1>t, Zenon DEF TsChannels
<1>7. TsTurn'
  BY <1>1, <1>3, <1>4, <1>t, Zenon DEF TsTurn
<1>8. TsFlow'
  BY <1>1, <1>3, <1>t, Zenon DEF TsFlow, Flows, Fails, Over
<1> QED
  BY <1>1, <1>2, <1>5, <1>6, <1>7, <1>8, <1>t DEF TsInv, TsType

\* n is m with the message x moved from the first channel to the second.
Moves(m, n, x, s) ==
    /\ n \in MemRec
    /\ n.done = m.done /\ n.got = m.got /\ n.ended = m.ended
    /\ n.gen[1] = m.gen[1] /\ n.gen[2] = s
    /\ ~ n.parked[1] /\ n.parked[2]
    /\ Len(n.q[1]) = 0 /\ Len(n.q[2]) = 1 /\ n.q[2][1] = x

\* It does when fetch_many receives and sends it.
LEMMA Relayed ==
  ASSUME NEW m \in MemRec, NEW x \in Nat, NEW s \in States,
         Len(m.q[1]) = 1, Len(m.q[2]) = 0
  PROVE  Moves(m, Sent(Received(m, 1), 2, x, s), x, s)
<1>1. PICK r : r = Received(m, 1)
  OBVIOUS
<1>f. /\ m.gen \in [Level -> States] /\ m.parked \in [Level -> BOOLEAN]
      /\ m.q \in [Level -> Seq(Nat)] /\ m.q[1] \in Seq(Nat) /\ m.q[2] \in Seq(Nat)
  BY Names, Zenon DEF MemRec
<1>2. r \in MemRec
  BY <1>1, <1>f, OnlyMessage, ReceivedType, Names, Zenon
<1>3. /\ r.gen = m.gen /\ r.done = m.done /\ r.got = m.got /\ r.ended = m.ended
      /\ r.q = [m.q EXCEPT ![1] = Tail(m.q[1])] /\ r.parked = [m.parked EXCEPT ![1] = FALSE]
  BY <1>1 DEF Received, MemRec
<1>4. PICK n : n = Sent(r, 2, x, s)
  OBVIOUS
<1>5. n \in MemRec
  BY <1>2, <1>4, SentType, Names, Zenon
<1>6. /\ n.done = r.done /\ n.got = r.got /\ n.ended = r.ended
      /\ n.gen = [r.gen EXCEPT ![2] = s] /\ n.parked = [r.parked EXCEPT ![2] = TRUE]
      /\ n.q = [r.q EXCEPT ![2] = Append(r.q[2], x)]
  BY <1>2, <1>4 DEF Sent, MemRec
<1>7. n.gen[1] = m.gen[1] /\ n.gen[2] = s
  <2>1. n.gen = [m.gen EXCEPT ![2] = s]
    BY <1>3, <1>6
  <2> QED
    BY <1>f, <2>1, Names, Zenon
<1>8. ~ n.parked[1] /\ n.parked[2]
  <2>1. r.parked[1] = FALSE /\ r.parked \in [Level -> BOOLEAN]
    BY <1>f, <1>3, Names, Zenon
  <2> QED
    BY <1>6, <2>1, Names, Zenon
<1>9. PICK v, w : v = Tail(m.q[1]) /\ w = Append(m.q[2], x)
  BY Zenon
<1>10. r.q[1] = v /\ r.q[2] = m.q[2] /\ r.q \in [Level -> Seq(Nat)]
  <2>1. r.q = [m.q EXCEPT ![1] = v]
    BY <1>3, <1>9
  <2>2. r.q \in [Level -> Seq(Nat)]
    BY <1>2 DEF MemRec
  <2> QED
    BY <1>f, <2>1, <2>2, Names, Zenon
<1>11. n.q[1] = v /\ n.q[2] = w
  <2>1. n.q = [r.q EXCEPT ![2] = w]
    BY <1>6, <1>9, <1>10, Zenon
  <2> QED
    BY <1>10, <2>1, Names, Zenon
<1>12. Len(v) = 0 /\ Len(w) = 1 /\ w[1] = x
  <2>1. Len(v) = 0
    BY <1>f, <1>9, OnlyMessage, Zenon
  <2>2. Len(w) = 1 /\ w[1] = x
    BY <1>f, <1>9, OneMessage, Zenon
  <2> QED
    BY <2>1, <2>2
<1> QED
  <2>1. n.done = m.done /\ n.got = m.got /\ n.ended = m.ended
    BY <1>3, <1>6
  <2>2. Len(n.q[1]) = 0 /\ Len(n.q[2]) = 1 /\ n.q[2][1] = x
    BY <1>11, <1>12, Zenon
  <2>3. Moves(m, n, x, s)
    BY <1>5, <1>7, <1>8, <2>1, <2>2, Zenon DEF Moves
  <2> QED
    BY <1>1, <1>4, <2>3, Zenon

\* fetch_many takes a message from run and sends it on.
LEMMA PassOn ==
  ASSUME TsInv, at = "ts rx 1", mem.parked[1], job' = job, at' = "ts gen 2",
         NEW x, x = mem.q[1][1], NEW s \in {"flush", "last"}, x = Failed <=> s = "last",
         mem' = Sent(Received(mem, 1), 2, x, s)
  PROVE  TsInv'
<1>t. mem \in MemRec /\ IsProgram(job.prog) /\ TsPlace /\ TsChannels /\ TsTurn /\ TsFlow
  BY Zenon DEF TsInv, TsType
<1>l. /\ mem.gen \in [Level -> States] /\ mem.q \in [Level -> Seq(Nat)]
      /\ mem.parked \in [Level -> BOOLEAN] /\ mem.got \in Seq(Nat) /\ mem.done \in Nat
  BY <1>t, Zenon DEF MemRec
<1>1. /\ mem.gen[2] = "run" /\ ~ mem.parked[2] /\ mem.gen[1] \in {"flush", "last"}
      /\ Len(mem.q[1]) = 1 /\ Len(mem.q[2]) = 0 /\ ~ mem.ended
  BY <1>t, Names, Zenon DEF TsTurn, TsChannels, TsPlace
<1>2. /\ mem.q[1] \in Seq(Nat) /\ mem.q[1] # <<>> /\ x \in Nat /\ Len(Tail(mem.q[1])) = 0
      /\ mem.q[2] \in Seq(Nat)
  BY <1>1, <1>l, OnlyMessage, Names, Zenon
<1>3. Moves(mem, mem', x, s)
  <2>1. s \in States
    BY Zenon DEF States
  <2> QED
    BY <1>1, <1>2, <1>t, <2>1, Relayed, Zenon
<1>9. mem' \in MemRec
  BY <1>3, Zenon DEF Moves
<1>10. mem'.done = mem.done /\ mem'.got = mem.got /\ mem'.ended = mem.ended
  BY <1>3, Zenon DEF Moves
<1>14. mem'.gen[1] = mem.gen[1] /\ mem'.gen[2] = s
  BY <1>3, Zenon DEF Moves
<1>15. ~ mem'.parked[1] /\ mem'.parked[2]
  BY <1>3, Zenon DEF Moves
<1>16. Len(mem'.q[1]) = 0 /\ Len(mem'.q[2]) = 1 /\ mem'.q[2][1] = x
  BY <1>3, Zenon DEF Moves
<1>17. Fails' <=> Fails
  BY <1>14, Zenon DEF Fails, Over
<1>18. /\ Fails => Yielded(job.prog, Append(mem.got, x), mem.done, TRUE)
       /\ ~ Fails => Yielded(job.prog, Append(mem.got, x), mem.done, FALSE)
  BY <1>t, Zenon DEF TsFlow, Flows
<1>19. s = "last" => Over
  <2>1. CASE Fails
    BY <2>1, Zenon DEF Fails
  <2>2. CASE ~ Fails
    BY <1>2, <1>l, <1>18, <2>2, LastYielded, Zenon
  <2> QED
    BY <2>1, <2>2, Zenon
<1>20. TsPlace'
  BY <1>1, <1>10, <1>14, <1>19, <1>t, Zenon DEF TsPlace, Over
<1>21. TsChannels'
  <2>1. \A l \in Level : Len(mem'.q[l]) = IF mem'.parked[l] THEN 1 ELSE 0
    BY <1>15, <1>16, Names, Zenon
  <2> QED
    BY <2>1, <1>14, <1>15, Zenon DEF TsChannels
<1>22. TsTurn'
  BY Zenon DEF TsTurn
<1>23. TsFlow'
  BY <1>10, <1>15, <1>16, <1>17, <1>18, Zenon DEF TsFlow, Flows
<1> QED
  BY <1>9, <1>20, <1>21, <1>22, <1>23, <1>t, Zenon DEF TsInv, TsType

\* fetch_many asks for the next item of run's stream.
LEMMA Receive1Step == ASSUME TsInv, TsReceive1 PROVE TsInv'
<1>t. mem \in MemRec /\ IsProgram(job.prog) /\ TsPlace /\ TsChannels /\ TsTurn /\ TsFlow
  BY DEF TsInv, TsType
<1>l. mem.gen \in [Level -> States] /\ mem.q[1] \in Seq(Nat)
  BY <1>t, Names, Zenon DEF MemRec
<1>0. at = "ts rx 1" /\ job' = job
  BY Names, Zenon DEF TsReceive1
<1>1. mem.gen[2] = "run" /\ ~ mem.parked[2] /\ ~ mem.ended
  BY <1>0, <1>t, Zenon DEF TsTurn, TsChannels, TsPlace
<1>2. mem.parked[1] <=> mem.q[1] # <<>>
  <2>1. Len(mem.q[1]) = IF mem.parked[1] THEN 1 ELSE 0
    BY <1>t, Names, Zenon DEF TsChannels
  <2> QED
    BY <2>1, <1>l, OnlyMessage
<1>3. CASE mem.parked[1]
  <2>1. PICK x : x = mem.q[1][1]
    OBVIOUS
  <2>2. PICK s \in {"flush", "last"} : /\ x = Failed <=> s = "last"
                                       /\ s = IF x = Failed THEN "last" ELSE "flush"
    <3>1. CASE x = Failed BY <3>1
    <3>2. CASE x # Failed BY <3>2
    <3> QED BY <3>1, <3>2
  <2>3. at' = "ts gen 2" /\ mem' = Sent(Received(mem, 1), 2, x, s)
    BY <1>2, <1>3, <2>1, <2>2, Names, Zenon DEF TsReceive1
  <2> QED
    BY <1>0, <1>3, <2>1, <2>2, <2>3, PassOn, Zenon
<1>4. CASE ~ mem.parked[1] /\ mem.gen[1] = "end"
  <2>1. at' = "ts gen 2" /\ mem' = [mem EXCEPT !.gen[2] = "end"]
    BY <1>2, <1>4, Names, Zenon DEF TsReceive1
  <2>2. mem' \in MemRec
    BY <2>1, <1>t, Zenon DEF MemRec, States
  <2>3. /\ mem'.gen = [mem.gen EXCEPT ![2] = "end"] /\ mem'.q = mem.q /\ mem'.parked = mem.parked
        /\ mem'.done = mem.done /\ mem'.got = mem.got /\ mem'.ended = mem.ended
    BY <2>1, <1>t, Zenon DEF MemRec
  <2>4. mem'.gen[1] = "end" /\ mem'.gen[2] = "end"
    BY <1>4, <2>3, <1>l, Names, Zenon
  <2>5. Fails' <=> Fails
    BY <1>0, <1>4, <2>4, Zenon DEF Fails, Over
  <2>6. TsPlace'
    BY <1>0, <1>1, <1>4, <2>3, <2>4, <1>t, Zenon DEF TsPlace, Over
  <2>7. TsChannels'
    BY <1>1, <1>4, <2>3, <1>t, Zenon DEF TsChannels
  <2>8. TsTurn'
    BY <2>1, Zenon DEF TsTurn
  <2>9. TsFlow'
    BY <1>0, <2>3, <2>5, <1>t, Zenon DEF TsFlow, Flows
  <2> QED
    BY <1>0, <2>2, <2>6, <2>7, <2>8, <2>9, <1>t, Zenon DEF TsInv, TsType
<1>5. CASE ~ mem.parked[1] /\ mem.gen[1] # "end"
  <2>1. at' = "ts rx 2" /\ mem' = [mem EXCEPT !.rx[1] = TRUE]
    BY <1>2, <1>5, Names, Zenon DEF TsReceive1
  <2>2. mem' \in MemRec
    BY <2>1, <1>t, Zenon DEF MemRec
  <2>3. /\ mem'.gen = mem.gen /\ mem'.q = mem.q /\ mem'.parked = mem.parked
        /\ mem'.done = mem.done /\ mem'.got = mem.got /\ mem'.ended = mem.ended
        /\ mem'.woken = mem.woken /\ mem'.io = mem.io /\ mem'.ready = mem.ready
    BY <2>1, <1>t, Zenon DEF MemRec
  <2>4. mem.gen[1] = "run"
    BY <1>0, <1>5, <1>t, Zenon DEF TsTurn
  <2>5. TsPlace'
    BY <1>0, <1>1, <2>3, <1>t, Zenon DEF TsPlace, Over
  <2>6. TsChannels'
    BY <1>1, <1>5, <2>3, <1>t, Zenon DEF TsChannels
  <2>7. TsTurn'
    BY <1>0, <1>1, <2>1, <2>3, <2>4, <1>t, Zenon DEF TsTurn
  <2>8. TsFlow'
    BY <1>0, <2>3, <1>t, Zenon DEF TsFlow, Flows, Fails, Over
  <2> QED
    BY <1>0, <2>2, <2>5, <2>6, <2>7, <2>8, <1>t, Zenon DEF TsInv, TsType
<1> QED
  BY <1>3, <1>4, <1>5

\* n is m with the message x taken from the second channel by the consumer.
Takes(m, n, x) ==
    /\ n \in MemRec
    /\ n.done = m.done /\ n.gen = m.gen /\ n.ended = m.ended /\ n.got = Append(m.got, x)
    /\ n.parked[1] = m.parked[1] /\ ~ n.parked[2]
    /\ n.q[1] = m.q[1] /\ Len(n.q[2]) = 0

\* It is when the receiver of fetch_many's stream is polled.
LEMMA Taken ==
  ASSUME NEW m \in MemRec, NEW x \in Nat, Len(m.q[2]) = 1
  PROVE  Takes(m, [Received(m, 2) EXCEPT !.got = Append(m.got, x)], x)
<1>1. PICK r : r = Received(m, 2)
  OBVIOUS
<1>f. /\ m.parked \in [Level -> BOOLEAN] /\ m.q \in [Level -> Seq(Nat)]
      /\ m.q[2] \in Seq(Nat) /\ m.got \in Seq(Nat)
  BY Names, Zenon DEF MemRec
<1>2. r \in MemRec
  BY <1>1, <1>f, OnlyMessage, ReceivedType, Names, Zenon
<1>3. /\ r.gen = m.gen /\ r.done = m.done /\ r.got = m.got /\ r.ended = m.ended
      /\ r.q = [m.q EXCEPT ![2] = Tail(m.q[2])] /\ r.parked = [m.parked EXCEPT ![2] = FALSE]
  BY <1>1 DEF Received, MemRec
<1>4. PICK g : g = Append(m.got, x)
  BY Zenon
<1>5. g \in Seq(Nat)
  BY <1>4, <1>f
<1>6. PICK n : n = [r EXCEPT !.got = g]
  BY Zenon
<1>7. /\ n \in MemRec /\ n.gen = r.gen /\ n.done = r.done /\ n.ended = r.ended
      /\ n.q = r.q /\ n.parked = r.parked /\ n.got = g
  BY <1>2, <1>5, <1>6, Zenon DEF MemRec
<1>8. n.parked[1] = m.parked[1] /\ ~ n.parked[2]
  <2>1. n.parked = [m.parked EXCEPT ![2] = FALSE]
    BY <1>3, <1>7
  <2> QED
    BY <1>f, <2>1, Names, Zenon
<1>9. n.q[1] = m.q[1] /\ Len(n.q[2]) = 0
  <2>1. PICK v : v = Tail(m.q[2])
    BY Zenon
  <2>2. Len(v) = 0
    BY <1>f, <2>1, OnlyMessage, Zenon
  <2>3. n.q = [m.q EXCEPT ![2] = v]
    BY <1>3, <1>7, <2>1
  <2>4. n.q[1] = m.q[1] /\ n.q[2] = v
    BY <1>f, <2>3, Names, Zenon
  <2> QED
    BY <2>2, <2>4, Zenon
<1>10. Takes(m, n, x)
  <2>1. n.done = m.done /\ n.gen = m.gen /\ n.ended = m.ended
    BY <1>3, <1>7
  <2> QED
    BY <1>4, <1>7, <1>8, <1>9, <2>1, Zenon DEF Takes
<1> QED
  BY <1>1, <1>4, <1>6, <1>10, Zenon

\* The consumer's poll of fetch_many's stream.
LEMMA Receive2Step == ASSUME TsInv, TsReceive2 PROVE TsInv'
<1>t. mem \in MemRec /\ IsProgram(job.prog) /\ TsPlace /\ TsChannels /\ TsTurn /\ TsFlow
  BY DEF TsInv, TsType
<1>l. mem.gen \in [Level -> States] /\ mem.q[2] \in Seq(Nat)
  BY <1>t, Names, Zenon DEF MemRec
<1>0. at = "ts rx 2" /\ job' = job
  BY Names, Zenon DEF TsReceive2
<1>1. ~ mem.parked[1] /\ ~ mem.ended /\ Len(mem.q[1]) = 0
  BY <1>0, <1>t, Names, Zenon DEF TsChannels, TsPlace
<1>2. mem.parked[2] <=> mem.q[2] # <<>>
  <2>1. Len(mem.q[2]) = IF mem.parked[2] THEN 1 ELSE 0
    BY <1>t, Names, Zenon DEF TsChannels
  <2> QED
    BY <2>1, <1>l, OnlyMessage
<1>3. CASE mem.parked[2]
  <2>1. PICK x : x = mem.q[2][1]
    OBVIOUS
  <2>2. Len(mem.q[2]) = 1
    BY <1>3, <1>t, Names, Zenon DEF TsChannels
  <2>3. x \in Nat
    BY <2>1, <2>2, <1>l, OnlyMessage
  <2>4. PICK r : r = Received(mem, 2)
    OBVIOUS
  <2>5. r.got = mem.got
    BY <2>4, <1>t DEF Received, MemRec
  <2>6. at' = "ts holds" /\ mem' = [r EXCEPT !.got = Append(r.got, x)]
    BY <1>2, <1>3, <2>1, <2>4, Names, Zenon DEF TsReceive2
  <2>7. Takes(mem, mem', x)
    BY <1>t, <2>2, <2>3, <2>4, <2>5, <2>6, Taken, Zenon
  <2>8. /\ mem'.done = mem.done /\ mem'.gen = mem.gen /\ ~ mem'.ended
        /\ mem'.got = Append(mem.got, x) /\ ~ mem'.parked[1] /\ ~ mem'.parked[2]
        /\ Len(mem'.q[1]) = 0 /\ Len(mem'.q[2]) = 0
    BY <1>1, <2>7, Zenon DEF Takes
  <2>9. mem' \in MemRec
    BY <2>7 DEF Takes
  <2>10. TsPlace'
    BY <1>0, <2>8, <1>t, Zenon DEF TsPlace, Over
  <2>11. TsChannels'
    BY <2>8, Names, Zenon DEF TsChannels
  <2>12. TsTurn'
    BY <2>6, Zenon DEF TsTurn
  <2>13. TsFlow'
    BY <1>0, <1>3, <2>1, <2>8, <1>t, Zenon DEF TsFlow, Flows, Fails, Over
  <2> QED
    BY <1>0, <2>9, <2>10, <2>11, <2>12, <2>13, <1>t, Zenon DEF TsInv, TsType
<1>4. CASE ~ mem.parked[2] /\ mem.gen[2] = "end"
  <2>1. at' = "ts holds" /\ mem' = [mem EXCEPT !.ended = TRUE]
    BY <1>2, <1>4, Names, Zenon DEF TsReceive2
  <2>2. mem' \in MemRec
    BY <2>1, <1>t, Zenon DEF MemRec
  <2>3. /\ mem'.gen = mem.gen /\ mem'.q = mem.q /\ mem'.parked = mem.parked
        /\ mem'.done = mem.done /\ mem'.got = mem.got
    BY <2>1, <1>t, Zenon DEF MemRec
  <2>4. TsPlace'
    BY <1>0, <1>4, <2>1, <2>3, <1>t, Zenon DEF TsPlace, Over
  <2>5. TsChannels'
    BY <1>1, <1>4, <2>3, <1>t, Zenon DEF TsChannels
  <2>6. TsTurn'
    BY <2>1, Zenon DEF TsTurn
  <2>7. TsFlow'
    BY <1>0, <2>3, <1>t, Zenon DEF TsFlow, Flows, Fails, Over
  <2> QED
    BY <1>0, <2>2, <2>4, <2>5, <2>6, <2>7, <1>t, Zenon DEF TsInv, TsType
<1>5. CASE ~ mem.parked[2] /\ mem.gen[2] # "end"
  <2>1. at' = "ts waits" /\ mem' = [mem EXCEPT !.rx[2] = TRUE]
    BY <1>2, <1>5, Names, Zenon DEF TsReceive2
  <2>2. mem' \in MemRec
    BY <2>1, <1>t, Zenon DEF MemRec
  <2>3. /\ mem'.gen = mem.gen /\ mem'.q = mem.q /\ mem'.parked = mem.parked
        /\ mem'.done = mem.done /\ mem'.got = mem.got /\ mem'.ended = mem.ended
        /\ mem'.woken = mem.woken /\ mem'.io = mem.io /\ mem'.ready = mem.ready
    BY <2>1, <1>t, Zenon DEF MemRec
  <2>4. mem.gen[2] = "run" /\ mem.gen[1] = "run"
    BY <1>0, <1>5, <1>t, Zenon DEF TsTurn
  <2>5. TsPlace'
    BY <1>0, <1>1, <2>3, <1>t, Zenon DEF TsPlace, Over
  <2>6. TsChannels'
    BY <1>1, <1>5, <2>3, <1>t, Zenon DEF TsChannels
  <2>7. TsTurn'
    BY <1>0, <2>1, <2>3, <2>4, <1>t, Zenon DEF TsTurn
  <2>8. TsFlow'
    BY <1>0, <2>3, <1>t, Zenon DEF TsFlow, Flows, Fails, Over
  <2> QED
    BY <1>0, <2>2, <2>5, <2>6, <2>7, <2>8, <1>t, Zenon DEF TsInv, TsType
<1> QED
  BY <1>3, <1>4, <1>5

\* A pair gives each level its own.
LEMMA Pair == ASSUME NEW S, NEW a \in S, NEW b \in S PROVE <<a, b>> \in [Level -> S]
BY DEF Level

\* A program has a last step.
LEMMA HasLast == ASSUME NEW p, IsProgram(p) PROVE Len(p) \in Nat /\ Len(p) > 0
BY DEF IsProgram

\* A new stream: nothing is yielded.
LEMMA TsInitially == ASSUME TsInit PROVE TsInv
<1>0. mem = TsStart /\ at = "ts holds" /\ IsProgram(job.prog)
  BY Zenon DEF TsInit
<1>1. /\ mem.gen = <<"run", "run">> /\ mem.q = << <<>>, <<>> >> /\ mem.parked = <<FALSE, FALSE>>
      /\ mem.done = 0 /\ mem.got = <<>> /\ mem.ended = FALSE
  BY <1>0, Zenon DEF TsStart
<1>2. mem \in MemRec
  <2>1. <<"run", "run">> \in [Level -> States] /\ <<FALSE, FALSE>> \in [Level -> BOOLEAN]
    BY Pair, Zenon DEF States
  <2>2. <<>> \in Seq(Nat)
    OBVIOUS
  <2>3. << <<>>, <<>> >> \in [Level -> Seq(Nat)]
    BY <2>2, Pair, Zenon
  <2> QED
    BY <1>0, <2>1, <2>2, <2>3, Zenon DEF TsStart, MemRec
<1>3. /\ mem.gen[1] = "run" /\ mem.gen[2] = "run" /\ ~ mem.parked[1] /\ ~ mem.parked[2]
      /\ Len(mem.q[1]) = 0 /\ Len(mem.q[2]) = 0 /\ ~ Over /\ ~ Fails
  BY <1>1 DEF Over, Fails
<1>4. Len(job.prog) \in Nat /\ Len(job.prog) > 0
  BY <1>0, HasLast, Zenon
<1>5. TsPlace
  BY <1>1, <1>3, <1>4 DEF TsPlace
<1>6. TsChannels
  BY <1>3, Names, Zenon DEF TsChannels
<1>7. TsTurn
  BY <1>0, Zenon DEF TsTurn
<1>8. Yielded(job.prog, <<>>, 0, FALSE)
  BY DEF Yielded
<1>9. TsFlow
  BY <1>1, <1>3, <1>8, Zenon DEF TsFlow, Flows
<1> QED
  BY <1>0, <1>2, <1>5, <1>6, <1>7, <1>9, Zenon DEF TsInv, TsType

\* Every step keeps the streams in step.
LEMMA TsStep == ASSUME TsInv, [TsNext]_<<job, at, mem>> PROVE TsInv'
<1>1. CASE UNCHANGED <<job, at, mem>>
  BY <1>1, Zenon DEF TsInv, TsType, TsPlace, TsChannels, TsTurn, TsFlow, Flows, Fails, Over
<1>2. ASSUME NEW l \in Level, TsFlushed(l) PROVE TsInv'
  BY <1>2, FlushedStep
<1>3. ASSUME NEW l \in Level, TsParked(l) PROVE TsInv'
  BY <1>3, ParkedStep
<1>4. CASE TsTryNext
  BY <1>4, Names, Zenon DEF TsTryNext, TsInv, TsType, TsPlace, TsChannels, TsTurn, TsFlow, Flows, Fails, Over
<1> QED
  BY <1>1, <1>2, <1>3, <1>4, ItemStep, ReturnStep, IoStep, PollStep, ReadyStep, Receive1Step,
     Receive2Step DEF TsNext

\* What the consumer sees follows.
LEMMA TsSees == ASSUME TsInv PROVE StreamInStep
<1>t. mem \in MemRec /\ IsProgram(job.prog) /\ TsPlace /\ TsChannels /\ TsTurn /\ TsFlow
  BY DEF TsInv, TsType
<1>1. CASE at \in {"ts holds", "ts waits"}
  <2>1. ~ mem.parked[1] /\ ~ mem.parked[2]
    BY <1>1, <1>t, Zenon DEF TsChannels
  <2>2. /\ Fails => Yielded(job.prog, mem.got, mem.done, TRUE)
        /\ ~ Fails => Yielded(job.prog, mem.got, mem.done, FALSE)
    BY <2>1, <1>t, Zenon DEF TsFlow, Flows
  <2>3. \E failed \in BOOLEAN : Yielded(job.prog, mem.got, mem.done, failed)
    BY <2>2, Zenon
  <2>4. ASSUME mem.ended
        PROVE  /\ mem.done = Len(job.prog) - 1
               /\ Yielded(job.prog, mem.got, mem.done, job.prog[Len(job.prog)] = "err")
    <3>1. Over /\ mem.done = Len(job.prog) - 1
      BY <2>4, <1>t, Zenon DEF TsPlace
    <3>2. CASE job.prog[Len(job.prog)] = "err"
      <4>1. Yielded(job.prog, mem.got, mem.done, TRUE)
        BY <2>2, <3>1, <3>2, Zenon DEF Fails
      <4>2. (job.prog[Len(job.prog)] = "err") = TRUE
        BY <3>2
      <4> QED
        BY <3>1, <4>1, <4>2, Zenon
    <3>3. CASE job.prog[Len(job.prog)] # "err"
      <4>1. Yielded(job.prog, mem.got, mem.done, FALSE)
        BY <2>2, <3>3, Zenon DEF Fails
      <4>2. (job.prog[Len(job.prog)] = "err") = FALSE
        BY <3>3
      <4> QED
        BY <3>1, <4>1, <4>2, Zenon
    <3> QED
      BY <3>2, <3>3
  <2>5. ASSUME at = "ts waits", ~ mem.woken
        PROVE  job.prog[mem.done + 1] = "io" /\ mem.io /\ ~ mem.ready
    BY <2>5, <1>t, Zenon DEF TsTurn
  <2> QED
    BY <2>3, <2>4, <2>5, Zenon DEF StreamInStep
<1>2. CASE at \notin {"ts holds", "ts waits"}
  BY <1>2, <1>t, Zenon DEF TsPlace, StreamInStep
<1> QED
  BY <1>1, <1>2, Zenon

\* StreamInStep for a program of any length: the two nested streams lose,
\* double and reorder nothing, a generator never runs ahead of its consumer,
\* and a task that sleeps has left its waker with what run waits for.
THEOREM StreamTheorem == TsSpec => []StreamInStep
<1>1. TsInit => TsInv
  BY TsInitially
<1>2. TsInv /\ [TsNext]_<<job, at, mem>> => TsInv'
  BY TsStep
<1>3. TsInv => StreamInStep
  BY TsSees
<1> QED
  BY <1>1, <1>2, <1>3, PTL DEF TsSpec
=============================================================================
