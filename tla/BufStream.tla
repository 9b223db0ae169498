----------------------------- MODULE BufStream -----------------------------
(***************************************************************************)
(* BufStream (src/src/io), the buffered byte stream under the PostgreSQL    *)
(* and MySQL connections, and the way both receive on it: a header of fixed *)
(* length, then as many bytes as the header says.                           *)
(*                                                                         *)
(* A byte that arrives is the pair of its message and its place in it, so   *)
(* that a lost, repeated or misplaced byte shows; a byte that is written is *)
(* a number.  Every method takes &mut self: a read and a flush never        *)
(* overlap, but either can be dropped after any part of it.                 *)
(***************************************************************************)
EXTENDS Integers, Sequences, FiniteSets

CONSTANTS
    HeaderLen,   \* 5 bytes for PostgreSQL, 4 for MySQL
    Sizes,       \* lengths of message bodies
    MaxMsgs,     \* bound on the messages that arrive
    MaxWrites,   \* bound on the bytes that are written
    MaxDrops     \* bound on the futures that are dropped

ASSUME BufStreamAssumption ==
    /\ HeaderLen \in Nat \ {0} /\ Sizes \subseteq Nat
    /\ MaxMsgs \in Nat /\ MaxWrites \in Nat /\ MaxDrops \in Nat

VARIABLES
    op,       \* the future that is polled: "idle", "header", "body", "flush"
    cnt,      \* the argument of the read
    want,     \* the length its buffer was resized to
    rbuf,     \* read and not handed out
    header,   \* the header recv has decoded
    taken,    \* every byte handed out by read_raw
    got,      \* what recv returned: sequences of bytes
    sizes,    \* the body lengths of the messages that arrived
    arrived,  \* their bytes
    socket,   \* the bytes that have not been read
    eof,      \* the peer has closed the stream
    wbuf,     \* written and not flushed
    cursor,   \* how much of wbuf the flush has written
    written,  \* number of bytes written; names a byte
    out,      \* what the peer receives
    drops     \* futures dropped

reading == <<cnt, want, rbuf, header, taken, got>>
peer == <<sizes, arrived, socket, eof>>
writing == <<wbuf, cursor, written, out>>
vars == <<op, reading, peer, writing, drops>>

Init ==
    /\ op = "idle" /\ cnt = 0 /\ want = 0 /\ rbuf = <<>> /\ header = <<>>
    /\ taken = <<>> /\ got = <<>>
    /\ sizes = <<>> /\ arrived = <<>> /\ socket = <<>> /\ eof = FALSE
    /\ wbuf = <<>> /\ cursor = 0 /\ written = 0 /\ out = <<>>
    /\ drops = 0

Min2(a, b) == IF a < b THEN a ELSE b
-----------------------------------------------------------------------------
(* Reading. *)

\* BufTruncator::new and reserve: room for cnt bytes more than there are.
Reserve(n) == Len(rbuf) + n

BeginRead(phase, n) ==
    /\ op' = phase /\ cnt' = n /\ want' = Reserve(n)

\* recv_unchecked, recv_packet: read the header.
Recv ==
    /\ op = "idle"
    /\ BeginRead("header", HeaderLen)
    /\ UNCHANGED <<rbuf, header, taken, got, peer, writing, drops>>

IsReading == op \in {"header", "body"}

IsFull_Strict == Len(rbuf) > want

IsFull == Len(rbuf) >= want

\* The slice behind filled_len that the socket reads into.
Space == want - Len(rbuf)

\* BufTruncator::read: the socket gives what it has, and no more than fits.
ReadSome ==
    /\ IsReading /\ ~ IsFull
    /\ \E n \in 1..Min2(Len(socket), Space) :
          /\ rbuf' = rbuf \o SubSeq(socket, 1, n)
          /\ socket' = SubSeq(socket, n + 1, Len(socket))
    /\ UNCHANGED <<op, cnt, want, header, taken, got, sizes, arrived, eof,
                   writing, drops>>

Truncate_Forget == SubSeq(rbuf, 1, want - cnt)

\* BufTruncator::drop keeps what was filled.
Truncate == rbuf

\* A zero read, or an error of the socket: "an unexpected EOF means the server told us to go away".
ReadEof ==
    /\ IsReading /\ ~ IsFull /\ socket = <<>> /\ eof
    /\ op' = "idle" /\ rbuf' = Truncate
    /\ UNCHANGED <<cnt, want, header, taken, got, peer, writing, drops>>

Split == SubSeq(rbuf, 1, cnt)
Rest == SubSeq(rbuf, cnt + 1, Len(rbuf))

\* The bytes are the header of a message that was sent.
IsHeader(s) == \E i \in DOMAIN sizes : s = [k \in 1..HeaderLen |-> <<i, k>>]

\* read_raw returns the header.  Other bytes decode to any length or not at
\* all, and the operation fails.
ReadHeader ==
    /\ op = "header" /\ IsFull
    /\ taken' = taken \o Split
    /\ rbuf' = Rest
    /\ header' = Split
    /\ \/ \E n \in Sizes :
             /\ IsHeader(Split) => n = sizes[Split[1][1]]
             /\ op' = "body" /\ cnt' = n /\ want' = Len(Rest) + n
       \/ ~ IsHeader(Split) /\ op' = "idle" /\ UNCHANGED <<cnt, want>>
    /\ UNCHANGED <<got, peer, writing, drops>>

ReadBody ==
    /\ op = "body" /\ IsFull
    /\ taken' = taken \o Split
    /\ rbuf' = Rest
    /\ got' = Append(got, header \o Split)
    /\ op' = "idle"
    /\ UNCHANGED <<cnt, want, header, peer, writing, drops>>

\* The future that reads is dropped.
ReadDrop ==
    /\ IsReading /\ drops < MaxDrops
    /\ op' = "idle" /\ rbuf' = Truncate
    /\ drops' = drops + 1
    /\ UNCHANGED <<cnt, want, header, taken, got, peer, writing>>
-----------------------------------------------------------------------------
(* Writing. *)

\* write, write_with: the value is encoded behind what is there.
Write ==
    /\ op = "idle" /\ written < MaxWrites
    /\ wbuf' = Append(wbuf, written + 1)
    /\ written' = written + 1
    /\ UNCHANGED <<op, reading, peer, cursor, out, drops>>

Flush ==
    /\ op = "idle" /\ wbuf # <<>>
    /\ op' = "flush" /\ cursor' = 0
    /\ UNCHANGED <<reading, peer, wbuf, written, out, drops>>

\* WriteAndFlush::poll: the socket takes what it can.
PollWrite ==
    /\ op = "flush"
    /\ \E n \in 1..Len(wbuf) - cursor :
          /\ out' = out \o SubSeq(wbuf, cursor + 1, cursor + n)
          /\ cursor' = cursor + n
    /\ UNCHANGED <<op, reading, peer, wbuf, written, drops>>

\* WriteAndFlush::drop clears the buffer.
Clear == <<>>

FlushOk ==
    /\ op = "flush" /\ cursor = Len(wbuf)
    /\ op' = "idle" /\ wbuf' = Clear
    /\ UNCHANGED <<reading, peer, cursor, written, out, drops>>

\* The future that flushes is dropped, or the socket fails.
FlushDrop ==
    /\ op = "flush" /\ drops < MaxDrops
    /\ op' = "idle" /\ wbuf' = Clear
    /\ drops' = drops + 1
    /\ UNCHANGED <<reading, peer, cursor, written, out>>
-----------------------------------------------------------------------------
(* The peer. *)

Arrive ==
    /\ ~ eof /\ Len(sizes) < MaxMsgs
    /\ \E n \in Sizes :
          LET bytes == [k \in 1..HeaderLen + n |-> <<Len(sizes) + 1, k>>] IN
             /\ sizes' = Append(sizes, n)
             /\ arrived' = arrived \o bytes
             /\ socket' = socket \o bytes
    /\ UNCHANGED <<op, reading, eof, writing, drops>>

PeerCloses ==
    /\ ~ eof /\ eof' = TRUE
    /\ UNCHANGED <<op, reading, sizes, arrived, socket, writing, drops>>

Poll == ReadSome \/ ReadEof \/ ReadHeader \/ ReadBody \/ PollWrite \/ FlushOk

Next ==
    \/ Recv \/ ReadSome \/ ReadEof \/ ReadHeader \/ ReadBody \/ ReadDrop
    \/ Write \/ Flush \/ PollWrite \/ FlushOk \/ FlushDrop
    \/ Arrive \/ PeerCloses

Spec == Init /\ [][Next]_vars

\* The executor polls a future whose socket is ready.
FairSpec == Spec /\ WF_vars(Poll)
-----------------------------------------------------------------------------
(* Properties. *)

\* Every variable has its type, and the indices stay inside their buffers.
TypeOK ==
    /\ op \in {"idle", "header", "body", "flush"}
    /\ cnt \in Nat /\ want \in Nat
    /\ IsReading => Len(rbuf) <= want /\ cnt <= want
    /\ cursor \in 0..MaxWrites /\ op = "flush" => cursor <= Len(wbuf)
    /\ written \in 0..MaxWrites 
    /\ drops \in 0..MaxDrops /\ eof \in BOOLEAN

\* The part of the write buffer that the flush has not sent.
Unsent == IF op = "flush" THEN SubSeq(wbuf, cursor + 1, Len(wbuf)) ELSE wbuf

Pipe == INSTANCE BytePipe WITH incoming <- rbuf \o socket, given <- taken, pending <- Unsent,
                               delivered <- out, count <- written, dropped <- drops

\* The stream is a pipe of bytes.  read_raw hands them out in order and loses
\* none, also when a read is dropped after it took a part from the socket; the
\* peer receives them in the order they were written, none twice, and all of
\* them but those of a flush that was dropped.
ImplementsPipe == Pipe!Spec

\* A whole message is there that no byte has been handed out of.
Whole == \E i \in DOMAIN arrived : i = Len(taken) + 1 /\ arrived[i][2] = 1

\* A recv that finds a whole message returns it, if the buffer was empty when
\* it began: it does not wait for more than the message.
RecvReturns == op = "header" /\ want = cnt /\ Whole ~> op = "idle"

\* The same of every recv: a cancelled read leaves the buffer as it should be
\* for the next one ("Automatically shrinks the buffer back down if the read
\* is cancelled").
RecvAlwaysReturns == op = "header" /\ Whole ~> op = "idle"

\* "Get the next message from the server": what recv returns is a message
\* the server sent.
RecvWhole ==
    \A j \in DOMAIN got : \E i \in DOMAIN sizes :
        got[j] = [k \in 1..HeaderLen + sizes[i] |-> <<i, k>>]
=============================================================================
