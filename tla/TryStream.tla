----------------------------- MODULE TryStream ------------------------------
(***************************************************************************)
(* TryAsyncStream (src/ext/async_stream.rs) as the drivers nest it: the    *)
(* generator of fetch_many (level 2) reads the stream of run (level 1) and *)
(* yields what it reads.  A stream is a future and the receiver of a       *)
(* channel without buffer, polled one after the other in one task.         *)
(*                                                                         *)
(* futures_channel is external: a sender whose message lies in the channel *)
(* is parked, and a parked sender and an idle receiver leave the waker of  *)
(* the task behind.  The program of run is a sequence of items and waits   *)
(* for the socket, and ends with Ok or an error.                           *)
(***************************************************************************)
EXTENDS Values

Level == 1..2

\* Whose poll is running: a future's or a receiver's.
Gen == <<"ts gen 1", "ts gen 2">>
Rx == <<"ts rx 1", "ts rx 2">>

\* An item is its place in the program; an error:
Failed == 0

TsStart == [gen |-> <<"run", "run">>,          \* the two futures
            q |-> <<<<>>, <<>>>>,              \* the two channels
            parked |-> <<FALSE, FALSE>>,       \* the sender waits for its message to be taken
            tx |-> <<FALSE, FALSE>>,           \* and has left its waker
            rx |-> <<FALSE, FALSE>>,           \* the receiver has left its waker
            done |-> 0,                        \* steps of the program
            ready |-> FALSE, io |-> FALSE,     \* the socket is ready; it has the waker
            woken |-> TRUE,                    \* the task is to be polled
            got |-> <<>>, ended |-> FALSE]     \* what the consumer has received

\* Sender::start_send: the message, and the receiver is woken
Sent(m, l, x, then) ==
    [m EXCEPT !.q[l] = Append(@, x), !.parked[l] = TRUE, !.gen[l] = then,
              !.woken = @ \/ m.rx[l], !.rx[l] = FALSE]

\* Receiver::next_message, which unparks the sender
Received(m, l) ==
    [m EXCEPT !.q[l] = Tail(@), !.parked[l] = FALSE, !.woken = @ \/ m.tx[l], !.tx[l] = FALSE]

\* A mutant: yield does not wait until its item is taken.
Flushed_Always(l) == mem.gen[l] \in {"flush", "last"}

\* SinkExt::send is done: the sender is not parked.
Flushed(l) == mem.gen[l] \in {"flush", "last"} /\ ~mem.parked[l]

\* r#yield!, or the send of the error, goes on; behind the error the future ends.
TsFlushed(l) ==
    /\ at = Gen[l] /\ Flushed(l)
    /\ mem' = [mem EXCEPT !.gen[l] = IF @ = "last" THEN "end" ELSE "run"]
    /\ UNCHANGED <<job, at>>

\* It is pending and leaves the waker, or has ended and is fused: the receiver
\* is polled.
TsParked(l) ==
    /\ at = Gen[l] /\ ~Flushed(l) /\ mem.gen[l] # "run"
    /\ at' = Rx[l]
    /\ mem' = [mem EXCEPT !.tx[l] = mem.parked[l]]
    /\ UNCHANGED job

AtStep(kinds) == at = Gen[1] /\ mem.gen[1] = "run" /\ job.prog[mem.done + 1] \in kinds

\* The program of run yields an item, or returns: an error is sent by the
\* stream's own sender.
TsItem ==
    /\ AtStep({"item"})
    /\ mem' = [Sent(mem, 1, mem.done + 1, "flush") EXCEPT !.done = @ + 1]
    /\ UNCHANGED <<job, at>>

TsReturn ==
    /\ AtStep({"ok", "err"})
    /\ mem' = IF job.prog[mem.done + 1] = "ok" THEN [mem EXCEPT !.gen[1] = "end"]
              ELSE Sent(mem, 1, Failed, "last")
    /\ UNCHANGED <<job, at>>

\* It awaits the socket.
TsIo ==
    /\ AtStep({"io"})
    /\ IF mem.ready THEN mem' = [mem EXCEPT !.done = @ + 1, !.ready = FALSE] /\ UNCHANGED at
       ELSE mem' = [mem EXCEPT !.io = TRUE] /\ at' = Rx[1]
    /\ UNCHANGED job

\* fetch_many asks for the next item of run.
TsTryNext ==
    /\ at = Gen[2] /\ mem.gen[2] = "run"
    /\ at' = Gen[1]
    /\ UNCHANGED <<job, mem>>

\* Receiver::poll_next of run's stream: fetch_many yields the item, returns the
\* error or, when the channel is closed, ends; or it is pending with it.
TsReceive1 ==
    /\ at = Rx[1]
    /\ CASE mem.q[1] # <<>> ->
               LET x == mem.q[1][1]
               IN  /\ at' = Gen[2]
                   /\ mem' = Sent(Received(mem, 1), 2, x, IF x = Failed THEN "last" ELSE "flush")
         [] mem.q[1] = <<>> /\ mem.gen[1] = "end" -> at' = Gen[2] /\ mem' = [mem EXCEPT !.gen[2] = "end"]
         [] OTHER -> at' = Rx[2] /\ mem' = [mem EXCEPT !.rx[1] = TRUE]
    /\ UNCHANGED job

\* The same of fetch_many's stream, for the consumer.
TsReceive2 ==
    /\ at = Rx[2]
    /\ CASE mem.q[2] # <<>> ->
               at' = "ts holds" /\ mem' = [Received(mem, 2) EXCEPT !.got = Append(@, mem.q[2][1])]
         [] mem.q[2] = <<>> /\ mem.gen[2] = "end" -> at' = "ts holds" /\ mem' = [mem EXCEPT !.ended = TRUE]
         [] OTHER -> at' = "ts waits" /\ mem' = [mem EXCEPT !.rx[2] = TRUE]
    /\ UNCHANGED job

\* The consumer asks for the next item, or its task has been woken.
TsPoll ==
    /\ \/ at = "ts holds" /\ ~mem.ended
       \/ at = "ts waits" /\ mem.woken
    /\ at' = Gen[2]
    /\ mem' = [mem EXCEPT !.woken = FALSE]
    /\ UNCHANGED job

\* External: what run waits for arrives, at any time.
TsReady ==
    /\ job.prog[mem.done + 1] = "io" /\ ~mem.ready
    /\ mem' = [mem EXCEPT !.ready = TRUE, !.woken = @ \/ mem.io, !.io = FALSE]
    /\ UNCHANGED <<job, at>>

TsNext ==
    /\ job.drv = "ts"
    /\ \/ \E l \in Level : TsFlushed(l) \/ TsParked(l)
       \/ TsItem \/ TsReturn \/ TsIo \/ TsTryNext \/ TsReceive1 \/ TsReceive2 \/ TsPoll \/ TsReady

-----------------------------------------------------------------------------
(* Streams of a program of any length.  MCValues starts them beside the     *)
(* conversations of the drivers.                                           *)

IsProgram(p) ==
    /\ p \in Seq({"item", "io", "ok", "err"}) /\ p # <<>>
    /\ \A i \in 1..Len(p) : p[i] \in {"ok", "err"} <=> i = Len(p)

TsInit == job.drv = "ts" /\ IsProgram(job.prog) /\ at = "ts holds" /\ mem = TsStart

TsSpec == TsInit /\ [][TsNext]_<<job, at, mem>>

-----------------------------------------------------------------------------
\* s is the items among the first n steps of program p, in order, and behind
\* them the error if there is one.
Yielded(p, s, n, failed) ==
    LET k == IF failed THEN Len(s) - 1 ELSE Len(s)
    IN  /\ failed => s # <<>> /\ s[Len(s)] = Failed
        /\ \A i, j \in 1..k : i < j => s[i] < s[j]
        /\ {s[i] : i \in 1..k} = {i \in 1..n : p[i] = "item"}

\* The consumer gets what run yields, in order, and an error behind the items
\* before it.  While it holds an item neither generator has gone past the
\* yield of that item.  While it waits, run waits for the socket, and the
\* socket has the waker of the task or has used it.
StreamInStep ==
    job.drv = "ts" =>
        /\ at \in {"ts holds", "ts waits"} =>
               \E failed \in BOOLEAN : Yielded(job.prog, mem.got, mem.done, failed)
        /\ mem.ended => /\ mem.done = Len(job.prog) - 1
                        /\ Yielded(job.prog, mem.got, mem.done, job.prog[Len(job.prog)] = "err")
        /\ at = "ts waits" /\ ~mem.woken =>
               job.prog[mem.done + 1] = "io" /\ mem.io /\ ~mem.ready
=============================================================================
