---------------------------- MODULE SqliteWorker ----------------------------
(***************************************************************************)
(* One SQLite connection: the client that owns the SqliteConnection and the *)
(* background thread that owns the sqlite3 handle                          *)
(* (src/rbdc-sqlite/src/connection/worker.rs and connection/mod.rs).        *)
(*                                                                         *)
(* The client sends commands through a bounded flume channel and waits on   *)
(* the oneshot or row channel that travelled with the command.  Every       *)
(* method takes &mut self, so the client runs one operation at a time, but  *)
(* its future can be dropped at any await: the command it sent stays in the *)
(* channel.  The thread holds the fair mutex around ConnectionState while   *)
(* it serves commands and gives it away for lock_handle.                    *)
(*                                                                         *)
(* SQL text, rows and errors are abstracted to what the control depends on: *)
(* a result is "Row", "Done" or "Err", and a query is its cache key.        *)
(***************************************************************************)
EXTENDS StatementCacheOps

CONSTANTS
    Query,               \* SQL strings of persistent (cached) statements
    NoQuery,             \* stands for a statement that is not cached
    CommandChannelSize,  \* SqliteConnectOptions::command_channel_size
    RowChannelSize,      \* SqliteConnectOptions::row_channel_size
    MaxOps,              \* bound on the operations the client starts
    MaxStatements,       \* bound on the statements of one SQL string
    MaxRows,             \* bound on the rows of one statement
    Cancels,             \* BOOLEAN: the client may drop a pending future
    UseAfterClose        \* BOOLEAN: the client may go on after close()

ASSUME WorkerAssumption ==
    /\ NoQuery \notin Query
    /\ CommandChannelSize \in Nat \ {0}
    /\ RowChannelSize \in Nat \ {0}
    /\ MaxOps \in Nat
    /\ MaxStatements \in Nat
    /\ MaxRows \in Nat
    /\ Cancels \in BOOLEAN
    /\ UseAfterClose \in BOOLEAN

VARIABLES
    \* the worker thread
    wpc,        \* where the thread is
    wcmd,       \* the command it is serving
    goto_next,  \* ExecuteIter::goto_next
    left,       \* statements of the SQL string not yet started
    rows,       \* rows the running statement still has
    item,       \* the result next() returned, to be sent
    cached,     \* Statements::cached, its keys
    \* the client
    cpc,        \* where the client is
    ccmd,       \* the command of its current (or last) operation
    lk,         \* the lock future of lock_handle: "no", "waiting" or "held"
    reply,      \* the oneshot of the current operation
    rowq,       \* the row channel of the current operation
    ended,      \* its sender has been dropped
    result,     \* how the last operation resolved
    closing,    \* close() has been called
    \* shared
    commands,   \* the command channel
    holder,     \* who holds the mutex around ConnectionState
    waiters,    \* the mutex's queue of waiting futures
    arcs,       \* who holds an Arc<WorkerSharedState>
    size        \* cached_statements_size

iter == <<goto_next, left, rows, item>>
worker == <<wpc, wcmd, iter, cached>>
channel == <<reply, rowq, ended>>
client == <<cpc, ccmd, lk, channel, result, closing>>
mutex == <<holder, waiters>>
shared == <<commands, mutex, arcs, size>>
vars == <<worker, client, shared>>

Kind == {"Prepare", "Execute", "CreateCollation", "UnlockDb", "ClearCache",
         "Ping", "Shutdown"}
Command == [id : 0..MaxOps, kind : Kind, query : Query \cup {NoQuery}]
NoCommand == [id |-> 0, kind |-> "Ping", query |-> NoQuery]

\* What ExecuteIter::next yields.
Item == {"Row", "Done", "Err"}

\* Who can lock the mutex.
Party == {"worker", "client"}
Nobody == "nobody"
-----------------------------------------------------------------------------
Init ==
    /\ wpc = "starting" /\ wcmd = NoCommand
    /\ goto_next = TRUE /\ left = 0 /\ rows = 0 /\ item = "Done"
    /\ cached = <<>>
    /\ cpc = "connecting" /\ ccmd = NoCommand /\ lk = "no" /\ reply = "none"
    /\ rowq = <<>> /\ ended = FALSE /\ result = "none" /\ closing = FALSE
    /\ commands = <<>> /\ holder = Nobody /\ waiters = <<>>
    /\ arcs = {} /\ size = 0
-----------------------------------------------------------------------------
(* Establishing the connection. *)

\* The thread opens the database and locks the state it has just created.
EstablishOpen ==
    /\ wpc = "starting"
    /\ wpc' = "established"
    /\ holder' = "worker" /\ arcs' = {"worker"}
    /\ UNCHANGED <<wcmd, iter, cached, client, commands, waiters, size>>

\* params.establish() fails: the error goes to the client, if it still waits.
EstablishError ==
    /\ wpc = "starting"
    /\ wpc' = "stopped" /\ cpc' = "gone"
    /\ UNCHANGED <<wcmd, iter, cached, ccmd, lk, channel, result, closing,
                   shared>>

CloneShared_Moved == {"conn"}

\* The ConnectionWorker gets an Arc of its own.
CloneShared == arcs \cup {"conn"}

\* The ConnectionWorker is handed to the client; if the connect future is
\* gone, the thread returns and drops everything.
EstablishSend ==
    /\ wpc = "established"
    /\ \/ /\ cpc = "connecting"
          /\ wpc' = "recv" /\ cpc' = "idle" /\ arcs' = CloneShared
          /\ UNCHANGED holder
       \/ /\ cpc = "gone"
          /\ wpc' = "stopped" /\ arcs' = {} /\ holder' = Nobody
          /\ UNCHANGED cpc
    /\ UNCHANGED <<wcmd, iter, cached, ccmd, lk, channel, result, closing,
                   commands, waiters, size>>
-----------------------------------------------------------------------------
(* The worker thread. *)

\* The receiver of the channel that travelled with c is still there.
Listening(c) == cpc = "await" /\ ccmd.id = c.id

\* oneshot::Sender::send, whose failure is ignored.
Reply(v) == reply' = IF Listening(wcmd) THEN v ELSE reply

\* An operation whose command has been accepted by the channel.
Sent(c) == IF c.kind = "CreateCollation" THEN "idle" ELSE "await"

Serve(c) ==
    CASE c.kind = "Execute"  -> "exec"
      [] c.kind = "UnlockDb" -> "unlock"
      [] c.kind = "Shutdown" -> "shutdown"
      [] OTHER               -> "run"

\* `for cmd in command_rx`: take a command; flume moves a sender that waits
\* for room into the channel in the same step.
Recv ==
    /\ wpc = "recv"
    /\ commands # <<>>
    /\ wcmd' = Head(commands)
    /\ wpc' = Serve(Head(commands))
    /\ IF cpc = "pending"
       THEN /\ commands' = Append(Tail(commands), ccmd)
            /\ cpc' = Sent(ccmd)
            /\ result' = IF ccmd.kind = "CreateCollation" THEN "Ok" ELSE result
       ELSE /\ commands' = Tail(commands)
            /\ UNCHANGED <<cpc, result>>
    /\ UNCHANGED <<iter, cached, ccmd, lk, channel, closing, mutex, arcs,
                   size>>

DropShared_Leak == arcs

\* The thread's Arc goes.
DropShared == arcs \ {"worker"}

\* The loop ends once the channel is empty and its sender dropped.
Disconnected ==
    /\ wpc = "recv"
    /\ commands = <<>> /\ cpc = "gone"
    /\ wpc' = "stopped" /\ holder' = Nobody /\ arcs' = DropShared
    /\ UNCHANGED <<wcmd, iter, cached, client, commands, waiters, size>>

\* Statements::get: a cached statement is promoted, a new one inserted; one
\* that is not persistent replaces `temp`, which nothing here depends on.
get(c, q) ==
    IF q = NoQuery THEN c
    ELSE IF contains_key(c, q) THEN get_mut(c, q) ELSE insert(c, q)

update_cached_statements_size_Stale(c) == size

update_cached_statements_size(c) == Len(c)

\* What Statements::get leaves when it fails: VirtualStatement::new refuses a
\* SQL string that is too long, and the reset of a cached one may fail.
getFailed(c, q) == get_mut(c, q)

\* prepare fails if get does, or if the SQL does not compile.  Only a
\* successful prepare stores the new size.
RunPrepare ==
    /\ wpc = "run" /\ wcmd.kind = "Prepare"
    /\ \/ /\ cached' = get(cached, wcmd.query)
          /\ size' = update_cached_statements_size(cached') /\ Reply("Ok")
       \/ /\ cached' \in {get(cached, wcmd.query), getFailed(cached, wcmd.query)}
          /\ size' = size /\ Reply("Err")
    /\ wpc' = "recv"
    /\ UNCHANGED <<wcmd, iter, cpc, ccmd, lk, rowq, ended, result, closing,
                   commands, mutex, arcs>>

\* A collation error is only logged.
RunCreateCollation ==
    /\ wpc = "run" /\ wcmd.kind = "CreateCollation"
    /\ wpc' = "recv"
    /\ UNCHANGED <<wcmd, iter, cached, client, shared>>

RunClearCache ==
    /\ wpc = "run" /\ wcmd.kind = "ClearCache"
    /\ cached' = <<>> /\ size' = update_cached_statements_size(<<>>)
    /\ Reply("Ok")
    /\ wpc' = "recv"
    /\ UNCHANGED <<wcmd, iter, cpc, ccmd, lk, rowq, ended, result, closing,
                   commands, mutex, arcs>>

RunPing ==
    /\ wpc = "run" /\ wcmd.kind = "Ping"
    /\ Reply("Ok")
    /\ wpc' = "recv"
    /\ UNCHANGED <<wcmd, iter, cached, cpc, ccmd, lk, rowq, ended, result,
                   closing, shared>>

\* execute::iter: the statement to run, or the error of Statements::get,
\* which is sent before the sender is dropped.
ExecBegin ==
    /\ wpc = "exec"
    /\ \/ /\ cached' = get(cached, wcmd.query)
          /\ wpc' = "next" /\ goto_next' = TRUE /\ left' \in 0..MaxStatements
          /\ rows' = 0
          /\ UNCHANGED <<rowq, ended>>
       \/ /\ cached' = getFailed(cached, wcmd.query)
          /\ wpc' = "recv"
          /\ \/ /\ Listening(wcmd) /\ Len(rowq) < RowChannelSize
                /\ rowq' = Append(rowq, "Err") /\ ended' = TRUE
             \/ ~ Listening(wcmd) /\ UNCHANGED <<rowq, ended>>
          /\ UNCHANGED <<goto_next, left, rows>>
    /\ UNCHANGED <<wcmd, item, cpc, ccmd, lk, reply, result, closing, shared>>

\* sqlite3_step on a statement that has r rows left.  After an error SQLite
\* resets the statement, so that stepping it again runs it again.
Step(r) ==
    \/ r > 0 /\ item' = "Row" /\ rows' = r - 1 /\ goto_next' = FALSE
    \/ r = 0 /\ item' = "Done" /\ rows' = 0 /\ goto_next' = TRUE
    \/ item' = "Err" /\ rows' \in 0..MaxRows /\ goto_next' = FALSE

\* ExecuteIter::next returns a result.  An error of prepare_next leaves the
\* iterator where it was; after an error of the reset or of bind the
\* statement counts as started, and the next call steps it.
ExecNext ==
    /\ wpc = "next"
    /\ \/ goto_next /\ left > 0 /\ left' = left - 1
          /\ \E r \in 0..MaxRows :
                Step(r) \/ (item' = "Err" /\ rows' = r /\ goto_next' = FALSE)
       \/ goto_next /\ left > 0 /\ item' = "Err"
          /\ UNCHANGED <<left, rows, goto_next>>
       \/ ~ goto_next /\ Step(rows) /\ UNCHANGED left
    /\ wpc' = "send"
    /\ UNCHANGED <<wcmd, cached, client, shared>>

\* ExecuteIter::next returns None: no statement is left.
ExecNone ==
    /\ wpc = "next"
    /\ goto_next /\ left = 0
    /\ wpc' = "finish"
    /\ UNCHANGED <<wcmd, iter, cached, client, shared>>

ReceiverGone_Ignored == "next"

\* A failed send breaks the loop.
ReceiverGone == "finish"

\* `tx.send(res)` blocks while the row channel is full, and fails once the
\* receiver is gone, which ends the loop.
ExecSend ==
    /\ wpc = "send"
    /\ \/ /\ Listening(wcmd) /\ Len(rowq) < RowChannelSize
          /\ rowq' = Append(rowq, item) /\ wpc' = "next"
       \/ /\ ~ Listening(wcmd)
          /\ wpc' = ReceiverGone /\ UNCHANGED rowq
    /\ UNCHANGED <<wcmd, iter, cached, cpc, ccmd, lk, reply, ended, result,
                   closing, shared>>

\* The iterator is dropped, which resets the statement, and the new size of
\* the cache stored ...
ExecFinish ==
    /\ wpc = "finish"
    /\ size' = update_cached_statements_size(cached)
    /\ wpc' = "drop"
    /\ UNCHANGED <<wcmd, iter, cached, client, commands, mutex, arcs>>

\* ... before the sender goes out of scope.
ExecDrop ==
    /\ wpc = "drop"
    /\ ended' = (ended \/ Listening(wcmd))
    /\ wpc' = "recv"
    /\ UNCHANGED <<wcmd, iter, cached, cpc, ccmd, lk, reply, rowq, result,
                   closing, shared>>

\* Command::UnlockDb: `drop(conn)` ...
Unlock ==
    /\ wpc = "unlock"
    /\ holder' = Nobody
    /\ wpc' = "unlocked"
    /\ UNCHANGED <<wcmd, iter, cached, client, commands, waiters, arcs, size>>

CanLock_Unfair == holder = Nobody

\* Mutex::lock, first poll: a fair mutex is taken only if nobody waits.
CanLock == holder = Nobody /\ waiters = <<>>

\* ... and `block_on(shared.conn.lock())`.
Relock ==
    /\ wpc = "unlocked"
    /\ IF CanLock
       THEN holder' = "worker" /\ wpc' = "recv" /\ UNCHANGED waiters
       ELSE waiters' = Append(waiters, "worker") /\ wpc' = "relock"
            /\ UNCHANGED holder
    /\ UNCHANGED <<wcmd, iter, cached, client, commands, arcs, size>>

Granted_WhileHeld(who) == waiters # <<>> /\ Head(waiters) = who

\* Mutex::lock, later polls: the oldest waiter gets a free mutex.
Granted(who) == holder = Nobody /\ waiters # <<>> /\ Head(waiters) = who

RelockGranted ==
    /\ wpc = "relock"
    /\ Granted("worker")
    /\ holder' = "worker" /\ waiters' = Tail(waiters)
    /\ wpc' = "recv"
    /\ UNCHANGED <<wcmd, iter, cached, client, commands, arcs, size>>

\* Command::Shutdown: drop the references ...
ShutdownDrop ==
    /\ wpc = "shutdown"
    /\ holder' = Nobody /\ arcs' = DropShared
    /\ wpc' = "ack"
    /\ UNCHANGED <<wcmd, iter, cached, client, commands, waiters, size>>

\* ... confirm ...
ShutdownAck ==
    /\ wpc = "ack"
    /\ Reply("Ok")
    /\ wpc' = "return"
    /\ UNCHANGED <<wcmd, iter, cached, cpc, ccmd, lk, rowq, ended, result,
                   closing, shared>>

\* ... and return, which drops the receiver of the command channel.  What is
\* still queued stays in the channel as long as its sender lives.
Return ==
    /\ wpc = "return"
    /\ wpc' = "stopped"
    /\ UNCHANGED <<wcmd, iter, cached, client, shared>>
-----------------------------------------------------------------------------
(* The client. *)

\* The connect future is dropped before the connection is established.
CancelConnect ==
    /\ Cancels /\ cpc = "connecting"
    /\ cpc' = "gone"
    /\ UNCHANGED <<worker, ccmd, lk, channel, result, closing, shared>>

\* A method is called.  Execute takes a cached or a one-off statement,
\* Prepare always a cached one.
Start(k, q) ==
    /\ cpc = "idle"
    /\ ccmd.id < MaxOps
    /\ UseAfterClose \/ ~ closing
    /\ q = NoQuery \/ k \in {"Prepare", "Execute"}
    /\ k = "Prepare" => q # NoQuery
    /\ ccmd' = [id |-> ccmd.id + 1, kind |-> k, query |-> q]
    /\ cpc' = IF k = "UnlockDb" THEN "lock" ELSE "send"
    /\ lk' = "no" /\ reply' = "none" /\ rowq' = <<>> /\ ended' = FALSE
    /\ result' = "none"
    /\ closing' = (closing \/ k = "Shutdown")
    /\ UNCHANGED <<worker, shared>>

\* unlock_db polls its lock future first, so that it waits for the mutex
\* before the command that makes the thread release it is sent.
LockPoll ==
    /\ cpc = "lock"
    /\ IF CanLock
       THEN holder' = "client" /\ lk' = "held" /\ UNCHANGED waiters
       ELSE waiters' = Append(waiters, "client") /\ lk' = "waiting"
            /\ UNCHANGED holder
    /\ cpc' = "send"
    /\ UNCHANGED <<worker, ccmd, channel, result, closing, commands, arcs,
                   size>>

\* A send that found the receiver gone: "WorkerCrashed".  unlock_db joins
\* both futures, so it still waits for the lock.
Crashed ==
    IF ccmd.kind = "UnlockDb"
    THEN cpc' = "crashed" /\ UNCHANGED result
    ELSE cpc' = "idle" /\ result' = "WorkerCrashed"

\* flume::bounded(command_channel_size).
HasRoom == Len(commands) < CommandChannelSize

\* send_async, and the blocking send of create_collation and shutdown.
Send ==
    /\ cpc = "send"
    /\ \/ /\ wpc = "stopped"
          /\ Crashed
          /\ UNCHANGED commands
       \/ /\ wpc # "stopped" /\ HasRoom
          /\ commands' = Append(commands, ccmd)
          /\ cpc' = Sent(ccmd)
          /\ result' = IF ccmd.kind = "CreateCollation" THEN "Ok" ELSE result
       \/ /\ wpc # "stopped" /\ ~ HasRoom
          /\ cpc' = "pending"
          /\ UNCHANGED <<commands, result>>
    /\ UNCHANGED <<worker, ccmd, lk, channel, closing, mutex, arcs, size>>

PendingCrashed ==
    /\ cpc = "pending" /\ wpc = "stopped"
    /\ Crashed
    /\ UNCHANGED <<worker, ccmd, lk, channel, closing, shared>>

LockGranted ==
    /\ lk = "waiting" /\ cpc \in {"pending", "await", "crashed"}
    /\ Granted("client")
    /\ holder' = "client" /\ waiters' = Tail(waiters) /\ lk' = "held"
    /\ UNCHANGED <<worker, cpc, ccmd, channel, result, closing, commands,
                   arcs, size>>

\* Both futures of unlock_db are ready: the guard, or the error of the send,
\* which drops the guard.
LockDone ==
    /\ ccmd.kind = "UnlockDb" /\ lk = "held"
    /\ \/ /\ cpc = "await"
          /\ cpc' = "guard" /\ result' = "Ok"
          /\ UNCHANGED <<holder, lk>>
       \/ /\ cpc = "crashed"
          /\ cpc' = "idle" /\ result' = "WorkerCrashed"
          /\ holder' = Nobody /\ lk' = "no"
    /\ UNCHANGED <<worker, ccmd, channel, closing, commands, waiters, arcs,
                   size>>

\* The LockedSqliteHandle is dropped.
DropGuard ==
    /\ cpc = "guard"
    /\ cpc' = "idle" /\ holder' = Nobody /\ lk' = "no"
    /\ UNCHANGED <<worker, ccmd, channel, result, closing, commands, waiters,
                   arcs, size>>

\* `rx.await` of prepare, ping, clear_cache and shutdown.
RecvReply ==
    /\ cpc = "await" /\ ccmd.kind \in {"Prepare", "Ping", "ClearCache", "Shutdown"}
    /\ reply # "none"
    /\ cpc' = "idle" /\ result' = reply
    /\ UNCHANGED <<worker, ccmd, lk, channel, closing, shared>>

\* The stream of fetch_many yields a row or a statement's summary; an error
\* ends it.
RecvRow ==
    /\ cpc = "await" /\ ccmd.kind = "Execute"
    /\ rowq # <<>>
    /\ rowq' = Tail(rowq)
    /\ IF Head(rowq) = "Err"
       THEN cpc' = "idle" /\ result' = "Err"
       ELSE UNCHANGED <<cpc, result>>
    /\ UNCHANGED <<worker, ccmd, lk, reply, ended, closing, shared>>

\* fetch_optional drops its stream at the first row.
RecvFirstRow ==
    /\ cpc = "await" /\ ccmd.kind = "Execute"
    /\ rowq # <<>> /\ Head(rowq) = "Row"
    /\ rowq' = Tail(rowq)
    /\ cpc' = "idle" /\ result' = "Ok"
    /\ UNCHANGED <<worker, ccmd, lk, reply, ended, closing, shared>>

RecvEnd ==
    /\ cpc = "await" /\ ccmd.kind = "Execute"
    /\ rowq = <<>> /\ ended
    /\ cpc' = "idle" /\ result' = "Ok"
    /\ UNCHANGED <<worker, ccmd, lk, channel, closing, shared>>

\* A dropped lock future leaves the mutex's queue.
Leave(ws, who) == IF contains_key(ws, who) THEN pop_entry(ws, who) ELSE ws

\* The future of the operation is dropped while it waits.  A send that is
\* still waiting is withdrawn; a blocking one cannot be.  The lock future
\* leaves the mutex's queue, or releases the lock it already has.
Cancel ==
    /\ Cancels
    /\ cpc \in {"pending", "await", "crashed"}
    /\ cpc = "pending" => ccmd.kind \notin {"CreateCollation", "Shutdown"}
    /\ cpc' = "idle" /\ result' = "none" /\ lk' = "no"
    /\ holder' = IF lk = "held" THEN Nobody ELSE holder
    /\ waiters' = Leave(waiters, "client")
    /\ UNCHANGED <<worker, ccmd, channel, closing, commands, arcs, size>>

\* The SqliteConnection is dropped: the sender of the command channel and an
\* Arc go; if the thread has stopped, what is left in the channel goes too.
Drop ==
    /\ cpc = "idle"
    /\ cpc' = "gone" /\ arcs' = arcs \ {"conn"}
    /\ commands' = IF wpc = "stopped" THEN <<>> ELSE commands
    /\ UNCHANGED <<worker, ccmd, lk, channel, result, closing, mutex, size>>
-----------------------------------------------------------------------------
WorkerStep ==
    \/ EstablishOpen \/ EstablishError \/ EstablishSend
    \/ Recv \/ Disconnected
    \/ RunPrepare \/ RunCreateCollation \/ RunClearCache \/ RunPing
    \/ ExecBegin \/ ExecNext \/ ExecNone \/ ExecSend \/ ExecFinish \/ ExecDrop
    \/ Unlock \/ Relock \/ RelockGranted
    \/ ShutdownDrop \/ ShutdownAck \/ Return

\* What polling the client's current future does.
ClientPoll ==
    \/ LockPoll \/ Send \/ PendingCrashed \/ LockGranted \/ LockDone
    \/ RecvReply \/ RecvRow \/ RecvFirstRow \/ RecvEnd

\* What the application decides.
ClientChoice ==
    \/ CancelConnect \/ Cancel \/ DropGuard \/ Drop
    \/ \E k \in Kind, q \in Query \cup {NoQuery} : Start(k, q)

Next == WorkerStep \/ ClientPoll \/ ClientChoice

Spec == Init /\ [][Next]_vars

\* The operating system schedules the thread, and the executor polls a future
\* that was woken; nothing is assumed of the application's choices.
FairSpec == Spec /\ WF_vars(WorkerStep) /\ WF_vars(ClientPoll)
-----------------------------------------------------------------------------
(* Properties. *)

\* Where the thread makes SQLite calls.
UsesHandle == {"run", "exec", "next", "finish"}

WorkerTypeOK ==
    /\ wpc \in {"starting", "established", "recv", "run", "exec", "next",
                "send", "finish", "drop", "unlock", "unlocked", "relock",
                "shutdown", "ack", "return", "stopped"}
    /\ wcmd \in Command
    /\ left \in 0..MaxStatements /\ rows \in 0..MaxRows /\ item \in Item
    /\ cached \in Seq(Query)

ClientTypeOK ==
    /\ cpc \in {"connecting", "idle", "lock", "send", "pending", "await",
                "crashed", "guard", "gone"}
    /\ ccmd \in Command
    /\ lk \in {"no", "waiting", "held"}
    /\ reply \in {"none", "Ok", "Err"}
    /\ rowq \in Seq(Item) /\ Len(rowq) <= RowChannelSize
    /\ result \in {"none", "Ok", "Err", "WorkerCrashed"}

SharedTypeOK ==
    /\ commands \in Seq(Command) /\ Len(commands) <= CommandChannelSize
    /\ holder \in Party \cup {Nobody}
    /\ waiters \in Seq(Party)
    /\ arcs \subseteq {"worker", "conn"}
    /\ size \in Nat

FlagTypeOK == goto_next \in BOOLEAN /\ ended \in BOOLEAN /\ closing \in BOOLEAN

\* Every variable has its type, and neither channel outgrows its bound.
TypeOK == WorkerTypeOK /\ ClientTypeOK /\ SharedTypeOK /\ FlagTypeOK

\* "As long as this LockedSqliteHandle exists, it is guaranteed that the
\* background thread is not making FFI calls on this database handle": no
\* matter which lock_handle futures were dropped and which UnlockDb commands
\* they left behind.
LockedOut == cpc = "guard" => wpc \notin UsesHandle

\* Neither side uses the sqlite3 handle after the last Arc that keeps it
\* open is gone.
OpenWhileUsed == (wpc \in UsesHandle \/ cpc = "guard") => arcs # {}

\* The thread drops its references before it confirms close(): once close()
\* returned Ok, dropping the connection closes the database there and then.
CloseThenDrop ==
    ccmd.kind = "Shutdown" /\ result = "Ok" /\ cpc = "gone" => arcs = {}

\* After a prepare or clear_cache that succeeded, and after an execute whose
\* stream was read to its end, cached_statements_size() is the size of the
\* cache, although the thread stores it and nobody waits for the store.
SizeSettled ==
    /\ cpc = "idle" /\ result = "Ok"
    /\ ccmd.kind \in {"Prepare", "ClearCache"} \/ ended
    => size = Len(cached)

Waiting == cpc \in {"lock", "send", "pending", "await", "crashed"}

\* The thread has stopped with the client's command in the channel: it was
\* accepted after the shutdown was confirmed.
Stranded == wpc = "stopped" /\ cpc = "await" /\ contains_key(commands, ccmd)

\* An operation other than lock_handle is answered, even when the command
\* channel is full of commands whose futures were dropped and the thread is
\* still producing rows nobody reads.  Only a use after close() can strand.
CommandResolves ==
    (Waiting /\ ccmd.kind # "UnlockDb") ~> (~ Waiting \/ (closing /\ Stranded))

\* The client has the mutex while its UnlockDb waits for room.
Crossed == lk = "held" /\ cpc = "pending"

\* lock_handle gets the mutex: the thread, which relocks at once, queues
\* behind the client ("note: must be fair").  Only a command channel that is
\* full can get in the way.
LockResolves ==
    (Waiting /\ ccmd.kind = "UnlockDb")
        ~> (~ Waiting \/ (closing /\ Stranded) \/ Crossed)

\* "Dropping this struct will signal the worker thread to quit and close the
\* database": also when commands are queued or a row is waiting to be sent.
DropCloses == cpc = "gone" ~> (wpc = "stopped" /\ arcs = {})

\* "You can explicitly call .close() to ensure the database is closed
\* successfully or get an error otherwise": when close() has returned Ok the
\* database is closed.
CloseMeansClosed ==
    ccmd.kind = "Shutdown" /\ result = "Ok" /\ cpc = "idle" => arcs = {}

\* ping() must "Ensure the background worker thread is alive and accepting
\* commands": it returns, with Ok or with an error.
PingReturns == (Waiting /\ ccmd.kind = "Ping") ~> ~ Waiting

\* lock_handle must "Lock the SQLite database handle out from the worker
\* thread" or return "an error if the worker thread crashed".
LockReturns == (Waiting /\ ccmd.kind = "UnlockDb") ~> ~ Waiting
=============================================================================
