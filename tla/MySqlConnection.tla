-------------------------- MODULE MySqlConnection --------------------------
(***************************************************************************)
(* A MySQL connection (src/rbdc-mysql/src/connection): how it matches the   *)
(* server's packets to its operations with the queue `waiting`, and keeps   *)
(* its statement cache in step with the statements the server holds.        *)
(*                                                                         *)
(* The protocol has no request identifiers.  An operation that is dropped   *)
(* leaves its replies unread, and wait_until_ready of the next one skips    *)
(* them, guided by `waiting`: "Result" stands for a reply that begins with  *)
(* its first packet, "Row" for one whose rows have begun.                   *)
(*                                                                         *)
(* The awaits at which futures are dropped are a constant, because not all  *)
(* of them are safe.  A packet that reaches the wrong reader decodes to an  *)
(* error or to arbitrary values.  The server is external.                   *)
(***************************************************************************)
EXTENDS StatementCacheOps, FiniteSets, Functions

CONSTANTS
    Sql,           \* SQL strings of operations with parameters
    MaxCalls,      \* bound on the operations
    MaxRows,       \* bound on the rows of a result set
    MaxResults,    \* bound on the results of one command
    DropAt         \* the steps at which the future may be dropped, each with
                   \* the values of deprecate_eof

ASSUME MaxRowsAssumption == MaxRows \in Nat

VARIABLES
    op,        \* the operation under way, a record; its step is "idle" if none
    calls,     \* number of operations so far; names an operation
    result,    \* how the last one ended
    deprecate_eof,  \* MySqlStream::capabilities has DEPRECATE_EOF
    waiting,   \* MySqlStream::waiting
    cache,     \* cache_statement: its keys
    ids,       \* cache_statement: the statement of each key
    closed,    \* close() has been called
    wbuf,      \* the packet that is flushed
    sent,      \* flushed, not yet served
    inbox,     \* sent by the server, not yet read
    stmts,     \* the server's statements: a function from identifiers to SQL
    next_id,   \* the server's next statement identifier
    open       \* the server is there

statements == <<cache, ids>>
conn == <<deprecate_eof, waiting, statements, closed>>
server == <<stmts, next_id, open>>
vars == <<op, calls, result, conn, wbuf, sent, inbox, server>>

None == 0

Idle == [kind |-> "none", sql |-> None, persistent |-> FALSE, limit |-> 0,
         running |-> FALSE, id |-> None, left |-> 0, cols |-> 0, step |-> "idle"]

Init ==
    /\ op = Idle /\ calls = 0 /\ result = "none"
    /\ deprecate_eof \in BOOLEAN /\ waiting = <<>>
    /\ cache = <<>> /\ ids = [q \in Sql |-> None]
    /\ closed = FALSE
    /\ wbuf = <<>> /\ sent = <<>> /\ inbox = <<>>
    /\ stmts = <<>> /\ next_id = 1 /\ open = TRUE
-----------------------------------------------------------------------------
(* Operations. *)

At(step) == op.step = step
Goto(step) == op' = [op EXCEPT !.step = step]
End(r) == op' = Idle /\ result' = r

\* kind: "query" is an operation without parameters; "exec" prepares its
\* statement and runs it; "prepare" is prepare_with; "fetch" is fetch_many
\* with arguments; "ping".  limit: 1 for fetch_optional.
Start(kind, q, persistent, limit) ==
    /\ At("idle") /\ calls < MaxCalls
    /\ op' = [Idle EXCEPT !.kind = kind, !.sql = q, !.persistent = persistent,
                 !.limit = limit, !.running = kind \in {"query", "fetch"},
                 !.step = "ready"]
    /\ calls' = calls + 1 /\ result' = "none"
    /\ UNCHANGED <<conn, wbuf, sent, inbox, server>>

StartQuery == \E l \in {0, 1} : Start("query", None, FALSE, l)
StartExec == \E q \in Sql : Start("exec", q, TRUE, 0)
StartPrepare == \E q \in Sql : Start("prepare", q, TRUE, 0)
StartFetch == \E q \in Sql, p \in BOOLEAN : Start("fetch", q, p, 0)
StartPing == Start("ping", None, FALSE, 0)
-----------------------------------------------------------------------------
(* Sending and receiving. *)

Command(kind, id) == [kind |-> kind, id |-> id, sql |-> op.sql, call |-> calls]

\* send_packet: write, then flush.
Send(kind, id, step) ==
    /\ wbuf' = <<Command(kind, id)>>
    /\ op' = [op EXCEPT !.step = step]

AfterFlush(step) ==
    CASE step = "prepare_flush" -> "prepare_ok"
      [] step = "close_flush"   -> "prepared"
      [] step = "run_flush"     -> "result"
      [] step = "ping_flush"    -> "ping_ok"

Flushing == op.step \in {"prepare_flush", "close_flush", "run_flush", "ping_flush"}

Flush ==
    /\ Flushing /\ ~ closed
    /\ sent' = IF open THEN sent \o wbuf ELSE sent
    /\ wbuf' = <<>>
    /\ Goto(AfterFlush(op.step))
    /\ UNCHANGED <<calls, result, conn, inbox, server>>

FlushError ==
    /\ Flushing /\ (closed \/ ~ open)
    /\ wbuf' = <<>>
    /\ End("IoError")
    /\ UNCHANGED <<calls, conn, sent, inbox, server>>

\* The future is dropped.  A flush that has not begun to write clears its
\* buffer, one that has written everything leaves nothing to clear.
Drop ==
    /\ <<op.step, deprecate_eof>> \in DropAt
    /\ End("none")
    /\ wbuf' = <<>>
    /\ sent' \in IF open THEN {sent, sent \o wbuf} ELSE {sent}
    /\ UNCHANGED <<calls, conn, inbox, server>>

Draining == At("ready") /\ waiting # <<>>

Reads ==
    \/ Draining
    \/ op.step \in {"skip", "prepare_ok", "params", "columns", "result",
                    "metadata", "rows", "ping_ok"}

Read == inbox # <<>> /\ inbox' = Tail(inbox)

PopFront(w) == IF w = <<>> THEN w ELSE Tail(w)

\* recv_packet emits the error of the server, wherever it is called.
RecvErr ==
    /\ Reads /\ Read /\ inbox[1].kind = "ERR"
    /\ waiting' = PopFront(waiting)
    /\ End(IF inbox[1].call = calls THEN "DbError" ELSE "OtherError")
    /\ UNCHANGED <<calls, deprecate_eof, statements, closed, wbuf, sent, server>>

RecvEof ==
    /\ Reads /\ inbox = <<>> /\ ~ open
    /\ End("IoError")
    /\ UNCHANGED <<calls, conn, wbuf, sent, inbox, server>>

\* A packet whose first byte is 0x00.
LooksOk(p) == p.kind \in {"OK", "PrepareOk", "Row"}

\* What the status of the packet says, and the number its first byte is.
More(p) == IF p.kind \in {"OK", "EOF"} THEN {p.more} ELSE BOOLEAN
Count(p) == IF p.kind = "ColumnCount" THEN {p.n} ELSE 0..1

Definitions_NoEof(n) == n

\* The packets after a count: the definitions, and an EOF before MySQL 5.7.  A
\* result set has at least one column; a statement may have no parameters and no
\* columns, and then there is no EOF.
Definitions(n) == IF n > 0 /\ ~ deprecate_eof THEN n + 1 ELSE n

\* The next packet is not an error.
Packet == Read /\ inbox[1].kind # "ERR"
-----------------------------------------------------------------------------
(* wait_until_ready. *)

SetFront(x) == <<x>> \o Tail(waiting)

EndsRows_OrOk(p) == p.kind = "EOF" \/ LooksOk(p)

\* The end of the rows: 0xfe in a short packet.
EndsRows(p) == p.kind = "EOF"

DrainRow ==
    /\ Draining /\ waiting[1] = "Row" /\ Packet
    /\ LET p == inbox[1] IN
          IF EndsRows(p)
          THEN \E more \in More(p) :
                  waiting' = IF more THEN SetFront("Result") ELSE PopFront(waiting)
          ELSE UNCHANGED waiting
    /\ UNCHANGED <<op, calls, result, deprecate_eof, statements, closed, wbuf, sent, server>>

DrainResult ==
    /\ Draining /\ waiting[1] = "Result" /\ Packet
    /\ LET p == inbox[1] IN
          IF LooksOk(p)
          THEN /\ \E more \in More(p) :
                     waiting' = IF more THEN waiting ELSE PopFront(waiting)
               /\ UNCHANGED op
          ELSE /\ waiting' = SetFront("Row")
               /\ \E n \in Count(p) :
                     op' = [op EXCEPT !.step = "skip", !.left = Definitions(n)]
    /\ UNCHANGED <<calls, result, deprecate_eof, statements, closed, wbuf, sent, server>>

\* skip_result_metadata.
Skip ==
    /\ At("skip") /\ op.left > 0 /\ Packet
    /\ op' = [op EXCEPT !.left = @ - 1]
    /\ UNCHANGED <<calls, result, conn, wbuf, sent, server>>

SkipEnd ==
    /\ At("skip") /\ op.left = 0
    /\ Goto("ready")
    /\ UNCHANGED <<calls, result, conn, wbuf, sent, inbox, server>>

Ready == At("ready") /\ waiting = <<>>
-----------------------------------------------------------------------------
(* ping, prepare_with and get_or_prepare. *)

Ping ==
    /\ Ready /\ op.kind = "ping"
    /\ Send("Ping", None, "ping_flush")
    /\ UNCHANGED <<calls, result, conn, sent, inbox, server>>

PingOk ==
    /\ At("ping_ok") /\ Packet
    /\ End(IF LooksOk(inbox[1]) \/ inbox[1].kind = "EOF" THEN "Ok" ELSE "Protocol")
    /\ UNCHANGED <<calls, conn, wbuf, sent, server>>

PrepareWith ==
    /\ Ready /\ op.kind \in {"exec", "prepare"} /\ ~ op.running
    /\ Goto("lookup")
    /\ UNCHANGED <<calls, result, conn, wbuf, sent, inbox, server>>

LookupHit ==
    /\ At("lookup") /\ contains_key(cache, op.sql)
    /\ cache' = get_mut(cache, op.sql)
    /\ op' = [op EXCEPT !.id = ids[op.sql], !.step = "prepared"]
    /\ UNCHANGED <<calls, result, deprecate_eof, waiting, ids, closed, wbuf, sent, inbox, server>>

LookupMiss ==
    /\ At("lookup") /\ ~ contains_key(cache, op.sql)
    /\ Send("Prepare", None, "prepare_flush")
    /\ UNCHANGED <<calls, result, conn, sent, inbox, server>>

PrepareOk ==
    /\ At("prepare_ok") /\ Packet
    /\ LET p == inbox[1] IN
          IF LooksOk(p)
          THEN /\ \E params \in (IF p.kind = "PrepareOk" THEN {p.n} ELSE 0..1),
                     cols \in (IF p.kind = "PrepareOk" THEN {p.cols} ELSE 0..1) :
                     op' = [op EXCEPT !.id = p.id, !.left = Definitions(params),
                                      !.cols = cols, !.step = "params"]
               /\ UNCHANGED result
          ELSE End("Protocol")
    /\ UNCHANGED <<calls, conn, wbuf, sent, server>>

\* A definition, or the EOF behind the last one, at this step.
ReadDefinition(step) ==
    /\ At(step) /\ op.left > 0 /\ Packet
    /\ \/ op' = [op EXCEPT !.left = @ - 1] /\ UNCHANGED result
       \/ inbox[1].kind \notin {"Definition", "EOF"} /\ End("Protocol")
    /\ UNCHANGED <<calls, conn, wbuf, sent, server>>

ReadParams == ReadDefinition("params")

ParamsEnd ==
    /\ At("params") /\ op.left = 0
    /\ op' = [op EXCEPT !.left = Definitions(op.cols), !.step = "columns"]
    /\ UNCHANGED <<calls, result, conn, wbuf, sent, inbox, server>>

ReadColumns == ReadDefinition("columns")

StmtClose_New(id) == op.id

StmtClose(id) == id

\* The statement is stored, as the cache is enabled: its capacity is not 0.  The
\* one that makes room is closed.
Store ==
    /\ At("columns") /\ op.left = 0 /\ op.persistent
    /\ cache' = insert(cache, op.sql)
    /\ ids' = [ids EXCEPT ![op.sql] = op.id]
    /\ LET out == {ids[q] : q \in Displaced(cache, op.sql)} IN
          IF out = {} THEN Goto("prepared") /\ UNCHANGED wbuf
          ELSE Send("StmtClose", StmtClose(CHOOSE id \in out : TRUE), "close_flush")
    /\ UNCHANGED <<calls, result, deprecate_eof, waiting, closed, sent, inbox, server>>

StoreNot ==
    /\ At("columns") /\ op.left = 0 /\ ~ op.persistent
    /\ Goto("prepared")
    /\ UNCHANGED <<calls, result, conn, wbuf, sent, inbox, server>>

\* get_or_prepare returns to prepare_with, which returns to the application or
\* to fetch_many, where encoding the arguments can fail ...
Prepared ==
    /\ At("prepared") /\ ~ op.running
    /\ \/ op.kind = "prepare" /\ End("Ok")
       \/ op.kind = "exec" /\ End("LocalError")
       \/ /\ op.kind = "exec" /\ UNCHANGED result
          /\ op' = [op EXCEPT !.running = TRUE, !.step = "ready"]
    /\ UNCHANGED <<calls, conn, wbuf, sent, inbox, server>>
-----------------------------------------------------------------------------
(* run. *)

\* The reply is announced before anything is sent.
Announce == Append(waiting, "Result")

RunQuery ==
    /\ Ready /\ op.kind = "query"
    /\ waiting' = Announce
    /\ Send("Query", None, "run_flush")
    /\ UNCHANGED <<calls, result, deprecate_eof, statements, closed, sent, inbox, server>>

RunPrepared ==
    /\ Ready /\ op.kind \in {"exec", "fetch"} /\ op.running
    /\ waiting' = Announce
    /\ Goto("lookup")
    /\ UNCHANGED <<calls, result, deprecate_eof, statements, closed, wbuf, sent, inbox, server>>

\* ... or to run, which executes the statement.
Execute ==
    /\ At("prepared") /\ op.running
    /\ Send("Execute", op.id, "run_flush")
    /\ UNCHANGED <<calls, result, conn, sent, inbox, server>>

\* The first packet of a result: OK, or the number of columns.
Result ==
    /\ At("result") /\ Packet
    /\ LET p == inbox[1] IN
          IF LooksOk(p)
          THEN \E more \in More(p) :
                  \/ more /\ UNCHANGED <<op, result, waiting>>
                  \/ ~ more /\ waiting' = PopFront(waiting) /\ End("Ok")
          ELSE /\ waiting' = SetFront("Row")
               /\ \E n \in Count(p) :
                     op' = [op EXCEPT !.left = Definitions(n), !.step = "metadata"]
               /\ UNCHANGED result
    /\ UNCHANGED <<calls, deprecate_eof, statements, closed, wbuf, sent, server>>

ReadMetadata == ReadDefinition("metadata")

MetadataEnd ==
    /\ At("metadata") /\ op.left = 0
    /\ Goto("rows")
    /\ UNCHANGED <<calls, result, conn, wbuf, sent, inbox, server>>

NextResult_KeepRow == waiting

\* More results follow.
NextResult == SetFront("Result")

Rows ==
    /\ At("rows") /\ Packet
    /\ LET p == inbox[1] IN
          IF EndsRows(p)
          THEN \E more \in More(p) :
                  \/ more /\ waiting' = NextResult /\ Goto("result") /\ UNCHANGED result
                  \/ ~ more /\ waiting' = PopFront(waiting) /\ End("Ok")
          ELSE \/ op.limit = 0 /\ UNCHANGED <<op, result, waiting>>
               \/ op.limit = 1 /\ End("Row") /\ UNCHANGED waiting
    /\ UNCHANGED <<calls, deprecate_eof, statements, closed, wbuf, sent, server>>

\* close(): Quit, without waiting for anything, then shutdown.
Close ==
    /\ At("idle") /\ ~ closed
    /\ closed' = TRUE
    /\ sent' = IF open THEN Append(sent, Command("Quit", None)) ELSE sent
    /\ UNCHANGED <<op, calls, result, deprecate_eof, waiting, statements, wbuf, inbox, server>>
-----------------------------------------------------------------------------
(* The server. *)

Pkt(kind, n, more) ==
    [kind |-> kind, n |-> n, cols |-> 0, id |-> None, more |-> more, call |-> 0]

Many(kind, n) == [i \in 1..n |-> Pkt(kind, 0, FALSE)]

Defs(n) == Many("Definition", n)
           \o IF n > 0 /\ ~ deprecate_eof THEN <<Pkt("EOF", 0, FALSE)>> ELSE <<>>

OneResult(more) ==
    {<<Pkt("OK", 0, more)>>}
    \cup {<<Pkt("ColumnCount", 1, FALSE)>> \o Defs(1) \o Many("Row", n)
          \o <<Pkt("EOF", 0, more)>> : n \in 0..MaxRows}

FailedResult ==
    {<<Pkt("ERR", 0, FALSE)>>}
    \cup {<<Pkt("ColumnCount", 1, FALSE)>> \o Defs(1) \o Many("Row", n)
          \o <<Pkt("ERR", 0, FALSE)>> : n \in 0..MaxRows}

LastResult == OneResult(FALSE) \cup FailedResult

\* One result, or several of which all but the last say that more exist.
Results ==
    LastResult \cup IF MaxResults > 1 THEN {r[1] \o r[2] : r \in OneResult(TRUE) \X LastResult} ELSE {}

Reply(m, packets) ==
    inbox' = inbox \o [i \in DOMAIN packets |-> [packets[i] EXCEPT !.call = m.call]]

ServePrepare(m) ==
    \/ Reply(m, <<Pkt("ERR", 0, FALSE)>>) /\ UNCHANGED <<stmts, next_id>>
    \/ \E params, cols \in 0..1 :
          /\ Reply(m, <<[Pkt("PrepareOk", params, FALSE) EXCEPT !.id = next_id,
                            !.cols = cols]>> \o Defs(params) \o Defs(cols))
          /\ stmts' = [id \in DOMAIN stmts \cup {next_id} |->
                          IF id = next_id THEN m.sql ELSE stmts[id]]
          /\ next_id' = next_id + 1

ServeExecute(m) ==
    /\ \/ m.id \in DOMAIN stmts /\ \E r \in Results : Reply(m, r)
       \/ m.id \notin DOMAIN stmts /\ Reply(m, <<Pkt("ERR", 0, FALSE)>>)
    /\ UNCHANGED <<stmts, next_id>>

ServeQuery(m) == (\E r \in Results : Reply(m, r)) /\ UNCHANGED <<stmts, next_id>>

ServePing(m) == Reply(m, <<Pkt("OK", 0, FALSE)>>) /\ UNCHANGED <<stmts, next_id>>

ServeClose(m) ==
    /\ stmts' = RestrictDomain(stmts, LAMBDA id : id # m.id)
    /\ UNCHANGED <<inbox, next_id>>

Serve ==
    /\ open /\ sent # <<>>
    /\ sent' = Tail(sent)
    /\ LET m == Head(sent) IN
          \/ m.kind = "Prepare" /\ ServePrepare(m)
          \/ m.kind = "Execute" /\ ServeExecute(m)
          \/ m.kind = "Query" /\ ServeQuery(m)
          \/ m.kind = "Ping" /\ ServePing(m)
          \/ m.kind = "StmtClose" /\ ServeClose(m)
    /\ UNCHANGED <<op, calls, result, conn, wbuf, open>>

ServeQuit ==
    /\ open /\ sent # <<>> /\ Head(sent).kind = "Quit"
    /\ open' = FALSE /\ sent' = <<>>
    /\ UNCHANGED <<op, calls, result, conn, wbuf, inbox, stmts, next_id>>

Crash ==
    /\ open /\ open' = FALSE /\ sent' = <<>>
    /\ \E n \in 0..Len(inbox) : inbox' = SubSeq(inbox, 1, n)
    /\ UNCHANGED <<op, calls, result, conn, wbuf, stmts, next_id>>
-----------------------------------------------------------------------------
ClientPoll ==
    \/ Flush \/ FlushError \/ RecvErr \/ RecvEof
    \/ DrainRow \/ DrainResult \/ Skip \/ SkipEnd
    \/ Ping \/ PingOk \/ PrepareWith \/ LookupHit \/ LookupMiss \/ PrepareOk
    \/ ReadParams \/ ParamsEnd \/ ReadColumns \/ Store \/ StoreNot \/ Prepared
    \/ RunQuery \/ RunPrepared \/ Execute \/ Result \/ ReadMetadata
    \/ MetadataEnd \/ Rows

ServerStep == Serve \/ ServeQuit

Choice ==
    \/ StartQuery \/ StartExec \/ StartPrepare \/ StartFetch \/ StartPing
    \/ Drop \/ Close \/ Crash

Next == ClientPoll \/ ServerStep \/ Choice

Spec == Init /\ [][Next]_vars

\* The executor polls a woken future and the server serves what it receives.
FairSpec == Spec /\ WF_vars(ClientPoll) /\ WF_vars(ServerStep)
-----------------------------------------------------------------------------
(* Properties. *)

Step == {"idle", "ready", "skip", "lookup", "prepare_flush", "prepare_ok",
         "params", "columns", "close_flush", "prepared", "run_flush", "result",
         "metadata", "rows", "ping_flush", "ping_ok"}

\* Every variable has its type; in particular at most one reply is announced,
\* and the cache stays within its capacity.
TypeOK ==
    /\ op.step \in Step /\ op.left \in 0..2 /\ op.sql \in Sql \cup {None}
    /\ calls \in 0..MaxCalls
    /\ result \in {"none", "Ok", "Row", "DbError", "OtherError", "Protocol",
                   "LocalError", "IoError"}
    /\ waiting \in {<<>>, <<"Result">>, <<"Row">>}
    /\ cache \in Seq(Sql) /\ Len(cache) <= Capacity
    /\ ids \in [Sql -> 0..next_id - 1] /\ next_id \in Nat
    /\ DOMAIN stmts \subseteq 1..next_id - 1
    /\ deprecate_eof \in BOOLEAN /\ closed \in BOOLEAN /\ open \in BOOLEAN

\* The awaits at which `waiting` says what is left to read: also among the
\* definitions, if no EOF ends them.
Recoverable == ({"ready", "result", "rows"} \X BOOLEAN)
               \cup ({"skip", "metadata"} \X {TRUE})

Outstanding ==
    inbox # <<>> \/ \E i \in DOMAIN sent : sent[i].kind \notin {"StmtClose", "Quit"}

\* Between operations `waiting` says exactly whether replies are under way,
\* whatever failed or was dropped before: the connection neither takes a reply
\* of an earlier operation for its own nor waits for one that never comes.
\* Inside run, waiting.front_mut().unwrap() finds the entry of the reply that
\* is read.
WaitingExact ==
    /\ At("idle") /\ open /\ ~ closed => (waiting # <<>> <=> Outstanding)
    /\ op.step \in {"result", "metadata", "rows"} =>
          waiting # <<>> /\ (At("rows") => waiting[1] = "Row")

\* An operation that reads a packet outside wait_until_ready reads one of its
\* own replies: "query response is a meta-packet which may be one of Ok, Err,
\* ResultSet", never the rest of an earlier reply.
OwnReplies ==
    Reads /\ ~ Draining /\ ~ At("skip") =>
        \A i \in DOMAIN inbox : inbox[i].call = calls

Known(id, q) == id \in DOMAIN stmts /\ stmts[id] = q

\* The cache is in step with the server, and an Execute names a statement the
\* server holds, whichever statements were evicted or left behind.
StatementsKnown ==
    /\ \A i \in DOMAIN cache : Known(ids[cache[i]], cache[i])
    /\ \A i \in DOMAIN sent : sent[i].kind = "Execute" => Known(sent[i].id, sent[i].sql)

\* Every operation ends, also when earlier ones failed or were dropped while
\* they were "waiting for a result set" or "for a row within a result set".
Resolves == ~ At("idle") ~> At("idle")
=============================================================================
