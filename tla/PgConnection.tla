---------------------------- MODULE PgConnection ----------------------------
(***************************************************************************)
(* A PostgreSQL connection (src/rbdc-pg/src/connection): how PgConnection   *)
(* pipelines its messages, matches the server's replies to its operations,  *)
(* counts the ReadyForQuery messages it still expects and keeps its         *)
(* statement cache in step with the statements the server holds.            *)
(*                                                                         *)
(* Every method takes &mut self, so one operation runs at a time; its       *)
(* future can be dropped at any await, which leaves its messages with the   *)
(* server and its replies unread; one that is dropped while it flushes has  *)
(* written a part of its messages, or all, and the rest is cleared.  An     *)
(* operation is a frame, and fetching the type of a parameter or column     *)
(* while preparing pushes another one.                                      *)
(*                                                                         *)
(* The server is external: it serves the messages in order and, after an    *)
(* error, skips to the next Sync.  Notices and parameter statuses, which    *)
(* PgStream::recv consumes, and the transaction status, which nothing       *)
(* reads, are left out, and so is what no method of the crate comes to:     *)
(* queue_simple_query, clear_cached_statements, the holes of apply_patches, *)
(* and fetching a parameter type by name, as no value has a type that       *)
(* PgTypeInfo::with_name declares.                                          *)
(***************************************************************************)
EXTENDS StatementCacheOps, FiniteSets, Functions, TLC

CONSTANTS
    Sql,          \* SQL strings of operations with parameters
    TypeSql,      \* SQL strings that fetch types; their own types are built in
    IdSpace,      \* number of statement identifiers: 2^32 in the code
    MaxCalls,     \* bound on the operations, nested ones included
    MaxRows,      \* bound on the rows of a result
    MaxNotes,     \* bound on the notifications of the server
    Cancels,      \* BOOLEAN: futures may be dropped
    CopyIn,       \* BOOLEAN: the SQL may be COPY ... FROM STDIN
    Crashes       \* BOOLEAN: the server may go away

ASSUME PgAssumption ==
    /\ Sql \cap TypeSql = {}
    /\ IdSpace \in Nat \ {0}
    /\ MaxCalls \in Nat /\ MaxRows \in Nat /\ MaxNotes \in Nat
    /\ {Cancels, CopyIn, Crashes} \subseteq BOOLEAN

VARIABLES
    frames,    \* the operation under way, the innermost call first
    calls,     \* number of calls made so far; names a call
    first,     \* the outermost call of the operation
    result,    \* how the last operation ended
    pending_ready_for_query_count,
    cache,     \* cache_statement: its keys
    ids,       \* cache_statement: the statement of each key
    next_statement_id,
    closed,    \* close() has been called
    wbuf,      \* written, not yet flushed
    sent,      \* flushed, not yet served
    inbox,     \* sent by the server, not yet read
    stmts,     \* the server's statements: a function from identifiers to SQL
    skipping,  \* the server skips to the next Sync
    copying,   \* the server waits for COPY data
    open,      \* the server is there
    notes,     \* notifications sent
    torn       \* history: a dropped flush has kept a Sync from the server

statements == <<cache, ids, next_statement_id>>
conn == <<pending_ready_for_query_count, statements, closed>>
server == <<stmts, skipping, copying, open, notes, torn>>
vars == <<frames, calls, first, result, conn, wbuf, sent, inbox, server>>

Key == Sql \cup TypeSql
Id == 0..IdSpace - 1
None == 0

Init ==
    /\ frames = <<>> /\ calls = 0 /\ first = 1 /\ result = "none"
    /\ pending_ready_for_query_count = 0
    /\ cache = <<>> /\ ids = [q \in Key |-> None]
    /\ next_statement_id = 1 % IdSpace
    /\ closed = FALSE
    /\ wbuf = <<>> /\ sent = <<>> /\ inbox = <<>>
    /\ stmts = <<>> /\ skipping = FALSE /\ copying = FALSE /\ open = TRUE
    /\ notes = 0 /\ torn = FALSE
-----------------------------------------------------------------------------
(* Calls. *)

\* kind: "simple" is an operation without parameters (ping, begin, ...);
\* "exec" prepares its statement and runs it; "prepare" is prepare_with;
\* "fetch" is fetch_many or fetch_optional with arguments.  md: the metadata
\* of the statement is known.  limit: 1 for fetch_optional.
Frame(kind, q, md, persistent, limit) ==
    [kind |-> kind, sql |-> q, md |-> md, persistent |-> persistent,
     limit |-> limit, id |-> None, call |-> calls + 1,
     step |-> CASE kind = "simple" -> "run_ready"
                [] kind = "fetch"  -> "arguments"
                [] OTHER           -> "ready"]

Top == frames[1]
At(step) == frames # <<>> /\ Top.step = step
Goto(step) == frames' = [frames EXCEPT ![1].step = step]

\* A call returns Ok: to its caller, which goes on, or to the application.
Return(r) ==
    /\ frames' = Tail(frames)
    /\ result' = IF Len(frames) = 1 THEN r ELSE result

\* `?`: every caller fails too.
Fail(r) == frames' = <<>> /\ result' = r

\* The application calls a method.
Start(f) ==
    /\ frames = <<>>
    /\ calls < MaxCalls
    /\ frames' = <<f>> /\ calls' = calls + 1 /\ first' = calls + 1
    /\ result' = "none"
    /\ UNCHANGED <<conn, wbuf, sent, inbox, server>>

StartSimple == \E l \in {0, 1} : Start(Frame("simple", None, FALSE, FALSE, l))
StartExec == \E q \in Sql : Start(Frame("exec", q, FALSE, TRUE, 0))
StartPrepare == \E q \in Sql : Start(Frame("prepare", q, FALSE, TRUE, 0))
StartFetch ==
    \E q \in Sql, md \in BOOLEAN, persistent \in BOOLEAN, l \in {0, 1} :
        Start(Frame("fetch", q, md, persistent, l))
-----------------------------------------------------------------------------
(* Sending and receiving. *)

Message(kind) == [kind |-> kind, id |-> Top.id, sql |-> Top.sql,
                  limit |-> Top.limit, call |-> Top.call]

IsSync(m) == m.kind \in {"Sync", "Query"}

write_sync_Uncounted == pending_ready_for_query_count

\* write_sync, and the same for a Query.
write_sync == pending_ready_for_query_count + 1

\* Write the messages and begin to flush them.
Write(kinds, step) ==
    /\ wbuf' = [i \in DOMAIN kinds |-> Message(kinds[i])]
    /\ pending_ready_for_query_count' = write_sync
    /\ Goto(step)

AfterFlush(step) ==
    CASE step = "parse_flush" -> "parse_complete"
      [] step = "close_flush" -> "close_complete"
      [] step = "run_flush"   -> "stream"

Flushing == frames # <<>> /\ Top.step \in {"parse_flush", "close_flush", "run_flush"}

\* WriteAndFlush runs to its end.  The peer may be gone all the same.
Flush ==
    /\ Flushing /\ ~ closed
    /\ sent' = IF open THEN sent \o wbuf ELSE sent
    /\ wbuf' = <<>>
    /\ Goto(AfterFlush(Top.step))
    /\ UNCHANGED <<calls, first, result, conn, inbox, server>>

\* The socket reports an error; dropping the future clears the buffer.
FlushError ==
    /\ Flushing /\ (~ open \/ closed)
    /\ wbuf' = <<>>
    /\ Fail("IoError")
    /\ UNCHANGED <<calls, first, conn, sent, inbox, server>>

\* The future of the operation is dropped.  One that is flushing has written
\* the first n messages and clears the rest; whether the next one is cut in
\* two makes no difference, as only a Terminate is ever written after that.
Cancel ==
    /\ Cancels /\ frames # <<>>
    /\ Fail("none")
    /\ wbuf' = <<>>
    /\ \E n \in 0..Len(wbuf) :
          /\ sent' = IF open THEN sent \o SubSeq(wbuf, 1, n) ELSE sent
          /\ torn' = (torn \/ n < Len(wbuf))
    /\ UNCHANGED <<calls, first, conn, inbox, stmts, skipping, copying, open, notes>>

OwnError(m) == IF m.call >= first THEN "DbError" ELSE "OtherError"

\* The next message, and what is left.
Read == inbox # <<>> /\ inbox' = Tail(inbox)

ReadsReply ==
    frames # <<>> /\ Top.step \in {"parse_complete", "param_desc", "row_desc",
        "parse_rfq", "close_complete", "close_rfq", "stream"}

\* wait_until_ready is called here.
Waits == frames # <<>> /\ Top.step \in {"ready", "parse_ready", "types_ready",
                                        "run_ready", "bind_ready"}

Draining_Never == FALSE
Draining_OffByOne == pending_ready_for_query_count >= 0

Draining == pending_ready_for_query_count > 0

\* PgStream::recv returns the error of the server, wherever it is called.
RecvError ==
    /\ ReadsReply \/ (Waits /\ Draining)
    /\ Read /\ inbox[1].kind = "ErrorResponse"
    /\ Fail(OwnError(inbox[1]))
    /\ UNCHANGED <<calls, first, conn, wbuf, sent, server>>

\* BufStream::read finds the end of the stream.
RecvEof ==
    /\ ReadsReply \/ (Waits /\ Draining)
    /\ inbox = <<>> /\ ~ open
    /\ Fail("IoError")
    /\ UNCHANGED <<calls, first, conn, wbuf, sent, inbox, server>>

handle_ready_for_query(m) ==
    IF m.kind = "ReadyForQuery" THEN pending_ready_for_query_count - 1
    ELSE pending_ready_for_query_count

\* wait_until_ready reads what earlier messages brought about.
Drain ==
    /\ Waits /\ Draining
    /\ Read /\ inbox[1].kind # "ErrorResponse"
    /\ pending_ready_for_query_count' = handle_ready_for_query(inbox[1])
    /\ UNCHANGED <<frames, calls, first, result, statements, closed, wbuf, sent,
                   server>>

\* wait_until_ready returns.  Its flush has nothing to do: what is written is
\* flushed at once, and a flush that is dropped clears the buffer.
Ready(step) == At(step) /\ ~ Draining
-----------------------------------------------------------------------------
(* prepare_with and get_or_prepare. *)

PrepareWith ==
    /\ Ready("ready")
    /\ Goto("lookup")
    /\ UNCHANGED <<calls, first, result, conn, wbuf, sent, inbox, server>>

\* get_or_prepare is done: prepare_with returns to fetch_many, which reuses
\* the statement's metadata, or to the application; run goes on.
Prepared(f) ==
    CASE f.kind = "exec" /\ ~ f.md -> [f EXCEPT !.step = "arguments", !.md = TRUE]
      [] f.kind = "prepare"        -> [f EXCEPT !.step = "return"]
      [] OTHER                     -> [f EXCEPT !.step = "bind_ready"]

LookupHit ==
    /\ At("lookup") /\ contains_key(cache, Top.sql)
    /\ cache' = get_mut(cache, Top.sql)
    /\ frames' = [frames EXCEPT ![1] = Prepared([@ EXCEPT !.id = ids[Top.sql]])]
    /\ UNCHANGED <<calls, first, result, pending_ready_for_query_count, ids,
                   next_statement_id, closed, wbuf, sent, inbox, server>>

incr_one(id) == (id + 1) % IdSpace

LookupMiss ==
    /\ At("lookup") /\ ~ contains_key(cache, Top.sql)
    /\ frames' = [frames EXCEPT ![1].id = next_statement_id,
                                ![1].step = "parse_ready"]
    /\ next_statement_id' = incr_one(next_statement_id)
    /\ UNCHANGED <<calls, first, result, pending_ready_for_query_count, cache,
                   ids, closed, wbuf, sent, inbox, server>>

Parse ==
    /\ Ready("parse_ready")
    /\ Write(IF Top.md THEN <<"Parse", "Sync">> ELSE <<"Parse", "Describe", "Sync">>,
             "parse_flush")
    /\ UNCHANGED <<calls, first, result, statements, closed, sent, inbox, server>>

\* What recv_expect, recv_desc_rows and wait_for_close_complete wait for.
Expected(step) ==
    CASE step = "parse_complete" -> {"ParseComplete"}
      [] step = "param_desc"     -> {"ParameterDescription"}
      [] step = "row_desc"       -> {"RowDescription", "NoData"}
      [] step = "close_complete" -> {"PortalSuspended", "CloseComplete"}
      [] OTHER                   -> {"ReadyForQuery"}

AfterReply(f, kind) ==
    CASE f.step = "parse_complete" ->
            [f EXCEPT !.step = IF f.md THEN "parse_rfq" ELSE "param_desc"]
      [] f.step = "param_desc"     -> [f EXCEPT !.step = "row_desc"]
      [] f.step = "row_desc"       -> [f EXCEPT !.step = "parse_rfq"]
      [] f.step = "parse_rfq"      -> [f EXCEPT !.step = IF f.md THEN "store"
                                                         ELSE "types"]
      [] f.step = "close_complete" -> [f EXCEPT !.step =
            IF kind = "CloseComplete" THEN "close_rfq" ELSE "close_complete"]
      [] f.step = "close_rfq"      -> Prepared(f)

\* The reply that is expected, or "expecting {:?} but received {:?}".
Expect ==
    /\ ReadsReply /\ Top.step # "stream"
    /\ Read /\ inbox[1].kind # "ErrorResponse"
    /\ IF inbox[1].kind \in Expected(Top.step)
       THEN /\ frames' = [frames EXCEPT ![1] = AfterReply(@, inbox[1].kind)]
            /\ pending_ready_for_query_count' = handle_ready_for_query(inbox[1])
            /\ UNCHANGED result
       ELSE /\ Fail("Protocol")
            /\ UNCHANGED pending_ready_for_query_count
    /\ UNCHANGED <<calls, first, statements, closed, wbuf, sent, server>>

\* handle_parameter_description and handle_row_description ask the server for
\* a type that is neither built in nor cached ...
FetchType ==
    /\ At("types") /\ Top.sql \in Sql
    /\ calls < MaxCalls
    /\ \E q \in TypeSql :
          frames' = <<Frame("exec", q, FALSE, TRUE, 0)>> \o frames
    /\ calls' = calls + 1
    /\ UNCHANGED <<first, result, conn, wbuf, sent, inbox, server>>

\* ... until all are known, or a row of the catalogue cannot be decoded.
TypesKnown ==
    /\ At("types")
    /\ \/ Goto("types_ready") /\ UNCHANGED result
       \/ Top.sql \in Sql /\ Fail("LocalError")
    /\ UNCHANGED <<calls, first, conn, wbuf, sent, inbox, server>>

Described ==
    /\ Ready("types_ready")
    /\ Goto("store")
    /\ UNCHANGED <<calls, first, result, conn, wbuf, sent, inbox, server>>

ToClose_Own(id) == Message("Close")

ToClose(id) == [Message("Close") EXCEPT !.id = id]

\* The statement that made room is closed on the server.
CloseStatement(id) ==
    /\ wbuf' = <<ToClose(id), Message("Sync")>>
    /\ pending_ready_for_query_count' = write_sync
    /\ Goto("close_flush")

Store ==
    /\ At("store") /\ Top.persistent
    /\ cache' = insert(cache, Top.sql)
    /\ ids' = [ids EXCEPT ![Top.sql] = Top.id]
    /\ LET out == {ids[q] : q \in Displaced(cache, Top.sql)} IN
          IF out = {}
          THEN /\ frames' = [frames EXCEPT ![1] = Prepared(@)]
               /\ UNCHANGED <<wbuf, pending_ready_for_query_count>>
          ELSE CloseStatement(CHOOSE id \in out : TRUE)
    /\ UNCHANGED <<calls, first, result, next_statement_id, closed, sent, inbox,
                   server>>

StoreNot ==
    /\ At("store") /\ ~ Top.persistent
    /\ frames' = [frames EXCEPT ![1] = Prepared(@)]
    /\ UNCHANGED <<calls, first, result, conn, wbuf, sent, inbox, server>>

PrepareReturn ==
    /\ At("return")
    /\ Return("Ok")
    /\ UNCHANGED <<calls, first, conn, wbuf, sent, inbox, server>>
-----------------------------------------------------------------------------
(* fetch_many, fetch_optional and run. *)

\* The parameters are encoded before anything is sent.
TakeArguments ==
    /\ At("arguments")
    /\ \/ Goto("run_ready") /\ UNCHANGED result
       \/ Fail("LocalError")
    /\ UNCHANGED <<calls, first, conn, wbuf, sent, inbox, server>>

RunPrepared ==
    /\ Ready("run_ready") /\ Top.kind # "simple"
    /\ Goto("lookup")
    /\ UNCHANGED <<calls, first, result, conn, wbuf, sent, inbox, server>>

RunSimple ==
    /\ Ready("run_ready") /\ Top.kind = "simple"
    /\ Write(<<"Query">>, "run_flush")
    /\ UNCHANGED <<calls, first, result, statements, closed, sent, inbox, server>>

Bind ==
    /\ Ready("bind_ready")
    /\ Write(<<"Bind", "Execute", "Sync">>, "run_flush")
    /\ UNCHANGED <<calls, first, result, statements, closed, sent, inbox, server>>

StreamMessages ==
    {"BindComplete", "ParseComplete", "ParameterDescription", "NoData",
     "CommandComplete", "EmptyQueryResponse", "RowDescription", "DataRow"}

StreamEnds_AtCommand(m) == m.kind \in {"ReadyForQuery", "CommandComplete"}

\* The loop of run breaks.
StreamEnds(m) == m.kind = "ReadyForQuery"

\* run's stream: the operation ends at ReadyForQuery, with fetch_optional at
\* the first row, or with "execute: unexpected message".
Stream ==
    /\ At("stream")
    /\ Read /\ inbox[1].kind # "ErrorResponse"
    /\ LET m == inbox[1] IN
          /\ pending_ready_for_query_count' = handle_ready_for_query(m)
          /\ \/ StreamEnds(m) /\ Return("Ok")
             \/ m.kind = "DataRow" /\ Top.limit = 1 /\ Return("Row")
             \/ /\ ~ StreamEnds(m) /\ m.kind \in StreamMessages
                /\ m.kind = "DataRow" => Top.limit = 0
                /\ UNCHANGED <<frames, result>>
             \/ /\ ~ StreamEnds(m) /\ m.kind \notin StreamMessages
                /\ Fail("Protocol")
    /\ UNCHANGED <<calls, first, statements, closed, wbuf, sent, server>>

\* close(): Terminate, without waiting for anything, then shutdown.
Close ==
    /\ frames = <<>> /\ ~ closed
    /\ closed' = TRUE
    /\ sent' = IF open THEN Append(sent, [kind |-> "Terminate", id |-> None,
                     sql |-> None, limit |-> 0, call |-> calls]) ELSE sent
    /\ UNCHANGED <<frames, calls, first, result, pending_ready_for_query_count,
                   statements, wbuf, inbox, server>>
-----------------------------------------------------------------------------
(* The server. *)

Replies(m, kinds) == [i \in DOMAIN kinds |-> [kind |-> kinds[i], call |-> m.call]]

Rows(n) == [i \in 1..n |-> "DataRow"]

\* What a Query may be answered with: rows, a command, nothing, an error,
\* a COPY ... TO STDOUT.
QueryReplies ==
    {<<"RowDescription">> \o Rows(n) \o <<"CommandComplete">> : n \in 0..MaxRows}
    \cup {<<"CommandComplete">>, <<"EmptyQueryResponse">>, <<"ErrorResponse">>,
          <<"CommandComplete", "ErrorResponse">>,
          <<"CopyOutResponse", "CopyData", "CopyDone", "CommandComplete">>}

ExecuteReplies(limit) ==
    {Rows(n) \o <<"CommandComplete">> : n \in 0..MaxRows}
    \cup {Rows(n) \o <<"ErrorResponse">> : n \in 0..MaxRows}
    \cup IF limit = 1 THEN {<<"DataRow", "PortalSuspended">>} ELSE {}

\* A message that is served with these replies; after an error the server
\* skips to the next Sync.
Answer(m, kinds) ==
    /\ inbox' = inbox \o Replies(m, kinds)
    /\ skipping' = (m.kind \notin {"Sync", "Query"}
                    /\ \E i \in DOMAIN kinds : kinds[i] = "ErrorResponse")

Refuse(m) == Answer(m, <<"ErrorResponse">>) /\ UNCHANGED stmts

ServeParse(m) ==
    \/ /\ m.id \notin DOMAIN stmts
       /\ stmts' = [id \in DOMAIN stmts \cup {m.id} |->
                       IF id = m.id THEN m.sql ELSE stmts[id]]
       /\ Answer(m, <<"ParseComplete">>)
    \/ Refuse(m)

ServeDescribe(m) ==
    /\ \E row \in {"RowDescription", "NoData"} :
          Answer(m, <<"ParameterDescription", row>>)
    /\ UNCHANGED stmts

ServeBind(m) ==
    \/ m.id \in DOMAIN stmts /\ Answer(m, <<"BindComplete">>) /\ UNCHANGED stmts
    \/ Refuse(m)

ServeExecute(m) ==
    /\ \E kinds \in ExecuteReplies(m.limit) : Answer(m, kinds)
    /\ UNCHANGED stmts

ServeClose(m) ==
    /\ stmts' = RestrictDomain(stmts, LAMBDA id : id # m.id)
    /\ Answer(m, <<"CloseComplete">>)

ServeSync(m) == Answer(m, <<"ReadyForQuery">>) /\ UNCHANGED stmts

ServeQuery(m) ==
    /\ \E kinds \in QueryReplies : Answer(m, kinds \o <<"ReadyForQuery">>)
    /\ UNCHANGED stmts

Serve ==
    /\ open /\ ~ copying /\ sent # <<>>
    /\ sent' = Tail(sent)
    /\ LET m == Head(sent) IN
          \/ /\ skipping /\ ~ IsSync(m) /\ m.kind # "Terminate"
             /\ UNCHANGED <<inbox, skipping, stmts>>
          \/ /\ ~ skipping \/ IsSync(m)
             /\ \/ m.kind = "Parse" /\ ServeParse(m)
                \/ m.kind = "Describe" /\ ServeDescribe(m)
                \/ m.kind = "Bind" /\ ServeBind(m)
                \/ m.kind = "Execute" /\ ServeExecute(m)
                \/ m.kind = "Close" /\ ServeClose(m)
                \/ m.kind = "Sync" /\ ServeSync(m)
                \/ m.kind = "Query" /\ ServeQuery(m)
    /\ UNCHANGED <<frames, calls, first, result, conn, wbuf, copying, open, notes, torn>>

\* COPY ... FROM STDIN: the server asks for data.
ServeCopyIn ==
    /\ CopyIn /\ open /\ ~ copying /\ sent # <<>> /\ Head(sent).kind = "Query"
    /\ sent' = Tail(sent)
    /\ inbox' = inbox \o Replies(Head(sent), <<"CopyInResponse">>)
    /\ copying' = TRUE
    /\ UNCHANGED <<frames, calls, first, result, conn, wbuf, stmts, skipping,
                   open, notes, torn>>

ServeTerminate ==
    /\ open /\ sent # <<>> /\ Head(sent).kind = "Terminate"
    /\ open' = FALSE /\ sent' = <<>>
    /\ UNCHANGED <<frames, calls, first, result, conn, wbuf, inbox, stmts,
                   skipping, copying, notes, torn>>

\* A notification the application has asked for with LISTEN.
Notify ==
    /\ open /\ notes < MaxNotes
    /\ inbox' = Append(inbox, [kind |-> "NotificationResponse", call |-> None])
    /\ notes' = notes + 1
    /\ UNCHANGED <<frames, calls, first, result, conn, wbuf, sent, stmts,
                   skipping, copying, open, torn>>

Crash ==
    /\ Crashes /\ open
    /\ open' = FALSE /\ sent' = <<>>
    /\ \E n \in 0..Len(inbox) : inbox' = SubSeq(inbox, 1, n)
    /\ UNCHANGED <<frames, calls, first, result, conn, wbuf, stmts, skipping,
                   copying, notes, torn>>
-----------------------------------------------------------------------------
ClientPoll ==
    \/ Flush \/ FlushError \/ RecvError \/ RecvEof \/ Drain
    \/ PrepareWith \/ LookupHit \/ LookupMiss \/ Parse \/ Expect
    \/ FetchType \/ TypesKnown \/ Described \/ Store \/ StoreNot \/ PrepareReturn
    \/ TakeArguments \/ RunPrepared \/ RunSimple \/ Bind \/ Stream

ServerStep == Serve \/ ServeCopyIn \/ ServeTerminate

Choice ==
    \/ StartSimple \/ StartExec \/ StartPrepare \/ StartFetch \/ Cancel \/ Close
    \/ Notify \/ Crash

Next == ClientPoll \/ ServerStep \/ Choice

Spec == Init /\ [][Next]_vars

\* The executor polls a woken future and the server serves what it receives.
FairSpec == Spec /\ WF_vars(ClientPoll) /\ WF_vars(ServerStep)
-----------------------------------------------------------------------------
(* Properties. *)

Step == {"ready", "lookup", "parse_ready", "parse_flush", "parse_complete",
         "param_desc", "row_desc", "parse_rfq", "types", "types_ready", "store",
         "close_flush", "close_complete", "close_rfq", "return", "arguments",
         "run_ready", "bind_ready", "run_flush", "stream"}

\* Every variable has its type; in particular the count, a usize, is never
\* decremented below zero, and type fetches nest only once.
TypeOK ==
    /\ Len(frames) <= 2
    /\ \A i \in DOMAIN frames :
          /\ frames[i].kind \in {"simple", "exec", "prepare", "fetch"}
          /\ frames[i].sql \in Key \cup {None} /\ frames[i].step \in Step
          /\ frames[i].id \in Id /\ frames[i].call \in 1..MaxCalls
    /\ calls \in 0..MaxCalls /\ first \in 1..MaxCalls + 1
    /\ result \in {"none", "Ok", "Row", "DbError", "OtherError", "Protocol",
                  "LocalError", "IoError"}
    /\ pending_ready_for_query_count \in Nat
    /\ cache \in Seq(Key) /\ Len(cache) <= Capacity
    /\ ids \in [Key -> Id] /\ next_statement_id \in Id
    /\ closed \in BOOLEAN /\ skipping \in BOOLEAN /\ copying \in BOOLEAN
    /\ open \in BOOLEAN /\ notes \in 0..MaxNotes /\ torn \in BOOLEAN
    /\ DOMAIN stmts \subseteq Id /\ \A id \in DOMAIN stmts : stmts[id] \in Key

CountIf(s, Test(_)) == Cardinality({i \in DOMAIN s : Test(s[i])})

\* "number of ReadyForQuery messages that we are currently expecting": the
\* count is exactly the Sync and Query messages under way plus the
\* ReadyForQuery messages unread, whichever operations failed half way or
\* were dropped, at any await; once a flush was dropped before it had written
\* its Sync, which write_sync has counted, it is one more than that for good.
ReadyAccounting ==
    open /\ ~ closed =>
        pending_ready_for_query_count =
            CountIf(wbuf, IsSync) + CountIf(sent, IsSync)
            + CountIf(inbox, LAMBDA m : m.kind = "ReadyForQuery")
            + (IF copying THEN 1 ELSE 0) + (IF torn THEN 1 ELSE 0)

\* An operation that reads a reply outside wait_until_ready reads a reply to
\* a message of its own, whatever earlier operations left unread.
OwnReplies ==
    ReadsReply =>
        \A i \in DOMAIN inbox :
            inbox[i].kind = "NotificationResponse" \/ inbox[i].call = Top.call

Known(id, q) == id \in DOMAIN stmts /\ stmts[id] = q

\* The cache is in step with the server: every cached identifier is a
\* statement of the server with that SQL, and so is the statement a Bind under
\* way names, also after identifiers have wrapped around, statements were
\* evicted or left behind, and the Close of one was abandoned.
StatementsKnown ==
    /\ \A i \in DOMAIN cache : Known(ids[cache[i]], cache[i])
    /\ \A i \in DOMAIN wbuf : wbuf[i].kind = "Bind" => Known(wbuf[i].id, wbuf[i].sql)
    /\ \A i \in DOMAIN sent : sent[i].kind = "Bind" => Known(sent[i].id, sent[i].sql)

\* An operation that was read to its end leaves nothing behind: the next one
\* need not wait for anything.
OkMeansReady ==
    frames = <<>> /\ result = "Ok" =>
        /\ pending_ready_for_query_count = 0 /\ wbuf = <<>>
        /\ \A i \in DOMAIN sent : sent[i].kind = "Terminate"
        /\ \A i \in DOMAIN inbox : inbox[i].kind = "NotificationResponse"

\* Every operation ends, also when earlier ones failed or were dropped at any
\* await, with two exceptions: the server has come to wait for the data of a
\* COPY ... FROM STDIN, which wait_until_ready and the result stream read
\* past, or a flush was dropped before it had written its Sync.
Resolves == frames # <<>> ~> (frames = <<>> \/ copying \/ torn)

\* WriteAndFlush is an "Atomic operation that writes the full buffer", and
\* wait_until_ready "will return when the connection is ready for another
\* query": every operation ends, but for a COPY.
ResolvesAfterDrop == frames # <<>> ~> (frames = <<>> \/ copying)

\* wait_until_ready "will return when the connection is ready for another
\* query": every operation ends.
AlwaysResolves == frames # <<>> ~> frames = <<>>

\* wait_until_ready "will return when the connection is ready for another
\* query": an operation never fails with the error of an earlier one.
ErrorIsOwn == result # "OtherError"
=============================================================================
