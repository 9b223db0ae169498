-------------------------- MODULE PgChannel_proofs --------------------------
(***************************************************************************)
(* The inductive invariant of PgConnection, and the classes of steps that  *)
(* preserve it.                                                            *)
(*                                                                         *)
(* PgInv says, besides the types, where the messages of a connection are.  *)
(* An operation writes one group of messages that ends in a Sync, and only *)
(* when wait_until_ready has found nothing pending; so at most one such    *)
(* group is under way (ChannelInv), all of it belongs to the operation     *)
(* that waits for it (OwnInv), what that operation waits for is still      *)
(* under way (DueInv), and the statement names of the client are those of  *)
(* the server except where a Parse or a Close is under way (StatementInv). *)
(* TokenInv says that a pending ReadyForQuery will come unless the flush   *)
(* of its Sync was dropped half way, and TornInv that after such a flush   *)
(* one stays pending for good.                                             *)
(*                                                                         *)
(* The steps are put into classes by their effect on the channel (Effect); *)
(* here each part of the invariant is shown class by class, and            *)
(* PgConnection_proofs shows which class each action belongs to.           *)
(***************************************************************************)
EXTENDS PgConnection, TLAPS

-----------------------------------------------------------------------------
(* The invariant. *)

Kind == {"simple", "exec", "prepare", "fetch"}

FrameRec == [kind : Kind, sql : Key \cup {None}, md : BOOLEAN, persistent : BOOLEAN,
             limit : {0, 1}, id : Id, call : Nat, step : Step]

Msg == [kind : {"Parse", "Describe", "Sync", "Close", "Query", "Bind", "Execute", "Terminate"},
        id : Id, sql : Key \cup {None}, limit : {0, 1}, call : Nat]

ReplyKind == {"ParseComplete", "ParameterDescription", "RowDescription", "NoData",
              "CloseComplete", "BindComplete", "DataRow", "CommandComplete",
              "EmptyQueryResponse", "PortalSuspended", "ErrorResponse", "ReadyForQuery",
              "CopyOutResponse", "CopyData", "CopyDone", "CopyInResponse",
              "NotificationResponse"}

Reply == [kind : ReplyKind, call : Nat]

\* Where the running operation is.
Phase == IF frames = <<>> THEN "idle" ELSE Top.step

\* It flushes its messages.
FlushSteps == {"parse_flush", "close_flush", "run_flush"}

\* It reads the replies to them.
ReplySteps == {"parse_complete", "param_desc", "row_desc", "parse_rfq", "close_complete",
               "close_rfq", "stream"}

BusySteps == FlushSteps \cup ReplySteps

\* It has waited until the connection was ready, and written nothing since.
ReadySteps == {"lookup", "parse_ready", "types", "types_ready", "store", "return", "bind_ready"}

TypeInv ==
    /\ frames \in Seq(FrameRec) /\ calls \in Nat
    /\ wbuf \in Seq(Msg) /\ sent \in Seq(Msg) /\ inbox \in Seq(Reply)
    /\ cache \in Seq(Key) /\ ids \in [Key -> Id] /\ next_statement_id \in Id
    /\ closed \in BOOLEAN /\ skipping \in BOOLEAN /\ copying \in BOOLEAN /\ open \in BOOLEAN
    /\ torn \in BOOLEAN

\* A fetch of a type runs on top of the operation that needs the type.
FrameInv ==
    /\ Len(frames) <= 2
    /\ Len(frames) = 2 => /\ frames[2].step = "types" /\ frames[2].sql \in Sql
                          /\ frames[1].sql \in TypeSql /\ frames[1].limit = 0
    /\ \A i \in DOMAIN frames :
          IF frames[i].kind = "simple" THEN frames[i].step \in {"run_ready", "run_flush", "stream"}
          ELSE frames[i].sql \in Key

BasicInv == TypeInv /\ FrameInv

\* Some message, all messages of s have a kind in K; after a message with a
\* kind in K come only messages with a kind in `after`.
Has(s, K) == \E i \in DOMAIN s : s[i].kind \in K
Only(s, K) == \A i \in DOMAIN s : s[i].kind \in K
Last(s, K, after) == \A i, k \in DOMAIN s : s[i].kind \in K /\ i < k => s[k].kind \in after

Syncs == {"Sync", "Query"}
RFQ == {"ReadyForQuery"}
Note == {"NotificationResponse"}
Bye == {"Terminate"}

\* Nothing is under way but a Terminate and notifications.
Calm == Only(sent, Bye) /\ Only(inbox, Note) /\ ~ skipping /\ ~ copying

\* At most one group of messages is under way: its Sync, or the ReadyForQuery
\* it has brought about, is the last of it.
ChannelInv ==
    /\ pending_ready_for_query_count \in {0, 1}
    /\ Last(sent, Syncs, Bye) /\ Last(inbox, RFQ, Note)
    /\ wbuf # <<>> => Phase \in FlushSteps /\ Calm
    /\ Has(sent, Syncs) => ~ Has(inbox, RFQ) /\ ~ copying
    /\ Has(inbox, RFQ) => Only(sent, Bye) /\ ~ skipping /\ ~ copying
    /\ copying => Only(sent, Bye)
    /\ pending_ready_for_query_count = 0 => Calm /\ wbuf = <<>>
    /\ Phase \in ReadySteps => pending_ready_for_query_count = 0
    /\ Phase \in BusySteps => pending_ready_for_query_count = 1
    /\ frames = <<>> /\ result = "Ok" => pending_ready_for_query_count = 0
    /\ ~ closed => ~ Has(sent, Bye)
    /\ Last(wbuf, Syncs, {}) /\ ~ Has(wbuf, Bye)

\* The messages an operation may have under way where it is.
Group(step) ==
    CASE step \in {"parse_flush", "parse_complete", "param_desc", "row_desc", "parse_rfq"} ->
            {"Parse", "Describe", "Sync"}
      [] step \in {"close_flush", "close_complete", "close_rfq"} -> {"Close", "Sync"}
      [] OTHER -> {"Query", "Bind", "Execute", "Sync"}

\* s holds messages of the call f only.
Own(s, f) ==
    \A i \in DOMAIN s :
        /\ s[i].kind \in Group(f.step) /\ s[i].call = f.call
        /\ s[i].kind = "Parse" => s[i].id = f.id /\ s[i].sql = f.sql

\* What is under way while an operation flushes or reads is its own.
OwnInv ==
    /\ Phase \in ReplySteps => ~ closed
    /\ Phase \in FlushSteps => Own(wbuf, Top) /\ Has(wbuf, Syncs)
    /\ Phase \in BusySteps /\ ~ closed => Own(sent, Top)
    /\ Phase \in ReplySteps =>
          \A i \in DOMAIN inbox : inbox[i].kind \in Note \/ inbox[i].call = Top.call

\* A reply in K, or an error instead, has come or will come for the message p,
\* or the server is gone.
Due(K, p) ==
    \/ Has(inbox, K \cup {"ErrorResponse"})
    \/ ~ skipping /\ (Has(sent, {p}) \/ Has(wbuf, {p}))
    \/ ~ open

\* Which replies a step still has to read.
Owes(step, md, K, p) ==
    \/ K = {"ParseComplete"} /\ p = "Parse" /\ step \in {"parse_flush", "parse_complete"}
    \/ /\ K = {"ParameterDescription"} /\ p = "Describe"
       /\ (step \in {"parse_flush", "parse_complete"} /\ ~ md) \/ step = "param_desc"
    \/ /\ K = {"RowDescription", "NoData"} /\ p = "Describe"
       /\ (step \in {"parse_flush", "parse_complete"} /\ ~ md) \/ step \in {"param_desc", "row_desc"}
    \/ K = {"CloseComplete"} /\ p = "Close" /\ step \in {"close_flush", "close_complete"}

\* So a ReadyForQuery is never read in the place of another reply.
DueInv ==
    /\ Phase \in BusySteps /\ skipping /\ open => Has(inbox, {"ErrorResponse"})
    /\ \A K, p : Owes(Phase, Top.md, K, p) => Due(K, p)

\* A ReadyForQuery that is pending is on its way, or waits for a COPY, or its
\* Sync was never written.
TokenInv ==
    open /\ ~ closed /\ pending_ready_for_query_count = 1 =>
        wbuf # <<>> \/ Has(sent, Syncs) \/ Has(inbox, RFQ) \/ copying \/ torn

\* After a Sync was not written one ReadyForQuery is pending and none will come.
TornInv ==
    torn => /\ pending_ready_for_query_count = 1 /\ wbuf = <<>>
            /\ ~ Has(sent, Syncs) /\ ~ Has(inbox, RFQ) /\ ~ copying

\* The server has parsed the statement of a call at these steps.
HeldSteps == {"param_desc", "row_desc", "parse_rfq", "types", "types_ready", "store",
              "close_flush", "close_complete", "close_rfq", "bind_ready"}

\* The cache does not hold the query of a call at these steps.
MissSteps == {"parse_ready", "parse_flush", "parse_complete", "param_desc", "row_desc",
              "parse_rfq", "types", "types_ready", "store"}

CacheKnown == \A q \in Keys(cache) : Known(ids[q], q)

FramesKnown ==
    \A i \in DOMAIN frames :
        /\ frames[i].step \in HeldSteps => Known(frames[i].id, frames[i].sql)
        /\ frames[i].step \in MissSteps => frames[i].sql \notin Keys(cache)

ParsedKnown ==
    Phase = "parse_complete" /\ Has(inbox, {"ParseComplete"}) => Known(Top.id, Top.sql)

Buffered == {wbuf[i] : i \in DOMAIN wbuf} \cup {sent[i] : i \in DOMAIN sent}

BindsKnown == \A m \in Buffered : m.kind = "Bind" => Known(m.id, m.sql)

\* A statement whose Close is under way is used by nobody.
ClosesApart ==
    \A m \in Buffered : m.kind = "Close" =>
        /\ \A n \in Buffered : n.kind # "Bind"
        /\ \A q \in Keys(cache) : ids[q] # m.id
        /\ \A i \in DOMAIN frames : frames[i].step \in HeldSteps => frames[i].id # m.id

StatementInv == CacheKnown /\ FramesKnown /\ ParsedKnown /\ BindsKnown /\ ClosesApart

PgInv == BasicInv /\ ChannelInv /\ OwnInv /\ DueInv /\ StatementInv
-----------------------------------------------------------------------------
(* The classes of steps. *)

\* The topmost call goes on as g.
Moves(g) ==
    /\ frames # <<>> /\ frames' # <<>> /\ frames' \in Seq(FrameRec)
    /\ Len(frames') = Len(frames) /\ DOMAIN frames' = DOMAIN frames
    /\ g \in FrameRec /\ frames'[1] = g
    /\ \A i \in DOMAIN frames : i # 1 => frames'[i] = frames[i]
    /\ g.kind = Top.kind /\ g.sql = Top.sql /\ g.limit = Top.limit
    /\ g.call = Top.call /\ g.persistent = Top.persistent

\* Where Prepared leads.
AfterPrepare == {"arguments", "return", "bind_ready"}

\* Where an expected reply leads.
Leads(t, g, kind) ==
    \/ t.step = "parse_complete" /\ kind = "ParseComplete" /\ ~ t.md /\ g.step = "param_desc"
    \/ t.step = "parse_complete" /\ kind = "ParseComplete" /\ t.md /\ g.step = "parse_rfq"
    \/ t.step = "param_desc" /\ kind = "ParameterDescription" /\ g.step = "row_desc"
    \/ t.step = "row_desc" /\ kind \in {"RowDescription", "NoData"} /\ g.step = "parse_rfq"
    \/ t.step = "parse_rfq" /\ kind = "ReadyForQuery" /\ g.step \in {"store", "types"}
    \/ t.step = "close_complete" /\ kind = "CloseComplete" /\ g.step = "close_rfq"
    \/ t.step = "close_complete" /\ kind = "PortalSuspended" /\ g.step = "close_complete"
    \/ t.step = "close_rfq" /\ kind = "ReadyForQuery" /\ g.step \in AfterPrepare

\* Nothing is written, flushed, read or served.
Local ==
    /\ UNCHANGED <<pending_ready_for_query_count, closed, wbuf, sent, inbox, server>>
    /\ Phase \notin BusySteps /\ Phase' \notin BusySteps
    /\ Phase' \in ReadySteps => pending_ready_for_query_count = 0
    /\ frames' = <<>> /\ result' = "Ok" => pending_ready_for_query_count = 0

\* The buffer is filled with messages of the kinds K, the last one a Sync.
Wrote(K) ==
    /\ wbuf' \in Seq(Msg) /\ wbuf' # <<>>
    /\ Last(wbuf', Syncs, {}) /\ Has(wbuf', Syncs)
    /\ \A k \in K : Has(wbuf', {k})
    /\ \A i \in DOMAIN wbuf' :
          /\ wbuf'[i].kind \in K /\ wbuf'[i].call = Top.call
          /\ wbuf'[i].kind # "Close" => wbuf'[i].id = Top.id /\ wbuf'[i].sql = Top.sql

\* A group of messages is written when nothing is pending.
WriteStep(g, K) ==
    /\ Moves(g) /\ Wrote(K) /\ Phase' = g.step /\ Phase = Top.step
    /\ Phase \notin BusySteps /\ g.step \in FlushSteps /\ K \subseteq Group(g.step)
    /\ g.id = Top.id /\ g.md = Top.md
    /\ pending_ready_for_query_count = 0 /\ pending_ready_for_query_count' = 1
    /\ g.step = "parse_flush" => "Parse" \in K /\ (~ g.md => "Describe" \in K)
    /\ g.step = "close_flush" => "Close" \in K
    /\ UNCHANGED <<sent, inbox, server, closed, result>>

\* The buffer is flushed to the end.
FlushStep(g) ==
    /\ Moves(g) /\ Phase' = g.step /\ Phase = Top.step
    /\ g.id = Top.id /\ g.md = Top.md
    /\ Phase \in FlushSteps /\ ~ closed
    /\ g.step = AfterFlush(Top.step) /\ g.step \in {"parse_complete", "close_complete", "stream"}
    /\ wbuf' = <<>> /\ sent' = IF open THEN sent \o wbuf ELSE sent
    /\ UNCHANGED <<conn, inbox, server, result>>

\* The operation is given up; part of the buffer may have been written, and
\* torn records when the rest is lost on a connection that goes on.
DropStep ==
    /\ frames # <<>> /\ frames' = <<>> /\ Phase' = "idle" /\ result' # "Ok" /\ wbuf' = <<>>
    /\ \E n \in 0..Len(wbuf) :
          /\ sent' = sent \o SubSeq(wbuf, 1, n)
          /\ \/ torn' = torn /\ (open /\ ~ closed => n = Len(wbuf))
             \/ torn' = TRUE /\ n < Len(wbuf)
    /\ UNCHANGED <<conn, inbox, stmts, skipping, copying, open, notes>>

\* One message is read ...
Reads ==
    /\ frames # <<>> /\ Phase \notin FlushSteps
    /\ inbox # <<>> /\ inbox' = Tail(inbox)
    /\ UNCHANGED <<wbuf, sent, server, closed, statements, calls, first>>

\* Steps at which a ReadyForQuery is not what the operation waits for.
Unexpecting == {"parse_complete", "param_desc", "row_desc", "close_complete"}

\* ... and the operation fails, or has the row it wanted.
AbortStep ==
    /\ Reads /\ frames' = <<>> /\ Phase' = "idle" /\ result' # "Ok"
    /\ UNCHANGED pending_ready_for_query_count
    /\ inbox[1].kind = "ReadyForQuery" => Phase \in Unexpecting
    /\ Phase \in ReplySteps \/ inbox[1].kind = "ErrorResponse"

\* ... and is passed over.
PassStep ==
    /\ Reads /\ UNCHANGED <<frames, result>> /\ Phase' = Phase
    /\ inbox[1].kind # "ErrorResponse"
    /\ pending_ready_for_query_count' = handle_ready_for_query(inbox[1])
    /\ \/ Phase \notin BusySteps /\ pending_ready_for_query_count = 1
       \/ Phase = "stream" /\ inbox[1].kind # "ReadyForQuery"

\* ... and is the one that was expected.
ReplyStep(g) ==
    /\ Reads /\ Moves(g) /\ Phase' = g.step /\ Phase = Top.step
    /\ g.id = Top.id /\ Leads(Top, g, inbox[1].kind) /\ UNCHANGED result
    /\ Phase \in ReplySteps
    /\ pending_ready_for_query_count' = handle_ready_for_query(inbox[1])

\* ... and is the last one of a result.
EndStep ==
    /\ Reads /\ Phase = "stream" /\ inbox[1].kind = "ReadyForQuery" /\ Return("Ok")
    /\ pending_ready_for_query_count' = handle_ready_for_query(inbox[1])

\* The server takes the message m and gives the replies r.  A Sync brings one
\* ReadyForQuery, at the end; another message brings none.
Served(m, r) ==
    /\ m \in Msg /\ m = sent[1] /\ sent # <<>> /\ m.kind # "Terminate"
    /\ r \in Seq(Reply) /\ \A i \in DOMAIN r : r[i].call = m.call
    /\ sent' = Tail(sent) /\ inbox' = inbox \o r
    /\ UNCHANGED <<frames, calls, first, result, conn, wbuf, copying, open, notes, torn>>
    /\ open /\ ~ copying
    /\ IF m.kind \in Syncs THEN Has(r, RFQ) /\ Last(r, RFQ, {}) /\ ~ skipping'
       ELSE ~ Has(r, RFQ)
    /\ skipping' \in BOOLEAN
    /\ skipping' => skipping \/ Has(r, {"ErrorResponse"})
    /\ ~ skipping /\ m.kind = "Parse" => Has(r, {"ParseComplete", "ErrorResponse"})
    /\ ~ skipping /\ m.kind = "Describe" => /\ Has(r, {"ParameterDescription"})
                                           /\ Has(r, {"RowDescription", "NoData"})
    /\ ~ skipping /\ m.kind = "Close" => Has(r, {"CloseComplete"})
    /\ \/ stmts' = stmts /\ ~ Has(r, {"ParseComplete"})
       \/ /\ m.kind = "Parse" /\ m.id \notin DOMAIN stmts
          /\ stmts' = [x \in DOMAIN stmts \cup {m.id} |-> IF x = m.id THEN m.sql ELSE stmts[x]]
       \/ /\ m.kind = "Close" /\ stmts' = [x \in DOMAIN stmts \ {m.id} |-> stmts[x]]
          /\ ~ Has(r, {"ParseComplete"})

\* The server waits for the data of a COPY ... FROM STDIN.
CopyStep ==
    /\ open /\ ~ copying /\ sent # <<>> /\ sent[1].kind = "Query"
    /\ sent' = Tail(sent) /\ copying' = TRUE
    /\ \E r \in Reply : /\ inbox' = Append(inbox, r) /\ r.kind = "CopyInResponse"
                        /\ r.call = sent[1].call
    /\ UNCHANGED <<frames, calls, first, result, conn, wbuf, stmts, skipping, open, notes, torn>>

\* The server goes away.
GoneStep ==
    /\ open /\ open' = FALSE /\ sent' = <<>>
    /\ \E n \in 0..Len(inbox) : inbox' = SubSeq(inbox, 1, n)
    /\ UNCHANGED <<frames, calls, first, result, conn, wbuf, stmts, skipping, copying, notes, torn>>

\* A notification comes in.
NoteStep ==
    /\ \E r \in Reply : inbox' = Append(inbox, r) /\ r.kind = "NotificationResponse"
    /\ UNCHANGED <<frames, calls, first, result, conn, wbuf, sent, stmts, skipping, copying, open,
                   torn>>

\* The connection is closed.
CloseStep ==
    /\ frames = <<>> /\ ~ closed /\ closed' = TRUE
    /\ \/ sent' = sent
       \/ \E m \in Msg : sent' = Append(sent, m) /\ m.kind = "Terminate"
    /\ UNCHANGED <<frames, calls, first, result, pending_ready_for_query_count,
                   statements, wbuf, inbox, server>>

Effect ==
    \/ Local \/ DropStep \/ AbortStep \/ PassStep \/ EndStep
    \/ CopyStep \/ GoneStep \/ NoteStep \/ CloseStep
    \/ \E g, K : WriteStep(g, K)
    \/ \E g : FlushStep(g) \/ ReplyStep(g)
    \/ \E m, r : Served(m, r)

\* The replies to a call, and notifications.
RepliesTo(s, call) == \A i \in DOMAIN s : s[i].kind \in Note \/ s[i].call = call

\* The calls claim no more of the statements than before ...
FramesKeep ==
    \A i \in DOMAIN frames' :
        /\ frames'[i].step \in HeldSteps =>
              \E j \in DOMAIN frames : /\ frames[j].step \in HeldSteps
                                       /\ frames'[i].id = frames[j].id /\ frames'[i].sql = frames[j].sql
        /\ frames'[i].step \in MissSteps =>
              \E j \in DOMAIN frames : frames[j].step \in MissSteps /\ frames'[i].sql = frames[j].sql

\* ... and neither do the messages.
Keeps ==
    /\ stmts' = stmts /\ UNCHANGED statements /\ FramesKeep
    /\ \A m \in Buffered' : m.kind \in {"Bind", "Close"} => m \in Buffered
    /\ Phase' = "parse_complete" /\ Has(inbox', {"ParseComplete"}) =>
          Phase = "parse_complete" /\ Has(inbox, {"ParseComplete"}) /\ Top' = Top

-----------------------------------------------------------------------------
(* Sequences of messages. *)

\* What the rest of a sequence holds.
LEMMA TailHas ==
  ASSUME NEW S, NEW s \in Seq(S), s # <<>>, NEW K
  PROVE  /\ Has(Tail(s), K) => Has(s, K)
         /\ Has(s, K) /\ s[1].kind \notin K => Has(Tail(s), K)
<1>1. /\ DOMAIN s = 1..Len(s) /\ DOMAIN Tail(s) = 1..Len(s) - 1
      /\ \A i \in DOMAIN Tail(s) : i + 1 \in DOMAIN s /\ Tail(s)[i] = s[i + 1]
      /\ \A i \in DOMAIN s : i # 1 => i - 1 \in DOMAIN Tail(s) /\ Tail(s)[i - 1] = s[i]
  OBVIOUS
<1> QED BY <1>1, Zenon DEF Has

\* The rest of a sequence of some kinds.
LEMMA TailOnly ==
  ASSUME NEW S, NEW s \in Seq(S), s # <<>>, NEW K, Only(s, K)
  PROVE  Only(Tail(s), K)
<1>1. \A i \in DOMAIN Tail(s) : i + 1 \in DOMAIN s /\ Tail(s)[i] = s[i + 1]
  OBVIOUS
<1> QED BY <1>1 DEF Only

\* A message that is the last of its kind is so in the rest, and comes after
\* nothing else when it is the first one.
LEMMA TailLast ==
  ASSUME NEW S, NEW s \in Seq(S), s # <<>>, NEW K, NEW A, Last(s, K, A)
  PROVE  /\ Last(Tail(s), K, A)
         /\ s[1].kind \in K => Only(Tail(s), A)
<1>1. /\ 1 \in DOMAIN s
      /\ \A i \in DOMAIN Tail(s) : i \in Nat \ {0} /\ i + 1 \in DOMAIN s /\ Tail(s)[i] = s[i + 1]
  OBVIOUS
<1>2. ASSUME NEW i \in DOMAIN Tail(s), NEW k \in DOMAIN Tail(s), Tail(s)[i].kind \in K, i < k
      PROVE  Tail(s)[k].kind \in A
  <2>1. i + 1 < k + 1 BY <1>1, <1>2
  <2> QED BY <1>1, <1>2, <2>1 DEF Last
<1>3. ASSUME s[1].kind \in K, NEW k \in DOMAIN Tail(s) PROVE Tail(s)[k].kind \in A
  <2>1. 1 < k + 1 BY <1>1
  <2> QED BY <1>1, <1>3, <2>1 DEF Last
<1> QED BY <1>2, <1>3 DEF Last, Only

\* What two sequences hold, one after the other.
LEMMA ConcatHas ==
  ASSUME NEW S, NEW a \in Seq(S), NEW b \in Seq(S), NEW K
  PROVE  /\ Has(a \o b, K) <=> Has(a, K) \/ Has(b, K)
         /\ Only(a \o b, K) <=> Only(a, K) /\ Only(b, K)
<1>1. /\ \A i \in DOMAIN a : i \in DOMAIN (a \o b) /\ (a \o b)[i] = a[i]
      /\ \A i \in DOMAIN b : i + Len(a) \in DOMAIN (a \o b) /\ (a \o b)[i + Len(a)] = b[i]
      /\ \A i \in DOMAIN (a \o b) : \/ i \in DOMAIN a /\ (a \o b)[i] = a[i]
                                    \/ i - Len(a) \in DOMAIN b /\ (a \o b)[i] = b[i - Len(a)]
  OBVIOUS
<1> QED BY <1>1, Zenon DEF Has, Only

\* The last of its kind, in two sequences one after the other.
LEMMA ConcatLast ==
  ASSUME NEW S, NEW a \in Seq(S), NEW b \in Seq(S), NEW K, NEW A,
         Last(a, K, A), Last(b, K, A), Has(a, K) => Only(b, A)
  PROVE  Last(a \o b, K, A)
<1>1. PICK c : c = a \o b BY Zenon
<1>2. \A i \in DOMAIN c : \/ i \in 1..Len(a) /\ c[i] = a[i]
                          \/ i > Len(a) /\ i - Len(a) \in 1..Len(b) /\ c[i] = b[i - Len(a)]
  BY <1>1
<1>3. DOMAIN a = 1..Len(a) /\ DOMAIN b = 1..Len(b) /\ Len(a) \in Nat OBVIOUS
<1>4. ASSUME NEW i \in DOMAIN c, NEW k \in DOMAIN c, c[i].kind \in K, i < k
      PROVE  c[k].kind \in A
  <2>1. CASE i \in 1..Len(a) /\ k \in 1..Len(a) /\ c[i] = a[i] /\ c[k] = a[k]
    BY <1>3, <1>4, <2>1 DEF Last
  <2>2. CASE i \in 1..Len(a) /\ c[i] = a[i] /\ k - Len(a) \in 1..Len(b) /\ c[k] = b[k - Len(a)]
    BY <1>3, <1>4, <2>2 DEF Has, Only
  <2>3. CASE /\ i - Len(a) \in 1..Len(b) /\ c[i] = b[i - Len(a)]
             /\ k - Len(a) \in 1..Len(b) /\ c[k] = b[k - Len(a)]
    <3>1. i \in Int /\ k \in Int /\ Len(a) \in Int BY <1>1, <1>3
    <3>2. i - Len(a) < k - Len(a) BY <3>1, <1>4
    <3> QED BY <1>3, <1>4, <2>3, <3>2 DEF Last
  <2> QED BY <1>1, <1>2, <1>3, <1>4, <2>1, <2>2, <2>3
<1> QED BY <1>1, <1>4 DEF Last

\* What a prefix holds.
LEMMA PrefixHas ==
  ASSUME NEW S, NEW s \in Seq(S), NEW n \in 0..Len(s), NEW K, NEW A
  PROVE  /\ Has(SubSeq(s, 1, n), K) => Has(s, K)
         /\ Only(s, K) => Only(SubSeq(s, 1, n), K)
         /\ Last(s, K, A) => Last(SubSeq(s, 1, n), K, A)
<1>1. \A i \in DOMAIN SubSeq(s, 1, n) : i \in DOMAIN s /\ SubSeq(s, 1, n)[i] = s[i]
  OBVIOUS
<1> QED BY <1>1, Zenon DEF Has, Only, Last

\* The empty sequence.
LEMMA NoMessages ==
  ASSUME NEW K, NEW A PROVE ~ Has(<<>>, K) /\ Only(<<>>, K) /\ Last(<<>>, K, A)
BY DEF Has, Only, Last

\* What a sequence with one more message holds.
LEMMA AppendHas ==
  ASSUME NEW S, NEW s \in Seq(S), NEW x \in S, NEW K, NEW A
  PROVE  /\ Has(Append(s, x), K) <=> Has(s, K) \/ x.kind \in K
         /\ Only(Append(s, x), K) <=> Only(s, K) /\ x.kind \in K
         /\ Last(s, K, A) /\ (Has(s, K) => x.kind \in A) => Last(Append(s, x), K, A)
<1>1. PICK t : t = Append(s, x) BY Zenon
<1>2. PICK n \in Nat : n = Len(s) OBVIOUS
<1>3. /\ DOMAIN s = 1..n /\ DOMAIN t = 1..n + 1 /\ t[n + 1] = x
      /\ \A i \in 1..n : t[i] = s[i]
  BY <1>1, <1>2
<1>4. /\ n + 1 \in DOMAIN t /\ \A i \in DOMAIN s : i \in DOMAIN t /\ t[i] = s[i]
      /\ \A i \in DOMAIN t : i = n + 1 \/ (i \in DOMAIN s /\ i < n + 1)
  BY <1>3
<1>5. Has(t, K) <=> Has(s, K) \/ x.kind \in K BY <1>3, <1>4 DEF Has
<1>6. Only(t, K) <=> Only(s, K) /\ x.kind \in K BY <1>3, <1>4 DEF Only
<1>7. ASSUME Last(s, K, A), Has(s, K) => x.kind \in A PROVE Last(t, K, A)
  <2> SUFFICES ASSUME NEW i \in DOMAIN t, NEW k \in DOMAIN t, t[i].kind \in K, i < k
               PROVE  t[k].kind \in A
    BY DEF Last
  <2>1. i \in Nat /\ k \in Nat /\ k <= n + 1 BY <1>3
  <2>2. i # n + 1 BY <2>1, <1>2
  <2>3. i \in DOMAIN s /\ s[i].kind \in K BY <2>2, <1>4
  <2>4. CASE k = n + 1 BY <2>3, <2>4, <1>3, <1>7 DEF Has
  <2>5. CASE k # n + 1 BY <2>3, <2>5, <1>4, <1>7 DEF Last
  <2> QED BY <2>4, <2>5
<1> QED BY <1>1, <1>5, <1>6, <1>7

\* The kinds that only the end of a connection or a notification has are not
\* those that count.
LEMMA Apart ==
  ASSUME NEW s
  PROVE  /\ Only(s, Bye) => ~ Has(s, Syncs)
         /\ Only(s, Note) => ~ Has(s, RFQ)
BY DEF Only, Has, Bye, Syncs, Note, RFQ

\* The first message is one of the sequence.
LEMMA FirstHas ==
  ASSUME NEW S, NEW s \in Seq(S), s # <<>>, NEW K
  PROVE  /\ s[1].kind \in K => Has(s, K)
         /\ Only(s, K) => s[1].kind \in K
BY DEF Has, Only

-----------------------------------------------------------------------------
(* Frames. *)

\* The topmost call.
LEMMA TopFrame ==
  ASSUME BasicInv, frames # <<>>
  PROVE  /\ Top \in FrameRec /\ 1 \in DOMAIN frames /\ Phase = Top.step
         /\ Top.kind = "simple" => Top.step \in {"run_ready", "run_flush", "stream"}
         /\ Top.kind # "simple" => Top.sql \in Key
<1>1. Top \in FrameRec /\ 1 \in DOMAIN frames BY DEF BasicInv, TypeInv, Top
<1> QED BY <1>1 DEF BasicInv, FrameInv, Phase, Top

\* A call that fails leaves no call.
LEMMA NoFrames ==
  ASSUME frames' = <<>> PROVE FrameInv' /\ frames' \in Seq(FrameRec) /\ Phase' = "idle"
BY DEF FrameInv, Phase

\* One call runs, or two.
LEMMA FramesLen ==
  ASSUME BasicInv, frames # <<>>
  PROVE  frames \in Seq(FrameRec) /\ (Len(frames) = 1 \/ Len(frames) = 2)
<1>1. ASSUME NEW S, NEW s \in Seq(S), s # <<>>, Len(s) <= 2
      PROVE  Len(s) = 1 \/ Len(s) = 2
  <2> USE <1>1
  <2>1. PICK n \in Nat : n = Len(s) OBVIOUS
  <2>2. n # 0 BY <2>1
  <2>3. n = 1 \/ n = 2 BY <2>1, <2>2
  <2> QED BY <2>1, <2>3
<1> QED BY <1>1 DEF BasicInv, TypeInv, FrameInv

\* The rest of a sequence.
LEMMA TailElements ==
  ASSUME NEW S, NEW s \in Seq(S), s # <<>>
  PROVE  /\ Tail(s) \in Seq(S) /\ DOMAIN Tail(s) = 1..Len(s) - 1 /\ Len(Tail(s)) = Len(s) - 1
         /\ \A i \in 1..Len(s) - 1 : Tail(s)[i] = s[i + 1]
OBVIOUS

\* The rest of a pair.
LEMMA TailOfTwo ==
  ASSUME NEW S, NEW s \in Seq(S), Len(s) = 2
  PROVE  /\ Tail(s) \in Seq(S) /\ Len(Tail(s)) = 1 /\ Tail(s) # <<>> /\ Tail(s)[1] = s[2]
         /\ DOMAIN Tail(s) = {1} /\ 2 \in DOMAIN s /\ s[2] \in S
<1>1. s # <<>> /\ 2 \in DOMAIN s /\ s[2] \in S OBVIOUS
<1>2. PICK t : t = Tail(s) BY Zenon
<1>a. /\ t \in Seq(S) /\ DOMAIN t = 1..Len(s) - 1 /\ Len(t) = Len(s) - 1
      /\ \A i \in 1..Len(s) - 1 : t[i] = s[i + 1]
  BY <1>1, <1>2, TailElements, Zenon
<1>b. Len(s) - 1 = 1 OBVIOUS
<1>3. t \in Seq(S) /\ DOMAIN t = 1..1 /\ Len(t) = 1 /\ \A i \in 1..1 : t[i] = s[i + 1]
  BY <1>a, <1>b, Zenon
<1>4. 1 \in 1..1 /\ t[1] = s[2] /\ 1..1 = {1} BY <1>3
<1>c. DOMAIN <<>> = {} OBVIOUS
<1>5. t # <<>> BY <1>c, <1>3, <1>4, Zenon
<1> QED BY <1>1, <1>2, <1>3, <1>4, <1>5

\* The call that goes on when the topmost one returns.
LEMMA ReturnFrames ==
  ASSUME BasicInv, frames # <<>>, NEW r, Return(r)
  PROVE  /\ FrameInv' /\ frames' \in Seq(FrameRec)
         /\ Phase' \in {"idle", "types"}
         /\ frames' # <<>> => /\ Phase' = "types" /\ Len(frames) = 2 /\ Len(frames') = 1
                              /\ frames'[1] = frames[2] /\ result' = result
         /\ frames' = <<>> => Phase' = "idle" /\ Len(frames) = 1 /\ result' = r
<1>1. frames \in Seq(FrameRec) /\ (Len(frames) = 1 \/ Len(frames) = 2) /\ frames' = Tail(frames)
  BY FramesLen DEF Return
<1>2. CASE Len(frames) = 1
  <2>1. frames' = <<>> /\ result' = r BY <1>1, <1>2 DEF Return
  <2> QED BY <2>1, <1>2, NoFrames
<1>3. CASE Len(frames) = 2
  <2>1. /\ frames' \in Seq(FrameRec) /\ Len(frames') = 1 /\ frames' # <<>>
        /\ frames'[1] = frames[2] /\ DOMAIN frames' = {1}
        /\ 2 \in DOMAIN frames /\ frames[2] \in FrameRec
    BY <1>1, <1>3, TailOfTwo, Zenon
  <2>2. frames[2].step = "types" /\ frames[2].sql \in Sql /\ result' = result
    BY <1>3 DEF BasicInv, FrameInv, Return
  <2>3. Phase' = "types" BY <2>1, <2>2 DEF Phase, Top
  <2>4. frames[2].kind # "simple" /\ frames[2].sql \in Key
    BY <2>1, <2>2 DEF BasicInv, FrameInv, Key
  <2>5. FrameInv' BY <2>1, <2>2, <2>4 DEF FrameInv
  <2> QED BY <1>3, <2>1, <2>2, <2>3, <2>5
<1> QED BY <1>1, <1>2, <1>3

\* Nothing happens to the calls.
LEMMA SameFrames ==
  ASSUME BasicInv, UNCHANGED frames PROVE FrameInv' /\ frames' \in Seq(FrameRec) /\ Phase' = Phase
BY DEF FrameInv, Phase, Top, BasicInv, TypeInv

-----------------------------------------------------------------------------
(* One group of messages is under way. *)

\* A message that is served leaves the types and the calls as they are.
LEMMA ServedBasic ==
  ASSUME BasicInv, NEW m, NEW r, Served(m, r) PROVE BasicInv' /\ Phase' = Phase
<1>1. FrameInv' /\ frames' \in Seq(FrameRec) /\ Phase' = Phase BY SameFrames DEF Served
<1>2. inbox \in Seq(Reply) /\ sent \in Seq(Msg) BY DEF BasicInv, TypeInv
<1>3. inbox' \in Seq(Reply) /\ sent' \in Seq(Msg) BY <1>2 DEF Served
<1> QED BY <1>1, <1>3 DEF BasicInv, TypeInv, Served, conn, statements

\* While the server has a message to serve, something is pending.
LEMMA Serving ==
  ASSUME BasicInv, ChannelInv, sent # <<>>, sent[1].kind # "Terminate"
  PROVE  /\ ~ Calm /\ pending_ready_for_query_count = 1 /\ wbuf = <<>> /\ ~ Has(inbox, RFQ)
         /\ ~ copying
<1>1. sent \in Seq(Msg) BY DEF BasicInv, TypeInv
<1>2. ~ Only(sent, Bye) BY <1>1, FirstHas DEF Bye
<1> QED BY <1>2 DEF ChannelInv, Calm

\* handle_ready_for_query, when one ReadyForQuery is pending.
LEMMA Counted ==
  ASSUME pending_ready_for_query_count = 1,
         pending_ready_for_query_count' = handle_ready_for_query(inbox[1])
  PROVE  /\ pending_ready_for_query_count' \in {0, 1}
         /\ inbox[1].kind = "ReadyForQuery" => pending_ready_for_query_count' = 0
         /\ inbox[1].kind # "ReadyForQuery" => pending_ready_for_query_count' = 1
         /\ pending_ready_for_query_count' = 0 => inbox[1].kind = "ReadyForQuery"
BY DEF handle_ready_for_query

\* Every class of steps preserves ChannelInv.
LEMMA ChannelPreserved ==
  ASSUME BasicInv, ChannelInv, Effect PROVE ChannelInv' 
<1>1. ASSUME Local
      PROVE  ChannelInv'
  <2> USE <1>1
  <2>1. Phase \notin FlushSteps BY DEF Local, BusySteps
  <2>2. wbuf = <<>> BY <2>1 DEF ChannelInv
  <2> QED BY <2>2, Zenon DEF ChannelInv, Local, Calm, server
<1>2. ASSUME NEW g, NEW K, WriteStep(g, K)
      PROVE  ChannelInv'
  <2> USE <1>2
  <2>1. Calm BY DEF WriteStep, ChannelInv
  <2>2. Calm' BY <2>1, Zenon DEF WriteStep, Calm, server
  <2>3. Phase' \in FlushSteps /\ Phase' \in BusySteps /\ Phase' \notin ReadySteps /\ frames' # <<>>
    BY DEF WriteStep, Moves, FlushSteps, BusySteps, ReadySteps
  <2>4. Last(wbuf', Syncs, {}) BY DEF WriteStep, Wrote
  <2>5. ~ Has(wbuf', Bye)
    <3>1. "Terminate" \notin Group(g.step) BY DEF Group
    <3> QED BY <3>1 DEF WriteStep, Wrote, Has, Bye
  <2>6. pending_ready_for_query_count' = 1 /\ pending_ready_for_query_count' # 0
        /\ pending_ready_for_query_count' \in {0, 1}
    BY DEF WriteStep
  <2> QED BY <2>2, <2>3, <2>4, <2>5, <2>6, Zenon DEF ChannelInv, WriteStep, server
<1>3. ASSUME NEW g, FlushStep(g)
      PROVE  ChannelInv'
  <2> USE <1>3
  <2>1. /\ Phase' \notin FlushSteps /\ Phase' \in BusySteps /\ Phase' \notin ReadySteps
        /\ frames' # <<>> /\ Phase \in BusySteps
    BY DEF FlushStep, Moves, FlushSteps, BusySteps, ReplySteps, ReadySteps
  <2>2. pending_ready_for_query_count = 1 /\ pending_ready_for_query_count' = 1
    BY <2>1, Zenon DEF ChannelInv, FlushStep, conn
  <2>3. pending_ready_for_query_count' # 0 /\ pending_ready_for_query_count' \in {0, 1} BY <2>2
  <2>4. wbuf' = <<>> /\ Last(wbuf', Syncs, {}) /\ ~ Has(wbuf', Bye) BY NoMessages DEF FlushStep
  <2>5. CASE sent' = sent
    BY <2>1, <2>2, <2>3, <2>4, <2>5, Zenon DEF ChannelInv, FlushStep, conn, server
  <2>6. CASE sent' = sent \o wbuf /\ wbuf # <<>>
    <3>1. Calm /\ ~ closed BY <2>6 DEF ChannelInv, FlushStep
    <3>2. sent \in Seq(Msg) /\ wbuf \in Seq(Msg) BY DEF BasicInv, TypeInv
    <3>3. ~ Has(sent, Syncs) /\ ~ Has(inbox, RFQ) BY <3>1, Apart DEF Calm
    <3>4. Last(wbuf, Syncs, Bye) BY DEF ChannelInv, Last
    <3>5. Last(sent', Syncs, Bye) BY <2>6, <3>2, <3>3, <3>4, ConcatLast DEF ChannelInv
    <3>6. ~ Has(sent', Bye) BY <2>6, <3>1, <3>2, ConcatHas DEF ChannelInv
    <3>7. ~ copying' /\ ~ Has(inbox', RFQ) /\ Last(inbox', RFQ, Note)
      BY <3>1, <3>3, Zenon DEF ChannelInv, FlushStep, server, Calm
    <3> QED BY <2>1, <2>2, <2>3, <2>4, <3>5, <3>6, <3>7, Zenon DEF ChannelInv
  <2>7. CASE sent' = sent \o wbuf /\ wbuf = <<>>
    <3>1. sent' = sent BY <2>7 DEF BasicInv, TypeInv
    <3> QED BY <2>5, <3>1
  <2> QED BY <2>5, <2>6, <2>7 DEF FlushStep
<1>4. ASSUME DropStep
      PROVE  ChannelInv'
  <2> USE <1>4
  <2>1. /\ Phase' \notin FlushSteps /\ Phase' \notin BusySteps /\ Phase' \notin ReadySteps
        /\ result' # "Ok" /\ wbuf' = <<>>
    BY DEF DropStep, FlushSteps, BusySteps, ReplySteps, ReadySteps
  <2>2. Last(wbuf', Syncs, {}) /\ ~ Has(wbuf', Bye) BY <2>1, NoMessages
  <2>3. PICK n \in 0..Len(wbuf) : sent' = sent \o SubSeq(wbuf, 1, n) BY DEF DropStep
  <2>4. sent \in Seq(Msg) /\ wbuf \in Seq(Msg) BY DEF BasicInv, TypeInv
  <2>5. CASE wbuf = <<>>
    <3>1. SubSeq(wbuf, 1, n) = <<>>
      <4>1. n = 0 BY <2>4, <2>5
      <4> QED BY <4>1, <2>4
    <3>2. sent \o <<>> = sent BY <2>4
    <3>3. sent' = sent BY <2>3, <3>1, <3>2, Zenon
    <3> QED BY <2>1, <2>2, <2>5, <3>3, Zenon DEF ChannelInv, Calm, DropStep, conn
  <2>6. CASE wbuf # <<>>
    <3>1. Calm /\ pending_ready_for_query_count # 0 BY <2>6 DEF ChannelInv
    <3>2. PICK p : p = SubSeq(wbuf, 1, n) BY Zenon
    <3>3. p \in Seq(Msg) BY <2>4, <3>2
    <3>4. ~ Has(sent, Syncs) /\ ~ Has(inbox, RFQ) BY <3>1, Apart DEF Calm
    <3>5. Last(wbuf, Syncs, Bye) BY DEF ChannelInv, Last
    <3>6. Last(p, Syncs, Bye) /\ ~ Has(p, Bye)
      BY <2>4, <3>2, <3>5, PrefixHas DEF ChannelInv
    <3>7. Last(sent', Syncs, Bye)
      BY <2>3, <2>4, <3>2, <3>3, <3>4, <3>6, ConcatLast, Zenon DEF ChannelInv
    <3>8. Has(sent', Bye) => Has(sent, Bye)
      <4>1. Has(sent \o p, Bye) <=> Has(sent, Bye) \/ Has(p, Bye) BY <2>4, <3>3, ConcatHas
      <4> QED BY <4>1, <2>3, <3>2, <3>6
    <3> QED
      BY <2>1, <2>2, <3>1, <3>4, <3>7, <3>8, Zenon DEF ChannelInv, Calm, DropStep, conn
  <2> QED BY <2>5, <2>6
<1>reads. ASSUME Reads
          PROVE  /\ Last(inbox', RFQ, Note) /\ (Has(inbox', RFQ) => Has(inbox, RFQ)) /\ wbuf = <<>>
                 /\ Calm => Calm'
                 /\ inbox[1].kind = "ReadyForQuery" => Calm'
  <2> USE <1>reads
  <2>1. inbox \in Seq(Reply) /\ inbox # <<>> /\ inbox' = Tail(inbox) BY DEF BasicInv, TypeInv, Reads
  <2>2. wbuf = <<>> BY DEF ChannelInv, Reads
  <2>3. Last(inbox', RFQ, Note) BY <2>1, TailLast DEF ChannelInv
  <2>4. Has(inbox', RFQ) => Has(inbox, RFQ) BY <2>1, TailHas
  <2>5. Only(inbox, Note) => Only(inbox', Note) BY <2>1, TailOnly
  <2>6. Calm => Calm' BY <2>5 DEF Calm, Reads, server
  <2>7. ASSUME inbox[1].kind = "ReadyForQuery" PROVE Calm'
    <3>1. inbox[1].kind \in RFQ BY <2>7 DEF RFQ
    <3>2. Has(inbox, RFQ) BY <3>1, <2>1, FirstHas
    <3>3. Only(inbox', Note) BY <3>1, <2>1, TailLast DEF ChannelInv
    <3> QED BY <3>2, <3>3 DEF ChannelInv, Calm, Reads, server
  <2> QED BY <2>2, <2>3, <2>4, <2>6, <2>7
<1>5. ASSUME AbortStep
      PROVE  ChannelInv'
  <2> USE <1>5
  <2>1. Reads BY DEF AbortStep
  <2>2. Phase' \notin FlushSteps /\ Phase' \notin BusySteps /\ Phase' \notin ReadySteps /\ result' # "Ok"
    BY DEF AbortStep, FlushSteps, BusySteps, ReplySteps, ReadySteps
  <2>3. UNCHANGED <<pending_ready_for_query_count, wbuf, sent, skipping, copying, closed>>
    BY Zenon DEF AbortStep, Reads, server
  <2>4. /\ Last(inbox', RFQ, Note) /\ (Has(inbox', RFQ) => Has(inbox, RFQ)) /\ wbuf = <<>>
        /\ Calm => Calm'
    BY <2>1, <1>reads
  <2> QED BY <2>2, <2>3, <2>4, Zenon DEF ChannelInv
<1>6. ASSUME PassStep
      PROVE  ChannelInv'
  <2> USE <1>6
  <2>1. Reads /\ Phase' = Phase BY Zenon DEF PassStep
  <2>2. pending_ready_for_query_count = 1 BY DEF PassStep, ChannelInv, BusySteps, ReplySteps
  <2>3. Phase \notin ReadySteps BY <2>2 DEF ChannelInv
  <2>4. Phase \in BusySteps => pending_ready_for_query_count' = 1 BY <2>2, Counted DEF PassStep
  <2>5. /\ pending_ready_for_query_count' \in {0, 1}
        /\ pending_ready_for_query_count' = 0 => Calm'
    BY <2>1, <2>2, Counted, <1>reads DEF PassStep
  <2>6. frames' # <<>> BY DEF PassStep, Reads
  <2> QED BY <2>1, <2>3, <2>4, <2>5, <2>6, <1>reads, Zenon DEF ChannelInv, Reads, server
<1>7. ASSUME NEW g, ReplyStep(g)
      PROVE  ChannelInv'
  <2> USE <1>7
  <2>1. Reads BY DEF ReplyStep
  <2>2. pending_ready_for_query_count = 1 BY Zenon DEF ReplyStep, ChannelInv, BusySteps
  <2>3. /\ pending_ready_for_query_count' \in {0, 1}
        /\ pending_ready_for_query_count' = 0 => Calm'
    BY <2>1, <2>2, Counted, <1>reads, Zenon DEF ReplyStep
  <2>4. /\ inbox[1].kind = "ReadyForQuery" => g.step \notin BusySteps
        /\ inbox[1].kind # "ReadyForQuery" => g.step \in BusySteps /\ g.step \notin ReadySteps
    BY DEF ReplyStep, Leads, AfterPrepare, BusySteps, FlushSteps, ReplySteps, ReadySteps
  <2>5. /\ Phase' \in BusySteps => pending_ready_for_query_count' = 1
        /\ Phase' \in ReadySteps => pending_ready_for_query_count' = 0
    BY <2>2, <2>4, Counted DEF ReplyStep
  <2>6. frames' # <<>> BY DEF ReplyStep, Moves
  <2> QED BY <2>1, <2>3, <2>5, <2>6, <1>reads, Zenon DEF ChannelInv, Reads, server
<1>8. ASSUME EndStep
      PROVE  ChannelInv'
  <2> USE <1>8
  <2>1. Reads BY DEF EndStep
  <2>2. pending_ready_for_query_count = 1 BY Zenon DEF EndStep, ChannelInv, BusySteps, ReplySteps
  <2>3. pending_ready_for_query_count' = 0 /\ Calm' BY <2>1, <2>2, Counted, <1>reads DEF EndStep
  <2>4. Phase' \in {"idle", "types"} BY <2>1, ReturnFrames DEF EndStep, Reads
  <2>5. Phase' \notin BusySteps BY <2>4 DEF BusySteps, FlushSteps, ReplySteps
  <2>6. pending_ready_for_query_count' \in {0, 1} BY <2>3
  <2> QED BY <2>1, <2>3, <2>5, <2>6, <1>reads, Zenon DEF ChannelInv, Reads, server
<1>9. ASSUME NEW m, NEW r, Served(m, r)
      PROVE  ChannelInv'
  <2> USE <1>9
  <2>1. /\ m = sent[1] /\ sent # <<>> /\ m.kind # "Terminate" /\ sent' = Tail(sent)
        /\ r \in Seq(Reply) /\ inbox' = inbox \o r
    BY DEF Served
  <2>2. pending_ready_for_query_count = 1 /\ wbuf = <<>> /\ ~ Has(inbox, RFQ) /\ ~ copying
    BY <2>1, Serving
  <2>3. sent \in Seq(Msg) /\ inbox \in Seq(Reply) BY DEF BasicInv, TypeInv
  <2>4. /\ Phase' = Phase
        /\ UNCHANGED <<pending_ready_for_query_count, wbuf, copying, closed, frames, result>>
    <3>1. UNCHANGED <<frames, calls, first, result, conn, wbuf, copying, open, notes, torn>> BY DEF Served
    <3>2. Phase' = Phase BY ServedBasic
    <3> QED BY <3>1, <3>2 DEF conn
  <2>5. pending_ready_for_query_count # 0 BY <2>2
  <2>6. Last(sent', Syncs, Bye) /\ (m.kind \in Syncs => Only(sent', Bye))
    BY <2>1, <2>3, TailLast, Zenon DEF ChannelInv
  <2>7. (Has(sent', Bye) => Has(sent, Bye)) /\ (Has(sent', Syncs) => Has(sent, Syncs))
    BY <2>1, <2>3, TailHas
  <2>8. Last(r, RFQ, Note) BY DEF Served, Last, Has
  <2>9. Last(inbox', RFQ, Note) BY <2>1, <2>2, <2>3, <2>8, ConcatLast, Zenon DEF ChannelInv
  <2>10. Has(inbox', RFQ) <=> Has(r, RFQ)
    <3>1. Has(inbox \o r, RFQ) <=> Has(inbox, RFQ) \/ Has(r, RFQ) BY <2>1, <2>3, ConcatHas
    <3> QED BY <3>1, <2>1, <2>2
  <2>11. CASE m.kind \in Syncs
    <3>1. ~ skipping' /\ Only(sent', Bye) BY <2>6, <2>11 DEF Served
    <3>2. ~ Has(sent', Syncs) BY <3>1, Apart
    <3> QED BY <2>2, <2>4, <2>5, <2>6, <2>7, <2>9, <3>1, <3>2, Zenon DEF ChannelInv
  <2>12. CASE m.kind \notin Syncs
    <3>1. ~ Has(inbox', RFQ) BY <2>10, <2>12 DEF Served
    <3> QED BY <2>2, <2>4, <2>5, <2>6, <2>7, <2>9, <3>1, Zenon DEF ChannelInv
  <2> QED BY <2>11, <2>12
<1>10. ASSUME CopyStep, Phase' = Phase
       PROVE  ChannelInv'
  <2> USE <1>10
  <2>1. sent # <<>> /\ sent[1].kind = "Query" /\ sent' = Tail(sent) BY DEF CopyStep
  <2>2. pending_ready_for_query_count = 1 /\ wbuf = <<>> /\ ~ Has(inbox, RFQ)
    BY <2>1, Serving
  <2>3. sent \in Seq(Msg) /\ inbox \in Seq(Reply) BY DEF BasicInv, TypeInv
  <2>4. UNCHANGED <<pending_ready_for_query_count, wbuf, skipping, closed, frames, result>>
    BY DEF CopyStep, conn
  <2>5. pending_ready_for_query_count # 0 BY <2>2
  <2>6. Last(sent', Syncs, Bye) /\ Only(sent', Bye)
    BY <2>1, <2>3, TailLast DEF ChannelInv, Syncs
  <2>7. Has(sent', Bye) => Has(sent, Bye) BY <2>1, <2>3, TailHas
  <2>8. PICK r \in Reply : inbox' = Append(inbox, r) /\ r.kind = "CopyInResponse" BY DEF CopyStep
  <2>9. r.kind \notin RFQ BY <2>8 DEF RFQ
  <2>10. Last(inbox', RFQ, Note) /\ ~ Has(inbox', RFQ)
    BY <2>2, <2>3, <2>8, <2>9, AppendHas, Zenon DEF ChannelInv
  <2>11. ~ Has(sent', Syncs) BY <2>6, Apart
  <2> QED BY <2>2, <2>4, <2>5, <2>6, <2>7, <2>10, <2>11, Zenon DEF ChannelInv
<1>11. ASSUME GoneStep, Phase' = Phase
       PROVE  ChannelInv'
  <2> USE <1>11
  <2>1. /\ sent' = <<>>
        /\ UNCHANGED <<pending_ready_for_query_count, wbuf, skipping, copying, closed, frames, result>>
    BY DEF GoneStep, conn
  <2>2. ~ Has(sent', Syncs) /\ ~ Has(sent', Bye) /\ Only(sent', Bye) /\ Last(sent', Syncs, Bye)
    BY <2>1, NoMessages
  <2>3. PICK n \in 0..Len(inbox) : inbox' = SubSeq(inbox, 1, n) BY DEF GoneStep
  <2>4. inbox \in Seq(Reply) BY DEF BasicInv, TypeInv
  <2>5. /\ Has(inbox', RFQ) => Has(inbox, RFQ)
        /\ Only(inbox, Note) => Only(inbox', Note) /\ Last(inbox', RFQ, Note)
    BY <2>3, <2>4, PrefixHas DEF ChannelInv
  <2>6. Last(inbox', RFQ, Note) BY <2>3, <2>4, PrefixHas DEF ChannelInv
  <2> QED BY <2>1, <2>2, <2>5, <2>6, Zenon DEF ChannelInv, Calm
<1>12. ASSUME NoteStep, Phase' = Phase
       PROVE  ChannelInv'
  <2> USE <1>12
  <2>1. UNCHANGED <<pending_ready_for_query_count, wbuf, sent, skipping, copying, closed, frames, result>>
    BY DEF NoteStep, conn
  <2>2. PICK r \in Reply : inbox' = Append(inbox, r) /\ r.kind = "NotificationResponse"
    BY DEF NoteStep
  <2>3. inbox \in Seq(Reply) BY DEF BasicInv, TypeInv
  <2>4. r.kind \notin RFQ /\ r.kind \in Note BY <2>2 DEF RFQ, Note
  <2>5. /\ Has(inbox', RFQ) <=> Has(inbox, RFQ)
        /\ Only(inbox', Note) <=> Only(inbox, Note)
        /\ Last(inbox', RFQ, Note)
    BY <2>2, <2>3, <2>4, AppendHas, Zenon DEF ChannelInv
  <2> QED BY <2>1, <2>5, Zenon DEF ChannelInv, Calm
<1>13. ASSUME CloseStep, Phase' = Phase
       PROVE  ChannelInv'
  <2> USE <1>13
  <2>1. /\ UNCHANGED <<pending_ready_for_query_count, wbuf, inbox, skipping, copying, frames, result>>
        /\ closed'
    BY DEF CloseStep, server
  <2>2. sent \in Seq(Msg) BY DEF BasicInv, TypeInv
  <2>3. /\ Has(sent', Syncs) <=> Has(sent, Syncs)
        /\ Only(sent', Bye) <=> Only(sent, Bye)
        /\ Last(sent', Syncs, Bye)
    <3>1. CASE sent' = sent BY <3>1 DEF ChannelInv
    <3>2. CASE \E m \in Msg : sent' = Append(sent, m) /\ m.kind = "Terminate"
      <4>1. PICK m \in Msg : sent' = Append(sent, m) /\ m.kind = "Terminate" BY <3>2
      <4>2. m.kind \notin Syncs /\ m.kind \in Bye BY <4>1 DEF Syncs, Bye
      <4> QED BY <4>1, <4>2, <2>2, AppendHas, Zenon DEF ChannelInv
    <3> QED BY <3>1, <3>2 DEF CloseStep
  <2> QED BY <2>1, <2>3, Zenon DEF ChannelInv, Calm
<1>14. CopyStep \/ GoneStep \/ NoteStep \/ CloseStep => Phase' = Phase
  BY DEF CopyStep, GoneStep, NoteStep, CloseStep, Phase, Top
<1> QED BY <1>1, <1>2, <1>3, <1>4, <1>5, <1>6, <1>7, <1>8, <1>9, <1>10, <1>11, <1>12, <1>13, <1>14,
           Zenon DEF Effect

-----------------------------------------------------------------------------
(* What is under way belongs to the running operation. *)

\* Sequences of messages of one call.
LEMMA OwnSeq ==
  ASSUME NEW s \in Seq(Msg), NEW f
  PROVE  /\ Only(s, Bye) /\ ~ Has(s, Bye) => Own(s, f)
         /\ s # <<>> /\ Own(s, f) => Own(Tail(s), f) /\ s[1].call = f.call /\ s[1].kind \in Group(f.step)
         /\ \A t \in Seq(Msg) : Own(s, f) /\ Own(t, f) => Own(s \o t, f)
         /\ \A g : /\ Own(s, f) /\ Group(g.step) = Group(f.step) /\ g.call = f.call
                   /\ g.id = f.id /\ g.sql = f.sql
                   => Own(s, g)
<1>1. ASSUME s # <<>>, Own(s, f)
      PROVE  Own(Tail(s), f) /\ s[1].call = f.call /\ s[1].kind \in Group(f.step)
  <2>1. 1 \in DOMAIN s /\ \A i \in DOMAIN Tail(s) : i + 1 \in DOMAIN s /\ Tail(s)[i] = s[i + 1]
    BY <1>1
  <2> QED BY <1>1, <2>1 DEF Own
<1>2. ASSUME NEW t \in Seq(Msg), Own(s, f), Own(t, f) PROVE Own(s \o t, f)
  <2>1. \A i \in DOMAIN (s \o t) : \/ i \in DOMAIN s /\ (s \o t)[i] = s[i]
                                   \/ i - Len(s) \in DOMAIN t /\ (s \o t)[i] = t[i - Len(s)]
    OBVIOUS
  <2> QED BY <1>2, <2>1, Zenon DEF Own
<1>3. Only(s, Bye) /\ ~ Has(s, Bye) => Own(s, f) BY DEF Only, Has, Own
<1>4. ASSUME NEW g, Own(s, f), Group(g.step) = Group(f.step), g.call = f.call,
             g.id = f.id, g.sql = f.sql
      PROVE  Own(s, g)
  BY <1>4 DEF Own
<1> QED BY <1>1, <1>2, <1>3, <1>4

\* Sequences of replies to one call.
LEMMA RepliesSeq ==
  ASSUME NEW s \in Seq(Reply), NEW c
  PROVE  /\ Only(s, Note) => RepliesTo(s, c)
         /\ s # <<>> /\ RepliesTo(s, c) => RepliesTo(Tail(s), c)
         /\ \A n \in 0..Len(s) : RepliesTo(s, c) => RepliesTo(SubSeq(s, 1, n), c)
         /\ \A t \in Seq(Reply) : RepliesTo(s, c) /\ RepliesTo(t, c) => RepliesTo(s \o t, c)
         /\ \A x \in Reply : RepliesTo(s, c) /\ (x.kind \in Note \/ x.call = c) => RepliesTo(Append(s, x), c)
<1>1. ASSUME s # <<>>, RepliesTo(s, c) PROVE RepliesTo(Tail(s), c)
  <2>1. \A i \in DOMAIN Tail(s) : i + 1 \in DOMAIN s /\ Tail(s)[i] = s[i + 1]
    BY <1>1
  <2> QED BY <1>1, <2>1 DEF RepliesTo
<1>2. ASSUME NEW n \in 0..Len(s), RepliesTo(s, c) PROVE RepliesTo(SubSeq(s, 1, n), c)
  <2>1. \A i \in DOMAIN SubSeq(s, 1, n) : i \in DOMAIN s /\ SubSeq(s, 1, n)[i] = s[i] OBVIOUS
  <2> QED BY <1>2, <2>1 DEF RepliesTo
<1>3. ASSUME NEW t \in Seq(Reply), RepliesTo(s, c), RepliesTo(t, c) PROVE RepliesTo(s \o t, c)
  <2>1. \A i \in DOMAIN (s \o t) : \/ i \in DOMAIN s /\ (s \o t)[i] = s[i]
                                   \/ i - Len(s) \in DOMAIN t /\ (s \o t)[i] = t[i - Len(s)]
    OBVIOUS
  <2> QED BY <1>3, <2>1, Zenon DEF RepliesTo
<1>4. ASSUME NEW x \in Reply, RepliesTo(s, c), x.kind \in Note \/ x.call = c
      PROVE  RepliesTo(Append(s, x), c)
  <2>1. \A i \in DOMAIN Append(s, x) : Append(s, x)[i] = x \/ (i \in DOMAIN s /\ Append(s, x)[i] = s[i])
    OBVIOUS
  <2> QED BY <1>4, <2>1, Zenon DEF RepliesTo
<1>5. Only(s, Note) => RepliesTo(s, c) BY DEF Only, RepliesTo
<1> QED BY <1>1, <1>2, <1>3, <1>4, <1>5

\* Outside the steps that flush and read nothing is claimed.
LEMMA NotBusyOwn ==
  ASSUME Phase' \notin BusySteps PROVE OwnInv'
BY Zenon DEF OwnInv, BusySteps, FlushSteps, ReplySteps

\* Every class of steps preserves OwnInv.
LEMMA OwnPreserved ==
  ASSUME BasicInv, ChannelInv, OwnInv, Effect PROVE OwnInv'
<1>t. wbuf \in Seq(Msg) /\ sent \in Seq(Msg) /\ inbox \in Seq(Reply) BY DEF BasicInv, TypeInv
<1>o. OwnInv <=> /\ Phase \in ReplySteps => ~ closed
                 /\ Phase \in FlushSteps => Own(wbuf, Top) /\ Has(wbuf, Syncs)
                 /\ Phase \in BusySteps /\ ~ closed => Own(sent, Top)
                 /\ Phase \in ReplySteps => RepliesTo(inbox, Top.call)
  BY DEF OwnInv, RepliesTo
<1>p. OwnInv' <=> /\ Phase' \in ReplySteps => ~ closed'
                  /\ Phase' \in FlushSteps => Own(wbuf', Top') /\ Has(wbuf', Syncs)
                  /\ Phase' \in BusySteps /\ ~ closed' => Own(sent', Top')
                  /\ Phase' \in ReplySteps => RepliesTo(inbox', Top'.call)
  BY DEF OwnInv, RepliesTo
<1>s. (Phase \in BusySteps <=> Phase \in FlushSteps \/ Phase \in ReplySteps)
      /\ (Phase' \in BusySteps <=> Phase' \in FlushSteps \/ Phase' \in ReplySteps)
  BY DEF BusySteps
<1>d. ~ (Phase \in FlushSteps /\ Phase \in ReplySteps) BY DEF FlushSteps, ReplySteps
<1>1. CASE Local BY <1>1, NotBusyOwn DEF Local
<1>2. CASE DropStep \/ AbortStep
  <2>1. Phase' \notin BusySteps BY <1>2 DEF DropStep, AbortStep, BusySteps, FlushSteps, ReplySteps
  <2> QED BY <2>1, NotBusyOwn
<1>3. CASE EndStep
  <2>1. Phase' \in {"idle", "types"} BY <1>3, ReturnFrames DEF EndStep, Reads
  <2>2. Phase' \notin BusySteps BY <2>1 DEF BusySteps, FlushSteps, ReplySteps
  <2> QED BY <2>2, NotBusyOwn
<1>4. CASE CloseStep
  <2>1. Phase' = "idle" BY <1>4 DEF CloseStep, Phase
  <2>2. Phase' \notin BusySteps BY <2>1 DEF BusySteps, FlushSteps, ReplySteps
  <2> QED BY <2>2, NotBusyOwn
<1>5. CASE PassStep
  <2>1. CASE Phase \notin BusySteps BY <1>5, <2>1, NotBusyOwn DEF PassStep
  <2>2. CASE Phase \in BusySteps
    <3>1. Phase = "stream" /\ Phase' = Phase /\ Reads /\ UNCHANGED frames BY <1>5, <2>2 DEF PassStep
    <3>2. Phase \in ReplySteps /\ Phase \notin FlushSteps BY <3>1 DEF FlushSteps, ReplySteps
    <3>3. Top' = Top /\ sent' = sent /\ closed' = closed /\ inbox # <<>> /\ inbox' = Tail(inbox)
      BY <3>1 DEF Reads, Top
    <3>4. RepliesTo(inbox', Top.call) BY <3>2, <3>3, <1>t, <1>o, RepliesSeq
    <3> QED BY <3>1, <3>2, <3>3, <3>4, <1>o, <1>p, <1>s, Zenon
  <2> QED BY <2>1, <2>2
<1>6. CASE \E g, K : WriteStep(g, K)
  <2>1. PICK g, K : WriteStep(g, K) BY <1>6
  <2>2. Top' = g /\ Phase' \in FlushSteps /\ Phase' \notin ReplySteps
    BY <2>1 DEF WriteStep, Moves, Top, FlushSteps, ReplySteps
  <2>3. Own(wbuf', g) /\ Has(wbuf', Syncs) BY <2>1 DEF WriteStep, Wrote, Moves, Own
  <2>4. sent' = sent /\ closed' = closed /\ Calm BY <2>1, Zenon DEF WriteStep, ChannelInv
  <2>5. ~ closed => Own(sent, g) BY <2>4, <1>t, OwnSeq DEF Calm, ChannelInv
  <2> QED BY <2>2, <2>3, <2>4, <2>5, <1>p, <1>s, Zenon
<1>7. CASE \E g : FlushStep(g)
  <2>1. PICK g : FlushStep(g) BY <1>7
  <2>2. Top' = g /\ Phase' \notin FlushSteps /\ Phase \in FlushSteps /\ ~ closed /\ closed' = closed
    BY <2>1 DEF FlushStep, Moves, Top, FlushSteps, conn
  <2>3. Group(g.step) = Group(Top.step) /\ g.call = Top.call /\ g.id = Top.id /\ g.sql = Top.sql
    BY <2>1 DEF FlushStep, Moves, FlushSteps, AfterFlush, Group
  <2>4. Own(wbuf, Top) /\ Own(sent, Top) /\ Has(wbuf, Syncs) BY <2>2, <1>o, <1>s
  <2>5. Own(sent', Top)
    <3>1. Own(sent \o wbuf, Top) BY <2>4, <1>t, OwnSeq
    <3> QED BY <3>1, <2>1, <2>4 DEF FlushStep
  <2>6. Own(sent', g)
    <3>1. sent' \in Seq(Msg) BY <2>1, <1>t DEF FlushStep
    <3> QED BY <3>1, <2>3, <2>5, OwnSeq
  <2>7. RepliesTo(inbox', g.call)
    <3>1. wbuf # <<>> BY <2>4, NoMessages
    <3>2. Only(inbox, Note) /\ inbox' = inbox BY <3>1, <2>1, Zenon DEF ChannelInv, Calm, FlushStep
    <3> QED BY <3>2, <1>t, RepliesSeq
  <2> QED BY <2>2, <2>6, <2>7, <1>p, <1>s, Zenon
<1>8. CASE \E g : ReplyStep(g)
  <2>1. PICK g : ReplyStep(g) BY <1>8
  <2>2. CASE Phase' \notin BusySteps BY <2>2, NotBusyOwn
  <2>3. CASE Phase' \in BusySteps
    <3>1. Top' = g /\ g.step \in BusySteps /\ Phase \in ReplySteps /\ Reads
      BY <2>1, <2>3 DEF ReplyStep, Moves, Top
    <3>2. g.step \in ReplySteps /\ g.step \notin FlushSteps /\ Group(g.step) = Group(Top.step)
      BY <2>1, <3>1 DEF ReplyStep, Leads, AfterPrepare, BusySteps, FlushSteps, ReplySteps, Group
    <3>3. g.call = Top.call /\ g.id = Top.id /\ g.sql = Top.sql /\ Phase' = g.step
      BY <2>1 DEF ReplyStep, Moves
    <3>4. sent' = sent /\ closed' = closed /\ inbox # <<>> /\ inbox' = Tail(inbox)
      BY <3>1 DEF Reads
    <3>5. ~ closed /\ Own(sent, Top) /\ RepliesTo(inbox, Top.call) BY <3>1, <1>o, <1>s
    <3>6. Own(sent', g) BY <3>2, <3>3, <3>4, <3>5, <1>t, OwnSeq
    <3>7. RepliesTo(inbox', g.call) BY <3>3, <3>4, <3>5, <1>t, RepliesSeq, Zenon
    <3> QED BY <3>1, <3>2, <3>3, <3>4, <3>5, <3>6, <3>7, <1>p, <1>s, Zenon
  <2> QED BY <2>2, <2>3
<1>9. CASE \E m, r : Served(m, r)
  <2>1. PICK m, r : Served(m, r) BY <1>9
  <2>2. UNCHANGED <<frames, calls, first, result, conn, wbuf, copying, open, notes, torn>>
    BY <2>1 DEF Served
  <2>3. Phase' = Phase /\ Top' = Top /\ closed' = closed /\ wbuf' = wbuf
    BY <2>2 DEF Phase, Top, conn
  <2>4. /\ sent # <<>> /\ sent' = Tail(sent) /\ m = sent[1] /\ r \in Seq(Reply)
        /\ inbox' = inbox \o r /\ \A i \in DOMAIN r : r[i].call = m.call
    BY <2>1 DEF Served
  <2>5. Phase \in BusySteps /\ ~ closed => Own(sent', Top) /\ sent[1].call = Top.call
    BY <2>4, <1>o, <1>t, OwnSeq
  <2>6. Phase \in ReplySteps => RepliesTo(inbox', Top.call)
    <3> SUFFICES ASSUME Phase \in ReplySteps PROVE RepliesTo(inbox', Top.call) OBVIOUS
    <3>1. sent[1].call = Top.call /\ RepliesTo(inbox, Top.call) BY <2>5, <1>o, <1>s, Zenon
    <3>2. RepliesTo(r, Top.call) BY <3>1, <2>4 DEF RepliesTo
    <3> QED BY <3>1, <3>2, <2>4, <1>t, RepliesSeq
  <2> QED BY <2>3, <2>5, <2>6, <1>o, <1>p, <1>s, Zenon
<1>10. CASE CopyStep
  <2>1. UNCHANGED <<frames, calls, first, result, conn, wbuf, stmts, skipping, open, notes, torn>>
    BY <1>10 DEF CopyStep
  <2>2. Phase' = Phase /\ Top' = Top /\ closed' = closed /\ wbuf' = wbuf
    BY <2>1 DEF Phase, Top, conn
  <2>3. PICK x \in Reply : /\ inbox' = Append(inbox, x) /\ x.call = sent[1].call
                           /\ sent # <<>> /\ sent' = Tail(sent)
    BY <1>10 DEF CopyStep
  <2>4. Phase \in BusySteps /\ ~ closed => Own(sent', Top) /\ sent[1].call = Top.call
    BY <2>3, <1>o, <1>t, OwnSeq
  <2>5. Phase \in ReplySteps => RepliesTo(inbox', Top.call)
    BY <2>3, <2>4, <1>o, <1>s, <1>t, RepliesSeq, Zenon
  <2> QED BY <2>2, <2>4, <2>5, <1>o, <1>p, <1>s, Zenon
<1>11. CASE GoneStep
  <2>1. UNCHANGED <<frames, calls, first, result, conn, wbuf, stmts, skipping, copying, notes, torn>>
    BY <1>11 DEF GoneStep
  <2>2. Phase' = Phase /\ Top' = Top /\ closed' = closed /\ wbuf' = wbuf
    BY <2>1 DEF Phase, Top, conn
  <2>3. PICK n \in 0..Len(inbox) : inbox' = SubSeq(inbox, 1, n) /\ sent' = <<>>
    BY <1>11 DEF GoneStep
  <2>4. Own(sent', Top) BY <2>3 DEF Own
  <2>5. Phase \in ReplySteps => RepliesTo(inbox', Top.call) BY <2>3, <1>o, <1>t, RepliesSeq, Zenon
  <2> QED BY <2>2, <2>4, <2>5, <1>o, <1>p, <1>s, Zenon
<1>12. CASE NoteStep
  <2>1. UNCHANGED <<frames, calls, first, result, conn, wbuf, sent, stmts, skipping, copying, open>>
    BY <1>12 DEF NoteStep
  <2>2. Phase' = Phase /\ Top' = Top /\ closed' = closed /\ wbuf' = wbuf /\ sent' = sent
    BY <2>1 DEF Phase, Top, conn
  <2>3. PICK x \in Reply : inbox' = Append(inbox, x) /\ x.kind = "NotificationResponse"
    BY <1>12 DEF NoteStep
  <2>4. x.kind \in Note BY <2>3 DEF Note
  <2>5. Phase \in ReplySteps => RepliesTo(inbox', Top.call)
    BY <2>3, <2>4, <1>o, <1>t, RepliesSeq, Zenon
  <2> QED BY <2>2, <2>5, <1>o, <1>p, <1>s, Zenon
<1> QED
  BY <1>1, <1>2, <1>3, <1>4, <1>5, <1>6, <1>7, <1>8, <1>9, <1>10, <1>11, <1>12, Zenon DEF Effect

-----------------------------------------------------------------------------
(* The replies an operation waits for are under way. *)

\* Outside the steps that flush and read nothing is owed.
LEMMA NotBusyDue == ASSUME Phase' \notin BusySteps PROVE DueInv'
BY DEF DueInv, BusySteps, FlushSteps, ReplySteps, Owes

\* Every class of steps preserves DueInv: a reply is read only where it is
\* expected, and a message that is served brings what is owed for it.
LEMMA DuePreserved ==
  ASSUME BasicInv, ChannelInv, DueInv, Effect PROVE DueInv'
<1>t. wbuf \in Seq(Msg) /\ sent \in Seq(Msg) /\ inbox \in Seq(Reply) BY DEF BasicInv, TypeInv
<1> DEFINE Err == {"ErrorResponse"}
           Skip == Phase \in BusySteps /\ skipping /\ open => Has(inbox, Err)
<1>o. Skip /\ \A K, p : Owes(Phase, Top.md, K, p) => Due(K, p) BY DEF DueInv
<1>q. (Skip' /\ \A K, p : Owes(Phase', Top'.md, K, p) => Due(K, p)') => DueInv' BY Zenon DEF DueInv
<1>w. \A K, p : Due(K, p)' <=> \/ Has(inbox', K \cup Err)
                               \/ ~ skipping' /\ (Has(sent', {p}) \/ Has(wbuf', {p}))
                               \/ ~ open'
  BY DEF Due
<1>e. \A K, p, s : Has(s, Err) => Has(s, K \cup Err) BY DEF Has
<1>1. CASE Local BY <1>1, NotBusyDue DEF Local
<1>2. CASE DropStep \/ AbortStep
  <2>1. Phase' \notin BusySteps BY <1>2 DEF DropStep, AbortStep, BusySteps, FlushSteps, ReplySteps
  <2> QED BY <2>1, NotBusyDue
<1>3. CASE EndStep
  <2>1. Phase' \in {"idle", "types"} BY <1>3, ReturnFrames DEF EndStep, Reads
  <2>2. Phase' \notin BusySteps BY <2>1 DEF BusySteps, FlushSteps, ReplySteps
  <2> QED BY <2>2, NotBusyDue
<1>4. CASE CloseStep
  <2>1. Phase' = "idle" BY <1>4 DEF CloseStep, Phase
  <2>2. Phase' \notin BusySteps BY <2>1 DEF BusySteps, FlushSteps, ReplySteps
  <2> QED BY <2>2, NotBusyDue
<1>5. CASE PassStep
  <2>1. CASE Phase \notin BusySteps BY <1>5, <2>1, NotBusyDue DEF PassStep
  <2>2. CASE Phase \in BusySteps
    <3>1. Phase' = "stream" /\ Phase \in BusySteps /\ Reads /\ inbox[1].kind \notin Err
      BY <1>5, <2>2 DEF PassStep
    <3>2. \A K, p : ~ Owes(Phase', Top'.md, K, p) BY <3>1 DEF Owes
    <3>3. Skip'
      <4>1. Has(inbox, Err) => Has(inbox', Err) BY <3>1, <1>t, TailHas DEF Reads
      <4> QED BY <3>1, <4>1, <1>o DEF Reads, server
    <3> QED BY <3>2, <3>3, <1>q
  <2> QED BY <2>1, <2>2
<1>6. CASE \E g, K : WriteStep(g, K)
  <2>1. PICK g, K : WriteStep(g, K) BY <1>6
  <2>2. Top' = g /\ Phase' = g.step /\ g.step \in FlushSteps BY <2>1 DEF WriteStep, Moves, Top
  <2>3. ~ skipping' BY <2>1, Zenon DEF WriteStep, ChannelInv, Calm, server
  <2>4. ASSUME NEW L, NEW p, Owes(Phase', Top'.md, L, p) PROVE Due(L, p)'
    <3>1. p \in K BY <2>1, <2>2, <2>4 DEF Owes, WriteStep, FlushSteps
    <3>2. Has(wbuf', {p}) BY <3>1, <2>1 DEF WriteStep, Wrote
    <3> QED BY <3>2, <2>3, <1>w, Zenon
  <2> QED BY <2>3, <2>4, <1>q
<1>7. CASE \E g : FlushStep(g)
  <2>1. PICK g : FlushStep(g) BY <1>7
  <2>2. /\ Top' = g /\ Phase' = g.step /\ g.md = Top.md /\ g.step = AfterFlush(Phase)
        /\ Phase \in FlushSteps /\ Phase \in BusySteps
        /\ skipping' = skipping /\ open' = open /\ inbox' = inbox
    BY <2>1 DEF FlushStep, Moves, Top, server, BusySteps
  <2>3. ASSUME NEW L, NEW p, Owes(Phase', Top'.md, L, p) PROVE Due(L, p)'
    <3>1. Owes(Phase, Top.md, L, p) BY <2>2, <2>3 DEF Owes, FlushSteps, AfterFlush
    <3>2. Due(L, p) BY <3>1, <1>o
    <3>3. open /\ (Has(sent, {p}) \/ Has(wbuf, {p})) => Has(sent', {p})
      BY <2>1, <1>t, ConcatHas, Zenon DEF FlushStep
    <3> QED BY <3>2, <3>3, <2>2, <1>w, Zenon DEF Due
  <2> QED BY <2>2, <2>3, <1>o, <1>q, Zenon
<1>8. CASE \E g : ReplyStep(g)
  <2>1. PICK g : ReplyStep(g) BY <1>8
  <2>2. /\ Top' = g /\ Phase' = g.step /\ Leads(Top, g, inbox[1].kind) /\ Phase = Top.step
        /\ Phase \in BusySteps /\ Reads
    BY <2>1 DEF ReplyStep, Moves, Top, BusySteps
  <2>3. inbox[1].kind \notin Err BY <2>2, Zenon DEF Leads
  <2>4. inbox # <<>> /\ inbox' = Tail(inbox) /\ wbuf' = wbuf /\ sent' = sent
        /\ skipping' = skipping /\ open' = open
    BY <2>2 DEF Reads, server
  <2>5. ASSUME NEW L, NEW p, Owes(Phase', Top'.md, L, p) PROVE Due(L, p)'
    <3>1. Owes(Phase, Top.md, L, p) BY <2>2, <2>5 DEF Owes, Leads, AfterPrepare
    <3>2. inbox[1].kind \notin L BY <2>2, <2>5 DEF Owes, Leads, AfterPrepare
    <3>3. Due(L, p) BY <3>1, <1>o
    <3>4. Has(inbox, L \cup Err) => Has(inbox', L \cup Err) BY <2>3, <2>4, <3>2, <1>t, TailHas
    <3> QED BY <3>3, <3>4, <2>4, <1>w DEF Due
  <2>6. Skip'
    <3>1. Has(inbox, Err) => Has(inbox', Err) BY <2>3, <2>4, <1>t, TailHas
    <3> QED BY <2>2, <2>4, <3>1, <1>o
  <2> QED BY <2>5, <2>6, <1>q
<1>9. CASE \E m, r : Served(m, r)
  <2>1. PICK m, r : Served(m, r) BY <1>9
  <2>2. UNCHANGED <<frames, calls, first, result, conn, wbuf, copying, open, notes, torn>>
    BY <2>1 DEF Served
  <2>3. Phase' = Phase /\ Top' = Top /\ open' = open /\ wbuf' = wbuf BY <2>2 DEF Phase, Top
  <2>4. /\ sent # <<>> /\ sent' = Tail(sent) /\ m = sent[1] /\ r \in Seq(Reply)
        /\ inbox' = inbox \o r /\ (skipping' => skipping \/ Has(r, Err))
    BY <2>1 DEF Served
  <2>5. \A K : Has(inbox, K) \/ Has(r, K) => Has(inbox', K) BY <2>4, <1>t, ConcatHas
  <2>6. wbuf = <<>>
    <3>1. ~ Only(sent, Bye) BY <2>1, <1>t DEF Served, Only, Bye
    <3> QED BY <3>1 DEF ChannelInv, Calm
  <2>7. ASSUME NEW L, NEW p, Owes(Phase', Top'.md, L, p) PROVE Due(L, p)'
    <3>1. Due(L, p) BY <2>7, <2>3, <1>o
    <3>2. CASE Has(inbox, L \cup Err) BY <3>2, <2>5, <1>w, Zenon
    <3>3. CASE ~ open BY <3>3, <2>3, <1>w, Zenon
    <3>4. CASE ~ skipping /\ m.kind = p
      <4>1. Has(r, L \cup Err) BY <2>1, <2>7, <3>4 DEF Served, Owes, Has
      <4> QED BY <4>1, <2>5, <1>w, Zenon
    <3>5. CASE ~ skipping /\ m.kind # p /\ Has(sent, {p})
      <4>1. Has(sent', {p}) BY <3>5, <2>4, <1>t, TailHas
      <4>2. skipping' => Has(inbox', L \cup Err) BY <3>5, <2>4, <2>5, <1>e, Zenon
      <4> QED BY <4>1, <4>2, <1>w
    <3>6. ~ Has(wbuf, {p}) BY <2>6, NoMessages
    <3> QED BY <3>1, <3>2, <3>3, <3>4, <3>5, <3>6, <1>e DEF Due
  <2>8. Skip' BY <2>3, <2>4, <2>5, <1>o
  <2> QED BY <2>7, <2>8, <1>q
<1>10. CASE CopyStep
  <2>1. UNCHANGED <<frames, calls, first, result, conn, wbuf, stmts, skipping, open, notes, torn>>
    BY <1>10 DEF CopyStep
  <2>2. Phase' = Phase /\ Top' = Top /\ wbuf' = wbuf /\ skipping' = skipping /\ open' = open
    BY <2>1 DEF Phase, Top
  <2>3. PICK x \in Reply : inbox' = Append(inbox, x) BY <1>10 DEF CopyStep
  <2>4. \A K : Has(inbox, K) => Has(inbox', K) BY <2>3, <1>t, AppendHas, Zenon
  <2>5. ASSUME NEW L, NEW p, Owes(Phase', Top'.md, L, p) PROVE Due(L, p)'
    <3>1. Due(L, p) BY <2>5, <2>2, <1>o
    <3>2. p # "Query" BY <2>5 DEF Owes
    <3>3. Has(sent, {p}) => Has(sent', {p}) BY <3>2, <1>10, <1>t, TailHas DEF CopyStep
    <3> QED BY <3>1, <3>3, <2>2, <2>4, <1>w DEF Due
  <2> QED BY <2>2, <2>4, <2>5, <1>o, <1>q
<1>11. CASE GoneStep
  <2>1. ~ open' BY <1>11 DEF GoneStep
  <2> QED BY <2>1, <1>q, <1>w, Zenon
<1>12. CASE NoteStep
  <2>1. UNCHANGED <<frames, calls, first, result, conn, wbuf, sent, stmts, skipping, copying, open>>
    BY <1>12 DEF NoteStep
  <2>2. /\ Phase' = Phase /\ Top' = Top /\ wbuf' = wbuf /\ sent' = sent /\ skipping' = skipping
        /\ open' = open
    BY <2>1 DEF Phase, Top
  <2>3. PICK x \in Reply : inbox' = Append(inbox, x) BY <1>12 DEF NoteStep
  <2>4. \A K : Has(inbox, K) => Has(inbox', K) BY <2>3, <1>t, AppendHas, Zenon
  <2>5. ASSUME NEW L, NEW p, Owes(Phase', Top'.md, L, p) PROVE Due(L, p)'
    BY <2>5, <2>2, <2>4, <1>o, <1>w DEF Due
  <2> QED BY <2>2, <2>4, <2>5, <1>o, <1>q
<1> QED
  BY <1>1, <1>2, <1>3, <1>4, <1>5, <1>6, <1>7, <1>8, <1>9, <1>10, <1>11, <1>12, Zenon DEF Effect

\* Every class of steps preserves TokenInv.
LEMMA TokenPreserved ==
  ASSUME BasicInv, ChannelInv, OwnInv, DueInv, TokenInv, Effect PROVE TokenInv'
<1>t. wbuf \in Seq(Msg) /\ sent \in Seq(Msg) /\ inbox \in Seq(Reply) BY DEF BasicInv, TypeInv
<1> DEFINE Token == wbuf # <<>> \/ Has(sent, Syncs) \/ Has(inbox, RFQ) \/ copying \/ torn
<1>q. TokenInv <=> (open /\ ~ closed /\ pending_ready_for_query_count = 1 => Token) BY DEF TokenInv
<1>r. TokenInv' <=> (open' /\ ~ closed' /\ pending_ready_for_query_count' = 1 => Token')
  BY DEF TokenInv
<1>c. Has(sent \o wbuf, Syncs) <=> Has(sent, Syncs) \/ Has(wbuf, Syncs) BY <1>t, ConcatHas
<1>1. CASE Local BY <1>1 DEF Local, TokenInv, server
<1>2. CASE DropStep
  <2>1. \/ torn'
        \/ /\ torn' = torn
           /\ \E n \in 0..Len(wbuf) : /\ sent' = sent \o SubSeq(wbuf, 1, n)
                                      /\ open /\ ~ closed => n = Len(wbuf)
    BY <1>2, Zenon DEF DropStep
  <2>2. UNCHANGED <<pending_ready_for_query_count, closed, inbox, open, copying>>
    BY <1>2 DEF DropStep, conn
  <2>3. torn' \/ (torn' = torn /\ (open /\ ~ closed => sent' = sent \o wbuf))
    <3>1. SubSeq(wbuf, 1, Len(wbuf)) = wbuf BY <1>t
    <3> QED BY <3>1, <2>1, Zenon
  <2>4. wbuf # <<>> => Has(wbuf, Syncs) BY DEF ChannelInv, OwnInv
  <2>5. \/ torn'
        \/ /\ torn' = torn
           /\ open /\ ~ closed /\ (wbuf # <<>> \/ Has(sent, Syncs)) => Has(sent', Syncs)
    BY <2>3, <2>4, <1>c, Zenon
  <2> QED BY <2>2, <2>5, <1>q, <1>r
<1>3. ASSUME Reads, inbox[1].kind # "ReadyForQuery",
             pending_ready_for_query_count' = 1 => pending_ready_for_query_count = 1
      PROVE  TokenInv'
  <2>1. Has(inbox, RFQ) => Has(inbox', RFQ) BY <1>3, <1>t, TailHas DEF Reads, RFQ
  <2>2. UNCHANGED <<wbuf, sent, closed, open, copying, torn>> BY <1>3 DEF Reads, server
  <2> QED BY <1>3, <2>1, <2>2, <1>q, <1>r
<1>4. ASSUME Reads, pending_ready_for_query_count' = handle_ready_for_query(inbox[1])
      PROVE  TokenInv'
  <2>1. inbox # <<>> BY <1>4 DEF Reads
  <2>2. CASE inbox[1].kind = "ReadyForQuery"
    <3>1. Has(inbox, RFQ) BY <2>1, <2>2, <1>t, FirstHas DEF RFQ
    <3>2. pending_ready_for_query_count = 1 BY <3>1, Apart DEF ChannelInv, Calm
    <3>3. pending_ready_for_query_count' = 0 BY <1>4, <2>2, <3>2 DEF handle_ready_for_query
    <3> QED BY <3>3, <1>r
  <2>3. CASE inbox[1].kind # "ReadyForQuery" BY <1>3, <1>4, <2>3 DEF handle_ready_for_query
  <2> QED BY <2>2, <2>3
<1>5. CASE AbortStep
  <2>1. Reads /\ UNCHANGED pending_ready_for_query_count BY <1>5 DEF AbortStep
  <2>2. CASE inbox[1].kind # "ReadyForQuery" BY <2>1, <2>2, <1>3
  <2>3. CASE inbox[1].kind = "ReadyForQuery" /\ open
    <3>1. PICK K, p : /\ Due(K, p) /\ p \in {"Parse", "Describe", "Close"}
                      /\ "ReadyForQuery" \notin K \cup {"ErrorResponse"}
                      /\ "NotificationResponse" \notin K \cup {"ErrorResponse"}
      <4>1. Phase \in Unexpecting BY <1>5, <2>3 DEF AbortStep
      <4>2. PICK K, p : Owes(Phase, Top.md, K, p) BY <4>1, Zenon DEF Unexpecting, Owes
      <4> QED BY <4>2 DEF DueInv, Owes
    <3>2. inbox # <<>> /\ Has(inbox, RFQ) BY <2>1, <2>3, <1>t, FirstHas DEF Reads, RFQ
    <3>3. Only(Tail(inbox), Note) BY <3>2, <2>3, <1>t, TailLast DEF ChannelInv, RFQ
    <3>4. ~ Has(inbox, K \cup {"ErrorResponse"})
      <4>1. ~ Has(Tail(inbox), K \cup {"ErrorResponse"}) BY <3>1, <3>3 DEF Only, Has, Note
      <4> QED BY <4>1, <3>1, <3>2, <2>3, <1>t, TailHas
    <3>5. ~ Has(sent, {p}) BY <3>1, <3>2 DEF ChannelInv, Only, Has, Bye
    <3>6. ~ Has(wbuf, {p}) BY <2>1, NoMessages DEF ChannelInv, Reads
    <3> QED BY <3>1, <3>4, <3>5, <3>6, <2>3 DEF Due
  <2>4. CASE ~ open BY <2>1, <2>4, <1>r DEF Reads, server
  <2> QED BY <2>2, <2>3, <2>4
<1>6. CASE PassStep \/ EndStep \/ \E g : ReplyStep(g)
  BY <1>4, <1>6, Zenon DEF PassStep, EndStep, ReplyStep
<1>7. CASE \E g, K : WriteStep(g, K) BY <1>7, <1>r DEF WriteStep, Wrote
<1>8. CASE \E g : FlushStep(g)
  <2>1. PICK g : FlushStep(g) BY <1>8
  <2>2. UNCHANGED <<closed, open>> /\ (open => sent' = sent \o wbuf)
    BY <2>1 DEF FlushStep, conn, server
  <2>3. Has(wbuf, Syncs) BY <2>1 DEF FlushStep, OwnInv
  <2>4. open => Has(sent', Syncs) BY <2>2, <2>3, <1>c, Zenon
  <2> QED BY <2>2, <2>4, <1>r
<1>9. CASE \E m, r : Served(m, r)
  <2>1. PICK m, r : Served(m, r) BY <1>9
  <2>2. UNCHANGED <<frames, calls, first, result, conn, wbuf, copying, open, notes, torn>>
    BY <2>1 DEF Served
  <2>3. UNCHANGED <<closed, open, pending_ready_for_query_count, torn>> BY <2>2 DEF conn
  <2>4. /\ sent # <<>> /\ sent' = Tail(sent) /\ m = sent[1] /\ r \in Seq(Reply)
        /\ inbox' = inbox \o r /\ (m.kind \in Syncs => Has(r, RFQ)) /\ m.kind # "Terminate"
    BY <2>1 DEF Served
  <2>5. wbuf = <<>> /\ ~ Has(inbox, RFQ) /\ ~ copying BY <2>4, Serving
  <2>6. CASE m.kind \in Syncs
    <3>1. Has(inbox', RFQ) BY <2>4, <2>6, <1>t, ConcatHas, Zenon
    <3> QED BY <3>1, <1>r
  <2>7. CASE m.kind \notin Syncs
    <3>1. Has(sent, Syncs) => Has(sent', Syncs) BY <2>4, <2>7, <1>t, TailHas
    <3> QED BY <3>1, <2>3, <2>5, <1>q, <1>r
  <2> QED BY <2>6, <2>7
<1>10. CASE CopyStep BY <1>10, <1>r DEF CopyStep
<1>11. CASE GoneStep BY <1>11, <1>r DEF GoneStep
<1>12. CASE NoteStep
  <2>1. UNCHANGED <<frames, calls, first, result, conn, wbuf, sent, stmts, skipping, copying, open,
                    torn>>
    BY <1>12 DEF NoteStep
  <2>2. UNCHANGED <<closed, open, pending_ready_for_query_count, wbuf, sent, copying, torn>>
    BY <2>1 DEF conn
  <2>3. PICK x \in Reply : inbox' = Append(inbox, x) BY <1>12 DEF NoteStep
  <2>4. Has(inbox, RFQ) => Has(inbox', RFQ) BY <2>3, <1>t, AppendHas, Zenon
  <2> QED BY <2>2, <2>4, <1>q, <1>r
<1>13. CASE CloseStep BY <1>13, <1>r DEF CloseStep
<1> QED BY <1>1, <1>2, <1>5, <1>6, <1>7, <1>8, <1>9, <1>10, <1>11, <1>12, <1>13, Zenon DEF Effect

\* Every class of steps preserves TornInv.
LEMMA TornPreserved ==
  ASSUME BasicInv, ChannelInv, OwnInv, TornInv, Effect PROVE TornInv'
<1>t. wbuf \in Seq(Msg) /\ sent \in Seq(Msg) /\ inbox \in Seq(Reply) BY DEF BasicInv, TypeInv
<1>1. CASE Local BY <1>1 DEF Local, TornInv, server
<1>2. CASE DropStep
  <2>1. wbuf' = <<>> /\ UNCHANGED <<pending_ready_for_query_count, inbox, copying>>
    BY <1>2 DEF DropStep, conn
  <2>2. PICK n \in 0..Len(wbuf) : /\ sent' = sent \o SubSeq(wbuf, 1, n)
                                  /\ torn' = torn \/ n < Len(wbuf)
    BY <1>2, Zenon DEF DropStep
  <2>3. CASE torn' = torn /\ wbuf = <<>>
    <3>1. n = 0 BY <2>3, <1>t
    <3>2. SubSeq(wbuf, 1, 0) = <<>> /\ sent \o <<>> = sent BY <1>t
    <3>3. sent' = sent BY <2>2, <3>1, <3>2, Zenon
    <3> QED BY <2>1, <2>3, <3>3 DEF TornInv
  <2>4. CASE torn' = torn /\ wbuf # <<>> BY <2>4 DEF TornInv
  <2>5. CASE n < Len(wbuf)
    <3>1. wbuf # <<>> BY <2>5, <1>t
    <3>2. Calm /\ pending_ready_for_query_count = 1 BY <3>1 DEF ChannelInv, BusySteps
    <3>3. ~ Has(sent, Syncs) /\ ~ Has(inbox, RFQ) /\ ~ copying BY <3>2, Apart DEF Calm
    <3>4. PICK p : p = SubSeq(wbuf, 1, n) BY Zenon
    <3>5. /\ p \in Seq(Msg)
          /\ \A i \in DOMAIN p : /\ p[i] = wbuf[i] /\ i \in DOMAIN wbuf
                                 /\ i < Len(wbuf) /\ Len(wbuf) \in DOMAIN wbuf
      BY <2>5, <3>4, <1>t
    <3>6. ~ Has(p, Syncs) BY <3>5, Zenon DEF ChannelInv, Last, Has
    <3>7. ~ Has(sent', Syncs)
      <4>1. Has(sent \o p, Syncs) <=> Has(sent, Syncs) \/ Has(p, Syncs) BY <3>5, <1>t, ConcatHas
      <4> QED BY <4>1, <2>2, <3>3, <3>4, <3>6, Zenon
    <3> QED BY <2>1, <3>2, <3>3, <3>7 DEF TornInv
  <2> QED BY <2>2, <2>3, <2>4, <2>5
<1>3. ASSUME Reads,
             inbox[1].kind # "ReadyForQuery" =>
                 pending_ready_for_query_count' = pending_ready_for_query_count
      PROVE  TornInv'
  <2>1. inbox # <<>> /\ inbox' = Tail(inbox) /\ UNCHANGED <<wbuf, sent, copying, torn>>
    BY <1>3 DEF Reads, server
  <2>2. ~ Has(inbox, RFQ) => inbox[1].kind # "ReadyForQuery" /\ ~ Has(inbox', RFQ)
    BY <2>1, <1>t, FirstHas, TailHas DEF RFQ
  <2> QED BY <1>3, <2>1, <2>2 DEF TornInv
<1>4. CASE AbortStep \/ PassStep \/ EndStep \/ \E g : ReplyStep(g)
  <2>1. Reads BY <1>4 DEF AbortStep, PassStep, EndStep, ReplyStep
  <2>2. \/ UNCHANGED pending_ready_for_query_count
        \/ pending_ready_for_query_count' = handle_ready_for_query(inbox[1])
    BY <1>4 DEF AbortStep, PassStep, EndStep, ReplyStep
  <2> QED BY <2>1, <2>2, <1>3 DEF handle_ready_for_query
<1>5. CASE \E g, K : WriteStep(g, K) BY <1>5 DEF WriteStep, TornInv, server
<1>6. CASE \E g : FlushStep(g)
  <2>1. PICK g : FlushStep(g) BY <1>6
  <2>2. Has(wbuf, Syncs) BY <2>1 DEF FlushStep, OwnInv
  <2>3. wbuf # <<>> /\ torn' = torn BY <2>1, <2>2, NoMessages, Zenon DEF FlushStep, server
  <2> QED BY <2>3 DEF TornInv
<1>7. CASE \E m, r : Served(m, r)
  <2>1. PICK m, r : Served(m, r) BY <1>7
  <2>2. UNCHANGED <<frames, calls, first, result, conn, wbuf, copying, open, notes, torn>>
    BY <2>1 DEF Served
  <2>3. UNCHANGED <<pending_ready_for_query_count, wbuf, copying, torn>> BY <2>2 DEF conn
  <2>4. /\ sent # <<>> /\ sent' = Tail(sent) /\ m = sent[1] /\ r \in Seq(Reply)
        /\ inbox' = inbox \o r /\ (m.kind \notin Syncs => ~ Has(r, RFQ))
    BY <2>1 DEF Served
  <2>5. ~ Has(sent, Syncs) => m.kind \notin Syncs /\ ~ Has(sent', Syncs)
    BY <2>4, <1>t, FirstHas, TailHas
  <2>6. Has(inbox', RFQ) <=> Has(inbox, RFQ) \/ Has(r, RFQ) BY <2>4, <1>t, ConcatHas
  <2> QED BY <2>3, <2>4, <2>5, <2>6 DEF TornInv
<1>8. CASE CopyStep
  <2>1. sent # <<>> /\ sent[1].kind \in Syncs /\ torn' = torn BY <1>8 DEF CopyStep, Syncs
  <2>2. Has(sent, Syncs) BY <2>1, <1>t, FirstHas
  <2> QED BY <2>1, <2>2 DEF TornInv
<1>9. CASE GoneStep
  <2>1. UNCHANGED <<pending_ready_for_query_count, wbuf, copying, torn>> /\ sent' = <<>>
    BY <1>9 DEF GoneStep, conn
  <2>2. PICK n \in 0..Len(inbox) : inbox' = SubSeq(inbox, 1, n) BY <1>9 DEF GoneStep
  <2>3. Has(inbox', RFQ) => Has(inbox, RFQ) BY <2>2, <1>t, PrefixHas
  <2> QED BY <2>1, <2>3, NoMessages DEF TornInv
<1>10. CASE NoteStep
  <2>1. UNCHANGED <<pending_ready_for_query_count, wbuf, sent, copying, torn>>
    BY <1>10 DEF NoteStep, conn
  <2>2. PICK x \in Reply : inbox' = Append(inbox, x) /\ x.kind = "NotificationResponse"
    BY <1>10 DEF NoteStep
  <2>3. x.kind \notin RFQ BY <2>2 DEF RFQ
  <2>4. Has(inbox', RFQ) <=> Has(inbox, RFQ) BY <2>2, <2>3, <1>t, AppendHas, Zenon
  <2> QED BY <2>1, <2>4 DEF TornInv
<1>11. CASE CloseStep
  <2>1. UNCHANGED <<pending_ready_for_query_count, wbuf, inbox, copying, torn>>
    BY <1>11 DEF CloseStep, server
  <2>2. Has(sent', Syncs) => Has(sent, Syncs)
    <3>1. CASE \E m \in Msg : sent' = Append(sent, m) /\ m.kind = "Terminate"
      <4>1. PICK m \in Msg : sent' = Append(sent, m) /\ m.kind = "Terminate" BY <3>1
      <4>2. m.kind \notin Syncs BY <4>1 DEF Syncs
      <4> QED BY <4>1, <4>2, <1>t, AppendHas, Zenon
    <3> QED BY <3>1, <1>11 DEF CloseStep
  <2> QED BY <2>1, <2>2 DEF TornInv
<1> QED BY <1>1, <1>2, <1>4, <1>5, <1>6, <1>7, <1>8, <1>9, <1>10, <1>11, Zenon DEF Effect

-----------------------------------------------------------------------------
(* The statements of the client are those of the server. *)

\* StatementInv holds as long as nothing is added to what it claims.
LEMMA KeepsStatements ==
  ASSUME StatementInv, Keeps PROVE StatementInv'
<1>1. cache' = cache /\ ids' = ids /\ stmts' = stmts BY DEF Keeps, statements
<1>2. \A n, q : Known(n, q)' <=> Known(n, q) BY <1>1 DEF Known
<1>3. Keys(cache') = Keys(cache) BY <1>1
<1>4. CacheKnown' BY <1>1, <1>2, <1>3 DEF StatementInv, CacheKnown, Known
<1>5. FramesKnown' BY <1>1, <1>2, <1>3 DEF StatementInv, FramesKnown, Keeps, FramesKeep, Known
<1>6. ParsedKnown' BY <1>1, <1>2 DEF StatementInv, ParsedKnown, Keeps, Known
<1>7. BindsKnown' BY <1>1, <1>2 DEF StatementInv, BindsKnown, Keeps, Known
<1>8. ClosesApart' BY <1>1, <1>3 DEF StatementInv, ClosesApart, Keeps, FramesKeep
<1> QED BY <1>4, <1>5, <1>6, <1>7, <1>8 DEF StatementInv

\* A move that claims nothing new.
LEMMA MovesKeep ==
  ASSUME NEW g, Moves(g), g.step \in HeldSteps => Top.step \in HeldSteps /\ g.id = Top.id,
         g.step \in MissSteps => Top.step \in MissSteps
  PROVE  FramesKeep
<1>1. 1 \in DOMAIN frames /\ DOMAIN frames' = DOMAIN frames BY DEF Moves
<1> QED BY <1>1 DEF Moves, FramesKeep, Top

\* Flushing, reading, giving up, and serving what is neither a Parse nor a Close.
LEMMA ChannelKeeps ==
  ASSUME BasicInv, ChannelInv, OwnInv, StatementInv,
         \/ DropStep \/ AbortStep \/ PassStep \/ EndStep
         \/ CopyStep \/ GoneStep \/ NoteStep \/ CloseStep
         \/ \E g : FlushStep(g)
         \/ \E g : ReplyStep(g) /\ Top.step # "parse_complete"
         \/ \E m, r : Served(m, r) /\ stmts' = stmts
  PROVE  Keeps
<1>t. wbuf \in Seq(Msg) /\ sent \in Seq(Msg) /\ inbox \in Seq(Reply) /\ frames \in Seq(FrameRec)
  BY DEF BasicInv, TypeInv
<1>1. ASSUME stmts' = stmts, UNCHANGED statements, FramesKeep, Phase' # "parse_complete",
             UNCHANGED <<wbuf, sent>> \/ Buffered' \subseteq Buffered
      PROVE  Keeps
  BY <1>1, Zenon DEF Keeps, Buffered
<1>2. ASSUME stmts' = stmts, UNCHANGED statements, UNCHANGED frames, Buffered' \subseteq Buffered,
             Has(inbox', {"ParseComplete"}) => Has(inbox, {"ParseComplete"})
      PROVE  Keeps
  BY <1>2 DEF Keeps, FramesKeep, Phase, Top
<1>3. ASSUME Reads PROVE stmts' = stmts /\ UNCHANGED statements /\ UNCHANGED <<wbuf, sent>>
  BY <1>3 DEF Reads, server
<1>4. CASE DropStep
  <2>1. PICK n \in 0..Len(wbuf) : sent' = sent \o SubSeq(wbuf, 1, n) BY <1>4 DEF DropStep
  <2>2. /\ frames' = <<>> /\ Phase' = "idle" /\ wbuf' = <<>> /\ stmts' = stmts /\ UNCHANGED statements
    BY <1>4 DEF DropStep, conn
  <2>3. \A i \in DOMAIN (sent \o SubSeq(wbuf, 1, n)) :
           \/ i \in DOMAIN sent /\ (sent \o SubSeq(wbuf, 1, n))[i] = sent[i]
           \/ i - Len(sent) \in DOMAIN wbuf /\ (sent \o SubSeq(wbuf, 1, n))[i] = wbuf[i - Len(sent)]
    BY <1>t
  <2>4. Buffered' \subseteq Buffered BY <2>1, <2>2, <2>3 DEF Buffered
  <2>5. FramesKeep BY <2>2 DEF FramesKeep
  <2> QED BY <1>1, <2>2, <2>4, <2>5
<1>5. CASE AbortStep
  <2>1. FramesKeep BY <1>5 DEF FramesKeep, AbortStep
  <2> QED BY <1>1, <1>3, <1>5, <2>1 DEF AbortStep
<1>6. CASE PassStep
  <2>1. Reads /\ UNCHANGED frames /\ inbox # <<>> /\ inbox' = Tail(inbox)
    BY <1>6, Zenon DEF PassStep, Reads
  <2>2. Has(inbox', {"ParseComplete"}) => Has(inbox, {"ParseComplete"}) BY <2>1, <1>t, TailHas
  <2>3. Buffered' \subseteq Buffered BY <2>1, <1>3 DEF Buffered
  <2> QED BY <1>2, <1>3, <2>1, <2>2, <2>3
<1>7. CASE EndStep
  <2>1. Reads /\ frames # <<>> /\ Return("Ok") BY <1>7 DEF EndStep, Reads
  <2>2. FramesKeep
    <3>1. \A i \in DOMAIN Tail(frames) : i + 1 \in DOMAIN frames /\ Tail(frames)[i] = frames[i + 1]
      BY <2>1, <1>t
    <3> QED BY <2>1, <3>1 DEF Return, FramesKeep
  <2>3. Phase' \in {"idle", "types"} BY <2>1, ReturnFrames
  <2> QED BY <1>1, <1>3, <2>1, <2>2, <2>3
<1>8. CASE CopyStep
  <2>1. PICK x \in Reply : inbox' = Append(inbox, x) /\ x.kind = "CopyInResponse"
    BY <1>8 DEF CopyStep
  <2>2. Has(inbox', {"ParseComplete"}) => Has(inbox, {"ParseComplete"})
    BY <2>1, <1>t, AppendHas, Zenon
  <2>3. /\ stmts' = stmts /\ UNCHANGED statements /\ UNCHANGED frames /\ wbuf' = wbuf
        /\ sent # <<>> /\ sent' = Tail(sent)
    BY <1>8 DEF CopyStep, conn
  <2>4. \A i \in DOMAIN Tail(sent) : i + 1 \in DOMAIN sent /\ Tail(sent)[i] = sent[i + 1]
    BY <2>3, <1>t
  <2>5. Buffered' \subseteq Buffered BY <2>3, <2>4 DEF Buffered
  <2> QED BY <1>2, <2>2, <2>3, <2>5
<1>9. CASE GoneStep
  <2>1. PICK n \in 0..Len(inbox) : inbox' = SubSeq(inbox, 1, n) BY <1>9 DEF GoneStep
  <2>2. Has(inbox', {"ParseComplete"}) => Has(inbox, {"ParseComplete"})
    BY <2>1, <1>t, PrefixHas, Zenon
  <2>3. /\ stmts' = stmts /\ UNCHANGED statements /\ UNCHANGED frames /\ wbuf' = wbuf /\ sent' = <<>>
    BY <1>9 DEF GoneStep, conn
  <2>4. Buffered' \subseteq Buffered BY <2>3 DEF Buffered
  <2> QED BY <1>2, <2>2, <2>3, <2>4
<1>10. CASE NoteStep
  <2>1. PICK x \in Reply : inbox' = Append(inbox, x) /\ x.kind = "NotificationResponse"
    BY <1>10 DEF NoteStep
  <2>2. Has(inbox', {"ParseComplete"}) => Has(inbox, {"ParseComplete"})
    BY <2>1, <1>t, AppendHas, Zenon
  <2>3. /\ stmts' = stmts /\ UNCHANGED statements /\ UNCHANGED frames /\ wbuf' = wbuf /\ sent' = sent
    BY <1>10 DEF NoteStep, conn
  <2>4. Buffered' \subseteq Buffered BY <2>3 DEF Buffered
  <2> QED BY <1>2, <2>2, <2>3, <2>4
<1>11. CASE CloseStep
  <2>1. /\ stmts' = stmts /\ UNCHANGED statements /\ frames = <<>> /\ frames' = frames /\ wbuf' = wbuf
    BY <1>11 DEF CloseStep, server
  <2>2. FramesKeep /\ Phase' # "parse_complete" BY <2>1 DEF FramesKeep, Phase
  <2>3. \A m \in Buffered' : m.kind \in {"Bind", "Close"} => m \in Buffered
    <3>1. CASE sent' = sent BY <2>1, <3>1 DEF Buffered
    <3>2. CASE \E m \in Msg : sent' = Append(sent, m) /\ m.kind = "Terminate"
      <4>1. PICK x \in Msg : sent' = Append(sent, x) /\ x.kind = "Terminate" BY <3>2
      <4>2. \A i \in DOMAIN Append(sent, x) :
               Append(sent, x)[i] = x \/ (i \in DOMAIN sent /\ Append(sent, x)[i] = sent[i])
        BY <1>t
      <4> QED BY <2>1, <4>1, <4>2 DEF Buffered
    <3> QED BY <1>11, <3>1, <3>2 DEF CloseStep
  <2> QED BY <2>1, <2>2, <2>3 DEF Keeps
<1>12. CASE \E g : FlushStep(g)
  <2>1. PICK g : FlushStep(g) BY <1>12
  <2>2. /\ Moves(g) /\ Phase' = g.step /\ g.id = Top.id /\ g.step = AfterFlush(Top.step)
        /\ Top.step \in FlushSteps
        /\ wbuf' = <<>> /\ sent' = (IF open THEN sent \o wbuf ELSE sent)
        /\ stmts' = stmts /\ UNCHANGED statements /\ inbox' = inbox
    BY <2>1, Zenon DEF FlushStep, conn, server
  <2>3. FramesKeep BY <2>2, MovesKeep DEF AfterFlush, FlushSteps, HeldSteps, MissSteps
  <2>4. \A i \in DOMAIN (sent \o wbuf) :
           \/ i \in DOMAIN sent /\ (sent \o wbuf)[i] = sent[i]
           \/ i - Len(sent) \in DOMAIN wbuf /\ (sent \o wbuf)[i] = wbuf[i - Len(sent)]
    BY <1>t
  <2>5. Buffered' \subseteq Buffered
    <3>1. CASE open BY <3>1, <2>2, <2>4 DEF Buffered
    <3>2. CASE ~ open BY <3>2, <2>2 DEF Buffered
    <3> QED BY <3>1, <3>2
  <2>6. ~ Has(inbox', {"ParseComplete"})
    <3>1. wbuf # <<>> BY <2>1, NoMessages, Zenon DEF FlushStep, OwnInv
    <3> QED BY <3>1, <2>2, Zenon DEF ChannelInv, Calm, Only, Has, Note
  <2> QED BY <2>2, <2>3, <2>5, <2>6 DEF Keeps
<1>13. CASE \E g : ReplyStep(g) /\ Top.step # "parse_complete"
  <2>1. PICK g : ReplyStep(g) /\ Top.step # "parse_complete" BY <1>13
  <2>2. Moves(g) /\ Phase' = g.step /\ g.id = Top.id /\ Leads(Top, g, inbox[1].kind) /\ Reads
    BY <2>1 DEF ReplyStep
  <2>3. FramesKeep BY <2>1, <2>2, MovesKeep, Zenon DEF Leads, AfterPrepare, HeldSteps, MissSteps
  <2>4. g.step # "parse_complete" BY <2>1, <2>2, Zenon DEF Leads, AfterPrepare
  <2> QED BY <1>1, <1>3, <2>2, <2>3, <2>4
<1>14. CASE \E m, r : Served(m, r) /\ stmts' = stmts
  <2>1. PICK m, r : Served(m, r) /\ stmts' = stmts BY <1>14
  <2>2. UNCHANGED <<frames, calls, first, result, conn, wbuf, copying, open, notes, torn>>
    BY <2>1, Zenon DEF Served
  <2>3. /\ stmts' = stmts /\ UNCHANGED statements /\ UNCHANGED frames /\ wbuf' = wbuf
        /\ sent # <<>> /\ sent' = Tail(sent) /\ inbox' = inbox \o r /\ r \in Seq(Reply)
    BY <2>1, <2>2, Zenon DEF Served, conn
  <2>4. \A i \in DOMAIN Tail(sent) : i + 1 \in DOMAIN sent /\ Tail(sent)[i] = sent[i + 1]
    BY <2>3, <1>t
  <2>5. Buffered' \subseteq Buffered BY <2>3, <2>4, Zenon DEF Buffered
  <2>6. ~ Has(r, {"ParseComplete"})
    <3>1. ASSUME m.id \notin DOMAIN stmts,
                 stmts' = [x \in DOMAIN stmts \cup {m.id} |-> IF x = m.id THEN m.sql ELSE stmts[x]]
          PROVE  FALSE
      BY <2>1, <3>1
    <3> QED BY <2>1, <3>1, Zenon DEF Served
  <2>7. Has(inbox', {"ParseComplete"}) => Has(inbox, {"ParseComplete"})
    <3>1. Has(inbox \o r, {"ParseComplete"}) <=> Has(inbox, {"ParseComplete"}) \/ Has(r, {"ParseComplete"})
      BY <2>3, <1>t, ConcatHas
    <3> QED BY <2>3, <2>6, <3>1
  <2> QED BY <1>2, <2>3, <2>5, <2>7
<1> QED BY <1>4, <1>5, <1>6, <1>7, <1>8, <1>9, <1>10, <1>11, <1>12, <1>13, <1>14

\* ParseComplete: the server has the statement.
LEMMA ParsedStatements ==
  ASSUME BasicInv, ChannelInv, OwnInv, StatementInv, NEW g, ReplyStep(g), Top.step = "parse_complete"
  PROVE  StatementInv'
<1>t. wbuf \in Seq(Msg) /\ sent \in Seq(Msg) /\ inbox \in Seq(Reply) BY DEF BasicInv, TypeInv
<1>1. /\ Reads /\ Moves(g) /\ Phase' = g.step /\ Phase = "parse_complete" /\ g.id = Top.id
      /\ inbox[1].kind = "ParseComplete" /\ g.step \in {"param_desc", "parse_rfq"}
      /\ g.sql = Top.sql
  BY Zenon DEF ReplyStep, Leads, Moves
<1>2. /\ UNCHANGED <<wbuf, sent>> /\ cache' = cache /\ ids' = ids /\ stmts' = stmts
      /\ inbox # <<>> /\ wbuf = <<>>
  BY <1>1, Zenon DEF Reads, server, statements, ChannelInv
<1>3. Known(Top.id, Top.sql)
  <2>1. Has(inbox, {"ParseComplete"}) BY <1>1, <1>2, <1>t, FirstHas
  <2> QED BY <1>1, <2>1 DEF StatementInv, ParsedKnown
<1>4. \A m \in Buffered' : m.kind # "Close" /\ m \in Buffered
  <2>1. Own(sent, Top) BY <1>1 DEF OwnInv, BusySteps, ReplySteps
  <2>2. \A i \in DOMAIN sent : sent[i].kind # "Close" BY <1>1, <2>1, TopFrame DEF Own, Group, Moves
  <2> QED BY <2>2, <1>2 DEF Buffered
<1>5. CacheKnown' BY <1>2 DEF StatementInv, CacheKnown, Known, Keys
<1>6. FramesKnown'
  <2>1. 1 \in DOMAIN frames /\ frames[1] = Top BY <1>1 DEF Moves, Top
  <2>2. Top.sql \notin Keys(cache) BY <2>1, Zenon DEF StatementInv, FramesKnown, MissSteps
  <2>3. ASSUME NEW i \in DOMAIN frames'
        PROVE  /\ frames'[i].step \in HeldSteps => Known(frames'[i].id, frames'[i].sql)
               /\ frames'[i].step \in MissSteps => frames'[i].sql \notin Keys(cache)
    BY <1>1, <1>3, <2>2, <2>3, Zenon DEF Moves, StatementInv, FramesKnown
  <2> QED BY <2>3, <1>2, Zenon DEF FramesKnown, Known
<1>7. ParsedKnown' BY <1>1 DEF ParsedKnown
<1>8. BindsKnown' BY <1>2, <1>4, Zenon DEF StatementInv, BindsKnown, Known
<1>9. ClosesApart' BY <1>4, Zenon DEF ClosesApart
<1> QED BY <1>5, <1>6, <1>7, <1>8, <1>9 DEF StatementInv

\* The server adds a statement, or drops one.
LEMMA ServedStatements ==
  ASSUME BasicInv, ChannelInv, OwnInv, StatementInv, NEW m, NEW r, Served(m, r), stmts' # stmts
  PROVE  StatementInv'
<1>t. wbuf \in Seq(Msg) /\ sent \in Seq(Msg) /\ inbox \in Seq(Reply) BY DEF BasicInv, TypeInv
<1>1. UNCHANGED <<frames, calls, first, result, conn, wbuf, copying, open, notes, torn>> BY DEF Served
<1>2. /\ cache' = cache /\ ids' = ids /\ UNCHANGED frames /\ wbuf' = wbuf /\ Phase' = Phase /\ Top' = Top
      /\ sent # <<>> /\ sent' = Tail(sent) /\ m = sent[1]
      /\ inbox' = inbox \o r /\ r \in Seq(Reply)
  BY <1>1 DEF Served, conn, statements, Phase, Top
<1>3. Buffered' \subseteq Buffered /\ m \in Buffered
  <2>1. /\ 1 \in DOMAIN sent
        /\ \A i \in DOMAIN Tail(sent) : i + 1 \in DOMAIN sent /\ Tail(sent)[i] = sent[i + 1]
    BY <1>2, <1>t
  <2> QED BY <1>2, <2>1 DEF Buffered
<1>4. ClosesApart' BY <1>2, <1>3 DEF StatementInv, ClosesApart, Keys
<1>5. Phase = "parse_complete" => m.kind \in {"Parse", "Describe", "Sync"}
                                  /\ (m.kind = "Parse" => m.id = Top.id /\ m.sql = Top.sql)
  <2> SUFFICES ASSUME Phase = "parse_complete"
               PROVE  /\ m.kind \in {"Parse", "Describe", "Sync"}
                      /\ m.kind = "Parse" => m.id = Top.id /\ m.sql = Top.sql
    OBVIOUS
  <2>1. Own(sent, Top) BY DEF OwnInv, BusySteps, ReplySteps
  <2>2. frames # <<>> BY DEF Phase
  <2>3. Top.step = "parse_complete" BY <2>2, TopFrame
  <2> QED BY <1>2, <1>t, <2>1, <2>3 DEF Own, Group
<1>6. CASE /\ m.kind = "Parse" /\ m.id \notin DOMAIN stmts
           /\ stmts' = [x \in DOMAIN stmts \cup {m.id} |-> IF x = m.id THEN m.sql ELSE stmts[x]]
  <2>1. \A n, q : Known(n, q) => n \in DOMAIN stmts' /\ stmts'[n] = q BY <1>6 DEF Known
  <2>2. m.id \in DOMAIN stmts' /\ stmts'[m.id] = m.sql BY <1>6
  <2>3. CacheKnown' BY <1>2, <2>1 DEF StatementInv, CacheKnown, Known, Keys
  <2>4. FramesKnown' BY <1>2, <2>1, Zenon DEF StatementInv, FramesKnown, Known, Keys
  <2>5. ParsedKnown' BY <1>2, <1>5, <1>6, <2>2 DEF ParsedKnown, Known
  <2>6. BindsKnown' BY <1>3, <2>1 DEF StatementInv, BindsKnown, Known
  <2> QED BY <1>4, <2>3, <2>4, <2>5, <2>6 DEF StatementInv
<1>7. CASE m.kind = "Close" /\ stmts' = [x \in DOMAIN stmts \ {m.id} |-> stmts[x]]
  <2>1. \A n, q : Known(n, q) /\ n # m.id => n \in DOMAIN stmts' /\ stmts'[n] = q BY <1>7 DEF Known
  <2>2. /\ \A n \in Buffered : n.kind # "Bind"
        /\ \A q \in Keys(cache) : ids[q] # m.id
        /\ \A i \in DOMAIN frames : frames[i].step \in HeldSteps => frames[i].id # m.id
    BY <1>3, <1>7 DEF StatementInv, ClosesApart
  <2>3. CacheKnown'
    <3>1. \A q \in Keys(cache) : ids[q] \in DOMAIN stmts' /\ stmts'[ids[q]] = q
      BY <2>1, <2>2 DEF StatementInv, CacheKnown
    <3> QED BY <1>2, <3>1 DEF CacheKnown, Known, Keys
  <2>4. FramesKnown' BY <1>2, <2>1, <2>2 DEF StatementInv, FramesKnown, Known, Keys
  <2>5. ParsedKnown' BY <1>2, <1>5, <1>7 DEF ParsedKnown
  <2>6. BindsKnown' BY <1>3, <2>2 DEF BindsKnown
  <2> QED BY <1>4, <2>3, <2>4, <2>5, <2>6 DEF StatementInv
<1> QED BY <1>6, <1>7, Zenon DEF Served
=============================================================================
