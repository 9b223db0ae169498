----------------------- MODULE MySqlConnection_proofs -----------------------
(***************************************************************************)
(* A MySQL connection keeps its replies and its statements apart, for every *)
(* number of operations, results and rows and every cache capacity, if      *)
(* futures are dropped only at the awaits where `waiting` says what is left *)
(* to read.                                                                 *)
(***************************************************************************)
EXTENDS MySqlChannel_proofs

-----------------------------------------------------------------------------
(* The steps that read a packet. *)

\* The operation that reads.
Reading ==
    /\ Read /\ ~ Flushing
    /\ UNCHANGED <<calls, deprecate_eof, cache, ids, closed, wbuf, sent, stmts, next_id, open>>

\* The next packet continues the reply.
LEMMA HeadLeads ==
  ASSUME MyInv, inbox # <<>>
  PROVE  \E s, t \in Place : Awaiting(s) /\ Leads(deprecate_eof, s, inbox[1], t)
<1>1. inbox \in Seq(PacketRec) BY DEF MyInv, TypeInv
<1>2. PICK s \in Place : Awaiting(s) /\ \E t \in Place : Runs(deprecate_eof, inbox, s, t)
  BY DEF MyInv, ChannelInv
<1>3. \E x \in Place : Leads(deprecate_eof, s, inbox[1], x) BY <1>1, <1>2, RunsTail
<1> QED BY <1>2, <1>3

\* A packet is read.
LEMMA ReadStep ==
  ASSUME MyInv, Reading, op' \in OpRec,
         op'.step \notin {"prepare_flush", "close_flush", "run_flush", "ping_flush"},
         waiting' \in {<<>>, <<"Result">>, <<"Row">>}, PhaseInv', StatementInv', Busy' => Busy,
         \A s, t \in Place : Awaiting(s) /\ Leads(deprecate_eof, s, inbox[1], t) => Awaiting(t)'
  PROVE  MyInv'
<1>1. inbox # <<>> /\ inbox' = Tail(inbox) /\ inbox \in Seq(PacketRec)
  BY DEF Reading, Read, MyInv, TypeInv
<1>2. inbox' \in Seq(PacketRec) BY <1>1
<1>3. TypeInv' BY <1>2 DEF MyInv, TypeInv, Reading
<1>4. Keys(wbuf') = {} BY DEF Reading, MyInv, BufferInv
<1>5. BufferInv' BY <1>4 DEF BufferInv, Flushing
<1>6. ChannelInv' /\ OneAsked' BY ReadChannel DEF MyInv, Reading
<1>7. OwnInv' BY ReadOwn DEF MyInv, Reading
<1> QED BY <1>3, <1>5, <1>6, <1>7 DEF MyInv

\* A packet is read that names no statement.
LEMMA ReadCarries ==
  ASSUME MyInv, Reading, op'.step # "prepare_ok",
         op'.step \in Held => op.step \in Held /\ op'.id = op.id /\ op'.sql = op.sql,
         op'.step \in MissSteps => op.step \in MissSteps /\ op'.sql = op.sql
  PROVE  StatementInv'
<1>1. Carries BY DEF Carries, Reading, Commands
<1> QED BY <1>1, CarriesStatements DEF MyInv

\* An error ends the reply, wherever it is read.
LEMMA ErrLeads ==
  ASSUME NEW de, NEW s, NEW p, NEW t, p.kind = "ERR", Leads(de, s, p, t) PROVE t = Over
BY DEF Leads

\* The operation ends with the packet.
LEMMA ReadEnds ==
  ASSUME MyInv, Reading, op' = Idle, waiting' \in {<<>>, <<"Result">>, <<"Row">>},
         \A s, t \in Place : Awaiting(s) /\ Leads(deprecate_eof, s, inbox[1], t) => Awaiting(t)'
  PROVE  MyInv'
<1>1. op' \in OpRec /\ op'.step = "idle" /\ op'.kind = "none" BY Fields, Zenon DEF MyInv, TypeInv
<1>2. PhaseInv' BY <1>1 DEF PhaseInv, PrepareSteps
<1>3. ~ Busy' BY <1>1 DEF Busy
<1>4. StatementInv' BY <1>1, ReadCarries DEF Held, MissSteps
<1> QED BY <1>1, <1>2, <1>3, <1>4, ReadStep

\* Between operations, what is announced is awaited.
LEMMA IdleAwaiting ==
  ASSUME op.step \in {"idle", "ready"}
  PROVE  /\ waiting = <<>> => Awaiting(Over)
         /\ waiting = <<"Result">> => Awaiting(AResult)
         /\ waiting = <<"Row">> => Awaiting(InSet(0))
         /\ waiting = <<"Row">> /\ deprecate_eof => \A n \in Nat : Awaiting(InSet(n))
BY Waits DEF Awaiting

\* recv_packet emits the error of the server.
LEMMA RecvErrStep == ASSUME MyInv, RecvErr PROVE MyInv'
<1>1. /\ Reads /\ Read /\ inbox[1].kind = "ERR" /\ waiting' = PopFront(waiting) /\ op' = Idle
      /\ UNCHANGED <<calls, deprecate_eof, cache, ids, closed, wbuf, sent, stmts, next_id, open>>
  BY DEF RecvErr, End, statements, server
<1>2. ~ Flushing BY <1>1 DEF Reads, Draining, At, Flushing
<1>3. waiting' = <<>> BY <1>1, Waits, Zenon DEF MyInv, TypeInv
<1>4. op'.step = "idle" BY <1>1, Fields, Zenon DEF MyInv, TypeInv
<1>5. (op.step \in {"idle", "ready"} => (waiting = <<>> => Awaiting(Over)))' BY IdleAwaiting, PTL
<1>6. Awaiting(Over)' BY <1>3, <1>4, <1>5
<1>7. ASSUME NEW s \in Place, NEW t \in Place, Leads(deprecate_eof, s, inbox[1], t) PROVE Awaiting(t)'
  BY <1>1, <1>6, <1>7, ErrLeads
<1> QED BY <1>1, <1>2, <1>3, <1>7, ReadEnds DEF Reading

\* wait_until_ready skips a row,
LEMMA DrainRowStep == ASSUME MyInv, DrainRow PROVE MyInv'
<1> DEFINE p == inbox[1]
<1>t. op \in OpRec /\ waiting \in {<<>>, <<"Result">>, <<"Row">>} /\ PhaseInv /\ deprecate_eof \in BOOLEAN
  BY DEF MyInv, TypeInv
<1>1. /\ op.step = "ready" /\ waiting = <<"Row">> /\ Read /\ p.kind # "ERR" /\ op' = op
      /\ UNCHANGED <<calls, deprecate_eof, cache, ids, closed, wbuf, sent, stmts, next_id, open>>
  BY <1>t, Waits DEF DrainRow, Draining, At, Packet, statements, server
<1>2. /\ p.kind = "EOF" => waiting' = IF p.more THEN <<"Result">> ELSE <<>>
      /\ p.kind # "EOF" => waiting' = <<"Row">>
  BY <1>1, Waits DEF DrainRow, EndsRows, More
<1>3. waiting' \in {<<>>, <<"Result">>, <<"Row">>} BY <1>2
<1>4. Reading BY <1>1 DEF Reading, Flushing
<1>5. (op.step \in {"idle", "ready"} =>
         /\ waiting = <<>> => Awaiting(Over)
         /\ waiting = <<"Result">> => Awaiting(AResult)
         /\ waiting = <<"Row">> => Awaiting(InSet(0))
         /\ waiting = <<"Row">> /\ deprecate_eof => \A n \in Nat : Awaiting(InSet(n)))'
  BY IdleAwaiting, PTL
<1>6. ASSUME NEW s \in Place, NEW t \in Place, Awaiting(s), Leads(deprecate_eof, s, p, t)
      PROVE  Awaiting(t)'
  <2>1. PICK n \in Nat : s = InSet(n) /\ (n > 0 => deprecate_eof) BY <1>1, <1>6 DEF Awaiting
  <2>2. CASE n = 0
    <3>1. \/ p.kind = "Row" /\ t = InSet(0)
          \/ p.kind = "EOF" /\ t = IF p.more THEN AResult ELSE Over
      BY <2>1, <2>2, <1>1, <1>6, FromRows
    <3> QED BY <3>1, <1>1, <1>2, <1>5
  <2>3. CASE n > 0
    <3>1. p.kind = "Definition" /\ t = InSet(n - 1) BY <2>1, <2>3, <1>6, FromDefinitions, Zenon
    <3>2. deprecate_eof' /\ waiting' = <<"Row">> /\ n - 1 \in Nat BY <3>1, <2>1, <2>3, <1>1, <1>2
    <3> QED BY <3>1, <3>2, <1>1, <1>5
  <2> QED BY <2>2, <2>3
<1>7. PhaseInv' BY <1>1, <1>t DEF PhaseInv, PrepareSteps
<1>8. StatementInv' BY <1>1, <1>4, ReadCarries DEF Held, MissSteps
<1> QED BY <1>1, <1>3, <1>4, <1>6, <1>7, <1>8, <1>t, ReadStep DEF Busy

\* The number of definitions is a number.
LEMMA DefinitionsNat ==
  ASSUME NEW n \in Nat, deprecate_eof \in BOOLEAN
  PROVE  Definitions(n) = Defined(deprecate_eof, n) /\ Definitions(n) \in Nat
BY DEF Definitions, Defined

\* or the first packet of a result,
LEMMA DrainResultStep == ASSUME MyInv, DrainResult PROVE MyInv'
<1> DEFINE p == inbox[1]
<1>t. op \in OpRec /\ waiting \in {<<>>, <<"Result">>, <<"Row">>} /\ PhaseInv /\ deprecate_eof \in BOOLEAN
  BY DEF MyInv, TypeInv
<1>1. /\ op.step = "ready" /\ waiting = <<"Result">> /\ Read /\ p.kind # "ERR"
      /\ UNCHANGED <<calls, deprecate_eof, cache, ids, closed, wbuf, sent, stmts, next_id, open>>
  BY <1>t, Waits, Zenon DEF DrainResult, Draining, At, Packet, statements, server
<1>2. Reading BY <1>1 DEF Reading, Flushing
<1>p. p \in PacketRec BY <1>1 DEF MyInv, TypeInv, Read
<1>3. CASE LooksOk(p)
  <2>1. /\ op' = op /\ waiting' \in {<<"Result">>, <<>>}
        /\ p.kind = "OK" => waiting' = IF p.more THEN <<"Result">> ELSE <<>>
    BY <1>1, <1>3, Waits DEF DrainResult, More
  <2>2. (op.step \in {"idle", "ready"} =>
           /\ waiting = <<>> => Awaiting(Over)
           /\ waiting = <<"Result">> => Awaiting(AResult))'
    BY IdleAwaiting, PTL
  <2>3. ASSUME NEW s \in Place, NEW t \in Place, Awaiting(s), Leads(deprecate_eof, s, p, t)
        PROVE  Awaiting(t)'
    <3>1. s = AResult BY <1>1, <2>3 DEF Awaiting
    <3>2. p.kind = "OK" /\ t = IF p.more THEN AResult ELSE Over
      BY <3>1, <1>1, <1>3, <2>3, FromResult DEF LooksOk
    <3> QED BY <3>2, <1>1, <2>1, <2>2
  <2>4. PhaseInv' BY <1>1, <2>1, <1>t DEF PhaseInv, PrepareSteps
  <2>5. StatementInv' BY <1>1, <1>2, <2>1, ReadCarries DEF Held, MissSteps
  <2> QED BY <1>1, <1>2, <2>1, <2>3, <2>4, <2>5, <1>t, ReadStep DEF Busy
<1>4. CASE ~ LooksOk(p)
  <2>1. PICK n \in Count(p) : op' = [op EXCEPT !.step = "skip", !.left = Definitions(n)]
    BY <1>4, Zenon DEF DrainResult
  <2>2. waiting' = <<"Row">> BY <1>1, <1>4, Waits, Zenon DEF DrainResult
  <2>3. n \in Nat /\ (p.kind = "ColumnCount" => n = p.n) BY <1>p DEF Count, PacketRec
  <2>4. PICK d \in Nat : d = Definitions(n) /\ d = Defined(deprecate_eof, n)
    BY <2>3, <1>t, DefinitionsNat
  <2>5. op' = [op EXCEPT !.step = "skip", !.left = d] /\ "skip" \in Step BY <2>1, <2>4 DEF Step
  <2>6. op' \in OpRec /\ op'.step = "skip" /\ op'.left = d /\ op'.kind = op.kind /\ op'.sql = op.sql
    BY <2>5, <1>t, Zenon DEF OpRec
  <2>7. ASSUME NEW s \in Place, NEW t \in Place, Awaiting(s), Leads(deprecate_eof, s, p, t)
        PROVE  Awaiting(t)'
    <3>1. s = AResult BY <1>1, <2>7 DEF Awaiting
    <3>2. p.kind = "ColumnCount" /\ t = InSet(Defined(deprecate_eof, p.n))
      BY <3>1, <1>1, <1>4, <2>7, FromResult DEF LooksOk
    <3> QED BY <3>2, <2>3, <2>4, <2>6 DEF Awaiting
  <2>8. PhaseInv' BY <2>2, <2>6, <1>t DEF PhaseInv, PrepareSteps
  <2>9. StatementInv' BY <1>2, <2>6, ReadCarries DEF Held, MissSteps
  <2> QED BY <1>2, <2>2, <2>6, <2>7, <2>8, <2>9, ReadStep DEF Busy
<1> QED BY <1>3, <1>4

\* or one of its definitions.
LEMMA SkipStep == ASSUME MyInv, Skip PROVE MyInv'
<1>t. op \in OpRec /\ waiting \in {<<>>, <<"Result">>, <<"Row">>} /\ PhaseInv /\ op.left \in Nat
  BY DEF MyInv, TypeInv, OpRec
<1>1. /\ op.step = "skip" /\ op.left > 0 /\ Read /\ op' = [op EXCEPT !.left = @ - 1]
      /\ UNCHANGED <<calls, deprecate_eof, waiting, cache, ids, closed, wbuf, sent, stmts, next_id, open>>
  BY DEF Skip, At, Packet, conn, statements, server
<1>2. Reading BY <1>1 DEF Reading, Flushing
<1>3. /\ op' \in OpRec /\ op'.step = "skip" /\ op'.left = op.left - 1 /\ op'.kind = op.kind
      /\ op'.sql = op.sql
  BY <1>1, <1>t DEF OpRec
<1>4. ASSUME NEW s \in Place, NEW t \in Place, Awaiting(s), Leads(deprecate_eof, s, inbox[1], t)
      PROVE  Awaiting(t)'
  <2>1. s = InSet(op.left) BY <1>1, <1>4 DEF Awaiting
  <2>2. t = InSet(op.left - 1) BY <2>1, <1>1, <1>4, <1>t, FromDefinitions
  <2> QED BY <2>2, <1>3 DEF Awaiting
<1>5. PhaseInv' BY <1>1, <1>3, <1>t DEF PhaseInv, PrepareSteps
<1>6. StatementInv' BY <1>2, <1>3, ReadCarries DEF Held, MissSteps
<1> QED BY <1>1, <1>2, <1>3, <1>4, <1>5, <1>6, <1>t, ReadStep DEF Busy

\* The reply to a Ping.
LEMMA PingOkStep == ASSUME MyInv, PingOk PROVE MyInv'
<1>t. waiting \in {<<>>, <<"Result">>, <<"Row">>} /\ PhaseInv BY DEF MyInv, TypeInv
<1>1. /\ op.step = "ping_ok" /\ Read /\ op' = Idle
      /\ UNCHANGED <<calls, deprecate_eof, waiting, cache, ids, closed, wbuf, sent, stmts, next_id, open>>
  BY DEF PingOk, At, Packet, End, conn, statements, server
<1>2. Reading BY <1>1 DEF Reading, Flushing
<1>3. waiting' = <<>> BY <1>1, <1>t DEF PhaseInv
<1>4. op'.step = "idle" BY <1>1, Fields, Zenon DEF MyInv, TypeInv
<1>5. (op.step \in {"idle", "ready"} => (waiting = <<>> => Awaiting(Over)))' BY IdleAwaiting, PTL
<1>6. Awaiting(Over)' BY <1>3, <1>4, <1>5
<1>7. ASSUME NEW s \in Place, NEW t \in Place, Awaiting(s), Leads(deprecate_eof, s, inbox[1], t)
      PROVE  Awaiting(t)'
  <2>1. s = APing BY <1>1, <1>7 DEF Awaiting
  <2>2. t = Over BY <2>1, <1>7, FromOthers
  <2> QED BY <2>2, <1>6
<1> QED BY <1>1, <1>2, <1>3, <1>7, ReadEnds

\* The reply to a Prepare names the statement the server has just made.
LEMMA PrepareOkStep == ASSUME MyInv, PrepareOk PROVE MyInv'
<1> DEFINE p == inbox[1]
<1>t. /\ op \in OpRec /\ waiting \in {<<>>, <<"Result">>, <<"Row">>} /\ PhaseInv /\ deprecate_eof \in BOOLEAN
      /\ inbox \in Seq(PacketRec)
  BY DEF MyInv, TypeInv
<1>1. /\ op.step = "prepare_ok" /\ Read /\ p.kind # "ERR"
      /\ UNCHANGED <<calls, deprecate_eof, waiting, cache, ids, closed, wbuf, sent, stmts, next_id, open>>
  BY Zenon DEF PrepareOk, At, Packet, conn, statements, server
<1>2. Reading BY <1>1 DEF Reading, Flushing
<1>3. inbox # <<>> BY <1>1 DEF Read
<1>p. p \in PacketRec BY <1>t, <1>3
<1>4. PICK s0, t0 \in Place : Awaiting(s0) /\ Leads(deprecate_eof, s0, p, t0)
  BY <1>3, HeadLeads, Zenon
<1>5. s0 = APrepare BY <1>1, <1>4, Zenon DEF Awaiting
<1>6. p.kind = "PrepareOk" BY <1>1, <1>4, <1>5, FromOthers
<1>7. op' = [op EXCEPT !.id = p.id, !.left = Definitions(p.n), !.cols = p.cols, !.step = "params"]
  BY <1>6 DEF PrepareOk, LooksOk
<1>8. p.n \in Nat /\ p.cols \in Nat /\ p.id \in Nat BY <1>p DEF PacketRec
<1>9. PICK d \in Nat : d = Definitions(p.n) /\ d = Defined(deprecate_eof, p.n)
  BY <1>8, <1>t, DefinitionsNat, Zenon
<1>10. /\ op' \in OpRec /\ op'.step = "params" /\ op'.id = p.id /\ op'.left = d /\ op'.cols = p.cols
       /\ op'.sql = op.sql /\ op'.kind = op.kind /\ op'.running = op.running
  BY <1>7, <1>8, <1>9, <1>t, Zenon DEF OpRec, Step
<1>11. ASSUME NEW s \in Place, NEW t \in Place, Awaiting(s), Leads(deprecate_eof, s, p, t)
       PROVE  Awaiting(t)'
  <2>1. s = APrepare BY <1>1, <1>11 DEF Awaiting
  <2>2. t = Rest(Defined(deprecate_eof, p.n) + Defined(deprecate_eof, p.cols))
    BY <2>1, <1>1, <1>11, FromOthers
  <2>3. t = Rest(op'.left + Defined(deprecate_eof', op'.cols)) BY <2>2, <1>1, <1>9, <1>10
  <2> QED BY <2>3, <1>10 DEF Awaiting
<1>12. PhaseInv' BY <1>1, <1>10, <1>t DEF PhaseInv, PrepareSteps
<1>13. StatementInv'
  <2>1. p \in Keys(inbox) BY <1>t, <1>3, KeysFacts
  <2>2. Commands' = Commands BY <1>1 DEF Commands
  <2>3. MissInv' BY <1>1, <1>10 DEF MyInv, StatementInv, MissInv, MissSteps
  <2>4. CacheKnown' BY <1>1 DEF MyInv, StatementInv, CacheKnown, Known
  <2>5. HeldKnown' BY <1>1, <1>6, <1>10, <2>1 DEF MyInv, StatementInv, ReplyKnown, HeldKnown, Known
  <2>6. ReplyKnown' BY <1>10 DEF ReplyKnown
  <2>7. ExecuteKnown' BY <1>1, <2>2 DEF MyInv, StatementInv, ExecuteKnown, Known
  <2>8. ClosesApart'
    BY <1>1, <1>6, <1>10, <2>1, <2>2 DEF MyInv, StatementInv, ClosesApart
  <2> QED BY <2>3, <2>4, <2>5, <2>6, <2>7, <2>8 DEF StatementInv
<1> QED BY <1>1, <1>2, <1>10, <1>11, <1>12, <1>13, <1>t, ReadStep, Zenon DEF Busy

\* A definition of a statement or of a result set.
LEMMA DefinitionStep ==
  ASSUME MyInv, NEW step \in {"params", "columns", "metadata"}, ReadDefinition(step)
  PROVE  MyInv'
<1> DEFINE p == inbox[1]
<1>t. /\ op \in OpRec /\ waiting \in {<<>>, <<"Result">>, <<"Row">>} /\ PhaseInv /\ deprecate_eof \in BOOLEAN
      /\ op.left \in Nat /\ op.cols \in Nat
  BY DEF MyInv, TypeInv, OpRec
<1>1. /\ op.step = step /\ op.left > 0 /\ Read
      /\ UNCHANGED <<calls, deprecate_eof, waiting, cache, ids, closed, wbuf, sent, stmts, next_id, open>>
  BY DEF ReadDefinition, At, Packet, conn, statements, server
<1>2. Reading BY <1>1 DEF Reading, Flushing
<1>d. PICK d \in Nat : d = Defined(deprecate_eof, op.cols) BY <1>t, DefinitionsNat
<1>3. ASSUME NEW s \in Place, NEW t \in Place, Awaiting(s), Leads(deprecate_eof, s, p, t)
      PROVE  /\ p.kind \in {"Definition", "EOF"}
             /\ step = "params" => t = Rest((op.left - 1) + d)
             /\ step = "columns" => t = Rest(op.left - 1)
             /\ step = "metadata" => t = InSet(op.left - 1)
  <2>1. CASE step = "params"
    <3>1. s = Rest(op.left + d) BY <2>1, <1>1, <1>3, <1>d DEF Awaiting
    <3>2. PICK k \in Nat : k = op.left + d BY <1>t
    <3>3. p.kind \in {"Definition", "EOF"} /\ t = Rest(k - 1) BY <3>1, <3>2, <1>3, FromRest
    <3>4. k - 1 = (op.left - 1) + d BY <3>2, <1>t
    <3> QED BY <2>1, <3>3, <3>4
  <2>2. CASE step = "columns"
    <3>1. s = Rest(op.left) BY <2>2, <1>1, <1>3 DEF Awaiting
    <3>2. p.kind \in {"Definition", "EOF"} /\ t = Rest(op.left - 1) BY <3>1, <1>3, <1>t, FromRest
    <3> QED BY <2>2, <3>2
  <2>3. CASE step = "metadata"
    <3>1. s = InSet(op.left) BY <2>3, <1>1, <1>3 DEF Awaiting
    <3>2. p.kind \in {"Definition", "EOF"} /\ t = InSet(op.left - 1)
      BY <3>1, <1>1, <1>3, <1>t, FromDefinitions
    <3> QED BY <2>3, <3>2
  <2> QED BY <2>1, <2>2, <2>3
<1>4. CASE op' = [op EXCEPT !.left = @ - 1]
  <2>1. /\ op' \in OpRec /\ op'.step = step /\ op'.left = op.left - 1 /\ op'.cols = op.cols
        /\ op'.kind = op.kind /\ op'.sql = op.sql /\ op'.id = op.id /\ op'.running = op.running
    BY <1>1, <1>4, <1>t DEF OpRec
  <2>2. ASSUME NEW s \in Place, NEW t \in Place, Awaiting(s), Leads(deprecate_eof, s, p, t)
        PROVE  Awaiting(t)'
    <3>1. Defined(deprecate_eof, op.cols)' = d BY <1>1, <1>d, <2>1
    <3>2. CASE step = "params" BY <3>1, <3>2, <1>3, <2>1, <2>2 DEF Awaiting
    <3>3. CASE step = "columns" BY <3>3, <1>3, <2>1, <2>2 DEF Awaiting
    <3>4. CASE step = "metadata" BY <3>4, <1>3, <2>1, <2>2 DEF Awaiting
    <3> QED BY <3>2, <3>3, <3>4
  <2>3. PhaseInv' BY <1>1, <2>1, <1>t DEF PhaseInv, PrepareSteps
  <2>4. StatementInv' BY <1>1, <1>2, <2>1, ReadCarries DEF Held, MissSteps
  <2> QED BY <1>1, <1>2, <2>1, <2>2, <2>3, <2>4, <1>t, ReadStep DEF Busy
<1>5. CASE p.kind \notin {"Definition", "EOF"} /\ op' = Idle
  <2>1. \A s, t \in Place : Awaiting(s) /\ Leads(deprecate_eof, s, p, t) => Awaiting(t)'
    BY <1>3, <1>5
  <2> QED BY <1>1, <1>2, <1>5, <2>1, <1>t, ReadEnds
<1> QED BY <1>4, <1>5 DEF ReadDefinition, End

\* The first packet of a result.
LEMMA ResultStep == ASSUME MyInv, Result PROVE MyInv'
<1> DEFINE p == inbox[1]
<1>t. op \in OpRec /\ PhaseInv /\ deprecate_eof \in BOOLEAN BY DEF MyInv, TypeInv
<1>1. /\ op.step = "result" /\ waiting = <<"Result">> /\ Read /\ p.kind # "ERR"
      /\ UNCHANGED <<calls, deprecate_eof, cache, ids, closed, wbuf, sent, stmts, next_id, open>>
  BY <1>t, Zenon DEF Result, At, Packet, statements, server, PhaseInv
<1>2. Reading BY <1>1 DEF Reading, Flushing
<1>p. p \in PacketRec BY <1>1 DEF MyInv, TypeInv, Read
<1>3. ASSUME NEW s, Awaiting(s) PROVE s = AResult BY <1>1, <1>3 DEF Awaiting
<1>4. ASSUME LooksOk(p), NEW more \in More(p), more, UNCHANGED <<op, waiting>> PROVE MyInv'
  <2>1. ASSUME NEW s \in Place, NEW t \in Place, Awaiting(s), Leads(deprecate_eof, s, p, t)
        PROVE  Awaiting(t)'
    <3>1. p.kind = "OK" /\ t = IF p.more THEN AResult ELSE Over
      BY <1>1, <1>3, <1>4, <2>1, FromResult DEF LooksOk
    <3>2. t = AResult BY <3>1, <1>4, Zenon DEF More
    <3> QED BY <3>2, <1>1, <1>4 DEF Awaiting
  <2>2. PhaseInv' BY <1>1, <1>4, <1>t DEF PhaseInv, PrepareSteps
  <2>3. StatementInv' BY <1>1, <1>2, <1>4, ReadCarries DEF Held, MissSteps
  <2> QED BY <1>1, <1>2, <1>4, <2>1, <2>2, <2>3, <1>t, ReadStep DEF Busy
<1>5. ASSUME LooksOk(p), NEW more \in More(p), ~ more, waiting' = PopFront(waiting), op' = Idle
      PROVE  MyInv'
  <2>1. waiting' = <<>> BY <1>1, <1>5, Waits
  <2>2. op'.step = "idle" BY <1>5, Fields, <1>t, Zenon
  <2>3. (op.step \in {"idle", "ready"} => (waiting = <<>> => Awaiting(Over)))' BY IdleAwaiting, PTL
  <2>4. ASSUME NEW s \in Place, NEW t \in Place, Awaiting(s), Leads(deprecate_eof, s, p, t)
        PROVE  Awaiting(t)'
    <3>1. p.kind = "OK" /\ t = IF p.more THEN AResult ELSE Over
      BY <1>1, <1>3, <1>5, <2>4, FromResult DEF LooksOk
    <3>2. t = Over BY <3>1, <1>5 DEF More
    <3> QED BY <3>2, <2>1, <2>2, <2>3
  <2> QED BY <1>2, <1>5, <2>1, <2>4, ReadEnds
<1>6. ASSUME ~ LooksOk(p), NEW n \in Count(p), waiting' = SetFront("Row"),
             op' = [op EXCEPT !.left = Definitions(n), !.step = "metadata"]
      PROVE  MyInv'
  <2>2. waiting' = <<"Row">> BY <1>1, <1>6, Waits
  <2>3. n \in Nat /\ (p.kind = "ColumnCount" => n = p.n) BY <1>p DEF Count, PacketRec
  <2>4. PICK d \in Nat : d = Definitions(n) /\ d = Defined(deprecate_eof, n)
    BY <2>3, <1>t, DefinitionsNat
  <2>6. op' \in OpRec /\ op'.step = "metadata" /\ op'.left = d /\ op'.kind = op.kind /\ op'.sql = op.sql
    BY <1>6, <2>4, <1>t, Zenon DEF OpRec, Step
  <2>7. ASSUME NEW s \in Place, NEW t \in Place, Awaiting(s), Leads(deprecate_eof, s, p, t)
        PROVE  Awaiting(t)'
    <3>2. p.kind = "ColumnCount" /\ t = InSet(Defined(deprecate_eof, p.n))
      BY <1>1, <1>3, <1>6, <2>7, FromResult DEF LooksOk
    <3> QED BY <3>2, <2>3, <2>4, <2>6 DEF Awaiting
  <2>8. PhaseInv' BY <2>2, <2>6, <1>t DEF PhaseInv, PrepareSteps
  <2>9. StatementInv' BY <1>2, <2>6, ReadCarries DEF Held, MissSteps
  <2> QED BY <1>1, <1>2, <2>2, <2>6, <2>7, <2>8, <2>9, ReadStep DEF Busy
<1> QED BY <1>4, <1>5, <1>6, Zenon DEF Result, End

\* A row, or the end of the rows.
LEMMA RowsStep == ASSUME MyInv, Rows PROVE MyInv'
<1> DEFINE p == inbox[1]
<1>t. op \in OpRec /\ PhaseInv BY DEF MyInv, TypeInv
<1>1. /\ op.step = "rows" /\ waiting = <<"Row">> /\ Read /\ p.kind # "ERR"
      /\ UNCHANGED <<calls, deprecate_eof, cache, ids, closed, wbuf, sent, stmts, next_id, open>>
  BY <1>t DEF Rows, At, Packet, statements, server, PhaseInv
<1>2. Reading BY <1>1 DEF Reading, Flushing
<1>3. ASSUME NEW s, NEW t, Awaiting(s), Leads(deprecate_eof, s, p, t)
      PROVE  \/ p.kind = "Row" /\ t = InSet(0)
             \/ p.kind = "EOF" /\ t = IF p.more THEN AResult ELSE Over
  <2>1. s = InSet(0) BY <1>1, <1>3 DEF Awaiting
  <2> QED BY <2>1, <1>1, <1>3, FromRows
<1>i. (op.step \in {"idle", "ready"} =>
         /\ waiting = <<>> => Awaiting(Over)
         /\ waiting = <<"Row">> => Awaiting(InSet(0)))'
  BY IdleAwaiting, PTL
<1>4. ASSUME p.kind = "EOF", p.more, waiting' = NextResult, Goto("result") PROVE MyInv'
  <2>1. waiting' = <<"Result">> BY <1>1, <1>4, Waits DEF NextResult
  <2>2. /\ op' \in OpRec /\ op'.step = "result" /\ op'.kind = op.kind /\ op'.sql = op.sql
    BY <1>4, <1>t DEF Goto, OpRec, Step
  <2>3. ASSUME NEW s \in Place, NEW t \in Place, Awaiting(s), Leads(deprecate_eof, s, p, t)
        PROVE  Awaiting(t)'
    <3>1. t = AResult BY <1>3, <1>4, <2>3
    <3> QED BY <3>1, <2>2 DEF Awaiting
  <2>4. PhaseInv' BY <2>1, <2>2, <1>t DEF PhaseInv, PrepareSteps
  <2>5. StatementInv' BY <1>2, <2>2, ReadCarries DEF Held, MissSteps
  <2> QED BY <1>1, <1>2, <2>1, <2>2, <2>3, <2>4, <2>5, ReadStep DEF Busy
<1>5. ASSUME p.kind = "EOF", ~ p.more, waiting' = PopFront(waiting), op' = Idle PROVE MyInv'
  <2>1. waiting' = <<>> BY <1>1, <1>5, Waits
  <2>2. op'.step = "idle" BY <1>5, Fields, <1>t, Zenon
  <2>3. \A s, t \in Place : Awaiting(s) /\ Leads(deprecate_eof, s, p, t) => Awaiting(t)'
    BY <1>3, <1>5, <1>i, <2>1, <2>2
  <2> QED BY <1>2, <1>5, <2>1, <2>3, ReadEnds
<1>6. ASSUME p.kind # "EOF", UNCHANGED <<op, waiting>> PROVE MyInv'
  <2>1. ASSUME NEW s \in Place, NEW t \in Place, Awaiting(s), Leads(deprecate_eof, s, p, t)
        PROVE  Awaiting(t)'
    <3>1. t = InSet(0) BY <1>3, <1>6, <2>1, Zenon
    <3> QED BY <3>1, <1>1, <1>6 DEF Awaiting
  <2>2. PhaseInv' BY <1>1, <1>6, <1>t DEF PhaseInv, PrepareSteps
  <2>3. StatementInv' BY <1>1, <1>2, <1>6, ReadCarries DEF Held, MissSteps
  <2> QED BY <1>1, <1>2, <1>6, <2>1, <2>2, <2>3, <1>t, ReadStep DEF Busy
<1>7. ASSUME p.kind # "EOF", op' = Idle, UNCHANGED waiting PROVE MyInv'
  <2>1. op'.step = "idle" /\ waiting' = <<"Row">> BY <1>1, <1>7, Fields, <1>t, Zenon
  <2>2. \A s, t \in Place : Awaiting(s) /\ Leads(deprecate_eof, s, p, t) => Awaiting(t)'
    BY <1>3, <1>7, <1>i, <2>1
  <2> QED BY <1>2, <1>7, <2>1, <2>2, ReadEnds
<1> QED BY <1>4, <1>5, <1>6, <1>7 DEF Rows, EndsRows, More, End

-----------------------------------------------------------------------------
(* The statement cache. *)

\* The keys after one more.
LEMMA AppendKeys ==
  ASSUME NEW S, NEW a \in Seq(S), NEW x \in S
  PROVE  Append(a, x) \in Seq(S) /\ Keys(Append(a, x)) = Keys(a) \cup {x}
<1>1. Append(a, x) = a \o <<x>> /\ <<x>> \in Seq(S) /\ a \o <<x>> \in Seq(S) OBVIOUS
<1>2. PICK b \in Seq(S) : b = <<x>> BY <1>1, Zenon
<1>3. Keys(a \o b) = Keys(a) \cup Keys(b) BY KeysFacts
<1>4. Keys(<<x>>) = {x} BY KeysFacts, Zenon
<1> QED BY <1>1, <1>2, <1>3, <1>4, Zenon

\* A use of the cache keeps its keys.
LEMMA GetMutKeys ==
  ASSUME NEW S, NEW c \in Seq(S), NEW k \in S
  PROVE  get_mut(c, k) \in Seq(S) /\ Keys(get_mut(c, k)) \subseteq Keys(c)
<1>1. CASE ~ contains_key(c, k) BY <1>1 DEF get_mut
<1>2. CASE contains_key(c, k)
  <2>1. PICK n \in 1..Len(c) : n = IndexOf(c, k) /\ c[n] = k BY <1>2 DEF contains_key, IndexOf
  <2>2. PICK a : a = SubSeq(c, 1, n - 1) BY Zenon
  <2>3. a \in Seq(S) /\ \A i \in DOMAIN a : i \in DOMAIN c /\ a[i] = c[i] BY <2>2
  <2>4. PICK b : b = SubSeq(c, n + 1, Len(c)) BY Zenon
  <2>5. b \in Seq(S) /\ \A i \in DOMAIN b : n + i \in DOMAIN c /\ b[i] = c[n + i] BY <2>4
  <2>6. Keys(a) \subseteq Keys(c) /\ Keys(b) \subseteq Keys(c) /\ k \in Keys(c)
    BY <2>1, <2>3, <2>5 DEF Keys
  <2>7. PICK p : p = a \o b BY Zenon
  <2>8. p \in Seq(S) /\ Keys(p) = Keys(a) \cup Keys(b) BY <2>3, <2>5, <2>7, SeqFacts, KeysFacts
  <2>9. get_mut(c, k) = Append(p, k) BY <1>2, <2>1, <2>2, <2>4, <2>7, Zenon DEF get_mut, pop_entry
  <2>10. Append(p, k) \in Seq(S) /\ Keys(Append(p, k)) = Keys(p) \cup {k} BY <2>8, AppendKeys
  <2> QED BY <2>6, <2>8, <2>9, <2>10
<1> QED BY <1>1, <1>2

\* An insertion adds its key to those that making room has left.
LEMMA InsertKeys ==
  ASSUME NEW S, NEW c \in Seq(S), NEW k \in S, k \notin Keys(c)
  PROVE  /\ insert(c, k) \in Seq(S)
         /\ Keys(MakeRoom(c, k)) \subseteq Keys(c)
         /\ Keys(insert(c, k)) \subseteq Keys(MakeRoom(c, k)) \cup {k}
<1>1. ~ contains_key(c, k) BY DEF contains_key, Keys
<1>2. PICK p : p = MakeRoom(c, k) BY Zenon
<1>3. (p = IF Len(c) = Capacity THEN Tail(c) ELSE c) /\ (Len(c) = Capacity => c # <<>>)
  BY <1>1, <1>2, CapacityAssumption DEF MakeRoom, remove_lru
<1>4. p \in Seq(S) /\ Len(p) # Capacity /\ Keys(p) \subseteq Keys(c)
  <2>1. CASE p = c /\ Len(c) # Capacity BY <2>1
  <2>2. CASE p = Tail(c) /\ Len(c) = Capacity /\ c # <<>>
    <3>1. p \in Seq(S) /\ Len(p) # Capacity BY <2>2
    <3> QED BY <2>2, <3>1, KeysFacts
  <2> QED BY <1>3, <2>1, <2>2
<1>5. ~ contains_key(p, k) BY <1>4 DEF contains_key, Keys
<1>6. insert(c, k) = Append(p, k) BY <1>2, <1>4, <1>5 DEF insert, put
<1>7. Append(p, k) \in Seq(S) /\ Keys(Append(p, k)) = Keys(p) \cup {k} BY <1>4, AppendKeys
<1> QED BY <1>2, <1>4, <1>6, <1>7

\* An identifier names one query.
LEMMA Functional ==
  ASSUME NEW n, NEW p, NEW q, Known(n, p), Known(n, q) PROVE p = q
BY DEF Known

\* A hit takes the statement from the cache.
LEMMA LookupHitStep == ASSUME MyInv, LookupHit PROVE MyInv'
<1>t. /\ op \in OpRec /\ waiting \in {<<>>, <<"Result">>, <<"Row">>} /\ PhaseInv /\ StatementInv
      /\ cache \in Seq(Sql) /\ ids \in [Sql -> Nat] /\ "prepared" \in Step
  BY DEF MyInv, TypeInv, Step
<1>1. /\ op.step = "lookup" /\ contains_key(cache, op.sql) /\ cache' = get_mut(cache, op.sql)
      /\ op' = [op EXCEPT !.id = ids[op.sql], !.step = "prepared"]
      /\ Quiet /\ UNCHANGED <<calls, waiting, ids, wbuf>>
  BY DEF LookupHit, At, server, Quiet
<1>2. op.sql \in Keys(cache) /\ op.sql \in Sql BY <1>1, <1>t DEF contains_key, Keys, PhaseInv, PrepareSteps
<1>3. cache' \in Seq(Sql) /\ Keys(cache') \subseteq Keys(cache) BY <1>1, <1>2, <1>t, GetMutKeys
<1>4. PICK n \in Nat : n = ids[op.sql] /\ op' = [op EXCEPT !.id = n, !.step = "prepared"]
  BY <1>1, <1>2, <1>t, Zenon
<1>5. /\ op' \in OpRec /\ op'.step = "prepared" /\ op'.sql = op.sql /\ op'.kind = op.kind
      /\ op'.running = op.running /\ op'.id = n
  BY <1>4, <1>t, Zenon DEF OpRec
<1>6. ~ Flushing /\ ~ Flushing' BY <1>1, <1>5 DEF Flushing
<1>7. TypeInv' BY <1>1, <1>3, <1>5 DEF MyInv, TypeInv, Quiet
<1>8. PhaseInv' BY <1>1, <1>5, <1>t DEF PhaseInv, PrepareSteps
<1>9. BufferInv' BY <1>1, <1>6 DEF MyInv, BufferInv
<1>10. ASSUME NEW s \in Place, Awaiting(s) PROVE Awaiting(s)' BY <1>1, <1>5, <1>10 DEF Awaiting
<1>11. StatementInv'
  <2>1. stmts' = stmts /\ next_id' = next_id /\ ids' = ids /\ Commands' = Commands
    BY <1>1 DEF Quiet, Commands
  <2>2. MissInv' /\ ReplyKnown' BY <1>5 DEF MissInv, ReplyKnown, MissSteps
  <2>3. CacheKnown' BY <1>3, <2>1, <1>t DEF StatementInv, CacheKnown, Known
  <2>4. HeldKnown' BY <1>2, <1>4, <1>5, <2>1, <1>t DEF StatementInv, CacheKnown, HeldKnown, Known
  <2>5. ExecuteKnown' BY <2>1, <1>t DEF StatementInv, ExecuteKnown, Known
  <2>6. ClosesApart' BY <1>2, <1>3, <1>4, <1>5, <2>1, <1>t DEF StatementInv, ClosesApart
  <2> QED BY <2>2, <2>3, <2>4, <2>5, <2>6 DEF StatementInv
<1> QED BY <1>1, <1>7, <1>8, <1>9, <1>10, <1>11, QuietStep DEF Busy

\* A statement is stored; the one that makes room is known to nobody any more
\* when its StmtClose is written.
LEMMA StoreStatements ==
  ASSUME MyInv, Store, NEW E,
         op' \in OpRec, op'.step \in {"prepared", "close_flush"}, op'.id = op.id, op'.sql = op.sql,
         Commands' = Commands \cup E,
         \A m \in E : m.kind = "StmtClose" /\ \E q \in Displaced(cache, op.sql) : m.id = ids[q]
  PROVE  StatementInv' /\ cache' \in Seq(Sql) /\ ids' \in [Sql -> Nat]
<1>t. /\ op \in OpRec /\ PhaseInv /\ StatementInv /\ op.id \in Nat
      /\ cache \in Seq(Sql) /\ ids \in [Sql -> Nat] /\ TypeInv
  BY DEF MyInv, TypeInv, OpRec
<1>1. /\ op.step = "columns" /\ op.left = 0
      /\ cache' = insert(cache, op.sql) /\ ids' = [ids EXCEPT ![op.sql] = op.id]
      /\ UNCHANGED <<sent, stmts, next_id>>
  BY Zenon DEF Store, At, server
<1>2. op.sql \in Sql /\ op.sql \notin Keys(cache) /\ Known(op.id, op.sql)
  BY <1>1, <1>t DEF PhaseInv, PrepareSteps, StatementInv, MissInv, HeldKnown, MissSteps, Held
<1>3. /\ cache' \in Seq(Sql) /\ Keys(MakeRoom(cache, op.sql)) \subseteq Keys(cache)
      /\ Keys(cache') \subseteq Keys(MakeRoom(cache, op.sql)) \cup {op.sql}
  BY <1>1, <1>2, <1>t, InsertKeys
<1>4. ids' \in [Sql -> Nat] BY <1>1, <1>t, Zenon
<1>5. \A q \in Keys(cache) : q \in Sql BY <1>t, KeysFacts
<1>6. /\ ids'[op.sql] = op.id
      /\ \A q \in Keys(cache) : ids'[q] = ids[q] /\ q # op.sql /\ Known(ids[q], q)
  BY <1>1, <1>2, <1>5, <1>t DEF StatementInv, CacheKnown
<1>7. \A m \in Commands : m.kind # "Execute"
  <2>1. Asked = {} BY <1>1, SilentSteps
  <2>2. Keys(wbuf) = {} BY <1>1 DEF MyInv, BufferInv, Flushing
  <2> QED BY <2>1, <2>2, Zenon DEF Commands, Asked, Asking
<1>8. MissInv' /\ ReplyKnown' BY DEF MissInv, ReplyKnown, MissSteps
<1>9. CacheKnown'
  <2>1. ASSUME NEW q \in Keys(cache') PROVE Known(ids'[q], q) BY <1>2, <1>3, <1>6, <2>1, Zenon
  <2> QED BY <2>1, <1>1 DEF CacheKnown, Known
<1>10. HeldKnown' BY <1>1, <1>2 DEF HeldKnown, Known
<1>11. ExecuteKnown' BY <1>7 DEF ExecuteKnown
<1>12. ASSUME NEW m \in Commands', m.kind = "StmtClose"
       PROVE  m.id < next_id /\ op.id # m.id /\ \A q \in Keys(cache') : ids'[q] # m.id
  <2>1. CASE m \in Commands
    <3>1. m.id < next_id /\ op.id # m.id /\ \A q \in Keys(cache) : ids[q] # m.id
      BY <1>1, <1>12, <2>1, <1>t DEF StatementInv, ClosesApart, Held
    <3> QED BY <1>3, <1>6, <3>1, Zenon
  <2>2. CASE m \in E
    <3>1. PICK p \in Keys(cache) : p \notin Keys(MakeRoom(cache, op.sql)) /\ m.id = ids[p]
      BY <2>2 DEF Displaced
    <3>2. Known(m.id, p) BY <3>1, <1>6
    <3>3. m.id < next_id BY <3>2, <1>t DEF Known, TypeInv
    <3>4. op.id # m.id BY <3>1, <3>2, <1>2, Functional, Zenon
    <3>5. \A q \in Keys(cache') : ids'[q] # m.id
      <4>1. ASSUME NEW q \in Keys(cache'), ids'[q] = m.id PROVE FALSE
        <5>1. q \in Keys(cache) /\ q # p BY <1>3, <1>6, <3>1, <3>4, <4>1, Zenon
        <5>2. Known(m.id, q) BY <1>6, <4>1, <5>1, Zenon
        <5> QED BY <3>2, <5>1, <5>2, Functional, Zenon
      <4> QED BY <4>1, Zenon
    <3> QED BY <3>3, <3>4, <3>5
  <2> QED BY <2>1, <2>2
<1>13. ClosesApart'
  <2>1. \A x \in Commands' : x.kind # "Execute" BY <1>7
  <2> QED BY <1>1, <1>12, <2>1 DEF ClosesApart
<1> QED BY <1>3, <1>4, <1>8, <1>9, <1>10, <1>11, <1>13 DEF StatementInv

\* A miss keeps its statement, and closes the one it displaces.
LEMMA StoreStep == ASSUME MyInv, Store PROVE MyInv'
<1> DEFINE out == {ids[q] : q \in Displaced(cache, op.sql)}
<1>t. /\ op \in OpRec /\ waiting \in {<<>>, <<"Result">>, <<"Row">>} /\ PhaseInv /\ TypeInv
      /\ cache \in Seq(Sql) /\ ids \in [Sql -> Nat]
  BY DEF MyInv, TypeInv
<1>s. "prepared" \in Step /\ "close_flush" \in Step /\ "StmtClose" \in CommandKind
  BY DEF Step, CommandKind
<1>1. /\ op.step = "columns" /\ op.left = 0 /\ Quiet /\ UNCHANGED <<calls, waiting>>
  BY DEF Store, At, server, Quiet
<1>2. Asked = {} /\ inbox = <<>> /\ \A s \in Place : Awaiting(s) => s = Over
  BY <1>1, SilentSteps
<1>3. ~ Flushing BY <1>1 DEF Flushing
<1>4. Keys(wbuf) = {} BY <1>3 DEF MyInv, BufferInv
<1>5. CASE out = {}
  <2>1. op' = [op EXCEPT !.step = "prepared"] /\ wbuf' = wbuf BY <1>5 DEF Store, Goto
  <2>2. /\ op' \in OpRec /\ op'.step = "prepared" /\ op'.sql = op.sql /\ op'.kind = op.kind
        /\ op'.running = op.running /\ op'.id = op.id
    BY <2>1, <1>t, <1>s, Fields, Zenon
  <2>3. PICK E : E = {} BY Zenon
  <2>c. Commands' = Commands \cup E BY <1>1, <2>1, <2>3 DEF Commands, Quiet
  <2>4. StatementInv' /\ cache' \in Seq(Sql) /\ ids' \in [Sql -> Nat]
    <3>1. \A m \in E : m.kind = "StmtClose" /\ \E q \in Displaced(cache, op.sql) : m.id = ids[q]
      BY <2>3
    <3>2. op'.step \in {"prepared", "close_flush"} BY <2>2
    <3> QED BY <2>2, <2>c, <3>1, <3>2, StoreStatements, Zenon
  <2>5. TypeInv' BY <1>1, <2>1, <2>2, <2>4, <1>t DEF TypeInv, Quiet
  <2>6. PhaseInv' BY <1>1, <2>2, <1>t DEF PhaseInv, PrepareSteps
  <2>7. BufferInv' BY <1>4, <2>1, <2>2 DEF BufferInv, Flushing
  <2>8. ASSUME NEW s \in Place, Awaiting(s) PROVE Awaiting(s)' BY <1>2, <2>2, <2>8 DEF Awaiting
  <2> QED BY <1>1, <2>4, <2>5, <2>6, <2>7, <2>8, QuietStep DEF Busy
<1>6. CASE out # {}
  <2>1. PICK n \in out : Send("StmtClose", n, "close_flush") BY <1>6, Zenon DEF Store, StmtClose
  <2>2. PICK p \in Displaced(cache, op.sql) : n = ids[p] BY <2>1, Zenon
  <2>3. n \in Nat
    <3>1. p \in Sql BY <2>2, <1>t, KeysFacts DEF Displaced
    <3> QED BY <3>1, <2>2, <1>t
  <2>4. PICK c \in CommandRec : /\ wbuf' = <<c>> /\ Keys(wbuf') = {c} /\ c.kind = "StmtClose"
                                /\ c.id = n /\ c.call = calls
    BY <2>1, <2>3, <1>t, <1>s, Sends
  <2>5. op' = [op EXCEPT !.step = "close_flush"] BY <2>1 DEF Send
  <2>6. /\ op' \in OpRec /\ op'.step = "close_flush" /\ op'.sql = op.sql /\ op'.kind = op.kind
        /\ op'.running = op.running /\ op'.id = op.id
    BY <2>5, <1>t, <1>s, Fields, Zenon
  <2>7. Commands' = Commands \cup {c} BY <1>1, <1>4, <2>4, Zenon DEF Commands, Quiet
  <2>8. StatementInv' /\ cache' \in Seq(Sql) /\ ids' \in [Sql -> Nat]
    BY <2>2, <2>4, <2>6, <2>7, StoreStatements, Zenon
  <2>9. PhaseInv' BY <1>1, <2>6, <1>t DEF PhaseInv, PrepareSteps
  <2> QED BY <1>1, <1>2, <1>3, <2>4, <2>6, <2>8, <2>9, <1>t, SendStep, Zenon
<1> QED BY <1>5, <1>6

-----------------------------------------------------------------------------
(* The channel and the server. *)

\* The commands after one more,
LEMMA AppendStep ==
  ASSUME NEW S, NEW a \in Seq(S), NEW c \in S, NEW b, b = a \o <<c>>
  PROVE  \A i \in DOMAIN b : \/ i \in DOMAIN a /\ b[i] = a[i]
                             \/ i = Len(a) + 1 /\ b[i] = c
OBVIOUS

\* after one is served,
LEMMA TailStep ==
  ASSUME NEW S, NEW a \in Seq(S), a # <<>>, NEW b, b = Tail(a)
  PROVE  /\ 1 \in DOMAIN a /\ Head(a) = a[1] /\ b \in Seq(S)
         /\ \A i \in DOMAIN b : i \in Int /\ i + 1 \in DOMAIN a /\ i + 1 # 1 /\ b[i] = a[i + 1]
         /\ \A i \in DOMAIN a : i # 1 => i - 1 \in DOMAIN b /\ b[i - 1] = a[i]
OBVIOUS

\* and after some are lost.
LEMMA PrefixStep ==
  ASSUME NEW S, NEW a \in Seq(S), NEW n \in 0..Len(a), NEW b, b = SubSeq(a, 1, n)
  PROVE  b \in Seq(S) /\ Keys(b) \subseteq Keys(a)
<1>1. b \in Seq(S) /\ \A i \in DOMAIN b : i \in DOMAIN a /\ b[i] = a[i] OBVIOUS
<1> QED BY <1>1, Zenon DEF Keys

\* No two commands wait for an answer after one is sent where none did,
LEMMA SendsOne ==
  ASSUME sent \in Seq(CommandRec), Asked = {}, NEW c \in CommandRec, sent' = sent \o <<c>>
  PROVE  OneAsked' /\ Keys(sent') = Keys(sent) \cup {c} /\ sent' \in Seq(CommandRec)
<1>1. \A i \in DOMAIN sent' : \/ i \in DOMAIN sent /\ sent'[i] = sent[i]
                              \/ i = Len(sent) + 1 /\ sent'[i] = c
  BY AppendStep
<1>2. \A i \in DOMAIN sent : sent[i].kind \notin Asking BY Zenon DEF Asked, Keys
<1>3. OneAsked' BY <1>1, <1>2, Zenon DEF OneAsked
<1>4. PICK b \in Seq(CommandRec) : b = <<c>> BY SeqFacts, Zenon
<1>5. sent \o b \in Seq(CommandRec) /\ Keys(sent \o b) = Keys(sent) \cup Keys(b)
  BY SeqFacts, KeysFacts
<1>6. Keys(b) = {c} BY <1>4, KeysFacts, Zenon
<1> QED BY <1>3, <1>4, <1>5, <1>6

\* and after one is served.
LEMMA ServesOne ==
  ASSUME sent \in Seq(CommandRec), sent # <<>>, OneAsked, sent' = Tail(sent)
  PROVE  /\ OneAsked' /\ Head(sent) \in Keys(sent) /\ Keys(sent') \subseteq Keys(sent)
         /\ sent' \in Seq(CommandRec) /\ Head(sent) \in CommandRec
         /\ Head(sent).kind \in Asking => Asked' = {} /\ Asked = {Head(sent)}
         /\ Head(sent).kind \notin Asking => Asked' = Asked
<1>1. /\ 1 \in DOMAIN sent /\ Head(sent) = sent[1] /\ sent' \in Seq(CommandRec)
      /\ \A i \in DOMAIN sent' :
            i \in Int /\ i + 1 \in DOMAIN sent /\ i + 1 # 1 /\ sent'[i] = sent[i + 1]
      /\ \A i \in DOMAIN sent : i # 1 => i - 1 \in DOMAIN sent' /\ sent'[i - 1] = sent[i]
  BY TailStep
<1>2. OneAsked'
  <2>1. ASSUME NEW i \in DOMAIN sent', NEW j \in DOMAIN sent', sent'[i].kind \in Asking,
               sent'[j].kind \in Asking
        PROVE  i = j
    <3>1. i + 1 = j + 1 BY <1>1, <2>1, Zenon DEF OneAsked
    <3>2. i \in Int /\ j \in Int BY <1>1
    <3> QED BY <3>1, <3>2
  <2> QED BY <2>1 DEF OneAsked
<1>3. Head(sent) \in Keys(sent) /\ Keys(sent') \subseteq Keys(sent)
  <2>1. Head(sent) \in Keys(sent) BY <1>1, Zenon DEF Keys
  <2>2. ASSUME NEW m \in Keys(sent') PROVE m \in Keys(sent) BY <1>1, <2>2 DEF Keys
  <2> QED BY <2>1, <2>2, Zenon
<1>4. Head(sent) \in CommandRec BY <1>3, KeysFacts
<1>5. ASSUME Head(sent).kind \in Asking PROVE Asked' = {} /\ Asked = {Head(sent)}
  <2>1. ASSUME NEW i \in DOMAIN sent, sent[i].kind \in Asking PROVE i = 1
    BY <1>1, <1>5, <2>1, Zenon DEF OneAsked
  <2>2. ASSUME NEW m \in Asked' PROVE FALSE
    BY <1>1, <2>1, <2>2, Zenon DEF Asked, Keys
  <2>3. ASSUME NEW m \in Asked PROVE m = Head(sent)
    BY <1>1, <2>1, <2>3, Zenon DEF Asked, Keys
  <2>4. Head(sent) \in Asked BY <1>3, <1>5, Zenon DEF Asked
  <2> QED BY <2>2, <2>3, <2>4, Zenon
<1>6. ASSUME Head(sent).kind \notin Asking PROVE Asked' = Asked
  <2>1. ASSUME NEW m \in Asked PROVE m \in Asked'
    <3>1. PICK i \in DOMAIN sent : m = sent[i] BY Zenon DEF Asked, Keys
    <3>2. i # 1 /\ m.kind \in Asking BY <3>1, <1>1, <1>6, Zenon DEF Asked
    <3> QED BY <3>1, <3>2, <1>1, Zenon DEF Asked, Keys
  <2>2. ASSUME NEW m \in Asked' PROVE m \in Asked BY <1>3, <2>2, Zenon DEF Asked
  <2> QED BY <2>1, <2>2, Zenon
<1> QED BY <1>1, <1>2, <1>3, <1>4, <1>5, <1>6

\* A command is flushed, and its answer awaited.
LEMMA FlushStep == ASSUME MyInv, Flush PROVE MyInv'
<1>t. /\ op \in OpRec /\ waiting \in {<<>>, <<"Result">>, <<"Row">>} /\ PhaseInv /\ TypeInv /\ OwnInv
      /\ sent \in Seq(CommandRec) /\ StatementInv /\ OneAsked
  BY DEF MyInv, TypeInv
<1>1. /\ Flushing /\ ~ closed /\ sent' = (IF open THEN sent \o wbuf ELSE sent) /\ wbuf' = <<>>
      /\ op' = [op EXCEPT !.step = AfterFlush(op.step)]
      /\ UNCHANGED <<calls, deprecate_eof, waiting, cache, ids, closed, inbox, stmts, next_id, open>>
  BY DEF Flush, Goto, conn, statements, server
<1>2. Asked = {} /\ inbox = <<>> BY <1>1, SilentSteps DEF Flushing
<1>3. PICK c \in CommandRec : wbuf = <<c>> BY <1>1 DEF MyInv, BufferInv
<1>4. c \in Keys(wbuf) /\ Keys(wbuf) = {c} BY <1>3, KeysFacts
<1>5. /\ c.call = calls
      /\ op.step = "prepare_flush" => c.kind = "Prepare" /\ c.sql = op.sql
      /\ op.step = "close_flush" => c.kind = "StmtClose"
      /\ op.step = "run_flush" => c.kind \in {"Execute", "Query"}
      /\ op.step = "ping_flush" => c.kind = "Ping"
  BY <1>4 DEF MyInv, BufferInv
<1>6. PICK x \in Step : /\ x = AfterFlush(op.step)
                        /\ op.step = "prepare_flush" => x = "prepare_ok"
                        /\ op.step = "close_flush" => x = "prepared"
                        /\ op.step = "run_flush" => x = "result"
                        /\ op.step = "ping_flush" => x = "ping_ok"
  BY <1>1 DEF Flushing, AfterFlush, Step
<1>7. /\ op' \in OpRec /\ op'.step = x /\ op'.kind = op.kind /\ op'.sql = op.sql
      /\ op'.running = op.running /\ op'.id = op.id
  BY <1>1, <1>6, <1>t, Fields, Zenon
<1>8. /\ OneAsked' /\ sent' \in Seq(CommandRec)
      /\ open => Keys(sent') = Keys(sent) \cup {c}
      /\ ~ open => sent' = sent
  <2>1. CASE open BY <2>1, <1>1, <1>2, <1>3, <1>t, SendsOne
  <2>2. CASE ~ open BY <2>2, <1>1, <1>t DEF OneAsked
  <2> QED BY <2>1, <2>2
<1>9. Keys(wbuf') = {} /\ wbuf' \in Seq(CommandRec) /\ Keys(inbox') = {} BY <1>1, <1>2, KeysFacts
<1>10. TypeInv' BY <1>1, <1>7, <1>8, <1>9, <1>t DEF TypeInv
<1>11. PhaseInv' BY <1>1, <1>6, <1>7, <1>t DEF PhaseInv, PrepareSteps, Flushing
<1>12. BufferInv' BY <1>1, <1>6, <1>7, <1>9 DEF BufferInv, Flushing
<1>13. /\ ~ open => Asked' = {}
       /\ open => Asked' = IF c.kind \in Asking THEN {c} ELSE {}
  BY <1>2, <1>8 DEF Asked
<1>14. OwnInv' BY <1>1, <1>5, <1>8, <1>9, <1>13, <1>t DEF OwnInv
<1>15. ChannelInv'
  <2>1. ASSUME NEW s \in Place, Awaiting(s)', s # Over => c.kind \in Asking /\ Answer(c.kind) = s,
               s = Over => c.kind \notin Asking
        PROVE  ChannelInv'
    <3>1. Runs(deprecate_eof', inbox', s, s) BY <1>1, <1>2, RunsNone
    <3>2. CASE s # Over /\ open
      <4>1. inbox' = <<>> /\ c \in Asked' BY <1>1, <1>2, <1>13, <2>1, <3>2
      <4> QED BY <2>1, <3>2, <4>1, Zenon DEF ChannelInv
    <3>3. CASE ~ open BY <1>1, <1>13, <2>1, <3>1, <3>3, Zenon DEF ChannelInv
    <3>4. CASE s = Over /\ open
      <4>1. Asked' = {} BY <1>13, <2>1, <3>4
      <4> QED BY <2>1, <3>1, <3>4, <4>1, Zenon DEF ChannelInv
    <3> QED BY <3>2, <3>3, <3>4
  <2>2. CASE op.step = "prepare_flush"
    <3>1. Awaiting(APrepare)' BY <1>6, <1>7, <2>2 DEF Awaiting
    <3>2. Answer(c.kind) = APrepare /\ c.kind \in Asking BY <1>5, <2>2 DEF Answer, Asking
    <3> QED BY <2>1, <3>1, <3>2, Places DEF Over
  <2>3. CASE op.step = "close_flush"
    <3>1. Awaiting(Over)' BY <1>6, <1>7, <2>3 DEF Awaiting
    <3>2. c.kind \notin Asking BY <1>5, <2>3 DEF Asking
    <3> QED BY <2>1, <3>1, <3>2, Places
  <2>4. CASE op.step = "run_flush"
    <3>1. Awaiting(AResult)' BY <1>6, <1>7, <2>4 DEF Awaiting
    <3>2. Answer(c.kind) = AResult /\ c.kind \in Asking BY <1>5, <2>4 DEF Answer, Asking
    <3> QED BY <2>1, <3>1, <3>2, Places DEF Over
  <2>5. CASE op.step = "ping_flush"
    <3>1. Awaiting(APing)' BY <1>6, <1>7, <2>5 DEF Awaiting
    <3>2. Answer(c.kind) = APing /\ c.kind \in Asking BY <1>5, <2>5 DEF Answer, Asking
    <3> QED BY <2>1, <3>1, <3>2, Places DEF Over
  <2> QED BY <1>1, <2>2, <2>3, <2>4, <2>5 DEF Flushing
<1>16. StatementInv'
  <2>1. Commands' \subseteq Commands BY <1>4, <1>8, <1>9 DEF Commands
  <2>2. \A m \in Keys(sent) : m.kind # "Prepare" BY <1>2 DEF Asked, Asking
  <2>3. op'.step \in Held => op.step \in Held /\ op'.id = op.id /\ op'.sql = op.sql
    BY <1>1, <1>6, <1>7 DEF Held, Flushing
  <2>4. op'.step \in MissSteps => op.step \in MissSteps /\ op'.sql = op.sql
    BY <1>1, <1>6, <1>7 DEF MissSteps, Flushing
  <2>5. op'.step = "prepare_ok" => \A m \in Keys(sent') : m.kind = "Prepare" => m.sql = op.sql
    BY <1>1, <1>5, <1>6, <1>7, <1>8, <2>2 DEF Flushing
  <2>6. Carries BY <1>1, <1>7, <1>9, <2>1, <2>3, <2>4, <2>5 DEF Carries
  <2> QED BY <2>6, <1>t, CarriesStatements
<1> QED BY <1>8, <1>10, <1>11, <1>12, <1>14, <1>15, <1>16 DEF MyInv

\* What the server leaves to the client.
Served == UNCHANGED <<op, calls, deprecate_eof, waiting, cache, ids, closed, wbuf, open>>

\* A command is answered.
LEMMA AnswerStep ==
  ASSUME MyInv, Served, open, sent # <<>>, sent' = Tail(sent), Head(sent).kind \in Asking,
         NEW r \in Seq(PacketRec), Runs(deprecate_eof, r, Answer(Head(sent).kind), Over),
         Reply(Head(sent), r), next_id' \in Nat \ {0},
         \A n \in DOMAIN stmts' : n \in Nat /\ n < next_id', StatementInv'
  PROVE  MyInv'
<1>t. /\ OneAsked /\ OwnInv /\ PhaseInv /\ BufferInv /\ TypeInv /\ sent \in Seq(CommandRec)
  BY DEF MyInv, TypeInv
<1>1. /\ OneAsked' /\ sent' \in Seq(CommandRec) /\ Head(sent) \in CommandRec
      /\ Asked' = {} /\ Asked = {Head(sent)}
  BY <1>t, ServesOne
<1>2. PICK c \in Nat : c = Head(sent).call BY <1>1 DEF CommandRec
<1>3. PICK s \in Place : Awaiting(s) /\ inbox = <<>> /\ Answer(Head(sent).kind) = s
  BY <1>1 DEF MyInv, ChannelInv
<1>4. PICK q : q = Stamped(r, c) BY Zenon
<1>5. /\ q \in Seq(PacketRec) /\ Runs(deprecate_eof, q, s, Over) /\ \A p \in Keys(q) : p.call = c
  BY <1>3, <1>4, StampedSeq, StampedRuns
<1>6. inbox' = q
  <2>1. inbox' = <<>> \o q BY <1>2, <1>3, <1>4, Zenon DEF Reply, Stamped
  <2>2. <<>> \o q = q BY <1>5
  <2> QED BY <2>1, <2>2
<1>7. TypeInv' BY <1>1, <1>5, <1>6, <1>t DEF TypeInv, Served
<1>8. PhaseInv' BY <1>t DEF PhaseInv, Served
<1>9. BufferInv' BY <1>t DEF BufferInv, Flushing, Served
<1>10. Awaiting(s)' BY <1>3, AwaitingKept DEF Served
<1>11. ChannelInv'
  <2>1. Runs(deprecate_eof', inbox', s, Over) /\ Over \in Place BY <1>5, <1>6, Places DEF Served
  <2> QED BY <1>1, <1>10, <2>1, Zenon DEF ChannelInv
<1>12. OwnInv' BY <1>1, <1>2, <1>5, <1>6, <1>t DEF OwnInv, Busy, Served
<1> QED BY <1>1, <1>7, <1>8, <1>9, <1>11, <1>12 DEF MyInv

\* The commands that run or ping.
LEMMA ServeRun ==
  ASSUME MyInv, Serve, Head(sent).kind \in {"Execute", "Query", "Ping"} PROVE MyInv'
<1> DEFINE m == Head(sent)
<1>t. /\ sent \in Seq(CommandRec) /\ OneAsked /\ StatementInv /\ deprecate_eof \in BOOLEAN
      /\ next_id \in Nat \ {0} /\ \A n \in DOMAIN stmts : n \in Nat /\ n < next_id
  BY DEF MyInv, TypeInv
<1>1. /\ open /\ sent # <<>> /\ sent' = Tail(sent) /\ Served
      /\ ServeExecute(m) \/ ServeQuery(m) \/ ServePing(m)
      /\ m.kind = "Ping" => ServePing(m)
      /\ m.kind # "Ping" => ServeExecute(m) \/ ServeQuery(m)
  BY DEF Serve, Served, conn, statements
<1>2. UNCHANGED <<stmts, next_id>> BY <1>1 DEF ServeExecute, ServeQuery, ServePing
<1>3. m.kind \in Asking BY DEF Asking
<1>4. Keys(sent') \subseteq Keys(sent) /\ Asked = {m} BY <1>1, <1>3, <1>t, ServesOne
<1>5. StatementInv'
  <2>1. PICK s \in Place : Awaiting(s) /\ Answer(m.kind) = s BY <1>4 DEF MyInv, ChannelInv
  <2>2. op.step # "prepare_ok" BY <2>1, Places DEF Awaiting, Answer
  <2>3. Commands' \subseteq Commands BY <1>1, <1>4 DEF Commands, Served
  <2>4. Carries BY <1>1, <1>2, <2>2, <2>3 DEF Carries, Served
  <2> QED BY <2>4, <1>t, CarriesStatements
<1>6. PICK r : /\ r \in Seq(PacketRec) /\ Runs(deprecate_eof, r, Answer(m.kind), Over)
               /\ Reply(m, r)
  <2>e. PICK e : e = Pkt("ERR", 0, FALSE) BY Zenon
  <2>o. PICK o : o = Pkt("OK", 0, FALSE) BY Zenon
  <2>0. /\ e \in PacketRec /\ e.kind = "ERR" /\ <<e>> \in Seq(PacketRec)
        /\ o \in PacketRec /\ o.kind = "OK" /\ <<o>> \in Seq(PacketRec)
    <3>1. "ERR" \in PacketKind /\ "OK" \in PacketKind BY DEF PacketKind
    <3>2. e \in PacketRec /\ e.kind = "ERR" /\ o \in PacketRec /\ o.kind = "OK"
      BY <2>e, <2>o, <3>1, APacket, Zenon
    <3> QED BY <3>2, SeqFacts
  <2>1. CASE m.kind = "Ping"
    <3>1. Reply(m, <<o>>) BY <1>1, <2>o, <2>1 DEF ServePing
    <3>2. Answer(m.kind) = APing BY <2>1 DEF Answer
    <3>3. Leads(deprecate_eof, APing, o, Over) BY <2>0 DEF Leads
    <3>4. Runs(deprecate_eof, <<o>>, APing, Over) BY <3>3, Places, RunsOne
    <3> QED BY <2>0, <3>1, <3>2, <3>4, Zenon
  <2>2. CASE m.kind # "Ping"
    <3>1. Answer(m.kind) = AResult BY <2>2 DEF Answer
    <3>2. ASSUME NEW r \in Results, Reply(m, r)
          PROVE  r \in Seq(PacketRec) /\ Runs(deprecate_eof, r, AResult, Over)
      BY <1>t, MaxRowsAssumption, ResultsRun
    <3>3. Leads(deprecate_eof, AResult, e, Over) BY <2>0 DEF Leads
    <3>4. Runs(deprecate_eof, <<e>>, AResult, Over) BY <3>3, Places, RunsOne
    <3>5. (\E r \in Results : Reply(m, r)) \/ Reply(m, <<e>>)
      BY <1>1, <2>e, <2>2, Zenon DEF ServeExecute, ServeQuery
    <3> QED BY <2>0, <3>1, <3>2, <3>4, <3>5, Zenon
  <2> QED BY <2>1, <2>2
<1> QED BY <1>1, <1>2, <1>3, <1>5, <1>6, <1>t, AnswerStep

\* A Prepare makes a statement nobody has named yet.
LEMMA ServePrepareStep ==
  ASSUME MyInv, Serve, Head(sent).kind = "Prepare" PROVE MyInv'
<1> DEFINE m == Head(sent)
<1>t. /\ sent \in Seq(CommandRec) /\ OneAsked /\ StatementInv /\ deprecate_eof \in BOOLEAN
      /\ next_id \in Nat \ {0} /\ \A n \in DOMAIN stmts : n \in Nat /\ n < next_id
  BY DEF MyInv, TypeInv
<1>1. open /\ sent # <<>> /\ sent' = Tail(sent) /\ Served /\ ServePrepare(m)
  BY DEF Serve, Served, conn, statements
<1>3. m.kind \in Asking /\ Answer(m.kind) = APrepare BY DEF Asking, Answer
<1>4. /\ Keys(sent') \subseteq Keys(sent) /\ Asked = {m} /\ m \in Keys(sent) /\ m \in CommandRec
  BY <1>1, <1>3, <1>t, ServesOne
<1>5. inbox = <<>> BY <1>4 DEF MyInv, ChannelInv
<1>6. PICK c \in Nat : c = m.call BY <1>4 DEF CommandRec
<1>s. PICK sql : sql = m.sql BY Zenon
<1>7. Commands' \subseteq Commands BY <1>1, <1>4 DEF Commands, Served
<1>8. ASSUME NEW r \in Seq(PacketRec), Reply(m, r), NEW n \in Nat,
             \A x \in Keys(r) : x.kind = "PrepareOk" => x.id = n,
             (\A x \in Keys(r) : x.kind # "PrepareOk") \/ (n = next_id /\ Known(n, sql)'),
             \A i, q : Known(i, q) => Known(i, q)', next_id <= next_id', next_id' \in Nat
      PROVE  StatementInv'
  <2>1. PICK k : k = Stamped(r, c) BY Zenon
  <2>2. /\ k \in Seq(PacketRec)
        /\ \A p \in Keys(k) : \E x \in Keys(r) : p.kind = x.kind /\ p.id = x.id
    BY <2>1, StampedSeq
  <2>3. inbox' = k
    <3>1. inbox' = <<>> \o k BY <1>5, <1>6, <1>8, <2>1, Zenon DEF Reply, Stamped
    <3>2. <<>> \o k = k BY <2>2
    <3> QED BY <3>1, <3>2
  <2>4. \A p \in Keys(inbox') : p.kind = "PrepareOk" => p.id = next_id /\ Known(p.id, sql)'
    BY <1>8, <2>2, <2>3
  <2>5. op' = op /\ cache' = cache /\ ids' = ids BY <1>1 DEF Served
  <2>6. MissInv' BY <2>5, <1>t DEF StatementInv, MissInv
  <2>7. CacheKnown'
    <3>1. \A q \in Keys(cache) : Known(ids[q], q)' BY <1>8, <2>5, <1>t, Zenon DEF StatementInv, CacheKnown
    <3> QED BY <3>1, <2>5 DEF CacheKnown, Known
  <2>8. HeldKnown'
    <3>1. op.step \in Held => Known(op.id, op.sql)' BY <1>8, <2>5, <1>t DEF StatementInv, HeldKnown
    <3> QED BY <3>1, <2>5, Zenon DEF HeldKnown, Known
  <2>9. ReplyKnown'
    <3>1. op.step = "prepare_ok" =>
             sql = op.sql /\ \A x \in Keys(sent') : x.kind = "Prepare" => x.sql = op.sql
      BY <1>4, <1>s, <1>t DEF StatementInv, ReplyKnown
    <3> QED BY <2>4, <2>5, <3>1 DEF ReplyKnown, Known
  <2>10. ExecuteKnown'
    <3>1. \A x \in Commands' : x.kind = "Execute" => Known(x.id, x.sql)'
      BY <1>7, <1>8, <1>t DEF StatementInv, ExecuteKnown
    <3> QED BY <3>1 DEF ExecuteKnown, Known
  <2>11. ClosesApart'
    <3>1. ASSUME NEW x \in Commands', x.kind = "StmtClose"
          PROVE  /\ x.id < next_id /\ x.id \in Nat
                 /\ \A q \in Keys(cache) : ids[q] # x.id
                 /\ op.step \in Held => op.id # x.id
                 /\ \A y \in Commands' : y.kind = "Execute" => y.id # x.id
      <4>1. x \in Commands /\ Commands \subseteq CommandRec
        BY <1>7, <3>1, KeysFacts DEF Commands, MyInv, TypeInv
      <4>2. x.id \in Nat BY <4>1 DEF CommandRec
      <4> QED BY <1>7, <3>1, <4>1, <4>2, <1>t DEF StatementInv, ClosesApart
    <3>2. ASSUME NEW x \in Commands', x.kind = "StmtClose" PROVE x.id < next_id' /\ x.id # next_id
      <4>1. x.id < next_id /\ x.id \in Nat BY <3>1, <3>2, Zenon
      <4>2. next_id <= next_id' /\ next_id \in Nat /\ next_id' \in Nat BY <1>8, <1>t
      <4> QED BY <4>1, <4>2
    <3> QED BY <2>4, <2>5, <3>1, <3>2, Zenon DEF ClosesApart
  <2> QED BY <2>6, <2>7, <2>8, <2>9, <2>10, <2>11 DEF StatementInv
<1>9. CASE Reply(m, <<Pkt("ERR", 0, FALSE)>>) /\ UNCHANGED <<stmts, next_id>>
  <2>1. PICK e : e = Pkt("ERR", 0, FALSE) BY Zenon
  <2>2. e \in PacketRec /\ e.kind = "ERR"
    <3>1. "ERR" \in PacketKind BY DEF PacketKind
    <3> QED BY <2>1, <3>1, APacket, Zenon
  <2>3. PICK r \in Seq(PacketRec) : r = <<e>> BY <2>2, SeqFacts, Zenon
  <2>4. Leads(deprecate_eof, APrepare, e, Over) BY <2>2 DEF Leads
  <2>5. Runs(deprecate_eof, r, APrepare, Over) BY <2>3, <2>4, Places, RunsOne, Zenon
  <2>6. Keys(r) = {e} BY <2>3, KeysFacts
  <2>7. \A i, q : Known(i, q) => Known(i, q)' BY <1>9 DEF Known
  <2>8. \A x \in Keys(r) : x.kind # "PrepareOk" BY <2>2, <2>6
  <2>9. Reply(m, r) BY <1>9, <2>1, <2>3
  <2>10. next_id <= next_id' /\ next_id' \in Nat BY <1>9, <1>t
  <2>11. StatementInv'
    <3>1. PICK n \in Nat : n = 0 OBVIOUS
    <3>2. \A x \in Keys(r) : x.kind = "PrepareOk" => x.id = n BY <2>8
    <3> QED BY <3>2, <2>7, <2>8, <2>9, <2>10, <1>8
  <2> QED BY <1>1, <1>3, <1>9, <2>5, <2>9, <2>11, <1>t, AnswerStep
<1>10. ASSUME NEW params \in 0..1, NEW cols \in 0..1,
              Reply(m, <<[Pkt("PrepareOk", params, FALSE) EXCEPT !.id = next_id, !.cols = cols]>>
                       \o Defs(params) \o Defs(cols)),
              stmts' = [id \in DOMAIN stmts \cup {next_id} |-> IF id = next_id THEN m.sql ELSE stmts[id]],
              next_id' = next_id + 1
       PROVE  MyInv'
  <2>1. PICK r : r = <<[Pkt("PrepareOk", params, FALSE) EXCEPT !.id = next_id, !.cols = cols]>>
                     \o Defs(params) \o Defs(cols)
    BY Zenon
  <2>2. /\ r \in Seq(PacketRec) /\ Runs(deprecate_eof, r, APrepare, Over)
        /\ \A x \in Keys(r) : x.kind = "PrepareOk" => x.id = next_id
    BY <2>1, <1>t, PrepareRuns, Zenon
  <2>3. Reply(m, r) BY <1>10, <2>1
  <2>4. PICK n \in Nat : n = next_id BY <1>t
  <2>5. Known(n, sql)' BY <1>10, <1>s, <2>4 DEF Known
  <2>6. \A i, q : Known(i, q) => Known(i, q)'
    <3>1. ASSUME NEW i, NEW q, Known(i, q) PROVE Known(i, q)'
      <4>1. i \in DOMAIN stmts /\ stmts[i] = q /\ i # next_id BY <3>1, <1>t DEF Known
      <4> QED BY <4>1, <1>10 DEF Known
    <3> QED BY <3>1
  <2>7. next_id' \in Nat \ {0} /\ next_id <= next_id' BY <1>10, <1>t
  <2>8. ASSUME NEW i \in DOMAIN stmts' PROVE i \in Nat /\ i < next_id'
    <3>1. i \in DOMAIN stmts \/ i = next_id BY <1>10
    <3> QED BY <3>1, <1>10, <1>t
  <2>9. StatementInv' BY <2>2, <2>3, <2>4, <2>5, <2>6, <2>7, <1>8
  <2> QED BY <1>1, <1>3, <2>2, <2>3, <2>7, <2>8, <2>9, AnswerStep, Zenon
<1> QED BY <1>1, <1>9, <1>10 DEF ServePrepare

\* A statement is closed that nobody names any more.
LEMMA ServeCloseStep ==
  ASSUME MyInv, Serve, Head(sent).kind = "StmtClose" PROVE MyInv'
<1>t. /\ sent \in Seq(CommandRec) /\ OneAsked /\ StatementInv /\ TypeInv /\ PhaseInv /\ BufferInv
      /\ ChannelInv /\ OwnInv
  BY DEF MyInv, TypeInv
<1>1. /\ open /\ sent # <<>> /\ sent' = Tail(sent) /\ Served /\ ServeClose(Head(sent))
      /\ inbox' = inbox /\ next_id' = next_id
  BY DEF Serve, ServeClose, Served, conn, statements
<1>2. Head(sent).kind \notin Asking BY DEF Asking
<1>3. /\ OneAsked' /\ Head(sent) \in Keys(sent) /\ Keys(sent') \subseteq Keys(sent)
      /\ sent' \in Seq(CommandRec) /\ Asked' = Asked
  BY <1>1, <1>2, <1>t, ServesOne
<1>4. PICK k : k = Head(sent).id BY Zenon
<1>5. \A n, q : Known(n, q) /\ n # k => Known(n, q)'
  <2>1. stmts' = [x \in {y \in DOMAIN stmts : y # k} |-> stmts[x]]
    BY <1>1, <1>4, Zenon DEF ServeClose, RestrictDomain, Restrict
  <2> QED BY <2>1 DEF Known
<1>6. \A n \in DOMAIN stmts' : n \in DOMAIN stmts
  <2>1. stmts' = [x \in {y \in DOMAIN stmts : y # k} |-> stmts[x]]
    BY <1>1, <1>4, Zenon DEF ServeClose, RestrictDomain, Restrict
  <2> QED BY <2>1
<1>7. TypeInv' BY <1>1, <1>3, <1>6, <1>t, Zenon DEF TypeInv, Served
<1>8. PhaseInv' /\ BufferInv' BY <1>1, <1>t, Zenon DEF PhaseInv, BufferInv, Flushing, Served
<1>9. ChannelInv'
  <2>1. PICK s \in Place :
           /\ Awaiting(s)
           /\ \/ inbox = <<>> /\ \E m \in Asked : Answer(m.kind) = s
              \/ /\ Asked = {}
                 /\ \E t \in Place : Runs(deprecate_eof, inbox, s, t) /\ (open /\ ~ closed => t = Over)
    BY <1>t DEF ChannelInv
  <2>2. Awaiting(s)' BY <1>1, <2>1, AwaitingKept DEF Served
  <2>3. deprecate_eof' = deprecate_eof /\ open' = open /\ closed' = closed BY <1>1 DEF Served
  <2> QED BY <1>1, <1>3, <2>1, <2>2, <2>3, Zenon DEF ChannelInv
<1>10. OwnInv' BY <1>1, <1>3, <1>t, Zenon DEF OwnInv, Busy, Served
<1>11. StatementInv'
  <2>1. op' = op /\ cache' = cache /\ ids' = ids /\ Commands' \subseteq Commands
    BY <1>1, <1>3 DEF Served, Commands
  <2>2. /\ \A q \in Keys(cache) : ids[q] # k
        /\ op.step \in Held => op.id # k
        /\ op.step = "prepare_ok" => \A p \in Keys(inbox) : p.kind = "PrepareOk" => p.id # k
        /\ \A x \in Commands : x.kind = "Execute" => x.id # k
    <3>1. Head(sent) \in Commands BY <1>3 DEF Commands
    <3> QED BY <1>4, <3>1, <1>t DEF StatementInv, ClosesApart
  <2>3. MissInv' BY <2>1, <1>t DEF StatementInv, MissInv
  <2>4. CacheKnown'
    <3>1. ASSUME NEW q \in Keys(cache) PROVE Known(ids[q], q)'
      <4>1. PICK n : n = ids[q] BY Zenon
      <4>2. Known(n, q) /\ n # k BY <4>1, <2>2, <1>t, Zenon DEF StatementInv, CacheKnown
      <4>3. Known(n, q)' BY <4>2, <1>5
      <4> QED BY <4>1, <4>3, <2>1 DEF Known
    <3> QED BY <3>1, <2>1 DEF CacheKnown, Known
  <2>5. HeldKnown'
    <3>1. ASSUME op.step \in Held PROVE Known(op.id, op.sql)'
      <4>1. PICK n, q : n = op.id /\ q = op.sql BY Zenon
      <4>2. Known(n, q) /\ n # k BY <3>1, <4>1, <2>2, <1>t DEF StatementInv, HeldKnown
      <4>3. Known(n, q)' BY <4>2, <1>5
      <4> QED BY <4>1, <4>3, <2>1 DEF Known
    <3> QED BY <3>1, <2>1, Zenon DEF HeldKnown, Known
  <2>6. ReplyKnown'
    <3>1. ASSUME op.step = "prepare_ok", NEW p \in Keys(inbox), p.kind = "PrepareOk"
          PROVE  Known(p.id, op.sql)'
      <4>1. PICK n, q : n = p.id /\ q = op.sql BY Zenon
      <4>2. Known(n, q) /\ n # k BY <3>1, <4>1, <2>2, <1>t, Zenon DEF StatementInv, ReplyKnown
      <4>3. Known(n, q)' BY <4>2, <1>5
      <4> QED BY <4>1, <4>3, <2>1 DEF Known
    <3>2. op.step = "prepare_ok" => \A m \in Keys(sent') : m.kind = "Prepare" => m.sql = op.sql
      BY <1>3, <1>t, Zenon DEF StatementInv, ReplyKnown
    <3> QED BY <1>1, <2>1, <3>1, <3>2 DEF ReplyKnown, Known
  <2>7. ExecuteKnown'
    <3>1. ASSUME NEW x \in Commands', x.kind = "Execute" PROVE Known(x.id, x.sql)'
      BY <1>5, <2>1, <2>2, <3>1, <1>t DEF StatementInv, ExecuteKnown
    <3> QED BY <3>1 DEF ExecuteKnown, Known
  <2>8. ClosesApart' BY <1>1, <2>1, <1>t, Zenon DEF StatementInv, ClosesApart
  <2> QED BY <2>3, <2>4, <2>5, <2>6, <2>7, <2>8 DEF StatementInv
<1> QED BY <1>3, <1>7, <1>8, <1>9, <1>10, <1>11 DEF MyInv

\* The connection ends, at any point of a reply.
LEMMA DiesStep == ASSUME MyInv, ServeQuit \/ Crash PROVE MyInv'
<1>t. /\ inbox \in Seq(PacketRec) /\ StatementInv /\ TypeInv /\ PhaseInv /\ BufferInv /\ ChannelInv /\ OwnInv
  BY DEF MyInv, TypeInv
<1>1. /\ open' = FALSE /\ sent' = <<>>
      /\ UNCHANGED <<op, calls, deprecate_eof, waiting, cache, ids, closed, wbuf, stmts, next_id>>
  BY DEF ServeQuit, Crash, conn, statements
<1>2. inbox' = inbox \/ \E n \in 0..Len(inbox) : inbox' = SubSeq(inbox, 1, n) BY Zenon DEF ServeQuit, Crash
<1>3. inbox' \in Seq(PacketRec) /\ Keys(inbox') \subseteq Keys(inbox) BY <1>2, <1>t, PrefixStep
<1>4. sent' \in Seq(CommandRec) /\ Keys(sent') = {} /\ OneAsked' /\ Asked' = {}
  BY <1>1, KeysFacts DEF OneAsked, Asked
<1>5. TypeInv' BY <1>1, <1>3, <1>4, <1>t, Zenon DEF TypeInv
<1>6. PhaseInv' /\ BufferInv' BY <1>1, <1>t, Zenon DEF PhaseInv, BufferInv, Flushing
<1>7. ChannelInv'
  <2>1. PICK s \in Place : /\ Awaiting(s)
                           /\ inbox = <<>> \/ \E t \in Place : Runs(deprecate_eof, inbox, s, t)
    BY <1>t DEF ChannelInv
  <2>2. \E t \in Place : Runs(deprecate_eof, inbox, s, t) BY <2>1, RunsNone
  <2>3. PICK t \in Place : Runs(deprecate_eof, inbox', s, t) BY <1>2, <2>2, <1>t, RunsPrefix, Zenon
  <2>4. Awaiting(s)' BY <1>1, <2>1, AwaitingKept
  <2>5. Runs(deprecate_eof', inbox', s, t) /\ ~ open' BY <1>1, <2>3
  <2> QED BY <1>4, <2>4, <2>5, Zenon DEF ChannelInv
<1>8. OwnInv' BY <1>1, <1>3, <1>4, <1>t, Zenon DEF OwnInv, Busy
<1>9. Carries BY <1>1, <1>3, <1>4, Zenon DEF Carries, Commands
<1>10. StatementInv' BY <1>9, <1>t, CarriesStatements
<1> QED BY <1>4, <1>5, <1>6, <1>7, <1>8, <1>10 DEF MyInv

\* close() sends Quit.
LEMMA CloseStep == ASSUME MyInv, Close PROVE MyInv'
<1>t. /\ sent \in Seq(CommandRec) /\ StatementInv /\ TypeInv /\ PhaseInv /\ BufferInv /\ ChannelInv
      /\ OwnInv /\ OneAsked /\ op \in OpRec /\ calls \in Nat
  BY DEF MyInv, TypeInv
<1>1. /\ op.step = "idle" /\ closed' = TRUE
      /\ sent' = IF open THEN Append(sent, Command("Quit", None)) ELSE sent
      /\ UNCHANGED <<op, calls, deprecate_eof, waiting, cache, ids, wbuf, inbox, stmts, next_id, open>>
  BY DEF Close, At, statements, server
<1>2. PICK c : c = Command("Quit", None) BY Zenon
<1>3. c \in CommandRec /\ c.kind = "Quit"
  BY <1>2, <1>t, Zenon DEF Command, CommandRec, CommandKind, OpRec, None
<1>4. /\ OneAsked' /\ sent' \in Seq(CommandRec) /\ Asked' = Asked
      /\ \A m \in Keys(sent') : m \in Keys(sent) \/ m = c
      /\ ~ open => sent' = sent
  <2>1. CASE open
    <3>1. sent' = sent \o <<c>> BY <1>1, <1>2, <1>t, <2>1
    <3>2. \A i \in DOMAIN sent' : \/ i \in DOMAIN sent /\ sent'[i] = sent[i]
                                  \/ i = Len(sent) + 1 /\ sent'[i] = c
      BY <1>3, <3>1, <1>t, AppendStep
    <3>3. c.kind \notin Asking BY <1>3 DEF Asking
    <3>4. OneAsked' BY <3>2, <3>3, <1>t, Zenon DEF OneAsked
    <3>5. sent' \in Seq(CommandRec) /\ Keys(sent') = Keys(sent) \cup {c}
      BY <1>1, <1>2, <1>3, <1>t, <2>1, AppendKeys
    <3> QED BY <2>1, <3>3, <3>4, <3>5 DEF Asked
  <2>2. CASE ~ open BY <1>1, <2>2, <1>t DEF OneAsked, Asked
  <2> QED BY <2>1, <2>2
<1>5. TypeInv' BY <1>1, <1>4, <1>t DEF TypeInv
<1>6. PhaseInv' /\ BufferInv' BY <1>1, <1>t, Zenon DEF PhaseInv, BufferInv, Flushing
<1>7. ChannelInv'
  <2>1. PICK s \in Place :
           /\ Awaiting(s)
           /\ \/ inbox = <<>> /\ \E m \in Asked : Answer(m.kind) = s
              \/ Asked = {} /\ \E t \in Place : Runs(deprecate_eof, inbox, s, t)
    BY <1>t DEF ChannelInv
  <2>2. Awaiting(s)' BY <1>1, <2>1, AwaitingKept
  <2>3. inbox' = inbox /\ deprecate_eof' = deprecate_eof /\ closed' BY <1>1
  <2> QED BY <1>4, <2>1, <2>2, <2>3, Zenon DEF ChannelInv
<1>8. OwnInv' BY <1>1, <1>4, <1>t DEF OwnInv, Busy
<1>9. Carries BY <1>1, <1>3, <1>4, Zenon DEF Carries, Commands, Held, MissSteps
<1>10. StatementInv' BY <1>9, <1>t, CarriesStatements
<1> QED BY <1>4, <1>5, <1>6, <1>7, <1>8, <1>10 DEF MyInv

-----------------------------------------------------------------------------
(* The invariant and what it gives. *)

\* A fresh connection.
LEMMA InitInv == ASSUME Init PROVE MyInv
<1>1. /\ op = Idle /\ calls = 0 /\ deprecate_eof \in BOOLEAN /\ waiting = <<>>
      /\ cache = <<>> /\ ids = [q \in Sql |-> None] /\ closed = FALSE
      /\ wbuf = <<>> /\ sent = <<>> /\ inbox = <<>> /\ stmts = <<>> /\ next_id = 1 /\ open = TRUE
  BY DEF Init
<1>2. op \in OpRec /\ op.step = "idle" /\ op.kind = "none" BY <1>1, Zenon DEF Idle, OpRec, Step, None
<1>3. \A n \in DOMAIN stmts : FALSE BY <1>1
<1>e. /\ cache \in Seq(Sql) /\ wbuf \in Seq(CommandRec) /\ sent \in Seq(CommandRec)
      /\ inbox \in Seq(PacketRec) /\ ids \in [Sql -> Nat]
  BY <1>1 DEF None
<1>f. /\ next_id \in Nat \ {0} /\ calls \in Nat /\ closed \in BOOLEAN /\ open \in BOOLEAN
      /\ deprecate_eof \in BOOLEAN /\ waiting \in {<<>>, <<"Result">>, <<"Row">>}
  <2>1. next_id = 1 /\ calls = 0 BY <1>1, Zenon
  <2>2. next_id \in Nat \ {0} /\ calls \in Nat BY <2>1
  <2> QED BY <1>1, <2>2, Zenon
<1>4. TypeInv BY <1>2, <1>3, <1>e, <1>f, Zenon DEF TypeInv
<1>5. PhaseInv BY <1>2 DEF PhaseInv, PrepareSteps
<1>6. Keys(wbuf) = {} /\ Keys(sent) = {} /\ Keys(inbox) = {} /\ Keys(cache) = {}
  BY <1>1, KeysFacts
<1>7. BufferInv BY <1>2, <1>6 DEF BufferInv, Flushing
<1>8. Awaiting(Over) BY <1>1, <1>2, IdleAwaiting
<1>9. Asked = {} /\ OneAsked BY <1>1, <1>6 DEF Asked, OneAsked
<1>10. Runs(deprecate_eof, inbox, Over, Over) /\ Over \in Place BY <1>1, Places, RunsNone
<1>11. ChannelInv BY <1>8, <1>9, <1>10, Zenon DEF ChannelInv
<1>12. OwnInv BY <1>1, <1>2 DEF OwnInv, Busy
<1>13. StatementInv
  BY <1>2, <1>6, Zenon DEF StatementInv, MissInv, CacheKnown, HeldKnown, ReplyKnown, ExecuteKnown,
                    ClosesApart, MissSteps, Held, Commands
<1> QED BY <1>4, <1>5, <1>7, <1>9, <1>11, <1>12, <1>13 DEF MyInv

\* Every step keeps the invariant.
LEMMA NextInv ==
  ASSUME MyInv, DropAt \subseteq Recoverable, [Next]_vars PROVE MyInv'
<1>1. CASE StartQuery BY <1>1, Starts, Zenon DEF StartQuery, None
<1>2. CASE StartExec \/ StartPrepare \/ StartFetch
  BY <1>2, Starts, Zenon DEF StartExec, StartPrepare, StartFetch
<1>3. CASE StartPing BY <1>3, Starts, Zenon DEF StartPing, None
<1>4. CASE SkipEnd \/ PrepareWith \/ ParamsEnd \/ StoreNot \/ RunPrepared \/ MetadataEnd
  BY <1>4, LocalSteps
<1>5. CASE Prepared
  <2>1. CASE op' = Idle BY <1>5, <2>1, EndSteps
  <2>2. CASE op' # Idle
    <3>1. op' = [op EXCEPT !.running = TRUE, !.step = "ready"] BY <1>5, <2>2 DEF Prepared, End
    <3>2. op'.step # "idle" BY <3>1 DEF MyInv, TypeInv, OpRec
    <3> QED BY <1>5, <3>2, LocalSteps
  <2> QED BY <2>1, <2>2
<1>6. CASE FlushError \/ RecvEof \/ Drop BY <1>6, EndSteps
<1>7. CASE Ping \/ LookupMiss \/ RunQuery \/ Execute BY <1>7, SendSteps
<1>8. CASE RecvErr BY <1>8, RecvErrStep
<1>9. CASE DrainRow BY <1>9, DrainRowStep
<1>10. CASE DrainResult BY <1>10, DrainResultStep
<1>11. CASE Skip BY <1>11, SkipStep
<1>12. CASE PingOk BY <1>12, PingOkStep
<1>13. CASE PrepareOk BY <1>13, PrepareOkStep
<1>14. CASE ReadParams \/ ReadColumns \/ ReadMetadata
  BY <1>14, DefinitionStep DEF ReadParams, ReadColumns, ReadMetadata
<1>15. CASE Result BY <1>15, ResultStep
<1>16. CASE Rows BY <1>16, RowsStep
<1>17. CASE LookupHit BY <1>17, LookupHitStep
<1>18. CASE Store BY <1>18, StoreStep
<1>19. CASE Flush BY <1>19, FlushStep
<1>20. CASE Serve
  BY <1>20, ServeRun, ServePrepareStep, ServeCloseStep, Zenon DEF Serve
<1>21. CASE ServeQuit \/ Crash BY <1>21, DiesStep
<1>22. CASE Close BY <1>22, CloseStep
<1>23. CASE UNCHANGED vars
  <2>1. Served /\ UNCHANGED <<sent, inbox, stmts, next_id>>
    BY <1>23 DEF vars, conn, statements, server, Served
  <2>2. TypeInv' BY <2>1 DEF MyInv, TypeInv, Served
  <2>3. PhaseInv' /\ BufferInv' BY <2>1, Zenon DEF MyInv, PhaseInv, BufferInv, Flushing, Served
  <2>4. Carries BY <2>1, Zenon DEF Carries, Commands, Served, MyInv, StatementInv, ReplyKnown
  <2>5. StatementInv' BY <2>4, CarriesStatements DEF MyInv
  <2>6. \A s \in Place : Awaiting(s) => Awaiting(s)' BY <2>1, AwaitingKept DEF Served
  <2> QED BY <2>1, <2>2, <2>3, <2>5, <2>6, QuietStep DEF Quiet, Served, Busy
<1> QED
  BY <1>1, <1>2, <1>3, <1>4, <1>5, <1>6, <1>7, <1>8, <1>9, <1>10, <1>11, <1>12, <1>13, <1>14, <1>15,
     <1>16, <1>17, <1>18, <1>19, <1>20, <1>21, <1>22, <1>23
  DEF Next, ClientPoll, ServerStep, Choice

\* The invariant holds in every state.
LEMMA MyCorrect ==
  ASSUME DropAt \subseteq Recoverable PROVE Spec => []MyInv
<1>1. Init => MyInv BY InitInv
<1>2. MyInv /\ [Next]_vars => MyInv' BY NextInv
<1> QED BY <1>1, <1>2, PTL DEF Spec

\* What the invariant says of the queue of announcements:
LEMMA InvWaiting == ASSUME MyInv PROVE WaitingExact
<1>t. /\ waiting \in {<<>>, <<"Result">>, <<"Row">>} /\ PhaseInv /\ inbox \in Seq(PacketRec)
  BY DEF MyInv, TypeInv
<1>1. ASSUME op.step = "idle", open, ~ closed PROVE waiting # <<>> <=> Outstanding
  <2>1. PICK s \in Place :
           /\ Awaiting(s)
           /\ \/ inbox = <<>> /\ \E m \in Asked : Answer(m.kind) = s
              \/ Asked = {} /\ Runs(deprecate_eof, inbox, s, Over)
    BY <1>1 DEF MyInv, ChannelInv
  <2>2. waiting = <<>> <=> s = Over
    BY <1>1, <2>1, <1>t, Places, Waits, Zenon DEF Awaiting, Over
  <2>3. Outstanding <=> inbox # <<>> \/ Asked # {}
    <3>1. ASSUME NEW i \in DOMAIN sent PROVE sent[i].kind \in Asking <=> sent[i].kind \notin {"StmtClose", "Quit"}
      <4>1. sent[i] \in CommandRec BY DEF MyInv, TypeInv
      <4>2. sent[i].kind \in CommandKind BY <4>1 DEF CommandRec
      <4> QED BY <4>2 DEF CommandKind, Asking
    <3> QED BY <3>1 DEF Outstanding, Asked, Keys
  <2>4. CASE s = Over
    <3>1. Asked = {} /\ inbox = <<>>
      BY <1>1, <2>1, <2>2, <2>4, Silent, Places, Zenon DEF MyInv, Awaiting
    <3> QED BY <3>1, <2>2, <2>3, <2>4
  <2>5. CASE s # Over
    <3>1. inbox = <<>> => Asked # {} BY <2>1, <2>5, RunsNone
    <3> QED BY <3>1, <2>2, <2>3, <2>5
  <2> QED BY <2>4, <2>5
<1>2. ASSUME op.step \in {"result", "metadata", "rows"}
      PROVE  waiting # <<>> /\ (op.step = "rows" => waiting[1] = "Row")
  BY <1>2, <1>t, Waits DEF PhaseInv
<1> QED BY <1>1, <1>2 DEF WaitingExact, At

\* of the replies,
LEMMA InvOwn == ASSUME MyInv PROVE OwnReplies
<1>1. Reads /\ ~ Draining /\ op.step # "skip" => Busy BY DEF Reads, Draining, At, Busy
<1>2. Busy => \A i \in DOMAIN inbox : inbox[i].call = calls BY DEF MyInv, OwnInv, Keys
<1> QED BY <1>1, <1>2 DEF OwnReplies, At

\* and of the statements.
LEMMA InvStatements == ASSUME MyInv PROVE StatementsKnown
<1>1. \A i \in DOMAIN cache : cache[i] \in Keys(cache) BY DEF Keys
<1>2. \A i \in DOMAIN sent : sent[i] \in Commands BY DEF Keys, Commands
<1> QED BY <1>1, <1>2, Zenon DEF StatementsKnown, MyInv, StatementInv, CacheKnown, ExecuteKnown

\* Between operations `waiting` says whether a reply is under way, and inside run
\* it has the entry that is read, whatever failed or was dropped before, if
\* futures are dropped only at the awaits of Recoverable.
THEOREM MyWaitingExact ==
  ASSUME DropAt \subseteq Recoverable PROVE Spec => []WaitingExact
<1>1. MyInv => WaitingExact BY InvWaiting
<1> QED BY <1>1, MyCorrect, PTL

\* Outside wait_until_ready an operation reads nothing but its own replies.
THEOREM MyOwnReplies ==
  ASSUME DropAt \subseteq Recoverable PROVE Spec => []OwnReplies
<1>1. MyInv => OwnReplies BY InvOwn
<1> QED BY <1>1, MyCorrect, PTL

\* The cached statements and those that are executed are known to the server.
THEOREM MyStatementsKnown ==
  ASSUME DropAt \subseteq Recoverable PROVE Spec => []StatementsKnown
<1>1. MyInv => StatementsKnown BY InvStatements
<1> QED BY <1>1, MyCorrect, PTL
=============================================================================
