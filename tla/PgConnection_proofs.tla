------------------------ MODULE PgConnection_proofs ------------------------
(***************************************************************************)
(* Proofs about PgConnection, for any set of queries, any capacity of the  *)
(* statement cache, any range of identifiers and any number of calls, rows *)
(* and notifications: every action belongs to one of the classes of        *)
(* PgChannel_proofs, so that the invariant PgInv defined there holds in    *)
(* every reachable state, and with it the properties of the module.        *)
(***************************************************************************)
EXTENDS PgChannel_proofs

-----------------------------------------------------------------------------
(* The actions. *)

\* The application starts an operation.
Starts == StartSimple \/ StartExec \/ StartPrepare \/ StartFetch

\* The Local steps that leave the statements alone.
Claims == Starts \/ PrepareWith \/ FetchType \/ TypesKnown \/ Described \/ StoreNot
          \/ PrepareReturn \/ TakeArguments \/ RunPrepared

\* The identifier a store takes out of the cache.
Displaces == {ids[q] : q \in Displaced(cache, Top.sql)}

\* The expected reply is read.
Replied == ReadsReply /\ Top.step # "stream" /\ inbox # <<>> /\ inbox[1].kind \in Expected(Top.step)

\* What is neither a ReadyForQuery nor a ParseComplete.
Plain == ReplyKind \ {"ReadyForQuery", "ParseComplete"}

\* The replies to the message at hand.
Gives(r, ks) ==
    /\ r \in Seq(Reply) /\ inbox' = inbox \o r /\ DOMAIN r = DOMAIN ks
    /\ \A i \in DOMAIN r : r[i].call = sent[1].call /\ r[i].kind = ks[i]
    /\ skipping' = (sent[1].kind \notin Syncs /\ Has(r, {"ErrorResponse"}))

-----------------------------------------------------------------------------
(* Frames. *)

\* Which calls reach a step.
LEMMA Setting ==
  ASSUME BasicInv, frames # <<>>
  PROVE  /\ Top.step \in {"ready", "lookup", "parse_ready", "types", "types_ready", "store",
                          "return", "arguments", "bind_ready"} => Top.kind # "simple" /\ Top.sql \in Key
         /\ Phase = Top.step
BY TopFrame

\* Replacing the topmost call by one with the same fixed fields.
LEMMA SetTop ==
  ASSUME BasicInv, frames # <<>>, NEW g \in FrameRec,
         g.kind = Top.kind, g.sql = Top.sql, g.limit = Top.limit,
         g.call = Top.call, g.persistent = Top.persistent,
         frames' = [frames EXCEPT ![1] = g]
  PROVE  Moves(g)
<1>1. frames \in Seq(FrameRec) BY DEF BasicInv, TypeInv
<1>2. 1 \in DOMAIN frames BY <1>1
<1>3. /\ frames' \in Seq(FrameRec) /\ Len(frames') = Len(frames) /\ DOMAIN frames' = DOMAIN frames
      /\ frames'[1] = g /\ frames' # <<>>
      /\ \A i \in DOMAIN frames : i # 1 => frames'[i] = frames[i]
  BY <1>1, <1>2
<1> QED BY <1>3, Zenon DEF Moves

\* A call at another step.
LEMMA WithStep ==
  ASSUME NEW t \in FrameRec, NEW s \in Step
  PROVE  /\ [t EXCEPT !.step = s] \in FrameRec
         /\ [t EXCEPT !.step = s].step = s
         /\ [t EXCEPT !.step = s].kind = t.kind /\ [t EXCEPT !.step = s].sql = t.sql
         /\ [t EXCEPT !.step = s].limit = t.limit /\ [t EXCEPT !.step = s].call = t.call
         /\ [t EXCEPT !.step = s].persistent = t.persistent
         /\ [t EXCEPT !.step = s].id = t.id /\ [t EXCEPT !.step = s].md = t.md
BY DEF FrameRec

\* Goto moves the topmost call.
LEMMA GotoMoves ==
  ASSUME BasicInv, frames # <<>>, NEW s \in Step, Goto(s)
  PROVE  \E g : Moves(g) /\ g.step = s /\ g.id = Top.id /\ g.md = Top.md
<1>1. Top \in FrameRec BY TopFrame
<1>2. PICK g : g = [Top EXCEPT !.step = s] BY Zenon
<1>3. /\ g \in FrameRec /\ g.step = s /\ g.id = Top.id /\ g.md = Top.md
      /\ g.kind = Top.kind /\ g.sql = Top.sql /\ g.limit = Top.limit
      /\ g.call = Top.call /\ g.persistent = Top.persistent
  BY <1>1, <1>2, WithStep
<1>4. frames' = [frames EXCEPT ![1] = g]
  BY <1>2 DEF Goto, Top
<1>5. Moves(g) BY <1>3, <1>4, SetTop, Zenon
<1> QED BY <1>3, <1>5

\* A move keeps FrameInv.
LEMMA MovesBasic ==
  ASSUME BasicInv, NEW g, Moves(g),
         g.kind = "simple" => g.step \in {"run_ready", "run_flush", "stream"}
  PROVE  FrameInv' /\ Phase' = g.step /\ Phase = Top.step
<1> USE DEF Moves
<1>0. Top \in FrameRec /\ frames \in Seq(FrameRec) BY TopFrame DEF BasicInv, TypeInv
<1>1. Len(frames') <= 2 BY DEF BasicInv, FrameInv
<1>2. Len(frames') = 2 => /\ frames'[2].step = "types" /\ frames'[2].sql \in Sql
                          /\ frames'[1].sql \in TypeSql /\ frames'[1].limit = 0
  <2> SUFFICES ASSUME Len(frames) = 2
               PROVE  /\ frames'[2].step = "types" /\ frames'[2].sql \in Sql
                      /\ frames'[1].sql \in TypeSql /\ frames'[1].limit = 0
    OBVIOUS
  <2>1. 2 \in DOMAIN frames BY <1>0
  <2> QED BY <2>1 DEF BasicInv, FrameInv, Top
<1>3. ASSUME NEW i \in DOMAIN frames'
      PROVE  IF frames'[i].kind = "simple"
             THEN frames'[i].step \in {"run_ready", "run_flush", "stream"}
             ELSE frames'[i].sql \in Key
  <2>1. CASE i = 1 BY <2>1, TopFrame
  <2>2. CASE i # 1 BY <2>2 DEF BasicInv, FrameInv
  <2> QED BY <2>1, <2>2
<1>4. Phase' = g.step /\ Phase = Top.step BY DEF Phase, Top
<1> QED BY <1>1, <1>2, <1>3, <1>4 DEF FrameInv

\* What Prepared makes of a call.
LEMMA PreparedFrame ==
  ASSUME NEW t \in FrameRec
  PROVE  \E g \in FrameRec :
            /\ g = Prepared(t) /\ g.step \in AfterPrepare
            /\ g.kind = t.kind /\ g.sql = t.sql /\ g.limit = t.limit
            /\ g.call = t.call /\ g.persistent = t.persistent /\ g.id = t.id
<1>1. CASE t.kind = "exec" /\ ~ t.md
  <2>1. Prepared(t) = [t EXCEPT !.step = "arguments", !.md = TRUE] BY <1>1 DEF Prepared
  <2> QED BY <2>1, Zenon DEF FrameRec, Step, AfterPrepare
<1>2. CASE ~ (t.kind = "exec" /\ ~ t.md) /\ t.kind = "prepare"
  <2>1. Prepared(t) = [t EXCEPT !.step = "return"] BY <1>2 DEF Prepared
  <2> QED BY <2>1 DEF FrameRec, Step, AfterPrepare
<1>3. CASE ~ (t.kind = "exec" /\ ~ t.md) /\ t.kind # "prepare"
  <2>1. Prepared(t) = [t EXCEPT !.step = "bind_ready"] BY <1>3 DEF Prepared
  <2> QED BY <2>1 DEF FrameRec, Step, AfterPrepare
<1> QED BY <1>1, <1>2, <1>3

\* get_or_prepare returns the statement.
LEMMA PreparedMoves ==
  ASSUME BasicInv, frames # <<>>, frames' = [frames EXCEPT ![1] = Prepared(@)]
  PROVE  \E g : Moves(g) /\ g.step \in AfterPrepare /\ g.id = Top.id
<1>1. Top \in FrameRec BY TopFrame
<1>2. PICK g \in FrameRec :
            /\ g = Prepared(Top) /\ g.step \in AfterPrepare
            /\ g.kind = Top.kind /\ g.sql = Top.sql /\ g.limit = Top.limit
            /\ g.call = Top.call /\ g.persistent = Top.persistent /\ g.id = Top.id
  BY <1>1, PreparedFrame
<1>3. frames' = [frames EXCEPT ![1] = g] BY <1>2, Zenon DEF Top
<1> QED BY <1>2, <1>3, SetTop, Zenon

\* A cached statement is found.
LEMMA LookupHitMoves ==
  ASSUME BasicInv, LookupHit
  PROVE  \E g : Moves(g) /\ g.step \in AfterPrepare /\ g.id = ids[Top.sql]
<1>1. frames # <<>> /\ Top.step = "lookup" BY DEF LookupHit, At
<1>2. Top \in FrameRec /\ Top.sql \in Key /\ ids \in [Key -> Id]
  BY <1>1, TopFrame DEF BasicInv, TypeInv
<1>3. PICK t : t = [Top EXCEPT !.id = ids[Top.sql]] BY Zenon
<1>4. /\ t \in FrameRec /\ t.id = ids[Top.sql] /\ t.kind = Top.kind /\ t.sql = Top.sql
      /\ t.limit = Top.limit /\ t.call = Top.call /\ t.persistent = Top.persistent
  BY <1>2, <1>3 DEF FrameRec
<1>5. PICK g \in FrameRec :
            /\ g = Prepared(t) /\ g.step \in AfterPrepare
            /\ g.kind = t.kind /\ g.sql = t.sql /\ g.limit = t.limit
            /\ g.call = t.call /\ g.persistent = t.persistent /\ g.id = t.id
  BY <1>4, PreparedFrame
<1>6. frames' = [frames EXCEPT ![1] = g] BY <1>3, <1>5, Zenon DEF LookupHit, Top
<1>7. Moves(g) BY <1>1, <1>4, <1>5, <1>6, SetTop, Zenon
<1> QED BY <1>4, <1>5, <1>7

\* A statement is given the next identifier.
LEMMA LookupMissMoves ==
  ASSUME BasicInv, LookupMiss
  PROVE  \E g : Moves(g) /\ g.step = "parse_ready" /\ g.id = next_statement_id
<1>1. frames # <<>> /\ Top.step = "lookup" BY DEF LookupMiss, At
<1>2. Top \in FrameRec /\ next_statement_id \in Id
  BY <1>1, TopFrame DEF BasicInv, TypeInv
<1>3. PICK g : g = [Top EXCEPT !.id = next_statement_id, !.step = "parse_ready"] OBVIOUS
<1>4. /\ g \in FrameRec /\ g.id = next_statement_id /\ g.kind = Top.kind /\ g.sql = Top.sql
      /\ g.limit = Top.limit /\ g.call = Top.call /\ g.persistent = Top.persistent
      /\ g.step = "parse_ready"
  BY <1>2, <1>3, Zenon DEF FrameRec, Step
<1>6. frames' = [frames EXCEPT ![1] = g]
  <2>1. 1 \in DOMAIN frames /\ frames \in Seq(FrameRec) BY <1>1, TopFrame DEF BasicInv, TypeInv
  <2> QED BY <1>3, <2>1, Zenon DEF LookupMiss, Top
<1>7. Moves(g) BY <1>1, <1>4, <1>6, SetTop, Zenon
<1> QED BY <1>4, <1>7

\* A new call waits for the connection, or takes its arguments.
LEMMA NewFrame ==
  ASSUME BasicInv, NEW kind \in Kind, NEW q \in Key \cup {None}, NEW md \in BOOLEAN,
         NEW p \in BOOLEAN, NEW l \in {0, 1}, kind # "simple" => q \in Key
  PROVE  \E f \in FrameRec :
            /\ f = Frame(kind, q, md, p, l) /\ f.kind = kind /\ f.sql = q /\ f.limit = l
            /\ f.step \in {"run_ready", "ready", "arguments"}
            /\ kind = "simple" => f.step = "run_ready"
            /\ f.call = calls + 1
<1>1. PICK f : f = Frame(kind, q, md, p, l) OBVIOUS
<1>2. calls \in Nat /\ None \in Id BY PgAssumption DEF BasicInv, TypeInv, Id, None
<1>3. /\ f \in FrameRec /\ f.kind = kind /\ f.sql = q /\ f.limit = l /\ f.call = calls + 1
      /\ f.step \in {"run_ready", "ready", "arguments"}
      /\ kind = "simple" => f.step = "run_ready"
  BY <1>1, <1>2 DEF Frame, FrameRec, Step, Kind
<1> QED BY <1>1, <1>3

\* The application starts an operation.
LEMMA StartsFrame ==
  ASSUME BasicInv, Starts
  PROVE  \E f \in FrameRec : /\ Start(f) /\ f.step \in {"run_ready", "ready", "arguments"}
                             /\ f.kind = "simple" => f.step = "run_ready"
                             /\ f.kind # "simple" => f.sql \in Key
                             /\ f.call = calls + 1
<1>1. {"simple", "exec", "prepare", "fetch"} = Kind /\ Sql \subseteq Key /\ TypeSql \subseteq Key
  BY DEF Kind, Key
<1>2. PICK kind \in Kind, q \in Key \cup {None}, md \in BOOLEAN, p \in BOOLEAN, l \in {0, 1} :
         Start(Frame(kind, q, md, p, l)) /\ (kind # "simple" => q \in Key)
  BY <1>1, Zenon DEF Starts, StartSimple, StartExec, StartPrepare, StartFetch
<1> QED BY <1>2, NewFrame

\* An operation fetches a type.
LEMMA FetchTypeFrames ==
  ASSUME BasicInv, FetchType
  PROVE  \E f \in FrameRec :
            /\ frames' = <<f>> \o frames /\ f.step = "ready" /\ f.sql \in TypeSql /\ f.limit = 0
            /\ f.kind = "exec" /\ Len(frames) = 1 /\ frames # <<>>
            /\ Top.step = "types" /\ Top.sql \in Sql /\ f.call = calls + 1
<1>1. PICK q \in TypeSql : frames' = <<Frame("exec", q, FALSE, TRUE, 0)>> \o frames
  BY Zenon DEF FetchType
<1>2. PICK f \in FrameRec :
            /\ f = Frame("exec", q, FALSE, TRUE, 0) /\ f.kind = "exec" /\ f.sql = q /\ f.limit = 0
            /\ f.call = calls + 1
  <2>1. "exec" \in Kind /\ "exec" # "simple" /\ q \in Key /\ q \in Key \cup {None}
        /\ FALSE \in BOOLEAN /\ TRUE \in BOOLEAN /\ 0 \in {0, 1}
    BY DEF Key, Kind
  <2>2. PICK k \in Kind, md \in BOOLEAN, p \in BOOLEAN, l \in {0, 1} :
           k = "exec" /\ md = FALSE /\ p = TRUE /\ l = 0
    BY <2>1, Zenon
  <2>3. PICK x \in Key \cup {None} : x = q BY <2>1
  <2>4. k # "simple" => x \in Key BY <2>1, <2>3
  <2>5. \E f \in FrameRec : /\ f = Frame(k, x, md, p, l) /\ f.kind = k /\ f.sql = x /\ f.limit = l
                            /\ f.call = calls + 1
    BY <2>4, NewFrame
  <2> QED BY <2>2, <2>3, <2>5, Zenon
<1>3. f.step = "ready" BY <1>2 DEF Frame
<1>4. frames # <<>> /\ Top.step = "types" /\ Top.sql \in Sql BY DEF FetchType, At
<1>5. Len(frames) = 1
  <2>1. (Len(frames) = 1 \/ Len(frames) = 2) BY <1>4, FramesLen
  <2>2. Len(frames) # 2 BY <1>4, PgAssumption DEF BasicInv, FrameInv, Top
  <2> QED BY <2>1, <2>2
<1> QED BY <1>1, <1>2, <1>3, <1>4, <1>5, Zenon

-----------------------------------------------------------------------------
(* The statement cache. *)

\* A use of the cache keeps its keys.
LEMMA GetMutKeys ==
  ASSUME NEW c \in Seq(Key), NEW k \in Key
  PROVE  get_mut(c, k) \in Seq(Key) /\ Keys(get_mut(c, k)) \subseteq Keys(c)
<1>1. CASE ~ contains_key(c, k) BY <1>1 DEF get_mut
<1>2. CASE contains_key(c, k)
  <2>1. PICK n \in 1..Len(c) : n = IndexOf(c, k) /\ c[n] = k BY <1>2 DEF contains_key, IndexOf
  <2>2. PICK a : a = SubSeq(c, 1, n - 1) BY Zenon
  <2>3. a \in Seq(Key) /\ \A i \in DOMAIN a : i \in DOMAIN c /\ a[i] = c[i] BY <2>2
  <2>4. PICK b : b = SubSeq(c, n + 1, Len(c)) BY Zenon
  <2>5. b \in Seq(Key) /\ \A i \in DOMAIN b : n + i \in DOMAIN c /\ b[i] = c[n + i] BY <2>4
  <2>6. PICK p : p = a \o b BY Zenon
  <2>7. /\ p \in Seq(Key)
        /\ \A i \in DOMAIN p : \/ i \in DOMAIN a /\ p[i] = a[i]
                               \/ i - Len(a) \in DOMAIN b /\ p[i] = b[i - Len(a)]
    BY <2>3, <2>5, <2>6
  <2>8. get_mut(c, k) = Append(p, k) BY <1>2, <2>1, <2>2, <2>4, <2>6, Zenon DEF get_mut, pop_entry
  <2>9. PICK q : q = Append(p, k) BY Zenon
  <2>10. q \in Seq(Key) /\ \A i \in DOMAIN q : q[i] = k \/ (i \in DOMAIN p /\ q[i] = p[i])
    BY <2>7, <2>9
  <2>11. ASSUME NEW i \in DOMAIN q PROVE q[i] \in Keys(c)
    <3>1. CASE q[i] = k BY <3>1, <2>1 DEF Keys
    <3>2. CASE i \in DOMAIN p /\ q[i] = p[i]
      <4>1. \A j \in DOMAIN c : c[j] \in Keys(c) BY DEF Keys
      <4> QED BY <3>2, <2>3, <2>5, <2>7, <4>1
    <3> QED BY <3>1, <3>2, <2>10
  <2> QED BY <2>8, <2>9, <2>10, <2>11, Zenon DEF Keys
<1> QED BY <1>1, <1>2

\* An insertion adds its key to those that making room has left.
LEMMA InsertKeys ==
  ASSUME NEW c \in Seq(Key), NEW k \in Key, k \notin Keys(c)
  PROVE  /\ insert(c, k) \in Seq(Key)
         /\ Keys(MakeRoom(c, k)) \subseteq Keys(c)
         /\ Keys(insert(c, k)) \subseteq Keys(MakeRoom(c, k)) \cup {k}
<1>1. ~ contains_key(c, k) BY DEF contains_key, Keys
<1>2. PICK p : p = MakeRoom(c, k) BY Zenon
<1>3. (p = IF Len(c) = Capacity THEN Tail(c) ELSE c) /\ (Len(c) = Capacity => c # <<>>)
  BY <1>1, <1>2, CapacityAssumption DEF MakeRoom, remove_lru
<1>4. /\ p \in Seq(Key) /\ Len(p) # Capacity
      /\ \A i \in DOMAIN p : \E j \in DOMAIN c : p[i] = c[j]
  <2>1. CASE p = c /\ Len(c) # Capacity BY <2>1
  <2>2. CASE p = Tail(c) /\ Len(c) = Capacity /\ c # <<>>
    <3>1. p \in Seq(Key) /\ Len(p) # Capacity BY <2>2
    <3>2. \A i \in DOMAIN p : i + 1 \in DOMAIN c /\ p[i] = c[i + 1] BY <2>2
    <3> QED BY <3>1, <3>2
  <2> QED BY <1>3, <2>1, <2>2
<1>5. Keys(p) \subseteq Keys(c) BY <1>4 DEF Keys
<1>6. ~ contains_key(p, k) BY <1>5 DEF contains_key, Keys
<1>7. insert(c, k) = Append(p, k) BY <1>2, <1>4, <1>6 DEF insert, put
<1>8. PICK q : q = Append(p, k) BY Zenon
<1>9. q \in Seq(Key) /\ \A i \in DOMAIN q : q[i] = k \/ (i \in DOMAIN p /\ q[i] = p[i])
  BY <1>4, <1>8
<1>10. Keys(q) \subseteq Keys(p) \cup {k} BY <1>9, Zenon DEF Keys
<1> QED BY <1>2, <1>5, <1>7, <1>8, <1>9, <1>10

\* The types after a store.
LEMMA StoreCache ==
  ASSUME BasicInv, Store, Top.sql \notin Keys(cache)
  PROVE  cache' \in Seq(Key) /\ ids' \in [Key -> Id]
<1>1. Top \in FrameRec /\ Top.sql \in Key BY TopFrame DEF Store, At
<1> QED BY <1>1, InsertKeys DEF BasicInv, TypeInv, FrameRec, Store

-----------------------------------------------------------------------------
(* The effect of the steps. *)

\* wait_until_ready returns when nothing is pending.
LEMMA NotDraining ==
  ASSUME ChannelInv, ~ Draining PROVE pending_ready_for_query_count = 0
BY DEF ChannelInv, Draining

\* The steps between two exchanges with the server change nothing of the
\* channel, and the ones that rely on wait_until_ready come after it.
LEMMA LocalSteps ==
  ASSUME BasicInv, ChannelInv,
         \/ Claims \/ LookupHit \/ LookupMiss
         \/ Store /\ Top.sql \notin Keys(cache) /\ Displaces = {}
  PROVE  BasicInv' /\ Local
<1>goto. ASSUME frames # <<>>, Top.step \notin BusySteps, Top.kind # "simple",
                NEW s \in Step, Goto(s), s \notin BusySteps,
                s \in ReadySteps => pending_ready_for_query_count = 0,
                UNCHANGED <<calls, conn, wbuf, sent, inbox, server>>
         PROVE  BasicInv' /\ Local
  <2> USE <1>goto
  <2>1. PICK g : Moves(g) /\ g.step = s BY GotoMoves
  <2>2. FrameInv' /\ Phase' = s /\ Phase = Top.step BY <2>1, MovesBasic DEF Moves
  <2>3. TypeInv' BY <2>1 DEF BasicInv, TypeInv, Moves, conn, statements, server
  <2> QED BY <2>1, <2>2, <2>3, Zenon DEF BasicInv, Local, Moves, conn
<1>1. ASSUME PrepareWith
      PROVE  BasicInv' /\ Local
  <2> USE <1>1
  <2>1. frames # <<>> /\ Top.step = "ready" /\ pending_ready_for_query_count = 0
    BY NotDraining DEF PrepareWith, Ready, At
  <2>2. "lookup" \in Step /\ "lookup" \notin BusySteps /\ Top.step \notin BusySteps
    BY <2>1 DEF Step, BusySteps, FlushSteps, ReplySteps
  <2> QED BY <2>1, <2>2, Setting, <1>goto DEF PrepareWith
<1>2. ASSUME Described
      PROVE  BasicInv' /\ Local
  <2> USE <1>2
  <2>1. frames # <<>> /\ Top.step = "types_ready" /\ pending_ready_for_query_count = 0
    BY NotDraining DEF Described, Ready, At
  <2>2. "store" \in Step /\ "store" \notin BusySteps /\ Top.step \notin BusySteps
    BY <2>1 DEF Step, BusySteps, FlushSteps, ReplySteps
  <2> QED BY <2>1, <2>2, Setting, <1>goto DEF Described
<1>3. ASSUME RunPrepared
      PROVE  BasicInv' /\ Local
  <2> USE <1>3
  <2>1. frames # <<>> /\ Top.step = "run_ready" /\ pending_ready_for_query_count = 0
    BY NotDraining DEF RunPrepared, Ready, At
  <2>2. "lookup" \in Step /\ "lookup" \notin BusySteps /\ Top.step \notin BusySteps
    BY <2>1 DEF Step, BusySteps, FlushSteps, ReplySteps
  <2> QED BY <2>1, <2>2, <1>goto DEF RunPrepared
<1>fail. ASSUME Phase \notin BusySteps, NEW r, r # "Ok", Fail(r),
                UNCHANGED <<calls, conn, wbuf, sent, inbox, server>>
         PROVE  BasicInv' /\ Local
  <2> USE <1>fail
  <2>1. FrameInv' /\ frames' \in Seq(FrameRec) /\ Phase' = "idle" BY NoFrames DEF Fail
  <2>2. TypeInv' BY <2>1 DEF BasicInv, TypeInv, conn, statements, server
  <2>3. "idle" \notin BusySteps /\ "idle" \notin ReadySteps
    BY DEF BusySteps, FlushSteps, ReplySteps, ReadySteps
  <2> QED BY <2>1, <2>2, <2>3, Zenon DEF BasicInv, Local, conn, Fail
<1>4. ASSUME TypesKnown
      PROVE  BasicInv' /\ Local
  <2> USE <1>4
  <2>1. frames # <<>> /\ Top.step = "types" BY DEF TypesKnown, At
  <2>2. Phase = "types" /\ Top.kind # "simple" BY <2>1, Setting
  <2>3. pending_ready_for_query_count = 0 BY <2>2 DEF ChannelInv, ReadySteps
  <2>4. "types_ready" \in Step /\ "types_ready" \notin BusySteps /\ Top.step \notin BusySteps
    BY <2>1 DEF Step, BusySteps, FlushSteps, ReplySteps
  <2>5. CASE Goto("types_ready") BY <2>1, <2>2, <2>3, <2>4, <2>5, <1>goto DEF TypesKnown
  <2>6. CASE Fail("LocalError") BY <2>1, <2>2, <2>4, <2>6, <1>fail DEF TypesKnown
  <2> QED BY <2>5, <2>6 DEF TypesKnown
<1>5. ASSUME TakeArguments
      PROVE  BasicInv' /\ Local
  <2> USE <1>5
  <2>1. frames # <<>> /\ Top.step = "arguments" BY DEF TakeArguments, At
  <2>2. Phase = "arguments" /\ Top.kind # "simple" BY <2>1, Setting
  <2>4. "run_ready" \in Step /\ "run_ready" \notin BusySteps /\ "run_ready" \notin ReadySteps
        /\ Top.step \notin BusySteps
    BY <2>1 DEF Step, BusySteps, FlushSteps, ReplySteps, ReadySteps
  <2>5. CASE Goto("run_ready") BY <2>1, <2>2, <2>4, <2>5, <1>goto DEF TakeArguments
  <2>6. CASE Fail("LocalError") BY <2>1, <2>2, <2>4, <2>6, <1>fail DEF TakeArguments
  <2> QED BY <2>5, <2>6 DEF TakeArguments
<1>6. ASSUME LookupHit
      PROVE  BasicInv' /\ Local
  <2> USE <1>6
  <2>1. frames # <<>> /\ Top.step = "lookup" BY DEF LookupHit, At
  <2>2. Phase = "lookup" /\ Top.kind # "simple" /\ Top.sql \in Key BY <2>1, Setting
  <2>3. pending_ready_for_query_count = 0 BY <2>2 DEF ChannelInv, ReadySteps
  <2>4. PICK g : Moves(g) /\ g.step \in AfterPrepare BY LookupHitMoves
  <2>5. FrameInv' /\ Phase' = g.step BY <2>2, <2>4, MovesBasic DEF Moves
  <2>6. cache' \in Seq(Key) BY <2>2, GetMutKeys DEF BasicInv, TypeInv, LookupHit
  <2>7. TypeInv' BY <2>4, <2>6 DEF BasicInv, TypeInv, Moves, LookupHit, server
  <2>8. Phase \notin BusySteps /\ Phase' \notin BusySteps
    BY <2>2, <2>4, <2>5 DEF AfterPrepare, BusySteps, FlushSteps, ReplySteps
  <2> QED BY <2>3, <2>5, <2>7, <2>8, Zenon DEF BasicInv, Local, LookupHit
<1>7. ASSUME LookupMiss
      PROVE  BasicInv' /\ Local
  <2> USE <1>7
  <2>1. frames # <<>> /\ Top.step = "lookup" BY DEF LookupMiss, At
  <2>2. Phase = "lookup" /\ Top.kind # "simple" /\ Top.sql \in Key BY <2>1, Setting
  <2>3. pending_ready_for_query_count = 0 BY <2>2 DEF ChannelInv, ReadySteps
  <2>4. PICK g : Moves(g) /\ g.step = "parse_ready" BY LookupMissMoves
  <2>5. FrameInv' /\ Phase' = g.step BY <2>2, <2>4, MovesBasic DEF Moves
  <2>6. next_statement_id' \in Id
    BY PgAssumption DEF BasicInv, TypeInv, LookupMiss, incr_one, Id
  <2>7. TypeInv' BY <2>4, <2>6 DEF BasicInv, TypeInv, Moves, LookupMiss, server
  <2>8. Phase \notin BusySteps /\ Phase' \notin BusySteps
    BY <2>2, <2>4, <2>5 DEF BusySteps, FlushSteps, ReplySteps
  <2> QED BY <2>3, <2>5, <2>7, <2>8, Zenon DEF BasicInv, Local, LookupMiss
<1>8. ASSUME StoreNot
      PROVE  BasicInv' /\ Local
  <2> USE <1>8
  <2>1. frames # <<>> /\ Top.step = "store" BY DEF StoreNot, At
  <2>2. Phase = "store" /\ Top.kind # "simple" /\ Top.sql \in Key BY <2>1, Setting
  <2>3. pending_ready_for_query_count = 0 BY <2>2 DEF ChannelInv, ReadySteps
  <2>4. PICK g : Moves(g) /\ g.step \in AfterPrepare BY <2>1, PreparedMoves DEF StoreNot
  <2>5. FrameInv' /\ Phase' = g.step BY <2>2, <2>4, MovesBasic DEF Moves
  <2>7. TypeInv' BY <2>4 DEF BasicInv, TypeInv, Moves, StoreNot, conn, statements, server
  <2>8. Phase \notin BusySteps /\ Phase' \notin BusySteps
    BY <2>2, <2>4, <2>5 DEF AfterPrepare, BusySteps, FlushSteps, ReplySteps
  <2> QED BY <2>3, <2>5, <2>7, <2>8, Zenon DEF BasicInv, Local, StoreNot, conn
<1>9. ASSUME Store, Top.sql \notin Keys(cache), Displaces = {}
      PROVE  BasicInv' /\ Local
  <2> USE <1>9
  <2>1. frames # <<>> /\ Top.step = "store" BY DEF Store, At
  <2>2. Phase = "store" /\ Top.kind # "simple" /\ Top.sql \in Key BY <2>1, Setting
  <2>3. pending_ready_for_query_count = 0 BY <2>2 DEF ChannelInv, ReadySteps
  <2>a. /\ frames' = [frames EXCEPT ![1] = Prepared(@)]
        /\ UNCHANGED <<wbuf, pending_ready_for_query_count>>
    BY DEF Store, Displaces
  <2>4. PICK g : Moves(g) /\ g.step \in AfterPrepare BY <2>1, <2>a, PreparedMoves
  <2>5. FrameInv' /\ Phase' = g.step BY <2>2, <2>4, MovesBasic DEF Moves
  <2>6. cache' \in Seq(Key) /\ ids' \in [Key -> Id] BY StoreCache
  <2>b. UNCHANGED <<calls, first, result, next_statement_id, closed, sent, inbox, server>>
    BY DEF Store
  <2>7. TypeInv' BY <2>a, <2>b, <2>4, <2>6 DEF BasicInv, TypeInv, Moves, server
  <2>8. Phase \notin BusySteps /\ Phase' \notin BusySteps
    BY <2>2, <2>4, <2>5 DEF AfterPrepare, BusySteps, FlushSteps, ReplySteps
  <2> QED BY <2>a, <2>b, <2>3, <2>5, <2>7, <2>8, Zenon DEF BasicInv, Local
<1>10. ASSUME PrepareReturn
       PROVE  BasicInv' /\ Local
  <2> USE <1>10
  <2>1. frames # <<>> /\ Top.step = "return" BY DEF PrepareReturn, At
  <2>2. Phase = "return" BY <2>1, Setting
  <2>3. pending_ready_for_query_count = 0 BY <2>2 DEF ChannelInv, ReadySteps
  <2>4. FrameInv' /\ frames' \in Seq(FrameRec) /\ Phase' \in {"idle", "types"}
    BY <2>1, ReturnFrames DEF PrepareReturn
  <2>5. TypeInv' BY <2>4 DEF BasicInv, TypeInv, PrepareReturn, conn, statements, server
  <2>6. Phase \notin BusySteps /\ Phase' \notin BusySteps
    BY <2>2, <2>4 DEF BusySteps, FlushSteps, ReplySteps
  <2> QED BY <2>3, <2>4, <2>5, <2>6, Zenon DEF BasicInv, Local, PrepareReturn, conn
<1>start. ASSUME NEW f \in FrameRec, Start(f),
                 f.step \in {"run_ready", "ready", "arguments"},
                 f.kind = "simple" => f.step = "run_ready",
                 f.kind # "simple" => f.sql \in Key
          PROVE  BasicInv' /\ Local
  <2> USE <1>start
  <2>1. /\ frames' \in Seq(FrameRec) /\ Len(frames') = 1 /\ frames' # <<>> /\ frames'[1] = f
        /\ DOMAIN frames' = {1}
    BY DEF Start
  <2>2. FrameInv' BY <2>1 DEF FrameInv
  <2>3. Phase' = f.step /\ Phase = "idle" BY <2>1 DEF Phase, Top, Start
  <2>4. TypeInv' BY <2>1 DEF BasicInv, TypeInv, Start, conn, statements, server
  <2>5. Phase \notin BusySteps /\ Phase' \notin BusySteps /\ Phase' \notin ReadySteps
    BY <2>3 DEF BusySteps, FlushSteps, ReplySteps, ReadySteps
  <2> QED BY <2>1, <2>2, <2>4, <2>5, Zenon DEF BasicInv, Local, Start, conn
<1>concat. ASSUME NEW S, NEW a \in Seq(S), NEW b \in Seq(S)
           PROVE  /\ a \o b \in Seq(S) /\ Len(a \o b) = Len(a) + Len(b)
                  /\ DOMAIN (a \o b) = 1..Len(a) + Len(b)
                  /\ \A i \in 1..Len(a) : (a \o b)[i] = a[i]
                  /\ \A i \in 1..Len(b) : (a \o b)[Len(a) + i] = b[i]
  BY <1>concat
<1>two. ASSUME NEW S, NEW s \in Seq(S), Len(s) = 1, NEW f \in S
        PROVE  /\ <<f>> \o s \in Seq(S) /\ Len(<<f>> \o s) = 2 /\ <<f>> \o s # <<>>
               /\ (<<f>> \o s)[1] = f /\ (<<f>> \o s)[2] = s[1] /\ DOMAIN (<<f>> \o s) = {1, 2}
  <2> USE <1>two
  <2>1. <<f>> \in Seq(S) /\ Len(<<f>>) = 1 /\ <<f>>[1] = f OBVIOUS
  <2>2. PICK a \in Seq(S) : a = <<f>> /\ Len(a) = 1 /\ a[1] = f BY <2>1, Zenon
  <2>3. PICK t : t = a \o s BY Zenon
  <2>4. /\ t \in Seq(S) /\ Len(t) = 1 + 1 /\ DOMAIN t = 1..1 + 1
        /\ \A i \in 1..1 : t[i] = a[i] /\ t[1 + i] = s[i]
    BY <2>2, <2>3, <1>concat
  <2>5. 1 + 1 = 2 /\ 1..2 = {1, 2} /\ 1 \in 1..1 OBVIOUS
  <2>6. t[1] = f /\ t[2] = s[1] /\ t # <<>> BY <2>2, <2>4, <2>5
  <2> QED BY <2>2, <2>3, <2>4, <2>5, <2>6
<1>11. ASSUME FetchType
       PROVE  BasicInv' /\ Local
  <2> USE <1>11
  <2>1. PICK f \in FrameRec :
              /\ frames' = <<f>> \o frames /\ f.step = "ready" /\ f.sql \in TypeSql /\ f.limit = 0
              /\ f.kind = "exec" /\ Len(frames) = 1 /\ frames # <<>>
              /\ Top.step = "types" /\ Top.sql \in Sql
    BY FetchTypeFrames, Zenon
  <2>2. frames \in Seq(FrameRec) /\ calls \in Nat BY DEF BasicInv, TypeInv
  <2>3. /\ frames' \in Seq(FrameRec) /\ Len(frames') = 2 /\ frames' # <<>> /\ frames'[1] = f
        /\ frames'[2] = Top /\ DOMAIN frames' = {1, 2}
    <3>1. PICK t : t = <<f>> \o frames BY Zenon
    <3>2. /\ t \in Seq(FrameRec) /\ Len(t) = 2 /\ t # <<>> /\ t[1] = f /\ t[2] = frames[1]
          /\ DOMAIN t = {1, 2}
      <4>1. frames \in Seq(FrameRec) /\ Len(frames) = 1 BY <2>1, <2>2
      <4> QED BY <4>1, <3>1, <1>two
    <3>3. frames' = t BY <2>1, <3>1
    <3> QED BY <3>2, <3>3, Zenon DEF Top
  <2>4. Top.kind # "simple" /\ Top.sql \in Key /\ Phase = "types" BY <2>1, Setting
  <2>5. FrameInv' BY <2>1, <2>3, <2>4 DEF FrameInv, Key
  <2>6. Phase' = "ready" BY <2>1, <2>3 DEF Phase, Top
  <2>7. TypeInv'
    <3>1. calls' = calls + 1 /\ UNCHANGED <<conn, wbuf, sent, inbox, server>> BY DEF FetchType
    <3> QED BY <3>1, <2>2, <2>3 DEF BasicInv, TypeInv, conn, statements, server
  <2>8. Phase \notin BusySteps /\ Phase' \notin BusySteps /\ Phase' \notin ReadySteps
    BY <2>4, <2>6 DEF BusySteps, FlushSteps, ReplySteps, ReadySteps
  <2> QED BY <2>3, <2>5, <2>7, <2>8, Zenon DEF BasicInv, Local, FetchType, conn
<1>12. ASSUME Starts PROVE BasicInv' /\ Local
  <2>1. PICK f \in FrameRec : /\ Start(f) /\ f.step \in {"run_ready", "ready", "arguments"}
                              /\ f.kind = "simple" => f.step = "run_ready"
                              /\ f.kind # "simple" => f.sql \in Key
    BY <1>12, StartsFrame
  <2> QED BY <2>1, <1>start
<1> QED
  BY <1>1, <1>2, <1>3, <1>4, <1>5, <1>6, <1>7, <1>8, <1>9, <1>10, <1>11, <1>12, Zenon DEF Claims

\* The steps that write a group of messages do so when nothing is pending.
LEMMA WriteSteps ==
  ASSUME BasicInv, ChannelInv
  PROVE  /\ Parse => BasicInv' /\ \E g, K : WriteStep(g, K) /\ g.step = "parse_flush"
         /\ RunSimple => BasicInv' /\ \E g : WriteStep(g, {"Query"}) /\ g.step = "run_flush"
         /\ Bind => /\ BasicInv'
                    /\ \E g : WriteStep(g, {"Bind", "Execute", "Sync"}) /\ g.step = "run_flush"
         /\ Store /\ Top.sql \notin Keys(cache) /\ Displaces # {} =>
              /\ BasicInv'
              /\ \E g : WriteStep(g, {"Close", "Sync"}) /\ g.step = "close_flush"
              /\ \E n \in Displaces :
                    \A i \in DOMAIN wbuf' : wbuf'[i].kind = "Close" => wbuf'[i].id = n
<1>message. ASSUME frames # <<>>,
                   NEW k \in {"Parse", "Describe", "Sync", "Close", "Query", "Bind", "Execute"}
            PROVE  \E m \in Msg : /\ m = Message(k) /\ m.kind = k /\ m.call = Top.call
                                  /\ m.id = Top.id /\ m.sql = Top.sql
  <2> USE <1>message
  <2>1. Top \in FrameRec BY TopFrame
  <2>2. PICK m : m = Message(k) OBVIOUS
  <2>3. m \in Msg /\ m.kind = k /\ m.call = Top.call /\ m.id = Top.id /\ m.sql = Top.sql
    BY <2>1, <2>2 DEF Message, Msg, FrameRec
  <2> QED BY <2>2, <2>3
<1>close. ASSUME frames # <<>>, NEW n \in Id
          PROVE  \E m \in Msg : /\ m = ToClose(n) /\ m.kind = "Close" /\ m.call = Top.call
                                /\ m.id = n
  <2> USE <1>close
  <2>1. PICK a \in Msg : a = Message("Close") /\ a.kind = "Close" /\ a.call = Top.call
    BY <1>message
  <2>2. PICK m : m = [a EXCEPT !.id = n] BY Zenon
  <2>3. m \in Msg /\ m.kind = "Close" /\ m.call = Top.call /\ m.id = n
    BY <2>1, <2>2 DEF Msg
  <2> QED BY <2>1, <2>2, <2>3, Zenon DEF ToClose
<1>1. ASSUME frames # <<>>, NEW s, Write(<<"Parse", "Sync">>, s)
      PROVE  Wrote({"Parse", "Sync"})
  <2> USE <1>1
  <2>1. PICK a \in Msg : a = Message("Parse") /\ a.kind = "Parse" /\ a.call = Top.call
                         /\ a.id = Top.id /\ a.sql = Top.sql
    BY <1>message
  <2>2. PICK b \in Msg : b = Message("Sync") /\ b.kind = "Sync" /\ b.call = Top.call
                         /\ b.id = Top.id /\ b.sql = Top.sql
    BY <1>message
  <2>3. wbuf' = <<a, b>> BY <2>1, <2>2 DEF Write
  <2>4. /\ wbuf' \in Seq(Msg) /\ wbuf' # <<>> /\ DOMAIN wbuf' = {1, 2}
        /\ wbuf'[1] = a /\ wbuf'[2] = b
    BY <2>3
  <2> QED BY <2>1, <2>2, <2>4 DEF Wrote, Last, Has, Syncs
<1>2. ASSUME frames # <<>>, NEW s, Write(<<"Parse", "Describe", "Sync">>, s)
      PROVE  Wrote({"Parse", "Describe", "Sync"})
  <2> USE <1>2
  <2>1. PICK a \in Msg : a = Message("Parse") /\ a.kind = "Parse" /\ a.call = Top.call
                         /\ a.id = Top.id /\ a.sql = Top.sql
    BY <1>message
  <2>2. PICK b \in Msg : b = Message("Describe") /\ b.kind = "Describe" /\ b.call = Top.call
                         /\ b.id = Top.id /\ b.sql = Top.sql
    BY <1>message
  <2>3. PICK c \in Msg : c = Message("Sync") /\ c.kind = "Sync" /\ c.call = Top.call
                         /\ c.id = Top.id /\ c.sql = Top.sql
    BY <1>message
  <2>4. wbuf' = <<a, b, c>> BY <2>1, <2>2, <2>3 DEF Write
  <2>5. /\ wbuf' \in Seq(Msg) /\ wbuf' # <<>> /\ DOMAIN wbuf' = {1, 2, 3}
        /\ wbuf'[1] = a /\ wbuf'[2] = b /\ wbuf'[3] = c
    BY <2>4
  <2> QED BY <2>1, <2>2, <2>3, <2>5 DEF Wrote, Last, Has, Syncs
<1>3. ASSUME frames # <<>>, NEW s, Write(<<"Query">>, s)
      PROVE  Wrote({"Query"})
  <2> USE <1>3
  <2>1. PICK a \in Msg : a = Message("Query") /\ a.kind = "Query" /\ a.call = Top.call
                         /\ a.id = Top.id /\ a.sql = Top.sql
    BY <1>message
  <2>3. wbuf' = <<a>> BY <2>1 DEF Write
  <2>4. wbuf' \in Seq(Msg) /\ wbuf' # <<>> /\ DOMAIN wbuf' = {1} /\ wbuf'[1] = a
    BY <2>3
  <2> QED BY <2>1, <2>4 DEF Wrote, Last, Has, Syncs
<1>4. ASSUME frames # <<>>, NEW s, Write(<<"Bind", "Execute", "Sync">>, s)
      PROVE  Wrote({"Bind", "Execute", "Sync"})
  <2> USE <1>4
  <2>1. PICK a \in Msg : a = Message("Bind") /\ a.kind = "Bind" /\ a.call = Top.call
                         /\ a.id = Top.id /\ a.sql = Top.sql
    BY <1>message
  <2>2. PICK b \in Msg : b = Message("Execute") /\ b.kind = "Execute" /\ b.call = Top.call
                         /\ b.id = Top.id /\ b.sql = Top.sql
    BY <1>message
  <2>3. PICK c \in Msg : c = Message("Sync") /\ c.kind = "Sync" /\ c.call = Top.call
                         /\ c.id = Top.id /\ c.sql = Top.sql
    BY <1>message
  <2>4. wbuf' = <<a, b, c>> BY <2>1, <2>2, <2>3 DEF Write
  <2>5. /\ wbuf' \in Seq(Msg) /\ wbuf' # <<>> /\ DOMAIN wbuf' = {1, 2, 3}
        /\ wbuf'[1] = a /\ wbuf'[2] = b /\ wbuf'[3] = c
    BY <2>4
  <2> QED BY <2>1, <2>2, <2>3, <2>5 DEF Wrote, Last, Has, Syncs
<1>5. ASSUME frames # <<>>, NEW n \in Id, CloseStatement(n)
      PROVE  /\ Wrote({"Close", "Sync"})
             /\ \A i \in DOMAIN wbuf' : wbuf'[i].kind = "Close" => wbuf'[i].id = n
  <2> USE <1>5
  <2>1. PICK a \in Msg : a = ToClose(n) /\ a.kind = "Close" /\ a.call = Top.call /\ a.id = n
    BY <1>close
  <2>2. PICK b \in Msg : b = Message("Sync") /\ b.kind = "Sync" /\ b.call = Top.call
                         /\ b.id = Top.id /\ b.sql = Top.sql
    BY <1>message
  <2>3. wbuf' = <<a, b>> BY <2>1, <2>2 DEF CloseStatement
  <2>4. /\ wbuf' \in Seq(Msg) /\ wbuf' # <<>> /\ DOMAIN wbuf' = {1, 2}
        /\ wbuf'[1] = a /\ wbuf'[2] = b
    BY <2>3
  <2> QED BY <2>1, <2>2, <2>4 DEF Wrote, Last, Has, Syncs
<1>basic. ASSUME frames # <<>>, pending_ready_for_query_count = 0, NEW K, Wrote(K),
                 pending_ready_for_query_count' = write_sync,
                 NEW step \in FlushSteps, Goto(step), K \subseteq Group(step), Top.step \notin BusySteps,
                 Top.kind = "simple" => step = "run_flush",
                 step = "parse_flush" => "Parse" \in K /\ (~ Top.md => "Describe" \in K),
                 step = "close_flush" => "Close" \in K,
                 UNCHANGED <<calls, next_statement_id, sent, inbox, server, closed, result>>,
                 cache' \in Seq(Key), ids' \in [Key -> Id]
          PROVE  BasicInv' /\ \E g : WriteStep(g, K) /\ g.step = step
  <2> USE <1>basic
  <2>1. step \in Step BY DEF FlushSteps, Step
  <2>2. PICK g : Moves(g) /\ g.step = step /\ g.id = Top.id /\ g.md = Top.md BY <2>1, GotoMoves
  <2>3. FrameInv' /\ Phase' = g.step /\ Phase = Top.step BY <2>2, MovesBasic DEF Moves
  <2>4. TypeInv' BY <2>2 DEF BasicInv, TypeInv, Moves, Wrote, server
  <2>5. pending_ready_for_query_count' = 1 BY DEF write_sync
  <2> QED BY <2>2, <2>3, <2>4, <2>5, Zenon DEF BasicInv, WriteStep
<1>6. ASSUME Parse
      PROVE  BasicInv' /\ \E g, K : WriteStep(g, K) /\ g.step = "parse_flush"
  <2> USE <1>6
  <2>1. frames # <<>> /\ Top.step = "parse_ready" /\ pending_ready_for_query_count = 0
    BY NotDraining DEF Parse, Ready, At
  <2>2. Top.kind # "simple" /\ Top.step \notin BusySteps /\ Top \in FrameRec
    BY <2>1, Setting, TopFrame DEF BusySteps, FlushSteps, ReplySteps
  <2>3. /\ pending_ready_for_query_count' = write_sync /\ Goto("parse_flush")
        /\ UNCHANGED <<calls, first, result, statements, closed, sent, inbox, server>>
    BY DEF Parse, Write
  <2>4. cache' \in Seq(Key) /\ ids' \in [Key -> Id] /\ next_statement_id' = next_statement_id
    BY <2>3 DEF BasicInv, TypeInv, statements
  <2>5. "parse_flush" \in FlushSteps /\ Group("parse_flush") = {"Parse", "Describe", "Sync"}
    BY DEF FlushSteps, Group
  <2>6. CASE Top.md
    <3>1. Wrote({"Parse", "Sync"}) BY <2>1, <2>6, <1>1 DEF Parse
    <3>2. {"Parse", "Sync"} \subseteq Group("parse_flush") BY <2>5
    <3> QED BY <2>1, <2>2, <2>3, <2>4, <2>5, <2>6, <3>1, <3>2, <1>basic
  <2>7. CASE ~ Top.md
    <3>1. Wrote({"Parse", "Describe", "Sync"}) BY <2>1, <2>7, <1>2 DEF Parse
    <3>2. {"Parse", "Describe", "Sync"} \subseteq Group("parse_flush") BY <2>5
    <3> QED BY <2>1, <2>2, <2>3, <2>4, <2>5, <2>7, <3>1, <3>2, <1>basic
  <2> QED BY <2>6, <2>7
<1>7. ASSUME RunSimple
      PROVE  BasicInv' /\ \E g : WriteStep(g, {"Query"}) /\ g.step = "run_flush"
  <2> USE <1>7
  <2>1. frames # <<>> /\ Top.step = "run_ready" /\ pending_ready_for_query_count = 0
    BY NotDraining DEF RunSimple, Ready, At
  <2>2. Top.step \notin BusySteps BY <2>1 DEF BusySteps, FlushSteps, ReplySteps
  <2>3. /\ pending_ready_for_query_count' = write_sync /\ Goto("run_flush")
        /\ UNCHANGED <<calls, first, result, statements, closed, sent, inbox, server>>
    BY DEF RunSimple, Write
  <2>4. cache' \in Seq(Key) /\ ids' \in [Key -> Id] /\ next_statement_id' = next_statement_id
    BY <2>3 DEF BasicInv, TypeInv, statements
  <2>5. "run_flush" \in FlushSteps /\ Group("run_flush") = {"Query", "Bind", "Execute", "Sync"}
    BY DEF FlushSteps, Group
  <2>6. Wrote({"Query"}) BY <2>1, <1>3 DEF RunSimple
  <2>7. {"Query"} \subseteq Group("run_flush") BY <2>5
  <2> QED BY <2>1, <2>2, <2>3, <2>4, <2>5, <2>6, <2>7, <1>basic
<1>8. ASSUME Bind
      PROVE  BasicInv' /\ \E g : WriteStep(g, {"Bind", "Execute", "Sync"}) /\ g.step = "run_flush"
  <2> USE <1>8
  <2>1. frames # <<>> /\ Top.step = "bind_ready" /\ pending_ready_for_query_count = 0
    BY NotDraining DEF Bind, Ready, At
  <2>2. Top.step \notin BusySteps BY <2>1 DEF BusySteps, FlushSteps, ReplySteps
  <2>3. /\ pending_ready_for_query_count' = write_sync /\ Goto("run_flush")
        /\ UNCHANGED <<calls, first, result, statements, closed, sent, inbox, server>>
    BY DEF Bind, Write
  <2>4. cache' \in Seq(Key) /\ ids' \in [Key -> Id] /\ next_statement_id' = next_statement_id
    BY <2>3 DEF BasicInv, TypeInv, statements
  <2>5. "run_flush" \in FlushSteps /\ Group("run_flush") = {"Query", "Bind", "Execute", "Sync"}
    BY DEF FlushSteps, Group
  <2>6. Wrote({"Bind", "Execute", "Sync"}) BY <2>1, <1>4 DEF Bind
  <2>7. {"Bind", "Execute", "Sync"} \subseteq Group("run_flush") BY <2>5
  <2> QED BY <2>1, <2>2, <2>3, <2>4, <2>5, <2>6, <2>7, <1>basic
<1>9. ASSUME Store, Top.sql \notin Keys(cache), Displaces # {}
      PROVE  /\ BasicInv'
             /\ \E g : WriteStep(g, {"Close", "Sync"}) /\ g.step = "close_flush"
             /\ \E n \in Displaces :
                   \A i \in DOMAIN wbuf' : wbuf'[i].kind = "Close" => wbuf'[i].id = n
  <2> USE <1>9
  <2>1. frames # <<>> /\ Top.step = "store" BY DEF Store, At
  <2>2. Phase = "store" /\ Top.kind # "simple" /\ Top.sql \in Key BY <2>1, Setting
  <2>3. pending_ready_for_query_count = 0 BY <2>2 DEF ChannelInv, ReadySteps
  <2>4. Top.step \notin BusySteps BY <2>1 DEF BusySteps, FlushSteps, ReplySteps
  <2>5. PICK n \in Displaces : CloseStatement(n)
    <3>1. CloseStatement(CHOOSE id \in Displaces : TRUE) BY DEF Store, Displaces
    <3>2. (CHOOSE id \in Displaces : TRUE) \in Displaces OBVIOUS
    <3> QED BY <3>1, <3>2
  <2>6. n \in Id
    <3>1. PICK q \in Displaced(cache, Top.sql) : n = ids[q] BY <2>5 DEF Displaces
    <3>2. q \in Keys(cache) BY <3>1 DEF Displaced
    <3>3. q \in Key BY <3>2 DEF Keys, BasicInv, TypeInv
    <3> QED BY <3>1, <3>3 DEF BasicInv, TypeInv
  <2>7. /\ Wrote({"Close", "Sync"})
        /\ \A i \in DOMAIN wbuf' : wbuf'[i].kind = "Close" => wbuf'[i].id = n
    BY <2>1, <2>5, <2>6, <1>5
  <2>8. pending_ready_for_query_count' = write_sync /\ Goto("close_flush")
    BY <2>5 DEF CloseStatement
  <2>9. /\ "close_flush" \in FlushSteps /\ Group("close_flush") = {"Close", "Sync"}
        /\ {"Close", "Sync"} \subseteq Group("close_flush")
    BY DEF FlushSteps, Group
  <2>10. UNCHANGED <<calls, first, result, next_statement_id, closed, sent, inbox, server>>
    BY DEF Store
  <2>11. cache' \in Seq(Key) /\ ids' \in [Key -> Id] BY StoreCache
  <2>12. BasicInv' /\ \E g : WriteStep(g, {"Close", "Sync"}) /\ g.step = "close_flush"
    BY <2>1, <2>2, <2>3, <2>4, <2>7, <2>8, <2>9, <2>10, <2>11, <1>basic
  <2> QED BY <2>5, <2>7, <2>12
<1> QED BY <1>6, <1>7, <1>8, <1>9, Zenon

\* The steps that flush the buffer, read a message or give the operation up.
LEMMA ReadSteps ==
  ASSUME BasicInv, ChannelInv,
         Flush \/ FlushError \/ Cancel \/ RecvEof \/ RecvError \/ Drain \/ Expect \/ Stream
  PROVE  /\ BasicInv'
         /\ \/ DropStep \/ AbortStep \/ PassStep \/ EndStep
            \/ \E g : FlushStep(g) \/ ReplyStep(g)
<1>1. ASSUME Flush
      PROVE  BasicInv' /\ \E g : FlushStep(g)
  <2> USE <1>1
  <2>1. frames # <<>> /\ Top.step \in FlushSteps BY DEF Flush, Flushing, FlushSteps
  <2>2. /\ AfterFlush(Top.step) \in {"parse_complete", "close_complete", "stream"}
        /\ Top.step = "run_flush" => AfterFlush(Top.step) = "stream"
    BY <2>1 DEF FlushSteps, AfterFlush
  <2>3. AfterFlush(Top.step) \in Step BY <2>2 DEF Step
  <2>4. PICK g : Moves(g) /\ g.step = AfterFlush(Top.step) /\ g.id = Top.id /\ g.md = Top.md
    BY <2>1, <2>3, GotoMoves DEF Flush
  <2>5. Top.kind = "simple" => Top.step = "run_flush" BY <2>1, TopFrame DEF FlushSteps
  <2>6. FrameInv' /\ Phase' = g.step /\ Phase = Top.step BY <2>2, <2>4, <2>5, MovesBasic DEF Moves
  <2>7. /\ wbuf' = <<>> /\ sent' = IF open THEN sent \o wbuf ELSE sent
        /\ UNCHANGED <<calls, conn, inbox, server, result>> /\ ~ closed
    BY DEF Flush
  <2>8. TypeInv'
    <3>1. wbuf' \in Seq(Msg) BY <2>7
    <3>2. wbuf \in Seq(Msg) /\ sent \in Seq(Msg) BY DEF BasicInv, TypeInv
    <3>3. sent' \in Seq(Msg) BY <2>7, <3>2
    <3> QED BY <3>1, <3>3, <2>4, <2>7 DEF BasicInv, TypeInv, Moves, conn, statements, server
  <2> QED BY <2>1, <2>2, <2>4, <2>6, <2>7, <2>8, Zenon DEF BasicInv, FlushStep
<1>drop. ASSUME frames # <<>>, frames' = <<>>, result' # "Ok", wbuf' = <<>>,
                NEW n \in 0..Len(wbuf), sent' = sent \o SubSeq(wbuf, 1, n),
                \/ torn' = torn /\ (open /\ ~ closed => n = Len(wbuf))
                \/ torn' = TRUE /\ n < Len(wbuf),
                UNCHANGED <<calls, conn, inbox, stmts, skipping, copying, open, notes>>
         PROVE  BasicInv' /\ DropStep
  <2> USE <1>drop
  <2>1. FrameInv' /\ frames' \in Seq(FrameRec) /\ Phase' = "idle" BY NoFrames
  <2>2. wbuf \in Seq(Msg) /\ sent \in Seq(Msg) BY DEF BasicInv, TypeInv
  <2>3. PICK p : p = SubSeq(wbuf, 1, n) BY Zenon
  <2>4. p \in Seq(Msg) BY <2>2, <2>3
  <2>5. sent' \in Seq(Msg) /\ wbuf' \in Seq(Msg) BY <2>2, <2>3, <2>4
  <2>6. torn' \in BOOLEAN BY Zenon DEF BasicInv, TypeInv
  <2>7. TypeInv' BY <2>1, <2>5, <2>6 DEF BasicInv, TypeInv, conn, statements
  <2> QED BY <2>1, <2>7, Zenon DEF BasicInv, DropStep
<1>nothing. sent = sent \o SubSeq(wbuf, 1, 0) /\ 0 \in 0..Len(wbuf) /\ Len(wbuf) \in 0..Len(wbuf)
  <2>1. wbuf \in Seq(Msg) /\ sent \in Seq(Msg) BY DEF BasicInv, TypeInv
  <2>2. SubSeq(wbuf, 1, 0) = <<>> BY <2>1
  <2>3. sent = sent \o <<>> BY <2>1
  <2> QED BY <2>1, <2>2, <2>3
<1>2. ASSUME FlushError
      PROVE  BasicInv' /\ DropStep
  BY <1>2, <1>nothing, <1>drop, Zenon DEF FlushError, Flushing, Fail, server
<1>3. ASSUME Cancel
      PROVE  BasicInv' /\ DropStep
  <2> USE <1>3
  <2>1. PICK n \in 0..Len(wbuf) :
            /\ sent' = IF open THEN sent \o SubSeq(wbuf, 1, n) ELSE sent
            /\ torn' = (torn \/ n < Len(wbuf))
    BY DEF Cancel
  <2>2. n \in Nat /\ Len(wbuf) \in Nat /\ n <= Len(wbuf) BY DEF BasicInv, TypeInv
  <2>3. torn \in BOOLEAN BY DEF BasicInv, TypeInv
  <2>4. CASE n < Len(wbuf)
    <3>1. torn' = TRUE BY <2>1, <2>4, Zenon
    <3>2. CASE open BY <2>1, <2>4, <3>1, <3>2, <1>drop, Zenon DEF Cancel, Fail
    <3>3. CASE ~ open
      <4>1. 0 < Len(wbuf) BY <2>2, <2>4
      <4> QED BY <2>1, <3>1, <3>3, <4>1, <1>nothing, <1>drop, Zenon DEF Cancel, Fail
    <3> QED BY <3>2, <3>3
  <2>5. CASE ~ (n < Len(wbuf))
    <3>1. n = Len(wbuf) BY <2>2, <2>5
    <3>2. torn' = torn BY <2>1, <2>3, <2>5, Zenon
    <3>3. CASE open BY <2>1, <3>1, <3>2, <3>3, <1>drop, Zenon DEF Cancel, Fail
    <3>4. CASE ~ open BY <2>1, <3>2, <3>4, <1>nothing, <1>drop, Zenon DEF Cancel, Fail
    <3> QED BY <3>3, <3>4
  <2> QED BY <2>4, <2>5
<1>4. ASSUME RecvEof
      PROVE  BasicInv' /\ DropStep
  <2> USE <1>4
  <2>1. frames # <<>> /\ Top.step \notin FlushSteps
    BY DEF RecvEof, ReadsReply, Waits, FlushSteps
  <2>2. Phase \notin FlushSteps BY <2>1, TopFrame
  <2>3. wbuf = <<>> BY <2>2 DEF ChannelInv
  <2> QED BY <2>1, <2>3, <1>nothing, <1>drop, Zenon DEF RecvEof, Fail, server
<1>type. ASSUME Reads, frames' \in Seq(FrameRec), FrameInv'
         PROVE  BasicInv'
  <2> USE <1>type
  <2>1. inbox' \in Seq(Reply) BY DEF BasicInv, TypeInv, Reads
  <2> QED BY <2>1 DEF BasicInv, TypeInv, Reads, statements, server
<1>5. ASSUME RecvError
      PROVE  BasicInv' /\ AbortStep
  <2> USE <1>5
  <2>1. frames # <<>> /\ Top.step \notin FlushSteps
    BY DEF RecvError, ReadsReply, Waits, FlushSteps
  <2>2. Phase \notin FlushSteps BY <2>1, TopFrame
  <2>3. Reads BY <2>1, <2>2, Zenon DEF RecvError, Read, Reads, conn
  <2>4. FrameInv' /\ frames' \in Seq(FrameRec) /\ Phase' = "idle" BY NoFrames DEF RecvError, Fail
  <2>5. BasicInv' BY <2>3, <2>4, <1>type
  <2>6. frames' = <<>> /\ result' # "Ok" BY DEF RecvError, Fail, OwnError
  <2> QED BY <2>3, <2>4, <2>5, <2>6 DEF AbortStep, RecvError, conn
<1>6. ASSUME Drain
      PROVE  BasicInv' /\ PassStep
  <2> USE <1>6
  <2>1. frames # <<>> /\ Top.step \notin BusySteps /\ Top.step \notin FlushSteps
    BY DEF Drain, Waits, BusySteps, FlushSteps, ReplySteps
  <2>2. Phase \notin FlushSteps /\ Phase \notin BusySteps BY <2>1, TopFrame
  <2>3. Reads BY <2>1, <2>2, Zenon DEF Drain, Read, Reads
  <2>4. FrameInv' /\ frames' \in Seq(FrameRec) /\ Phase' = Phase
    BY DEF Drain, FrameInv, Phase, Top, BasicInv, TypeInv
  <2>5. BasicInv' BY <2>3, <2>4, <1>type
  <2>6. pending_ready_for_query_count = 1 BY DEF Drain, Draining, ChannelInv
  <2> QED BY <2>2, <2>3, <2>4, <2>5, <2>6, Zenon DEF PassStep, Drain
<1>reply. ASSUME NEW t \in FrameRec, t.step \in ReplySteps, t.step # "stream",
                 NEW kind \in Expected(t.step)
          PROVE  \E g \in FrameRec :
                    /\ g = AfterReply(t, kind) /\ Leads(t, g, kind)
                    /\ g.kind = t.kind /\ g.sql = t.sql /\ g.limit = t.limit
                    /\ g.call = t.call /\ g.persistent = t.persistent /\ g.id = t.id
  <2> USE <1>reply
  <2>1. CASE t.step = "close_rfq"
    <3>1. AfterReply(t, kind) = Prepared(t) /\ kind = "ReadyForQuery"
      BY <2>1 DEF AfterReply, Expected
    <3> QED BY <2>1, <3>1, PreparedFrame DEF Leads
  <2>2. CASE t.step # "close_rfq"
    <3>1. PICK s : /\ AfterReply(t, kind) = [t EXCEPT !.step = s] /\ s \in Step
                   /\ t.step = "parse_complete" => s = IF t.md THEN "parse_rfq" ELSE "param_desc"
                   /\ t.step = "param_desc" => s = "row_desc"
                   /\ t.step = "row_desc" => s = "parse_rfq"
                   /\ t.step = "parse_rfq" => s \in {"store", "types"}
                   /\ t.step = "close_complete" =>
                         s = IF kind = "CloseComplete" THEN "close_rfq" ELSE "close_complete"
      <4>1. t.step \in {"parse_complete", "param_desc", "row_desc", "parse_rfq", "close_complete"}
        BY <2>2 DEF ReplySteps
      <4> QED BY <4>1, Zenon DEF AfterReply, Step
    <3>2. PICK g : g = [t EXCEPT !.step = s] BY Zenon
    <3>3. /\ g \in FrameRec /\ g.step = s /\ g.id = t.id /\ g.md = t.md
          /\ g.kind = t.kind /\ g.sql = t.sql /\ g.limit = t.limit
          /\ g.call = t.call /\ g.persistent = t.persistent
      BY <3>1, <3>2, WithStep
    <3>4. Leads(t, g, kind)
      <4>1. t.step \in {"parse_complete", "param_desc", "row_desc", "parse_rfq", "close_complete"}
        BY <2>2 DEF ReplySteps
      <4>2. t.md \in BOOLEAN BY DEF FrameRec
      <4> QED BY <3>1, <3>3, <4>1, <4>2 DEF Leads, Expected
    <3> QED BY <3>1, <3>2, <3>3, <3>4, Zenon
  <2> QED BY <2>1, <2>2
<1>moves. ASSUME Expect, Replied
          PROVE  \E g : Moves(g) /\ g.id = Top.id /\ Leads(Top, g, inbox[1].kind)
  <2> USE <1>moves
  <2>1. frames # <<>> /\ Top.step \in ReplySteps /\ Top.step # "stream"
    BY DEF Replied, ReadsReply, ReplySteps
  <2>2. Top \in FrameRec BY <2>1, TopFrame
  <2>3. PICK g \in FrameRec :
              /\ g = AfterReply(Top, inbox[1].kind) /\ Leads(Top, g, inbox[1].kind)
              /\ g.kind = Top.kind /\ g.sql = Top.sql /\ g.limit = Top.limit
              /\ g.call = Top.call /\ g.persistent = Top.persistent /\ g.id = Top.id
    BY <2>1, <2>2, <1>reply DEF Replied
  <2>4. frames' = [frames EXCEPT ![1] = g] BY <2>3, Zenon DEF Expect, Replied, Top
  <2> QED BY <2>1, <2>3, <2>4, SetTop, Zenon
<1>7. ASSUME Expect
      PROVE  BasicInv' /\ (AbortStep \/ \E g : ReplyStep(g))
  <2> USE <1>7
  <2>1. frames # <<>> /\ Top.step \in ReplySteps /\ Top.step \notin FlushSteps /\ Top.step # "stream"
    BY DEF Expect, ReadsReply, FlushSteps, ReplySteps
  <2>2. Phase \notin FlushSteps /\ Phase \in ReplySteps /\ Phase = Top.step /\ Top.kind # "simple"
    BY <2>1, TopFrame DEF ReplySteps
  <2>3. Reads BY <2>1, <2>2, Zenon DEF Expect, Read, Reads
  <2>4. CASE inbox[1].kind \in Expected(Top.step)
    <3>1. Replied BY <2>3, <2>4 DEF Replied, Expect, Reads
    <3>2. PICK g : Moves(g) /\ g.id = Top.id /\ Leads(Top, g, inbox[1].kind)
      BY <3>1, <1>moves
    <3>3. FrameInv' /\ Phase' = g.step BY <2>2, <3>2, MovesBasic DEF Moves
    <3>4. BasicInv' BY <2>3, <3>2, <3>3, <1>type DEF Moves
    <3>5. UNCHANGED result /\ pending_ready_for_query_count' = handle_ready_for_query(inbox[1])
      BY <2>4, Zenon DEF Expect
    <3> QED BY <2>2, <2>3, <3>2, <3>3, <3>4, <3>5, Zenon DEF ReplyStep
  <2>5. CASE inbox[1].kind \notin Expected(Top.step)
    <3>1. Fail("Protocol") /\ UNCHANGED pending_ready_for_query_count BY <2>5, Zenon DEF Expect
    <3>2. FrameInv' /\ frames' \in Seq(FrameRec) /\ Phase' = "idle" BY <3>1, NoFrames DEF Fail
    <3>3. BasicInv' BY <2>3, <3>2, <1>type
    <3>4. inbox[1].kind = "ReadyForQuery" => Phase \in Unexpecting
      BY <2>1, <2>2, <2>5 DEF Expected, Unexpecting, ReplySteps
    <3> QED BY <2>2, <2>3, <3>1, <3>2, <3>3, <3>4 DEF AbortStep, Fail
  <2> QED BY <2>4, <2>5
<1>8. ASSUME Stream
      PROVE  BasicInv' /\ (AbortStep \/ PassStep \/ EndStep)
  <2> USE <1>8
  <2>1. frames # <<>> /\ Top.step = "stream" BY DEF Stream, At
  <2>2. Phase \notin FlushSteps /\ Phase = "stream" BY <2>1, TopFrame DEF FlushSteps
  <2>3. Reads BY <2>1, <2>2, Zenon DEF Stream, Read, Reads
  <2>4. /\ pending_ready_for_query_count' = handle_ready_for_query(inbox[1])
        /\ inbox[1].kind # "ErrorResponse"
    BY DEF Stream
  <2>5. CASE StreamEnds(inbox[1]) /\ Return("Ok")
    <3>1. FrameInv' /\ frames' \in Seq(FrameRec) BY <2>1, <2>5, ReturnFrames
    <3>2. BasicInv' BY <2>3, <3>1, <1>type
    <3> QED BY <2>2, <2>3, <2>4, <2>5, <3>2, Zenon DEF EndStep, StreamEnds
  <2>6. CASE inbox[1].kind = "DataRow" /\ Top.limit = 1 /\ Return("Row")
    <3>1. Len(frames) = 1
      <4>1. Len(frames) # 2 BY <2>6 DEF BasicInv, FrameInv, Top
      <4> QED BY <2>1, <4>1, FramesLen
    <3>2. FrameInv' /\ frames' \in Seq(FrameRec) BY <2>1, <2>6, ReturnFrames
    <3>3. frames' = <<>> /\ result' = "Row" /\ Phase' = "idle" BY <2>1, <2>6, <3>1, ReturnFrames
    <3>4. BasicInv' BY <2>3, <3>2, <1>type
    <3>5. pending_ready_for_query_count' = pending_ready_for_query_count
      BY <2>4, <2>6 DEF handle_ready_for_query
    <3> QED BY <2>2, <2>3, <2>6, <3>3, <3>4, <3>5 DEF AbortStep, ReplySteps
  <2>7. CASE ~ StreamEnds(inbox[1]) /\ UNCHANGED <<frames, result>>
    <3>1. FrameInv' /\ frames' \in Seq(FrameRec) /\ Phase' = Phase
      BY <2>7 DEF FrameInv, Phase, Top, BasicInv, TypeInv
    <3>2. BasicInv' BY <2>3, <3>1, <1>type
    <3> QED BY <2>2, <2>3, <2>4, <2>7, <3>1, <3>2, Zenon DEF PassStep, StreamEnds
  <2>8. CASE ~ StreamEnds(inbox[1]) /\ Fail("Protocol")
    <3>1. FrameInv' /\ frames' \in Seq(FrameRec) /\ Phase' = "idle" BY <2>8, NoFrames DEF Fail
    <3>2. BasicInv' BY <2>3, <3>1, <1>type
    <3>3. pending_ready_for_query_count' = pending_ready_for_query_count
      BY <2>4, <2>8 DEF handle_ready_for_query, StreamEnds
    <3> QED BY <2>2, <2>3, <2>8, <3>1, <3>2, <3>3 DEF AbortStep, Fail, StreamEnds, ReplySteps
  <2> QED BY <2>5, <2>6, <2>7, <2>8, Zenon DEF Stream
<1> QED BY <1>1, <1>2, <1>3, <1>4, <1>5, <1>6, <1>7, <1>8, Zenon

\* The server's answer to each message.
LEMMA ServeServed ==
  ASSUME BasicInv, Serve
  PROVE  \E r : Served(sent[1], r)
<1>replies. ASSUME NEW m \in Msg, NEW ks \in Seq(ReplyKind)
            PROVE  /\ Replies(m, ks) \in Seq(Reply) /\ Len(Replies(m, ks)) = Len(ks)
                   /\ DOMAIN Replies(m, ks) = 1..Len(ks)
                   /\ \A i \in 1..Len(ks) : Replies(m, ks)[i].kind = ks[i] /\ Replies(m, ks)[i].call = m.call
  <2> USE <1>replies
  <2>1. Replies(m, ks) = [i \in 1..Len(ks) |-> [kind |-> ks[i], call |-> m.call]]
    BY DEF Replies
  <2>2. \A i \in 1..Len(ks) : [kind |-> ks[i], call |-> m.call] \in Reply
    BY DEF Reply, Msg
  <2> QED BY <2>1, <2>2
<1>rows. ASSUME NEW n \in Nat
         PROVE  Rows(n) \in Seq({"DataRow"}) /\ Len(Rows(n)) = n
  BY <1>rows DEF Rows
<1>one. ASSUME NEW k \in Plain
        PROVE  <<k>> \in Seq(Plain)
  BY <1>one
<1>query. ASSUME NEW ks \in QueryReplies
          PROVE  ks \in Seq(Plain)
  <2> USE <1>query
  <2>1. CASE ks \in {<<"RowDescription">> \o Rows(n) \o <<"CommandComplete">> : n \in 0..MaxRows}
    <3>1. PICK n \in 0..MaxRows : ks = <<"RowDescription">> \o Rows(n) \o <<"CommandComplete">>
      BY <2>1
    <3>2. n \in Nat BY PgAssumption
    <3>3. PICK r \in Seq(Plain) : r = Rows(n)
      BY <3>2, <1>rows DEF Plain, ReplyKind
    <3>4. "RowDescription" \in Plain /\ "CommandComplete" \in Plain
      BY DEF Plain, ReplyKind
    <3>5. PICK a \in Seq(Plain) : a = <<"RowDescription">> BY <3>4, <1>one, Zenon
    <3>6. PICK b \in Seq(Plain) : b = <<"CommandComplete">> BY <3>4, <1>one, Zenon
    <3>7. a \o r \o b \in Seq(Plain) OBVIOUS
    <3> QED BY <3>1, <3>3, <3>5, <3>6, <3>7
  <2>2. CASE ks = <<"CommandComplete">>  BY <2>2, <1>one DEF Plain, ReplyKind
  <2>3. CASE ks = <<"EmptyQueryResponse">> BY <2>3, <1>one DEF Plain, ReplyKind
  <2>4. CASE ks = <<"ErrorResponse">> BY <2>4, <1>one DEF Plain, ReplyKind
  <2>5. CASE ks = <<"CommandComplete", "ErrorResponse">>
    <3>1. "CommandComplete" \in Plain /\ "ErrorResponse" \in Plain
      BY DEF Plain, ReplyKind
    <3> QED BY <2>5, <3>1
  <2>6. CASE ks = <<"CopyOutResponse", "CopyData", "CopyDone", "CommandComplete">>
    <3>1. {"CopyOutResponse", "CopyData", "CopyDone", "CommandComplete"} \subseteq Plain
      BY DEF Plain, ReplyKind
    <3> QED BY <2>6, <3>1
  <2> QED BY <2>1, <2>2, <2>3, <2>4, <2>5, <2>6, Zenon DEF QueryReplies
<1>execute. ASSUME NEW l, NEW ks \in ExecuteReplies(l)
            PROVE  ks \in Seq(Plain)
  <2> USE <1>execute
  <2>1. CASE \E n \in 0..MaxRows : \E k \in {"CommandComplete", "ErrorResponse"} : ks = Rows(n) \o <<k>>
    <3>1. PICK n \in 0..MaxRows, k \in {"CommandComplete", "ErrorResponse"} : ks = Rows(n) \o <<k>>
      BY <2>1
    <3>2. n \in Nat BY PgAssumption
    <3>3. PICK r \in Seq(Plain) : r = Rows(n)
      BY <3>2, <1>rows DEF Plain, ReplyKind
    <3>4. k \in Plain BY DEF Plain, ReplyKind
    <3>5. PICK b \in Seq(Plain) : b = <<k>> BY <3>4, <1>one, Zenon
    <3>6. r \o b \in Seq(Plain) OBVIOUS
    <3> QED BY <3>1, <3>3, <3>5, <3>6
  <2>2. CASE ks = <<"DataRow", "PortalSuspended">>
    <3>1. "DataRow" \in Plain /\ "PortalSuspended" \in Plain
      BY DEF Plain, ReplyKind
    <3> QED BY <2>2, <3>1
  <2> QED BY <2>1, <2>2 DEF ExecuteReplies
<1>1. ASSUME skipping, ~ IsSync(sent[1]), UNCHANGED <<inbox, skipping, stmts>>,
             sent[1].kind # "Terminate"
      PROVE  Served(sent[1], <<>>)
  <2> USE <1>1
  <2>1. sent \in Seq(Msg) /\ inbox \in Seq(Reply) /\ sent # <<>> BY DEF BasicInv, TypeInv, Serve
  <2>2. sent[1] \in Msg /\ <<>> \in Seq(Reply) /\ inbox \o <<>> = inbox /\ DOMAIN <<>> = {}
    BY <2>1
  <2>3. \A K : ~ Has(<<>>, K) BY DEF Has
  <2> QED BY <2>1, <2>2, <2>3, Zenon DEF Served, Serve, IsSync, Syncs
<1>gives. ASSUME NEW ks \in Seq(ReplyKind), Answer(sent[1], ks)
          PROVE  \E r : Gives(r, ks)
  <2> USE <1>gives
  <2>1. sent[1] \in Msg BY DEF BasicInv, TypeInv, Serve
  <2>2. PICK r : r = Replies(sent[1], ks) OBVIOUS
  <2>3. /\ r \in Seq(Reply) /\ DOMAIN r = DOMAIN ks
        /\ \A i \in DOMAIN r : r[i].kind = ks[i] /\ r[i].call = sent[1].call
    BY <2>1, <2>2, <1>replies
  <2>4. Has(r, {"ErrorResponse"}) <=> \E i \in DOMAIN ks : ks[i] = "ErrorResponse"
    BY <2>3 DEF Has
  <2> QED BY <2>2, <2>3, <2>4, Zenon DEF Gives, Answer, Syncs
<1>common. /\ sent[1] \in Msg /\ sent # <<>> /\ Head(sent) = sent[1]
           /\ sent' = Tail(sent)
           /\ UNCHANGED <<frames, calls, first, result, conn, wbuf, copying, open, notes, torn>>
           /\ open /\ ~ copying
  BY DEF BasicInv, TypeInv, Serve
<1>refuse. ASSUME ~ skipping, sent[1].kind \in {"Parse", "Bind"}, Refuse(sent[1])
           PROVE  \E r : Served(sent[1], r)
  <2> USE <1>refuse
  <2>1. <<"ErrorResponse">> \in Seq(ReplyKind) BY DEF ReplyKind
  <2>2. PICK r : Gives(r, <<"ErrorResponse">>) BY <2>1, <1>gives, Zenon DEF Refuse
  <2>3. DOMAIN r = {1} /\ r[1].kind = "ErrorResponse" BY <2>2 DEF Gives
  <2> QED BY <2>2, <2>3, <1>common DEF Served, Gives, Refuse, Has, Syncs, RFQ
<1>2. ASSUME ~ skipping, sent[1].kind = "Parse", ServeParse(sent[1])
      PROVE  \E r : Served(sent[1], r)
  <2> USE <1>2
  <2>1. CASE /\ sent[1].id \notin DOMAIN stmts
             /\ stmts' = [id \in DOMAIN stmts \cup {sent[1].id} |->
                             IF id = sent[1].id THEN sent[1].sql ELSE stmts[id]]
             /\ Answer(sent[1], <<"ParseComplete">>)
    <3>1. <<"ParseComplete">> \in Seq(ReplyKind) BY DEF ReplyKind
    <3>2. PICK r : Gives(r, <<"ParseComplete">>) BY <2>1, <3>1, <1>gives
    <3>3. DOMAIN r = {1} /\ r[1].kind = "ParseComplete" BY <3>2 DEF Gives
    <3>4. /\ Has(r, {"ParseComplete", "ErrorResponse"}) /\ ~ Has(r, RFQ) /\ ~ Has(r, {"ErrorResponse"})
      BY <3>3 DEF Has, RFQ
    <3> QED BY <2>1, <3>2, <3>4, <1>common, Zenon DEF Served, Gives, Syncs
  <2>2. CASE Refuse(sent[1]) BY <2>2, <1>refuse
  <2> QED BY <2>1, <2>2 DEF ServeParse
<1>3. ASSUME ~ skipping, sent[1].kind = "Describe", ServeDescribe(sent[1])
      PROVE  \E r : Served(sent[1], r)
  <2> USE <1>3
  <2>1. PICK row \in {"RowDescription", "NoData"} : Answer(sent[1], <<"ParameterDescription", row>>)
    BY DEF ServeDescribe
  <2>2. row \in ReplyKind /\ "ParameterDescription" \in ReplyKind BY DEF ReplyKind
  <2>3. <<"ParameterDescription", row>> \in Seq(ReplyKind) BY <2>2
  <2>4. PICK r : Gives(r, <<"ParameterDescription", row>>) BY <2>1, <2>3, <1>gives, Zenon
  <2>5. DOMAIN r = {1, 2} /\ r[1].kind = "ParameterDescription" /\ r[2].kind = row
    BY <2>4 DEF Gives
  <2> QED BY <2>4, <2>5, <1>common, Zenon DEF Served, Gives, ServeDescribe, Has, Syncs, RFQ
<1>4. ASSUME ~ skipping, sent[1].kind = "Bind", ServeBind(sent[1])
      PROVE  \E r : Served(sent[1], r)
  <2> USE <1>4
  <2>1. CASE Answer(sent[1], <<"BindComplete">>) /\ UNCHANGED stmts
    <3>1. <<"BindComplete">> \in Seq(ReplyKind) BY DEF ReplyKind
    <3>2. PICK r : Gives(r, <<"BindComplete">>) BY <2>1, <3>1, <1>gives, Zenon
    <3>3. DOMAIN r = {1} /\ r[1].kind = "BindComplete" BY <3>2 DEF Gives
    <3> QED BY <2>1, <3>2, <3>3, <1>common, Zenon DEF Served, Gives, Has, Syncs, RFQ
  <2>2. CASE Refuse(sent[1]) BY <2>2, <1>refuse
  <2> QED BY <2>1, <2>2 DEF ServeBind
<1>5. ASSUME ~ skipping, sent[1].kind = "Execute", ServeExecute(sent[1])
      PROVE  \E r : Served(sent[1], r)
  <2> USE <1>5
  <2>1. PICK ks \in ExecuteReplies(sent[1].limit) : Answer(sent[1], ks) BY DEF ServeExecute
  <2>2. ks \in Seq(Plain) BY <1>execute
  <2>3. ks \in Seq(ReplyKind) /\ \A i \in DOMAIN ks : ks[i] \in Plain BY <2>2 DEF Plain
  <2>4. PICK r : Gives(r, ks) BY <2>1, <2>3, <1>gives
  <2>5. ~ Has(r, RFQ) /\ ~ Has(r, {"ParseComplete"}) BY <2>3, <2>4 DEF Gives, Has, Plain, RFQ
  <2> QED BY <2>4, <2>5, <1>common, Zenon DEF Served, Gives, ServeExecute, Syncs
<1>6. ASSUME ~ skipping, sent[1].kind = "Close", ServeClose(sent[1])
      PROVE  \E r : Served(sent[1], r)
  <2> USE <1>6
  <2>1. <<"CloseComplete">> \in Seq(ReplyKind) BY DEF ReplyKind
  <2>2. PICK r : Gives(r, <<"CloseComplete">>) BY <2>1, <1>gives, Zenon DEF ServeClose
  <2>3. DOMAIN r = {1} /\ r[1].kind = "CloseComplete" BY <2>2 DEF Gives
  <2>4. stmts' = [x \in DOMAIN stmts \ {sent[1].id} |-> stmts[x]]
    <3>1. {x \in DOMAIN stmts : x # sent[1].id} = DOMAIN stmts \ {sent[1].id} OBVIOUS
    <3> QED BY <3>1, Zenon DEF ServeClose, RestrictDomain, Restrict
  <2>5. /\ Has(r, {"CloseComplete"}) /\ ~ Has(r, RFQ) /\ ~ Has(r, {"ErrorResponse"})
        /\ ~ Has(r, {"ParseComplete"})
    BY <2>3 DEF Has, RFQ
  <2> QED BY <2>2, <2>4, <2>5, <1>common, Zenon DEF Served, Gives, Syncs
<1>7. ASSUME sent[1].kind = "Sync", ServeSync(sent[1])
      PROVE  \E r : Served(sent[1], r)
  <2> USE <1>7
  <2>1. <<"ReadyForQuery">> \in Seq(ReplyKind) BY DEF ReplyKind
  <2>2. PICK r : Gives(r, <<"ReadyForQuery">>) BY <2>1, <1>gives, Zenon DEF ServeSync
  <2>3. DOMAIN r = {1} /\ r[1].kind = "ReadyForQuery" BY <2>2 DEF Gives
  <2>4. Has(r, RFQ) /\ Last(r, RFQ, {}) /\ ~ Has(r, {"ParseComplete"})
    BY <2>3 DEF Has, Last, RFQ
  <2> QED BY <2>2, <2>4, <1>common, Zenon DEF Served, Gives, ServeSync, Syncs
<1>8. ASSUME sent[1].kind = "Query", ServeQuery(sent[1])
      PROVE  \E r : Served(sent[1], r)
  <2> USE <1>8
  <2>1. PICK ks \in QueryReplies : Answer(sent[1], ks \o <<"ReadyForQuery">>) BY DEF ServeQuery
  <2>2. ks \in Seq(Plain) BY <1>query
  <2>3. PICK all : all = ks \o <<"ReadyForQuery">> BY Zenon
  <2>4. /\ all \in Seq(ReplyKind) /\ Len(all) = Len(ks) + 1 /\ Len(ks) \in Nat
        /\ all[Len(ks) + 1] = "ReadyForQuery"
        /\ \A i \in DOMAIN all : i # Len(ks) + 1 => all[i] \in Plain /\ i < Len(ks) + 1
        /\ DOMAIN all = 1..Len(ks) + 1
    <3>1. ks \in Seq(ReplyKind) /\ "ReadyForQuery" \in ReplyKind BY <2>2 DEF Plain, ReplyKind
    <3> QED BY <2>2, <2>3, <3>1
  <2>5. PICK r : Gives(r, all) BY <2>1, <2>3, <2>4, <1>gives, Zenon
  <2>6. /\ Len(ks) + 1 \in DOMAIN r /\ r[Len(ks) + 1].kind = "ReadyForQuery"
        /\ \A i \in DOMAIN r : i # Len(ks) + 1 =>
              i < Len(ks) + 1 /\ r[i].kind \notin {"ReadyForQuery", "ParseComplete"}
        /\ DOMAIN r = 1..Len(ks) + 1
    BY <2>4, <2>5 DEF Gives, Plain
  <2>7. Has(r, RFQ) /\ ~ Has(r, {"ParseComplete"}) BY <2>6 DEF Has, RFQ
  <2>8. Last(r, RFQ, {}) BY <2>4, <2>6 DEF Last, RFQ
  <2> QED BY <2>5, <2>7, <2>8, <1>common, Zenon DEF Served, Gives, ServeQuery, Syncs
<1>9. Head(sent) = sent[1] BY <1>common
<1> QED BY <1>1, <1>2, <1>3, <1>4, <1>5, <1>6, <1>7, <1>8, <1>9, Zenon DEF Serve, IsSync

\* The steps of the server, of the network, and close().
LEMMA OtherSteps ==
  ASSUME BasicInv, Serve \/ ServeCopyIn \/ ServeTerminate \/ Crash \/ Notify \/ Close
  PROVE  /\ BasicInv'
         /\ \/ CopyStep \/ GoneStep \/ NoteStep \/ CloseStep
            \/ \E m, r : Served(m, r)
<1>1. ASSUME ServeCopyIn
      PROVE  BasicInv' /\ CopyStep /\ Phase' = Phase
  <2> USE <1>1
  <2>1. FrameInv' /\ frames' \in Seq(FrameRec) /\ Phase' = Phase BY SameFrames DEF ServeCopyIn
  <2>2. inbox \in Seq(Reply) /\ sent \in Seq(Msg) /\ sent # <<>>
    BY DEF BasicInv, TypeInv, ServeCopyIn
  <2>3. sent[1] \in Msg /\ Head(sent) = sent[1] BY <2>2
  <2>4. PICK r : r = [kind |-> "CopyInResponse", call |-> sent[1].call] BY Zenon
  <2>5. r \in Reply /\ r.kind = "CopyInResponse" /\ r.call = sent[1].call
    BY <2>3, <2>4 DEF Reply, ReplyKind, Msg
  <2>6. Replies(sent[1], <<"CopyInResponse">>) = <<r>> BY <2>4 DEF Replies
  <2>7. inbox' = inbox \o <<r>> BY <2>3, <2>6, Zenon DEF ServeCopyIn
  <2>8. inbox' = Append(inbox, r) BY <2>2, <2>5, <2>7
  <2>a. sent' = Tail(sent) BY DEF ServeCopyIn
  <2>9. inbox' \in Seq(Reply) /\ sent' \in Seq(Msg) BY <2>2, <2>5, <2>8, <2>a
  <2>10. BasicInv' BY <2>1, <2>9 DEF BasicInv, TypeInv, ServeCopyIn, conn, statements
  <2> QED BY <2>1, <2>2, <2>3, <2>5, <2>8, <2>10, Zenon DEF CopyStep, ServeCopyIn
<1>gone. ASSUME GoneStep
         PROVE  BasicInv' /\ Phase' = Phase
  <2> USE <1>gone
  <2>1. FrameInv' /\ frames' \in Seq(FrameRec) /\ Phase' = Phase BY SameFrames DEF GoneStep
  <2>2. PICK n \in 0..Len(inbox) : inbox' = SubSeq(inbox, 1, n) BY DEF GoneStep
  <2>3. inbox \in Seq(Reply) BY DEF BasicInv, TypeInv
  <2>4. inbox' \in Seq(Reply) /\ sent' \in Seq(Msg) BY <2>2, <2>3 DEF GoneStep
  <2> QED BY <2>1, <2>4, Zenon DEF BasicInv, TypeInv, GoneStep, conn, statements
<1>2. ASSUME Crash \/ ServeTerminate
      PROVE  GoneStep
  <2> USE <1>2
  <2>1. inbox = SubSeq(inbox, 1, Len(inbox)) /\ Len(inbox) \in 0..Len(inbox)
    BY DEF BasicInv, TypeInv
  <2>2. CASE Crash BY <2>2, Zenon DEF Crash, GoneStep
  <2>3. CASE ServeTerminate BY <2>1, <2>3, Zenon DEF ServeTerminate, GoneStep
  <2> QED BY <2>2, <2>3
<1>3. ASSUME Notify
      PROVE  BasicInv' /\ NoteStep /\ Phase' = Phase
  <2> USE <1>3
  <2>1. FrameInv' /\ frames' \in Seq(FrameRec) /\ Phase' = Phase BY SameFrames DEF Notify
  <2>2. inbox \in Seq(Reply) BY DEF BasicInv, TypeInv
  <2>3. PICK r : r = [kind |-> "NotificationResponse", call |-> None] BY Zenon
  <2>4. r \in Reply /\ r.kind = "NotificationResponse" BY <2>3 DEF Reply, ReplyKind, None
  <2>5. inbox' = Append(inbox, r) BY <2>3 DEF Notify
  <2>6. inbox' \in Seq(Reply) BY <2>2, <2>4, <2>5
  <2>7. BasicInv' BY <2>1, <2>6 DEF BasicInv, TypeInv, Notify, conn, statements
  <2> QED BY <2>1, <2>4, <2>5, <2>7, Zenon DEF NoteStep, Notify
<1>4. ASSUME Close
      PROVE  BasicInv' /\ CloseStep /\ Phase' = Phase
  <2> USE <1>4
  <2>1. FrameInv' /\ frames' \in Seq(FrameRec) /\ Phase' = Phase BY SameFrames DEF Close
  <2>2. sent \in Seq(Msg) /\ calls \in Nat BY DEF BasicInv, TypeInv
  <2>3. PICK m : m = [kind |-> "Terminate", id |-> None, sql |-> None, limit |-> 0, call |-> calls]
    BY Zenon
  <2>4. m \in Msg /\ m.kind = "Terminate" BY <2>2, <2>3, PgAssumption DEF Msg, None, Id
  <2>5. sent' = sent \/ sent' = Append(sent, m) BY <2>3 DEF Close
  <2>6. sent' \in Seq(Msg) BY <2>2, <2>4, <2>5
  <2>7. BasicInv' BY <2>1, <2>6 DEF BasicInv, TypeInv, Close, statements, server
  <2> QED BY <2>1, <2>4, <2>5, <2>7, Zenon DEF CloseStep, Close
<1>5. ASSUME Serve PROVE BasicInv' /\ \E m, r : Served(m, r)
  <2>1. PICK r : Served(sent[1], r) BY <1>5, ServeServed
  <2> QED BY <2>1, ServedBasic
<1> QED BY <1>1, <1>gone, <1>2, <1>3, <1>4, <1>5, Zenon

-----------------------------------------------------------------------------
(* The statements of the client are those of the server. *)

\* With nothing pending there is no message to claim anything of.
LEMMA QuietStatements ==
  ASSUME BasicInv, ChannelInv, pending_ready_for_query_count = 0
  PROVE  /\ Phase # "parse_complete" /\ ParsedKnown
         /\ \A m \in Buffered : m.kind = "Terminate"
         /\ BindsKnown /\ ClosesApart
<1>1. Calm /\ wbuf = <<>> BY DEF ChannelInv
<1>2. Phase # "parse_complete" BY DEF ChannelInv, BusySteps, ReplySteps
<1>3. \A m \in Buffered : m.kind = "Terminate" BY <1>1 DEF Buffered, Calm, Only, Bye
<1> QED BY <1>2, <1>3 DEF ParsedKnown, BindsKnown, ClosesApart

\* An identifier names one query.
LEMMA Functional ==
  ASSUME NEW n, NEW p, NEW q, Known(n, p), Known(n, q) PROVE p = q
BY DEF Known

\* The Local steps that leave the statements alone.
LEMMA ClaimsKeep ==
  ASSUME BasicInv, ChannelInv, Claims PROVE Keeps
<1>1. ASSUME FramesKeep, Phase' # "parse_complete", UNCHANGED <<conn, wbuf, sent, inbox, server>>
      PROVE  Keeps
  BY <1>1 DEF Keeps, conn, server, Buffered
<1>2. ASSUME frames # <<>>, NEW s \in Step, Goto(s), s \notin {"parse_complete"},
             s \in HeldSteps => Top.step \in HeldSteps, s \in MissSteps => Top.step \in MissSteps,
             UNCHANGED <<conn, wbuf, sent, inbox, server>>
      PROVE  Keeps
  <2>1. PICK g : Moves(g) /\ g.step = s /\ g.id = Top.id BY <1>2, GotoMoves
  <2>2. FramesKeep BY <1>2, <2>1, MovesKeep
  <2>3. Phase' = s BY <2>1 DEF Moves, Phase, Top
  <2> QED BY <1>1, <1>2, <2>2, <2>3
<1>3. ASSUME frames' = <<>>, UNCHANGED <<conn, wbuf, sent, inbox, server>> PROVE Keeps
  BY <1>1, <1>3 DEF FramesKeep, Phase
<1>4. CASE Starts
  <2>1. PICK f \in FrameRec : Start(f) /\ f.step \in {"run_ready", "ready", "arguments"}
    BY <1>4, StartsFrame
  <2>2. frames' = <<f>> /\ UNCHANGED <<conn, wbuf, sent, inbox, server>> BY <2>1 DEF Start
  <2>3. DOMAIN frames' = {1} /\ frames'[1] = f /\ frames' # <<>> BY <2>2
  <2>4. FramesKeep BY <2>1, <2>3 DEF FramesKeep, HeldSteps, MissSteps
  <2>5. Phase' = f.step BY <2>3 DEF Phase, Top
  <2> QED BY <1>1, <2>1, <2>2, <2>4, <2>5
<1>5. CASE PrepareWith
  BY <1>2, <1>5 DEF PrepareWith, Ready, At, Step, HeldSteps, MissSteps
<1>6. CASE Described
  BY <1>2, <1>6 DEF Described, Ready, At, Step, HeldSteps, MissSteps
<1>7. CASE RunPrepared
  BY <1>2, <1>7 DEF RunPrepared, Ready, At, Step, HeldSteps, MissSteps
<1>8. CASE TypesKnown
  <2>1. frames # <<>> /\ Top.step = "types" /\ UNCHANGED <<conn, wbuf, sent, inbox, server>>
    BY <1>8 DEF TypesKnown, At
  <2>2. CASE Goto("types_ready") BY <1>2, <2>1, <2>2 DEF Step, HeldSteps, MissSteps
  <2>3. CASE Fail("LocalError") BY <1>3, <2>1, <2>3 DEF Fail
  <2> QED BY <1>8, <2>2, <2>3 DEF TypesKnown
<1>9. CASE TakeArguments
  <2>1. frames # <<>> /\ Top.step = "arguments" /\ UNCHANGED <<conn, wbuf, sent, inbox, server>>
    BY <1>9 DEF TakeArguments, At
  <2>2. CASE Goto("run_ready") BY <1>2, <2>1, <2>2 DEF Step, HeldSteps, MissSteps
  <2>3. CASE Fail("LocalError") BY <1>3, <2>1, <2>3 DEF Fail
  <2> QED BY <1>9, <2>2, <2>3 DEF TakeArguments
<1>10. CASE FetchType
  <2>1. PICK f \in FrameRec : frames' = <<f>> \o frames /\ f.step = "ready"
    BY <1>10, FetchTypeFrames, Zenon
  <2>2. frames \in Seq(FrameRec) BY DEF BasicInv, TypeInv
  <2>3. /\ frames' # <<>> /\ frames'[1] = f
        /\ \A i \in DOMAIN frames' : i # 1 => i - 1 \in DOMAIN frames /\ frames'[i] = frames[i - 1]
    BY <2>1, <2>2
  <2>4. FramesKeep BY <2>1, <2>3, Zenon DEF FramesKeep, HeldSteps, MissSteps
  <2>5. Phase' = "ready" BY <2>1, <2>3 DEF Phase, Top
  <2>6. UNCHANGED <<conn, wbuf, sent, inbox, server>> BY <1>10 DEF FetchType
  <2> QED BY <1>1, <2>4, <2>5, <2>6
<1>11. CASE StoreNot
  <2>1. /\ frames # <<>> /\ Top.step = "store" /\ UNCHANGED <<conn, wbuf, sent, inbox, server>>
        /\ frames' = [frames EXCEPT ![1] = Prepared(@)]
    BY <1>11 DEF StoreNot, At
  <2>2. PICK g : Moves(g) /\ g.step \in AfterPrepare /\ g.id = Top.id BY <2>1, PreparedMoves
  <2>3. FramesKeep BY <2>1, <2>2, MovesKeep DEF AfterPrepare, HeldSteps, MissSteps
  <2>4. Phase' # "parse_complete" BY <2>2 DEF Moves, Phase, Top, AfterPrepare
  <2> QED BY <1>1, <2>1, <2>3, <2>4
<1>12. CASE PrepareReturn
  <2>1. frames # <<>> /\ frames \in Seq(FrameRec) /\ Return("Ok")
        /\ UNCHANGED <<conn, wbuf, sent, inbox, server>>
    BY <1>12 DEF PrepareReturn, At, BasicInv, TypeInv
  <2>2. FramesKeep
    <3>1. \A i \in DOMAIN Tail(frames) : i + 1 \in DOMAIN frames /\ Tail(frames)[i] = frames[i + 1]
      BY <2>1
    <3> QED BY <2>1, <3>1 DEF Return, FramesKeep
  <2>3. Phase' \in {"idle", "types"} BY <2>1, ReturnFrames
  <2> QED BY <1>1, <2>1, <2>2, <2>3
<1> QED BY <1>4, <1>5, <1>6, <1>7, <1>8, <1>9, <1>10, <1>11, <1>12 DEF Claims

\* A statement that is found in the cache is one of the server.
LEMMA LookupHitStatements ==
  ASSUME BasicInv, ChannelInv, StatementInv, BasicInv', ChannelInv', LookupHit PROVE StatementInv'
<1>1. frames # <<>> /\ Phase = "lookup" /\ contains_key(cache, Top.sql) /\ Top.sql \in Key
  BY Setting DEF LookupHit, At
<1>2. PICK g : Moves(g) /\ g.step \in AfterPrepare /\ g.id = ids[Top.sql] BY LookupHitMoves
<1>3. pending_ready_for_query_count' = 0 BY <1>1 DEF LookupHit, ChannelInv, ReadySteps
<1>4. Keys(cache') \subseteq Keys(cache) /\ Top.sql \in Keys(cache) /\ ids' = ids /\ stmts' = stmts
  BY <1>1, GetMutKeys, Zenon DEF LookupHit, BasicInv, TypeInv, contains_key, Keys, server
<1>5. \A n, q : Known(n, q)' <=> Known(n, q) BY <1>4 DEF Known
<1>6. CacheKnown' BY <1>4, <1>5 DEF StatementInv, CacheKnown, Known
<1>7. FramesKnown'
  <2>1. Known(ids[Top.sql], Top.sql) BY <1>4 DEF StatementInv, CacheKnown
  <2>2. ASSUME NEW i \in DOMAIN frames', frames'[i].step \in HeldSteps
        PROVE  Known(frames'[i].id, frames'[i].sql)
    BY <1>2, <2>1, <2>2 DEF Moves, StatementInv, FramesKnown
  <2>3. ASSUME NEW i \in DOMAIN frames', frames'[i].step \in MissSteps
        PROVE  frames'[i].sql \notin Keys(cache')
    BY <1>2, <1>4, <2>3 DEF Moves, StatementInv, FramesKnown, AfterPrepare, MissSteps
  <2> QED BY <2>2, <2>3, <1>4 DEF FramesKnown, Known
<1>8. ParsedKnown' /\ BindsKnown' /\ ClosesApart'
  <2>1. (BasicInv /\ ChannelInv /\ pending_ready_for_query_count = 0
         => ParsedKnown /\ BindsKnown /\ ClosesApart)'
    BY QuietStatements, PTL
  <2> QED BY <1>3, <2>1
<1> QED BY <1>6, <1>7, <1>8 DEF StatementInv

\* A query that is not in the cache is given an identifier.
LEMMA LookupMissStatements ==
  ASSUME BasicInv, ChannelInv, StatementInv, BasicInv', ChannelInv', LookupMiss PROVE StatementInv'
<1>1. frames # <<>> /\ Phase = "lookup" /\ Top.sql \notin Keys(cache)
  BY Setting DEF LookupMiss, At, contains_key, Keys
<1>2. PICK g : Moves(g) /\ g.step = "parse_ready" BY LookupMissMoves
<1>3. pending_ready_for_query_count' = 0 BY <1>1 DEF LookupMiss, ChannelInv, ReadySteps
<1>4. cache' = cache /\ ids' = ids /\ stmts' = stmts BY DEF LookupMiss, server
<1>6. CacheKnown' BY <1>4 DEF StatementInv, CacheKnown, Known, Keys
<1>7. FramesKnown'
  <2>2. ASSUME NEW i \in DOMAIN frames', frames'[i].step \in HeldSteps
        PROVE  Known(frames'[i].id, frames'[i].sql)
    BY <1>2, <2>2 DEF Moves, StatementInv, FramesKnown, HeldSteps
  <2>3. ASSUME NEW i \in DOMAIN frames', frames'[i].step \in MissSteps
        PROVE  frames'[i].sql \notin Keys(cache)
    BY <1>1, <1>2, <2>3 DEF Moves, StatementInv, FramesKnown
  <2> QED BY <2>2, <2>3, <1>4 DEF FramesKnown, Known
<1>8. ParsedKnown' /\ BindsKnown' /\ ClosesApart'
  <2>1. (BasicInv /\ ChannelInv /\ pending_ready_for_query_count = 0
         => ParsedKnown /\ BindsKnown /\ ClosesApart)'
    BY QuietStatements, PTL
  <2> QED BY <1>3, <2>1
<1> QED BY <1>6, <1>7, <1>8 DEF StatementInv

\* A Bind names the statement that has been prepared.
LEMMA BindStatements ==
  ASSUME BasicInv, ChannelInv, StatementInv, BasicInv', Bind PROVE StatementInv'
<1>1. frames # <<>> /\ Top.step = "bind_ready" /\ Phase = Top.step BY Setting DEF Bind, Ready, At
<1>2. PICK g : WriteStep(g, {"Bind", "Execute", "Sync"}) /\ g.step = "run_flush"
  BY WriteSteps, Zenon
<1>3. Moves(g) /\ Wrote({"Bind", "Execute", "Sync"}) /\ Phase' = "run_flush"
      /\ pending_ready_for_query_count = 0
  BY <1>2, Zenon DEF WriteStep
<1>4. cache' = cache /\ ids' = ids /\ stmts' = stmts /\ sent' = sent
  BY DEF Bind, server, statements
<1>5. \A m \in Buffered : m.kind = "Terminate" BY <1>3, QuietStatements
<1>6. ASSUME NEW m \in Buffered'
      PROVE  m.kind # "Close" /\ (m.kind = "Bind" => m.id = Top.id /\ m.sql = Top.sql)
  <2>1. CASE m \in Buffered BY <2>1, <1>5
  <2>2. CASE \E i \in DOMAIN wbuf' : m = wbuf'[i] BY <2>2, <1>3 DEF Wrote
  <2> QED BY <1>4, <1>6, <2>1, <2>2 DEF Buffered
<1>7. Known(Top.id, Top.sql)
  BY <1>1, TopFrame DEF StatementInv, FramesKnown, HeldSteps, Top
<1>8. CacheKnown' BY <1>4 DEF StatementInv, CacheKnown, Known, Keys
<1>9. FramesKnown'
  <2>1. FramesKeep BY <1>2, <1>3, MovesKeep DEF HeldSteps, MissSteps
  <2> QED BY <2>1, <1>4 DEF FramesKeep, StatementInv, FramesKnown, Known, Keys
<1>10. BindsKnown' BY <1>4, <1>6, <1>7 DEF BindsKnown, Known
<1>11. ClosesApart' BY <1>6 DEF ClosesApart
<1>12. ParsedKnown' BY <1>3 DEF ParsedKnown
<1> QED BY <1>8, <1>9, <1>10, <1>11, <1>12 DEF StatementInv

\* A Parse or a Query claims nothing.
LEMMA WrittenKeep ==
  ASSUME BasicInv, ChannelInv, Parse \/ RunSimple PROVE Keeps
<1>1. PICK g, K : WriteStep(g, K) /\ K \subseteq {"Parse", "Describe", "Query", "Sync"}
                  /\ g.step \in {"parse_flush", "run_flush"}
                  /\ (g.step = "parse_flush" => Top.step = "parse_ready")
  <2>1. CASE Parse
    <3>1. PICK g, K : WriteStep(g, K) /\ g.step = "parse_flush" BY <2>1, WriteSteps
    <3>2. K \subseteq {"Parse", "Describe", "Sync"} BY <3>1 DEF WriteStep, Group
    <3>3. Top.step = "parse_ready" BY <2>1 DEF Parse, Ready, At
    <3> QED BY <3>1, <3>2, <3>3, Zenon
  <2>2. CASE RunSimple
    <3>1. PICK g : WriteStep(g, {"Query"}) /\ g.step = "run_flush" BY <2>2, WriteSteps
    <3> QED BY <3>1
  <2> QED BY <2>1, <2>2
<1>2. Moves(g) /\ Wrote(K) /\ Phase' = g.step /\ UNCHANGED <<sent, inbox, server>>
  BY <1>1 DEF WriteStep
<1>3. UNCHANGED statements BY DEF Parse, RunSimple
<1>4. FramesKeep BY <1>1, <1>2, MovesKeep, Zenon DEF HeldSteps, MissSteps
<1>5. \A m \in Buffered' : m.kind \in {"Bind", "Close"} => m \in Buffered
  BY <1>1, <1>2 DEF Buffered, Wrote
<1> QED BY <1>1, <1>2, <1>3, <1>4, <1>5 DEF Keeps, server

\* A statement is stored; the one that makes room is named by nobody any more
\* when its Close is written.
LEMMA StoreStatements ==
  ASSUME BasicInv, ChannelInv, StatementInv, BasicInv', ChannelInv', Store PROVE StatementInv'
<1>1. /\ frames # <<>> /\ Top.step = "store" /\ Phase = Top.step /\ Top.sql \in Key
      /\ 1 \in DOMAIN frames /\ pending_ready_for_query_count = 0
  BY Setting, TopFrame, Zenon DEF Store, At, ChannelInv, ReadySteps
<1>2. Known(Top.id, Top.sql) /\ Top.sql \notin Keys(cache)
  BY <1>1 DEF StatementInv, FramesKnown, HeldSteps, MissSteps, Top
<1>3. /\ Keys(cache') \subseteq Keys(MakeRoom(cache, Top.sql)) \cup {Top.sql}
      /\ Keys(MakeRoom(cache, Top.sql)) \subseteq Keys(cache) /\ Keys(cache) \subseteq Key
  <2>1. cache \in Seq(Key) /\ cache' = insert(cache, Top.sql) BY Zenon DEF Store, BasicInv, TypeInv
  <2>2. Keys(cache) \subseteq Key BY <2>1 DEF Keys
  <2> QED BY <1>1, <1>2, <2>1, <2>2, InsertKeys
<1>4. /\ ids' = [ids EXCEPT ![Top.sql] = Top.id] /\ stmts' = stmts /\ sent' = sent
      /\ ids \in [Key -> Id]
  BY Zenon DEF Store, server, BasicInv, TypeInv
<1>5. /\ ids'[Top.sql] = Top.id
      /\ \A q \in Keys(cache) : ids'[q] = ids[q] /\ q # Top.sql /\ Known(ids[q], q)
  BY <1>1, <1>2, <1>3, <1>4 DEF StatementInv, CacheKnown
<1>6. CacheKnown'
  <2>1. ASSUME NEW q \in Keys(cache') PROVE Known(ids'[q], q) BY <1>2, <1>3, <1>5, <2>1, Zenon
  <2> QED BY <2>1, <1>4 DEF CacheKnown, Known
<1>7. ASSUME NEW g, Moves(g), g.id = Top.id, g.step \notin MissSteps
      PROVE  /\ FramesKnown'
             /\ \A i \in DOMAIN frames' : frames'[i].step \in HeldSteps =>
                   /\ Known(frames'[i].id, frames'[i].sql)
                   /\ frames'[i].sql \notin Keys(cache)
  <2>1. ASSUME NEW i \in DOMAIN frames', i # 1
        PROVE  /\ frames'[i] = frames[i] /\ i \in DOMAIN frames /\ frames[i].step = "types"
               /\ frames[i].sql # Top.sql
    <3>1. i \in DOMAIN frames /\ frames'[i] = frames[i] BY <1>7, <2>1 DEF Moves
    <3>2. Len(frames) = 2 /\ i = 2
      <4>1. PICK n \in Nat : n = Len(frames) /\ DOMAIN frames = 1..n /\ n <= 2
        BY DEF BasicInv, TypeInv, FrameInv
      <4>2. i \in 1..n BY <3>1, <4>1
      <4>3. n = 2 /\ i = 2 BY <4>1, <4>2, <2>1
      <4> QED BY <4>1, <4>3
    <3>3. frames[2].step = "types" /\ frames[2].sql \in Sql /\ frames[1].sql \in TypeSql
      BY <3>2 DEF BasicInv, FrameInv
    <3> QED BY <3>1, <3>2, <3>3, PgAssumption DEF Top
  <2>2. ASSUME NEW i \in DOMAIN frames', frames'[i].step \in HeldSteps
        PROVE  Known(frames'[i].id, frames'[i].sql) /\ frames'[i].sql \notin Keys(cache)
    <3>1. CASE i = 1 BY <3>1, <1>2, <1>7 DEF Moves
    <3>2. CASE i # 1
      BY <3>2, <2>1, <2>2, Zenon DEF StatementInv, FramesKnown, MissSteps, HeldSteps
    <3> QED BY <3>1, <3>2
  <2>3. ASSUME NEW i \in DOMAIN frames', frames'[i].step \in MissSteps
        PROVE  frames'[i].sql \notin Keys(cache')
    <3>1. i # 1 BY <1>7, <2>3 DEF Moves
    <3>2. frames[i].sql \notin Keys(cache) /\ frames'[i] = frames[i] /\ frames[i].sql # Top.sql
      BY <3>1, <2>1, Zenon DEF StatementInv, FramesKnown, MissSteps
    <3> QED BY <3>2, <1>3, Zenon
  <2> QED BY <2>2, <2>3, <1>4, Zenon DEF FramesKnown, Known
<1>8. CASE Displaces = {}
  <2>1. /\ frames' = [frames EXCEPT ![1] = Prepared(@)]
        /\ pending_ready_for_query_count' = pending_ready_for_query_count
    BY <1>8, Zenon DEF Store, Displaces
  <2>2. PICK g : Moves(g) /\ g.step \in AfterPrepare /\ g.id = Top.id BY <1>1, <2>1, PreparedMoves
  <2>3. FramesKnown' BY <2>2, <1>7 DEF AfterPrepare, MissSteps
  <2>4. (BasicInv /\ ChannelInv /\ pending_ready_for_query_count = 0
         => ParsedKnown /\ BindsKnown /\ ClosesApart)'
    BY QuietStatements, PTL
  <2> QED BY <1>1, <1>6, <2>1, <2>3, <2>4 DEF StatementInv
<1>9. CASE Displaces # {}
  <2>1. PICK g : WriteStep(g, {"Close", "Sync"}) /\ g.step = "close_flush"
    BY <1>2, <1>9, WriteSteps
  <2>2. PICK n \in Displaces : \A i \in DOMAIN wbuf' : wbuf'[i].kind = "Close" => wbuf'[i].id = n
    BY <1>2, <1>9, WriteSteps
  <2>3. Moves(g) /\ g.id = Top.id /\ Wrote({"Close", "Sync"}) /\ Phase' = "close_flush"
    BY <2>1, Zenon DEF WriteStep
  <2>4. /\ FramesKnown'
        /\ \A i \in DOMAIN frames' : frames'[i].step \in HeldSteps =>
              Known(frames'[i].id, frames'[i].sql) /\ frames'[i].sql \notin Keys(cache)
    BY <2>1, <2>3, <1>7 DEF MissSteps
  <2>5. PICK p \in Keys(cache) : p \notin Keys(MakeRoom(cache, Top.sql)) /\ n = ids[p]
    BY <2>2 DEF Displaces, Displaced
  <2>6. Known(n, p) BY <2>5, <1>5, Zenon
  <2>7. \A m \in Buffered : m.kind = "Terminate" BY <1>1, QuietStatements
  <2>8. ASSUME NEW m \in Buffered'
        PROVE  m.kind # "Bind" /\ (m.kind = "Close" => m.id = n)
    <3>1. CASE m \in Buffered BY <3>1, <2>7
    <3>2. CASE \E i \in DOMAIN wbuf' : m = wbuf'[i] BY <3>2, <2>2, <2>3, Zenon DEF Wrote
    <3> QED BY <1>4, <2>8, <3>1, <3>2 DEF Buffered
  <2>9. \A q \in Keys(cache') : ids'[q] # n
    BY <1>2, <1>3, <1>5, <2>5, <2>6, Functional, Zenon
  <2>10. \A i \in DOMAIN frames' : frames'[i].step \in HeldSteps => frames'[i].id # n
    BY <2>4, <2>5, <2>6, Functional, Zenon
  <2>11. BindsKnown' BY <2>8 DEF BindsKnown
  <2>12. ClosesApart' BY <2>8, <2>9, <2>10, Zenon DEF ClosesApart
  <2>13. ParsedKnown' BY <2>3, Zenon DEF ParsedKnown
  <2> QED BY <1>6, <2>4, <2>11, <2>12, <2>13 DEF StatementInv
<1> QED BY <1>8, <1>9

-----------------------------------------------------------------------------
(* The invariant. *)

\* Every step belongs to a class.
LEMMA NextEffect ==
  ASSUME PgInv, Next PROVE BasicInv' /\ Effect
<1>1. BasicInv /\ ChannelInv BY DEF PgInv
<1>2. CASE Claims \/ LookupHit \/ LookupMiss BY <1>1, <1>2, LocalSteps DEF Effect
<1>3. CASE Store
  <2>1. Top.sql \notin Keys(cache)
    <3>1. frames # <<>> /\ Top.step = "store" BY <1>3, Zenon DEF Store, At
    <3>2. 1 \in DOMAIN frames BY <1>1, <3>1, TopFrame
    <3> QED BY <3>1, <3>2 DEF PgInv, StatementInv, FramesKnown, MissSteps, Top
  <2>2. CASE Displaces = {} BY <1>1, <1>3, <2>1, <2>2, LocalSteps DEF Effect
  <2>3. CASE Displaces # {} BY <1>1, <1>3, <2>1, <2>3, WriteSteps, Zenon DEF Effect
  <2> QED BY <2>2, <2>3
<1>4. CASE Parse \/ RunSimple \/ Bind BY <1>1, <1>4, WriteSteps, Zenon DEF Effect
<1>5. CASE Flush \/ FlushError \/ Cancel \/ RecvEof \/ RecvError \/ Drain \/ Expect \/ Stream
  BY <1>1, <1>5, ReadSteps DEF Effect
<1>6. CASE Serve \/ ServeCopyIn \/ ServeTerminate \/ Crash \/ Notify \/ Close
  BY <1>1, <1>6, OtherSteps DEF Effect
<1> QED BY <1>2, <1>3, <1>4, <1>5, <1>6, Zenon
        DEF Next, ClientPoll, ServerStep, Choice, Claims, Starts

\* Every step preserves StatementInv.
LEMMA StatementPreserved ==
  ASSUME PgInv, Next, BasicInv', ChannelInv' PROVE StatementInv'
<1>1. BasicInv /\ ChannelInv /\ OwnInv /\ StatementInv BY DEF PgInv
<1>2. CASE Claims BY <1>1, <1>2, ClaimsKeep, KeepsStatements
<1>3. CASE LookupHit BY <1>1, <1>3, LookupHitStatements
<1>4. CASE LookupMiss BY <1>1, <1>4, LookupMissStatements
<1>5. CASE Store BY <1>1, <1>5, StoreStatements
<1>6. CASE Bind BY <1>1, <1>6, BindStatements
<1>7. CASE Parse \/ RunSimple BY <1>1, <1>7, WrittenKeep, KeepsStatements
<1>8. ASSUME \/ DropStep \/ AbortStep \/ PassStep \/ EndStep
             \/ CopyStep \/ GoneStep \/ NoteStep \/ CloseStep
             \/ \E g : FlushStep(g)
             \/ \E g : ReplyStep(g) /\ Top.step # "parse_complete"
             \/ \E m, r : Served(m, r) /\ stmts' = stmts
      PROVE  StatementInv'
  <2>1. Keeps BY <1>1, <1>8, ChannelKeeps
  <2> QED BY <1>1, <2>1, KeepsStatements
<1>9. CASE Flush \/ FlushError \/ Cancel \/ RecvEof \/ RecvError \/ Drain \/ Expect \/ Stream
  <2>1. CASE DropStep \/ AbortStep \/ PassStep \/ EndStep \/ \E g : FlushStep(g)
    BY <1>8, <2>1, Zenon
  <2>2. CASE \E g : ReplyStep(g)
    <3>1. PICK g : ReplyStep(g) BY <2>2
    <3>2. CASE Top.step = "parse_complete" BY <1>1, <3>1, <3>2, ParsedStatements
    <3>3. CASE Top.step # "parse_complete" BY <1>8, <3>1, <3>3, Zenon
    <3> QED BY <3>2, <3>3
  <2> QED BY <1>1, <1>9, <2>1, <2>2, ReadSteps, Zenon
<1>10. CASE Serve \/ ServeCopyIn \/ ServeTerminate \/ Crash \/ Notify \/ Close
  <2>1. CASE CopyStep \/ GoneStep \/ NoteStep \/ CloseStep BY <1>8, <2>1, Zenon
  <2>2. CASE \E m, r : Served(m, r)
    <3>1. PICK m, r : Served(m, r) BY <2>2
    <3>2. CASE stmts' = stmts BY <1>8, <3>1, <3>2, Zenon
    <3>3. CASE stmts' # stmts BY <1>1, <3>1, <3>3, ServedStatements
    <3> QED BY <3>2, <3>3
  <2> QED BY <1>1, <1>10, <2>1, <2>2, OtherSteps, Zenon
<1> QED BY <1>2, <1>3, <1>4, <1>5, <1>6, <1>7, <1>9, <1>10, Zenon
        DEF Next, ClientPoll, ServerStep, Choice, Claims, Starts

\* A fresh connection.
LEMMA InitInv ==
  ASSUME Init PROVE PgInv /\ TokenInv /\ TornInv
<1>1. /\ frames = <<>> /\ wbuf = <<>> /\ sent = <<>> /\ inbox = <<>> /\ cache = <<>>
      /\ pending_ready_for_query_count = 0 /\ ~ skipping /\ ~ copying /\ ~ torn
      /\ Phase = "idle"
  BY DEF Init, Phase
<1>2. BasicInv
  <2>1. None \in Id /\ 1 % IdSpace \in Id BY PgAssumption DEF None, Id
  <2>2. ids \in [Key -> Id] /\ next_statement_id \in Id BY <2>1 DEF Init
  <2>3. /\ frames \in Seq(FrameRec) /\ wbuf \in Seq(Msg) /\ sent \in Seq(Msg)
        /\ inbox \in Seq(Reply) /\ cache \in Seq(Key) /\ DOMAIN frames = {} /\ Len(frames) = 0
    BY <1>1
  <2>4. FrameInv BY <2>3 DEF FrameInv
  <2> QED BY <2>2, <2>3, <2>4, Zenon DEF Init, BasicInv, TypeInv
<1>3. ChannelInv
  BY <1>1, NoMessages DEF ChannelInv, Calm, ReadySteps, BusySteps, FlushSteps, ReplySteps
<1>4. OwnInv /\ DueInv
  BY <1>1 DEF OwnInv, DueInv, Owes, BusySteps, FlushSteps, ReplySteps
<1>5. StatementInv
  BY <1>1 DEF StatementInv, CacheKnown, FramesKnown, ParsedKnown, Buffered, BindsKnown,
              ClosesApart, Keys
<1>6. TokenInv /\ TornInv BY <1>1 DEF TokenInv, TornInv
<1> QED BY <1>2, <1>3, <1>4, <1>5, <1>6 DEF PgInv

\* A step preserves the invariant.
LEMMA NextInv ==
  ASSUME PgInv, [Next]_vars PROVE PgInv'
<1>1. CASE Next
  <2>1. BasicInv' /\ Effect BY <1>1, NextEffect
  <2>2. ChannelInv' /\ OwnInv' /\ DueInv'
    BY <2>1, ChannelPreserved, OwnPreserved, DuePreserved DEF PgInv
  <2>3. StatementInv' BY <1>1, <2>1, <2>2, StatementPreserved
  <2> QED BY <2>1, <2>2, <2>3 DEF PgInv
<1>2. CASE UNCHANGED vars
  <2>1. /\ UNCHANGED <<frames, calls, result, wbuf, sent, inbox, pending_ready_for_query_count,
                       cache, ids, next_statement_id, closed, stmts, skipping, copying, open,
                       torn>>
        /\ Phase' = Phase /\ Top' = Top
    BY <1>2, Zenon DEF vars, conn, statements, server, Phase, Top
  <2>2. BasicInv' BY <2>1, Zenon DEF PgInv, BasicInv, TypeInv, FrameInv
  <2>3. ChannelInv' BY <2>1, Zenon DEF PgInv, ChannelInv, Calm, Has, Only, Last
  <2>4. OwnInv' BY <2>1, Zenon DEF PgInv, OwnInv, Own, Has
  <2>5. DueInv' BY <2>1, Zenon DEF PgInv, DueInv, Due, Has
  <2>6. StatementInv'
    <3>1. FramesKeep /\ Buffered' = Buffered BY <2>1, Zenon DEF FramesKeep, Buffered
    <3>2. Keeps BY <2>1, <3>1, Zenon DEF Keeps, statements, Has
    <3> QED BY <3>2, KeepsStatements DEF PgInv
  <2> QED BY <2>2, <2>3, <2>4, <2>5, <2>6 DEF PgInv
<1> QED BY <1>1, <1>2

-----------------------------------------------------------------------------
(* The theorems. *)

\* The inductive invariant holds in every reachable state.
THEOREM Invariance == Spec => []PgInv
<1>1. Init => PgInv BY InitInv
<1>2. PgInv /\ [Next]_vars => PgInv' BY NextInv
<1> QED BY <1>1, <1>2, PTL DEF Spec

\* An operation reads only the replies to its own messages, and
\* notifications, whatever earlier operations left unread.
THEOREM RepliesAreOwn == Spec => []OwnReplies
<1>1. PgInv => OwnReplies
  <2> SUFFICES ASSUME PgInv, ReadsReply
               PROVE  \A i \in DOMAIN inbox :
                         inbox[i].kind = "NotificationResponse" \/ inbox[i].call = Top.call
    BY Zenon DEF OwnReplies
  <2>1. Phase \in ReplySteps BY DEF ReadsReply, Phase, ReplySteps
  <2> QED BY <2>1, Zenon DEF PgInv, OwnInv, Note
<1> QED BY <1>1, Invariance, PTL

\* Every cached statement, and every statement a Bind under way names, is a
\* statement of the server with that query: also after identifiers have
\* wrapped around and the Close of an evicted statement was abandoned.
THEOREM CacheInStep == Spec => []StatementsKnown
<1>1. PgInv => StatementsKnown
  BY DEF PgInv, StatementInv, CacheKnown, BindsKnown, Buffered, StatementsKnown, Keys
<1> QED BY <1>1, Invariance, PTL

\* After an operation that was read to its end nothing is pending, unread or
\* unsent.
THEOREM OkLeavesNothing == Spec => []OkMeansReady
<1>1. PgInv => OkMeansReady
  BY DEF PgInv, ChannelInv, Calm, Only, Bye, Note, OkMeansReady
<1> QED BY <1>1, Invariance, PTL

INSTANCE FiniteSetTheorems

\* Of messages that are the last of their kind there is at most one.
LEMMA CountLast ==
  ASSUME NEW S, NEW s \in Seq(S), NEW K, NEW A, K \cap A = {}, Last(s, K, A)
  PROVE  /\ Has(s, K) => Cardinality({i \in DOMAIN s : s[i].kind \in K}) = 1
         /\ ~ Has(s, K) => Cardinality({i \in DOMAIN s : s[i].kind \in K}) = 0
<1>1. CASE Has(s, K)
  <2>1. PICK i \in DOMAIN s : s[i].kind \in K BY <1>1 DEF Has
  <2>2. \A k \in DOMAIN s : s[k].kind \in K => k = i
    <3> SUFFICES ASSUME NEW k \in DOMAIN s, s[k].kind \in K, k # i PROVE FALSE OBVIOUS
    <3>1. i < k \/ k < i OBVIOUS
    <3> QED BY <2>1, <3>1 DEF Last
  <2>3. {k \in DOMAIN s : s[k].kind \in K} = {i} BY <2>1, <2>2
  <2> QED BY <1>1, <2>3, FS_Singleton, Zenon
<1>2. CASE ~ Has(s, K)
  <2>1. {i \in DOMAIN s : s[i].kind \in K} = {} BY <1>2 DEF Has
  <2> QED BY <1>2, <2>1, FS_EmptySet, Zenon
<1> QED BY <1>1, <1>2

\* While the connection is open, pending_ready_for_query_count is exactly the
\* number of Sync and Query messages under way and ReadyForQuery messages
\* unread, whichever operations failed or were dropped at any await; and one
\* more once a flush was dropped before its Sync was written.
THEOREM CountIsExact == Spec => []ReadyAccounting
<1> DEFINE Inv == PgInv /\ TokenInv /\ TornInv
<1>1. Init => Inv BY InitInv
<1>2. Inv /\ [Next]_vars => Inv'
  <2> SUFFICES ASSUME PgInv, TokenInv, TornInv, [Next]_vars PROVE PgInv' /\ TokenInv' /\ TornInv'
    OBVIOUS
  <2>1. CASE Next
    <3>1. Effect BY <2>1, NextEffect
    <3> QED BY <3>1, TokenPreserved, TornPreserved, NextInv, Zenon DEF PgInv
  <2>2. CASE UNCHANGED vars
    <3>1. TokenInv' BY <2>2 DEF TokenInv, vars, conn, server, Has
    <3>2. TornInv' BY <2>2 DEF TornInv, vars, conn, server, Has
    <3> QED BY <3>1, <3>2, NextInv
  <2> QED BY <2>1, <2>2
<1>3. Inv => ReadyAccounting
  <2> SUFFICES ASSUME PgInv, TokenInv, TornInv, open, ~ closed
               PROVE  pending_ready_for_query_count =
                        CountIf(wbuf, IsSync) + CountIf(sent, IsSync)
                        + CountIf(inbox, LAMBDA m : m.kind = "ReadyForQuery")
                        + (IF copying THEN 1 ELSE 0) + (IF torn THEN 1 ELSE 0)
    BY DEF ReadyAccounting
  <2>t. /\ wbuf \in Seq(Msg) /\ sent \in Seq(Msg) /\ inbox \in Seq(Reply)
        /\ copying \in BOOLEAN /\ torn \in BOOLEAN
    BY DEF PgInv, BasicInv, TypeInv
  <2>c. ChannelInv /\ OwnInv BY DEF PgInv
  <2>1. CountIf(wbuf, IsSync) = IF Has(wbuf, Syncs) THEN 1 ELSE 0
    <3>1. Syncs \cap {} = {} /\ Last(wbuf, Syncs, {}) BY <2>c DEF ChannelInv
    <3>2. {i \in DOMAIN wbuf : IsSync(wbuf[i])} = {i \in DOMAIN wbuf : wbuf[i].kind \in Syncs}
      BY Zenon DEF IsSync, Syncs
    <3> QED BY <2>t, <3>1, <3>2, CountLast DEF CountIf
  <2>2. CountIf(sent, IsSync) = IF Has(sent, Syncs) THEN 1 ELSE 0
    <3>1. Syncs \cap Bye = {} /\ Last(sent, Syncs, Bye) BY <2>c DEF ChannelInv, Syncs, Bye
    <3>2. {i \in DOMAIN sent : IsSync(sent[i])} = {i \in DOMAIN sent : sent[i].kind \in Syncs}
      BY DEF IsSync, Syncs
    <3> QED BY <2>t, <3>1, <3>2, CountLast DEF CountIf
  <2>3. CountIf(inbox, LAMBDA m : m.kind = "ReadyForQuery") = IF Has(inbox, RFQ) THEN 1 ELSE 0
    <3>1. RFQ \cap Note = {} /\ Last(inbox, RFQ, Note) BY <2>c DEF ChannelInv, RFQ, Note
    <3>2. {i \in DOMAIN inbox : inbox[i].kind = "ReadyForQuery"} = {i \in DOMAIN inbox : inbox[i].kind \in RFQ}
      BY DEF RFQ
    <3> QED BY <2>t, <3>1, <3>2, CountLast DEF CountIf
  <2>4. CASE pending_ready_for_query_count = 0
    <3>1. wbuf = <<>> /\ Calm BY <2>4, <2>c DEF ChannelInv
    <3>2. ~ Has(wbuf, Syncs) /\ ~ Has(sent, Syncs) /\ ~ Has(inbox, RFQ) /\ ~ copying
      BY <3>1, NoMessages, Apart DEF Calm
    <3>3. ~ torn BY <2>4 DEF TornInv
    <3> QED BY <2>1, <2>2, <2>3, <2>4, <3>2, <3>3
  <2>5. CASE pending_ready_for_query_count = 1
    <3>1. wbuf # <<>> \/ Has(sent, Syncs) \/ Has(inbox, RFQ) \/ copying \/ torn
      BY <2>5 DEF TokenInv
    <3>2. wbuf # <<>> => /\ Has(wbuf, Syncs)
                         /\ ~ Has(sent, Syncs) /\ ~ Has(inbox, RFQ) /\ ~ copying
      BY <2>c, Apart, Zenon DEF ChannelInv, OwnInv, Calm
    <3>3. wbuf = <<>> => ~ Has(wbuf, Syncs) BY NoMessages
    <3>4. /\ Has(sent, Syncs) => ~ Has(inbox, RFQ) /\ ~ copying
          /\ Has(inbox, RFQ) => ~ copying
      BY <2>c DEF ChannelInv
    <3>5. torn => wbuf = <<>> /\ ~ Has(sent, Syncs) /\ ~ Has(inbox, RFQ) /\ ~ copying
      BY DEF TornInv
    <3> QED BY <2>1, <2>2, <2>3, <2>5, <3>1, <3>2, <3>3, <3>4, <3>5
  <2> QED BY <2>4, <2>5, <2>c DEF ChannelInv
<1> QED BY <1>1, <1>2, <1>3, PTL DEF Spec
=============================================================================
