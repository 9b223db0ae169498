------------------------------- MODULE PgRows -------------------------------
(***************************************************************************)
(* Calls of get_rows on one PostgreSQL connection, with one SQL text: the  *)
(* statement is prepared for the types of the arguments unless the cache   *)
(* has it, the arguments are encoded and bound, the messages that come     *)
(* back are taken one by one, and the row is read with Row::get, in any    *)
(* order. Nothing else uses the connection (see PgConnection for that).    *)
(*                                                                         *)
(* The query returns its parameters, then job.cols of the server's own.    *)
(* Where job.via is set a TIMESTAMP parameter is returned as TIMESTAMPTZ.  *)
(***************************************************************************)
EXTENDS PgMessages

\* establish.rs: the offset as a POSIX time zone, sign, hours and minutes
format_timezone_offset(sec) ==
    LET abs == IF sec < 0 THEN -sec ELSE sec
    IN  [sign |-> IF sec < 0 THEN "+" ELSE "-", h |-> abs \div 3600, m |-> (abs % 3600) \div 60]

-----------------------------------------------------------------------------
(***************************************************************************)
(* External: the server.  It checks the length of a parameter, keeps it,   *)
(* and sends its own columns in the format asked for.                      *)
(***************************************************************************)
ServerZone(z) == (IF z.sign = "+" THEN -1 ELSE 1) * (z.h * 3600 + z.m * 60)

Width == [Bool |-> 1, Char |-> 1, Int2 |-> 2, Int4 |-> 4, Oid |-> 4, Float4 |-> 4, Date |-> 4,
          Int8 |-> 8, Float8 |-> 8, Time |-> 8, Timestamp |-> 8, Timestamptz |-> 8,
          Money |-> 8, Timetz |-> 12, Uuid |-> 16]

Accepts(t, cell) ==
    \/ cell = <<>>
    \/ /\ t.n \notin {"Void", "Record"}
       /\ t.n \in DOMAIN Width => Len(cell[1]) = Width[t.n]
       /\ t.n = "Json" => from_str(cell[1]) # Err
       /\ t.n = "Jsonb" => Len(cell[1]) > 0 /\ cell[1][1] = 1 /\ from_str(Tail(cell[1])) # Err

\* A parameter declared as unknown takes the type its place calls for.
Resolve(t) == IF t = T["Unknown"] THEN T["Text"] ELSE t

Returned(t) == IF job.via /\ t = T["Timestamp"] THEN T["Timestamptz"] ELSE t

Return(t, cell) ==
    IF Returned(t) = t \/ cell = <<>> THEN cell
    ELSE <<Be(8, Small(cell[1]) - 1000000 * ServerZone(format_timezone_offset(job.tz)))>>

HexChar(n) == IF n < 10 THEN 48 + n ELSE 87 + n

SendText(n, v) ==
    CASE n = "Bool" -> <<IF v.b = <<1>> THEN 116 ELSE 102>>
      [] n = "Bytea" -> <<92, 120>> \o FoldLeft(LAMBDA s, x : s \o <<HexChar(x \div 16), HexChar(x % 16)>>,
                                                 <<>>, v.b)
      [] n \in {"Json", "Jsonb"} -> IF v = Null THEN JsonNull ELSE JsonText(v)
      [] n = "Hstore" -> <<34, v.b[1], 34, 61, 62, 34, v.b[4], 34>>
      [] n \in StringTypes \cup RawTags \cup {"Tsvector", "Tsquery", "Custom", "Void"} -> v.b
      [] OTHER -> Printed(v.b)

SendBinary(n, v) ==
    CASE n \in {"Json", "Jsonb"} -> (IF n = "Jsonb" THEN <<1>> ELSE <<>>) \o SendText(n, v)
      [] n = "Int2" -> Low(2, v.b)
      [] n = "Date" -> Be(4, v.b[1])
      [] n = "Time" -> Be(8, v.b[1] * 1000000 + v.b[2])
      [] n \in {"Timestamp", "Timestamptz"} -> Be(8, v.b[1] * 1000)
      [] n = "Timetz" -> Be(8, v.b[1] * 1000000 + v.b[2]) \o Be(4, v.b[3])
      [] n = "Numeric" -> EncodeNumeric(FromDecimal(v.b))
      [] n = "Hstore" -> Be(4, 1) \o Be(4, 1) \o <<v.b[1]>> \o Be(4, 1) \o <<v.b[4]>>
      [] n \in {"Tsvector", "Tsquery"} -> Be(4, 1) \o v.b
      [] OTHER -> v.b

Cell(fmt, n, v) == IF v = Null THEN <<>>
                   ELSE <<IF fmt = "Binary" THEN SendBinary(n, v) ELSE SendText(n, v)>>

Wire(cell) == IF cell = <<>> THEN Be(4, -1) ELSE Be(4, Len(cell[1])) \o cell[1]

Wires(cells) == FoldLeft(LAMBDA s, c : s \o Wire(c), <<>>, cells)

\* An element of an array in text, in quotes where it has to be.
Quoted(s, delimiter) ==
    IF s # <<>> /\ s # <<78, 85, 76, 76>>
       /\ \A i \in DOMAIN s : s[i] \notin {34, 92, 123, 125, 32, delimiter}
    THEN s
    ELSE <<34>> \o FoldLeft(LAMBDA q, c : q \o (IF c \in {34, 92} THEN <<92, c>> ELSE <<c>>),
                            <<>>, s) \o <<34>>

\* A list v of elements of type n; v.b = <<lower>> is a first index other
\* than one.
SendArray(fmt, n, v) ==
    LET delimiter == IF n = "Box" THEN 59 ELSE 44
        one(x) == IF x = Null THEN <<78, 85, 76, 76>> ELSE Quoted(SendText(n, x), delimiter)
        joined == FoldLeft(LAMBDA s, x : (IF s = <<>> THEN s ELSE Append(s, delimiter)) \o one(x),
                           <<>>, v.e)
        lower == IF v.b = <<>> THEN 1 ELSE v.b[1]
        bounds == IF v.b = <<>> THEN <<>> ELSE <<91, 48 + lower, 58, 57, 93, 61>>
    IN  IF fmt = "Text" THEN bounds \o <<123>> \o joined \o <<125>>
        ELSE IF v.e = <<>> THEN Be(4, 0) \o Be(4, 0) \o Be(4, T[n].oid)
        ELSE Be(4, 1) \o Be(4, 0) \o Be(4, T[n].oid) \o Be(4, Len(v.e)) \o Be(4, lower)
             \o Wires([i \in DOMAIN v.e |-> Cell("Binary", n, v.e[i])])

ColumnCell(fmt, c) ==
    IF c.array THEN <<SendArray(fmt, c.n, c.v)>> ELSE Cell(fmt, c.n, c.v)

ColumnOid(c) == CASE c.n = "Custom" -> c.oid
                  [] c.n # "Custom" /\ c.array -> ArrayOf[c.n].oid
                  [] OTHER -> T[c.n].oid

Sql == <<63>>
Declared(args) == [i \in DOMAIN args |-> type_info(args[i])]

\* The messages in what the driver has written, the letter and the body of each.
RECURSIVE Frames(_)
Frames(buf) ==
    IF Len(buf) < 5 THEN <<>>
    ELSE LET size == Small(Piece(buf, 2, 4)) - 4
         IN  <<[letter |-> buf[1], body |-> Piece(buf, 6, size)]>>
             \o Frames(SubSeq(buf, 6 + size, Len(buf)))

Sends(letter, body) == <<letter>> \o Be(4, Len(body) + 4) \o body

\* A column of the reply: its name, and where the server has it from.
Column(i, oid) ==
    put_str_nul(IF job.dup THEN <<120>> ELSE <<96 + i>>) \o Be(4, 0) \o Be(2, 0)
    \o Be(4, oid) \o Be(2, -1) \o Be(4, -1) \o Be(2, 0)

Columns(types) ==
    LET oids == types \o [i \in DOMAIN job.cols |-> ColumnOid(job.cols[i])]
        all == [i \in DOMAIN oids |-> Column(i, oids[i])]
    IN  Sends(84, Be(2, Len(all)) \o FoldLeft(LAMBDA r, c : r \o c, <<>>, all))

Ready == Sends(90, <<73>>)
Refuses == Sends(69, <<0>>) \o Ready

\* Parse, Describe and Sync, for one statement by one name.
AnswersPrepare(written) ==
    LET f == Frames(written)
        body == f[1].body
        oids == [i \in 1..U2(body, 12) |-> Small(Piece(body, 10 + 4 * i, 4))]
        known == [i \in DOMAIN oids |-> Resolve(try_from_oid(oids[i]))]
    IN  IF /\ [i \in DOMAIN f |-> f[i].letter] = <<80, 68, 83>>
           /\ f[2].body = <<83>> \o SubSeq(body, 1, 9)
           /\ SubSeq(body, 10, 11) = put_str_nul(Sql)
        THEN Sends(49, <<>>)
             \o Sends(116, Be(2, Len(known)) \o Words(4, [i \in DOMAIN known |-> known[i].oid]))
             \o Columns([i \in DOMAIN known |-> Returned(known[i]).oid]) \o Ready
        ELSE Refuses

\* The row: the parameters, then the server's own columns.
Row(fmt, cells) ==
    LET all == cells \o [i \in DOMAIN job.cols |-> ColumnCell(fmt, job.cols[i])]
    IN  Sends(68, Be(2, Len(all)) \o Wires(all))

\* "INSERT 0 12" of a statement with RETURNING, and "SELECT 1"
Inserted == Sends(67, <<73, 78, 83, 69, 82, 84, 32, 48, 32, 49, 50, 0>>)
SelectedOne == Sends(67, <<83, 69, 76, 69, 67, 84, 32, 49, 0>>)

\* Bind, Execute and Sync for a statement with parameters of types, or Query.
AnswersExecute(written, types) ==
    LET f == Frames(written)
        body == f[1].body
        params == Cells(SubSeq(body, 17, Len(body)), Len(types))
    IN  CASE [i \in DOMAIN f |-> f[i].letter] = <<81>> ->
                Columns(<<>>) \o Row("Text", <<>>) \o SelectedOne \o Ready
          [] /\ [i \in DOMAIN f |-> f[i].letter] = <<66, 69, 83>>
             /\ SubSeq(body, 1, 14) = <<0>> \o put_statement_name(1) \o <<0, 1, 0, 1>>
             /\ SubSeq(body, Len(body) - 3, Len(body)) = <<0, 1, 0, 1>>
             /\ U2(body, 15) = Len(types)
             /\ \A i \in DOMAIN types : Accepts(types[i], params[i]) ->
                Sends(50, <<>>)
                \o Row("Binary", [i \in DOMAIN types |-> Return(types[i], params[i])])
                \o Inserted \o Ready
          [] OTHER -> Refuses

-----------------------------------------------------------------------------
Args == job.calls[mem.call]

\* No arguments: a simple query, in the text format
Format == IF Args = <<>> THEN "Text" ELSE "Binary"

PgStart == [call |-> 1, types |-> <<>>, parameters |-> <<>>, metadata |-> <<>>, custom |-> <<>>,
            a |-> NoArguments, wire |-> <<>>, columns |-> <<>>, storage |-> <<>>, affected |-> 0,
            got |-> <<>>]

\* prepare, up to the flush
WritesPrepare(args) ==
    Parse(1, Sql, [i \in DOMAIN args |-> try_oid(type_info(args[i]))])
    \o DescribeStatement(1) \o Sync

\* get_rows and exec, prepare_with and get_or_prepare: the statement cache knows
\* SQL texts only
PgPrepare ==
    /\ at = "pg prepare"
    /\ at' = CASE Args = <<>> -> "pg execute"
               [] Args # <<>> /\ mem.types # <<>> -> "pg add"
               [] OTHER -> "pg describe"
    /\ mem' = [mem EXCEPT
           !.types = IF @ = <<>> THEN Declared(Args) ELSE @,
           !.wire = IF at' = "pg describe" THEN AnswersPrepare(WritesPrepare(Args)) ELSE <<>>,
           !.a = NoArguments, !.columns = <<>>, !.storage = <<>>, !.affected = 0, !.got = <<>>]
    /\ UNCHANGED job

\* handle_row_description: the columns with their types
WithTypes(fields, cache) ==
    [i \in DOMAIN fields |->
        [name |-> fields[i].name,
         type |-> maybe_fetch_type_info_by_oid(fields[i].data_type_id, cache)]]

\* recv_desc_params, recv_desc_rows, and the types that have to be asked for
PgDescribe ==
    /\ at = "pg describe"
    /\ LET parsed == recv_unchecked(mem.wire)
           params == recv_unchecked(parsed.rest)
           rows == recv_unchecked(params.rest)
           oids == ParameterDescription(params.contents)
           fields == RowDescription(rows.contents)
           cache == FoldLeft(LAMBDA c, o : Known(o, c), mem.custom,
                             oids \o [i \in DOMAIN fields |-> fields[i].data_type_id])
       IN  IF /\ parsed.format = "ParseComplete" /\ params.format = "ParameterDescription"
              /\ rows.format = "RowDescription"
              /\ recv_unchecked(rows.rest).format = "ReadyForQuery"
           THEN /\ at' = "pg add"
                /\ mem' = [mem EXCEPT
                       !.parameters =
                           [i \in DOMAIN oids |-> maybe_fetch_type_info_by_oid(oids[i], cache)],
                       !.custom = cache, !.metadata = WithTypes(fields, cache), !.wire = <<>>]
           ELSE at' = "pg refused" /\ UNCHANGED mem
    /\ UNCHANGED job

\* PgArguments::from_args, one argument
PgAdd ==
    /\ at = "pg add"
    /\ LET v == Args[Len(mem.a.types) + 1]
       IN  \E x \in Encode(v, job.tz) :
             CASE x.st = "err" -> at' = "pg err" /\ UNCHANGED mem
               [] x.st = "panic" -> at' = "pg panic" /\ UNCHANGED mem
               [] x.st \in {"No", "Yes", "patch"} ->
                     /\ mem' = [mem EXCEPT !.a = Add(@, v, x)]
                     /\ at' = IF Len(mem'.a.types) = Len(Args) THEN "pg execute" ELSE at
    /\ UNCHANGED job

\* run: apply_patches, and the messages up to the flush; the server's answer
PgExecute ==
    /\ at = "pg execute"
    /\ at' = "pg recv"
    /\ LET written ==
               IF Args = <<>> THEN Query(Sql)
               ELSE Bind(1, <<1>>, Len(mem.a.types), apply_patches(mem.a, mem.parameters), <<1>>)
                    \o ExecuteMessage(0) \o Sync
       IN  mem' = [mem EXCEPT !.wire = AnswersExecute(written, mem.parameters),
                              !.columns = IF Args = <<>> THEN <<>> ELSE mem.metadata]
    /\ UNCHANGED job

\* The loop of run, one message of it; get_rows collects the rows and exec sums
\* the rows affected until it ends
PgRecv ==
    /\ at = "pg recv"
    /\ LET m == recv_unchecked(mem.wire)
           next == [mem EXCEPT !.wire = m.rest]
       IN  /\ at' = CASE m.format = "ReadyForQuery" -> "pg get"
                      [] m.format \in {"BindComplete", "RowDescription", "DataRow",
                                       "CommandComplete"} -> at
                      [] OTHER -> "pg refused"
           /\ mem' = CASE m.format = "RowDescription" ->
                             [next EXCEPT !.columns = WithTypes(RowDescription(m.contents),
                                                                mem.custom)]
                       [] m.format = "DataRow" -> [next EXCEPT !.storage = DataRow(m.contents)]
                       [] m.format = "CommandComplete" ->
                             [next EXCEPT !.affected = @ + rows_affected(m.contents)]
                       [] OTHER -> next
    /\ UNCHANGED job

ColumnTypes == [i \in DOMAIN mem.columns |-> mem.columns[i].type]

\* column_names is a map: a name that occurs twice counts once
ColumnNames == Cardinality({mem.columns[i].name : i \in DOMAIN mem.columns})

\* DataRow::take: what was taken reads as NULL afterwards
take(storage, i) == [storage EXCEPT ![i] = <<>>]

\* PgRow::get and try_take
PgGet ==
    /\ at = "pg get"
    /\ Len(mem.got) < MaxGets
    /\ \E i \in 1..(Len(ColumnTypes) + 1) :
         IF i > ColumnNames THEN mem' = [mem EXCEPT !.got = Append(@, <<i, Err>>)]
         ELSE \E v \in Decode(ColumnTypes[i], Format, mem.storage[i]) :
                mem' = [mem EXCEPT !.got = Append(@, <<i, v>>), !.storage = take(@, i)]
    /\ UNCHANGED <<job, at>>

\* The next call with the same SQL
PgAgain ==
    /\ at \in {"pg get", "pg err", "pg refused"}
    /\ mem.call < Len(job.calls)
    /\ at' = "pg prepare"
    /\ mem' = [mem EXCEPT !.call = @ + 1]
    /\ UNCHANGED job

\* What the application does and what the driver does with it
PgNext ==
    PgPrepare \/ PgDescribe \/ PgAdd \/ PgExecute \/ PgRecv \/ PgGet \/ PgAgain
-----------------------------------------------------------------------------
\* The value a parameter comes back as.
Echo(v) ==
    LET cast(tag, k) == Ext(tag, k, v.b)
        tz == job.tz
        dropped == IF tz < 0 THEN -((-tz) % 60) ELSE tz % 60
    IN  CASE v.tag = "" /\ v.k \in {"U32", "U64"} -> V(IF v.k = "U32" THEN "I32" ELSE "I64", v.b)
          [] v.tag \in {"Decimal", "Numeric"} ->
                Ext("Decimal", "String", IF v.b = <<>> THEN <<0, 0, 0>> ELSE v.b)
          [] v.tag = "DateTime" /\ job.via -> Ext("DateTime", "String", <<v.b[1] + 1000 * dropped>>)
          [] v.tag = "DateTime" /\ ~job.via -> Ext("Timestamp", "I64", <<v.b[1] + 1000 * tz>>)
          [] v.tag = "Timestamp" /\ job.via ->
                Ext("DateTime", "String", <<v.b[1] - 1000 * (tz - dropped)>>)
          [] v.tag = "Timestamptz" -> cast("DateTime", "String")
          [] v.tag = "Bytea" -> cast("", "Binary")
          [] v.tag \in StringTypes \cup {"Unknown", "Custom", "DeclareWithName", "DeclareWithOid"} ->
                cast("", "String")
          [] v.tag \in {"Json", "Jsonb"} -> IF v.b = <<>> THEN Null ELSE from_str(v.b)
          [] v.tag = "Timetz" -> cast("Timez", "Map")
          [] v.tag = "Float4" -> V("F32", AsF32[v.b])
          [] v.tag = "Float8" -> cast("", "F64")
          [] v.tag = "Oid" -> Ext("Oid", "U32", Low(4, v.b))
          [] v.tag = "Bool" \/ v.tag \notin SameName \cup {"", "DateTime"} -> Null
          [] OTHER -> v

\* Encoded to a length the server refuses, to no encoding at all, parsed from a
\* text that is none, or a decimal beyond the scale or the weight of a NUMERIC.
Unsendable(v) ==
    \/ v.tag \in {"Int8", "Int4", "Int2", "Time", "Void", "Record",
                   "Point", "Hstore", "TsVector", "TsQuery"}
    \/ v.tag \in {"Uuid", "Date", "DateTime", "Timestamptz"} /\ v.b = <<>>
    \/ v.tag \in {"Decimal", "Numeric"} /\ v.b # <<>>
         /\ (v.b[2] > 32767 \/ Len(v.b) - 2 - v.b[2] \notin -131071..131072)

SameNumber(v, w) ==
    IF v.tag = "Decimal" /\ w.tag = "Decimal" THEN Number(v.b) = Number(w.b) ELSE v = w

SameValue(v, w) ==
    IF v.k = "Array" /\ w.k = "Array"
    THEN Len(v.e) = Len(w.e) /\ \A i \in DOMAIN v.e : SameNumber(v.e[i], w.e[i])
    ELSE SameNumber(v, w)

\* Moved by the offset of the session: encoded in local time, read as UTC.
Moved(v) == v.tag = "Timestamptz" /\ job.tz # 0

\* Values the driver says it cannot read, and values it reads as others.
Holds(c, P(_)) == IF c.array THEN \E i \in DOMAIN c.v.e : P(c.v.e[i]) ELSE P(c.v)

Unreadable(c) ==
    \/ Holds(c, LAMBDA v : v # Null /\ (c.n = "Point" \/ (Format = "Text" /\ c.n \in {"Money", "Timetz"})))
    \/ c.array /\ c.v.b # <<>> /\ Format = "Binary"

Distorted(c) ==
    \/ Holds(c, LAMBDA v : \/ Format = "Binary" /\ c.n \in {"Tsvector", "Tsquery"}
                           \/ c.n = "Hstore"
                           \/ Format = "Binary" /\ c.n = "Date" /\ v # Null
                                /\ v.b[1] \notin -24855..24855)
    \/ c.array /\ Format = "Text"
       /\ (c.v.b # <<>> \/ Holds(c, LAMBDA v : v.b = <<78, 85, 76, 76>>))

\* User-defined types are known by name only after a statement was prepared.
ColumnValue(c) ==
    IF c.n = "Custom" /\ ColumnOid(c) \notin DOMAIN mem.custom
    THEN Ext("DeclareWithOid", "Binary", c.v.b) ELSE c.v

\* The j-th get is the first one of its column.
FirstGet(j) ==
    mem.got[j][1] <= ColumnNames /\ \A k \in 1..(j - 1) : mem.got[k][1] # mem.got[j][1]

\* What an application puts into a PostgreSQL parameter, or finds in a column,
\* is what Row::get gives, whatever the other arguments of the call, their
\* patches and NULLs, the order of the gets and the calls before, if the
\* statement was prepared for these types.  Unsigned numbers come back signed,
\* unknown Ext tags as NULL, a Decimal that is no number as 0, a DateTime in
\* local time or off by the seconds of its offset; Unsendable arguments and
\* Unreadable columns are refused.
\* Nothing is said of a Timestamptz in a session away from UTC (Moved), of
\* hstore, tsvector and tsquery columns, of far dates, and of arrays in text
\* with bounds or an element spelled NULL (Distorted).  A second get of a
\* column gives NULL, and the rows affected are what the command tag says.
PgRoundTrip ==
    at \in {"pg get", "pg err", "pg panic", "pg refused"} /\ Declared(Args) \in {<<>>, mem.types} =>
        /\ at # "pg get" => \E i \in DOMAIN Args : Unsendable(Args[i])
        /\ at = "pg get" => mem.affected = IF Args = <<>> THEN 1 ELSE 12
        /\ \A j \in DOMAIN mem.got :
             LET i == mem.got[j][1]
                 w == mem.got[j][2]
                 c == job.cols[i - Len(Args)]
             IN  CASE i > ColumnNames -> w = Err
                   [] i <= ColumnNames /\ ~FirstGet(j) -> w = Null
                   [] i <= Len(Args) /\ FirstGet(j) -> Moved(Args[i]) \/ SameValue(w, Echo(Args[i]))
                   [] OTHER -> \/ Distorted(c)
                               \/ IF Unreadable(c) THEN w = Err ELSE SameValue(w, ColumnValue(c))

-----------------------------------------------------------------------------
(***************************************************************************)
(* Refuted.                                                                *)
(***************************************************************************)
\* Whatever the types the statement was prepared for.  The cache looks a
\* statement up by its SQL, so an F64 bound to a statement that was prepared
\* for an I64 is read as an integer.
PgAnyTypes ==
    at = "pg get" =>
        \A j \in DOMAIN mem.got :
            LET i == mem.got[j][1]
            IN  i <= Len(Args) /\ FirstGet(j) /\ ~Moved(Args[i])
                    => SameValue(mem.got[j][2], Echo(Args[i]))

\* A Timestamptz comes back as it was, in every session; a DateTime is
\* encoded the same way, and read as the Timestamp it is declared as.
TimestamptzKept ==
    at = "pg get" =>
        \A j \in DOMAIN mem.got :
            LET i == mem.got[j][1]
            IN  i <= Len(Args) /\ FirstGet(j) /\ Args[i].tag = "Timestamptz"
                    => SameValue(mem.got[j][2], Echo(Args[i]))

\* hstore.rs: "This implementation supports both TEXT and BINARY formats"; but
\* it reads the length of the value before the key, where the layout it
\* gives has it behind the key.
HstoreReads ==
    at = "pg get" =>
        \A j \in DOMAIN mem.got :
            LET i == mem.got[j][1]
            IN  i > Len(Args) /\ FirstGet(j) /\ job.cols[i - Len(Args)].n = "Hstore"
                    => SameValue(mem.got[j][2], job.cols[i - Len(Args)].v)
=============================================================================
