----------------------------- MODULE MySqlRows ------------------------------
(***************************************************************************)
(* Calls of get_rows on a MySQL connection: the arguments of a prepared    *)
(* statement, its packets, and the row that comes back, binary or text     *)
(* (protocol/statement/row.rs, protocol/text/row.rs), read with Row::get.  *)
(*                                                                         *)
(* The query returns its parameters, then job.cols of the server's own.    *)
(***************************************************************************)
EXTENDS MySqlValues

Lenenc == {"String", "VarChar", "VarString", "Enum", "Set", "LongBlob", "MediumBlob", "Blob",
           "TinyBlob", "Geometry", "Bit", "Decimal", "Json", "NewDecimal"}

Temporal == {"Time", "Timestamp", "Date", "Datetime"}

FixedSize == [LongLong |-> 8, Long |-> 4, Int24 |-> 4, Short |-> 2, Year |-> 2, Tiny |-> 1,
              Float |-> 4, Double |-> 8]

-----------------------------------------------------------------------------
(***************************************************************************)
(* Rows to cells.  A decoded row is a sequence of cells or an error.       *)
(***************************************************************************)
NotARow == [ok |-> FALSE, cells |-> <<>>]

\* The column's bytes at a place of the buffer: where they start, how many
Extent(t, buf, p) ==
    IF t \in Lenenc THEN LET n == get_uint_lenenc(buf, p) IN <<p + n[2], n[1]>>
    ELSE <<p, IF t \in Temporal THEN buf[p] + 1 ELSE FixedSize[t]>>

IsNullAt(bitmap, i) == (bitmap[(i \div 8) + 1] \div 2^(i % 8)) % 2 = 1

\* BinaryRow::decode_with
BinaryRow(buf, types) ==
    LET null_bitmap_len == (Len(types) + 9) \div 8
        null_bitmap == Piece(buf, 2, null_bitmap_len)
        Step(a, t) ==
            LET e == Extent(t, buf, a.p)
            IN  CASE ~a.ok -> a
                  [] a.ok /\ IsNullAt(null_bitmap, Len(a.cells) + 2) ->
                        [a EXCEPT !.cells = Append(@, <<>>)]
                  [] a.ok /\ ~IsNullAt(null_bitmap, Len(a.cells) + 2) /\ Has(buf, e[1], e[2]) ->
                        [a EXCEPT !.cells = Append(@, <<Piece(buf, e[1], e[2])>>), !.p = e[1] + e[2]]
                  [] OTHER -> [a EXCEPT !.ok = FALSE]
        end == FoldLeft(Step, [ok |-> TRUE, p |-> 2 + null_bitmap_len, cells |-> <<>>], types)
    IN  IF buf[1] # 0 \/ ~end.ok THEN NotARow ELSE [ok |-> TRUE, cells |-> end.cells]

\* TextRow::decode_with
TextRow(buf, types) ==
    LET Step(a, t) ==
            LET n == get_uint_lenenc(buf, a.p)
            IN  CASE ~a.ok -> a
                  [] a.ok /\ buf[a.p] = 251 -> [a EXCEPT !.cells = Append(@, <<>>), !.p = @ + 1]
                  [] a.ok /\ buf[a.p] # 251 /\ Has(buf, a.p + n[2], n[1]) ->
                        [a EXCEPT !.cells = Append(@, <<Piece(buf, a.p + n[2], n[1])>>),
                                  !.p = @ + n[2] + n[1]]
                  [] OTHER -> [a EXCEPT !.ok = FALSE]
        end == FoldLeft(Step, [ok |-> TRUE, p |-> 1, cells |-> <<>>], types)
    IN  [ok |-> end.ok, cells |-> end.cells]

-----------------------------------------------------------------------------
(***************************************************************************)
(* Decode for Value (types/value.rs, types/decode.rs).                     *)
(***************************************************************************)
Zeros(n) == [i \in 1..n |-> 0]

\* int_decode: a text that is no i64 counts as 0
int_decode(fmt, b) ==
    CASE fmt = "Binary" -> SignExtend(8, Reverse(b))
      [] fmt = "Text" /\ IsPrinted(b) /\ Len(b) <= 8 -> SignExtend(8, FromText(b))
      [] OTHER -> Zeros(8)

FloatBytes(w, fmt, b) ==
    CASE fmt = "Binary" -> Reverse(b)
      [] fmt = "Text" /\ IsPrinted(b) -> FromText(b)
      [] OTHER -> Zeros(w)

decode_date_buf(b) == IF b = <<>> THEN <<0, 0, 0>> ELSE <<LeNumber(b, 1, 2), b[3], b[4]>>

\* decode_time_buf and decode_time: what follows the date, or in a TIME the
\* first five bytes
decode_time_buf(b) == <<b[1], b[2], b[3], IF Len(b) >= 7 THEN LeNumber(b, 4, 4) ELSE 0>>

AfterFive(b) == IF b[1] > 4 THEN decode_time_buf(SubSeq(b, 6, Len(b))) ELSE <<0, 0, 0, 0>>

DateAndTime(b) == decode_date_buf(Tail(b)) \o AfterFive(b)

\* What a Timestamp keeps of a number read as the digits of a fraction: six of
\* them, then the milliseconds.
Fraction(n) == LET cut == {x \in {n \div 10^k : k \in 0..4} : x < 1000000}
               IN  1000 * ((CHOOSE x \in cut : \A y \in cut : y <= x) \div 1000)

\* fastdate::DateTime::from_str, which knows no month 0
decode_timestamp(fmt, b) ==
    LET f == IF fmt = "Text" THEN FromText(b) ELSE DateAndTime(b)
    IN  IF f[2] = 0 THEN {Err} ELSE {Ext("Timestamp", "U64", [f EXCEPT ![7] = Fraction(@)])}

\* The text of a YEAR is the number; in binary two bytes are read after the
\* first
decode_year(fmt, b) ==
    CASE fmt = "Text" -> {Ext("Year", "String", FromText(b))}
      [] fmt = "Binary" /\ Len(b) < 3 -> {Panic}
      [] OTHER -> {Ext("Year", "String", <<LeNumber(b, 2, 2)>>)}

Signed32 == {"Tiny", "Short", "Int24"}

\* as_str().unwrap_or(default)
as_str(b, default) == IF IsUtf8(b) THEN b ELSE default

DecodeMy(t, fmt, b, off) ==
    LET text(binary) == IF fmt = "Text" THEN FromText(b) ELSE binary
    IN  CASE t \in Signed32 -> {V("I32", Low(4, int_decode(fmt, b)))}
          [] t \in {"Long", "LongLong"} -> {V("I64", int_decode(fmt, b))}
          [] t = "Float" -> {V("F32", FloatBytes(4, fmt, b))}
          [] t = "Double" -> {V("F64", FloatBytes(8, fmt, b))}
          [] t = "Null" -> {Null}
          [] t = "Bit" -> {V("U64", Fill(8, 0, b))}
          [] t \in {"VarChar", "VarString", "String"} -> {V("String", as_str(b, <<>>))}
          [] t \in {"TinyBlob", "MediumBlob", "LongBlob", "Blob"} -> {V("Binary", b)}
          [] t = "Timestamp" -> decode_timestamp(fmt, b)
          [] t \in {"Decimal", "NewDecimal"} -> {Ext("Decimal", "String", as_str(b, <<48>>))}
          [] t = "Date" -> {Ext("Date", "String", text(decode_date_buf(Tail(b))))}
          [] t = "Time" -> {Ext("Time", "String", text(AfterFive(b)))}
          [] t = "Datetime" -> {Ext("DateTime", "String", Append(text(DateAndTime(b)), off))}
          [] t = "Year" -> decode_year(fmt, b)
          [] t = "Json" -> {from_str(as_str(b, JsonNull))}
          [] t \in {"Enum", "Set"} -> {Ext(t, "String", as_str(b, <<>>))}
          [] t = "Geometry" -> {Ext("Geometry", "Binary", b)}
-----------------------------------------------------------------------------
(***************************************************************************)
(* External: the server.  It reads the arguments by their declared types,  *)
(* ignores what is left over, and sends a row.                             *)
(***************************************************************************)
ServerLenenc(n) ==
    CASE n < 251 -> <<n>>
      [] n \in 251..65535 -> <<252, n % 256, n \div 256>>
      [] OTHER -> <<253, n % 256, (n \div 256) % 256, n \div 65536>>

TemporalSizes == [Date |-> {0, 4}, Time |-> {0, 8, 12}, Timestamp |-> {0, 4, 7, 11},
                  Datetime |-> {0, 4, 7, 11}]

\* How the value of a parameter is written: <<start, length>> of its content.
ParamExtent(t, buf, p) ==
    CASE p > Len(buf) -> <<p, 1>>
      [] p <= Len(buf) /\ t \in Temporal -> <<p, buf[p] + 1>>
      [] p <= Len(buf) /\ t \in DOMAIN FixedSize \ {"Year"} -> <<p, FixedSize[t]>>
      [] p <= Len(buf) /\ t \in Lenenc \cup {"Year"} /\ buf[p] < 251 -> <<p + 1, buf[p]>>
      [] p <= Len(buf) /\ t \in Lenenc \cup {"Year"} /\ buf[p] = 252 -> <<p + 3, LeNumber(buf, p + 1, 2)>>
      [] OTHER -> <<p + 4, LeNumber(buf, p + 1, 3)>>

\* The cells of the parameters, or an error where the packet ends too soon.
ServerParams(payload, n) ==
    LET bitmap_len == (n + 7) \div 8
        types == [i \in 1..n |-> try_from_u16(payload[10 + bitmap_len + 2 * i])]
        Step(a, t) ==
            LET e == ParamExtent(t, payload, a.p)
            IN  CASE ~a.ok -> a
                  [] a.ok /\ IsNullAt(SubSeq(payload, 11, 10 + bitmap_len), Len(a.cells)) ->
                        [a EXCEPT !.cells = Append(@, <<>>)]
                  [] a.ok /\ ~IsNullAt(SubSeq(payload, 11, 10 + bitmap_len), Len(a.cells))
                     /\ Has(payload, e[1], e[2])
                     /\ t \in Temporal => payload[a.p] \in TemporalSizes[t] ->
                        [a EXCEPT !.cells = Append(@, <<Piece(payload, e[1], e[2])>>), !.p = e[1] + e[2]]
                  [] OTHER -> [a EXCEPT !.ok = FALSE]
    IN  FoldLeft(Step, [ok |-> TRUE, p |-> 12 + bitmap_len + 2 * n, cells |-> <<>>], types)

\* The type a parameter is returned with, and its bytes: an empty time of day
\* is left out.
ReturnedType(t) == IF t \in {"VarChar", "Enum", "Set", "Year", "Null"} THEN "VarString" ELSE t

Compact(t, cell) ==
    IF cell = <<>> \/ t \notin Temporal THEN cell
    ELSE LET b == cell[1]
             whole == \A i \in 6..Len(b) : b[i] = 0
         IN  CASE t = "Time" /\ (\A i \in 2..Len(b) : b[i] = 0) -> <<<<0>>>>
               [] t # "Time" /\ Len(b) > 5 /\ whole -> <<<<4>> \o SubSeq(b, 2, 5)>>
               [] OTHER -> cell

SendBits(cells) ==
    [k \in 1..((Len(cells) + 9) \div 8) |->
        FoldLeft(LAMBDA x, i : x + (IF cells[i] = <<>> /\ (i + 1) \div 8 = k - 1
                                    THEN 2^((i + 1) % 8) ELSE 0),
                 0, [i \in DOMAIN cells |-> i])]

SendBinaryRow(types, cells) ==
    <<0>> \o SendBits(cells)
    \o FoldLeft(LAMBDA s, i : CASE cells[i] = <<>> -> s
                                [] cells[i] # <<>> /\ types[i] \in Lenenc ->
                                      s \o ServerLenenc(Len(cells[i][1])) \o cells[i][1]
                                [] OTHER -> s \o cells[i][1],
                <<>>, [i \in DOMAIN cells |-> i])

SendTextRow(cells) ==
    FoldLeft(LAMBDA s, c : IF c = <<>> THEN Append(s, 251)
                           ELSE s \o ServerLenenc(Len(c[1])) \o c[1], <<>>, cells)

\* One of the server's own columns: type c.t, value c.v as the driver should
\* give it.
MyCellBinary(c) ==
    CASE c.t \in DOMAIN FixedSize \ {"Year"} -> Reverse(Low(FixedSize[c.t], c.v.b))
      [] c.t = "Year" -> Le(2, c.v.b[1])
      [] c.t = "Date" -> IF c.v.b = <<0, 0, 0>> THEN <<0>> ELSE <<4>> \o MyDate(c.v.b)
      [] c.t = "Time" -> IF c.v.b = <<0, 0, 0, 0>> THEN <<0>> ELSE EncodeMyTime(c.v.b)
      [] c.t \in {"Timestamp", "Datetime"} -> EncodeMyDateTime(c.v.b)
      [] c.t = "Bit" -> Low(2, c.v.b)
      [] c.t = "Json" -> JsonText(c.v)
      [] OTHER -> c.v.b

MyCellText(c) ==
    CASE c.t \in DOMAIN FixedSize \cup {"Date", "Time", "Timestamp"} -> Printed(c.v.b)
      [] c.t = "Datetime" -> Printed(SubSeq(c.v.b, 1, 7))
      [] OTHER -> MyCellBinary(c)

MyCell(fmt, c) == IF c.v = Null THEN <<>>
                  ELSE <<IF fmt = "Binary" THEN MyCellBinary(c) ELSE MyCellText(c)>>

-----------------------------------------------------------------------------
\* job.max is the longest packet body, 0xFFFFFF in the code.
MyFormat == IF job.args = <<>> THEN "Text" ELSE "Binary"

MyStart == [a |-> NoMyArguments, reply |-> <<>>, next |-> 0, cells |-> <<>>, got |-> <<>>]

\* MySqlArguments::from_args, one argument
MyAdd ==
    /\ at = "my add"
    /\ Len(mem.a.types) < Len(job.args)
    /\ LET v == job.args[Len(mem.a.types) + 1]
       IN  \E x \in EncodeMy(v) :
             IF x.st = "err" THEN at' = "my err" /\ UNCHANGED mem
             ELSE at' = at /\ mem' = [mem EXCEPT !.a = AddMy(@, v, x)]
    /\ UNCHANGED job

\* send_packet of COM_STMT_EXECUTE (or COM_QUERY), the server's answer
MyExecute ==
    /\ at = "my add"
    /\ Len(mem.a.types) = Len(job.args)
    /\ LET sent == Packets(IF job.args = <<>> THEN <<3>> ELSE ExecutePayload(mem.a, 1), 0, job.max)
           in_order == \A i \in DOMAIN sent : sent[i].seq = (i - 1) % 256
           read == ServerParams(recv_packet(sent, job.max).payload, Len(job.args))
           types == [i \in DOMAIN job.args |-> ReturnedType(mem.a.types[i])]
                    \o [i \in DOMAIN job.cols |-> job.cols[i].t]
           params == IF job.args = <<>> THEN <<>>
                     ELSE [i \in DOMAIN read.cells |-> Compact(types[i], read.cells[i])]
           cells == params \o [i \in DOMAIN job.cols |-> MyCell(MyFormat, job.cols[i])]
           row == IF MyFormat = "Text" THEN SendTextRow(cells) ELSE SendBinaryRow(types, cells)
       IN  IF in_order /\ (job.args # <<>> => read.ok)
           THEN /\ at' = "my row"
                /\ mem' = [mem EXCEPT !.reply = Packets(row, Len(sent), job.max)]
           ELSE at' = "my refused" /\ UNCHANGED mem
    /\ UNCHANGED job

\* The type of a column, by the code in its definition
MyColumnTypes ==
    [i \in DOMAIN job.args |-> try_from_u16(ColumnType[ReturnedType(mem.a.types[i])])]
    \o [i \in DOMAIN job.cols |-> try_from_u16(ColumnType[job.cols[i].t])]

\* recv_packet, and the row of it
MyRow ==
    /\ at = "my row"
    /\ LET packet == recv_packet(mem.reply, job.max)
           row == IF MyFormat = "Text" THEN TextRow(packet.payload, MyColumnTypes)
                  ELSE BinaryRow(packet.payload, MyColumnTypes)
       IN  /\ at' = IF row.ok THEN "my get" ELSE "my err"
           /\ mem' = [mem EXCEPT !.cells = row.cells, !.next = packet.sequence_id]
    /\ UNCHANGED job

\* MySqlRow::get and try_take: a column that does not exist is an index out
\* of bounds
MyGet ==
    /\ at = "my get"
    /\ Len(mem.got) < MaxGets
    /\ \E i \in job.read :
         IF i > Len(mem.cells) THEN mem' = [mem EXCEPT !.got = Append(@, <<i, Panic>>)]
         ELSE \E v \in IF mem.cells[i] = <<>> THEN {Null}
                       ELSE DecodeMy(MyColumnTypes[i], MyFormat, mem.cells[i][1], job.off) :
                mem' = [mem EXCEPT !.got = Append(@, <<i, v>>), !.cells[i] = <<>>]
    /\ UNCHANGED <<job, at>>

MyNext == MyAdd \/ MyExecute \/ MyRow \/ MyGet

-----------------------------------------------------------------------------
\* The value a parameter comes back as.
MyEcho(v) ==
    CASE v.tag = "" /\ v.k = "Bool" -> V("I32", SignExtend(4, v.b))
      [] v.tag = "" /\ v.k \in {"I32", "U32", "I64", "U64"} -> V("I64", SignExtend(8, v.b))
      [] v.tag \in {"Uuid", "Enum", "Set"} -> V("String", v.b)
      [] v.tag = "Decimal" /\ v.b = <<>> -> Ext("Decimal", "String", <<48>>)
      [] v.tag = "Timestamp" -> Ext("Timestamp", "U64", DateOf(v.b))
      [] v.tag = "DateTime" -> [v EXCEPT !.b[8] = job.off]
      [] v.tag = "Json" -> from_str(JsonOrNull(v.b))
      [] v.tag \notin DOMAIN MyTagType \cup {""} -> Null
      [] OTHER -> v

\* All of it, but of a Timestamp only the day.
KeptOf(v, w) == IF v.tag = "Timestamp" THEN [w EXCEPT !.b = DateOf(@)] ELSE w

\* Arguments that are not as long as their first byte, or their null bit, says:
\* what follows them is read from the wrong place.
Misframed(v) == v.tag = "Timestamp" \/ v.tag \notin DOMAIN MyTagType \cup {""}

\* A TIME is read from its last day byte on, a YEAR past its end (and as an
\* argument comes back as the two bytes of its number), an unsigned number as a
\* signed one, bytes that are no UTF-8 as an empty string, a zero date as one.
Lossy(v) == v.tag \in {"Time", "Year"}

MyDistorted(c) ==
    \/ MyFormat = "Binary" /\ c.t \in {"Time", "Year"}
    \/ c.unsigned
    \/ c.t \in {"VarChar", "VarString", "String"} /\ ~IsUtf8(c.v.b)
    \/ c.t = "Date" /\ c.v.b = <<0, 0, 0>>

\* What an application puts into a MySQL parameter, or finds in a column, is
\* what Row::get gives, for any number of arguments and NULLs in the bitmaps,
\* packets of any number of pieces and gets in any order: provided no Timestamp
\* and no Ext of an unknown tag comes before it.  Integers come back as 64-bit
\* ones, unsigned ones as signed ones, a Timestamp without its time of day, a
\* DateTime with the offset of the connection, an empty Decimal as 0.  Nothing
\* is said of Time and Year arguments (Lossy), nor of TIME and YEAR columns in
\* binary, unsigned columns, zero dates, and string columns (VARBINARY) whose
\* bytes are no UTF-8 (MyDistorted).
MyRoundTrip ==
    /\ at = "my refused" => \E i \in DOMAIN job.args : Misframed(job.args[i])
    /\ at = "my err" => \E i \in DOMAIN job.args : job.args[i].b = <<>> \/ Misframed(job.args[i])
    /\ at = "my get" =>
        /\ mem.next = (Len(Packets(ExecutePayload(mem.a, 1), 0, job.max)) + Len(mem.reply)) % 256
              \/ MyFormat = "Text"
        /\ \A j \in DOMAIN mem.got :
             LET i == mem.got[j][1]
                 w == mem.got[j][2]
                 n == Len(job.args)
                 c == job.cols[i - n]
             IN  CASE i > Len(mem.cells) -> w = Panic
                   [] i <= Len(mem.cells) /\ (\E k \in 1..(j - 1) : mem.got[k][1] = i) -> w = Null
                   [] i <= n -> \/ Lossy(job.args[i])
                                \/ \E k \in 1..(i - 1) : Misframed(job.args[k])
                                \/ KeptOf(job.args[i], w) = MyEcho(job.args[i])
                   [] OTHER -> MyDistorted(c) \/ w = c.v

-----------------------------------------------------------------------------
(***************************************************************************)
(* Refuted.                                                                *)
(***************************************************************************)
\* The first gets of the columns that are C: <<column, value>>.
MyReads(C(_)) ==
    LET n == Len(job.args)
    IN  {<<job.cols[mem.got[j][1] - n], mem.got[j][2]>> : j \in
            {j \in DOMAIN mem.got :
                /\ mem.got[j][1] - n \in DOMAIN job.cols
                /\ C(job.cols[mem.got[j][1] - n])
                /\ \A k \in 1..(j - 1) : mem.got[k][1] # mem.got[j][1]}}

\* value.rs: "zero dates and date times should be treated the same as NULL";
\* nothing asks is_null of a value.
ZeroDateIsNull ==
    at = "my get" =>
        \A r \in MyReads(LAMBDA c : c.t = "Date" /\ c.v.b = <<0, 0, 0>>) : r[2] = Null

\* The bytes of a VARBINARY column; as_str fails on them, and the string that
\* comes back is empty.
BinaryKept == at = "my get" => \A r \in MyReads(LAMBDA c : c.t = "VarString") : r[2] = r[1].v
=============================================================================
