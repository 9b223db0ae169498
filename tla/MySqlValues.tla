---------------------------- MODULE MySqlValues -----------------------------
(***************************************************************************)
(* Values through the MySQL driver: length-encoded integers (io/), column  *)
(* types (protocol/text/column.rs), the encoding of arguments (types/),    *)
(* the statement's argument list with its null bitmap (stmt.rs), the       *)
(* COM_STMT_EXECUTE payload and packets.                                   *)
(*                                                                         *)
(* The content of a Date is <<year, month, day>>, of a Time <<hour,        *)
(* minute, second, microsecond>>; a Timestamp and a DateTime have both,    *)
(* the latter its offset from UTC last.                                    *)
(***************************************************************************)
EXTENDS Values, SequencesExt

\* to_le_bytes
Le(w, n) == Reverse(Be(w, n))

\* put_uint_lenenc
put_uint_lenenc(n) ==
    CASE n < 251 -> <<n>>
      [] n \in 251..65535 -> <<252>> \o Le(2, n)
      [] n \in 65536..16777215 -> <<253>> \o Le(3, n)
      [] OTHER -> <<254>> \o Le(8, n)

put_bytes_lenenc(b) == put_uint_lenenc(Len(b)) \o b

\* The little-endian number in some bytes of a buffer.
LeNumber(buf, from, n) == Small(<<0>> \o Reverse(Piece(buf, from, n)))

\* get_uint_lenenc: the number and how many bytes it took
get_uint_lenenc(buf, from) ==
    LET Wide(n) == <<LeNumber(buf, from + 1, n), n + 1>>
    IN  CASE buf[from] = 252 -> Wide(2)
          [] buf[from] = 253 -> Wide(3)
          [] buf[from] = 254 -> Wide(8)
          [] OTHER -> <<buf[from], 1>>

-----------------------------------------------------------------------------
\* ColumnType with its code, and try_from_u16
ColumnType == [
    Decimal |-> 0, Tiny |-> 1, Short |-> 2, Long |-> 3, Float |-> 4, Double |-> 5, Null |-> 6,
    Timestamp |-> 7, LongLong |-> 8, Int24 |-> 9, Date |-> 10, Time |-> 11, Datetime |-> 12,
    Year |-> 13, VarChar |-> 15, Bit |-> 16, Json |-> 245, NewDecimal |-> 246, Enum |-> 247,
    Set |-> 248, TinyBlob |-> 249, MediumBlob |-> 250, LongBlob |-> 251, Blob |-> 252,
    VarString |-> 253, String |-> 254, Geometry |-> 255]

try_from_u16(id) ==
    IF \E t \in DOMAIN ColumnType : ColumnType[t] = id
    THEN CHOOSE t \in DOMAIN ColumnType : ColumnType[t] = id ELSE "unknown"

MyKindType == [
    Null |-> "Null", Bool |-> "Tiny", I32 |-> "Long", I64 |-> "LongLong", U32 |-> "Long",
    U64 |-> "LongLong", F32 |-> "Float", F64 |-> "Double", String |-> "VarChar",
    Binary |-> "Blob", Array |-> "Json", Map |-> "Json"]

MyTagType == [
    Uuid |-> "VarChar", Decimal |-> "NewDecimal", Year |-> "Year", Date |-> "Date",
    Time |-> "Time", Timestamp |-> "Timestamp", DateTime |-> "Datetime", Json |-> "Json",
    Enum |-> "Enum", Set |-> "Set"]

\* TypeInfo for Value
my_type_info(v) ==
    CASE v.tag = "" -> MyKindType[v.k]
      [] v.tag \in DOMAIN MyTagType -> MyTagType[v.tag]
      [] OTHER -> "Null"

-----------------------------------------------------------------------------
MyDate(d) == Le(2, d[1]) \o <<d[2], d[3]>>

\* encode_time: hour, minute, second, and the microseconds if there are any
MyTime(t) == <<t[1], t[2], t[3]>> \o (IF t[4] = 0 THEN <<>> ELSE Le(4, t[4]))

NoSignNoDays == <<0, 0, 0, 0, 0>>

EncodeMyTime(t) == LET body == NoSignNoDays \o MyTime(t) IN <<Len(body)>> \o body

date_time_size_hint(t) ==
    CASE t = <<0, 0, 0, 0>> -> 4
      [] t # <<0, 0, 0, 0>> /\ t[4] = 0 -> 7
      [] OTHER -> 11

DateOf(b) == SubSeq(b, 1, 3)
TimeOf(b) == SubSeq(b, 4, 7)

\* DateTime: its date and time as they are written, without the offset
EncodeMyDateTime(b) ==
    LET size == date_time_size_hint(TimeOf(b))
    IN  <<size>> \o MyDate(DateOf(b)) \o (IF size > 4 THEN MyTime(TimeOf(b)) ELSE <<>>)

\* Timestamp: the encoding of a TIME follows the date, its first byte removed
EncodeMyTimestamp(b) ==
    <<date_time_size_hint(TimeOf(b))>> \o MyDate(DateOf(b)) \o Tail(EncodeMyTime(TimeOf(b)))

JsonOrNull(b) == IF b = <<>> THEN JsonNull ELSE b

\* Encode for Value
EncodeMy(v) ==
    LET parses(b) == IF v.b = <<>> THEN {Enc("err", <<>>)} ELSE Bytes(b)
    IN  CASE v.tag = "Year" -> Bytes(<<2>> \o Reverse(Low(2, v.b)))
          [] v.tag = "Date" -> parses(<<4>> \o MyDate(v.b))
          [] v.tag = "Time" -> parses(EncodeMyTime(v.b))
          [] v.tag = "DateTime" -> parses(EncodeMyDateTime(v.b))
          [] v.tag = "Timestamp" -> Bytes(EncodeMyTimestamp(v.b))
          [] v.tag = "Decimal" -> Bytes(put_bytes_lenenc(IF v.b = <<>> THEN <<48>> ELSE v.b))
          [] v.tag = "Json" -> Bytes(put_bytes_lenenc(JsonOrNull(v.b)))
          [] v.tag \notin {"", "Year", "Date", "Time", "DateTime", "Timestamp", "Decimal", "Json"} ->
                Bytes(put_bytes_lenenc(v.b))
          [] v.tag = "" /\ v.k = "Null" -> Bytes(<<>>)
          [] v.tag = "" /\ v.k \in {"String", "Binary"} -> Bytes(put_bytes_lenenc(v.b))
          [] v.tag = "" /\ v.k \in {"Array", "Map"} -> Bytes(put_bytes_lenenc(JsonText(v)))
          [] OTHER -> Bytes(Reverse(v.b))

-----------------------------------------------------------------------------
NoMyArguments == [values |-> <<>>, types |-> <<>>, null_bitmap |-> <<>>]

\* MySqlArguments::add
AddMy(a, v, x) ==
    LET index == Len(a.types)
        ty == my_type_info(v)
        bitmap == IF Len(a.null_bitmap) = (index \div 8) + 1 THEN a.null_bitmap
                  ELSE Append(a.null_bitmap, 0)
        bit == IF ty = "Null" THEN 2^(index % 8) ELSE 0
    IN  [values |-> a.values \o x.b,
         types |-> Append(a.types, ty),
         null_bitmap |-> [bitmap EXCEPT ![(index \div 8) + 1] = @ + bit]]

\* Execute::encode_with: command, statement, flags, iterations, then the
\* bitmap, the types each with an unsigned flag of 0, the values
ExecutePayload(a, statement_id) ==
    <<23>> \o Le(4, statement_id) \o <<0>> \o Le(4, 1) \o a.null_bitmap \o <<1>>
    \o FoldLeft(LAMBDA s, ty : s \o <<ColumnType[ty], 0>>, <<>>, a.types) \o a.values

\* A mutant: the sequence number does not go up between the pieces.
Packets_SameNumber(payload, seq, max) ==
    [i \in 1..((Len(payload) \div max) + 1) |->
        [seq |-> seq % 256,
         body |-> SubSeq(payload, max * (i - 1) + 1,
                         IF max * i < Len(payload) THEN max * i ELSE Len(payload))]]

\* Packet::encode_with: pieces of max bytes, the last one shorter, numbered
\* from a sequence number on
Packets(payload, seq, max) ==
    [i \in 1..((Len(payload) \div max) + 1) |->
        [seq |-> (seq + i - 1) % 256,
         body |-> SubSeq(payload, max * (i - 1) + 1,
                         IF max * i < Len(payload) THEN max * i ELSE Len(payload))]]

\* recv_packet: pieces are joined until one is shorter than max; the sequence
\* number after the last
recv_packet(packets, max) ==
    LET last == CHOOSE i \in DOMAIN packets :
                    /\ Len(packets[i].body) < max
                    /\ \A j \in 1..(i - 1) : Len(packets[j].body) >= max
        size == max * (last - 1) + Len(packets[last].body)
    IN  [payload |-> [i \in 1..size |-> packets[((i - 1) \div max) + 1].body[((i - 1) % max) + 1]],
         sequence_id |-> (packets[last].seq + 1) % 256]
=============================================================================
