----------------------------- MODULE PgMessages -----------------------------
(***************************************************************************)
(* The messages of the extended and the simple query, byte by byte: what   *)
(* the driver writes (message/, io/buf_mut.rs) and how it reads what comes *)
(* back (PgStream::recv_unchecked and the decoders of message/).           *)
(***************************************************************************)
EXTENDS PgDecode

put_length_prefixed(body) == Be(4, Len(body) + 4) \o body

put_str_nul(s) == Append(s, 0)

\* rbdc_s_ and the identifier, of one digit here
put_statement_name(id) == <<114, 98, 100, 99, 95, 115, 95, 48 + id, 0>>

\* The unnamed portal, the only one in use
put_portal_name == <<0>>

Frame(letter, body) == <<letter>> \o put_length_prefixed(body)

Words(w, numbers) == FoldLeft(LAMBDA s, n : s \o Be(w, n), <<>>, numbers)

Parse(statement, query, param_types) ==
    Frame(80, put_statement_name(statement) \o put_str_nul(query)
              \o Be(2, Len(param_types)) \o Words(4, param_types))

DescribeStatement(statement) == Frame(68, <<83>> \o put_statement_name(statement))

Bind(statement, formats, num_params, params, result_formats) ==
    Frame(66, put_portal_name \o put_statement_name(statement)
              \o Be(2, Len(formats)) \o Words(2, formats)
              \o Be(2, num_params) \o params
              \o Be(2, Len(result_formats)) \o Words(2, result_formats))

ExecuteMessage(limit) == Frame(69, put_portal_name \o Be(4, limit))

Sync == <<83>> \o Be(4, 4)

Query(sql) == <<81>> \o Be(4, 4 + Len(sql) + 1) \o put_str_nul(sql)

-----------------------------------------------------------------------------
MessageFormat == [
    ParseComplete |-> 49, BindComplete |-> 50, CloseComplete |-> 51, CommandComplete |-> 67,
    CopyData |-> 100, CopyDone |-> 99, CopyInResponse |-> 71, CopyOutResponse |-> 72,
    DataRow |-> 68, ErrorResponse |-> 69, EmptyQueryResponse |-> 73,
    NotificationResponse |-> 65, BackendKeyData |-> 75, NoticeResponse |-> 78,
    Authentication |-> 82, ParameterStatus |-> 83, RowDescription |-> 84,
    ReadyForQuery |-> 90, NoData |-> 110, PortalSuspended |-> 115, ParameterDescription |-> 116]

try_from_u8(v) ==
    IF \E f \in DOMAIN MessageFormat : MessageFormat[f] = v
    THEN CHOOSE f \in DOMAIN MessageFormat : MessageFormat[f] = v ELSE "unknown"

\* The header of five bytes, then as many as it says
recv_unchecked(buf) ==
    LET size == Small(Piece(buf, 2, 4)) - 4
    IN  [format |-> try_from_u8(buf[1]), contents |-> Piece(buf, 6, size),
         rest |-> SubSeq(buf, 6 + size, Len(buf))]

U2(buf, from) == buf[from] * 256 + buf[from + 1]

ParameterDescription(contents) ==
    [i \in 1..U2(contents, 1) |-> Small(Piece(contents, 4 * i - 1, 4))]

\* The length of a nul-terminated string
NulAt(buf, from) ==
    CHOOSE n \in 0..(Len(buf) - from) :
        buf[from + n] = 0 /\ \A k \in 0..(n - 1) : buf[from + k] # 0

\* A field is its name and, after six bytes, the identifier of its type; eight
\* more end it.
RECURSIVE Fields(_, _, _)
Fields(buf, from, n) ==
    LET len == NulAt(buf, from)
        oid == from + len + 7
    IN  IF n = 0 THEN <<>>
        ELSE <<[name |-> Piece(buf, from, len), data_type_id |-> Small(Piece(buf, oid, 4))]>>
             \o Fields(buf, oid + 12, n - 1)

RowDescription(contents) == Fields(contents, 3, U2(contents, 1))

DataRow(contents) == Cells(SubSeq(contents, 3, Len(contents)), U2(contents, 1))

\* CommandComplete::rows_affected: the digits behind the last space
rows_affected(tag) ==
    LET spaces == {i \in DOMAIN tag : tag[i] = 32}
        start == CHOOSE i \in spaces : \A j \in spaces : j <= i
        digits == {j \in (start + 1)..Len(tag) : \A k \in (start + 1)..j : tag[k] \in 48..57}
    IN  IF spaces = {} THEN 0
        ELSE FoldLeft(LAMBDA n, c : 10 * n + c - 48, 0, Piece(tag, start + 1, Cardinality(digits)))
=============================================================================
