------------------------------ MODULE PgDecode ------------------------------
(***************************************************************************)
(* Decode for Value of the PostgreSQL driver: a cell of a row, in the      *)
(* binary format (extended query) or the text format (simple query), to    *)
(* the set of values it may become.  A cell is <<>> (NULL) or <<bytes>>.   *)
(***************************************************************************)
EXTENDS PgValues

\* What `binary` and `text` give, the text parsed.
ByFormat(fmt, b, k, tag, binary) ==
    IF fmt = "Binary" THEN binary
    ELSE IF IsPrinted(b) THEN {Ext(tag, k, FromText(b))} ELSE {Err}

\* int.rs: a wider number is cut to w bytes, one of another length refused;
\* read_i64 takes the first eight bytes
Integer(w, b) == IF Len(b) \in {2, 4, 8} /\ Len(b) >= w THEN Low(w, b) ELSE <<>>

WholeNumber(k, w, b) ==
    CASE w = 8 -> {IF Len(b) < 8 THEN Panic ELSE V(k, Piece(b, 1, 8))}
      [] w # 8 -> {IF Integer(w, b) = <<>> THEN Err ELSE V(k, Integer(w, b))}

\* The microseconds since 2000-01-01, to milliseconds rounded down
Millis(b) == Small(b) \div 1000

\* date.rs: days * 24 * 3600 in 32 bits
DecodeDate(b) ==
    LET days == Small(b)
    IN  IF days \in -24855..24855 THEN {Ext("Date", "String", <<days>>)} ELSE Overflow

\* decode_json
decode_json(t, fmt, b) ==
    LET versioned == fmt = "Binary" /\ eq(t, T["Jsonb"])
    IN  CASE b = <<>> -> {Null}
          [] b # <<>> /\ versioned /\ b[1] # 1 -> {Panic}
          [] OTHER -> {from_str(IF versioned THEN Tail(b) ELSE b)}

HexDigit == [c \in 48..57 \cup 97..102 |-> IF c < 58 THEN c - 48 ELSE c - 87]

\* Vec<u8>: the text is \x and two digits for each byte
DecodeBytea(fmt, b) ==
    CASE fmt = "Binary" -> {V("Binary", b)}
      [] fmt = "Text" /\ Piece(b, 1, 2) = <<92, 120>> ->
            {V("Binary", [i \in 1..((Len(b) - 2) \div 2) |->
                             HexDigit[b[2 * i + 1]] * 16 + HexDigit[b[2 * i + 2]]])}
      [] OTHER -> {Err}

DecodeBool(fmt, b) ==
    CASE fmt = "Binary" -> {V("Bool", <<IF b[1] = 0 THEN 0 ELSE 1>>)}
      [] fmt = "Text" /\ b \in {<<116>>, <<102>>} -> {V("Bool", <<IF b = <<116>> THEN 1 ELSE 0>>)}
      [] OTHER -> {Err}

\* hstore.rs: both lengths are read before the key
RECURSIVE HstorePairs(_, _)
HstorePairs(buf, count) ==
    LET key_len == Small(Piece(buf, 1, 4))
        val_len == Small(Piece(buf, 5, 4))
        value_at == 9 + key_len
        took == IF val_len < 0 THEN 0 ELSE val_len
    IN  CASE count = 0 -> <<>>
          [] count > 0 /\ (Len(buf) < 8 \/ ~Has(buf, 9, key_len)
                           \/ (val_len >= 0 /\ ~Has(buf, value_at, val_len))) -> <<Err>>
          [] OTHER -> <<Piece(buf, 9, key_len) \o <<61, 62>>
                        \o (IF val_len < 0 THEN JsonNull ELSE Piece(buf, value_at, val_len))>>
                      \o HstorePairs(SubSeq(buf, value_at + took, Len(buf)), count - 1)

\* The pieces of a text between two commas.
SplitCommas(s) ==
    FoldLeft(LAMBDA out, c : IF c = 44 THEN Append(out, <<>>)
                             ELSE Append(Front(out), Append(Last(out), c)), <<<<>>>>, s)

DecodeHstore(fmt, b) ==
    LET pairs == IF fmt = "Binary" THEN HstorePairs(SubSeq(b, 5, Len(b)), Small(Piece(b, 1, 4)))
                 ELSE SelectSeq(SplitCommas(b), LAMBDA p : p # <<>>)
        broken == \E i \in DOMAIN pairs :
                     \/ pairs[i] = Err
                     \/ ~\E j \in 1..(Len(pairs[i]) - 1) : Piece(pairs[i], j, 2) = <<61, 62>>
        text == FoldLeft(LAMBDA s, p : s \o (IF s = <<>> THEN p ELSE <<44, 32>> \o p), <<>>, pairs)
    IN  IF broken THEN {Err} ELSE {Ext("hstore", "String", text)}

-----------------------------------------------------------------------------
StringTypes == {"Char", "Name", "Text", "Bpchar", "Varchar"}

\* i16 through i32
DecodeInt2(fmt, b) ==
    LET wide == IF fmt = "Binary" THEN Integer(2, b) ELSE Low(2, FromText(b))
    IN  IF wide = <<>> THEN {Err} ELSE {V("I32", SignExtend(4, wide))}

DecodeOid(fmt, b) == ByFormat(fmt, b, "U32", "Oid", {Ext("Oid", "U32", b)})

DecodeFloat(k, fmt, b) == ByFormat(fmt, b, k, "", {V(k, b)})

\* The binary format is refused, and the text of a server is not WKT.
DecodePoint(fmt, b) == {Err}

DecodeTime(fmt, b) ==
    ByFormat(fmt, b, "String", "Time",
             {Ext("Time", "String", <<Small(b) \div 1000000, Small(b) % 1000000>>)})

DecodeTimestamp(fmt, b) ==
    ByFormat(fmt, b, "I64", "Timestamp", {Ext("Timestamp", "I64", <<Millis(b)>>)})

\* The offset of the session is set on it, which does not move the instant.
DecodeDateTime(fmt, b) ==
    ByFormat(fmt, b, "String", "DateTime", {Ext("DateTime", "String", <<Millis(b)>>)})

DecodeTimetz(fmt, b) ==
    IF fmt = "Text" THEN {Err}
    ELSE LET us == Small(Piece(b, 1, 8))
         IN  {Ext("Timez", "Map", <<us \div 1000000, us % 1000000, Small(Piece(b, 9, 4))>>)}

DecodeUuid(fmt, b) == ByFormat(fmt, b, "String", "Uuid", {Ext("Uuid", "String", b)})

\* The bytes of the binary format for its text
DecodeTsVector(fmt, b) == {Ext("tsvector", "String", b)}
DecodeTsQuery(fmt, b) == {Ext("tsquery", "String", b)}

DecodeMoney(fmt, b) == IF fmt = "Text" THEN {Err} ELSE {Ext("Money", "I64", b)}

\* The types from Interval on
DecodeRare(t, fmt, b) ==
    CASE t.n = "Void" -> {Ext("Ext", "Binary", b)}
      [] t.n = "Jsonb" -> decode_json(t, fmt, b)
      [] t.n = "Timetz" -> DecodeTimetz(fmt, b)
      [] t.n = "Numeric" -> ByFormat(fmt, b, "String", "Decimal", {DecodeNumeric(b)})
      [] t.n = "Uuid" -> DecodeUuid(fmt, b)
      [] t.n = "Tsvector" -> DecodeTsVector(fmt, b)
      [] t.n = "Tsquery" -> DecodeTsQuery(fmt, b)
      [] t.n = "Hstore" -> DecodeHstore(fmt, b)
      [] t.n = "Money" -> DecodeMoney(fmt, b)
      [] t.n \in RawTags -> {Ext(t.n, "Binary", b)}

DecodeBuiltIn(t, fmt, b) ==
    LET n == t.n
        Parses(k, tag, binary) == ByFormat(fmt, b, k, tag, binary)
    IN  CASE n \in StringTypes -> {V("String", b)}
          [] n = "Unknown" -> {Null}
          [] n = "Bool" -> DecodeBool(fmt, b)
          [] n = "Bytea" -> DecodeBytea(fmt, b)
          [] n = "Int8" -> Parses("I64", "", WholeNumber("I64", 8, b))
          [] n = "Int4" -> Parses("I32", "", WholeNumber("I32", 4, b))
          [] n = "Int2" -> DecodeInt2(fmt, b)
          [] n = "Oid" -> DecodeOid(fmt, b)
          [] n = "Float4" -> DecodeFloat("F32", fmt, b)
          [] n = "Float8" -> DecodeFloat("F64", fmt, b)
          [] n = "Json" -> decode_json(t, fmt, b)
          [] n = "Point" -> DecodePoint(fmt, b)
          [] n = "Date" -> Parses("String", "Date", DecodeDate(b))
          [] n = "Time" -> DecodeTime(fmt, b)
          [] n = "Timestamp" -> DecodeTimestamp(fmt, b)
          [] n = "Timestamptz" -> DecodeDateTime(fmt, b)
          [] OTHER -> DecodeRare(t, fmt, b)

\* A cell of a type that is not an array of the driver's own
DecodeOne(t, fmt, cell) ==
    CASE cell = <<>> -> {Null}
      [] cell # <<>> /\ t.n = "Custom" ->
            {IF t.kind = "Enum" THEN V("String", cell[1]) ELSE Ext("Custom", "Binary", cell[1])}
      [] cell # <<>> /\ t.n = "DeclareWithOid" -> {Ext("DeclareWithOid", "Binary", cell[1])}
      [] OTHER -> DecodeBuiltIn(t, fmt, cell[1])

-----------------------------------------------------------------------------
(***************************************************************************)
(* Arrays (types/array.rs).                                                *)
(***************************************************************************)
\* PgValue::get: the cells that follow each other in a buffer
RECURSIVE Cells(_, _)
Cells(buf, n) ==
    LET len == Small(Piece(buf, 1, 4))
        body == IF len < 0 THEN 0 ELSE len
    IN  IF n = 0 THEN <<>>
        ELSE <<IF len < 0 THEN <<>> ELSE <<Piece(buf, 5, body)>>>>
             \o Cells(SubSeq(buf, 5 + body, Len(buf)), n - 1)

\* The text between the braces, cut at the delimiter outside quotes
TextCells(s, delimiter) ==
    LET Step(a, ch) ==
            CASE a.in_escape -> [a EXCEPT !.value = Append(@, ch), !.in_escape = FALSE]
              [] ~a.in_escape /\ ch = 34 -> [a EXCEPT !.in_quotes = ~@]
              [] ~a.in_escape /\ ch = 92 -> [a EXCEPT !.in_escape = TRUE]
              [] ~a.in_escape /\ ch = delimiter /\ ~a.in_quotes ->
                    [a EXCEPT !.elements = Append(@, a.value), !.value = <<>>]
              [] OTHER -> [a EXCEPT !.value = Append(@, ch)]
        end == FoldLeft(Step, [value |-> <<>>, elements |-> <<>>,
                               in_quotes |-> FALSE, in_escape |-> FALSE], s)
        all == Append(end.elements, end.value)
    IN  [i \in DOMAIN all |-> IF all[i] = <<78, 85, 76, 76>> THEN <<>> ELSE <<all[i]>>]

\* The elements one after the other; the first error ends it.
RECURSIVE DecodeAll(_, _, _)
DecodeAll(t, fmt, cells) ==
    IF cells = <<>> THEN {List(<<>>)}
    ELSE LET rest == DecodeAll(t, fmt, Tail(cells))
         IN  {IF v.k \in {"Err", "Panic"} THEN v
              ELSE IF r.k \in {"Err", "Panic"} THEN r ELSE List(<<v>> \o r.e) :
              v \in DecodeOne(t, fmt, Head(cells)), r \in rest}

DecodeArray(t, fmt, b) ==
    LET word(i) == Small(Piece(b, 4 * i - 3, 4))
        element == IF fmt = "Binary" /\ try_from_oid(word(3)) # None THEN try_from_oid(word(3))
                   ELSE try_array_element(t)
        s == SubSeq(b, 2, Len(b) - 1)
    IN  CASE fmt = "Binary" /\ word(1) = 0 -> {List(<<>>)}
          [] fmt = "Binary" /\ (word(1) \notin {0, 1} \/ (word(1) = 1 /\ word(5) # 1)) -> {Err}
          [] fmt = "Binary" /\ word(1) = 1 /\ word(5) = 1 ->
                DecodeAll(element, fmt, Cells(SubSeq(b, 21, Len(b)), word(4)))
          [] fmt = "Text" /\ s = <<>> -> {List(<<>>)}
          [] OTHER -> DecodeAll(element, fmt,
                                TextCells(s, IF element.n = "Box" THEN 59 ELSE 44))

\* Decode for Value
Decode(t, fmt, cell) ==
    IF cell # <<>> /\ t.kind = "Array" /\ t.n # "Custom" THEN DecodeArray(t, fmt, cell[1])
    ELSE DecodeOne(t, fmt, cell)
=============================================================================
