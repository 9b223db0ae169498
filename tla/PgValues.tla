------------------------------ MODULE PgValues ------------------------------
(***************************************************************************)
(* Types and values of the PostgreSQL driver: the types (type_info.rs,     *)
(* connection/describe.rs), the type declared for an argument and the      *)
(* bytes it is encoded to (types/*.rs), and the argument buffer with its   *)
(* lengths and patches (arguments.rs).                                     *)
(*                                                                         *)
(* Instants count from 2000-01-01, in milliseconds; dates in days.         *)
(***************************************************************************)
EXTENDS Values, FiniteSets, SequencesExt

-----------------------------------------------------------------------------
(* The built-in types with their object identifiers, and the user-defined  *)
(* ones the driver looks up in the catalogue.                              *)

\* The name of a type, its identifier, the identifier of its array type
\* (0 where the driver knows none).
Elements == {
    <<"Bool", 16, 1000>>, <<"Bytea", 17, 1001>>, <<"Char", 18, 1002>>,
    <<"Name", 19, 1003>>, <<"Int8", 20, 1016>>, <<"Int2", 21, 1005>>,
    <<"Int4", 23, 1007>>, <<"Text", 25, 1009>>, <<"Oid", 26, 1028>>,
    <<"Json", 114, 199>>, <<"Point", 600, 1017>>, <<"Lseg", 601, 1018>>,
    <<"Path", 602, 1019>>, <<"Box", 603, 1020>>, <<"Polygon", 604, 1027>>,
    <<"Line", 628, 629>>, <<"Cidr", 650, 651>>, <<"Float4", 700, 1021>>,
    <<"Float8", 701, 1022>>, <<"Unknown", 705, 0>>, <<"Circle", 718, 719>>,
    <<"Macaddr8", 774, 775>>, <<"Money", 790, 791>>, <<"Macaddr", 829, 1040>>,
    <<"Inet", 869, 1041>>, <<"Bpchar", 1042, 1014>>, <<"Varchar", 1043, 1015>>,
    <<"Date", 1082, 1182>>, <<"Time", 1083, 1183>>,
    <<"Timestamp", 1114, 1115>>, <<"Timestamptz", 1184, 1185>>,
    <<"Interval", 1186, 1187>>, <<"Timetz", 1266, 1270>>, <<"Bit", 1560, 1561>>,
    <<"Varbit", 1562, 1563>>, <<"Numeric", 1700, 1231>>,
    <<"Record", 2249, 2287>>, <<"Void", 2278, 0>>, <<"Uuid", 2950, 2951>>,
    <<"Hstore", 3361, 3362>>, <<"Tsvector", 3614, 0>>, <<"Tsquery", 3615, 0>>,
    <<"Jsonb", 3802, 3807>>, <<"Int4Range", 3904, 3905>>,
    <<"NumRange", 3906, 3907>>, <<"TsRange", 3908, 3909>>,
    <<"TstzRange", 3910, 3911>>, <<"DateRange", 3912, 3913>>,
    <<"Int8Range", 3926, 3927>>, <<"Jsonpath", 4072, 4073>>}

\* The element type of a range.
RangeOf == [Int4Range |-> 23, NumRange |-> 1700, TsRange |-> 1114,
            TstzRange |-> 1184, DateRange |-> 1082, Int8Range |-> 20]

\* A PgTypeInfo: name, identifier, PgTypeKind and the identifier of the type
\* the kind refers to.
Ty(n, oid, kind, of) == [n |-> n, oid |-> oid, kind |-> kind, of |-> of]

\* kind of the types that are not arrays
Base(x) ==
    IF x[1] \in DOMAIN RangeOf THEN Ty(x[1], x[2], "Range", RangeOf[x[1]])
    ELSE Ty(x[1], x[2], IF x[1] = "Void" THEN "Pseudo" ELSE "Simple", 0)

PgType == {Base(x) : x \in Elements}
          \cup {Ty(x[1], x[3], "Array", x[2]) : x \in {y \in Elements : y[3] # 0}}

\* The type constants, by name.
T == [n \in {x[1] : x \in Elements} |-> CHOOSE t \in PgType : t.n = n /\ t.kind # "Array"]
ArrayOf == [n \in {x[1] : x \in {y \in Elements : y[3] # 0}} |->
                CHOOSE t \in PgType : t.n = n /\ t.kind = "Array"]

ByOid == [o \in {t.oid : t \in PgType} |-> CHOOSE t \in PgType : t.oid = o]

None == Ty("None", 0, "None", 0)

try_from_oid(o) == IF o \in DOMAIN ByOid THEN ByOid[o] ELSE None

\* Every type the driver holds has an identifier: no caller declares one by
\* name only.
try_oid(t) == t.oid

\* PartialEq for PgType when both sides have identifiers
eq(t, u) == try_oid(t) = try_oid(u)

try_array_element(t) == IF t.kind = "Array" THEN try_from_oid(t.of) ELSE None

with_oid(o) == Ty("DeclareWithOid", o, "None", 0)

-----------------------------------------------------------------------------
(***************************************************************************)
(* User-defined types.  pg_type is what the server's catalogue holds of    *)
(* them: the kind letters and the type they refer to.                      *)
(***************************************************************************)
pg_type == [
    o \in 16401..16406 |->
        CASE o = 16401 -> [typtype |-> "e", typcategory |-> "E", of |-> 0]
          [] o = 16402 -> [typtype |-> "b", typcategory |-> "A", of |-> 16401]
          [] o = 16403 -> [typtype |-> "c", typcategory |-> "C", of |-> 16402]
          [] o = 16404 -> [typtype |-> "r", typcategory |-> "R", of |-> 16405]
          [] o = 16405 -> [typtype |-> "d", typcategory |-> "S", of |-> 25]
          [] o = 16406 -> [typtype |-> "b", typcategory |-> "U", of |-> 0]]

\* The kind a catalogue row stands for.
KindOf(row) ==
    CASE row.typtype = "d" -> "Domain"
      [] row.typtype = "b" /\ row.typcategory = "A" -> "Array"
      [] row.typtype = "p" /\ row.typcategory = "P" -> "Pseudo"
      [] row.typtype = "r" /\ row.typcategory = "R" -> "Range"
      [] row.typtype = "e" /\ row.typcategory = "E" -> "Enum"
      [] row.typtype = "c" /\ row.typcategory = "C" -> "Composite"
      [] OTHER -> "Simple"

fetch_type_by_oid(o) ==
    LET row == pg_type[o]
        kind == KindOf(row)
    IN  Ty("Custom", o, kind, IF kind \in {"Simple", "Pseudo", "Enum"} THEN 0 ELSE row.of)

\* The type information of identifier o, with the cache of types asked for
\* before and the cache after.  In the middle of a simple query nothing can be
\* asked of the server.
RECURSIVE Known(_, _)
Known(o, cache) ==
    IF try_from_oid(o) # None \/ o \in DOMAIN cache \/ o = 0 THEN cache
    ELSE LET t == fetch_type_by_oid(o)
             inner == Known(t.of, cache)
         IN  [p \in DOMAIN inner \cup {o} |-> IF p = o THEN t ELSE inner[p]]

maybe_fetch_type_info_by_oid(o, cache) ==
    CASE try_from_oid(o) # None -> try_from_oid(o)
      [] try_from_oid(o) = None /\ o \in DOMAIN cache -> cache[o]
      [] OTHER -> with_oid(o)

-----------------------------------------------------------------------------
(* NUMERIC on the wire (types/numeric.rs) and its conversion from and to   *)
(* BigDecimal (types/bigdecimal.rs).  A decimal is <<sign, exp>> followed  *)
(* by its base-10 digits: sign * digits * 10^(-exp).                       *)

SIGN_POS == 0
SIGN_NEG == 16384
SIGN_NAN == 49152

Digits(d) == SubSeq(d, 3, Len(d))

\* fold(0, a * 10 + d) over at most four digits
base_10_to_10000(chunk) == FoldLeft(LAMBDA a, d : a * 10 + d, 0, chunk)

\* rest.chunks(4), the last one filled with zeros on the right
RECURSIVE Chunks(_)
Chunks(s) ==
    IF s = <<>> THEN <<>>
    ELSE LET n == IF Len(s) < 4 THEN Len(s) ELSE 4
         IN  <<base_10_to_10000(SubSeq(s, 1, n)) * 10^(4 - n)>>
             \o Chunks(SubSeq(s, n + 1, Len(s)))

\* while let Some(&0) = digits.last()
RECURSIVE PopZeros(_)
PopZeros(s) == IF s # <<>> /\ Last(s) = 0 THEN PopZeros(Front(s)) ELSE s

Weight(weight_10) ==
    IF weight_10 <= 0 THEN -((-weight_10) \div 4) - 1 ELSE (weight_10 - 1) \div 4

\* PgNumeric::try_from(&BigDecimal)
FromDecimal(d) ==
    LET base_10 == Digits(d)
        exp == d[2]
        weight_10 == Len(base_10) - exp
        offset == weight_10 % 4
        short == offset > Len(base_10)
        first == CASE offset = 0 -> <<>>
                   [] ~short /\ offset # 0 -> <<base_10_to_10000(SubSeq(base_10, 1, offset))>>
                   [] short -> <<base_10_to_10000(base_10) * 10^(offset - Len(base_10))>>
        rest == IF short THEN <<>> ELSE Chunks(SubSeq(base_10, offset + 1, Len(base_10)))
    IN  [sign |-> IF d[1] < 0 THEN SIGN_NEG ELSE SIGN_POS,
         scale |-> IF exp > 0 THEN exp ELSE 0,
         weight |-> Weight(weight_10),
         digits |-> PopZeros(first \o rest)]

\* try_into of the scale and the weight to i16
FitsNumeric(n) == n.scale <= 32767 /\ n.weight \in -32768..32767

\* PgNumeric::encode
EncodeNumeric(n) ==
    FoldLeft(LAMBDA buf, word : buf \o Be(2, word), <<>>,
             <<Len(n.digits), n.weight, n.sign, n.scale>> \o n.digits)

\* One 16-bit word of a buffer, unsigned or signed.
U16(buf, i) == buf[2 * i - 1] * 256 + buf[2 * i]
I16(buf, i) == Small(Piece(buf, 2 * i - 1, 2))

\* BigDecimal::new of the base-100 digits of the words
FromWords(sign, words, scale) ==
    <<sign, scale>> \o FoldLeft(LAMBDA s, w : s \o <<w \div 1000, (w \div 100) % 10,
                                                     (w \div 10) % 10, w % 10>>, <<>>, words)

\* PgNumeric::decode, and BigDecimal::try_from of it
DecodeNumeric(buf) ==
    LET num_digits == U16(buf, 1)
        weight == I16(buf, 2)
        sign == U16(buf, 3)
    IN  CASE sign = SIGN_NAN -> Err
          [] sign \notin {SIGN_POS, SIGN_NEG, SIGN_NAN} -> Err
          [] sign \in {SIGN_POS, SIGN_NEG} /\ num_digits = 0 ->
                Ext("Decimal", "String", <<0, 0, 0>>)
          [] OTHER ->
                Ext("Decimal", "String",
                    FromWords(IF sign = SIGN_NEG THEN -1 ELSE 1,
                              [i \in 1..num_digits |-> I16(buf, 4 + i)],
                              (num_digits - weight - 1) * 4))

\* The number a decimal stands for, whatever zeros it is written with.
RECURSIVE Number(_)
Number(d) ==
    LET n == Len(d)
    IN  CASE n = 2 -> <<0, 0>>
          [] n > 2 /\ d[3] = 0 -> Number(<<d[1], d[2]>> \o SubSeq(d, 4, n))
          [] n > 2 /\ d[3] # 0 /\ d[n] = 0 ->
                Number(<<d[1], d[2] - 1>> \o SubSeq(d, 3, n - 1))
          [] OTHER -> d

-----------------------------------------------------------------------------
(* Arguments. *)

\* TypeInfo for Value: the declared type of an argument
KindType == [Null |-> "Unknown", Bool |-> "Bool", I32 |-> "Int4", U32 |-> "Int4",
             I64 |-> "Int8", U64 |-> "Int8", F32 |-> "Float4", F64 |-> "Float8",
             String |-> "Varchar", Binary |-> "Bytea", Array |-> "Json", Map |-> "Json"]

TagType == [Decimal |-> "Numeric", DateTime |-> "Timestamp"]

\* Ext values whose bytes go out as they are.
RawTags == {"Lseg", "Path", "Box", "Polygon", "Line", "Cidr", "Circle", "Macaddr8",
            "Macaddr", "Inet", "Interval", "Bit", "Varbit", "Record", "Int4Range",
            "NumRange", "TsRange", "TstzRange", "DateRange", "Int8Range", "Jsonpath"}

SameName == RawTags \cup
    {"Uuid", "Date", "Time", "Timestamp", "Bool", "Bytea", "Char", "Name", "Int8",
     "Int2", "Int4", "Text", "Oid", "Json", "Point", "Float4", "Float8", "Bpchar",
     "Varchar", "Timestamptz", "Timetz", "Numeric", "Jsonb", "Money", "Void"}

type_info(v) ==
    CASE v.tag = "" -> T[KindType[v.k]]
      [] v.tag \in DOMAIN TagType -> T[TagType[v.tag]]
      [] v.tag \in SameName -> T[v.tag]
      [] OTHER -> T["Unknown"]

-----------------------------------------------------------------------------
(***************************************************************************)
(* Encode for Value.                                                       *)
(***************************************************************************)
\* as_f64 as f32, for the one number the instances use
AsF32 == [b \in {<<63, 248, 0, 0, 0, 0, 0, 0>>} |-> <<63, 192, 0, 0>>]

\* Narrowing an i64 before it is encoded
EncodeInteger(w, b) == Bytes(Low(w, b))

EncodeFloat4(b) == Bytes(AsF32[b])

\* Date: days since 2000-01-01
EncodeDate(days) == Bytes(Be(4, days))

\* Timestamp: microseconds since 2000-01-01
EncodeTimestamp(ms) == Bytes(Be(8, ms * 1000))

\* Timetz: microseconds since midnight, then the offset
EncodeTimetz(s, us, offset) == Bytes(Be(8, s * 1000000 + us) \o Be(4, offset))

\* Time: the microseconds are added up in 32 bits
EncodeTime(s, us) ==
    IF s > 4294 THEN {Enc("panic", <<>>), Enc("No", <<0, 0, 0, 0>>)}
    ELSE Bytes(Be(4, s * 1000000 + us))

\* DateTime: the instant in the session's time zone
EncodeDateTime(ms, tz) == Bytes(Be(8, (ms + 1000 * tz) * 1000))

\* Json: the version byte of JSONB, to be patched for JSON
EncodeJson(text) == {Enc("patch", <<1>> \o (IF text = <<>> THEN JsonNull ELSE text))}

\* BigDecimal: one that does not fit is a panic (expect), a text that is no
\* number, empty here, counts as 0
EncodeDecimal(d) ==
    LET n == FromDecimal(IF d = <<>> THEN <<0, 0, 0>> ELSE d)
    IN  IF FitsNumeric(n) THEN Bytes(EncodeNumeric(n)) ELSE {Enc("panic", <<>>)}

\* The text of a date, a UUID... that cannot be parsed is empty here.
Parsed(v, bytes) == IF v.b = <<>> THEN {Enc("err", <<>>)} ELSE bytes

EncodeExt(v, tz) ==
    CASE v.tag = "Uuid" -> Parsed(v, Bytes(v.b))
      [] v.tag \in {"Decimal", "Numeric"} -> EncodeDecimal(v.b)
      [] v.tag = "Date" -> Parsed(v, EncodeDate(v.b[1]))
      [] v.tag = "Time" -> Parsed(v, EncodeTime(v.b[1], v.b[2]))
      [] v.tag = "Timestamp" -> EncodeTimestamp(v.b[1])
      [] v.tag \in {"DateTime", "Timestamptz"} -> Parsed(v, EncodeDateTime(v.b[1], tz))
      [] v.tag \in RawTags \cup {"Bytea", "Char", "Name", "Text", "Bpchar", "Varchar",
                                 "Unknown", "Void", "Custom", "DeclareWithName",
                                 "DeclareWithOid", "Float8", "Money"} -> Bytes(v.b)
      [] v.tag = "Int8" -> EncodeInteger(4, v.b)
      [] v.tag = "Int4" -> EncodeInteger(2, v.b)
      [] v.tag = "Int2" -> EncodeInteger(1, v.b)
      [] v.tag = "Oid" -> EncodeInteger(4, v.b)
      [] v.tag = "Float4" -> EncodeFloat4(v.b)
      [] v.tag \in {"Json", "Jsonb"} -> EncodeJson(v.b)
      [] v.tag = "Timetz" -> EncodeTimetz(v.b[1], v.b[2], v.b[3])
      [] v.tag \in {"Point", "Hstore", "TsVector", "TsQuery"} -> {Enc("err", <<>>)}
      [] OTHER -> {Enc("Yes", <<>>)}

Encode(v, tz) ==
    CASE v.tag # "" -> EncodeExt(v, tz)
      [] v.tag = "" /\ v.k = "Null" -> {Enc("Yes", <<>>)}
      [] v.tag = "" /\ v.k \in {"Array", "Map"} -> EncodeJson(JsonText(v))
      [] OTHER -> Bytes(v.b)

-----------------------------------------------------------------------------
(***************************************************************************)
(* PgArgumentBuffer: each argument after its length, -1 for null, and the  *)
(* patches as <<offset, argument>>.                                        *)
(***************************************************************************)
NoArguments == [types |-> <<>>, buffer |-> <<>>, patches |-> <<>>]

\* PgArgumentBuffer::encode
Prefixed(x) == Be(4, IF x.st = "Yes" THEN -1 ELSE Len(x.b)) \o x.b

\* A mutant: the patch is remembered where the value ends.
Add_PatchAfter(a, v, x) ==
    [types |-> Append(a.types, type_info(v)),
     buffer |-> a.buffer \o Prefixed(x),
     patches |-> a.patches \o (IF x.st = "patch"
                               THEN <<<<Len(a.buffer) + 3 + Len(x.b), Len(a.types) + 1>>>>
                               ELSE <<>>)]

\* PgArguments::add of a value with encoding x
Add(a, v, x) ==
    [types |-> Append(a.types, type_info(v)),
     buffer |-> a.buffer \o Prefixed(x),
     patches |-> a.patches \o (IF x.st = "patch" THEN <<<<Len(a.buffer) + 4, Len(a.types) + 1>>>>
                               ELSE <<>>)]

\* The patch of encode_json: a blank for the version byte of JSONB
unversioned(byte, ty) ==
    IF eq(ty, T["Json"]) \/ eq(ty, ArrayOf["Json"]) THEN 32 ELSE byte

apply_patches(a, parameters) ==
    FoldLeft(LAMBDA buf, p : [buf EXCEPT ![p[1] + 1] = unversioned(@, parameters[p[2]])],
             a.buffer, a.patches)
=============================================================================
