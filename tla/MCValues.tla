------------------------------ MODULE MCValues ------------------------------
EXTENDS PgRows, MySqlRows, SqliteRows, Mssql, PgOptions, MySqlOptions, SqliteOpen, Placeholders, TryStream

-----------------------------------------------------------------------------
(***************************************************************************)
(* PostgreSQL: every kind of argument beside one of a few others in both   *)
(* places, the same SQL called twice, decimals, columns of every type.     *)
(***************************************************************************)
UuidBytes == [i \in 1..16 |-> i]
High(w) == [i \in 1..w |-> IF i = 1 THEN 128 ELSE 1]
OneAndHalf == <<63, 248, 0, 0, 0, 0, 0, 0>>

PgPlain == {Null, V("Bool", <<1>>), V("Bool", <<0>>), V("I32", Be(4, -2)), V("U32", High(4)),
            V("I64", Be(8, 3)), V("U64", High(8)), V("F32", <<63, 192, 0, 0>>), V("F64", OneAndHalf),
            V("String", <<>>), V("String", <<97>>), V("Binary", <<0, 255>>), List(<<>>), EmptyMap}

PgExts == {Ext(n, "Binary", <<7>>) : n \in RawTags \cup {"Void", "Custom", "Unknown", "Other",
                                                       "Varchar", "Bpchar", "Bytea"}}
    \cup {Ext(n, "String", <<97>>) : n \in {"Char", "Name", "Text", "Point", "Hstore", "TsVector", "TsQuery"}}
    \cup {Ext("Uuid", "String", UuidBytes), Ext("Uuid", "String", <<>>), Ext("Date", "String", <<-1>>),
          Ext("Date", "String", <<>>), Ext("Time", "String", <<1, 5>>), Ext("Time", "String", <<5000, 0>>),
          Ext("Timestamp", "I64", <<-1>>), Ext("Timestamptz", "String", <<1500>>),
          Ext("Timetz", "Map", <<1, 5, -3600>>), Ext("Int8", "I64", Be(8, 5)), Ext("Int4", "I64", Be(8, 5)),
          Ext("Int2", "I64", Be(8, 5)), Ext("Oid", "U64", Be(8, 16401)), Ext("Float4", "F64", OneAndHalf),
          Ext("Float8", "F64", OneAndHalf), Ext("Money", "I64", Be(8, 5)), Ext("Bool", "Bool", <<1>>),
          Ext("Json", "String", <<>>), Ext("Json", "String", JsonMap), Ext("Jsonb", "String", JsonList)}

PgCompany == {Null, V("I32", Be(4, 7)), V("String", <<97>>), List(<<>>), Ext("Jsonb", "String", JsonMap)}

PgJob(calls, cols, tz, via, dup) ==
    [drv |-> "pg", calls |-> calls, cols |-> cols, tz |-> tz, via |-> via, dup |-> dup]

Col(n, v) == [n |-> n, v |-> v, array |-> FALSE, oid |-> 0]
ArrayCol(n, v) == [n |-> n, v |-> v, array |-> TRUE, oid |-> 0]
CustomCol(o) == [n |-> "Custom", array |-> FALSE, oid |-> o,
                 v |-> IF o = 16401 THEN V("String", <<97>>) ELSE Ext("Custom", "Binary", <<97>>)]

Signs == {-1, 1}
DigitStrings == UNION {{d \in [1..n -> {0, 7}] : d[1] # 0} : n \in 1..6} \cup {<<0>>}
Decimals == {<<IF d = <<0>> THEN 0 ELSE s, e>> \o d : s \in Signs, e \in -5..9, d \in DigitStrings}

\* No number, and numbers on both sides of the limits of NUMERIC
OddDecimals == {<<>>} \cup {<<1, e, 7>> : e \in {32767, 32768, -131071, -131072}}

\* A value of each type, as the driver gives it
PgStored ==
    {<<n, Ext(n, "Binary", <<40, 44, 41>>)>> : n \in RawTags}
    \cup {<<n, V("String", s)>> : n \in StringTypes,
          s \in {<<>>, <<97>>, <<44>>, <<34, 97>>, <<92>>, <<123>>, <<78, 85, 76, 76>>}}
    \cup {<<"Bool", V("Bool", <<x>>)>> : x \in 0..1}
    \cup {<<"Date", Ext("Date", "String", <<d>>)>> : d \in {0, -1, 24855, 24856}}
    \cup {<<"Json", v>> : v \in {List(<<>>), EmptyMap}} \cup {<<"Jsonb", List(<<>>)>>}
    \cup {<<"Bytea", V("Binary", <<0, 161>>)>>, <<"Int8", V("I64", Be(8, -3))>>,
          <<"Int2", V("I32", Be(4, -3))>>, <<"Int4", V("I32", Be(4, 44))>>,
          <<"Oid", Ext("Oid", "U32", Be(4, 3))>>, <<"Float4", V("F32", <<63, 192, 0, 0>>)>>,
          <<"Float8", V("F64", OneAndHalf)>>, <<"Point", V("F64", OneAndHalf)>>,
          <<"Time", Ext("Time", "String", <<2000, 5>>)>>,
          <<"Timestamp", Ext("Timestamp", "I64", <<-1>>)>>,
          <<"Timestamptz", Ext("DateTime", "String", <<1500>>)>>,
          <<"Timetz", Ext("Timez", "Map", <<1, 5, -3600>>)>>,
          <<"Numeric", Ext("Decimal", "String", <<1, 2, 1, 2, 3>>)>>,
          <<"Uuid", Ext("Uuid", "String", UuidBytes)>>, <<"Money", Ext("Money", "I64", Be(8, 5))>>,
          <<"Tsvector", Ext("tsvector", "String", <<97>>)>>,
          <<"Tsquery", Ext("tsquery", "String", <<97>>)>>,
          <<"Hstore", Ext("hstore", "String", <<97, 61, 62, 98>>)>>, <<"Void", Ext("Ext", "Binary", <<>>)>>,
          <<"Unknown", Null>>}

PgColumns ==
    {Col(x[1], x[2]) : x \in PgStored} \cup {Col("Int4", Null)}
    \cup {ArrayCol(x[1], List(<<>>)) : x \in {y \in PgStored : y[1] \in DOMAIN ArrayOf}}
    \cup {ArrayCol(x[1], List(<<Null, x[2], x[2]>>)) : x \in {y \in PgStored : y[1] \in DOMAIN ArrayOf}}
    \cup {ArrayCol("Int4", [List(<<V("I32", Be(4, 1))>>) EXCEPT !.b = <<0>>])}
    \cup {CustomCol(o) : o \in 16401..16406}

Seven == V("I32", Be(4, 7))

PgJobs ==
    {PgJob(<<<<a, b>>>>, <<>>, 0, FALSE, FALSE) : a \in PgPlain \cup PgExts, b \in PgCompany}
    \cup {PgJob(<<<<b, a>>>>, <<>>, 0, FALSE, FALSE) : a \in PgPlain \cup PgExts, b \in PgCompany}
    \cup {PgJob(<<<<a>>, <<b>>>>, <<>>, 0, FALSE, FALSE) : a, b \in PgPlain \cup {Ext("Jsonb", "String", JsonMap)}}
    \cup {PgJob(<<<<Ext("Decimal", "String", d)>>>>, <<>>, 0, FALSE, FALSE) : d \in Decimals \cup OddDecimals}
    \cup {PgJob(<<<<a>>>>, <<>>, tz, via, FALSE) :
            a \in {Ext(n, IF n = "Timestamp" THEN "I64" ELSE "String", <<ms>>) :
                       n \in {"DateTime", "Timestamp", "Timestamptz"}, ms \in {0, -1, 1500}},
            tz \in {0, 600, -600, 90, -90}, via \in BOOLEAN}
    \cup {PgJob(<<args>>, <<c, Col("Int4", Seven)>>, 0, FALSE, dup) :
            args \in {<<>>, <<Seven>>}, c \in PgColumns, dup \in BOOLEAN}
    \cup {PgJob(<<<<Seven>>, <<>>>>, <<c>>, 0, FALSE, FALSE) : c \in {CustomCol(o) : o \in 16401..16406}}

-----------------------------------------------------------------------------
(***************************************************************************)
(* MySQL: every kind of argument between others, nine arguments (a second  *)
(* byte of the bitmap), long strings, columns of every type.               *)
(***************************************************************************)
Text(n) == [i \in 1..n |-> 97]

MyArgs ==
    {Null, V("Bool", <<1>>), V("I32", Be(4, -2)), V("U32", High(4)), V("I64", Be(8, 3)),
     V("U64", High(8)), V("F32", <<63, 192, 0, 0>>), V("F64", OneAndHalf), V("String", <<>>),
     V("Binary", <<0, 255>>), List(<<>>), EmptyMap, Ext("Uuid", "String", UuidBytes),
     Ext("Decimal", "String", <<49, 46, 53>>), Ext("Decimal", "String", <<>>),
     Ext("Year", "U64", Be(8, 1993)), Ext("Date", "String", <<1993, 2, 6>>),
     Ext("Date", "String", <<>>), Ext("Json", "String", <<>>), Ext("Json", "String", JsonMap),
     Ext("Enum", "String", <<97>>), Ext("Set", "String", <<97>>), Ext("Other", "Binary", <<7>>)}
    \cup {Ext("Time", "String", t) : t \in {<<0, 0, 0, 0>>, <<12, 34, 56, 0>>, <<1, 2, 3, 4>>}}
    \cup {Ext("DateTime", "String", <<1993, 2, 6>> \o t \o <<o>>) :
             t \in {<<0, 0, 0, 0>>, <<12, 34, 56, 0>>, <<1, 2, 3, 4>>}, o \in {0, 3600}}
    \cup {Ext("Timestamp", "I64", <<1993, 2, 6>> \o t) :
             t \in {<<0, 0, 0, 0>>, <<12, 34, 56, 0>>, <<1, 2, 3, 4000>>}}

MyJob(args, cols, read) ==
    [drv |-> "my", args |-> args, cols |-> cols, off |-> 3600, max |-> 16, read |-> read]

MyCol(t, v) == [t |-> t, v |-> v, unsigned |-> FALSE]

MyColumns ==
    {MyCol(t, V("I32", Be(4, -3))) : t \in Signed32}
    \cup {MyCol(t, V("I64", Be(8, -3))) : t \in {"Long", "LongLong"}}
    \cup {MyCol(t, V("String", b)) : t \in {"VarChar", "VarString", "String"}, b \in {<<>>, <<97>>, <<200, 7>>}}
    \cup {MyCol(t, V("Binary", <<0, 251>>)) : t \in {"TinyBlob", "MediumBlob", "LongBlob", "Blob"}}
    \cup {MyCol(t, Ext("Decimal", "String", <<49>>)) : t \in {"Decimal", "NewDecimal"}}
    \cup {MyCol(t, Ext(t, "String", <<97>>)) : t \in {"Enum", "Set"}}
    \cup {MyCol("Date", Ext("Date", "String", d)) : d \in {<<0, 0, 0>>, <<1993, 2, 6>>}}
    \cup {MyCol("Time", Ext("Time", "String", t)) : t \in {<<0, 0, 0, 0>>, <<12, 34, 56, 0>>, <<1, 2, 3, 4>>}}
    \cup {MyCol("Datetime", Ext("DateTime", "String", <<1993, 2, 6>> \o t \o <<3600>>)) :
             t \in {<<0, 0, 0, 0>>, <<12, 34, 56, 0>>, <<1, 2, 3, 4>>}}
    \cup {MyCol("Timestamp", Ext("Timestamp", "U64", <<1993, 2, 6>> \o t)) :
             t \in {<<0, 0, 0, 0>>, <<12, 34, 56, 0>>, <<1, 2, 3, 4000>>}}
    \cup {MyCol("Float", V("F32", <<63, 192, 0, 0>>)), MyCol("Double", V("F64", OneAndHalf)),
          MyCol("Bit", V("U64", Be(8, 513))), MyCol("Year", Ext("Year", "String", <<1993>>)),
          MyCol("Json", List(<<>>)), MyCol("Geometry", Ext("Geometry", "Binary", <<7>>)),
          MyCol("Long", Null), [MyCol("Long", V("I64", Fill(8, 0, High(4)))) EXCEPT !.unsigned = TRUE],
          [MyCol("LongLong", V("U64", High(8))) EXCEPT !.unsigned = TRUE]}

SevenMore(a) == <<a, a, Null, a, a, a, Null>>

MyJobs ==
    {MyJob(<<a, b>>, <<>>, 1..3) : a, b \in MyArgs}
    \cup {MyJob(<<a>> \o SevenMore(V("Bool", <<1>>)) \o <<b>>, <<>>, {1, 8, 9}) :
             a \in {Null, V("I32", Be(4, 7))}, b \in MyArgs}
    \cup {MyJob(<<V("String", Text(n)), V("I32", Be(4, 7))>>, <<>>, 1..2) :
             n \in (1..17) \cup {250, 251, 252, 4200}}
    \cup {[MyJob(<<>>, <<MyCol("String", V("String", Text(n))), MyCol("Long", V("I64", Be(8, 7)))>>, {2})
           EXCEPT !.max = 20000] : n \in {65535, 65536}}
    \cup {MyJob(args, <<c, MyCol("Long", V("I64", Be(8, 7)))>>, 1..3) :
             args \in {<<>>, <<V("I32", Be(4, 7))>>, SevenMore(Null)}, c \in MyColumns}

-----------------------------------------------------------------------------
(***************************************************************************)
(* SQLite: two parameters and a column, of which two may share a name.     *)
(***************************************************************************)
SqArgs ==
    {Null, V("Bool", <<1>>), V("I32", Be(4, -2)), V("U32", High(4)), V("I64", Be(8, 3)),
     V("U64", High(8)), V("F32", <<63, 192>>), V("F64", <<63, 192>>), V("F64", <<127, 248>>),
     V("String", <<>>), V("String", <<97>>), V("String", JsonNull), V("String", JsonMap),
     V("String", <<123, 97, 125>>), V("Binary", <<>>), V("Binary", <<0, 255>>), List(<<>>), EmptyMap,
     Ext("Timestamp", "I64", Be(8, 77)), Ext("Json", "Binary", JsonMap), Ext("Other", "Binary", <<7>>)}
    \cup {Ext(t, "String", <<49>>) : t \in SqliteText}

\* Columns of a table, and what they mean
SqCols == {<<Bound("NULL", <<>>), Null>>, <<Bound("TEXT", <<97>>), V("String", <<97>>)>>,
           <<Bound("TEXT", <<255>>), Err>>, <<Bound("TEXT", JsonList), List(<<>>)>>,
           <<Bound("BLOB", <<>>), V("Binary", <<>>)>>,
           <<Bound("INTEGER", Be(8, -3)), V("I64", Be(8, -3))>>}

SqJobs == {[drv |-> "sq", args |-> <<a, b>>, cols |-> <<c[1]>>, means |-> <<c[2]>>, names |-> n] :
              a, b \in SqArgs, c \in SqCols, n \in {<<"x", "y", "z">>, <<"x", "y", "x">>}}

-----------------------------------------------------------------------------
(***************************************************************************)
(* PostgreSQL options: names with colons and backslashes, pgpass files     *)
(* with entries for them and for everyone.                                 *)
(***************************************************************************)
NoEnv == [n \in {"PGPORT", "PGHOST", "PGUSER", "PGPASSWORD", "PGDATABASE", "PGSSLROOTCERT", "PGSSLMODE",
                 "PGAPPNAME", "PGOPTIONS"} |-> <<>>]

Envs == {NoEnv, [n \in DOMAIN NoEnv |-> <<<<"1">>>>],
         [NoEnv EXCEPT !.PGPORT = <<<<"x">>>>, !.PGSSLMODE = <<<<"r">>>>, !.PGOPTIONS = <<<<>>>>]}

Odd == {<<"a">>, <<"a", ":", "b">>, <<"\\">>, <<"\\", "a", ":">>}

Urls == {[parses |-> TRUE, host |-> h, port |-> p, username |-> u, password |-> w, path |-> d] :
            h \in {<<>>, <<<<"a", ":", "b">>>>, <<<<"/", "s">>>>}, p \in {<<>>, <<<<"1">>>>},
            u \in {<<>>, <<"a">>}, w \in {<<>>, <<<<"z">>>>}, d \in {<<>>, <<"\\">>}}

Bare == [parses |-> TRUE, host |-> <<>>, port |-> <<>>, username |-> <<>>, password |-> <<>>, path |-> <<>>]

\* Not a URL, and parts of one that are no UTF-8
BadUrls == {[Bare EXCEPT !.parses = FALSE], [Bare EXCEPT !.username = <<"!">>],
            [Bare EXCEPT !.password = <<<<"!">>>>], [Bare EXCEPT !.path = <<"!">>]}
           \cup {[Bare EXCEPT !.host = <<h>>] : h \in {<<"!">>, <<"/", "!">>}}

Entry(h, d, u, w) == [fields |-> <<h, <<>>, d, u>>, pass |-> w]

PassFile(entries, strict) ==
    <<[strict |-> strict, entries |-> entries, lines |-> [i \in DOMAIN entries |-> PgPassLine(entries[i])]]>>

HomeFile == PassFile(<<Entry(<<<<"a", ":", "b">>>>, <<>>, <<<<"a">>>>, <<"1">>),
                       Entry(<<<<"\\", "a", ":">>>>, <<<<"\\">>>>, <<>>, <<"2">>),
                       Entry(<<<<"\\">>>>, <<<<"a">>>>, <<<<"w">>>>, <<"5">>),
                       Entry(<<>>, <<>>, <<>>, <<"y">>)>>, TRUE)

PassFiles == {[PGPASSFILE |-> <<>>, home |-> HomeFile],
              [PGPASSFILE |-> PassFile(<<Entry(<<>>, <<<<"\\">>>>, <<<<"a">>>>, <<"x">>)>>, TRUE),
               home |-> HomeFile],
              [PGPASSFILE |-> PassFile(<<Entry(<<>>, <<>>, <<>>, <<"x">>)>>, FALSE), home |-> <<>>]}

PgParams ==
    {<<"host", h>> : h \in Odd \cup {<<"/", "t">>}} \cup {<<"hostaddr", h>> : h \in {<<"1">>, <<"a">>}}
    \cup {<<"user", u>> : u \in Odd} \cup {<<"dbname", d>> : d \in Odd}
    \cup {<<k, v>> : k \in {"port", "capacity", "sslmode", "timezone_sec"}, v \in {<<"1">>, <<"r">>}}
    \cup {<<k, <<"1">>>> : k \in {"password", "application_name", "sslrootcert", "options", "options[k]",
                                  "unknown"}}

PgoJob(env, url, params, files, via) ==
    [drv |-> "pgo", env |-> env, default_host |-> <<"l">>, url |-> url, params |-> params, files |-> files,
     via |-> via]

PgoJobs ==
    {PgoJob(e, u, <<>>, f, "url") : e \in Envs, u \in Urls \cup BadUrls, f \in PassFiles}
    \cup {PgoJob(NoEnv, Bare, <<p, q>>, f, "url") : p, q \in PgParams, f \in PassFiles}
    \cup {PgoJob(NoEnv, Bare, <<<<"host", h>>, <<"dbname", d>>, <<"user", u>>>>, f, "url") :
             h, d, u \in Odd, f \in PassFiles}
    \cup {PgoJob(e, Bare, <<p, q>>, f, "setters") : e \in Envs, f \in PassFiles,
             p, q \in {r \in PgParams : ParamParses(r[1], r[2]) /\ ~IsPath(r[2])}}

-----------------------------------------------------------------------------
(***************************************************************************)
(* MySQL options: every collation and every character set.                 *)
(***************************************************************************)
MyUrl == [parses |-> TRUE, host |-> <<"h">>, port |-> <<>>, username |-> <<"u">>, password |-> <<>>, path |-> <<"d">>]

MyUrlOf(x) == [f \in DOMAIN MyUrl |-> IF f = "parses" THEN TRUE ELSE x]

MyParams == {<<"charset", c>> : c \in DOMAIN default_collation \cup {"klingon"}}
            \cup {<<"collation", c>> : c \in DOMAIN Collation \cup {"klingon_ci"}}

MyMore == {<<"charset", "latin1">>, <<"collation", "binary">>, <<"socket", "s">>, <<"socket", "t">>,
           <<"ssl_mode", "REQUIRED">>, <<"ssl_mode", "perhaps">>, <<"capacity", "0">>, <<"capacity", "x">>,
           <<"ssl_ca", "f">>, <<"other", "x">>}

MyoJobs == {[drv |-> "myo", url |-> MyUrl, params |-> <<p, q>>] : p \in MyParams, q \in MyMore}
           \cup {[drv |-> "myo", url |-> u, params |-> <<p, q>>] : p, q \in MyMore,
                    u \in {MyUrl, MyUrlOf(<<>>), MyUrlOf(<<"1">>), MyUrlOf(<<"not utf-8">>),
                           [MyUrl EXCEPT !.parses = FALSE], [MyUrl EXCEPT !.password = <<"not utf-8">>]}}

-----------------------------------------------------------------------------
(***************************************************************************)
(* SQLite options: URIs, up to three setters; placeholders: every text of  *)
(* six characters.                                                         *)
(***************************************************************************)
SqoParams == {<<"mode", m>> : m \in {"ro", "rw", "rwc", "memory", "x"}}
             \cup {<<"cache", c>> : c \in {"private", "shared", "x"}}
             \cup {<<"immutable", i>> : i \in {"true", "0", "x"}} \cup {<<"x", "x">>}

Collate(name, f) == <<"collation", [name |-> name, valid |-> name # "nul", f |-> f]>>

SqoCalls == {<<f, b>> : f \in {"read_only", "create_if_missing"}, b \in BOOLEAN}
            \cup {<<k, v>> : k \in {"page_size", "journal_mode", "locking_mode", "key", "user_version"},
                             v \in {"1", "2"}}
            \cup {Collate("c", 1), Collate("c", 2), Collate("d", 1), Collate("nul", 1),
                  <<"serialized", TRUE>>, <<"busy_timeout", MaxTimeout>>, <<"busy_timeout", MaxTimeout + 1>>,
                  <<"filename", "nul">>}

SqoJobs ==
    {[drv |-> "sqo", database |-> d, params |-> <<p, q>>, calls |-> <<c>>] :
        d \in {":memory:", "file"}, p, q \in SqoParams, c \in {<<"read_only", FALSE>>, <<"key", "1">>}}
    \cup {[drv |-> "sqo", database |-> d, params |-> p, calls |-> c] :
        d \in {"file", "not utf-8"}, p \in {<<>>, <<<<"mode", "rw">>>>}, c \in SeqOf(SqoCalls, 2)}
    \cup {[drv |-> "sqo", database |-> "file", params |-> <<>>, calls |-> c] : c \in [1..3 -> SqoCalls]}

ExJobs == {[drv |-> "ex", sql |-> s] : s \in SeqOf({"a", "\\", "?"}, 6)}

-----------------------------------------------------------------------------
(***************************************************************************)
(* SQL Server: two parameters beside a column of each class, and strings   *)
(* of each kind with up to two parameters.                                 *)
(***************************************************************************)
MsArgs ==
    {Null, V("Bool", <<1>>), V("I32", Be(4, -2)), V("U32", High(4)), V("I64", Be(8, 3)), V("U64", High(8)),
     V("F32", <<63, 192, 0, 0>>), V("F64", OneAndHalf), V("String", <<>>), V("Binary", <<0, 255>>),
     List(<<>>), EmptyMap, Ext("Timestamp", "I64", Be(8, 77)), Ext("Json", "String", JsonMap),
     Ext("Other", "Binary", <<7>>)}
    \cup {Ext(t, "String", b) : t \in {"Date", "Time", "Decimal", "Uuid"}, b \in {<<>>, <<1>>}}
    \cup {Ext("DateTime", "String", b) : b \in {<<>>} \cup {<<10, 5, z>> : z \in {-3600, 0, 3600}}}

MsCols ==
    {<<Data("U8", <<200>>), V("U32", Be(4, 200))>>, <<Data("I16", <<255, 254>>), V("I32", Be(4, -2))>>,
     <<Data("Xml", <<97>>), Ext("Xml", "String", <<97>>)>>,
     <<Data("Numeric", <<49>>), Ext("Decimal", "String", <<49>>)>>}
    \cup {<<Data("DateTimeOffset", <<10, 5, z>>), Ext("DateTime", "String", <<10, 5, z>>)>> : z \in {0, 60, 3600}}
    \cup {<<Data(c, <<10, 5>>), Ext("DateTime", "String", <<10, 5, 3600>>)>> :
             c \in {"DateTime", "SmallDateTime", "DateTime2"}}
    \cup {<<NoData(c), Null>> : c \in {"U8", "I16", "I32", "I64", "F32", "F64", "Bit", "String", "Guid", "Binary",
             "Numeric", "Xml", "DateTime", "SmallDateTime", "Time", "Date", "DateTime2", "DateTimeOffset"}}

MsJobs ==
    {[drv |-> "ms", args |-> <<a>>, cols |-> <<c[1]>>, means |-> <<c[2]>>, local |-> 3600, counts |-> n] :
        a \in MsArgs, c \in MsCols, n \in {<<>>, <<2, 3>>}}
    \cup {[drv |-> "ms", args |-> <<a, b>>, cols |-> <<>>, means |-> <<>>, local |-> 3600, counts |-> <<1>>] :
        a, b \in MsArgs}

MsPieces == {<<>>} \cup {<<[name |-> n, coded |-> c]>> : n \in {"n", "not utf-8"}, c \in BOOLEAN}

MsParams == {<<k, v>> : k \in {"encrypt", "trust_cert", "readonly"}, v \in {"true", "false", "x"}}
            \cup {<<"encrypt", "danger_plaintext">>, <<"instance", "i">>, <<"application_name", "a">>,
                  <<"application_name", "b">>, <<"other", "x">>}

MsUrl(scheme, jdbc, user, password, path) ==
    [scheme |-> scheme, jdbc |-> jdbc, host |-> <<"h">>, port |-> <<>>, username |-> user,
     password |-> password, path |-> path]

MsoJobs ==
    {[drv |-> "mso", url |-> MsUrl("mssql", FALSE, u, w, d), params |-> <<>>] : u, w, d \in MsPieces}
    \cup {[drv |-> "mso", url |-> MsUrl("sqlserver", FALSE, <<>>, <<>>, <<>>), params |-> <<p, q>>] :
             p, q \in MsParams}
    \cup {[drv |-> "mso", url |-> MsUrl(x, x = "jdbc" \/ j, <<>>, <<>>, <<>>), params |-> <<>>] :
             x \in {"jdbc", "ado", "mssql"}, j \in BOOLEAN}

-----------------------------------------------------------------------------
\* Streams: every program of up to five steps before it returns.
TsJobs == {[drv |-> "ts", prog |-> Append(s, e)] : s \in SeqOf({"item", "io"}, 5), e \in {"ok", "err"}}

\* Every driver opens the connection that its URL and its setters ask for:
\* PgOptionsAsAsked, MyOptionsAsAsked, SqliteOpensAsAsked and MsOptionsAsAsked
\* say what each driver's options and the code that reads them promise.
OptionsAsAsked == PgOptionsAsAsked /\ MyOptionsAsAsked /\ SqliteOpensAsAsked /\ MsOptionsAsAsked

Init ==
    \/ job \in SqoJobs /\ at = "sqo uri" /\ mem = SqoStart
    \/ job \in ExJobs /\ at = "ex loop" /\ mem = ExStart
    \/ job \in PgJobs /\ at = "pg prepare" /\ mem = PgStart
    \/ job \in MyJobs /\ at = "my add" /\ mem = MyStart
    \/ job \in SqJobs /\ at = "sq add" /\ mem = SqStart
    \/ job \in MsJobs /\ at = "ms open" /\ mem = MsStart
    \/ job \in MsoJobs /\ at = "mso uri" /\ mem = MsoStart
    \/ job \in TsJobs /\ TsInit
    \/ job \in PgoJobs /\ at = "pgo new" /\ mem = PgoStart
    \/ job \in MyoJobs /\ at = "myo url" /\ mem = MyoStart

Next == PgNext \/ MyNext \/ SqNext \/ MsNext \/ MsoNext \/ TsNext \/ PgoNext \/ MyoNext \/ SqoNext \/ ExNext

Spec == Init /\ [][Next]_<<job, at, mem>>
=============================================================================
