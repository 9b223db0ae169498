----------------------------- MODULE SqliteRows -----------------------------
(***************************************************************************)
(* Values through the SQLite driver: Value::encode into bound arguments    *)
(* (types/value.rs, arguments.rs), rows of copied sqlite3_value objects    *)
(* (row.rs, value.rs), Row::get, which takes the value out of the row, and *)
(* Connection::get_values (src/db.rs), which reads a row from its last     *)
(* column to its first.                                                    *)
(***************************************************************************)
EXTENDS Values, SequencesExt

SqliteText == {"Date", "DateTime", "Time", "Decimal", "Uuid"}

\* SqliteArgumentValue: the class it is bound as, and its bytes
Bound(class, b) == [class |-> class, b |-> b]
NullArgument == Bound("NULL", <<>>)

\* Encode for Value; an f32 becomes the f64 of the same number
EncodeSqlite(v) ==
    CASE v.tag \in SqliteText -> Bound("TEXT", v.b)
      [] v.tag = "Timestamp" -> Bound("INTEGER", v.b)
      [] v.tag = "Json" -> Bound("BLOB", v.b)
      [] v.tag = "" /\ v.k = "Bool" -> Bound("INTEGER", Fill(8, 0, v.b))
      [] v.tag = "" /\ v.k \in {"I32", "U32", "I64", "U64"} -> Bound("INTEGER", SignExtend(8, v.b))
      [] v.tag = "" /\ v.k \in {"F32", "F64"} -> Bound("FLOAT", v.b)
      [] v.tag = "" /\ v.k = "String" -> Bound("TEXT", v.b)
      [] v.tag = "" /\ v.k = "Binary" -> Bound("BLOB", v.b)
      [] v.tag = "" /\ v.k \in {"Array", "Map"} -> Bound("TEXT", JsonText(v))
      [] OTHER -> NullArgument

\* is_json_string
is_json_string(s) ==
    \/ s = JsonNull
    \/ s # <<>> /\ <<s[1], s[Len(s)]>> \in {<<123, 125>>, <<91, 93>>}

\* Decode for Value, by the storage class of the value
DecodeSqlite(c) ==
    CASE c.class = "NULL" -> Null
      [] c.class = "INTEGER" -> V("I64", c.b)
      [] c.class = "FLOAT" -> V("F64", c.b)
      [] c.class = "BLOB" -> V("Binary", c.b)
      [] c.class = "TEXT" /\ ~IsUtf8(c.b) -> Err
      [] c.class = "TEXT" /\ IsUtf8(c.b) /\ is_json_string(c.b) /\ from_str(c.b) # Err -> from_str(c.b)
      [] OTHER -> V("String", c.b)

\* External: SELECT of the parameters and of columns of a table.  A NaN is
\* stored as NULL.
Selected(args, cols) ==
    [i \in DOMAIN args |-> IF args[i].class = "FLOAT" /\ args[i].b = <<127, 248>> THEN NullArgument
                           ELSE args[i]] \o cols

-----------------------------------------------------------------------------
SqStart == [args |-> <<>>, values |-> <<>>, got |-> <<>>, map |-> <<>>]

\* SqliteArguments::from_args, one argument
SqAdd ==
    /\ at = "sq add"
    /\ Len(mem.args) < Len(job.args)
    /\ mem' = [mem EXCEPT !.args = Append(@, EncodeSqlite(job.args[Len(@) + 1]))]
    /\ UNCHANGED <<job, at>>

\* SqliteRow::current
SqRow ==
    /\ at = "sq add"
    /\ Len(mem.args) = Len(job.args)
    /\ at' = "sq get"
    /\ mem' = [mem EXCEPT !.values = Selected(mem.args, job.cols)]
    /\ UNCHANGED job

\* try_take: the values behind it move up
Take(values, i) == RemoveAt(values, i)

\* Row::get
SqGet ==
    /\ at = "sq get"
    /\ Len(mem.got) < MaxGets
    /\ \E i \in 1..(Len(job.args) + Len(job.cols)) :
         mem' = IF i > Len(mem.values) THEN [mem EXCEPT !.got = Append(@, <<i, Err>>)]
                ELSE [mem EXCEPT !.got = Append(@, <<i, DecodeSqlite(mem.values[i])>>),
                                 !.values = Take(@, i)]
    /\ UNCHANGED <<job, at>>

\* A map from names to values of the columns, read in this order; its insert
\* replaces an entry of the same name, and the first error ends it.
Gathered(values, names, order) ==
    LET Step(a, i) ==
            LET v == IF i > Len(a.values) THEN Err ELSE DecodeSqlite(a.values[i])
                same == {j \in DOMAIN a.map : a.map[j][1] = names[i]}
            IN  CASE a.st = "err" -> a
                  [] a.st # "err" /\ v = Err -> [a EXCEPT !.st = "err"]
                  [] a.st # "err" /\ v # Err /\ same # {} ->
                        [a EXCEPT !.map[CHOOSE j \in same : TRUE] = <<names[i], v>>,
                                  !.values = Take(@, i)]
                  [] OTHER -> [a EXCEPT !.map = Append(@, <<names[i], v>>), !.values = Take(@, i)]
    IN  FoldLeft(Step, [st |-> "ok", values |-> values, map |-> <<>>], order)

\* A mutant: the columns are read from the first one on.
GetValues_FirstFirst(values, names) == Gathered(values, names, [i \in DOMAIN names |-> i])

\* get_values
GetValues(values, names) == Gathered(values, names, Reverse([i \in DOMAIN names |-> i]))

SqGetValues ==
    /\ at = "sq get"
    /\ mem.got = <<>>
    /\ LET all == GetValues(mem.values, job.names)
       IN  /\ at' = IF all.st = "ok" THEN "sq values" ELSE "sq err"
           /\ mem' = [mem EXCEPT !.map = all.map, !.values = all.values]
    /\ UNCHANGED job

SqNext == SqAdd \/ SqRow \/ SqGet \/ SqGetValues

-----------------------------------------------------------------------------
\* What a parameter comes back as: numbers as i64 and f64 (unsigned ones as
\* signed ones), text that is a JSON list, object or null as what it stands
\* for, Ext values without their tag.
SqEcho(v) ==
    CASE v.tag = "" /\ v.k = "Bool" -> V("I64", Fill(8, 0, v.b))
      [] v.tag = "" /\ v.k \in {"I32", "U32", "I64", "U64"} -> V("I64", SignExtend(8, v.b))
      [] v.tag = "" /\ v.k \in {"F32", "F64"} -> IF v.b = <<127, 248>> THEN Null ELSE V("F64", v.b)
      [] v.tag = "" /\ v.k = "String" /\ v.b \in {JsonNull, JsonList, JsonMap} -> from_str(v.b)
      [] v.tag = "Timestamp" -> V("I64", v.b)
      [] v.tag = "Json" -> V("Binary", v.b)
      [] v.tag \in SqliteText -> V("String", v.b)
      [] v.tag \notin SqliteText \cup {"Timestamp", "Json", ""} -> Null
      [] OTHER -> v

SqExpected == [i \in DOMAIN job.args |-> SqEcho(job.args[i])] \o job.means

\* No column before it, nor itself, was read before the j-th get.
InPlace(j) == \A k \in 1..j - 1 : mem.got[k][1] > mem.got[j][1]

\* Row::get(i) gives the value of column i, parameter or table column, as long
\* as the columns are read from the last one towards the first; so does
\* Connection::get_values, which gives every name the value of the first
\* column of that name.  Only text that is no UTF-8 fails.
SqliteRoundTrip ==
    /\ at = "sq get" =>
         \A j \in DOMAIN mem.got : InPlace(j) => mem.got[j][2] = SqExpected[mem.got[j][1]]
    /\ at = "sq values" =>
         \A n \in Range(job.names) :
            LET own == SelectInSeq(job.names, LAMBDA x : x = n)
            IN  <<n, SqExpected[own]>> \in Range(mem.map)
    /\ at = "sq err" => Err \in Range(SqExpected)

\* Row::get: "get Value from index", whatever was read before.
GetByIndex ==
    at = "sq get" => \A j \in DOMAIN mem.got : mem.got[j][2] = SqExpected[mem.got[j][1]]
=============================================================================
