-------------------------------- MODULE Mssql -------------------------------
(***************************************************************************)
(* The SQL Server driver (rbdc-mssql), a layer over the tiberius client:   *)
(* connection strings, values in and out, rows, and a connection that      *)
(* close() empties.  tiberius and the server are external.                 *)
(*                                                                         *)
(* A ColumnData is its class with an Option of its content.  The content   *)
(* of a point in time is <<second, nanosecond>> of its own clock, followed *)
(* by the clock's offset from UTC where there is one.                      *)
(***************************************************************************)
EXTENDS Values, SequencesExt

Data(class, b) == [class |-> class, b |-> <<b>>]
NoData(class) == [class |-> class, b |-> <<>>]

MsPlain == [Bool |-> "Bit", I32 |-> "I32", I64 |-> "I64", U32 |-> "I32", U64 |-> "I64", F32 |-> "F32",
            F64 |-> "F64", String |-> "String", Binary |-> "Binary"]

NilUuid == [i \in 1..16 |-> 0]

\* Encode for Value: what the query binds, nothing for an Err.  No content
\* stands for text that does not parse.
EncodeMs(v) ==
    CASE v.tag = "" /\ v.k = "Null" -> {NoData("Binary")}
      [] v.tag = "" /\ v.k \in {"Array", "Map"} -> {Data("Binary", JsonText(v))}
      [] v.tag = "" /\ v.k \in DOMAIN MsPlain -> {Data(MsPlain[v.k], v.b)}
      [] v.tag \in {"Date", "Time"} /\ v.b # <<>> -> {Data(v.tag, v.b)}
      [] v.tag = "DateTime" /\ v.b # <<>> -> {Data("DateTime2", SubSeq(v.b, 1, 2))}
      [] v.tag = "Decimal" /\ v.b # <<>> -> {Data("Numeric", v.b)}
      [] v.tag = "Timestamp" -> {Data("I64", v.b)}
      [] v.tag = "Uuid" -> {Data("Guid", IF v.b = <<>> THEN NilUuid ELSE v.b)}
      [] OTHER -> {}

\* DateTimeFromNativeDatetime: read as UTC, moved to the local offset and back
\* by as much
FromNative(b, local) ==
    LET shown == b[1] + local IN <<shown - local, b[2], local>>

\* A clock's offset is less than a day; what becomes of another one is up to
\* fastdate.
Day == 86400
Billion == 1000000000

\* DateTimeOffset: sixty times the offset, its sign turned, taken off as
\* nanoseconds and made the new offset
FromOffset(b) ==
    LET turned == -b[3] * 60
        nanos == b[2] - turned
        instant == b[1] - b[3] + nanos \div Billion
    IN  IF turned \in (-Day)..Day
        THEN {Ext("DateTime", "String", <<instant + turned, nanos % Billion, turned>>)}
        ELSE Overflow

\* Decode for Value
DecodeMs(c, local) ==
    LET b == c.b[1] IN
    CASE c.b = <<>> -> {Null}
      [] c.b # <<>> /\ c.class = "U8" -> {V("U32", Fill(4, 0, b))}
      [] c.b # <<>> /\ c.class = "I16" -> {V("I32", SignExtend(4, b))}
      [] c.b # <<>> /\ c.class = "Bit" -> {V("Bool", b)}
      [] c.b # <<>> /\ c.class \in {"I32", "I64", "F32", "F64", "String", "Binary"} -> {V(c.class, b)}
      [] c.b # <<>> /\ c.class = "Guid" -> {Ext("Uuid", "String", b)}
      [] c.b # <<>> /\ c.class = "Numeric" -> {Ext("Decimal", "String", b)}
      [] c.b # <<>> /\ c.class \in {"Xml", "Date", "Time"} -> {Ext(c.class, "String", b)}
      [] c.b # <<>> /\ c.class \in {"DateTime", "SmallDateTime", "DateTime2"} ->
            {Ext("DateTime", "String", FromNative(b, local))}
      [] c.b # <<>> /\ c.class = "DateTimeOffset" -> FromOffset(b)

-----------------------------------------------------------------------------
(* A connection.  Its calls are made one after the other, in any order. *)

MsStart == [inner |-> TRUE, bound |-> <<>>, rows |-> <<>>, got |-> <<>>, affected |-> 0, served |-> <<>>,
            closed |-> FALSE]

\* get_rows and exec bind their parameters before they look at the client.
MsBind ==
    /\ at = "ms open" /\ Len(mem.bound) < Len(job.args)
    /\ LET x == EncodeMs(job.args[Len(mem.bound) + 1])
       IN  \/ \E d \in x : mem' = [mem EXCEPT !.bound = Append(@, d)] /\ at' = at
           \/ x = {} /\ at' = "ms refused" /\ UNCHANGED mem
    /\ UNCHANGED job

AllBound == at = "ms open" /\ Len(mem.bound) = Len(job.args)

\* inner.as_mut().ok_or_else(..)
IsClosed == ~mem.inner

\* External: a first result that echoes the parameters beside stored columns,
\* a second one of stored columns only.
Results == <<<<mem.bound \o job.cols>>, <<job.cols, job.cols>>>>

Refused == at' = "ms refused" /\ UNCHANGED mem

\* The rows of all results, one behind the other
MsGetRows ==
    /\ AllBound
    /\ \/ IsClosed /\ Refused
       \/ ~IsClosed /\ at' = "ms rows"
          /\ mem' = [mem EXCEPT !.rows = FlattenSeq(Results), !.served = Append(@, mem.closed)]
    /\ UNCHANGED job

\* rows_affected is the sum over the statements of the batch.
MsExec ==
    /\ AllBound
    /\ \/ IsClosed /\ Refused
       \/ ~IsClosed /\ at' = "ms executed"
          /\ mem' = [mem EXCEPT !.affected = FoldLeft(LAMBDA s, n : s + n, 0, job.counts),
                                !.served = Append(@, mem.closed)]
    /\ UNCHANGED job

\* Bound: the commands before a query.
MaxCommands == 1

\* ping, begin, commit, rollback
MsCommand ==
    /\ at = "ms open" /\ Len(mem.served) < MaxCommands
    /\ \/ IsClosed /\ Refused
       \/ ~IsClosed /\ mem' = [mem EXCEPT !.served = Append(@, mem.closed)] /\ UNCHANGED at
    /\ UNCHANGED job

\* A mutant: the client is closed where it is.
MsClose_Kept ==
    /\ at = "ms open"
    /\ mem' = [mem EXCEPT !.closed = TRUE]
    /\ UNCHANGED <<job, at>>

\* close() takes the client out before it awaits, so the connection is empty
\* also when the server fails or the future is dropped there.
MsClose ==
    /\ at = "ms open"
    /\ mem' = [mem EXCEPT !.inner = FALSE, !.closed = TRUE]
    /\ UNCHANGED <<job, at>>

\* Row::get: any column, as often as one likes; there is a panic behind the last
MsGet ==
    /\ at = "ms rows" /\ Len(mem.got) < MaxGets
    /\ \E r \in DOMAIN mem.rows : \E i \in 1..(Len(mem.rows[r]) + 1) :
         \E v \in IF i > Len(mem.rows[r]) THEN {Panic} ELSE DecodeMs(mem.rows[r][i], job.local) :
            mem' = [mem EXCEPT !.got = Append(@, <<r, i, v>>)]
    /\ UNCHANGED <<job, at>>

MsNext == MsBind \/ MsGetRows \/ MsExec \/ MsCommand \/ MsClose \/ MsGet

\* What a parameter comes back as: unsigned numbers as signed ones, lists and
\* maps as the bytes of their JSON, a timestamp without its tag, the date and
\* time of a DateTime at the local offset.
MsEcho(v) ==
    CASE v.tag = "" /\ v.k \in {"U32", "U64"} -> V(IF v.k = "U32" THEN "I32" ELSE "I64", v.b)
      [] v.tag = "" /\ v.k \in {"Array", "Map"} -> V("Binary", JsonText(v))
      [] v.tag = "Timestamp" -> V("I64", v.b)
      [] v.tag = "DateTime" -> Ext("DateTime", "String", <<v.b[1], v.b[2], job.local>>)
      [] v.tag = "Uuid" /\ v.b = <<>> -> Ext("Uuid", "String", NilUuid)
      [] OTHER -> v

\* The column i of row r, by what was bound and what the job says is stored.
MsColumn(r, i) ==
    LET shift == IF r = 1 THEN Len(job.args) ELSE 0
    IN  IF i <= shift THEN MsEcho(job.args[i]) ELSE job.means[i - shift]

\* The one class that does not come back: DecodeMs moves its offset.
MsShifted(d) == d.class = "DateTimeOffset" /\ d.b # <<>> /\ d.b[1][3] # 0

MsRefuses(v) ==
    \/ v.tag \in {"Date", "Time", "DateTime", "Decimal"} /\ v.b = <<>>
    \/ v.tag \notin {"", "Date", "Time", "DateTime", "Decimal", "Timestamp", "Uuid"}

\* get gives every column of every row of every result its own value, in any
\* order and again and again, unless it is a DateTimeOffset away from UTC;
\* nothing reaches the server after close(); a call is refused only after
\* close() or for a value that has no SQL Server type; exec counts the rows of
\* all statements.
MsRoundTrip ==
    job.drv = "ms" =>
        /\ at = "ms rows" => Len(mem.rows) = 3
        /\ \A g \in Range(mem.got) :
               LET row == mem.rows[g[1]]
               IN  IF g[2] > Len(row) THEN g[3] = Panic
                   ELSE g[3] = MsColumn(g[1], g[2]) \/ MsShifted(row[g[2]])
        /\ TRUE \notin Range(mem.served)
        /\ at = "ms refused" => mem.closed \/ \E v \in Range(job.args) : MsRefuses(v)
        /\ at = "ms executed" => mem.affected = MapThenSumSet(LAMBDA i : job.counts[i], DOMAIN job.counts)

\* Not so: a DateTimeOffset comes back whatever its offset is.
MsOffsetKept ==
    \A g \in IF at = "ms rows" THEN Range(mem.got) ELSE {} :
        g[2] <= Len(mem.rows[g[1]]) => g[3] = MsColumn(g[1], g[2])

-----------------------------------------------------------------------------
(* Connection strings.  A piece of a URL is a name and whether it is percent-encoded. *)

MsDefaults == [host |-> <<>>, port |-> <<>>, user |-> <<>>, password |-> <<>>, database |-> <<>>,
               instance_name |-> <<>>, application_name |-> <<>>, encryption |-> "default",
               trust |-> FALSE, readonly |-> FALSE]

MsoStart == [self |-> [MsDefaults EXCEPT !.trust = TRUE], config |-> MsDefaults, done |-> 0]

\* percent_decode_str(..).decode_utf8(), and the piece as it stands
Decoded(x) == <<x.name>>
Raw(x) == IF x.coded THEN <<"%", x.name>> ELSE <<x.name>>
Decodes(x) == ~(x.coded /\ x.name = "not utf-8")

\* set_uri: which kind of string it is; the first test looks for jdbc anywhere.
\* What tiberius makes of a JDBC or an ADO string is external.
MsoUri ==
    /\ at = "mso uri"
    /\ CASE job.url.jdbc -> /\ at' \in {"mso err"} \cup (IF job.url.scheme = "jdbc" THEN {"mso trust"} ELSE {})
                            /\ UNCHANGED mem
         [] ~job.url.jdbc /\ job.url.scheme = "ado" -> at' \in {"mso trust", "mso err"} /\ UNCHANGED mem
         [] ~job.url.jdbc /\ job.url.scheme \in {"mssql", "sqlserver"} ->
               LET Opt(o) == IF o = <<>> THEN <<>> ELSE Decoded(o[1])
                   user == job.url.username
               IN  IF user # <<>> /\ ~(Decodes(user[1]) /\ (job.url.password = <<>> \/ Decodes(job.url.password[1])))
                   THEN at' = "mso err" /\ UNCHANGED mem
                   ELSE /\ at' = "mso params"
                        /\ mem' = [mem EXCEPT !.config.host = job.url.host,
                                              !.config.port = job.url.port,
                                              !.config.user = Opt(user),
                                              !.config.password = IF user = <<>> THEN <<>> ELSE Opt(job.url.password),
                                              !.config.database = IF job.url.path = <<>> THEN <<>>
                                                                  ELSE Raw(job.url.path[1])]
    /\ UNCHANGED job

\* The query parameters; {} for a value that is refused
MsParam(o, key, v) ==
    CASE key = "instance" -> {[o EXCEPT !.instance_name = <<v>>]}
      [] key = "application_name" -> {[o EXCEPT !.application_name = <<v>>]}
      [] key = "encrypt" -> {[o EXCEPT !.encryption = x[2]] : x \in {y \in
            {<<"true", "Required">>, <<"false", "Off">>, <<"danger_plaintext", "NotSupported">>} : y[1] = v}}
      [] key = "trust_cert" -> {[o EXCEPT !.trust = @ \/ v = "true"] : x \in {v} \cap {"true", "false"}}
      [] key = "readonly" -> {[o EXCEPT !.readonly = x = "true"] : x \in {v} \cap {"true", "false"}}
      [] OTHER -> {o}

MsoParam ==
    /\ at = "mso params" /\ mem.done < Len(job.params)
    /\ LET p == job.params[mem.done + 1]
           x == MsParam(mem.config, p[1], p[2])
       IN  \/ \E o \in x : mem' = [mem EXCEPT !.config = o, !.done = @ + 1] /\ UNCHANGED at
           \/ x = {} /\ at' = "mso err" /\ UNCHANGED mem
    /\ UNCHANGED job

\* trust_cert(), and the options become the ones of the string
MsoTrust ==
    /\ \/ at = "mso trust"
       \/ at = "mso params" /\ mem.done = Len(job.params)
    /\ at' = "mso done"
    /\ mem' = [mem EXCEPT !.self = [mem.config EXCEPT !.trust = TRUE]]
    /\ UNCHANGED job

MsoNext == MsoUri \/ MsoParam \/ MsoTrust

MsLast(key, before) ==
    LET given == {i \in DOMAIN job.params : job.params[i][1] = key}
    IN  IF given = {} THEN before ELSE job.params[CHOOSE i \in given : \A j \in given : j <= i][2]

\* set_uri takes user and password decoded and the last value of every
\* parameter; a string it refuses, for a value that is none, text that is no
\* UTF-8 or the word jdbc in another kind of string, leaves the options alone.
MsOptionsAsAsked ==
    job.drv = "mso" =>
        /\ at = "mso done" /\ job.url.scheme \in {"mssql", "sqlserver"} =>
             /\ mem.self.user = IF job.url.username = <<>> THEN <<>> ELSE <<job.url.username[1].name>>
             /\ mem.self.encryption =
                  [true |-> "Required", false |-> "Off", danger_plaintext |-> "NotSupported",
                   default |-> "default"][MsLast("encrypt", "default")]
             /\ mem.self.readonly <=> MsLast("readonly", "false") = "true"
             /\ mem.self.application_name = IF MsLast("application_name", "") = "" THEN <<>>
                                            ELSE <<MsLast("application_name", "")>>
        /\ at = "mso err" =>
             /\ mem.self = MsoStart.self
             /\ \/ job.url.jdbc \/ job.url.scheme = "ado"
                \/ \E x \in Range(job.url.username \o job.url.password) : ~Decodes(x)
                \/ \E p \in Range(job.params) : MsParam(MsDefaults, p[1], p[2]) = {}

\* Not so: the certificate is trusted only where the string says so, and the
\* database is decoded like the user.
MsTrustAsAsked == at = "mso done" => mem.self.trust = (MsLast("trust_cert", "false") = "true")
MsDatabaseDecoded == at = "mso done" /\ job.url.path # <<>> => mem.self.database = Decoded(job.url.path[1])
=============================================================================
