------------------------------ MODULE PgOptions -----------------------------
(***************************************************************************)
(* The options of a PostgreSQL connection (options/): defaults from the    *)
(* environment, the fields and the query parameters of a URL, builder      *)
(* calls, and the password from a pgpass file.  A text is a sequence of    *)
(* characters, an Option is a sequence of at most one element.             *)
(***************************************************************************)
EXTENDS Values, SequencesExt

Digit == {"1", "5"}
IsNumber(s) == s # <<>> /\ Range(s) \subseteq Digit
IsAddress(s) == IsNumber(s)                  \* stands for IpAddr::from_str
IsPath(s) == s # <<>> /\ s[1] = "/"
PgSslModeNames == {<<"d">>, <<"r">>}         \* stands for PgSslMode::from_str

unwrap_or(option, default) == IF option = <<>> THEN default ELSE option[1]

\* new_without_pgpass; a port or a mode that cannot be parsed is ignored
new_without_pgpass(env, default_host) ==
    [port |-> IF env.PGPORT # <<>> /\ IsNumber(env.PGPORT[1]) THEN env.PGPORT[1] ELSE <<"5">>,
     host |-> unwrap_or(env.PGHOST, default_host),
     socket |-> <<>>,
     username |-> unwrap_or(env.PGUSER, <<"w">>),
     password |-> env.PGPASSWORD,
     database |-> env.PGDATABASE,
     ssl_root_cert |-> env.PGSSLROOTCERT,
     ssl_mode |-> IF env.PGSSLMODE # <<>> /\ env.PGSSLMODE[1] \in PgSslModeNames
                  THEN env.PGSSLMODE[1] ELSE <<"p">>,
     statement_cache_capacity |-> <<"1">>,
     application_name |-> env.PGAPPNAME,
     options |-> env.PGOPTIONS,
     timezone_sec |-> <<>>]

\* fetch_socket: the directory of the socket
fetch_socket(o) ==
    CASE o.socket # <<>> -> o.socket
      [] o.socket = <<>> /\ IsPath(o.host) -> <<o.host>>
      [] OTHER -> <<>>

-----------------------------------------------------------------------------
(***************************************************************************)
(* pgpass.rs                                                               *)
(***************************************************************************)
\* A mutant: a backslash goes on escaping what follows the next character.
find_next_field_Sticky(line) ==
    LET Step(a, idx) ==
            CASE a.end # 0 -> a
              [] a.end = 0 /\ line[idx] = ":" /\ ~a.escaping -> [a EXCEPT !.end = idx]
              [] a.end = 0 /\ line[idx] = "\\" ->
                    [a EXCEPT !.field = @ \o (IF a.escaping THEN <<"\\">>
                                              ELSE SubSeq(line, a.last_added + 1, idx - 1)),
                              !.escaping = ~@, !.last_added = idx]
              [] OTHER -> a
        end == FoldLeft(Step, [end |-> 0, escaping |-> FALSE, field |-> <<>>, last_added |-> 0],
                        [i \in DOMAIN line |-> i])
    IN  IF end.end = 0 THEN <<>>
        ELSE <<end.field \o SubSeq(line, end.last_added + 1, end.end - 1),
               SubSeq(line, end.end + 1, Len(line))>>

\* find_next_field: the field without its escapes, and what follows it
find_next_field(line) ==
    LET Step(a, idx) ==
            CASE a.end # 0 -> a
              [] a.end = 0 /\ line[idx] = ":" /\ ~a.escaping -> [a EXCEPT !.end = idx]
              [] a.end = 0 /\ line[idx] = "\\" ->
                    [a EXCEPT !.field = @ \o (IF a.escaping THEN <<"\\">>
                                              ELSE SubSeq(line, a.last_added + 1, idx - 1)),
                              !.escaping = ~@, !.last_added = idx]
              [] OTHER -> [a EXCEPT !.escaping = FALSE]
        end == FoldLeft(Step, [end |-> 0, escaping |-> FALSE, field |-> <<>>, last_added |-> 0],
                        [i \in DOMAIN line |-> i])
    IN  IF end.end = 0 THEN <<>>
        ELSE <<end.field \o SubSeq(line, end.last_added + 1, end.end - 1),
               SubSeq(line, end.end + 1, Len(line))>>

\* matches_next_field: what follows the field, if it matches
matches_next_field(rest, value) ==
    IF rest = <<>> THEN <<>>
    ELSE LET field == find_next_field(rest[1])
         IN  IF field # <<>> /\ field[1] \in {<<"*">>, value} THEN <<field[2]>> ELSE <<>>

IsComment(line) == line = <<>> \/ line[1] = "#"

load_password_from_line(line, target) ==
    IF IsComment(line) THEN <<>> ELSE FoldLeft(matches_next_field, <<line>>, target)

\* load_password_from_file: <<>> also when it is missing or open to others
load_password_from_file(file, target) ==
    IF file = <<>> \/ ~file[1].strict THEN <<>>
    ELSE FoldLeft(LAMBDA p, line : IF p # <<>> THEN p ELSE load_password_from_line(line, target),
                  <<>>, file[1].lines)

load_password(files, target) ==
    LET custom == load_password_from_file(files.PGPASSFILE, target)
    IN  IF custom # <<>> THEN custom ELSE load_password_from_file(files.home, target)

PgTarget(o) == <<o.host, o.port, unwrap_or(o.database, <<>>), o.username>>

apply_pgpass(o, files) ==
    IF o.password # <<>> THEN o ELSE [o EXCEPT !.password = load_password(files, PgTarget(o))]

-----------------------------------------------------------------------------
(***************************************************************************)
(* The setters, by the query parameter that calls them.                    *)
(***************************************************************************)
Plain == [port |-> "port", user |-> "username", sslmode |-> "ssl_mode", hostaddr |-> "host",
          capacity |-> "statement_cache_capacity"]
Optional == [dbname |-> "database", password |-> "password", application_name |-> "application_name",
             timezone_sec |-> "timezone_sec", sslrootcert |-> "ssl_root_cert"]

\* FromStr of the value
ParamParses(key, v) ==
    /\ key \in {"port", "capacity", "timezone_sec"} => IsNumber(v)
    /\ key = "hostaddr" => IsAddress(v)
    /\ key = "sslmode" => v \in PgSslModeNames

\* options[k]=v becomes "-c k=v"; the two ways to add to the options differ in
\* the blank after an empty text.
SetParam(o, key, v) ==
    LET before == unwrap_or(o.options, <<>>)
        setting == <<"-", "c", " ", "k", "=">> \o v
    IN  CASE key \in DOMAIN Plain -> [o EXCEPT ![Plain[key]] = v]
          [] key \in DOMAIN Optional -> [o EXCEPT ![Optional[key]] = <<v>>]
          [] key = "host" /\ IsPath(v) -> [o EXCEPT !.socket = <<v>>]
          [] key = "host" /\ ~IsPath(v) -> [o EXCEPT !.host = v]
          [] key = "options" -> [o EXCEPT !.options = IF @ = <<>> THEN <<v>> ELSE <<before \o <<" ">> \o v>>]
          [] key = "options[k]" ->
                [o EXCEPT !.options = <<before \o (IF before = <<>> THEN <<>> ELSE <<" ">>) \o setting>>]
          [] OTHER -> o

PgoStart == [o |-> <<>>, done |-> 0]

\* percent_decode_str(..).decode_utf8(): a "!" stands for encoded bytes that
\* are no UTF-8
DecodesUtf8(s) == "!" \notin Range(s)

\* A host is decoded only if it is the path of a socket, a database never.
UrlDecodes(url) ==
    /\ url.host # <<>> /\ IsPath(url.host[1]) => DecodesUtf8(url.host[1])
    /\ DecodesUtf8(url.username)
    /\ url.password # <<>> => DecodesUtf8(url.password[1])

\* from_str up to the query: host, port, user, password, path of the URL
FromUrl(o, url) ==
    LET host == IF url.host = <<>> THEN o ELSE SetParam(o, "host", url.host[1])
    IN  [host EXCEPT !.port = unwrap_or(url.port, @),
                     !.username = IF url.username = <<>> THEN @ ELSE url.username,
                     !.password = IF url.password = <<>> THEN @ ELSE url.password,
                     !.database = IF url.path = <<>> THEN @ ELSE <<url.path>>]

\* PgConnectOptions::from_str begins, or new() is called
PgoNew ==
    /\ at = "pgo new"
    /\ LET o == new_without_pgpass(job.env, job.default_host)
       IN  IF job.via = "url" /\ ~(job.url.parses /\ UrlDecodes(job.url))
           THEN at' = "pgo err" /\ UNCHANGED mem
           ELSE /\ at' = "pgo params"
                /\ mem' = [mem EXCEPT !.o = IF job.via = "url" THEN FromUrl(o, job.url)
                                            ELSE apply_pgpass(o, job.files)]
    /\ UNCHANGED job

\* One query parameter, or one call of a setter
PgoParam ==
    /\ at = "pgo params"
    /\ mem.done < Len(job.params)
    /\ LET key == job.params[mem.done + 1][1]
           v == job.params[mem.done + 1][2]
       IN  IF ParamParses(key, v)
           THEN at' = at /\ mem' = [o |-> SetParam(mem.o, key, v), done |-> mem.done + 1]
           ELSE at' = "pgo err" /\ UNCHANGED mem
    /\ UNCHANGED job

PgoDone ==
    /\ at = "pgo params"
    /\ mem.done = Len(job.params)
    /\ at' = "pgo done"
    /\ mem' = IF job.via = "url" THEN [mem EXCEPT !.o = apply_pgpass(@, job.files)] ELSE mem
    /\ UNCHANGED job

PgoNext == PgoNew \/ PgoParam \/ PgoDone
-----------------------------------------------------------------------------
\* External: a pgpass file as its author writes it.  An entry has four fields,
\* each a text or <<>> for any, and a password.
Escape(s) == FlattenSeq([i \in DOMAIN s |-> IF s[i] \in {":", "\\"} THEN <<"\\", s[i]>> ELSE <<s[i]>>])

PgPassLine(entry) ==
    FlattenSeq([i \in 1..4 |-> (IF entry.fields[i] = <<>> THEN <<"*">> ELSE Escape(entry.fields[i][1]))
                               \o <<":">>]) \o entry.pass

\* What the entries of a file say about a target.
Says(file, target) ==
    LET entries == IF file = <<>> \/ ~file[1].strict THEN <<>> ELSE file[1].entries
        own == SelectInSeq(entries, LAMBDA e : \A i \in 1..4 : e.fields[i] \in {<<>>, <<target[i]>>})
    IN  IF own = 0 THEN <<>> ELSE <<entries[own].pass>>

\* The value asked for last: a parameter, a part of the URL, the environment,
\* a default.
LastOf(keys, before) ==
    LET given == {i \in DOMAIN job.params : job.params[i][1] \in keys}
    IN  IF given = {} THEN before ELSE <<job.params[CHOOSE i \in given : \A j \in given : j <= i][2]>>

FirstOf(a, b) == IF a # <<>> THEN a ELSE b

UrlOr(part, name) == FirstOf(IF job.via = "url" THEN part ELSE <<>>, job.env[name])

\* The options are what was asked for last, in the order environment, URL,
\* parameters; what cannot be parsed or decoded is refused (the URL and its
\* parameters) or ignored (the environment), and nothing else.  A password is looked up only if none was given, and is
\* that of the first pgpass entry for the host, port, database and user that
\* the options end up with: fields with escaped colons and backslashes match
\* exactly the names they stand for.
PgOptionsAsAsked ==
    /\ at = "pgo err" =>
        \/ \E p \in Range(job.params) : ~ParamParses(p[1], p[2])
        \/ job.via = "url" /\ (~job.url.parses \/ "!" \in UNION {Range(s) :
                s \in Range(job.url.host \o job.url.password) \cup {job.url.username}})
    /\ at = "pgo done" =>
        LET o == mem.o
            given == LastOf({"password"}, UrlOr(job.url.password, "PGPASSWORD"))
            found == FirstOf(Says(job.files.PGPASSFILE, PgTarget(o)), Says(job.files.home, PgTarget(o)))
            port == UrlOr(job.url.port, "PGPORT")
            user == UrlOr(IF job.url.username = <<>> THEN <<>> ELSE <<job.url.username>>, "PGUSER")
            path == IF job.url.path = <<>> THEN <<>> ELSE <<job.url.path>>
        IN  /\ o.port = unwrap_or(LastOf({"port"}, IF port # <<>> /\ IsNumber(port[1]) THEN port ELSE <<>>),
                                  <<"5">>)
            /\ o.username = unwrap_or(LastOf({"user"}, user), <<"w">>)
            /\ o.database = LastOf({"dbname"}, UrlOr(path, "PGDATABASE"))
            /\ o.application_name = LastOf({"application_name"}, job.env.PGAPPNAME)
            /\ o.timezone_sec = LastOf({"timezone_sec"}, <<>>)
            /\ job.via = "url" => o.password = FirstOf(given, found)
            /\ job.via = "url" => job.url.parses /\ DecodesUtf8(job.url.username)

\* Not so: with the setters too, the password is the one of the final target
\* (new() looks it up before they are called).
PgPassOfTarget ==
    at = "pgo done" /\ job.env.PGPASSWORD = <<>> /\ LastOf({"password"}, <<>>) = <<>> =>
        mem.o.password = FirstOf(Says(job.files.PGPASSFILE, PgTarget(mem.o)),
                                 Says(job.files.home, PgTarget(mem.o)))

\* Not so: the host given last is the one connected to (a socket stays).
LastHost == at = "pgo done" /\ LastOf({"host"}, <<>>) # <<>> =>
                LastOf({"host"}, <<>>) \in {<<mem.o.host>>, fetch_socket(mem.o)}
                /\ (~IsPath(LastOf({"host"}, <<>>)[1]) => fetch_socket(mem.o) = <<>>)
=============================================================================
