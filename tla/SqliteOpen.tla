----------------------------- MODULE SqliteOpen -----------------------------
(***************************************************************************)
(* Opening a SQLite database: the URI and the setters (options/),          *)
(* sqlite3_open_v2 with its flags and the busy timeout                     *)
(* (connection/establish.rs), the initial PRAGMAs and the collations       *)
(* (options/connect.rs, connection/collation.rs).  Every call of SQLite    *)
(* may fail.                                                               *)
(***************************************************************************)
EXTENDS Values, SequencesExt

DefaultPragmas ==
    <<<<"page_size", "4096">>, <<"locking_mode", "NORMAL">>, <<"journal_mode", "WAL">>,
      <<"foreign_keys", "ON">>, <<"synchronous", "FULL">>, <<"auto_vacuum", "NONE">>>>

\* SqliteConnectOptions::new
SqliteDefaults ==
    [filename |-> ":memory:", in_memory |-> FALSE, read_only |-> FALSE, create_if_missing |-> TRUE,
     shared_cache |-> FALSE, immutable |-> FALSE, serialized |-> FALSE, busy_timeout |-> 5,
     pragmas |-> DefaultPragmas, collations |-> <<>>]

Flags == {"in_memory", "read_only", "create_if_missing", "shared_cache", "immutable", "serialized"}

\* IndexMap::insert: an entry keeps its place
Insert(map, k, v) ==
    IF \E i \in DOMAIN map : map[i][1] = k
    THEN [i \in DOMAIN map |-> IF map[i][1] = k THEN <<k, v>> ELSE map[i]]
    ELSE Append(map, <<k, v>>)

\* The setters; those of one PRAGMA each are calls of pragma
SetSqlite(o, call) ==
    CASE call[1] \in Flags \cup {"filename", "busy_timeout"} -> [o EXCEPT ![call[1]] = call[2]]
      [] call[1] = "collation" -> [o EXCEPT !.collations = Append(@, call[2])]
      [] OTHER -> [o EXCEPT !.pragmas = Insert(@, call[1], call[2])]

\* A query parameter of the URI, as the fields it sets; {} is an error
UriParam(key, value) ==
    LET none == [f \in {} |-> TRUE]
        memory == [f \in {"in_memory", "shared_cache"} |-> TRUE]
        One(f, b) == [x \in {f} |-> b]
    IN  CASE <<key, value>> = <<"mode", "ro">> -> {One("read_only", TRUE)}
          [] <<key, value>> = <<"mode", "rw">> -> {none}
          [] <<key, value>> = <<"mode", "rwc">> -> {One("create_if_missing", TRUE)}
          [] <<key, value>> = <<"mode", "memory">> -> {memory}
          [] key = "cache" /\ value \in {"private", "shared"} -> {One("shared_cache", value = "shared")}
          [] key = "immutable" /\ value \in {"true", "1", "false", "0"} ->
                {One("immutable", value \in {"true", "1"})}
          [] OTHER -> {}

SqoStart == [o |-> SqliteDefaults, done |-> 0, handle |-> "none", flags |-> {}, name |-> <<>>,
             ran |-> <<>>, registered |-> <<>>, raw |-> <<>>]

\* from_str up to the query
SqoUri ==
    /\ at = "sqo uri"
    /\ at' = IF job.database = "not utf-8" THEN "sqo err" ELSE "sqo params"
    /\ mem' = IF job.database = ":memory:"
              THEN [mem EXCEPT !.o.in_memory = TRUE, !.o.shared_cache = TRUE,
                               !.o.filename = "file:rbdc-in-memory"]
              ELSE [mem EXCEPT !.o.filename = job.database]
    /\ UNCHANGED job

SqoParam ==
    /\ at = "sqo params"
    /\ mem.done < Len(job.params)
    /\ LET set == UriParam(job.params[mem.done + 1][1], job.params[mem.done + 1][2])
       IN  IF set = {} THEN at' = "sqo err" /\ UNCHANGED mem
           ELSE \E s \in set :
                  /\ at' = at
                  /\ mem' = [mem EXCEPT !.o = [f \in DOMAIN @ |-> IF f \in DOMAIN s THEN s[f] ELSE @[f]],
                                        !.done = @ + 1]
    /\ UNCHANGED job

SqoParsed ==
    /\ at = "sqo params"
    /\ mem.done = Len(job.params)
    /\ at' = "sqo calls"
    /\ mem' = [mem EXCEPT !.done = 0]
    /\ UNCHANGED job

SqoCall ==
    /\ at = "sqo calls"
    /\ mem.done < Len(job.calls)
    /\ mem' = [mem EXCEPT !.o = SetSqlite(@, job.calls[mem.done + 1]), !.done = @ + 1]
    /\ UNCHANGED <<job, at>>

-----------------------------------------------------------------------------
\* EstablishParams::from_options: the flags
open_flags(o) ==
    {IF o.serialized THEN "FULLMUTEX" ELSE "NOMUTEX", IF o.shared_cache THEN "SHAREDCACHE" ELSE "PRIVATECACHE"}
    \cup (CASE o.read_only -> {"READONLY"}
            [] ~o.read_only /\ o.create_if_missing -> {"CREATE", "READWRITE"}
            [] OTHER -> {"READWRITE"})
    \cup (IF o.in_memory THEN {"MEMORY"} ELSE {}) \cup (IF o.immutable THEN {"URI"} ELSE {})

\* The whole seconds whose milliseconds fit an i32
MaxTimeout == 2147483

\* from_options and establish: a name with a nul byte, no memory, a database
\* that cannot be opened, a timeout that does not fit (a panic of the worker),
\* a refused timeout; the handle is closed wherever it goes out of scope
SqoOpen ==
    /\ at = "sqo calls"
    /\ mem.done = Len(job.calls)
    /\ LET opened == [mem EXCEPT !.flags = open_flags(mem.o), !.name = <<mem.o.filename, mem.o.immutable>>]
       IN  \/ /\ mem.o.filename # "nul" /\ mem.o.busy_timeout <= MaxTimeout
              /\ at' = "sqo pragmas"
              /\ mem' = [opened EXCEPT !.handle = "open"]
           \/ /\ mem.o.filename # "nul"
              /\ at' = "sqo err"
              /\ mem' = [opened EXCEPT !.handle = "closed"]
           \/ /\ at' = "sqo err"
              /\ UNCHANGED mem
    /\ UNCHANGED job

\* Dropping the connection: the worker closes the handle, SQLite frees the
\* collations it holds.
Closed(m) == [m EXCEPT !.handle = "closed", !.registered = <<>>,
                       !.raw = SelectSeq(@, LAMBDA c : ~c.valid)]

\* A mutant: the pragmas in the order they were set.
InitSql_Unsorted(pragmas) == pragmas

\* The initial statement: the key first
InitSql(pragmas) ==
    SelectSeq(pragmas, LAMBDA p : p[1] = "key") \o SelectSeq(pragmas, LAMBDA p : p[1] # "key")

\* exec of all pragmas in one text; an error ends it after any of them
SqoPragmas ==
    /\ at = "sqo pragmas"
    /\ \/ /\ at' = "sqo collations"
          /\ mem' = [mem EXCEPT !.ran = InitSql(mem.o.pragmas), !.done = 0]
       \/ \E n \in 0..(Len(mem.o.pragmas) - 1) :
             /\ at' = "sqo err"
             /\ mem' = Closed([mem EXCEPT !.ran = SubSeq(InitSql(mem.o.pragmas), 1, n)])
    /\ UNCHANGED job

\* Collation::create: a raw reference to the function is made first; SQLite
\* owns it from then on, or it is taken back, or (a name with a nul byte)
\* nobody has it
SqoCollation ==
    /\ at = "sqo collations"
    /\ mem.done < Len(mem.o.collations)
    /\ LET c == mem.o.collations[mem.done + 1]
           SameName(d) == d.valid /\ d.name = c.name
           replaced == SelectSeq(mem.raw, LAMBDA d : ~SameName(d))
       IN  \/ /\ c.valid
              /\ at' = at
              /\ mem' = [mem EXCEPT !.done = @ + 1, !.registered = Insert(@, c.name, c.f),
                                    !.raw = Append(replaced, c)]
           \/ /\ c.valid
              /\ at' = "sqo err"
              /\ mem' = Closed(mem)
           \/ /\ ~c.valid
              /\ at' = "sqo err"
              /\ mem' = Closed([mem EXCEPT !.raw = Append(@, c)])
    /\ UNCHANGED job

SqoOpened ==
    /\ at = "sqo collations"
    /\ mem.done = Len(mem.o.collations)
    /\ at' = "sqo opened"
    /\ UNCHANGED <<job, mem>>

SqoNext == \/ SqoUri \/ SqoParam \/ SqoParsed \/ SqoCall \/ SqoOpen \/ SqoPragmas \/ SqoCollation
           \/ SqoOpened

-----------------------------------------------------------------------------
Asked == job.params \o job.calls

LastAsked(keys, default) ==
    LET given == {i \in DOMAIN Asked : Asked[i][1] \in keys}
    IN  IF given = {} THEN default ELSE Asked[CHOOSE i \in given : \A j \in given : j <= i][2]

Place(key) == SelectInSeq(mem.ran, LAMBDA p : p[1] = key)

\* A connection that opens has its flags from the last setter of each, a file
\* asked for read-only is never opened for writing, one is created only and
\* always where create_if_missing or mode=rwc say so (nothing is said where
\* neither is given), and its PRAGMAs have run
\* once each, with the value set last, the key before all others, the page
\* size before the other defaults and the locking mode before the journal
\* mode, in whatever order they were set; every collation name has the function
\* set last.  A connection that fails leaves no open handle and no reference to
\* a collation but that of a name with a nul byte.
SqliteOpensAsAsked ==
    /\ at = "sqo opened" =>
        /\ mem.handle = "open"
        /\ LastAsked({"read_only"}, <<"mode", "ro">> \in Range(job.params)) <=> "READONLY" \in mem.flags
        /\ "READONLY" \in mem.flags <=> "READWRITE" \notin mem.flags
        /\ \A b \in BOOLEAN :
              LastAsked({"create_if_missing"}, <<"mode", "rwc">> \in Range(job.params)) = b
                  /\ (b \/ \E i \in DOMAIN job.calls : job.calls[i][1] = "create_if_missing")
              => ("CREATE" \in mem.flags <=> b /\ "READWRITE" \in mem.flags)
        /\ "MEMORY" \in mem.flags <=> job.database = ":memory:" \/ <<"mode", "memory">> \in Range(job.params)
        /\ IsInjective([i \in DOMAIN mem.ran |-> mem.ran[i][1]])
        /\ \A k \in {"key", "user_version"} :
              Place(k) = 0 <=> \A i \in DOMAIN job.calls : job.calls[i][1] # k
        /\ Place("key") \in {0, 1}
        /\ \A d \in {p[1] : p \in Range(DefaultPragmas)} : Place(d) >= Place("page_size")
        /\ Place("locking_mode") < Place("journal_mode")
        /\ \A p \in Range(mem.ran) :
              \/ p[2] = LastAsked({p[1]}, "unset")
              \/ LastAsked({p[1]}, "unset") = "unset" /\ p \in Range(DefaultPragmas)
        /\ \A r \in Range(mem.registered) :
              \E i \in DOMAIN mem.o.collations :
                /\ mem.o.collations[i].name = r[1] /\ mem.o.collations[i].f = r[2]
                /\ \A j \in (i + 1)..Len(mem.o.collations) : mem.o.collations[j].name # r[1]
    /\ at = "sqo err" => mem.handle # "open"
    /\ job.drv = "sqo" =>
        /\ Len(mem.raw) = Len(mem.registered) + Len(SelectSeq(mem.raw, LAMBDA c : ~c.valid))
        /\ \A c \in Range(mem.raw) : ~c.valid => at = "sqo err"

\* Not so: mode=rw opens a file without creating it, as its comment says.
ReadWriteOnly ==
    at = "sqo opened" /\ job.params = <<<<"mode", "rw">>>> /\ job.calls = <<>> => "CREATE" \notin mem.flags

\* Not so: "By default, a new file **will not be** created if one is not found."
NotCreatedByDefault ==
    at = "sqo opened" /\ job.params = <<>> /\ job.calls = <<>> => "CREATE" \notin mem.flags

\* Not so: no reference to a collation is lost.
NoCollationLeaks == at = "sqo err" => mem.raw = <<>>
=============================================================================
