# TLA+ specifications of rbdc

rbdc is a set of Rust database drivers behind one `Connection` trait
(`src/src/db.rs`), with a pool in front of them. This directory holds TLA+ models
of its parts, TLC configurations that check them on small instances, and proofs
that TLAPS checks for every value of the constants.

The drivers are asynchronous. A caller may drop the future of an operation at any
`await`, and the connection is used again afterwards. Most of what is hard to test
in this code follows from that: replies that nobody read, commands half written,
bookkeeping done before the step it describes. The models of the connections
therefore let every operation be dropped at every await, unless a constant says
otherwise. The other half of the code moves values: from the application into bytes
and back, under formats that three servers and a library define. The models of it
follow a value through the whole driver and compare what comes out.

## The system and its parts

| Part | Sources (below `src/`) | Modules |
|---|---|---|
| Connection pool | `rbdc-pool-fast/src/lib.rs`, `src/pool/{guard,manager}.rs` | `FastPool` |
| Prepared-statement cache, used by every driver | `src/common/statement_cache.rs` | `StatementCacheOps`, `StatementCache`, `LruMap` |
| Buffered byte stream under the network drivers | `src/io/{buf_stream,write_and_flush}.rs` | `BufStream`, `BytePipe` |
| Async stream of results | `src/ext/async_stream.rs` | `TryStream` |
| Placeholder exchange | `src/util/exchange.rs` | `Placeholders` |
| TLS upgrade | `src/net/tls/` | `TlsStream` |
| SQLite: client and worker thread | `rbdc-sqlite/src/connection/{worker,mod,executor}.rs` | `SqliteWorker` |
| SQLite: execution of one SQL string | `rbdc-sqlite/src/connection/execute.rs`, `statement/{virtual,handle}.rs`, `arguments.rs` | `SqliteExecute` |
| SQLite: shared cache and unlock-notify | `rbdc-sqlite/src/statement/handle.rs` | `UnlockNotify` |
| SQLite: rows and values; options and opening | `row.rs`, `value.rs`, `types/`; `options/`, `connection/{establish,collation}.rs` | `SqliteRows`; `SqliteOpen` |
| PostgreSQL: connection | `rbdc-pg/src/connection/{executor,mod,stream,describe}.rs` | `PgConnection` |
| PostgreSQL: establishment | `rbdc-pg/src/connection/{establish,sasl,tls}.rs` | `PgEstablish` |
| PostgreSQL: types, values, messages, rows; options | `type_info.rs`, `types/`, `arguments.rs`, `message/`, `row.rs`; `options/` | `PgValues`, `PgDecode`, `PgMessages`, `PgRows`; `PgOptions` |
| MySQL: connection | `rbdc-mysql/src/connection/{executor,mod,stream}.rs` | `MySqlConnection` |
| MySQL: establishment | `rbdc-mysql/src/connection/{establish,auth,tls}.rs` | `MySqlEstablish` |
| MySQL: packets, values, rows; options and collations | `io/`, `protocol/`, `types/`, `stmt.rs`, `row.rs`; `options/`, `collation.rs` | `MySqlValues`, `MySqlRows`; `MySqlOptions` |
| SQL Server driver | `rbdc-mssql/src/` | `Mssql` |
| Common value types, small helpers | `src/types/`, `src/io/{buf,encode,...}.rs` | not modelled |

`PROJECT.json` lists every part with its files and what of it has no model.

How they interact: an application gets a connection from `FastPool`, which pings it
first. `PgEstablish` and `MySqlEstablish` end in the state that `PgConnection` and
`MySqlConnection` start from: a server that waits for a command, and nothing unread
(`StartsClean`). A SQLite connection is a handle on a thread (`SqliteWorker`) that
runs SQL strings (`SqliteExecute`), each step of which may wait for another
connection (`UnlockNotify`). The PostgreSQL and MySQL connections write commands to a
`BufStream` and read replies from it; their results reach the application through two
nested `TryStream`s. All keep prepared statements in a `StatementCache`.

## Modules

Connections and what is below them:

* `StatementCacheOps`: the cache as a sequence of keys, least recently used first,
  with one operator per method. `insert` is written as in the code: it makes room
  (`MakeRoom`), then calls `LruCache::put`, which is external. The driver modules
  use these operators for their own caches.
* `StatementCache`: the state machine around it, with the time of every use.
  `LruMap` is what it promises: a map of bounded size without any order of entries,
  which gives up a statement only into the caller's hands and evicts the one whose
  last use is oldest. `ImplementsLru` is the refinement.
* `BufStream`: bytes. One that arrives is the pair of its message and its place in
  it, so that a lost, repeated or misplaced byte shows. A read takes any part of
  what the socket has, a flush writes any part, and both can be dropped. `BytePipe`
  is what it promises: bytes in order, each once, and the loss of unsent bytes by a
  dropped flush. `ImplementsPipe` is the refinement; the mapping joins the
  read buffer and the socket, and takes what the cursor has passed out of the write
  buffer.
* `SqliteWorker`: the client and the thread. `wpc` and `cpc` are their program
  points; a command carries an identity, so that the oneshot or row channel of an
  abandoned operation is told from the current one. `Recv` moves a waiting sender
  into the channel, as flume does. `Cancel` drops the client's future at any
  await. The mutex of futures-intrusive is `holder` and `waiters`.
* `SqliteExecute`: `ExecuteIter`, `VirtualStatement` and `SqliteArguments::bind`
  over SQLite's statement life cycle. A SQL string is the sequence of its
  statements, a statement the sequence of its parameters.
* `UnlockNotify`: `StatementHandle::step` with its wait for another connection, the
  registration with SQLite, the callback and the two halves of `Notify::fire`.
* `PgConnection`: one operation at a time as a stack of frames, because preparing a
  statement with user-defined types runs other operations in the middle. Every
  `await` of `prepare`, `get_or_prepare`, `run` and `wait_until_ready` is a step.
  `pending_ready_for_query_count`, the cache and the write buffer are as in the
  code; the server reads `sent` and writes `inbox`. A message carries the number of
  the call that caused it, which the client does not look at. A flush dropped at its
  await has handed any part of its messages to the socket, and the rest is gone;
  `torn` remembers that a Sync or Query, already counted, was among the rest.
* `MySqlConnection`: the same for MySQL, with the queue `waiting` in place of the
  count. The awaits at which futures are dropped are the constant `DropAt`, because
  not all of them are safe.
* `TlsStream`, `PgEstablish`, `MySqlEstablish`: opening a connection, against a server
  of any configuration that may die at any moment. Cryptography is symbolic: a hash
  is the record of what it is made from. `MCEstablish` is the sum of both drivers.
* `FastPool`: tasks that get, close and drop connections, `ConnectionManager::check`
  and the close that a dropped `ConnectionGuard` spawns. The crate `fast_pool` is
  external.
* `TryStream`: two nested generators and their channels, polled by one task, with a
  socket that may be ready at any time. What `run` does is a program: a sequence of
  items and waits for the socket that ends with Ok or an error.

Values and options share the three variables of `Values`: the input `job`, the control
point `at` and the program's memory `mem`; `TryStream` does so too. `MCValues` is the
sum of them, one run for all; each behaviour belongs to one part from its first state
on.

* `Values`: `rbs::Value` as a kind, an Ext tag and a content; bytes; numbers at their
  width. A text that the drivers only print and parse (a date, a UUID) is its content
  with a mark, so that reading it without parsing shows.
* `PgValues`, `PgDecode`, `PgMessages`, `PgRows`: the type declared for an
  argument, its bytes, the buffer with its patches, the messages byte by byte, a
  server that reads and answers them, the decoding in both formats, and `Row::get`.
* `MySqlValues`, `MySqlRows`: the same for MySQL, with the null bitmap, length-encoded
  integers, and packets split and joined.
* `SqliteRows`, `Mssql`: the same for SQLite and SQL Server.
* `PgOptions`, `MySqlOptions`, `SqliteOpen`, and the second half of `Mssql`: options
  from defaults, environment, URL, setters and the pgpass file, up to what is opened.
* `Placeholders`: the loop of `impl_exchange`.

The modules `*_proofs` hold theorems about the module they are named after, `MC*` the
constants for TLC. `PgChannel_proofs` and `MySqlChannel_proofs` are the first halves of
those about the two connections. `Common_proofs` is about `StatementCache` and
`FastPool`, `Waiting_proofs` about `UnlockNotify`, `BufStream` and `TryStream`; the
specifications of `FastPool` and `UnlockNotify` have names of their own (`PoolSpec`,
`NotifySpec`), so that one module can extend several. Definitions whose names end in
`_Something` behind a definition of the code, such as `Draining_Never`, are faulty
variants of it. They are used by no specification; putting one in place of the definition makes the property that watches
it fail. `TypeOK` of the connection modules documents the types and is part of the
inductive invariants where there are proofs.

The map in `PROJECT.json` gives the lines of every definition. Definitions keep the
name of the function where the model's step is that function.

## What the runs check

Runs that pass:

* `statement_cache` (3 entries, 4 keys, 8 calls). `ImplementsLru`: every call is a step
  of `LruMap`. What leaves the cache is returned, so that the driver can close it, and
  only the statement not used for longest is evicted. Four keys make every case of
  `insert` happen; eight calls fill the cache, promote, evict and refill.
* `buf` (2 messages of 0, 1 or 3 bytes behind a header of 2, 3 written bytes, 2
  drops). `ImplementsPipe`, and a `recv` that starts on an empty buffer returns once
  its message is there (`RecvReturns`). Bodies shorter and longer than the header make
  the two reads overlap in every way.
* `sqlite_worker` (3 operations, channels of size 1, dropped at any await, used after
  close). The sqlite3 handle is never used by both sides (`LockedOut`) nor after its
  last reference is gone (`OpenWhileUsed`); after `close()` a drop closes the
  database (`CloseThenDrop`); the published cache size is exact when an operation
  has returned (`SizeSettled`); dropping the connection stops the thread and closes
  the database (`DropCloses`). Every operation returns (`CommandResolves`,
  `LockResolves`), except in two states that the properties name: `Stranded`, a
  command accepted between the confirmation of the shutdown and the end of the
  thread, and `Crossed`, where `lock_handle` holds the mutex while its own `UnlockDb`
  waits for room in a full channel and the thread waits for the mutex.
* `sqlite_execute` (scripts of up to three statements with anonymous, numbered and
  named parameters, up to 3 arguments, 4 statement starts per execution). Bindings
  never leak into a later execution (`FreshBindings`), statements start in order
  (`StartsInOrder`), and only the current statement is open (`OnlyCurrentOpen`).
  Where all parameters are `?`, each has the argument of its place in the whole string
  (`ArgsAligned`), up to the first statement whose `bind` fails, at a name it does not
  support or at a value SQLite does not take. That one may run with part of its
  arguments, and those behind it with the arguments it left (`AlignedThroughout` below).
* `unlock_notify` (3 connections, 2 tables, 2 steps each). A callback fires only a
  `Notify` whose owner still waits (`FiresTheWaiting`: SQLite keeps a pointer into the
  owner's stack), whoever sleeps has exactly one wake-up to come (`OneWakeUp`), and it
  arrives (`WokenUp`). Three connections make circles and a third party that takes the
  table first; deadlock is checked.
* `pg` (3 calls, 2 statement identifiers, a cache of 1, one SQL string and one nested
  type query, errors, notifications, COPY, loss of the server, operations dropped at any
  await). The count of expected `ReadyForQuery` messages is exact, and one too high for
  good once a flush was dropped before its Sync was written (`ReadyAccounting`); an
  operation reads only its own replies (`OwnReplies`), a cached statement is one the
  server has under that identifier, although identifiers wrap around
  (`StatementsKnown`), and an operation that returned Ok left the connection ready
  (`OkMeansReady`). Every operation ends, unless the server has come to wait for the
  data of a COPY FROM STDIN or a flush was dropped in that way (`Resolves`).
* `mysql` (3 calls, 2 results per command, a cache of 1, with and without
  `DEPRECATE_EOF`). Between operations `waiting` is empty exactly if no reply is
  under way, and it is never empty where the code unwraps its front (`WaitingExact`);
  an operation reads only its own replies; the cache agrees with the server; every
  operation ends. Futures are dropped wherever `waiting` describes what is left
  (`Recoverable`).
* `pool` (2 tasks, 3 connections, limits 0 to 2, inside a runtime). `get`
  hands out no connection that was closed (`HandsOutOpen`), and one that leaves the
  pool is closed, or its close has had its ten seconds (`AutoClosed`).
* `establish` (every mode, plugin, certificate and server configuration of both
  drivers). TLS is off in the modes that forbid it, on in those that demand it, with the
  certificate those that verify accept, and follows the server in those that prefer it
  (`TlsAsAsked`; nothing is said of `Allow`, nor of the certificate under `Require`, see
  below); packets carry the number the server counts (`SequenceKept`), a connection that
  `establish` returns has nothing unread (`StartsClean`), and `establish` returns
  if the server answers what it is sent or dies (`EstablishEnds`). One thing can be left unread: MySQL's
  `caching_sha2_password` loop ends with AUTH_OK, so the OK a server sends behind it
  stays; `StartsClean` names the case.
* `values` (the inputs of `MCValues`; 2.0 million states). `PgRoundTrip`, `MyRoundTrip`,
  `SqliteRoundTrip`, `MsRoundTrip`: what an application puts into a parameter, or the
  server has in a column, is what `Row::get` gives, whatever stands beside it, in
  whatever order columns are read (SQLite: from the last to the first), except in the
  cases the comment of the property lists (see below).
  `OptionsAsAsked`: the connection that is opened is the one asked for, and a URL that
  does not parse, or whose parts are no UTF-8, is an error.
  `PlaceholdersNumbered`: the loop agrees with a definition by positions, for every
  text of up to six characters. `StreamInStep`: a consumer gets the items in order, no
  generator runs past the item the consumer holds, and nobody sleeps without a waker.

Two runs show a disagreement between the code and what it says; the findings in
`PROJECT.json` have the lines and the quotations:

| Run | What TLC finds |
|---|---|
| `pg_torn` | A flush dropped at its await loses a Query or Sync that is already counted; the next operation waits in `wait_until_ready` for ever (`ResolvesAfterDrop`). |
| `mysql_prepare` | The reply to a dropped Prepare is taken for the reply to the next operation. |

## Properties that do not hold

The modules also state the following, which TLC refutes in the given instance. They
mark the limits of the passing runs, and are kept as definitions to check a change of
the code against.

| Property | Instance | Behaviour |
|---|---|---|
| `SqliteWorker!PingReturns` | `SqliteWorker.cfg` | A ping in the state `Stranded` never returns. |
| `SqliteWorker!LockReturns` | `SqliteWorker.cfg` | `lock_handle` in the state `Crossed` never returns. |
| `SqliteWorker!CloseMeansClosed` | `SqliteWorker.cfg` | `close()` returns Ok while the database is open: the connection object still owns the shared state. `rbdc-sqlite/src/connection/mod.rs:35`: "You can explicitly call .close() to ensure the database is closed successfully". |
| `SqliteExecute!RejectedNotRun` | `Scripts <- NamedScripts` | A statement whose arguments were rejected is run by the next call of `next()`. `rbdc-sqlite/src/arguments.rs:66`: "parameters with non-integer names are not currently supported". |
| `SqliteExecute!AlignedThroughout` | `SqliteExecute.cfg` | After a value that SQLite does not take, the next statement is bound from the arguments of the one that failed. `rbdc-sqlite/src/connection/execute.rs:11-12`: "this keeps track of the number of arguments so far". |
| `SqliteExecute!SuppliedBound` | `Scripts <- NumberedScripts` | A numbered parameter with an argument stays NULL if an earlier one has none. |
| `UnlockNotify!StepEnds` | `UnlockNotify.cfg` | A retry finds that a third connection has taken the table, again and again. |
| `UnlockNotify!NotifyOutlives` | `UnlockNotify.cfg` | `fire` touches the `Notify` once more after its owner has seen the flag and left. |
| `PgConnection!AlwaysResolves` | `PgConnectionTorn.cfg`, `Cancels = FALSE` | After COPY FROM STDIN the next operation waits for ever. |
| `PgConnection!ErrorIsOwn` | `PgConnectionTorn.cfg` | An operation fails with the error of an earlier, dropped one. |
| `MySqlConnection!OwnReplies` | `DropAt <- MCPing` | The OK of a dropped ping is taken for the reply to the next operation. |
| `MySqlConnection!OwnReplies` | `DropAt <- MCMetadata` | Without `DEPRECATE_EOF`, an operation dropped among the definitions leaves its rows to the next one. |
| `MySqlConnection!Resolves` | `DropAt <- MCFlush` | A command dropped while it is flushed leaves a result announced; the next operation waits for ever. |
| `BufStream!RecvAlwaysReturns` | `BufStream.cfg` | After a dropped read that took some bytes, the next one waits for more bytes than its message has. `src/io/buf_stream.rs:107`: "Automatically shrinks the buffer back down if the read is cancelled". |
| `BufStream!RecvWhole` | `BufStream.cfg` | After a drop between header and body, a header is read in the middle of a body. |
| `FastPool!AutoClosed` | `Runtime = FALSE` | A connection discarded outside a runtime is never closed. |
| `TlsStream!RequireVerifies` | `Establish.cfg` | `Require` with a root certificate accepts any certificate. `rbdc-pg/src/options/ssl_mode.rs:18-19`: "If a root CA file is present, verify the connection in the same way as if `VerifyCa` was specified". |
| `PgRows!PgAnyTypes` | `Values.cfg` | The cache is keyed by the SQL text: a second call with other argument types uses the statement prepared for the first. |
| `PgRows!TimestamptzKept` | `Values.cfg` | A `Timestamptz` argument is encoded in local time and comes back moved by the offset of the session. |
| `PgRows!HstoreReads` | `Values.cfg` | A binary hstore is read with the length of the value before the key. `rbdc-pg/src/types/hstore.rs:26`: "supports both TEXT and BINARY formats"; the layout at lines 66-72 has it behind the key. |
| `MySqlRows!ZeroDateIsNull` | `Values.cfg` | A zero DATE comes back as a date. `rbdc-mysql/src/value.rs:87`: "zero dates and date times should be treated the same as NULL". |
| `MySqlRows!BinaryKept` | `Values.cfg` | Bytes of a VARBINARY column that are no UTF-8 come back as an empty string. |
| `PgOptions!PgPassOfTarget` | `Values.cfg` | `new()` looks up the pgpass file before the setters name the target. |
| `PgOptions!LastHost` | `Values.cfg` | A socket directory stays in force when a host is set later. |
| `SqliteRows!GetByIndex` | `Values.cfg` | `get` removes the column, so later indices shift. `src/db.rs:202`: "get Value from index". |
| `SqliteOpen!NotCreatedByDefault` | `Values.cfg` | `new()` sets `create_if_missing: true`. `rbdc-sqlite/src/options/mod.rs:210`: "By default, a new file **will not be** created if one is not found." |
| `SqliteOpen!ReadWriteOnly` | `Values.cfg` | `mode=rw` creates a missing file, against the comment at `rbdc-sqlite/src/options/parse.rs:48-51`. |
| `SqliteOpen!NoCollationLeaks` | `Values.cfg` | A collation whose name has a NUL leaks its reference. |
| `Mssql!MsOffsetKept` | `Values.cfg` | A `DateTimeOffset` away from UTC comes back shifted. |
| `Mssql!MsTrustAsAsked` | `Values.cfg` | The certificate is trusted also with `trust_cert=false`. |
| `Mssql!MsDatabaseDecoded` | `Values.cfg` | User and password are percent-decoded, the database is not. |

At the level of `PgConnection` and `MySqlConnection` a message is read whole; what a
drop inside one does is the subject of `BufStream`.

## Where a value does not come back as it went in

The round-trip properties list these cases; everything else comes back unchanged. In
some the property says what comes back instead, in the others it says nothing.

* PostgreSQL, arguments. `U32` and `U64` above the signed range come back negative. Ext
  values tagged `Int8`, `Int4`, `Int2` and `Time` are written narrower than their type,
  and the server refuses them; a `Time` from 01:11:34.967296 on overflows first.
  `Point`, `Hstore`, `TsVector` and `TsQuery` are refused. Ext `Bool` and unknown tags
  become NULL. A `DateTime` is declared TIMESTAMP and shifted by the time zone, a
  `Timestamptz` moved by the offset of the session. A `Decimal` that NUMERIC cannot
  hold panics, one that is no number becomes 0.
* PostgreSQL, columns. Dates more than 24855 days from 2000-01-01 overflow. POINT, and
  MONEY and TIMETZ in text are refused. An hstore in binary is misread or refused. Tsvector and tsquery in
  binary come back as the bytes of the wire, an hstore in text with its quotes. The
  quoted string "NULL" in a text array becomes NULL; an array that does not start at 1
  is refused in binary and misread in text. Where two columns share a name, the
  last index is not found.
* MySQL. Integers come back with 64 bits and signed; unsigned columns above the signed
  range come back negative, or 0 from text. A `Timestamp` argument loses its time of
  day, and it, like an unknown Ext tag, misframes the arguments behind it. A `DateTime`
  takes the connection's offset. TIME in binary is read one byte off, YEAR in binary
  panics. `Time` and
  `Year` arguments change. A zero DATE is a date and no NULL, a zero TIMESTAMP an
  error. Strings that are no UTF-8 (VARBINARY) come back empty. `get` beyond the
  last column panics; a second `get` gives NULL.
* SQLite. Integers wrap at the signed range, NaN becomes NULL, text that parses as a JSON
  list or map comes back parsed, Ext tags are lost and unknown ones become NULL; of two
  columns with one name `get_values` keeps the first. `get` is right for columns in front
  of all that were read before.
* SQL Server. `U32` and `U64` come back signed, lists and maps as bytes, a `Timestamp`
  without its tag, a `DateTime` with the local offset. A `DateTimeOffset` away from UTC
  gets its offset times -60. An invalid UUID becomes the nil one. `get` beyond the last
  column panics.

Options: a password from pgpass is taken with its escapes; MySQL ignores the character
set when a collation is given; a SQLite busy timeout beyond the 32-bit range panics the
worker. MySQL's `sha256_password` without TLS asks for the key before the handshake
response, and the server refuses.

Comments that the code does not follow, met on the way:

* `rbdc-mysql/src/options/mod.rs:26` gives `PREFERRED` as the default ssl-mode; `new()`
  sets `Disabled`. Line 28: "Set to `0` to disable" the cache; a capacity of 0 panics.
* `rbdc-pg/src/options/ssl_mode.rs` describes `Allow` as falling back to TLS, and
  `Require` as verifying the CA if a root file is present; the code does neither.
* `src/io/write_and_flush.rs:9` calls the flush an "atomic operation"; it is atomic only
  for the buffer, which is empty afterwards.

## Bounds

`MaxOps`, `MaxCalls`, `MaxRows`, `MaxStatements`, `MaxStarts`, `MaxResults`, `MaxNotes`,
`MaxMsgs`, `MaxWrites`, `MaxDrops`, `MaxConns`, `MaxSteps`, `MaxGets` and `MaxClock`
bound the length of a behaviour. The connections have no memory beyond the cache, the
count or queue of outstanding replies and the bytes in flight. Two calls are enough for
one to leave something behind and the next to meet it; the third lets the cache evict
what the first stored. In `PgConnection.cfg` one SQL string is enough for that, since
the type query it needs goes through the same cache of one entry and evicts it. `IdSpace` is the number of statement identifiers before they
wrap around, 2^32 in the code and 2 here, so that a wrap happens. One row per result
is enough, since a further row repeats the same step.

In `Values.cfg`, `MaxGets = 3` reads a row in every order and reads a column twice.
`job.max` stands for the largest MySQL packet, 0xFFFFFF in the code; 16 makes payloads
of none, one and several pieces. Arguments are tried in pairs, because what goes wrong
in an encoding shows in the argument behind it; nine arguments reach the second byte
of the null bitmap. Decimals have up to six digits and exponents from -5 to 9, which
gives every alignment to the groups of four digits.

`CHECK_DEADLOCK` is off where the bound ends the behaviour.

## Fairness

`FairSpec` asks for weak fairness of one polling step per actor: the executor polls
a future that was woken, the operating system runs the thread, a server serves what
it received. Starting an operation, dropping one, closing, crashing, ending a
transaction and finding a table free are never owed. In `FastPool` each task, timer
and spawned close is fair by itself, as the runtime schedules each of them. No
property needs strong fairness.

## What is proved

The constants are arbitrary within the named assumptions (`CapacityAssumption`,
`WorkerAssumption` and the like): sizes are positive, as `StatementCache::new` and
the options require, and bounds are numbers.

| Module | Theorems | Inductive invariant |
|---|---|---|
| `Common_proofs` | `CacheImplementsLru` | `CacheInv`: the types, and that the sequence is ordered by the time of last use. Without the order the entry at the front need not be the oldest, and an eviction is no step of `LruMap`. |
| | `HandsOutOpenTheorem` | `PoolInv`: no connection is in two places, a task has a connection exactly at the program points that say so; connections are numbered without gaps, so a new one is not in use. |
| `Waiting_proofs` | `CallbackReachesWaiting`, `NoLostWakeUp` | `Inductive`: the callback runs with SQLite's static mutex held, so that nobody registers again while it is called back. |
| | `BufImplementsPipe` | `PipeInv`: a read never counts more than it wants, and the cursor stays within the write buffer. A step of the stream is then a step of the pipe or a stutter. |
| | `StreamTheorem` | `TsInv`, see below. |
| `SqliteExecute_proofs` | `OnlyCurrentOpenTheorem`, `FreshBindingsTheorem`, `StartsInOrderTheorem`, `ArgsAlignedTheorem` | `ExecInv`: the statements before the current one are done, those behind it have not started, `goto_next` says whether the current one is done, and what the current one has bound is of this execution. The "sanity check" reset of `next()` therefore never reports an error. For the arguments, `AlignInv` adds that `args_used` counts the parameters of the statements bound so far, up to one behind the last argument, where `bind` stops, as long as no statement was rejected; from then on it speaks only of the rejected one and those before it. |
| `SqliteWorker_proofs` | `TypeCorrect`, `LockedOutTheorem`, `OpenWhileUsedTheorem` | `MutexInv` ties the program points of each side to the holder of the mutex, `ArcInv` says who holds which reference. |
| | `CloseThenDropTheorem`, `SizeSettledTheorem` | `AnswerInv`: commands are served in the order they were sent, each once, and only the client's own can be answered (`OrderInv`); nothing is answered before it is taken (`FreshInv`); and what an answer tells about the thread (`ServingInv`, `CloseInv`, `SizeInv`). |
| `PgChannel_proofs`, `PgConnection_proofs` | `RepliesAreOwn`, `CacheInStep`, `OkLeavesNothing`, `CountIsExact` | `PgInv`, see below. |
| `MySqlChannel_proofs`, `MySqlConnection_proofs` | `MyWaitingExact`, `MyOwnReplies`, `MyStatementsKnown` | `MyInv`, see below. |

`LockedOut`, `OpenWhileUsed`, `CloseThenDrop`, `SizeSettled`, `OnlyCurrentOpen`,
`FreshBindings`, `ArgsAligned`, `FiresTheWaiting`, `OneWakeUp`,
`StreamInStep`, the four invariants of `PgConnection` (`OwnReplies`, `StatementsKnown`,
`OkMeansReady`, `ReadyAccounting`), the three of `MySqlConnection` (`WaitingExact`,
`OwnReplies`, `StatementsKnown`), the action properties `StartsInOrder` and
`HandsOutOpen` and the two refinements are thus known for every size; TLC checks the
same definitions on the instances above.

The PostgreSQL connection. None of its four properties is inductive: that a reply is
the operation's own depends on what earlier operations left in the socket, on the
statement cache and on the server. `PgInv` says where every message is:

* `ChannelInv`: an operation writes one group of messages that ends in a Sync or
  Query, and only when `wait_until_ready` has found nothing pending. So at most one
  group is under way, its Sync or ReadyForQuery is the last of it, and the count is 0
  or 1. With a count of 0 nothing is under way but notifications.
* `OwnInv`: while an operation flushes or reads, all of that group carries its call.
* `DueInv`: the reply a step waits for has come, is under way, or an error came
  instead. Without it a step could read the ReadyForQuery in the place of its reply,
  and the count would be wrong from then on.
* `StatementInv`: besides the cache and the Binds under way, an operation that has read
  its ParseComplete holds an identifier the server knows; it stores its query only if
  the cache does not have it yet; and a statement whose Close is under way is in use
  nowhere. After a wrap an identifier can be taken that is still in use: the server
  refuses the Parse, and the operation fails without touching the cache.

An action is first shown to be one of a few classes by its effect on the channel
(`Effect`: it leaves the channel alone, writes a group, moves the buffer to the socket,
is served, reads a reply, ...); each part of `PgInv` is then shown class by class
(`PgChannel_proofs`) and not action by action. The theorems hold for every capacity,
set of SQL strings, number of types, of rows and of notifications, with cancellation at
every await, crashes of the server and COPY.

For `CountIsExact`, `TornInv` adds what a torn flush leaves: a count of 1, and neither
a Sync nor a ReadyForQuery under way. Since `wait_until_ready` does not return from
there, no query is written any more and the count stays one too high; the theorem has no
hypothesis about flushes.

The MySQL connection. A PostgreSQL reply has a last message that says so; the end of a
MySQL reply shows only to who has followed it packet by packet, through definitions,
rows, EOF packets and further results. The invariant therefore has a grammar of
replies. A `Place` is a point in a reply, `Leads` says how a packet leads from one place
to the next, and `Runs` that a sequence of packets leads from one to another.
`MyInv` has these parts:

* `ChannelInv`: there is a place from which the client reads next (`Awaiting`: it
  follows from the program point and `waiting`), and either the one command that is
  under way will be answered from that place, or the inbox runs from it to the end of
  the reply. When the connection is gone the inbox runs to any place.
* `PhaseInv`, `BufferInv`: what is announced and what is in the write buffer at every
  program point. `waiting` never has more than one entry.
* `OwnInv`: past `wait_until_ready`, what is under way carries the operation's call.
* `StatementInv`: as for PostgreSQL, a statement is known to the server while it is
  cached, held or named by an Execute under way, and a StmtClose under way names none
  of those (`ClosesApart`).

The theorems have the hypothesis `DropAt \subseteq Recoverable`. `Recoverable` is the
set of awaits at which `waiting` says what is left to read: those of
`wait_until_ready`, the result and the rows, and the definitions if no EOF stands
behind them. The hypothesis is needed: with a drop while the reply to a Prepare or a
Ping is awaited, or among the definitions without `DEPRECATE_EOF`, TLC refutes
`OwnReplies` (the run `mysql_prepare`, and "Properties that do not hold"); with a drop
in a flush of a command a result is announced that nobody sends. In the invariant the difference is the case of `Awaiting` for an idle connection whose
`waiting` is `Row`: the place is in a result set, and definitions may be left before
its rows only if `deprecate_eof`. Otherwise everything is arbitrary: the number of
calls, rows and results, the capacity, server errors and loss of the server.

The nested streams. `TsInv` says for every point of a poll where the items are: a
channel holds one message exactly while its sender is parked (`TsChannels`), the levels
end one after the other (`TsPlace`), and what the consumer has, with the message that
is in a channel behind it, is what the program has yielded (`TsFlow`). `TsTurn` is the
part about sleeping: a receiver is polled with a message to take, at the end, or
because `run` waits for the socket, which then has the waker or has used it.
`StreamInStep` speaks of an increasing sequence with a given set of items, and not of
a filtered one, since filtering is a recursion over the program.

`ArgsAligned` counts the parameters of the statements before the current one as the
cardinality of a set, since the sum over a sequence would need induction over data;
that the set is finite is part of `AlignInv`, carried from one statement to the next.

Only model-checked:

* establishment (`StartsClean`, `SequenceKept`, `TlsAsAsked`): the models have no
  constants, so the run already covers everything a theorem would say;
* the round trips of values, `OptionsAsAsked` and `PlaceholdersNumbered`: what they say
  is what a recursive definition computes for every input, which needs induction over
  data, and the prover does not support recursive operators;
* all liveness properties, which are out of reach of the prover, as is `ENABLED`.

## What is not modelled

* The value types of `src/types/`: they delegate to fastdate, bigdecimal, uuid and
  serde_json, and a model would restate those libraries. `FromStr` and `Display` are
  external. The same holds of the small traits in `src/io/`.
* The text inside ERR, ErrorResponse and Notification messages, the counters inside a
  MySQL OK, COPY data: nothing in the code depends on them.
* The rustls handshake, the sockets of the runtime and the protocol of tiberius.
* SQLite itself, the database servers, `lru`, `flume`, `futures-intrusive`,
  `futures-channel` and `fast_pool`: modelled only as far as the code uses them, and
  marked external.
* Functions nothing calls: `clear_cached_statements` of the network drivers,
  `queue_simple_query`, the type holes and type-name holes of `apply_patches`, and the
  fetch of a type by its name in `prepare`, which only `PgTypeInfo::with_name` leads to.
* The composition of a connection with the byte stream below it or the pool above it
  as one state machine: its states are the product of both. The interfaces are checked
  on each side instead: `StartsClean` is the initial state of the connection models,
  `ImplementsPipe` is what they assume of the stream, and `FastPool` leaves what runs on
  a connection to them.
