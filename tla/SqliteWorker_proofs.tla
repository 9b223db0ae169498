------------------------- MODULE SqliteWorker_proofs -------------------------
(***************************************************************************)
(* Proofs about SqliteWorker, for channels of any size and any number of    *)
(* operations, statements and rows.                                         *)
(***************************************************************************)
EXTENDS SqliteWorker, TLAPS

\* The connection reaches the client only when the thread sends it.
Connecting ==
    /\ wpc \in {"starting", "established"} => cpc \in {"connecting", "gone"}
    /\ cpc = "connecting" => wpc \in {"starting", "established"}

\* Where the thread holds the guard `conn`.
Holding == {"established", "recv", "run", "exec", "next", "send", "finish",
            "drop", "unlock", "shutdown"}

\* The mutex is held by the thread exactly while it has its guard, and by the
\* client exactly while unlock_db or the LockedSqliteHandle has it.
MutexInv ==
    /\ Connecting
    /\ holder = "worker" <=> wpc \in Holding
    /\ holder = "client" <=> lk = "held"
    /\ lk # "no" => /\ cpc \in {"send", "pending", "await", "crashed", "guard"}
                    /\ ccmd.kind = "UnlockDb"
    /\ cpc = "lock" => ccmd.kind = "UnlockDb"
    /\ cpc = "guard" => lk = "held"

\* The thread and the connection each hold one Arc for as long as they live.
ArcInv ==
    /\ Connecting
    /\ "worker" \in arcs <=> wpc \notin {"starting", "ack", "return", "stopped"}
    /\ "conn" \in arcs <=> cpc \notin {"connecting", "gone"}

\* Serve leaves the thread with its guard.
LEMMA ServeHolds == \A c : Serve(c) \in {"run", "exec", "unlock", "shutdown"}
<1> SUFFICES ASSUME NEW c
             PROVE  Serve(c) \in {"run", "exec", "unlock", "shutdown"}
  OBVIOUS
<1>1. CASE c.kind = "Execute"
  BY <1>1 DEF Serve
<1>2. CASE c.kind = "UnlockDb"
  BY <1>2 DEF Serve
<1>3. CASE c.kind = "Shutdown"
  BY <1>3 DEF Serve
<1>4. CASE c.kind \notin {"Execute", "UnlockDb", "Shutdown"}
  BY <1>4 DEF Serve
<1> QED
  BY <1>1, <1>2, <1>3, <1>4

\* A command that was accepted leaves the client idle or waiting.
LEMMA SentState ==
    \A c : Sent(c) \in {"idle", "await"} /\ (c.kind = "UnlockDb" => Sent(c) = "await")
  BY DEF Sent

LEMMA MutexInit == Init => MutexInv
  BY DEF Init, MutexInv, Connecting, Holding, Nobody

\* Every step of the thread keeps MutexInv.
LEMMA MutexWorker == MutexInv /\ WorkerStep => MutexInv'
<1> SUFFICES ASSUME MutexInv, WorkerStep PROVE MutexInv'
  OBVIOUS
<1> USE DEF MutexInv, Connecting, Holding
<1>1. CASE EstablishOpen
  BY <1>1 DEF EstablishOpen, client, channel
<1>2. CASE EstablishError
  BY <1>2 DEF EstablishError, shared, mutex
<1>3. CASE EstablishSend
  BY <1>3 DEF EstablishSend, Nobody
<1>4. CASE Recv
  BY <1>4, ServeHolds, SentState DEF Recv, mutex
<1>5. CASE Disconnected
  BY <1>5 DEF Disconnected, client, Nobody
<1>6. CASE RunPrepare \/ RunCreateCollation \/ RunClearCache \/ RunPing
  BY <1>6 DEF RunPrepare, RunCreateCollation, RunClearCache, RunPing,
              client, shared, mutex
<1>7. CASE ExecBegin \/ ExecNext \/ ExecNone
  BY <1>7 DEF ExecBegin, ExecNext, ExecNone, client, shared, mutex
<1>8. CASE ExecSend \/ ExecFinish \/ ExecDrop
  BY <1>8 DEF ExecSend, ExecFinish, ExecDrop, ReceiverGone, client, shared, mutex
<1>9. CASE Unlock \/ Relock \/ RelockGranted
  BY <1>9 DEF Unlock, Relock, RelockGranted, CanLock, Granted, client, Nobody
<1>10. CASE ShutdownDrop \/ ShutdownAck \/ Return
  BY <1>10 DEF ShutdownDrop, ShutdownAck, Return, client, shared, mutex, Nobody
<1> QED
  BY <1>1, <1>2, <1>3, <1>4, <1>5, <1>6, <1>7, <1>8, <1>9, <1>10 DEF WorkerStep

\* So does every step of the client.
LEMMA MutexClient == MutexInv /\ (ClientPoll \/ ClientChoice) => MutexInv'
<1> SUFFICES ASSUME MutexInv, ClientPoll \/ ClientChoice PROVE MutexInv'
  OBVIOUS
<1> USE DEF MutexInv, Connecting, Holding, worker
<1>1. CASE LockPoll
  BY <1>1 DEF LockPoll, CanLock, Nobody
<1>2. CASE Send \/ PendingCrashed
  BY <1>2, SentState DEF Send, PendingCrashed, Crashed, mutex, shared
<1>3. CASE LockGranted \/ LockDone \/ DropGuard
  BY <1>3 DEF LockGranted, LockDone, DropGuard, Granted, Nobody
<1>4. CASE RecvReply \/ RecvRow \/ RecvFirstRow \/ RecvEnd
  BY <1>4 DEF RecvReply, RecvRow, RecvFirstRow, RecvEnd, shared, mutex
<1>5. CASE CancelConnect \/ Cancel \/ Drop
  BY <1>5 DEF CancelConnect, Cancel, Drop, shared, mutex, Nobody
<1>6. CASE \E k \in Kind, q \in Query \cup {NoQuery} : Start(k, q)
  BY <1>6 DEF Start, shared, mutex
<1> QED
  BY <1>1, <1>2, <1>3, <1>4, <1>5, <1>6 DEF ClientPoll, ClientChoice

LEMMA MutexStutter == MutexInv /\ UNCHANGED vars => MutexInv'
  BY DEF MutexInv, Connecting, vars, worker, client, shared, mutex

\* While a LockedSqliteHandle exists the thread makes no SQLite call, for
\* channels of any size and however many lock_handle futures were dropped.
THEOREM LockedOutTheorem == Spec => []LockedOut
<1>1. MutexInv /\ [Next]_vars => MutexInv'
  BY MutexWorker, MutexClient, MutexStutter DEF Next
<1>2. MutexInv => LockedOut
  BY DEF MutexInv, LockedOut, Holding, UsesHandle
<1> QED
  BY MutexInit, <1>1, <1>2, PTL DEF Spec
-----------------------------------------------------------------------------
(* References to the shared state. *)

LEMMA ArcInit == Init => ArcInv
  BY DEF Init, ArcInv, Connecting

LEMMA ArcStep == ArcInv /\ [Next]_vars => ArcInv'
<1> SUFFICES ASSUME ArcInv, [Next]_vars PROVE ArcInv'
  OBVIOUS
<1> USE DEF ArcInv, Connecting
<1>1. CASE EstablishOpen \/ EstablishError \/ EstablishSend
  BY <1>1 DEF EstablishOpen, EstablishError, EstablishSend, CloneShared,
              client, shared
<1>2. CASE Recv
  BY <1>2, ServeHolds, SentState DEF Recv
<1>3. CASE RunPrepare \/ RunCreateCollation \/ RunClearCache \/ RunPing
  BY <1>3 DEF RunPrepare, RunCreateCollation, RunClearCache, RunPing,
              client, shared
<1>4. CASE ExecBegin \/ ExecNext \/ ExecNone \/ ExecSend \/ ExecFinish \/ ExecDrop
  BY <1>4 DEF ExecBegin, ExecNext, ExecNone, ExecSend, ExecFinish, ExecDrop,
              ReceiverGone, client, shared
<1>5. CASE Unlock \/ Relock \/ RelockGranted
  BY <1>5 DEF Unlock, Relock, RelockGranted, client
<1>6. CASE Disconnected \/ ShutdownDrop \/ ShutdownAck \/ Return
  BY <1>6 DEF Disconnected, ShutdownDrop, ShutdownAck, Return, DropShared,
              client, shared
<1>7. CASE ClientPoll
  BY <1>7, SentState DEF ClientPoll, LockPoll, Send, PendingCrashed, Crashed,
     LockGranted, LockDone, RecvReply, RecvRow, RecvFirstRow, RecvEnd,
     worker, shared
<1>8. CASE ClientChoice
  BY <1>8 DEF ClientChoice, CancelConnect, Cancel, DropGuard, Drop, Start,
              worker, shared
<1>9. CASE UNCHANGED vars
  BY <1>9 DEF vars, worker, client, shared
<1> QED
  BY <1>1, <1>2, <1>3, <1>4, <1>5, <1>6, <1>7, <1>8, <1>9
     DEF Next, WorkerStep

\* Neither the thread nor a LockedSqliteHandle uses the sqlite3 handle after
\* the last reference to it was dropped, wherever a future was dropped and
\* whenever the connection was closed.
THEOREM OpenWhileUsedTheorem == Spec => []OpenWhileUsed
<1>1. ArcInv => OpenWhileUsed
  BY DEF ArcInv, OpenWhileUsed, UsesHandle
<1> QED
  BY ArcInit, ArcStep, <1>1, PTL DEF Spec
-----------------------------------------------------------------------------
(* Types. *)

\* Taking out an element that is present leaves a sequence.
LEMMA PopType ==
    ASSUME NEW S, NEW c \in Seq(S), NEW k, contains_key(c, k)
    PROVE  pop_entry(c, k) \in Seq(S)
<1> DEFINE i == IndexOf(c, k)
<1>1. i \in 1..Len(c)
  BY DEF IndexOf, contains_key
<1> HIDE DEF i
<1>2. SubSeq(c, 1, i - 1) \in Seq(S) /\ SubSeq(c, i + 1, Len(c)) \in Seq(S)
  BY <1>1
<1> QED
  BY <1>2 DEF pop_entry, i

\* What Statements::get leaves in the cache.
LEMMA GetType ==
    ASSUME NEW S, NEW c \in Seq(S), NEW k \in S
    PROVE  get_mut(c, k) \in Seq(S) /\ insert(c, k) \in Seq(S)
<1>1. \A d \in Seq(S) : remove_lru(d) \in Seq(S)
  BY DEF remove_lru
<1>2. \A d \in Seq(S) : get_mut(d, k) \in Seq(S)
  BY PopType DEF get_mut
<1>3. \A d \in Seq(S) : put(d, k) \in Seq(S)
  BY <1>1, <1>2 DEF put
<1>4. MakeRoom(c, k) \in Seq(S)
  BY <1>1, PopType DEF MakeRoom
<1> QED
  BY <1>2, <1>3, <1>4 DEF insert

LEMMA TypeInit == Init => TypeOK
<1> SUFFICES ASSUME Init PROVE TypeOK
  OBVIOUS
<1>1. NoCommand \in Command
  BY WorkerAssumption DEF NoCommand, Command, Kind
<1>2. WorkerTypeOK
  BY <1>1, WorkerAssumption DEF Init, WorkerTypeOK, Item
<1>3. ClientTypeOK
  BY <1>1, WorkerAssumption DEF Init, ClientTypeOK
<1>4. SharedTypeOK
  BY WorkerAssumption DEF Init, SharedTypeOK
<1>5. FlagTypeOK
  BY Zenon DEF Init, FlagTypeOK
<1> QED
  BY <1>2, <1>3, <1>4, <1>5 DEF TypeOK

\* What a step does not touch keeps its type.
LEMMA TypeUnchanged ==
    /\ WorkerTypeOK /\ UNCHANGED worker => WorkerTypeOK'
    /\ ClientTypeOK /\ UNCHANGED client => ClientTypeOK'
    /\ SharedTypeOK /\ UNCHANGED shared => SharedTypeOK'
  BY DEF WorkerTypeOK, ClientTypeOK, SharedTypeOK, worker, client, shared,
         iter, channel, mutex

\* The flags stay flags.
LEMMA FlagType == FlagTypeOK /\ [Next]_vars => FlagTypeOK'
<1> SUFFICES ASSUME FlagTypeOK, [Next]_vars PROVE FlagTypeOK'
  OBVIOUS
<1> USE DEF FlagTypeOK, worker, client, iter, channel
<1>1. CASE EstablishOpen \/ EstablishError \/ EstablishSend \/ Recv \/ Disconnected
  BY <1>1 DEF EstablishOpen, EstablishError, EstablishSend, Recv, Disconnected
<1>2. CASE RunPrepare \/ RunCreateCollation \/ RunClearCache \/ RunPing
  BY <1>2 DEF RunPrepare, RunCreateCollation, RunClearCache, RunPing
<1>3. CASE ExecBegin \/ ExecDrop
  BY <1>3, Zenon DEF ExecBegin, ExecDrop
<1>4. CASE ExecNext \/ ExecNone \/ ExecSend \/ ExecFinish
  BY <1>4, Zenon DEF ExecNext, ExecNone, ExecSend, ExecFinish, Step
<1>5. CASE Unlock \/ Relock \/ RelockGranted \/ ShutdownDrop \/ ShutdownAck \/ Return
  BY <1>5 DEF Unlock, Relock, RelockGranted, ShutdownDrop, ShutdownAck, Return
<1>6. CASE ClientPoll
  BY <1>6 DEF ClientPoll, LockPoll, Send, PendingCrashed, LockGranted, LockDone,
              RecvReply, RecvRow, RecvFirstRow, RecvEnd
<1>7. CASE ClientChoice
  BY <1>7, Zenon DEF ClientChoice, CancelConnect, Cancel, DropGuard, Drop, Start
<1>8. CASE UNCHANGED vars
  BY <1>8 DEF vars
<1> QED
  BY <1>1, <1>2, <1>3, <1>4, <1>5, <1>6, <1>7, <1>8 DEF Next, WorkerStep

\* The channels and the mutex's queue are used from both ends.
LEMMA QueueType ==
    ASSUME NEW S, NEW q \in Seq(S), NEW x \in S
    PROVE  /\ Append(q, x) \in Seq(S) /\ Len(Append(q, x)) = Len(q) + 1
           /\ q # <<>> => /\ Head(q) \in S /\ Tail(q) \in Seq(S)
                          /\ Len(Tail(q)) = Len(q) - 1 /\ Len(q) >= 1
  OBVIOUS

\* A step of the thread keeps the types of its own variables, ...
LEMMA WorkerType == TypeOK /\ WorkerStep => WorkerTypeOK'
<1> SUFFICES ASSUME TypeOK, WorkerStep PROVE WorkerTypeOK'
  OBVIOUS
<1>0. WorkerTypeOK /\ SharedTypeOK
  BY DEF TypeOK
<1>1. /\ get(cached, wcmd.query) \in Seq(Query)
      /\ getFailed(cached, wcmd.query) \in Seq(Query)
  <2>1. cached \in Seq(Query) /\ wcmd.query \in Query \cup {NoQuery}
    BY <1>0 DEF WorkerTypeOK, Command
  <2>2. ~ contains_key(cached, NoQuery)
    BY <2>1, WorkerAssumption DEF contains_key
  <2> QED
    BY <2>1, <2>2, GetType DEF get, getFailed, get_mut
<1> USE <1>0 DEF WorkerTypeOK, iter
<1>2. CASE Recv
  <2>1. Head(commands) \in Command
    BY <1>2, QueueType DEF Recv, SharedTypeOK
  <2> QED
    BY <1>2, <2>1, ServeHolds DEF Recv
<1>3. CASE RunPrepare \/ RunCreateCollation \/ RunClearCache \/ RunPing
  <2>1. cached' \in {cached, <<>>, get(cached, wcmd.query),
                      getFailed(cached, wcmd.query)}
    BY <1>3 DEF RunPrepare, RunCreateCollation, RunClearCache, RunPing
  <2>2. cached \in Seq(Query) /\ <<>> \in Seq(Query)
    OBVIOUS
  <2>3. cached' \in Seq(Query)
    BY ONLY <1>1, <2>1, <2>2, Zenon
  <2> QED
    BY <1>3, <2>3 DEF RunPrepare, RunCreateCollation, RunClearCache, RunPing
<1>4. CASE ExecBegin
  BY <1>1, <1>4, WorkerAssumption DEF ExecBegin
<1>5. CASE ExecNext
  <2>1. /\ left' \in 0..MaxStatements /\ rows' \in 0..MaxRows
    BY <1>5, WorkerAssumption DEF ExecNext, Step
  <2>2. item' \in Item
    BY <1>5 DEF ExecNext, Step, Item
  <2> QED
    BY <1>5, <2>1, <2>2 DEF ExecNext
<1>6. CASE ExecNone \/ ExecSend \/ ExecFinish \/ ExecDrop
  BY <1>6 DEF ExecNone, ExecSend, ReceiverGone, ExecFinish, ExecDrop
<1>7. CASE Unlock \/ Relock \/ RelockGranted
  BY <1>7 DEF Unlock, Relock, RelockGranted
<1>8. CASE ShutdownDrop \/ ShutdownAck \/ Return \/ Disconnected
  BY <1>8 DEF ShutdownDrop, ShutdownAck, Return, Disconnected
<1>9. CASE EstablishOpen \/ EstablishError \/ EstablishSend
  BY <1>9 DEF EstablishOpen, EstablishError, EstablishSend
<1> QED
  BY <1>2, <1>3, <1>4, <1>5, <1>6, <1>7, <1>8, <1>9 DEF WorkerStep

\* ... of the client's, whose channels it fills, ...
LEMMA AnswerType == TypeOK /\ WorkerStep => ClientTypeOK'
<1> SUFFICES ASSUME TypeOK, WorkerStep PROVE ClientTypeOK'
  OBVIOUS
<1>0. WorkerTypeOK /\ ClientTypeOK
  BY DEF TypeOK
<1> USE <1>0 DEF channel
<1>1. CASE UNCHANGED client
  BY <1>1, TypeUnchanged
<1>2. CASE EstablishError \/ EstablishSend
  BY <1>2 DEF ClientTypeOK, EstablishError, EstablishSend
<1>3. CASE Recv
  <2>1. cpc' \in {cpc, "idle", "await"} /\ result' \in {result, "Ok"}
    BY <1>3, SentState DEF Recv
  <2> QED
    BY <1>3, <2>1 DEF ClientTypeOK, Recv
<1>4. CASE RunPrepare \/ RunClearCache \/ RunPing \/ ShutdownAck
  <2>1. reply' \in {reply, "Ok", "Err"}
    BY <1>4 DEF RunPrepare, RunClearCache, RunPing, ShutdownAck, Reply
  <2>2. UNCHANGED <<cpc, ccmd, lk, rowq, result>>
    BY <1>4 DEF RunPrepare, RunClearCache, RunPing, ShutdownAck
  <2> QED
    BY <2>1, <2>2 DEF ClientTypeOK
<1>5. CASE ExecBegin \/ ExecSend
  <2>1. "Err" \in Item /\ item \in Item
    BY DEF WorkerTypeOK, Item
  <2>2. \/ rowq' = rowq
        \/ Len(rowq) < RowChannelSize /\ \E x \in Item : rowq' = Append(rowq, x)
    BY <1>5, <2>1 DEF ExecBegin, ExecSend
  <2>3. UNCHANGED <<cpc, ccmd, lk, reply, result>>
    BY <1>5 DEF ExecBegin, ExecSend
  <2>4. rowq' \in Seq(Item) /\ Len(rowq') <= RowChannelSize
    BY <2>2, QueueType, WorkerAssumption DEF ClientTypeOK
  <2> QED
    BY <2>3, <2>4 DEF ClientTypeOK
<1>6. CASE ExecDrop
  BY <1>6 DEF ExecDrop, ClientTypeOK
<1> QED
  BY <1>1, <1>2, <1>3, <1>4, <1>5, <1>6
     DEF WorkerStep, EstablishOpen, Disconnected, RunCreateCollation, ExecNext,
         ExecNone, ExecFinish, Unlock, Relock, RelockGranted, ShutdownDrop, Return

\* ... and of the shared ones.
LEMMA SharedType == TypeOK /\ WorkerStep => SharedTypeOK'
<1> SUFFICES ASSUME TypeOK, WorkerStep PROVE SharedTypeOK'
  OBVIOUS
<1>0. WorkerTypeOK /\ ClientTypeOK /\ SharedTypeOK
  BY DEF TypeOK
<1>1. cached' \in Seq(Query)
  BY WorkerType DEF WorkerTypeOK
<1> USE <1>0 DEF mutex
<1>2. CASE UNCHANGED shared
  BY <1>2, TypeUnchanged
<1>3. CASE EstablishOpen \/ EstablishSend \/ Disconnected \/ ShutdownDrop \/ Unlock
  <2>1. /\ holder' \in Party \cup {Nobody} /\ arcs' \subseteq {"worker", "conn"}
        /\ UNCHANGED <<commands, waiters, size>>
    BY <1>3, Zenon
       DEF EstablishOpen, EstablishSend, Disconnected, ShutdownDrop, Unlock,
                CloneShared, DropShared, SharedTypeOK, Party, Nobody
  <2> QED
    BY <2>1 DEF SharedTypeOK
<1>4. CASE Recv
  <2>1. commands \in Seq(Command) /\ ccmd \in Command /\ commands # <<>>
    BY <1>4 DEF Recv, SharedTypeOK, ClientTypeOK
  <2>2. commands' \in {Tail(commands), Append(Tail(commands), ccmd)}
    BY <1>4 DEF Recv
  <2>3. Tail(commands) \in Seq(Command) /\ Len(Tail(commands)) = Len(commands) - 1
    BY <2>1, QueueType
  <2>4. commands' \in Seq(Command) /\ Len(commands') <= Len(commands)
    BY <2>1, <2>2, <2>3, QueueType
  <2> QED
    BY <1>4, <2>4, WorkerAssumption DEF Recv, SharedTypeOK
<1>5. CASE RunPrepare \/ RunClearCache \/ ExecFinish
  <2>1. size' \in Nat
    BY <1>0, <1>1, <1>5 DEF RunPrepare, RunClearCache, ExecFinish, SharedTypeOK,
       WorkerTypeOK, update_cached_statements_size
  <2> QED
    BY <1>5, <2>1, Zenon DEF RunPrepare, RunClearCache, ExecFinish, SharedTypeOK
<1>6. CASE Relock \/ RelockGranted
  <2>1. "worker" \in Party
    BY DEF Party
  <2>2. waiters' \in Seq(Party)
    BY <1>6, <2>1, QueueType, Zenon
       DEF Relock, RelockGranted, Granted, SharedTypeOK
  <2> QED
    BY <1>6, <2>1, <2>2, Zenon DEF Relock, RelockGranted, SharedTypeOK
<1> QED
  BY <1>2, <1>3, <1>4, <1>5, <1>6
     DEF WorkerStep, EstablishError, RunCreateCollation, RunPing, ExecBegin,
         ExecNext, ExecNone, ExecSend, ExecDrop, ShutdownAck, Return

\* A step of the client keeps all types.
LEMMA ClientType ==
    TypeOK /\ (ClientPoll \/ ClientChoice)
        => WorkerTypeOK' /\ ClientTypeOK' /\ SharedTypeOK'
<1> SUFFICES ASSUME TypeOK, ClientPoll \/ ClientChoice
             PROVE  WorkerTypeOK' /\ ClientTypeOK' /\ SharedTypeOK'
  OBVIOUS
<1>0. WorkerTypeOK /\ ClientTypeOK /\ SharedTypeOK
  BY DEF TypeOK
<1>1. WorkerTypeOK'
  <2>1. UNCHANGED worker
    BY DEF ClientPoll, LockPoll, Send, PendingCrashed, LockGranted, LockDone,
       RecvReply, RecvRow, RecvFirstRow, RecvEnd, ClientChoice, CancelConnect,
       Cancel, DropGuard, Drop, Start
  <2> QED
    BY <1>0, <2>1, TypeUnchanged
<1> USE <1>0 DEF channel, mutex
<1>2. CASE LockPoll \/ LockGranted
  <2>1. "client" \in Party
    BY DEF Party
  <2>2. waiters' \in Seq(Party)
    BY <1>2, <2>1, QueueType, Zenon
       DEF LockPoll, LockGranted, Granted, SharedTypeOK
  <2>3. SharedTypeOK'
    BY <1>2, <2>1, <2>2, Zenon DEF LockPoll, LockGranted, SharedTypeOK
  <2>4. ClientTypeOK'
    BY <1>2 DEF LockPoll, LockGranted, ClientTypeOK
  <2> QED
    BY <1>1, <2>3, <2>4
<1>3. CASE Send \/ PendingCrashed
  <2>1. commands' = commands \/ (commands' = Append(commands, ccmd) /\ HasRoom)
    BY <1>3 DEF Send, PendingCrashed, shared
  <2>2. commands' \in Seq(Command) /\ Len(commands') <= CommandChannelSize
    BY <2>1, QueueType, WorkerAssumption, SMTT(20)
       DEF SharedTypeOK, ClientTypeOK, HasRoom
  <2>3. SharedTypeOK'
    BY <1>3, <2>2, Zenon DEF Send, PendingCrashed, SharedTypeOK, shared
  <2>4. /\ cpc' \in {"idle", "await", "pending", "crashed"}
        /\ result' \in {result, "Ok", "WorkerCrashed"}
    BY <1>3, SentState DEF Send, PendingCrashed, Crashed
  <2>5. ClientTypeOK'
    BY <1>3, <2>4 DEF Send, PendingCrashed, ClientTypeOK
  <2> QED
    BY <1>1, <2>3, <2>5
<1>4. CASE LockDone \/ DropGuard
  <2>1. SharedTypeOK'
    BY <1>4, Zenon DEF LockDone, DropGuard, SharedTypeOK
  <2>2. ClientTypeOK'
    BY <1>4 DEF LockDone, DropGuard, ClientTypeOK
  <2> QED
    BY <1>1, <2>1, <2>2
<1>5. CASE RecvReply \/ RecvEnd \/ CancelConnect
  <2>1. UNCHANGED shared
    BY <1>5 DEF RecvReply, RecvEnd, CancelConnect
  <2>2. ClientTypeOK'
    BY <1>5 DEF RecvReply, RecvEnd, CancelConnect, ClientTypeOK
  <2> QED
    BY <1>1, <2>1, <2>2, TypeUnchanged
<1>6. CASE RecvRow \/ RecvFirstRow
  <2>1. UNCHANGED <<shared, ccmd, lk, reply>> /\ rowq # <<>> /\ rowq' = Tail(rowq)
    BY <1>6 DEF RecvRow, RecvFirstRow
  <2>2. cpc' \in {cpc, "idle"} /\ result' \in {result, "Ok", "Err"}
    BY <1>6 DEF RecvRow, RecvFirstRow
  <2>3. "Err" \in Item
    BY DEF Item
  <2>4. rowq' \in Seq(Item) /\ Len(rowq') <= RowChannelSize
    BY <2>1, <2>3, QueueType, WorkerAssumption DEF ClientTypeOK
  <2>5. ClientTypeOK'
    BY <2>1, <2>2, <2>4 DEF ClientTypeOK
  <2> QED
    BY <1>1, <2>1, <2>5, TypeUnchanged
<1>7. CASE Cancel
  <2>1. waiters' \in Seq(Party)
    BY <1>7, PopType DEF Cancel, Leave, SharedTypeOK
  <2>2. SharedTypeOK'
    BY <1>7, <2>1 DEF Cancel, SharedTypeOK
  <2>3. ClientTypeOK'
    BY <1>7 DEF Cancel, ClientTypeOK
  <2> QED
    BY <1>1, <2>2, <2>3
<1>8. CASE Drop
  <2>1. commands' \in Seq(Command) /\ Len(commands') <= CommandChannelSize
    BY <1>8, WorkerAssumption DEF Drop, SharedTypeOK
  <2>2. SharedTypeOK'
    BY <1>8, <2>1 DEF Drop, SharedTypeOK
  <2>3. ClientTypeOK'
    BY <1>8 DEF Drop, ClientTypeOK
  <2> QED
    BY <1>1, <2>2, <2>3
<1>9. CASE \E k \in Kind, q \in Query \cup {NoQuery} : Start(k, q)
  <2> PICK k \in Kind, q \in Query \cup {NoQuery} : Start(k, q)
    BY <1>9
  <2>1. ccmd' \in Command
    BY WorkerAssumption DEF Start, Command, ClientTypeOK
  <2>2. rowq' \in Seq(Item) /\ Len(rowq') <= RowChannelSize
    BY WorkerAssumption DEF Start
  <2>3. ClientTypeOK'
    BY <2>1, <2>2 DEF Start, ClientTypeOK
  <2> QED
    BY <1>1, <2>3, TypeUnchanged DEF Start
<1> QED
  BY <1>2, <1>3, <1>4, <1>5, <1>6, <1>7, <1>8, <1>9 DEF ClientPoll, ClientChoice

LEMMA TypeStep == TypeOK /\ [Next]_vars => TypeOK'
<1> SUFFICES ASSUME TypeOK, [Next]_vars PROVE TypeOK'
  OBVIOUS
<1>1. CASE WorkerStep
  BY <1>1, WorkerType, AnswerType, SharedType, FlagType DEF TypeOK
<1>2. CASE ClientPoll \/ ClientChoice
  BY <1>2, ClientType, FlagType DEF TypeOK
<1>3. CASE UNCHANGED vars
  BY <1>3, TypeUnchanged, FlagType DEF TypeOK, vars
<1> QED
  BY <1>1, <1>2, <1>3 DEF Next

\* Every variable keeps its type and neither channel outgrows the size it was
\* created with, whatever that size is.
THEOREM TypeCorrect == Spec => []TypeOK
  BY TypeInit, TypeStep, PTL DEF Spec

-----------------------------------------------------------------------------
(* What an answer tells the client about the thread rests on the order in   *)
(* which commands are served.                                               *)

\* The client's command has not been accepted by the channel yet.
Unsent == cpc \in {"lock", "send", "pending"}

\* Commands are served in the order they were sent, each one once: ids grow
\* from the one being served through the channel to the client's own, which
\* is the only command that can be answered.
OrderInv ==
    /\ wcmd.id <= ccmd.id
    /\ wcmd.id = ccmd.id => wcmd = ccmd
    /\ \A i \in 1..Len(commands) :
          /\ wcmd.id < commands[i].id /\ commands[i].id <= ccmd.id
          /\ commands[i].id = ccmd.id => commands[i] = ccmd
    /\ \A i, j \in 1..Len(commands) : i < j => commands[i].id < commands[j].id
    /\ Unsent => /\ wcmd.id < ccmd.id
                 /\ \A i \in 1..Len(commands) : commands[i].id < ccmd.id

\* Nothing has been answered before the thread took the command.
FreshInv ==
    wcmd.id # ccmd.id \/ wpc = "exec" =>
        reply = "none" /\ rowq = <<>> /\ ended = FALSE

\* close() is answered only when the thread has dropped its references.
CloseInv ==
    ccmd.kind = "Shutdown" /\ (reply # "none" \/ result = "Ok")
        => wpc \in {"return", "stopped"}

\* The thread is where the command it serves takes it.
ServingInv ==
    /\ wpc \in {"exec", "next", "send", "finish", "drop"} => wcmd.kind = "Execute"
    /\ wpc \in {"shutdown", "ack"} => wcmd.kind = "Shutdown"

\* The thread is done with the client's last command and with the cache.
AtRest == wpc \in {"recv", "stopped"} /\ wcmd.id = ccmd.id

SizeInv ==
    /\ ccmd.kind \in {"Prepare", "ClearCache"} /\ (reply = "Ok" \/ result = "Ok")
          => AtRest /\ size = Len(cached)
    /\ wpc = "drop" => size = Len(cached)
    /\ ended => AtRest /\ ccmd.kind = "Execute"
    /\ ended /\ cpc = "await"
          => size = Len(cached) \/ (rowq # <<>> /\ Head(rowq) = "Err")
    /\ ended /\ cpc = "idle" /\ result = "Ok" => size = Len(cached)

-----------------------------------------------------------------------------
LEMMA OrderInit == Init => OrderInv
  BY DEF Init, OrderInv, Unsent, NoCommand

\* Ids are numbers.
LEMMA Ids ==
    ASSUME TypeOK
    PROVE  /\ wcmd.id \in Nat /\ ccmd.id \in Nat
           /\ commands \in Seq(Command)
           /\ \A i \in 1..Len(commands) : commands[i].id \in Nat
<1>1. \A c \in Command : c.id \in Nat
  BY WorkerAssumption DEF Command
<1>2. commands \in Seq(Command) /\ wcmd \in Command /\ ccmd \in Command
  BY DEF TypeOK, WorkerTypeOK, ClientTypeOK, SharedTypeOK
<1>3. \A i \in 1..Len(commands) : commands[i] \in Command
  BY <1>2
<1> QED
  BY <1>1, <1>2, <1>3

LEMMA OrderRecv == TypeOK /\ OrderInv /\ Recv => OrderInv'
<1> SUFFICES ASSUME TypeOK, OrderInv, Recv PROVE OrderInv'
  OBVIOUS
<1> DEFINE rest == Tail(commands)
<1>1. /\ commands \in Seq(Command) /\ commands # <<>> /\ ccmd' = ccmd
      /\ wcmd' = Head(commands)
  BY Ids DEF Recv
<1>2. /\ Head(commands) = commands[1] /\ 1 \in 1..Len(commands)
      /\ rest \in Seq(Command) /\ Len(rest) = Len(commands) - 1
      /\ \A i \in 1..Len(rest) : rest[i] = commands[i + 1] /\ i + 1 \in 1..Len(commands)
  BY <1>1
<1>3. /\ wcmd'.id <= ccmd.id /\ (wcmd'.id = ccmd.id => wcmd' = ccmd)
      /\ \A i \in 1..Len(rest) :
            /\ wcmd'.id < rest[i].id /\ rest[i].id <= ccmd.id
            /\ rest[i].id = ccmd.id => rest[i] = ccmd
      /\ \A i, j \in 1..Len(rest) : i < j => rest[i].id < rest[j].id
      /\ Unsent => /\ wcmd'.id < ccmd.id
                   /\ \A i \in 1..Len(rest) : rest[i].id < ccmd.id
  <2> HIDE DEF rest
  <2>1. wcmd' = commands[1]
    BY <1>1, <1>2
  <2>2. \A i \in 1..Len(rest) : 1 < i + 1 /\ rest[i] = commands[i + 1]
                                  /\ i + 1 \in 1..Len(commands)
    BY <1>2
  <2>3. wcmd'.id <= ccmd.id /\ (wcmd'.id = ccmd.id => wcmd' = ccmd)
    BY <1>2, <2>1 DEF OrderInv
  <2>4. \A i \in 1..Len(rest) :
            /\ wcmd'.id < rest[i].id /\ rest[i].id <= ccmd.id
            /\ rest[i].id = ccmd.id => rest[i] = ccmd
    BY <1>2, <2>1, <2>2 DEF OrderInv
  <2>5. ASSUME NEW i \in 1..Len(rest), NEW j \in 1..Len(rest), i < j
        PROVE  rest[i].id < rest[j].id
    <3>1. i + 1 < j + 1
      BY <2>5
    <3> QED
      BY <2>2, <3>1 DEF OrderInv
  <2>6. Unsent => /\ wcmd'.id < ccmd.id
                  /\ \A i \in 1..Len(rest) : rest[i].id < ccmd.id
    BY <1>2, <2>1, <2>2 DEF OrderInv
  <2> QED
    BY <2>3, <2>4, <2>5, <2>6
<1>4. CASE cpc = "pending"
  <2>1. commands' = Append(rest, ccmd) /\ cpc' \in {"idle", "await"} /\ Unsent
    BY <1>4, SentState DEF Recv, Unsent
  <2> HIDE DEF rest
  <2>2. /\ Len(commands') = Len(rest) + 1
        /\ \A i \in 1..Len(rest) : commands'[i] = rest[i]
        /\ commands'[Len(rest) + 1] = ccmd
    BY <1>1, <1>2, <2>1
  <2>3. \A i \in 1..Len(commands') : i \in 1..Len(rest) \/ i = Len(rest) + 1
    BY <1>2, <2>2
  <2> QED
    BY <1>1, <1>2, <1>3, <2>1, <2>2, <2>3, Ids, SMTT(20) DEF OrderInv, Unsent
<1>5. CASE cpc # "pending"
  <2>1. commands' = rest /\ cpc' = cpc
    BY <1>5 DEF Recv
  <2> HIDE DEF rest
  <2> QED
    BY <1>1, <1>3, <2>1 DEF OrderInv, Unsent
<1> QED
  BY <1>4, <1>5

LEMMA OrderSend == TypeOK /\ OrderInv /\ Send => OrderInv'
<1> SUFFICES ASSUME TypeOK, OrderInv, Send PROVE OrderInv'
  OBVIOUS
<1>1. UNCHANGED <<wcmd, ccmd>> /\ Unsent
  BY DEF Send, worker, Unsent
<1>2. CASE commands' = commands
  BY <1>1, <1>2 DEF OrderInv
<1>3. CASE commands' = Append(commands, ccmd) /\ cpc' = Sent(ccmd)
  <2>1. /\ Len(commands') = Len(commands) + 1
        /\ \A i \in 1..Len(commands) : commands'[i] = commands[i]
        /\ commands'[Len(commands) + 1] = ccmd
    BY <1>3, Ids
  <2>2. \A i \in 1..Len(commands') : i \in 1..Len(commands) \/ i = Len(commands) + 1
    BY <2>1, Ids
  <2>3. ~ Unsent'
    BY <1>3, SentState DEF Unsent
  <2> QED
    BY <1>1, <2>1, <2>2, <2>3, Ids, SMTT(20) DEF OrderInv
<1> QED
  BY <1>2, <1>3 DEF Send

LEMMA OrderStart ==
    ASSUME TypeOK, OrderInv, NEW k, NEW q, Start(k, q) PROVE OrderInv'
<1>1. /\ ccmd'.id = ccmd.id + 1 /\ UNCHANGED <<wcmd, commands>>
  BY DEF Start, worker, shared
<1> QED
  BY <1>1, Ids DEF OrderInv

LEMMA OrderStep == TypeOK /\ OrderInv /\ [Next]_vars => OrderInv'
<1> SUFFICES ASSUME TypeOK, OrderInv, [Next]_vars PROVE OrderInv'
  OBVIOUS
<1>1. CASE Recv
  BY <1>1, OrderRecv
<1>2. CASE WorkerStep /\ ~ Recv
  <2>1. UNCHANGED <<wcmd, ccmd, commands>> /\ (Unsent' => Unsent)
    BY <1>2, Zenon DEF WorkerStep, EstablishOpen, EstablishError, EstablishSend,
       Disconnected, RunPrepare, RunCreateCollation, RunClearCache, RunPing,
       ExecBegin, ExecNext, ExecNone, ExecSend, ExecFinish, ExecDrop, Unlock,
       Relock, RelockGranted, ShutdownDrop, ShutdownAck, Return, client, shared,
       Unsent
  <2> QED
    BY <2>1 DEF OrderInv
<1>3. CASE Send
  BY <1>3, OrderSend
<1>4. CASE ClientPoll /\ ~ Send
  <2>1. UNCHANGED <<wcmd, ccmd, commands>> /\ (Unsent' => Unsent)
    BY <1>4 DEF ClientPoll, LockPoll, PendingCrashed, Crashed, LockGranted,
       LockDone, RecvReply, RecvRow, RecvFirstRow, RecvEnd, worker, shared, Unsent
  <2> QED
    BY <2>1 DEF OrderInv
<1>5. CASE CancelConnect \/ Cancel \/ DropGuard
  <2>1. UNCHANGED <<wcmd, ccmd, commands>> /\ ~ Unsent'
    BY <1>5 DEF CancelConnect, Cancel, DropGuard, worker, shared, Unsent
  <2> QED
    BY <2>1 DEF OrderInv
<1>6. CASE Drop
  <2>1. /\ UNCHANGED <<wcmd, ccmd>> /\ ~ Unsent'
        /\ commands' = commands \/ commands' = <<>>
    BY <1>6 DEF Drop, worker, Unsent
  <2>2. CASE commands' = commands
    BY <2>1, <2>2 DEF OrderInv
  <2>3. CASE commands' = <<>>
    BY <2>1, <2>3 DEF OrderInv
  <2> QED
    BY <2>1, <2>2, <2>3
<1>7. CASE \E k \in Kind, q \in Query \cup {NoQuery} : Start(k, q)
  BY <1>7, OrderStart
<1>8. CASE UNCHANGED vars
  BY <1>8 DEF vars, worker, client, shared, OrderInv, Unsent
<1> QED
  BY <1>1, <1>2, <1>3, <1>4, <1>5, <1>6, <1>7, <1>8
     DEF Next, ClientPoll, ClientChoice
-----------------------------------------------------------------------------
(* What an answer means. *)

\* The thread takes only a command it has not answered, and once it took the
\* client's own there is none behind it.
LEMMA RecvIsNew ==
    ASSUME TypeOK, OrderInv
    PROVE  /\ Recv => wcmd.id # ccmd.id
           /\ wcmd.id = ccmd.id => wcmd = ccmd
<1>1. ASSUME Recv PROVE wcmd.id # ccmd.id
  <2>1. 1 \in 1..Len(commands)
    BY <1>1, Ids DEF Recv
  <2> QED
    BY <2>1, Ids DEF OrderInv
<1> QED
  BY <1>1 DEF OrderInv

\* The invariants that the theorems below rest on.
AnswerInv ==
    /\ TypeOK /\ MutexInv /\ OrderInv
    /\ ServingInv /\ FreshInv /\ CloseInv /\ SizeInv

LEMMA AnswerInit == Init => AnswerInv
<1> SUFFICES ASSUME Init PROVE AnswerInv
  OBVIOUS
<1>1. FreshInv /\ CloseInv /\ ServingInv
  BY DEF Init, FreshInv, CloseInv, ServingInv, NoCommand
<1>2. SizeInv
  BY DEF Init, SizeInv, AtRest, NoCommand
<1> QED
  BY <1>1, <1>2, TypeInit, MutexInit, OrderInit DEF AnswerInv

LEMMA ServingStep == ServingInv /\ [Next]_vars => ServingInv'
<1> SUFFICES ASSUME ServingInv, [Next]_vars PROVE ServingInv'
  OBVIOUS
<1>1. CASE Recv
  <2>1. \A c : /\ Serve(c) = "exec" => c.kind = "Execute"
               /\ Serve(c) = "shutdown" => c.kind = "Shutdown"
    BY DEF Serve
  <2> QED
    BY <1>1, <2>1, ServeHolds DEF Recv, ServingInv
<1>2. CASE WorkerStep /\ ~ Recv
  BY <1>2, Zenon DEF ServingInv, WorkerStep, EstablishOpen, EstablishError, EstablishSend,
     Disconnected, RunPrepare, RunCreateCollation, RunClearCache, RunPing,
     ExecBegin, ExecNext, ExecNone, ExecSend, ReceiverGone, ExecFinish, ExecDrop,
     Unlock, Relock, RelockGranted, ShutdownDrop, ShutdownAck, Return
<1>3. CASE UNCHANGED worker
  BY <1>3 DEF ServingInv, worker
<1> QED
  BY <1>1, <1>2, <1>3 DEF Next, vars, ClientPoll, LockPoll, Send, PendingCrashed,
     LockGranted, LockDone, RecvReply, RecvRow, RecvFirstRow, RecvEnd,
     ClientChoice, CancelConnect, Cancel, DropGuard, Drop, Start

LEMMA FreshStep == AnswerInv /\ [Next]_vars => FreshInv'
<1> SUFFICES ASSUME AnswerInv, [Next]_vars PROVE FreshInv'
  OBVIOUS
<1>0. /\ FreshInv /\ wcmd.id \in Nat /\ ccmd.id \in Nat /\ wcmd.id <= ccmd.id
      /\ Recv => wcmd.id # ccmd.id
  BY Ids, RecvIsNew, Zenon DEF AnswerInv, OrderInv
<1> USE DEF FreshInv
<1>1. CASE EstablishOpen \/ EstablishError \/ EstablishSend \/ Disconnected
  BY <1>0, <1>1 DEF EstablishOpen, EstablishError, EstablishSend, Disconnected,
                    client, channel
<1>2. CASE Recv
  BY <1>0, <1>2 DEF Recv, channel
<1>3. CASE RunPrepare \/ RunCreateCollation \/ RunClearCache \/ RunPing
  BY <1>0, <1>3 DEF RunPrepare, RunCreateCollation, RunClearCache, RunPing,
                    Reply, Listening, client, channel
<1>4. CASE ExecBegin \/ ExecSend
  BY <1>0, <1>4 DEF ExecBegin, ExecSend, ReceiverGone, Listening
<1>5. CASE ExecNext \/ ExecNone \/ ExecFinish \/ ExecDrop
  BY <1>0, <1>5, Zenon
     DEF ExecNext, ExecNone, ExecFinish, ExecDrop, Listening, client,
                    channel
<1>6. CASE Unlock \/ Relock \/ RelockGranted \/ ShutdownDrop \/ ShutdownAck \/ Return
  BY <1>0, <1>6 DEF Unlock, Relock, RelockGranted, ShutdownDrop, ShutdownAck,
                    Return, Reply, Listening, client, channel
<1>7. CASE ClientPoll
  BY <1>0, <1>7 DEF ClientPoll, LockPoll, Send, PendingCrashed, LockGranted,
     LockDone, RecvReply, RecvRow, RecvFirstRow, RecvEnd, worker, channel
<1>8. CASE CancelConnect \/ Cancel \/ DropGuard \/ Drop
  BY <1>0, <1>8 DEF CancelConnect, Cancel, DropGuard, Drop, worker, channel
<1>9. CASE \E k \in Kind, q \in Query \cup {NoQuery} : Start(k, q)
  BY <1>9 DEF Start
<1>10. CASE UNCHANGED vars
  BY <1>0, <1>10 DEF vars, worker, client, channel
<1> QED
  BY <1>1, <1>2, <1>3, <1>4, <1>5, <1>6, <1>7, <1>8, <1>9, <1>10, Zenon
     DEF Next, WorkerStep, ClientChoice

LEMMA CloseStep == AnswerInv /\ [Next]_vars => CloseInv'
<1> SUFFICES ASSUME AnswerInv, [Next]_vars PROVE CloseInv'
  OBVIOUS
<1>0. /\ CloseInv /\ FreshInv /\ (Recv => wcmd.id # ccmd.id)
      /\ wcmd.id = ccmd.id => wcmd = ccmd
  BY RecvIsNew DEF AnswerInv
<1> USE DEF CloseInv
<1>1. CASE EstablishOpen \/ EstablishError \/ EstablishSend \/ Disconnected
  BY <1>0, <1>1 DEF EstablishOpen, EstablishError, EstablishSend, Disconnected,
                    client, channel
<1>2. CASE Recv
  BY <1>0, <1>2 DEF Recv, channel
<1>3. CASE RunPrepare \/ RunCreateCollation \/ RunClearCache \/ RunPing
  BY <1>0, <1>3 DEF RunPrepare, RunCreateCollation, RunClearCache, RunPing,
                    Reply, Listening, client, channel
<1>4. CASE ExecBegin \/ ExecSend \/ ExecNext \/ ExecNone \/ ExecFinish \/ ExecDrop
  BY <1>0, <1>4 DEF ExecBegin, ExecSend, ExecNext, ExecNone, ExecFinish, ExecDrop,
                    client, channel
<1>5. CASE Unlock \/ Relock \/ RelockGranted \/ ShutdownDrop \/ ShutdownAck \/ Return
  BY <1>0, <1>5 DEF Unlock, Relock, RelockGranted, ShutdownDrop, ShutdownAck,
                    Return, Reply, Listening, client, channel
<1>6. CASE ClientPoll
  BY <1>0, <1>6 DEF ClientPoll, LockPoll, Send, PendingCrashed, Crashed,
     LockGranted, LockDone, RecvReply, RecvRow, RecvFirstRow, RecvEnd, worker,
     channel
<1>7. CASE CancelConnect \/ Cancel \/ DropGuard \/ Drop
  BY <1>0, <1>7 DEF CancelConnect, Cancel, DropGuard, Drop, worker, channel
<1>8. CASE \E k \in Kind, q \in Query \cup {NoQuery} : Start(k, q)
  BY <1>8 DEF Start
<1>9. CASE UNCHANGED vars
  BY <1>0, <1>9 DEF vars, worker, client, channel
<1> QED
  BY <1>1, <1>2, <1>3, <1>4, <1>5, <1>6, <1>7, <1>8, <1>9
     DEF Next, WorkerStep, ClientChoice

LEMMA SizeStep == AnswerInv /\ [Next]_vars => SizeInv'
<1> SUFFICES ASSUME AnswerInv, [Next]_vars PROVE SizeInv'
  OBVIOUS
<1>0. /\ SizeInv /\ FreshInv /\ ServingInv /\ (Recv => wcmd.id # ccmd.id)
      /\ wcmd.id = ccmd.id => wcmd = ccmd
      /\ Unsent => wcmd.id # ccmd.id
      /\ cpc = "guard" => ccmd.kind = "UnlockDb"
  BY RecvIsNew, Ids DEF AnswerInv, OrderInv, MutexInv
<1> USE DEF SizeInv, AtRest, ServingInv
<1>1. CASE EstablishOpen \/ EstablishError \/ EstablishSend \/ Disconnected
  BY <1>0, <1>1 DEF EstablishOpen, EstablishError, EstablishSend, Disconnected,
                    client, channel
<1>2. CASE Recv
  BY <1>0, <1>2, ServeHolds DEF Recv, FreshInv, mutex, channel
<1>3. CASE RunPrepare \/ RunClearCache
  BY <1>0, <1>3 DEF RunPrepare, RunClearCache, Reply, Listening,
                    update_cached_statements_size
<1>4. CASE RunCreateCollation \/ RunPing
  BY <1>0, <1>4 DEF RunCreateCollation, RunPing, Reply, Listening, client,
                    channel, shared
<1>5. CASE ExecBegin
  <2>1. ~ ended /\ (wcmd.id = ccmd.id => rowq = <<>>)
    BY <1>0, <1>5 DEF ExecBegin, FreshInv
  <2>2. ended' => /\ Listening(wcmd) /\ rowq' = Append(rowq, "Err") /\ wpc' = "recv"
    BY <1>5, <2>1, Zenon DEF ExecBegin
  <2>3. ~ (ccmd.kind \in {"Prepare", "ClearCache"} /\ (reply = "Ok" \/ result = "Ok"))
    BY <1>0, <1>5 DEF ExecBegin
  <2>4. UNCHANGED <<wcmd, cpc, ccmd, reply, result>> /\ wpc' # "drop"
    BY <1>5 DEF ExecBegin
  <2>5. Append(<<>>, "Err") # <<>> /\ Head(Append(<<>>, "Err")) = "Err"
    OBVIOUS
  <2>6. ended' => /\ AtRest' /\ ccmd'.kind = "Execute" /\ cpc' = "await"
                  /\ rowq' # <<>> /\ Head(rowq') = "Err"
    BY <1>0, <1>5, <2>1, <2>2, <2>4, <2>5 DEF Listening, ExecBegin
  <2> QED
    BY <2>3, <2>4, <2>6
<1>6. CASE ExecSend
  BY <1>0, <1>6 DEF ExecSend, ReceiverGone, shared
<1>7. CASE ExecNext \/ ExecNone
  BY <1>0, <1>7 DEF ExecNext, ExecNone, client, channel, shared
<1>8. CASE ExecFinish
  BY <1>0, <1>8 DEF ExecFinish, update_cached_statements_size, client, channel
<1>9. CASE ExecDrop
  <2>1. /\ size = Len(cached) /\ ~ ended
        /\ UNCHANGED <<wcmd, cached, ccmd, cpc, reply, result, size>> /\ wpc' = "recv"
    BY <1>0, <1>9 DEF ExecDrop, shared
  <2>2. ended' => ccmd.id = wcmd.id /\ ccmd.kind = "Execute"
    BY <1>0, <1>9, <2>1, Zenon DEF ExecDrop, Listening
  <2>3. ~ (ccmd.kind \in {"Prepare", "ClearCache"} /\ (reply = "Ok" \/ result = "Ok"))
    BY <1>0, <1>9 DEF ExecDrop
  <2> QED
    BY <2>1, <2>2, <2>3
<1>10. CASE Unlock \/ Relock \/ RelockGranted
  BY <1>0, <1>10 DEF Unlock, Relock, RelockGranted, client, channel
<1>11. CASE ShutdownDrop
  BY <1>0, <1>11 DEF ShutdownDrop, client, channel
<1>12. CASE ShutdownAck \/ Return
  BY <1>0, <1>12 DEF ShutdownAck, Return, Reply, Listening, client, channel,
                     shared
<1>13. CASE LockPoll \/ Send \/ PendingCrashed \/ LockGranted \/ LockDone
  <2>1. /\ UNCHANGED <<worker, ccmd, channel, size>>
        /\ result' = "Ok" => \/ result = "Ok"
                             \/ ccmd.kind \in {"CreateCollation", "UnlockDb"}
    BY <1>13 DEF LockPoll, Send, PendingCrashed, Crashed, LockGranted, LockDone,
                 shared, Sent
  <2>2. ended => cpc' = cpc \/ ccmd.kind = "UnlockDb"
    BY <1>0, <1>13 DEF LockPoll, Send, PendingCrashed, LockGranted, LockDone,
                       FreshInv, Unsent
  <2> QED
    BY <1>0, <2>1, <2>2 DEF worker, channel
<1>14. CASE RecvReply \/ RecvRow \/ RecvFirstRow \/ RecvEnd
  <2>1. CASE RecvReply
    BY <1>0, <2>1 DEF RecvReply, worker, channel, shared
  <2>2. CASE RecvRow
    BY <1>0, <2>2 DEF RecvRow, worker, channel, shared
  <2>3. CASE RecvFirstRow
    BY <1>0, <2>3 DEF RecvFirstRow, worker, channel, shared
  <2>4. CASE RecvEnd
    BY <1>0, <2>4 DEF RecvEnd, worker, channel, shared
  <2> QED
    BY <1>14, <2>1, <2>2, <2>3, <2>4
<1>15. CASE CancelConnect \/ Cancel \/ DropGuard \/ Drop
  BY <1>0, <1>15 DEF CancelConnect, Cancel, DropGuard, Drop, worker, channel,
                     shared
<1>16. CASE \E k \in Kind, q \in Query \cup {NoQuery} : Start(k, q)
  BY <1>0, <1>16 DEF Start, worker, shared
<1>17. CASE UNCHANGED vars
  BY <1>0, <1>17 DEF vars, worker, client, shared, channel
<1> QED
  BY <1>1, <1>2, <1>3, <1>4, <1>5, <1>6, <1>7, <1>8, <1>9, <1>10, <1>11, <1>12,
     <1>13, <1>14, <1>15, <1>16, <1>17, Zenon
     DEF Next, WorkerStep, ClientPoll, ClientChoice

LEMMA AnswerInvariant == Spec => []AnswerInv
<1>1. AnswerInv /\ [Next]_vars => AnswerInv'
  BY TypeStep, MutexWorker, MutexClient, MutexStutter, OrderStep, ServingStep,
     FreshStep, CloseStep, SizeStep DEF AnswerInv, Next
<1> QED
  BY AnswerInit, <1>1, PTL DEF Spec

\* After close() returned Ok, dropping the connection leaves no reference to
\* the database, whatever was queued behind the Shutdown command.
THEOREM CloseThenDropTheorem == Spec => []CloseThenDrop
<1>1. AnswerInv /\ ArcInv /\ TypeOK => CloseThenDrop
  <2> SUFFICES ASSUME AnswerInv, ArcInv, ccmd.kind = "Shutdown", result = "Ok",
                      cpc = "gone"
               PROVE  arcs = {}
    BY DEF CloseThenDrop
  <2>1. "worker" \notin arcs /\ "conn" \notin arcs
    BY DEF AnswerInv, CloseInv, ArcInv
  <2>2. arcs \subseteq {"worker", "conn"}
    BY DEF AnswerInv, TypeOK, SharedTypeOK
  <2> QED
    BY <2>1, <2>2
<1>2. Spec => []ArcInv
  BY ArcInit, ArcStep, PTL DEF Spec
<1> QED
  BY AnswerInvariant, TypeCorrect, <1>1, <1>2, PTL

\* When prepare, clear_cache or an execute read to its end has returned,
\* cached_statements_size() is the size of the cache, for channels and caches
\* of any size.
THEOREM SizeSettledTheorem == Spec => []SizeSettled
<1>1. AnswerInv => SizeSettled
  BY DEF AnswerInv, SizeInv, SizeSettled, AtRest
<1> QED
  BY AnswerInvariant, <1>1, PTL
=============================================================================
