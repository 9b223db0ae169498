------------------------------ MODULE FastPool ------------------------------
(***************************************************************************)
(* The connection pool: FastPool and ConnProxy (src/rbdc-pool-fast), and    *)
(* ConnectionManager and ConnectionGuard (src/src/pool).  Tasks get a        *)
(* connection, use it, may close it, and drop it; a connection that leaves   *)
(* the pool is closed by a task its guard spawns.                           *)
(*                                                                         *)
(* fast_pool itself is external and modelled from its use: it keeps idle     *)
(* connections, checks one before it hands it out, and connects while there  *)
(* are fewer than max_open.                                                 *)
(***************************************************************************)
EXTENDS Integers, FiniteSets

CONSTANTS
    Task,       \* tasks that share the pool
    MaxConns,   \* bound on the connections that are made
    Limits,     \* values of max_open and max_idle
    Runtime     \* BOOLEAN: a ConnProxy is dropped inside a tokio runtime

VARIABLES
    pc,           \* where each task is
    held,         \* the connection each task has, 0 if none
    idle,         \* idle connections of the pool
    connections,  \* fast_pool's count
    max_open,
    max_idle,
    max_lifetime, \* BOOLEAN: connections expire
    status,       \* of each connection made
    closing       \* connections whose guard spawned a close

poolVars == <<pc, held, idle, connections, max_open, max_idle, max_lifetime,
              status, closing>>

None == 0

PoolInit ==
    /\ pc = [t \in Task |-> "idle"] /\ held = [t \in Task |-> None]
    /\ idle = {} /\ connections = 0
    /\ max_open \in Limits \ {0} /\ max_idle \in Limits /\ max_lifetime = FALSE
    /\ status = [c \in {} |-> "open"] /\ closing = {}

Conns == DOMAIN status
Goto(t, p) == pc' = [pc EXCEPT ![t] = p]
limits == <<max_open, max_idle, max_lifetime>>

\* PoolState::in_use of fast_pool.
InUse == Cardinality({t \in Task : held[t] # None})
-----------------------------------------------------------------------------
(* ConnectionGuard. *)

\* spawn_task: without a runtime the future, and the connection in it, is
\* dropped.
spawn_task(c, runtime) == IF runtime THEN closing \cup {c} ELSE closing

Drop_Leak(c, runtime) == closing

\* drop: auto_close is always set, so the connection is closed in a task.
Drop(c, runtime) == spawn_task(c, runtime)

\* The pool drops the guard.
Discard(c, runtime) ==
    /\ closing' = Drop(c, runtime)
    /\ connections' = connections - 1

\* The task closes the connection, or gives up after auto_close.
AutoClose(c) ==
    /\ c \in closing
    /\ closing' = closing \ {c}
    /\ \E s \in {"closed", "abandoned"} :
          status' = [status EXCEPT ![c] = IF @ = "closed" THEN @ ELSE s]
    /\ UNCHANGED <<pc, held, idle, connections, limits>>
-----------------------------------------------------------------------------
(* get and get_timeout. *)

Get(t) ==
    /\ pc[t] = "idle" /\ Goto(t, "acquire")
    /\ UNCHANGED <<held, idle, connections, limits, status, closing>>

GetTimeoutZero(t) ==
    /\ pc[t] = "idle" /\ Goto(t, IF InUse < max_open THEN "acquire" ELSE "idle")
    /\ UNCHANGED <<held, idle, connections, limits, status, closing>>

TakeIdle(t) ==
    /\ pc[t] = "acquire"
    /\ \E c \in idle :
          /\ idle' = idle \ {c}
          /\ held' = [held EXCEPT ![t] = c]
    /\ Goto(t, "check")
    /\ UNCHANGED <<connections, limits, status, closing>>

Connect(t) ==
    /\ pc[t] = "acquire" /\ idle = {} /\ connections < max_open
    /\ Cardinality(Conns) + Cardinality({u \in Task : pc[u] = "connect"}) < MaxConns
    /\ connections' = connections + 1
    /\ Goto(t, "connect")
    /\ UNCHANGED <<held, idle, limits, status, closing>>

Connected(t) ==
    /\ pc[t] = "connect"
    /\ LET c == Cardinality(Conns) + 1 IN
          /\ status' = [d \in Conns \cup {c} |-> IF d = c THEN "open" ELSE status[d]]
          /\ held' = [held EXCEPT ![t] = c]
    /\ Goto(t, "held")
    /\ UNCHANGED <<idle, connections, limits, closing>>

ConnectError(t) ==
    /\ pc[t] = "connect"
    /\ connections' = connections - 1
    /\ Goto(t, "idle")
    /\ UNCHANGED <<held, idle, limits, status, closing>>

check_Trusting(c) == TRUE

\* ConnectionManager::check: the ping succeeds.
check(c) == status[c] = "open"

CheckOk(t) ==
    /\ pc[t] = "check" /\ check(held[t])
    /\ Goto(t, "held")
    /\ UNCHANGED <<held, idle, connections, limits, status, closing>>

\* ConnManagerProxy::check closes a connection whose ping fails.
CheckErr(t) ==
    /\ pc[t] = "check" /\ ~ check(held[t])
    /\ Goto(t, "check_close")
    /\ UNCHANGED <<held, idle, connections, limits, status, closing>>

CheckClose(t) ==
    /\ pc[t] = "check_close"
    /\ \E s \in {status[held[t]], "closed"} : status' = [status EXCEPT ![held[t]] = s]
    /\ Discard(held[t], TRUE)
    /\ held' = [held EXCEPT ![t] = None]
    /\ Goto(t, "acquire")
    /\ UNCHANGED <<idle, limits>>

\* DurationManager refuses a connection that is too old, without a ping.
Expired(t) ==
    /\ pc[t] = "check" /\ max_lifetime
    /\ Discard(held[t], TRUE)
    /\ held' = [held EXCEPT ![t] = None]
    /\ Goto(t, "acquire")
    /\ UNCHANGED <<idle, limits, status>>

\* The time is over and the future dropped, with whatever it holds.
TimeOut(t) ==
    /\ pc[t] \in {"acquire", "connect", "check", "check_close"}
    /\ held' = [held EXCEPT ![t] = None]
    /\ Goto(t, "idle")
    /\ \/ pc[t] = "acquire" /\ UNCHANGED <<idle, connections, closing>>
       \/ /\ pc[t] = "connect"
          /\ connections' = connections - 1 /\ UNCHANGED <<idle, closing>>
       \/ /\ held[t] # None
          /\ \/ Discard(held[t], TRUE) /\ UNCHANGED idle
             \/ idle' = idle \cup {held[t]} /\ UNCHANGED <<connections, closing>>
    /\ UNCHANGED <<limits, status>>
-----------------------------------------------------------------------------
(* The application has a ConnProxy. *)

Close(t) ==
    /\ pc[t] = "held"
    /\ status' = [status EXCEPT ![held[t]] = "closed"]
    /\ UNCHANGED <<pc, held, idle, connections, limits, closing>>

\* The proxy is dropped, and with it fast_pool's guard.
Release(t) ==
    /\ pc[t] = "held"
    /\ held' = [held EXCEPT ![t] = None]
    /\ Goto(t, "idle")
    /\ IF Cardinality(idle) < max_idle
       THEN idle' = idle \cup {held[t]} /\ UNCHANGED <<connections, closing>>
       ELSE Discard(held[t], Runtime) /\ UNCHANGED idle
    /\ UNCHANGED <<limits, status>>

set_max_open_conns(n) ==
    /\ max_open' = n
    /\ UNCHANGED <<pc, held, idle, connections, max_idle, max_lifetime, status, closing>>

set_max_idle_conns(n) ==
    /\ max_idle' = n
    /\ UNCHANGED <<pc, held, idle, connections, max_open, max_lifetime, status, closing>>

set_conn_max_lifetime ==
    /\ max_lifetime' = ~ max_lifetime
    /\ UNCHANGED <<pc, held, idle, connections, max_open, max_idle, status, closing>>

\* The server goes away.
Die(c) ==
    /\ status[c] = "open"
    /\ status' = [status EXCEPT ![c] = "dead"]
    /\ UNCHANGED <<pc, held, idle, connections, limits, closing>>

Step(t) ==
    \/ TakeIdle(t) \/ Connect(t) \/ Connected(t) \/ ConnectError(t)
    \/ CheckOk(t) \/ CheckErr(t) \/ CheckClose(t) \/ Expired(t)

PoolNext ==
    \/ \E t \in Task : Get(t) \/ GetTimeoutZero(t) \/ Step(t) \/ TimeOut(t)
                       \/ Close(t) \/ Release(t)
    \/ \E c \in Conns : AutoClose(c) \/ Die(c)
    \/ \E n \in Limits : set_max_open_conns(n) \/ set_max_idle_conns(n)
    \/ set_conn_max_lifetime

PoolSpec == PoolInit /\ [][PoolNext]_poolVars

\* The runtime polls its tasks and its timers expire.
FairSpec ==
    /\ PoolSpec
    /\ \A t \in Task : WF_poolVars(Step(t)) /\ WF_poolVars(TimeOut(t))
    /\ \A c \in 1..MaxConns : WF_poolVars(c \in Conns /\ AutoClose(c))
-----------------------------------------------------------------------------
PoolTypeOK ==
    /\ pc \in [Task -> {"idle", "acquire", "connect", "check", "check_close", "held"}]
    /\ Conns \subseteq 1..MaxConns
    /\ status \in [Conns -> {"open", "dead", "closed", "abandoned"}]
    /\ held \in [Task -> Conns \cup {None}]
    /\ \A t \in Task : held[t] # None <=> pc[t] \in {"check", "check_close", "held"}
    /\ idle \subseteq Conns /\ closing \subseteq Conns
    /\ connections \in 0..MaxConns
    /\ max_open \in Limits /\ max_idle \in Limits /\ max_lifetime \in BOOLEAN

\* get returns no connection that somebody has closed, though close leaves the
\* ConnProxy its connection and the proxy gives it back to the pool: the ping
\* of ConnectionManager::check stands between.
HandsOutOpen ==
    [][\A t \in Task : pc[t] # "held" /\ pc'[t] = "held" =>
           status'[held'[t]] \notin {"closed", "abandoned"}]_poolVars

Left(c) == c \in Conns /\ c \notin idle /\ \A t \in Task : held[t] # c

\* Every connection that leaves the pool is closed, or its close has had its
\* ten seconds: "make sure auto_close" of ConnectionGuard.
AutoClosed ==
    \A c \in 1..MaxConns :
        Left(c) ~> (c \in Conns /\ status[c] \in {"closed", "abandoned"})
=============================================================================
