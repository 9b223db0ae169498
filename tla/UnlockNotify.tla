---------------------------- MODULE UnlockNotify ----------------------------
(***************************************************************************)
(* Statements of connections that share a cache: StatementHandle::step,    *)
(* the wait for sqlite3_unlock_notify it makes when another connection     *)
(* holds a table, and the Notify that its callback fires.                  *)
(*                                                                         *)
(* A Notify lives in the frame of wait_for_unlock_notify, so a connection  *)
(* has one slot for it: alive tells whether the frame is there. fire()     *)
(* sets the flag under the mutex and notifies after it has released it;    *)
(* the two halves are two steps here. SQLite is external: a table has one  *)
(* owner, and a lock taken in a transaction is released when it ends.      *)
(***************************************************************************)
EXTENDS Integers, FiniteSets

CONSTANTS
    Conns,      \* connections of the shared cache, each with its worker
    Tables,
    None,
    MaxSteps    \* bound: the statements of one transaction

ASSUME NoneAssumption == None \notin Conns
ASSUME MaxStepsAssumption == MaxSteps \in Nat \ {0}

VARIABLES
    pc,         \* where the worker thread of a connection is
    needs,      \* the table its statement needs
    steps,      \* statements of the running transaction
    owner,      \* sqlite: who has a table
    blocker,    \* sqlite: pBlockingConnection
    registered, \* sqlite: pUnlockConnection, the callback is installed
    master,     \* sqlite: who is in the static mutex, calling back
    todo,       \* unlock_notify_cb: the rest of its slice
    ringing,    \* unlock_notify_cb: fire() is between its two halves
    fired,      \* Notify.mutex
    alive       \* the Notify of a connection is in scope

notifyVars == <<pc, needs, steps, owner, blocker, registered, master, todo,
                ringing, fired, alive>>

ConnOrNone == Conns \cup {None}
Places == {"idle", "step", "register", "wait", "asleep", "reset", "firing"}

NotifyTypeOK ==
    /\ pc \in [Conns -> Places]
    /\ needs \in [Conns -> Tables]
    /\ steps \in [Conns -> 0..MaxSteps]
    /\ owner \in [Tables -> ConnOrNone]
    /\ blocker \in [Conns -> ConnOrNone]
    /\ registered \in [Conns -> ConnOrNone]
    /\ master \in ConnOrNone
    /\ todo \in SUBSET Conns
    /\ ringing \in ConnOrNone
    /\ fired \in [Conns -> BOOLEAN]
    /\ alive \in [Conns -> BOOLEAN]

NotifyInit ==
    /\ pc = [c \in Conns |-> "idle"]
    /\ needs \in [Conns -> Tables]
    /\ steps = [c \in Conns |-> 0]
    /\ owner = [t \in Tables |-> None]
    /\ blocker = [c \in Conns |-> None]
    /\ registered = [c \in Conns |-> None]
    /\ master = None
    /\ todo = {}
    /\ ringing = None
    /\ fired = [c \in Conns |-> FALSE]
    /\ alive = [c \in Conns |-> FALSE]

Goes(c, place) == pc' = [pc EXCEPT ![c] = place]

-----------------------------------------------------------------------------
\* step() of a statement that needs table t.
Call(c, t) ==
    /\ pc[c] = "idle" /\ steps[c] < MaxSteps
    /\ steps' = [steps EXCEPT ![c] = @ + 1]
    /\ needs' = [needs EXCEPT ![c] = t]
    /\ Goes(c, "step")
    /\ UNCHANGED <<owner, blocker, registered, master, todo, ringing, fired, alive>>

\* SQLITE_ROW or SQLITE_DONE: the table was free or the connection's own.
StepReturns(c) ==
    /\ pc[c] = "step" /\ owner[needs[c]] \in {None, c}
    /\ owner' = [owner EXCEPT ![needs[c]] = c]
    /\ Goes(c, "idle")
    /\ UNCHANGED <<needs, steps, blocker, registered, master, todo, ringing, fired, alive>>

\* SQLITE_LOCKED_SHAREDCACHE, and the Notify::new that follows it.
StepLocked(c) ==
    /\ pc[c] = "step" /\ owner[needs[c]] \notin {None, c}
    /\ blocker' = [blocker EXCEPT ![c] = owner[needs[c]]]
    /\ fired' = [fired EXCEPT ![c] = FALSE]
    /\ alive' = [alive EXCEPT ![c] = TRUE]
    /\ Goes(c, "register")
    /\ UNCHANGED <<needs, steps, owner, registered, master, todo, ringing>>

\* The connections that c would wait for, one behind the other.
Chain(c) ==
    LET at[n \in Nat] == IF n = 0 THEN blocker[c]
                         ELSE IF at[n - 1] = None THEN None
                         ELSE registered[at[n - 1]]
    IN  {at[n] : n \in 0..Cardinality(Conns)}

\* sqlite3_unlock_notify when the blocker's transaction has ended by now: the
\* callback runs at once, in this thread.
NotifiedAtOnce(c) ==
    /\ pc[c] = "register" /\ master = None /\ blocker[c] = None
    /\ fired' = [fired EXCEPT ![c] = TRUE]
    /\ Goes(c, "wait")
    /\ UNCHANGED <<needs, steps, owner, blocker, registered, master, todo, ringing, alive>>

\* SQLITE_LOCKED: the wait would close a circle, and step() fails.
WouldDeadlock(c) ==
    /\ pc[c] = "register" /\ master = None /\ c \in Chain(c)
    /\ alive' = [alive EXCEPT ![c] = FALSE]
    /\ Goes(c, "idle")
    /\ UNCHANGED <<needs, steps, owner, blocker, registered, master, todo, ringing, fired>>

Registers(c) ==
    /\ pc[c] = "register" /\ master = None /\ blocker[c] # None /\ c \notin Chain(c)
    /\ registered' = [registered EXCEPT ![c] = blocker[c]]
    /\ Goes(c, "wait")
    /\ UNCHANGED <<needs, steps, owner, blocker, master, todo, ringing, fired, alive>>

WaitOnce_Unchecked(c) == pc[c] = "wait" /\ Goes(c, "asleep") /\ UNCHANGED alive
WaitOnce_Impatient(c) ==
    pc[c] = "wait" /\ Goes(c, "reset") /\ alive' = [alive EXCEPT ![c] = FALSE]

WaitOnce_NoReset(c) ==
    /\ pc[c] = "wait"
    /\ Goes(c, IF fired[c] THEN "step" ELSE "asleep")
    /\ alive' = [alive EXCEPT ![c] = ~fired[c]]

\* Notify::wait: wait_while looks at the flag before it sleeps and whenever it
\* is woken. When it returns the frame of wait_for_unlock_notify goes with it.
WaitOnce(c) ==
    /\ pc[c] = "wait"
    /\ Goes(c, IF fired[c] THEN "reset" ELSE "asleep")
    /\ alive' = [alive EXCEPT ![c] = ~fired[c]]
Wait(c) ==
    /\ WaitOnce(c)
    /\ UNCHANGED <<needs, steps, owner, blocker, registered, master, todo, ringing, fired>>

\* sqlite3_reset, and the loop goes round.
Reset(c) ==
    /\ pc[c] = "reset" /\ Goes(c, "step")
    /\ UNCHANGED <<needs, steps, owner, blocker, registered, master, todo, ringing, fired, alive>>

-----------------------------------------------------------------------------
\* The statement that ends the transaction of c: SQLite forgets whom c blocks
\* and calls unlock_notify_cb for those that wait, in c's thread and with its
\* static mutex held.
EndTransaction(c) ==
    /\ pc[c] = "idle" /\ steps[c] > 0 /\ master = None
    /\ steps' = [steps EXCEPT ![c] = 0]
    /\ owner' = [t \in Tables |-> IF owner[t] = c THEN None ELSE owner[t]]
    /\ blocker' = [p \in Conns |-> IF blocker[p] = c THEN None ELSE blocker[p]]
    /\ registered' = [p \in Conns |-> IF registered[p] = c THEN None ELSE registered[p]]
    /\ todo' = {p \in Conns : registered[p] = c}
    /\ master' = c
    /\ Goes(c, "firing")
    /\ UNCHANGED <<needs, ringing, fired, alive>>

\* fire(), first half: the flag is set under the mutex.
FireSets(c, p) ==
    /\ pc[c] = "firing" /\ ringing = None /\ p \in todo
    /\ fired' = [fired EXCEPT ![p] = TRUE]
    /\ todo' = todo \ {p}
    /\ ringing' = p
    /\ UNCHANGED <<pc, needs, steps, owner, blocker, registered, master, alive>>

\* fire(), second half: notify_one. Whoever was waiting may have returned.
Ring == pc' = [p \in Conns |-> IF p = ringing /\ pc[p] = "asleep" THEN "wait" ELSE pc[p]]
FireNotifies(c) ==
    /\ pc[c] = "firing" /\ ringing # None
    /\ Ring
    /\ ringing' = None
    /\ UNCHANGED <<needs, steps, owner, blocker, registered, master, todo, fired, alive>>

CallbackReturns(c) ==
    /\ pc[c] = "firing" /\ ringing = None /\ todo = {}
    /\ master' = None
    /\ Goes(c, "idle")
    /\ UNCHANGED <<needs, steps, owner, blocker, registered, todo, ringing, fired, alive>>

-----------------------------------------------------------------------------
Thread(c) ==
    \/ StepReturns(c) \/ StepLocked(c)
    \/ NotifiedAtOnce(c) \/ WouldDeadlock(c) \/ Registers(c)
    \/ Wait(c) \/ Reset(c)
    \/ \E p \in Conns : FireSets(c, p)
    \/ FireNotifies(c) \/ CallbackReturns(c)

NotifyNext == \E c \in Conns : Thread(c) \/ EndTransaction(c) \/ \E t \in Tables : Call(c, t)

NotifySpec == NotifyInit /\ [][NotifyNext]_notifyVars

\* A worker thread runs on. That a transaction ends, or a retry finds its
\* table free, is not assumed.
NotifyFairSpec == NotifySpec /\ \A c \in Conns : WF_notifyVars(Thread(c))

-----------------------------------------------------------------------------
\* The callback sets the flag of a Notify only while its owner is still in
\* wait_for_unlock_notify, and of each one once: SQLite keeps the pointer to a
\* stack frame, and nothing but the wait keeps the frame there.
FiresTheWaiting ==
    /\ \A p \in todo : alive[p] /\ ~fired[p] /\ pc[p] \in {"wait", "asleep"}
    /\ \A p \in Conns : registered[p] # None =>
           alive[p] /\ ~fired[p] /\ pc[p] \in {"wait", "asleep"}

\* A sleeping worker always has exactly one wake-up to come: its callback is
\* installed, or in the slice that is being called, or between the two halves
\* of fire(). A notify_one that comes late, after its worker has gone on, never
\* finds the worker asleep in a later wait: that wait needs the static mutex
\* which the late callback still holds.
OneWakeUp ==
    \A p \in Conns : pc[p] = "asleep" =>
        /\ registered[p] # None \/ p \in todo \/ (ringing = p /\ fired[p])
        /\ registered[p] # None => p \notin todo /\ ringing # p
        /\ p \in todo => ringing # p

\* What keeps both inductive: the callback runs with the static mutex held, so
\* no connection can register again while it is called back, and a connection
\* that is past its registration has a flag that is set or will be.
Inductive ==
    /\ NotifyTypeOK
    /\ \A c \in Conns : pc[c] = "firing" <=> master = c
    /\ master = None => todo = {} /\ ringing = None
    /\ \A p \in todo : registered[p] = None /\ p # ringing
    /\ \A p \in Conns :
           ringing = p => registered[p] = None /\ (pc[p] \in {"wait", "asleep"} => fired[p])
    /\ \A p \in Conns : pc[p] = "register" => ~fired[p]
    /\ \A p \in Conns : pc[p] \in {"wait", "asleep"} => fired[p] \/ registered[p] # None \/ p \in todo
    /\ \A p \in Conns : pc[p] = "asleep" /\ fired[p] => ringing = p
    /\ \A p \in Conns : pc[p] \in {"register", "wait", "asleep"} => alive[p]
    /\ FiresTheWaiting

\* A worker whose blocker has ended its transaction wakes up and retries its
\* statement, wherever it was when the callback came: registered and not yet
\* waiting, about to sleep, or asleep.
WokenUp ==
    \A c \in Conns : pc[c] \in {"wait", "asleep"} /\ registered[c] = None ~> pc[c] = "reset"

\* Not so: the retry may find that a third connection has taken the table, and
\* again after the next wait; the connections that wait for it starve with it.
StepEnds == \A c \in Conns : pc[c] = "register" ~> pc[c] = "idle"

\* Not so: notify_one may touch a Notify that is gone, when the worker sees the
\* flag between the two halves of fire().
NotifyOutlives == ringing # None => alive[ringing]
=============================================================================
