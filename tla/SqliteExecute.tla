---------------------------- MODULE SqliteExecute ----------------------------
(***************************************************************************)
(* Running one SQL string on the worker thread: VirtualStatement     *)
(* (src/rbdc-sqlite/src/statement/virtual.rs), which chops the string into  *)
(* SQLite statements, ExecuteIter (connection/execute.rs), which binds and  *)
(* steps them one after the other, and SqliteArguments::bind.               *)
(*                                                                         *)
(* A SQL string is the sequence of its statements, a statement the sequence *)
(* of its parameters, and an argument the number of its place.  SQLite      *)
(* itself is external: preparing, stepping and resetting a statement are    *)
(* what its documentation says of sqlite3_prepare_v3, sqlite3_step and      *)
(* sqlite3_reset.                                                           *)
(***************************************************************************)
EXTENDS Integers, Sequences, FiniteSetsExt

CONSTANTS Scripts,    \* the SQL strings: sequences of statements
          MaxArgs,    \* bound on the number of arguments of an execution
          MaxStarts   \* bound on the statement starts of one execution

\* `?`, `?NNN` or `$NNN`, and a name that is not a number.
Param == [form : {"anonymous", "numbered", "named"}, n : Nat]

ASSUME ScriptsAssumption == \A s \in Scripts : s \in Seq(Seq(Param))
ASSUME MaxAssumption == MaxArgs \in Nat /\ MaxStarts \in Nat

VARIABLES
    query,      \* the SQL string of this VirtualStatement
    persistent, \* it is kept in the cache, not in Statements::temp
    handles,    \* Seq([vm, bound]): its prepared statements
    index,      \* VirtualStatement::index, NoIndex for None
    pc,         \* "idle", or "iter" while an ExecuteIter exists
    values,     \* the number of arguments of this execution, 0 for None
    args_used,  \* ExecuteIter::args_used
    goto_next,  \* ExecuteIter::goto_next
    item,       \* what next() returned last
    ran,        \* history: the statement starts of this execution
    rejected    \* history: the statements of it that next() could not bind

vars == <<query, persistent, handles, index, pc, values, args_used, goto_next,
          item, ran, rejected>>

NoIndex == -1
Unbound == 0

\* sqlite3_prepare_v3 makes a statement that has not run and binds nothing.
Fresh(ps) == [vm |-> "init", bound |-> [i \in DOMAIN ps |-> Unbound]]

Init ==
    /\ query \in Scripts /\ persistent \in BOOLEAN
    /\ handles = <<>> /\ index = NoIndex
    /\ pc = "idle" /\ values = 0 /\ args_used = 0 /\ goto_next = TRUE
    /\ item = "none" /\ ran = <<>> /\ rejected = {}
-----------------------------------------------------------------------------
(* SqliteArguments::bind.  Without arguments nothing is bound. *)

\* The place of the argument for parameter i, for a statement whose first
\* anonymous parameter takes argument offset + 1.
ArgOf(ps, i, offset) ==
    IF ps[i].form = "anonymous"
    THEN offset + Cardinality({j \in 1..i : ps[j].form = "anonymous"})
    ELSE ps[i].n

\* The parameter the loop stops at, if SQLite takes the values before it: one
\* with a name that is not supported, or the first one without an argument.
BindStop(ps, offset, count) ==
    Min({i \in DOMAIN ps : \/ count = 0
                           \/ ps[i].form = "named"
                           \/ ArgOf(ps, i, offset) > count}
        \cup {Len(ps) + 1})

\* The loop returns an error at parameter `stop`: sqlite3_bind_* refuses the
\* value (too big, out of memory), or the name is not supported.
BindFails(ps, offset, count, stop) ==
    /\ count > 0 /\ stop \in DOMAIN ps
    /\ \/ stop < BindStop(ps, offset, count)
       \/ stop = BindStop(ps, offset, count) /\ ps[stop].form = "named"

ArgsUsed_None(ps, offset, count) == 0

\* arg_i - offset at the end: the anonymous parameters the loop got to.
ArgsUsed(ps, offset, count) ==
    Cardinality({i \in DOMAIN ps : /\ count > 0
                                   /\ i <= BindStop(ps, offset, count)
                                   /\ ps[i].form = "anonymous"})

\* The bindings b after the loop has come to parameter `stop`.
bind(b, ps, offset, stop) ==
    [i \in DOMAIN ps |-> IF i < stop THEN ArgOf(ps, i, offset) ELSE b[i]]

clear_bindings_Skip(b) == b
clear_bindings(b) == [i \in DOMAIN b |-> Unbound]
-----------------------------------------------------------------------------
(* VirtualStatement. *)

\* prepare_next moves the index on, up to the number of handles.
NextIndex == IF index = NoIndex THEN 0 ELSE Min({index + 1, Len(handles)})

\* Nothing is left to prepare.
TailEmpty == Len(handles) = Len(query)

\* VirtualStatement::reset resets the handles in order and returns at the
\* first error, e (Len(hs) + 1 for none).  sqlite3_reset reports the error of
\* the last step, or an error of ending a statement that is under way.
ResetStops(hs, e) ==
    /\ \A i \in DOMAIN hs : i < e => hs[i].vm # "failed"
    /\ e \in DOMAIN hs => hs[e].vm \in {"failed", "row"}

reset_Skip(hs, e) == hs

\* SQLite resets a statement also when it reports an error, but then its
\* bindings stay.
reset(hs, e) ==
    [i \in DOMAIN hs |->
        [vm    |-> IF i <= e THEN "init" ELSE hs[i].vm,
         bound |-> IF i < e THEN clear_bindings(hs[i].bound) ELSE hs[i].bound]]

IndexAfterReset_Kept == index
IndexAfterReset == NoIndex
-----------------------------------------------------------------------------
(* The commands. *)

\* Statements::get: a statement that is not persistent is a new one; a cached
\* one is reset, and the command fails if that fails.
get(hs, e) ==
    IF persistent THEN ResetStops(hs, e) /\ handles' = reset(hs, e)
    ELSE e = 1 /\ handles' = <<>>

GetFails(hs, e) == persistent /\ e \in DOMAIN hs

\* execute::iter.  Only executions with arguments use the cache.
Execute(count) ==
    /\ pc = "idle"
    /\ persistent <=> count > 0
    /\ \E e \in 1..Len(handles) + 1 :
          /\ get(handles, e)
          /\ pc' = IF GetFails(handles, e) THEN "idle" ELSE "iter"
          /\ item' = IF GetFails(handles, e) THEN "ResetError" ELSE "none"
    /\ index' = IndexAfterReset
    /\ values' = count /\ args_used' = 0 /\ goto_next' = TRUE
    /\ ran' = <<>> /\ rejected' = {}
    /\ UNCHANGED <<query, persistent>>

\* The worker's prepare(): get, then prepare_next to the end of the string or
\* to a statement that does not compile.
Prepare ==
    /\ pc = "idle" /\ persistent
    /\ \E e \in 1..Len(handles) + 1, n \in Len(handles)..Len(query) :
          /\ ResetStops(handles, e)
          /\ e \in DOMAIN handles => n = Len(handles)
          /\ handles' = reset(handles, e)
                        \o [i \in 1..n - Len(handles) |->
                              Fresh(query[Len(handles) + i])]
          /\ index' = IF e \in DOMAIN handles THEN IndexAfterReset ELSE n
    /\ UNCHANGED <<query, persistent, pc, values, args_used, goto_next, item,
                   ran, rejected>>

\* Another SQL string takes the place of this one in the cache: its handles
\* are finalized, and the next use starts with a new VirtualStatement.
Evict ==
    /\ pc = "idle" /\ persistent
    /\ handles' = <<>> /\ index' = NoIndex
    /\ UNCHANGED <<query, persistent, pc, values, args_used, goto_next, item,
                   ran, rejected>>
-----------------------------------------------------------------------------
(* ExecuteIter::next. *)

\* StatementHandle::step on statement k (from 1) of hs: SQLite starts a
\* statement that is not at a row, also one that has just failed.
Step(hs, k) ==
    \E res \in {"row", "done", "failed"} :
        /\ handles' = [hs EXCEPT ![k].vm = res]
        /\ item' = CASE res = "row" -> "Row" [] res = "done" -> "Done"
                     [] OTHER -> "StepError"
        /\ goto_next' = (res = "done")
        /\ IF hs[k].vm = "row" THEN UNCHANGED ran
           ELSE /\ Len(ran) < MaxStarts
                /\ ran' = Append(ran, [stmt |-> k, bound |-> hs[k].bound])

\* The handles once prepare_next has returned statement k.
Prepared(k) ==
    IF k > Len(handles) THEN Append(handles, Fresh(query[k])) ELSE handles

\* The next statement does not compile: the handles stay as they are, and the
\* following call tries it again.
PrepareError ==
    /\ pc = "iter" /\ goto_next
    /\ NextIndex = Len(handles) /\ ~ TailEmpty
    /\ index' = NextIndex /\ item' = "PrepareError"
    /\ UNCHANGED <<query, persistent, handles, pc, values, args_used, goto_next,
                   ran, rejected>>

\* The "sanity check" reset of statement k reports an error.
SanityFails(k) == Prepared(k)[k].vm = "failed"

\* Its bindings after clear_bindings and a loop that came to `stop`.
Rebound(k, stop) ==
    bind(clear_bindings(Prepared(k)[k].bound), query[k], args_used, stop)

\* The next statement cannot be reset or bound.  It counts as started, with
\* what has been bound: the following call steps it.  args_used stays.
BeginError ==
    LET k == NextIndex + 1 IN
    /\ pc = "iter" /\ goto_next
    /\ k <= Len(query)
    /\ \E stop \in 1..Len(query[k]) + 1 :
          /\ SanityFails(k) \/ BindFails(query[k], args_used, values, stop)
          /\ handles' = [Prepared(k) EXCEPT
                            ![k] = [vm |-> "init",
                                    bound |-> IF SanityFails(k) THEN @.bound
                                              ELSE Rebound(k, stop)]]
    /\ index' = NextIndex /\ goto_next' = FALSE /\ item' = "BindError"
    /\ rejected' = rejected \cup {k}
    /\ UNCHANGED <<query, persistent, pc, values, args_used, ran>>

\* The next statement is prepared if need be, reset, bound and stepped.
Begin ==
    LET k == NextIndex + 1
        stop == BindStop(query[k], args_used, values)
    IN
    /\ pc = "iter" /\ goto_next
    /\ k <= Len(query)
    /\ ~ SanityFails(k) /\ ~ BindFails(query[k], args_used, values, stop)
    /\ index' = NextIndex
    /\ args_used' = args_used + ArgsUsed(query[k], args_used, values)
    /\ Step([Prepared(k) EXCEPT ![k] = [vm |-> "init", bound |-> Rebound(k, stop)]],
            k)
    /\ UNCHANGED <<query, persistent, pc, values, rejected>>

\* The statement that has started is stepped on.
Continue ==
    /\ pc = "iter" /\ ~ goto_next
    /\ Step(handles, index + 1)
    /\ UNCHANGED <<query, persistent, index, pc, values, args_used, rejected>>

\* The iterator is exhausted, or the receiver of its results is gone: it is
\* dropped, which resets the VirtualStatement and ignores an error of that.
Drop ==
    /\ pc = "iter"
    /\ \/ goto_next /\ NextIndex = Len(handles) /\ TailEmpty
       \/ item # "none"
    /\ \E e \in 1..Len(handles) + 1 :
          ResetStops(handles, e) /\ handles' = reset(handles, e)
    /\ pc' = "idle" /\ index' = IndexAfterReset
    /\ UNCHANGED <<query, persistent, values, args_used, goto_next, item, ran,
                   rejected>>
-----------------------------------------------------------------------------
Next ==
    \/ \E count \in 0..MaxArgs : Execute(count)
    \/ Prepare \/ Evict
    \/ PrepareError \/ BeginError \/ Begin \/ Continue \/ Drop

Spec == Init /\ [][Next]_vars
-----------------------------------------------------------------------------
(* Properties. *)

\* Every variable has its type; the index stays within the handles and the
\* handles within the statements of the SQL string.
TypeOK ==
    /\ query \in Scripts /\ persistent \in BOOLEAN
    /\ Len(handles) <= Len(query)
    /\ \A k \in DOMAIN handles :
          /\ handles[k].vm \in {"init", "row", "done", "failed"}
          /\ handles[k].bound \in [DOMAIN query[k] -> Nat]
    /\ index \in NoIndex..Len(handles)
    /\ pc \in {"idle", "iter"} /\ values \in 0..MaxArgs /\ args_used \in Nat
    /\ goto_next \in BOOLEAN
    /\ item \in {"none", "Row", "Done", "PrepareError", "BindError", "StepError",
                 "ResetError"}
    /\ Len(ran) <= MaxStarts /\ rejected \subseteq DOMAIN query

\* Only the statement at `index` of a running execution can be at a row or
\* have failed: a dropped execution leaves no statement open, however it
\* ended, so that the reset in Statements::get and the "sanity check" in
\* next() never report what an earlier execution did.
OnlyCurrentOpen ==
    \A k \in DOMAIN handles :
        handles[k].vm \in {"row", "failed"} => pc = "iter" /\ index = k - 1

\* A statement starts only when all before it have run to their end in this
\* execution and it has not, whatever commands and errors came before.
StartsInOrder ==
    [][Len(ran') > Len(ran) =>
          LET k == ran'[Len(ran')].stmt IN
          /\ \A j \in 1..k - 1 : handles[j].vm = "done"
          /\ k \in DOMAIN handles => handles[k].vm # "done"]_vars

\* No statement starts with a binding of an earlier execution.
FreshBindings ==
    \A j \in DOMAIN ran :
        \A i \in DOMAIN ran[j].bound : ran[j].bound[i] <= values

\* The parameters of the statements before k.
PlacesBefore(k) == UNION {{j} \X DOMAIN query[j] : j \in 1..k - 1}

ParamsBefore(k) == Cardinality(PlacesBefore(k))

\* Where all parameters are `?`, the arguments are used up one by one through
\* all statements, and those that are left over are NULL: each start of a
\* statement, a repeated one included, has the arguments of its places, up to
\* the first statement that could not be bound.  That one may be started all
\* the same, with its own arguments or NULL; the ones behind it take the
\* arguments it left (see AlignedThroughout).
ArgsAligned ==
    (\A k \in DOMAIN query : \A i \in DOMAIN query[k] :
          query[k][i].form = "anonymous")
    => \A j \in DOMAIN ran : LET k == ran[j].stmt IN
          (\A r \in rejected : r >= k)
          => \A i \in DOMAIN ran[j].bound :
                LET place == i + ParamsBefore(k) IN
                \/ ran[j].bound[i] = IF place <= values THEN place ELSE Unbound
                \/ k \in rejected /\ ran[j].bound[i] = Unbound

\* args_used "keeps track of the number of arguments so far": no statement
\* starts with an argument of another one's places.
AlignedThroughout ==
    (\A k \in DOMAIN query : \A i \in DOMAIN query[k] :
          query[k][i].form = "anonymous")
    => \A j \in DOMAIN ran : \A i \in DOMAIN ran[j].bound :
          ran[j].bound[i] \in {Unbound, i + ParamsBefore(ran[j].stmt)}

\* "parameters with non-integer names are not currently supported": a
\* statement whose parameters were rejected is not run.
RejectedNotRun == \A j \in DOMAIN ran : ran[j].stmt \notin rejected

\* "SQLite treats unbound variables as NULL, we reproduce this here": a
\* numbered parameter is NULL only if there is no such argument.
SuppliedBound ==
    \A j \in DOMAIN ran : \A i \in DOMAIN ran[j].bound :
        LET p == query[ran[j].stmt][i] IN
        p.form = "numbered" /\ p.n <= values => ran[j].bound[i] = p.n
=============================================================================
