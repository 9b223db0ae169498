---------------------------- MODULE Placeholders ----------------------------
(***************************************************************************)
(* impl_exchange (src/util/exchange.rs), which turns the question marks of *)
(* a statement into the numbered parameters of a driver.  The statement is *)
(* a sequence of characters; a numbered parameter is one character of the  *)
(* result.                                                                 *)
(***************************************************************************)
EXTENDS Values, SequencesExt

ExStart == [i |-> 1, start |-> 1, idx |-> 1, result |-> <<>>]

\* The characters before position i that have not been copied yet
Pending(m) == SubSeq(job.sql, m.start, m.i - 1)

\* A mutant: the backslash is copied too.
ExEscaped_KeepsBackslash ==
    /\ at = "ex loop"
    /\ mem.i < Len(job.sql)
    /\ SubSeq(job.sql, mem.i, mem.i + 1) = <<"\\", "?">>
    /\ mem' = [mem EXCEPT !.result = @ \o Pending(mem) \o <<"\\", "?">>, !.i = @ + 2, !.start = mem.i + 2]
    /\ UNCHANGED <<job, at>>

\* \? is a question mark of the statement
ExEscaped ==
    /\ at = "ex loop"
    /\ mem.i < Len(job.sql)
    /\ SubSeq(job.sql, mem.i, mem.i + 1) = <<"\\", "?">>
    /\ mem' = [mem EXCEPT !.result = @ \o Pending(mem) \o <<"?">>, !.i = @ + 2, !.start = mem.i + 2]
    /\ UNCHANGED <<job, at>>

ExPlaceholder ==
    /\ at = "ex loop"
    /\ mem.i <= Len(job.sql)
    /\ job.sql[mem.i] = "?"
    /\ mem' = [mem EXCEPT !.result = @ \o Pending(mem) \o <<<<mem.idx>>>>, !.idx = @ + 1,
                          !.i = @ + 1, !.start = mem.i + 1]
    /\ UNCHANGED <<job, at>>

ExOther ==
    /\ at = "ex loop"
    /\ mem.i <= Len(job.sql)
    /\ job.sql[mem.i] # "?"
    /\ ~(mem.i < Len(job.sql) /\ SubSeq(job.sql, mem.i, mem.i + 1) = <<"\\", "?">>)
    /\ mem' = [mem EXCEPT !.i = @ + 1]
    /\ UNCHANGED <<job, at>>

ExDone ==
    /\ at = "ex loop"
    /\ mem.i > Len(job.sql)
    /\ at' = "ex done"
    /\ mem' = [mem EXCEPT !.result = @ \o Pending(mem)]
    /\ UNCHANGED job

ExNext == ExEscaped \/ ExPlaceholder \/ ExOther \/ ExDone

-----------------------------------------------------------------------------
IsEscapedAt(p) == p > 1 /\ job.sql[p] = "?" /\ job.sql[p - 1] = "\\"
IsParameter(p) == job.sql[p] = "?" /\ ~IsEscapedAt(p)
IsEscape(p) == p < Len(job.sql) /\ IsEscapedAt(p + 1)

\* The n-th question mark that no backslash precedes becomes parameter n, an
\* escaped one loses its backslash, and every other character stays, in order.
PlaceholdersNumbered ==
    at = "ex done" =>
        mem.result = FlattenSeq([p \in DOMAIN job.sql |->
            CASE IsEscape(p) -> <<>>
              [] IsParameter(p) -> <<<<Len(SelectSeq([q \in 1..p |-> q], IsParameter))>>>>
              [] OTHER -> <<job.sql[p]>>])
=============================================================================
