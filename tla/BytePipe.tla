------------------------------ MODULE BytePipe ------------------------------
(***************************************************************************)
(* What a buffered stream promises the connection above it: bytes come out  *)
(* in the order they arrived and go out in the order they were written,     *)
(* each once.  No buffer, no partial read or write shows.  The one loss is  *)
(* that of a dropped operation, which may take what has not been sent.      *)
(***************************************************************************)
EXTENDS Integers, Sequences

VARIABLES
    incoming,   \* arrived, not handed out
    given,      \* handed out
    pending,    \* written, not sent
    delivered,  \* what the peer has received
    count,      \* the number of bytes written, which names them
    dropped     \* the operations that were dropped

pipeVars == <<incoming, given, pending, delivered, count, dropped>>

Init ==
    /\ incoming = <<>> /\ given = <<>>
    /\ pending = <<>> /\ delivered = <<>>
    /\ count = 0 /\ dropped = 0

Arrives ==
    /\ Len(incoming) <= Len(incoming')
    /\ \A i \in DOMAIN incoming : incoming'[i] = incoming[i]
    /\ UNCHANGED <<given, pending, delivered, count, dropped>>

HandsOut(n) ==
    /\ given' = given \o SubSeq(incoming, 1, n)
    /\ incoming' = SubSeq(incoming, n + 1, Len(incoming))
    /\ UNCHANGED <<pending, delivered, count, dropped>>

Writes ==
    /\ count' = count + 1
    /\ pending' = Append(pending, count')
    /\ UNCHANGED <<incoming, given, delivered, dropped>>

Sends(n) ==
    /\ delivered' = delivered \o SubSeq(pending, 1, n)
    /\ pending' = SubSeq(pending, n + 1, Len(pending))
    /\ UNCHANGED <<incoming, given, count, dropped>>

Drops ==
    /\ dropped' = dropped + 1
    /\ pending' \in {pending, <<>>}
    /\ UNCHANGED <<incoming, given, delivered, count>>

Next ==
    \/ Arrives
    \/ \E n \in 0..Len(incoming) : HandsOut(n)
    \/ Writes
    \/ \E n \in 0..Len(pending) : Sends(n)
    \/ Drops

Spec == Init /\ [][Next]_pipeVars
=============================================================================
