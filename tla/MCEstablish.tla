---------------------------- MODULE MCEstablish ----------------------------
(***************************************************************************)
(* Establishment by either driver. The two modules share the variables of  *)
(* TlsStream, and a behaviour is of one driver from its first state on.    *)
(***************************************************************************)
EXTENDS PgEstablish, MySqlEstablish

Init == PgInit \/ MyInit
Next == PgNext \/ MyNext \/ ServerDies

\* The client is one task that a runtime polls, the server another program.
\* That it dies is never owed.
Fairness ==
    /\ WF_vars(PgClient) /\ WF_vars(PgServer)
    /\ WF_vars(MyClient) /\ WF_vars(MyServer)

FairSpec == Init /\ [][Next]_vars /\ Fairness

\* A connection that establish returns is ready for its first command.
StartsClean == PgStartsClean /\ MyStartsClean

\* establish returns, whatever a server asks for that answers what it is sent
\* or dies, at any moment.
EstablishEnds == <>(pc \in {"ok", "err"})
=============================================================================
