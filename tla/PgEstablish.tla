---------------------------- MODULE PgEstablish ----------------------------
(***************************************************************************)
(* PgConnection::establish of rbdc-pg: the optional upgrade to TLS, the    *)
(* start-up message, the authentication exchange and the messages up to    *)
(* the first ReadyForQuery, against a server that asks for any of the      *)
(* methods, may be another one than the client thinks, and may go away.    *)
(*                                                                         *)
(* Cryptography is symbolic: a hash or a proof is the record of what it is *)
(* made from, so two of them are equal exactly when their inputs are.      *)
(***************************************************************************)
EXTENDS TlsStream, SequencesExt

PgSslModes == {"Disable", "Allow", "Prefer", "Require", "VerifyCa", "VerifyFull"}

Md5Password(password, username, salt) ==
    [k |-> "md5", pw |-> password, user |-> username, salt |-> salt]

Hi(password, salt, iterations) ==
    [k |-> "salted", pw |-> password, salt |-> salt, i |-> iterations]

\* AuthMessage: client-first-bare, server-first, client-final without proof.
AuthMessage(username, nonce, cont) ==
    [user |-> username, nonce |-> nonce, first |-> cont, final |-> cont.nonce]

ClientProof(salted, auth) == [k |-> "client", key |-> salted, auth |-> auth]
ServerSignature(salted, auth) == [k |-> "server", key |-> salted, auth |-> auth]

\* The nonce is "r=" and random characters: fresh, and one value is enough.
ClientNonce == "c-nonce"

-----------------------------------------------------------------------------
\* tls::maybe_upgrade, up to the await of the one byte that answers.
PgMaybeUpgrade ==
    /\ pc = "pg.tls"
    /\ IF opts.ssl_mode \in {"Allow", "Disable"}
       THEN pc' = "pg.startup" /\ UNCHANGED toServer
       ELSE pc' = "pg.sslreply" /\ Send("SslRequest", Nothing)
    /\ UNCHANGED <<opts, server, link, toClient, conn>>

Willing ==
    /\ pc = "pg.sslreply" /\ toClient # <<>> /\ Head(toClient).t = "S"
    /\ UpgradeStream(opts.ssl_mode \notin {"VerifyCa", "VerifyFull"},
                     opts.ssl_mode # "VerifyFull", "pg.startup")
    /\ toClient' = Tail(toClient)
    /\ UNCHANGED <<opts, server, toServer, conn>>

\* N leaves a raw stream, which only Prefer accepts; any other byte fails.
Unwilling ==
    /\ pc = "pg.sslreply" /\ toClient # <<>> /\ Head(toClient).t # "S"
    /\ toClient' = Tail(toClient)
    /\ pc' = IF Head(toClient).t = "N" /\ opts.ssl_mode = "Prefer"
             THEN "pg.startup" ELSE "err"
    /\ UNCHANGED <<opts, server, link, toServer, conn>>

SendStartup ==
    /\ pc = "pg.startup"
    /\ Send("Startup", [user |-> opts.user])
    /\ pc' = "pg.loop"
    /\ UNCHANGED <<opts, server, link, toClient, conn>>

-----------------------------------------------------------------------------
Receiving == {"pg.loop", "pg.saslcont", "pg.saslfinal"}
Arrived(at, t) == pc = at /\ toClient # <<>> /\ Head(toClient).t = t
Body == Head(toClient).b

\* The numbers of a version: dots (46) part them, and the first character
\* that is no digit (48 to 57) or an empty number ends them.
VersionParts(s) ==
    LET cuts == {i \in 1..(Len(s) + 1) : i = Len(s) + 1 \/ s[i] \notin 48..57}
        Ends(i) == i = Len(s) + 1 \/ s[i] # 46 \/ i = 1 \/ s[i - 1] \notin 48..57
        last == CHOOSE i \in cuts : Ends(i) /\ \A j \in cuts : Ends(j) => i <= j
        marks == <<0>> \o SetToSortSeq({i \in cuts : i <= last}, <)
        Number(i, j) == FoldLeft(LAMBDA n, c : 10 * n + c - 48, 0, SubSeq(s, i + 1, j - 1))
        parts == [k \in 1..(Len(marks) - 1) |-> Number(marks[k], marks[k + 1])]
    IN  IF last > 1 /\ s[last - 1] \in 48..57 THEN parts ELSE Front(parts)

\* 0 stands for None.
parse_server_version(s) ==
    LET p == VersionParts(s)
    IN  CASE Len(p) = 1 -> 10000 * p[1]
          [] Len(p) = 2 -> 10000 * p[1] + (IF p[1] >= 10 THEN p[2] ELSE 100 * p[2])
          [] Len(p) = 3 -> 10000 * p[1] + 100 * p[2] + p[3]
          [] OTHER -> 0

\* PgStream::recv handles these itself, wherever it is called.
RecvAside ==
    /\ \E at \in Receiving, t \in {"ParameterStatus", "NoticeResponse"} : Arrived(at, t)
    /\ toClient' = Tail(toClient)
    /\ conn' = CASE Head(toClient).t = "NoticeResponse" -> conn
                 [] Head(toClient).t # "NoticeResponse" /\ Body.name = "server_version" ->
                        [conn EXCEPT !.server_version_num = parse_server_version(Body.value)]
                 [] OTHER -> [conn EXCEPT !.parameter_statuses = @ \cup {Body.name}]
    /\ UNCHANGED <<opts, server, pc, link, toServer>>

RecvError ==
    /\ \E at \in Receiving : Arrived(at, "ErrorResponse")
    /\ toClient' = Tail(toClient)
    /\ pc' = "err"
    /\ UNCHANGED <<opts, server, link, toServer, conn>>

AuthOk ==
    /\ Arrived("pg.loop", "AuthOk")
    /\ toClient' = Tail(toClient)
    /\ UNCHANGED <<opts, server, pc, link, toServer, conn>>

AuthPassword ==
    /\ \/ Arrived("pg.loop", "CleartextPassword")
          /\ Send("Password", [k |-> "clear", pw |-> PasswordOr(opts.password)])
       \/ Arrived("pg.loop", "Md5Password")
          /\ Send("Password", Md5Password(PasswordOr(opts.password), opts.user, Body.salt))
    /\ toClient' = Tail(toClient)
    /\ UNCHANGED <<opts, server, pc, link, conn>>

\* sasl::authenticate up to its first recv. A server that only offers the
\* variant with channel binding is still sent the plain one.
AuthSasl ==
    /\ Arrived("pg.loop", "Sasl")
    /\ toClient' = Tail(toClient)
    /\ IF /\ Body.mechs \cap {"SCRAM-SHA-256", "SCRAM-SHA-256-PLUS"} # {}
          /\ opts.user # "unprintable"
       THEN /\ pc' = "pg.saslcont"
            /\ Send("SaslInitialResponse",
                    [mech |-> "SCRAM-SHA-256", user |-> opts.user, nonce |-> ClientNonce])
       ELSE pc' = "err" /\ UNCHANGED toServer
    /\ UNCHANGED <<opts, server, link, conn>>

Salted(cont) == Hi(PasswordOr(opts.password), cont.salt, cont.iterations)

SaslContinue ==
    /\ Arrived("pg.saslcont", "SaslContinue")
    /\ toClient' = Tail(toClient)
    /\ LET auth == AuthMessage(opts.user, ClientNonce, Body)
       IN  /\ Send("SaslResponse", [nonce |-> Body.nonce,
                                    proof |-> ClientProof(Salted(Body), auth)])
           /\ conn' = [conn EXCEPT !.mac = ServerSignature(Salted(Body), auth)]
    /\ pc' = "pg.saslfinal"
    /\ UNCHANGED <<opts, server, link>>

\* A mutant: the signature is not compared.
SaslFinal_Unverified ==
    /\ Arrived("pg.saslfinal", "SaslFinal")
    /\ toClient' = Tail(toClient)
    /\ pc' = "pg.loop"
    /\ UNCHANGED <<opts, server, link, toServer, conn>>

\* mac.verify_slice: the server must know the password too.
SaslFinal ==
    /\ Arrived("pg.saslfinal", "SaslFinal")
    /\ toClient' = Tail(toClient)
    /\ pc' = IF Body = conn.mac THEN "pg.loop" ELSE "err"
    /\ UNCHANGED <<opts, server, link, toServer, conn>>

BackendKeyData ==
    /\ Arrived("pg.loop", "BackendKeyData")
    /\ toClient' = Tail(toClient)
    /\ conn' = [conn EXCEPT !.process_id = Body.process_id, !.secret_key = Body.secret_key]
    /\ UNCHANGED <<opts, server, pc, link, toServer>>

ReadyForQuery ==
    /\ Arrived("pg.loop", "ReadyForQuery")
    /\ toClient' = Tail(toClient)
    /\ conn' = [conn EXCEPT !.transaction_status = Body.status]
    /\ pc' = "ok"
    /\ UNCHANGED <<opts, server, link, toServer>>

\* A mutant: a message out of turn is skipped.
RecvUnexpected_Skipped ==
    /\ Arrived("pg.loop", "Gss")
    /\ toClient' = Tail(toClient)
    /\ UNCHANGED <<opts, server, pc, link, toServer, conn>>

\* The final arm of each match: GSSAPI and the like, or a message out of turn.
RecvUnexpected ==
    /\ pc \in Receiving /\ toClient # <<>>
    /\ Head(toClient).t \notin
         {"ParameterStatus", "NoticeResponse", "ErrorResponse"} \cup
         (CASE pc = "pg.loop" -> {"AuthOk", "CleartextPassword", "Md5Password", "Sasl",
                                  "BackendKeyData", "ReadyForQuery"}
            [] pc = "pg.saslcont" -> {"SaslContinue"}
            [] pc = "pg.saslfinal" -> {"SaslFinal"})
    /\ toClient' = Tail(toClient)
    /\ pc' = "err"
    /\ UNCHANGED <<opts, server, link, toServer, conn>>

PgClient ==
    \/ PgMaybeUpgrade \/ Willing \/ Unwilling \/ SendStartup
    \/ RecvAside \/ RecvError \/ AuthOk \/ AuthPassword
    \/ AuthSasl \/ SaslContinue \/ SaslFinal
    \/ BackendKeyData \/ ReadyForQuery \/ RecvUnexpected
    \/ ReadsEof(Receiving \cup {"pg.sslreply"})

-----------------------------------------------------------------------------
(***************************************************************************)
(* The server (external): its answers as the client's code expects them.   *)
(* server.password is the one it compares with, server.knows whether it    *)
(* can also make the signature from it.                                    *)
(***************************************************************************)
M(t, b) == [t |-> t, b |-> b]
Asked(t) == opts.driver = "pg" /\ server.up /\ toServer # <<>> /\ Head(toServer).t = t
Said == Head(toServer).b

Refusal == <<M("ErrorResponse", Nothing)>>
\* 9.6.24, 14.2, 16beta1 and 9.6devel with the numbers that libpq has for them
Versions ==
    {[text |-> <<57, 46, 54, 46, 50, 52>>, num |-> 90624],
     [text |-> <<49, 52, 46, 50>>, num |-> 140002],
     [text |-> <<49, 54, 98, 49>>, num |-> 160000],
     [text |-> <<57, 46, 54, 100>>, num |-> 90600]}

Welcome ==
    <<M("AuthOk", Nothing),
      M("ParameterStatus", [name |-> "server_version", value |-> server.version.text]),
      M("ParameterStatus", [name |-> "TimeZone", value |-> <<>>])>>
    \o (IF server.notice THEN <<M("NoticeResponse", Nothing)>> ELSE <<>>)
    \o <<M("BackendKeyData", [process_id |-> 7, secret_key |-> 11]),
         M("ReadyForQuery", [status |-> "I"])>>

Cont == [salt |-> "salt", iterations |-> 4096, nonce |-> <<ClientNonce, "s-nonce">>]

ServerSsl == Asked("SslRequest") /\ Answer(<<M(server.ssl, Nothing)>>, server.st)

ServerStartup ==
    /\ Asked("Startup")
    /\ CASE server.method = "trust" -> Answer(Welcome, "idle")
         [] server.method = "reject" -> Answer(Refusal, "gone")
         [] server.method = "md5" -> Answer(<<M("Md5Password", [salt |-> "salt"])>>, "password")
         [] server.method = "Sasl" -> Answer(<<M("Sasl", [mechs |-> server.mechs])>>, "sasl")
         [] OTHER -> Answer(<<M(server.method, Nothing)>>, "password")

ServerPassword ==
    /\ Asked("Password")
    /\ LET right == {[k |-> "clear", pw |-> server.password],
                     Md5Password(server.password, opts.user, "salt")}
       IN  IF Said \in right THEN Answer(Welcome, "idle") ELSE Answer(Refusal, "gone")

ServerSaslInitial ==
    /\ Asked("SaslInitialResponse")
    /\ IF Said.mech \in server.mechs
       THEN Answer(<<M("SaslContinue", Cont)>>, "sasl") ELSE Answer(Refusal, "gone")

ServerSaslResponse ==
    /\ Asked("SaslResponse")
    /\ LET auth == AuthMessage(opts.user, ClientNonce, Cont)
           salted == Hi(server.password, "salt", 4096)
           signed == IF server.knows THEN salted ELSE Hi("guess", "salt", 4096)
       IN  IF server.knows => Said.proof = ClientProof(salted, auth)
           THEN Answer(<<M("SaslFinal", ServerSignature(signed, auth))>> \o Welcome, "idle")
           ELSE Answer(Refusal, "gone")

PgServer ==
    ServerSsl \/ ServerStartup \/ ServerPassword \/ ServerSaslInitial \/ ServerSaslResponse

-----------------------------------------------------------------------------
PgInit ==
    /\ opts \in [driver : {"pg"}, ssl_mode : PgSslModes, ca : {"none", "file", "unreadable"},
                 password : {"none", "right", "wrong"}, user : {"alice", "unprintable"}]
    /\ server \in [up : {TRUE}, st : {"start"}, ssl : {"S", "N", "E"}, cert : Certs,
                   method : {"trust", "reject", "CleartextPassword", "md5", "Sasl", "Gss"},
                   mechs : SUBSET {"SCRAM-SHA-256", "SCRAM-SHA-256-PLUS"},
                   password : {"right"}, knows : BOOLEAN, notice : BOOLEAN,
                   version : Versions]
    \* choices that make no difference are made once
    /\ opts.ssl_mode \in {"Disable", "Allow"} => opts.ca = "none" /\ server.ssl = "N"
    /\ server.ssl # "S" => server.cert.issuer = "public" /\ server.cert.host
    /\ server.method # "trust" =>
         server.version.num = 140002
         /\ opts.ca = "none" /\ server.cert.issuer = "public" /\ server.cert.host
    /\ server.method # "Sasl" => server.mechs = {} /\ server.knows /\ opts.user = "alice"
    /\ pc = "pg.tls" /\ link = "Raw" /\ toServer = <<>> /\ toClient = <<>>
    /\ conn = [parameter_statuses |-> {}, server_version_num |-> 0,
               process_id |-> 0, secret_key |-> 0, transaction_status |-> "", mac |-> Nothing]

PgNext == PgClient \/ PgServer

-----------------------------------------------------------------------------
\* Once establish has returned a connection, the server has accepted this
\* client and can itself make the signature if it asked for SASL, it waits
\* for a query, nothing it sent is unread (so that no ReadyForQuery is
\* pending) and the connection holds the key data, the status and the
\* parameters it sent, the version as a number.
PgStartsClean ==
    opts.driver = "pg" /\ pc = "ok" =>
        /\ server.st = "idle" /\ toServer = <<>> /\ toClient = <<>>
        /\ server.method = "Sasl" => server.knows
        /\ server.method # "trust" => opts.password = "right"
        /\ conn.process_id = 7 /\ conn.secret_key = 11 /\ conn.transaction_status = "I"
        /\ conn.server_version_num = server.version.num
        /\ conn.parameter_statuses = {"TimeZone"}
=============================================================================
