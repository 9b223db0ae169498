----------------------------- MODULE TlsStream -----------------------------
(***************************************************************************)
(* The socket below a connection that is being opened: MaybeTlsStream and  *)
(* the check of the server's certificate that its connector is built to    *)
(* make. The drivers' establishment modules extend this one and share its  *)
(* variables.                                                              *)
(*                                                                         *)
(* A certificate is the one thing the connector tells apart: who issued it *)
(* and whether it names the host. opts.ca is the root certificate option:  *)
(* absent, a file with the private issuer, or a file that cannot be read.  *)
(***************************************************************************)
EXTENDS Integers, Sequences

VARIABLES
    opts,       \* the ConnectOptions: driver, ssl_mode, ca, password, ...
    server,     \* the server of this session (external)
    pc,         \* where establish() is
    link,       \* MaybeTlsStream: "Raw", "Tls" or "Upgrading"
    toServer,   \* bytes on their way, as messages [t, b, tls] or packets
    toClient,
    conn        \* what establish() has learnt so far

vars == <<opts, server, pc, link, toServer, toClient, conn>>

Issuers == {"public", "private", "unknown"}
Certs == [issuer : Issuers, host : BOOLEAN]

\* The chain of the certificate ends in the roots of the connector.
Trusted(cert, ca) ==
    cert.issuer = "public" \/ (cert.issuer = "private" /\ ca = "file")

\* configure_tls_connector fails when it has to verify and the file of the
\* root certificate cannot be read; it does not look at it otherwise.
ConfigureFails(accept_invalid_certs, ca) ==
    ~accept_invalid_certs /\ ca = "unreadable"

\* A mutant: a verifier that forgives a name forgives every error.
VerifierAccepts_Forgiving(cert, ca, accept_invalid_certs, accept_invalid_hostnames) ==
    accept_invalid_certs \/ accept_invalid_hostnames \/ (Trusted(cert, ca) /\ cert.host)

\* The verifier the connector was given: none at all, one that forgives
\* NotValidForName, or the full one of webpki.
VerifierAccepts(cert, ca, accept_invalid_certs, accept_invalid_hostnames) ==
    \/ accept_invalid_certs
    \/ Trusted(cert, ca) /\ (accept_invalid_hostnames \/ cert.host)

\* MaybeTlsStream::upgrade: the connector is made first, then the raw stream
\* is taken out, so that a failed handshake leaves Upgrading behind. Both
\* drivers upgrade once, so the stream is Raw here.
UpgradeStream(accept_invalid_certs, accept_invalid_hostnames, next) ==
    LET configured == ~ConfigureFails(accept_invalid_certs, opts.ca)
        accepted == server.up /\ VerifierAccepts(server.cert, opts.ca,
                        accept_invalid_certs, accept_invalid_hostnames)
    IN  /\ link = "Raw"
        /\ link' = IF ~configured THEN "Raw" ELSE IF accepted THEN "Tls" ELSE "Upgrading"
        /\ pc' = IF configured /\ accepted THEN next ELSE "err"

\* options.password.as_deref().unwrap_or_default()
PasswordOr(password) == IF password = "none" THEN "" ELSE password

Nothing == [k |-> "none"]    \* the body of a message that has none

Send(t, b) ==
    toServer' = Append(toServer, [t |-> t, b |-> b, tls |-> link = "Tls"])

-----------------------------------------------------------------------------
\* The socket may be closed by the server at any time; what was sent before
\* still arrives. A read that finds the end fails with UnexpectedEof.
ServerDies ==
    /\ server.up /\ pc \notin {"ok", "err"}
    /\ server' = [server EXCEPT !.up = FALSE]
    /\ UNCHANGED <<opts, pc, link, toServer, toClient, conn>>

ReadsEof(waiting) ==
    /\ pc \in waiting /\ ~server.up /\ toClient = <<>>
    /\ pc' = "err"
    /\ UNCHANGED <<opts, server, link, toServer, toClient, conn>>

Answer(ms, st) ==
    /\ toServer' = Tail(toServer)
    /\ toClient' = toClient \o ms
    /\ server' = [server EXCEPT !.st = st]
    /\ UNCHANGED <<opts, pc, link, conn>>

-----------------------------------------------------------------------------
Encrypting == {"Require", "Required", "VerifyCa", "VerifyFull", "VerifyIdentity"}
Verifying == {"VerifyCa", "VerifyFull", "VerifyIdentity"}

\* Every message but the SslRequest itself leaves the client as ssl_mode asks:
\* in the clear when it is Disable or Disabled, never in the clear when it
\* wants encryption, never to a server whose certificate the verifying modes
\* do not accept; and the preferring modes use TLS exactly if the server is
\* willing.  The mode Allow is left out, and so is the certificate in the mode
\* Require with a root CA: there the code departs from what its documentation
\* says (RequireVerifies).
TlsAsAsked ==
    \A i \in DOMAIN toServer : toServer[i].t # "SslRequest" =>
        LET m == toServer[i]
        IN  /\ opts.ssl_mode \in {"Disable", "Disabled"} => ~m.tls
            /\ opts.ssl_mode \in Encrypting => m.tls
            /\ opts.ssl_mode \in Verifying => Trusted(server.cert, opts.ca)
            /\ opts.ssl_mode \in Verifying \ {"VerifyCa"} => server.cert.host
            /\ opts.ssl_mode = "Prefer" => (m.tls <=> server.ssl = "S")
            /\ opts.ssl_mode = "Preferred" => (m.tls <=> "SSL" \in server.caps)

\* PgSslMode::Require: "If a root CA file is present, verify the connection in
\* the same way as if VerifyCa was specified."
RequireVerifies ==
    \A i \in DOMAIN toServer :
        toServer[i].t # "SslRequest" /\ opts.ssl_mode = "Require" /\ opts.ca = "file" =>
            Trusted(server.cert, opts.ca)
=============================================================================
