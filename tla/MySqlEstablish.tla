--------------------------- MODULE MySqlEstablish ---------------------------
(***************************************************************************)
(* MySqlConnection::establish of rbdc-mysql: the server's Handshake, the   *)
(* negotiation of capabilities, the optional upgrade to TLS, the response  *)
(* and the exchanges of the authentication plugins, with the sequence      *)
(* number every packet carries.                                            *)
(*                                                                         *)
(* A scramble or an encrypted password is the record of what it is made    *)
(* from. A nonce is the sequence of the parts it is chained from.          *)
(***************************************************************************)
EXTENDS TlsStream

MySqlSslModes == {"Disabled", "Preferred", "Required", "VerifyCa", "VerifyIdentity"}
Plugins == {"MySqlNativePassword", "CachingSha2Password", "Sha256Password"}

\* The capabilities whose presence changes what is read or written.
Caps == {"SSL", "PLUGIN_AUTH", "SECURE_CONNECTION", "PLUGIN_AUTH_LENENC_DATA"}

\* MySqlStream::connect: what the client offers.
ClientCaps == Caps \cup {"PROTOCOL_41"}

scramble_sha(plugin, password, nonce) ==
    [k |-> plugin, pw |-> password, nonce |-> nonce]
to_asciz(password) == [k |-> "clear", pw |-> password, nonce |-> <<>>]
Encrypted(password, nonce) == [k |-> "rsa", pw |-> password, nonce |-> nonce]
NoResponse == [k |-> "empty", pw |-> "", nonce |-> <<>>]

-----------------------------------------------------------------------------
\* write_packet stamps the packet with sequence_id and steps it (u8).
Write(t, b) ==
    toServer' = Append(toServer, [t |-> t, b |-> b, tls |-> link = "Tls",
                                  seq |-> conn.sequence_id])

SeqAfter(n) == (n + 1) % 256

\* A mutant: the number of the packet that was read is used again.
Read_SameNumber(c) ==
    /\ toClient' = Tail(toClient)
    /\ conn' = [c EXCEPT !.sequence_id = Head(toClient).seq]

\* recv_packet takes the number of what it reads, and adds one.
MyArrived(at, t) == pc = at /\ toClient # <<>> /\ Head(toClient).t = t
MyBody == Head(toClient).b
Read(c) ==
    /\ toClient' = Tail(toClient)
    /\ conn' = [c EXCEPT !.sequence_id = SeqAfter(Head(toClient).seq)]

Waiting == {"my.greet", "my.key", "my.loop"}

RecvErr ==
    /\ \E at \in Waiting : MyArrived(at, "ERR")
    /\ Read(conn)
    /\ pc' = "err"
    /\ UNCHANGED <<opts, server, link, toServer>>

\* Handshake::decode: half of the nonce is there only with SECURE_CONNECTION,
\* the plugin only with PLUGIN_AUTH, and its name must be known.
HandshakeNonce(h) ==
    IF "SECURE_CONNECTION" \in h.caps THEN <<1, 2>> ELSE <<1>>
HandshakePlugin(h) == IF "PLUGIN_AUTH" \in h.caps THEN h.plugin ELSE "none"

RecvHandshake ==
    /\ MyArrived("my.greet", "Handshake")
    /\ LET caps == (ClientCaps \cap MyBody.caps) \cup {"PROTOCOL_41"}
       IN  Read([conn EXCEPT
                   !.plugin = HandshakePlugin(MyBody),
                   !.nonce = HandshakeNonce(MyBody),
                   !.old = MyBody.version = "5.1",
                   !.capabilities =
                       IF opts.ssl_mode = "Disabled" THEN caps \ {"SSL"} ELSE caps])
    /\ pc' = IF HandshakePlugin(MyBody) \in Plugins \cup {"none"} THEN "my.tls" ELSE "err"
    /\ UNCHANGED <<opts, server, link, toServer>>

\* tls::maybe_upgrade and upgrade, up to the TLS handshake.
MyMaybeUpgrade ==
    /\ pc = "my.tls"
    /\ IF opts.ssl_mode # "Disabled" /\ "SSL" \in conn.capabilities
       THEN /\ Write("SslRequest", Nothing)
            /\ conn' = [conn EXCEPT !.sequence_id = SeqAfter(@)]
            /\ pc' = "my.upgrade"
       ELSE /\ pc' = IF opts.ssl_mode \in {"Disabled", "Preferred"} THEN "my.respond" ELSE "err"
            /\ UNCHANGED <<toServer, conn>>
    /\ UNCHANGED <<opts, server, link, toClient>>

Upgrade ==
    /\ pc = "my.upgrade"
    /\ server.st = "tls" \/ ~server.up   \* the other side of the TLS handshake
    /\ UpgradeStream(opts.ssl_mode \notin {"VerifyCa", "VerifyIdentity"},
                     opts.ssl_mode # "VerifyIdentity", "my.respond")
    /\ server' = [server EXCEPT !.st = "login"]
    /\ UNCHANGED <<opts, toServer, toClient, conn>>

-----------------------------------------------------------------------------
\* AuthPlugin::scramble: sha256_password has no scramble of its own. It goes
\* through encrypt_rsa, which asks for the key unless the stream is TLS.
NeedsKey(plugin) == plugin = "Sha256Password" /\ link # "Tls"
Scramble(plugin, password, nonce) ==
    IF plugin = "Sha256Password" THEN to_asciz(password)
    ELSE scramble_sha(plugin, password, nonce)

\* HandshakeResponse::encode: what of it the server gets to see.
ResponseBody(plugin, response) ==
    [plugin |-> IF "PLUGIN_AUTH" \in conn.capabilities THEN plugin ELSE "none",
     auth |-> IF {"SECURE_CONNECTION", "PLUGIN_AUTH_LENENC_DATA"} \cap conn.capabilities # {}
              THEN response ELSE NoResponse]

\* The plugin used for the response: none without a password, and the
\* native one for servers older than 5.5 that name no plugin.
ResponsePlugin ==
    CASE opts.password = "none" -> "none"
      [] opts.password # "none" /\ conn.plugin # "none" -> conn.plugin
      [] OTHER -> IF conn.old THEN "MySqlNativePassword" ELSE "none"

Respond ==
    /\ pc = "my.respond" /\ ~NeedsKey(ResponsePlugin)
    /\ Write("HandshakeResponse", ResponseBody(conn.plugin,
            IF ResponsePlugin = "none" THEN NoResponse
            ELSE Scramble(ResponsePlugin, opts.password, conn.nonce)))
    /\ conn' = [conn EXCEPT !.sequence_id = SeqAfter(@)]
    /\ pc' = "my.loop"
    /\ UNCHANGED <<opts, server, link, toClient>>

RequestKey(id, then) ==
    /\ Write("PublicKeyRequest", [k |-> "request", id |-> id])
    /\ conn' = [conn EXCEPT !.sequence_id = SeqAfter(@), !.then = then]
    /\ pc' = "my.key"

\* The key is asked for before the response itself is written.
RespondKey ==
    /\ pc = "my.respond" /\ NeedsKey(ResponsePlugin)
    /\ RequestKey(1, "HandshakeResponse")
    /\ UNCHANGED <<opts, server, link, toClient>>

\* The loop after the response: the packet is read by one await and answered
\* after others, so the answers are steps of their own.
RecvOk ==
    /\ MyArrived("my.loop", "OK")
    /\ Read(conn)
    /\ pc' = "ok"
    /\ UNCHANGED <<opts, server, link, toServer>>

\* AuthSwitchRequest::decode insists on 20 bytes of nonce and a NUL.
RecvSwitch ==
    /\ MyArrived("my.loop", "AuthSwitch")
    /\ Read([conn EXCEPT !.plugin = MyBody.plugin, !.nonce = MyBody.nonce])
    /\ pc' = IF MyBody.plugin \in Plugins /\ MyBody.len = 21 THEN "my.switch" ELSE "err"
    /\ UNCHANGED <<opts, server, link, toServer>>

AnswerSwitch ==
    /\ pc = "my.switch"
    /\ IF NeedsKey(conn.plugin) THEN RequestKey(1, "AuthSwitchResponse")
       ELSE /\ Write("AuthSwitchResponse",
                     Scramble(conn.plugin, PasswordOr(opts.password), conn.nonce))
            /\ conn' = [conn EXCEPT !.sequence_id = SeqAfter(@)]
            /\ pc' = "my.loop"
    /\ UNCHANGED <<opts, server, link, toClient>>

\* AuthPlugin::handle: only caching_sha2_password has more to say. AUTH_OK
\* ends establish, AUTH_CONTINUE asks for the password itself.
RecvMore ==
    /\ MyArrived("my.loop", "AuthMore")
    /\ Read(conn)
    /\ pc' = CASE conn.plugin # "CachingSha2Password" \/ opts.password = "none" -> "err"
               [] MyBody.k = "AUTH_OK" -> "ok"
               [] MyBody.k = "AUTH_CONTINUE" -> "my.full"
               [] OTHER -> "err"
    /\ UNCHANGED <<opts, server, link, toServer>>

AnswerFull ==
    /\ pc = "my.full"
    /\ IF link # "Tls" THEN RequestKey(2, "Payload")
       ELSE /\ Write("Payload", to_asciz(opts.password))
            /\ conn' = [conn EXCEPT !.sequence_id = SeqAfter(@)]
            /\ pc' = "my.loop"
    /\ UNCHANGED <<opts, server, link, toClient>>

\* encrypt_rsa reads one packet and takes all but its first byte for the key.
RecvKey ==
    /\ pc = "my.key" /\ toClient # <<>> /\ Head(toClient).t # "ERR"
    /\ Read(conn)
    /\ pc' = IF Head(toClient).t = "AuthMore" /\ MyBody.k = "key" THEN "my.encrypt" ELSE "err"
    /\ UNCHANGED <<opts, server, link, toServer>>

SendEncrypted ==
    /\ pc = "my.encrypt"
    /\ LET secret == Encrypted(PasswordOr(opts.password), conn.nonce)
       IN  Write(conn.then, IF conn.then = "HandshakeResponse"
                            THEN ResponseBody(conn.plugin, secret) ELSE secret)
    /\ conn' = [conn EXCEPT !.sequence_id = SeqAfter(@)]
    /\ pc' = "my.loop"
    /\ UNCHANGED <<opts, server, link, toClient>>

MyClient ==
    \/ RecvErr \/ RecvHandshake \/ MyMaybeUpgrade \/ Upgrade
    \/ Respond \/ RespondKey \/ RecvOk \/ RecvSwitch \/ AnswerSwitch
    \/ RecvMore \/ AnswerFull \/ RecvKey \/ SendEncrypted
    \/ ReadsEof(Waiting)

-----------------------------------------------------------------------------
(***************************************************************************)
(* The server (external). It greets, and then answers packets whose number *)
(* follows its own and waits for no other. server.account is the plugin    *)
(* of the user, server.cached whether its fast path can be taken,          *)
(* server.okAfter whether it follows AUTH_OK by an OK packet.              *)
(***************************************************************************)
Reply(bs, st) ==
    LET n == server.seq
        stamped == [i \in DOMAIN bs |-> [bs[i] EXCEPT !.seq = (n + i) % 256]]
    IN  /\ toServer' = Tail(toServer)
        /\ toClient' = toClient \o stamped
        /\ server' = [server EXCEPT !.st = st, !.seq = (n + Len(bs) + 1) % 256,
                                    !.nonce = IF st = "switched" THEN <<3>> ELSE @]
        /\ UNCHANGED <<opts, pc, link, conn>>
P(t, b) == [t |-> t, b |-> b, seq |-> 0]

Serving == opts.driver = "mysql" /\ server.up
InTurn == toServer # <<>> /\ Head(toServer).seq = server.seq
MySaid == Head(toServer).b
Refuse == Reply(<<P("ERR", Nothing)>>, "gone")

ServerGreets ==
    /\ Serving /\ server.st = "start"
    /\ toClient' = <<[P("Handshake", [version |-> server.version, caps |-> server.caps,
                                      plugin |-> server.plugin]) EXCEPT !.seq = 0]>>
    /\ server' = [server EXCEPT !.st = "login", !.seq = 1,
         !.nonce = IF "SECURE_CONNECTION" \in server.caps THEN <<1, 2>> ELSE <<1>>]
    /\ UNCHANGED <<opts, pc, link, toServer, conn>>

\* Whether a response proves the password under the account's plugin; TRUE
\* for the sha2 plugin means that its hash is in the server's cache.
Proves(auth) ==
    auth \in {scramble_sha(server.account, "right", server.nonce),
              Encrypted("right", server.nonce)} \cup
             (IF link = "Tls" THEN {to_asciz("right")} ELSE {})

Judge(auth) ==
    CASE server.account = "CachingSha2Password" /\ auth.k # "rsa" /\ auth.k # "clear" ->
             IF Proves(auth) /\ server.cached
             THEN Reply(<<P("AuthMore", [k |-> "AUTH_OK"])>>
                        \o (IF server.okAfter THEN <<P("OK", Nothing)>> ELSE <<>>), "idle")
             ELSE Reply(<<P("AuthMore", [k |-> "AUTH_CONTINUE"])>>, "full")
      [] OTHER -> IF Proves(auth) THEN Reply(<<P("OK", Nothing)>>, "idle") ELSE Refuse

ServerLogin ==
    /\ Serving /\ server.st = "login" /\ InTurn
    /\ CASE Head(toServer).t = "SslRequest" ->
                /\ toServer' = Tail(toServer)
                /\ server' = [server EXCEPT !.st = "tls", !.seq = (@ + 1) % 256]
                /\ UNCHANGED <<opts, pc, link, toClient, conn>>
         [] Head(toServer).t = "HandshakeResponse" ->
                IF MySaid.plugin = server.account \/ "PLUGIN_AUTH" \notin server.caps
                THEN Judge(MySaid.auth)
                ELSE Reply(<<P("AuthSwitch", [plugin |-> server.account, nonce |-> <<3>>,
                                              len |-> server.switchLen])>>, "switched")
         [] OTHER -> Refuse

ServerSwitched ==
    /\ Serving /\ server.st \in {"switched", "full", "key"} /\ InTurn
    /\ IF Head(toServer).t = "PublicKeyRequest"
       THEN Reply(<<P("AuthMore", [k |-> "key"])>>, "key")
       ELSE Judge(MySaid)

MyServer == ServerGreets \/ ServerLogin \/ ServerSwitched

-----------------------------------------------------------------------------
MyInit ==
    /\ opts \in [driver : {"mysql"}, ssl_mode : MySqlSslModes, ca : {"none", "file", "unreadable"},
                 password : {"none", "right", "wrong"}]
    /\ server \in [up : {TRUE}, st : {"start"}, seq : {0}, nonce : {<<>>}, cert : Certs,
                   version : {"5.1", "8.0"}, plugin : Plugins \cup {"other"},
                   caps : {Caps, Caps \ {"SSL"}, Caps \ {"PLUGIN_AUTH_LENENC_DATA"},
                           {"SECURE_CONNECTION"}, {}},
                   account : Plugins, cached : BOOLEAN, okAfter : BOOLEAN,
                   switchLen : {20, 21}]
    \* choices that make no difference are made once
    /\ server.version = "5.1" <=> "PLUGIN_AUTH" \notin server.caps
    /\ server.version = "5.1" =>
         server.plugin = "MySqlNativePassword" /\ server.account = "MySqlNativePassword"
    /\ ("SSL" \notin server.caps \/ opts.ssl_mode = "Disabled" \/ server.plugin # server.account) =>
         server.cert.issuer = "public" /\ server.cert.host /\ opts.ca = "none"
    /\ server.account # "CachingSha2Password" => server.cached /\ ~server.okAfter
    /\ server.plugin = server.account => server.switchLen = 21
    /\ pc = "my.greet" /\ link = "Raw" /\ toServer = <<>> /\ toClient = <<>>
    /\ conn = [sequence_id |-> 0, capabilities |-> {}, plugin |-> "none", nonce |-> <<>>,
               old |-> FALSE, then |-> ""]

MyNext == MyClient \/ MyServer

-----------------------------------------------------------------------------
\* Every packet the client sends carries the number the server expects next,
\* through the upgrade, the switch of plugins and the exchange of the key
\* (sequence_id in write_packet and recv_packet).
SequenceKept ==
    opts.driver = "mysql" =>
        \A i \in DOMAIN toServer : toServer[i].seq = (server.seq + i - 1) % 256

\* Once establish has returned a connection the server has accepted it, and
\* nothing it sent is unread: the first command will read its own reply. One
\* thing can be left: the OK of a server that sends it after AUTH_OK, since
\* the plugin's word alone ends the loop.
MyStartsClean ==
    opts.driver = "mysql" /\ pc = "ok" =>
        /\ server.st = "idle" /\ toServer = <<>>
        /\ \/ toClient = <<>>
           \/ server.okAfter /\ server.cached /\ Len(toClient) = 1 /\ Head(toClient).t = "OK"
=============================================================================
