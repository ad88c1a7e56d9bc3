----------------------------- MODULE Connection -----------------------------
(***************************************************************************)
(* The life cycle of one native connection (softether_connection_t): the   *)
(* one nativeConnectWithHub call a handle receives, run by the connect     *)
(* thread C, and the nativeForceCloseSocket / nativeDisconnect /           *)
(* nativeDestroy calls of the closing thread D.  The Kotlin side makes the *)
(* closing calls one at a time (SoftEtherClient.externalLock), so one      *)
(* closing thread stands for all of them; the connect call runs beside it. *)
(*                                                                         *)
(* A file descriptor, a TLS context, a transport, a UDP-acceleration       *)
(* context or an additional socket is a token <<site, kind>>: each place   *)
(* that acquires one runs at most once per handle.  `open' holds the       *)
(* tokens not yet released, `conn' the fields of the C struct.             *)
(*                                                                         *)
(* A network exchange succeeds or fails freely; the exchange itself is the *)
(* subject of TransportRace, NatT and Dial.                                *)
(***************************************************************************)
EXTENDS Naturals, FiniteSets

CONSTANTS
    NULL,                   \* a null pointer, a closed descriptor, a free mutex
    DestroyDuringConnect    \* may nativeDestroy be called while a connect is running?

ASSUME DestroyAssumption == DestroyDuringConnect \in BOOLEAN

VARIABLES
    state,        \* conn->state
    conn,         \* the pointers, descriptors and flags of the struct
    open,         \* resources acquired and not yet released
    shut,         \* descriptors interrupted by softether_force_close_socket
    closedTwice,  \* has close() been called on a descriptor already closed?
    connectMutex, \* owner of connect_mutex (recursive)
    pc, ret,      \* where each thread is, and where a nested call returns to
    via,          \* the site of the primary socket in use
    result,       \* what nativeConnectWithHub returned
    freed         \* has free(conn) run?

vars == <<state, conn, open, shut, closedTwice, connectMutex, pc, ret, via, result, freed>>

Threads == {"C", "D"}
Sites == {"tcp", "race", "natt"}
Pointers == {"fd", "ssl_ctx", "ssl", "nat_t_transport", "rudp", "additional"}
Kinds == {"fd", "ssl", "transport", "rudp", "additional"}
States == {"DISCONNECTED", "CONNECTING", "TLS_HANDSHAKE", "AUTHENTICATING",
           "SESSION_SETUP", "CONNECTED", "DISCONNECTING"}
Steps == {"idle", "resolve", "tcp", "race", "tls", "tls_wait", "hello", "auth", "refused",
          "natt", "setup", "established", "half", "failed", "returned",
          "disconnect", "teardown", "free", "freed"}

Res(kind) == <<via, kind>>
AppFd(transport) == <<transport[1], "fd">>
Held == {conn[p] : p \in Pointers} \ {NULL}
Gone(s) == s \in {"DISCONNECTED", "DISCONNECTING"}

Goto(t, step) == pc' = [pc EXCEPT ![t] = step]
Call(t, step, back) == Goto(t, step) /\ ret' = [ret EXCEPT ![t] = back]

(* softether_create: everything empty, state DISCONNECTED; udp_only and the *)
(* use_tcp argument are the configuration of this connect.                  *)
Init == /\ state = "DISCONNECTED"
        /\ \E udpOnly, useTcp \in BOOLEAN :
             conn = [fd |-> NULL, ssl_ctx |-> NULL, ssl |-> NULL, nat_t_transport |-> NULL,
                     rudp |-> NULL, additional |-> NULL, using_nat_t |-> FALSE,
                     rudp_enabled |-> FALSE, rudp_inited |-> FALSE,
                     udp_only |-> udpOnly, use_tcp |-> useTcp]
        /\ open = {} /\ shut = {} /\ closedTwice = FALSE /\ connectMutex = NULL
        /\ pc = [t \in Threads |-> "idle"] /\ ret = [t \in Threads |-> "idle"]
        /\ via = "tcp" /\ result = NULL /\ freed = FALSE

-----------------------------------------------------------------------------
(* softether_disconnect, called by either thread.                           *)

\* connect_mutex is recursive, so the connect thread passes at once; a connection
\* that is already disconnected is left alone.
DisconnectEnter(t) ==
    /\ pc[t] = "disconnect" /\ connectMutex \in {NULL, t}
    /\ IF Gone(state)
       THEN Goto(t, ret[t]) /\ UNCHANGED <<state, connectMutex>>
       ELSE Goto(t, "teardown") /\ state' = "DISCONNECTING" /\ connectMutex' = t
    /\ UNCHANGED <<conn, open, shut, closedTwice, ret, via, result, freed>>

\* The TLS context is released only when both of its pointers are set.
OwnedSsl == IF conn.ssl # NULL /\ conn.ssl_ctx # NULL THEN conn.ssl ELSE NULL

TeardownKeepsRudp(t) ==
    /\ pc[t] = "teardown"
    /\ open' = open \ {conn.fd, conn.additional, OwnedSsl, conn.nat_t_transport}
    /\ conn' = [conn EXCEPT !.fd = NULL, !.additional = NULL, !.nat_t_transport = NULL,
                            !.ssl = IF OwnedSsl = NULL THEN @ ELSE NULL,
                            !.ssl_ctx = IF @ = OwnedSsl THEN NULL ELSE @,
                            !.rudp = NULL, !.using_nat_t = FALSE, !.rudp_enabled = FALSE]
    /\ state' = "DISCONNECTED"
    /\ connectMutex' = IF t = "C" THEN t ELSE NULL
    /\ Goto(t, ret[t])
    /\ UNCHANGED <<shut, closedTwice, ret, via, result, freed>>

\* Close the primary socket, then the additional ones, the TLS context, the
\* transport (whose destructor closes its application descriptor itself) and the
\* acceleration context.  The connect thread still holds its outer lock.
Teardown(t) ==
    /\ pc[t] = "teardown"
    /\ open' = open \ {conn.fd, conn.additional, OwnedSsl, conn.nat_t_transport, conn.rudp}
    /\ closedTwice' = \/ closedTwice
                      \/ conn.nat_t_transport # NULL /\ AppFd(conn.nat_t_transport) \notin open \ {conn.fd}
    /\ conn' = [conn EXCEPT !.fd = NULL, !.additional = NULL, !.nat_t_transport = NULL,
                            !.ssl = IF OwnedSsl = NULL THEN @ ELSE NULL,
                            !.ssl_ctx = IF @ = OwnedSsl THEN NULL ELSE @,
                            !.rudp = NULL, !.using_nat_t = FALSE, !.rudp_enabled = FALSE]
    /\ state' = "DISCONNECTED"
    /\ connectMutex' = IF t = "C" THEN t ELSE NULL
    /\ Goto(t, ret[t])
    /\ UNCHANGED <<shut, ret, via, result, freed>>

-----------------------------------------------------------------------------
(* nativeConnectWithHub on the connect thread.                              *)

connUnchanged == UNCHANGED <<conn, open, closedTwice, via>>
others == <<shut, freed>>

ConnectWithoutMutex ==
    /\ pc["C"] = "idle" /\ pc["D"] = "idle"
    /\ state' = "CONNECTING"
    /\ conn' = [conn EXCEPT !.using_nat_t = FALSE]
    /\ Goto("C", "resolve")
    /\ UNCHANGED <<open, shut, closedTwice, connectMutex, ret, via, result, freed>>

\* A transport left over from an earlier attempt goes first, unless its socket is
\* still open.  The Kotlin callers connect a handle once, before they publish it.
Connect ==
    /\ pc["C"] = "idle" /\ pc["D"] = "idle" /\ connectMutex = NULL
    /\ connectMutex' = "C"
    /\ state' = "CONNECTING"
    /\ LET stale == IF conn.fd = NULL THEN conn.nat_t_transport ELSE NULL
       IN  /\ open' = open \ {stale}
           /\ conn' = [conn EXCEPT !.using_nat_t = FALSE,
                                   !.nat_t_transport = IF @ = stale THEN NULL ELSE @]
    /\ Goto("C", "resolve")
    /\ UNCHANGED <<shut, closedTwice, ret, via, result, freed>>

ResolveLeavesConnecting ==
    /\ pc["C"] = "resolve"
    /\ Goto("C", "failed") \/ Goto("C", IF conn.udp_only THEN "race" ELSE "tcp")
    /\ connUnchanged /\ UNCHANGED <<state, connectMutex, ret, result, others>>

\* A name that does not resolve ends the attempt without softether_disconnect.
Resolve ==
    /\ pc["C"] = "resolve"
    /\ \/ Goto("C", "failed") /\ state' = "DISCONNECTED"
       \/ Goto("C", IF conn.udp_only THEN "race" ELSE "tcp") /\ UNCHANGED state
    /\ connUnchanged /\ UNCHANGED <<connectMutex, ret, result, others>>

TcpConnectTakesClearedFd ==
    /\ pc["C"] = "tcp"
    /\ \/ /\ conn' = [conn EXCEPT !.fd = <<"tcp", "cleared">>]
          /\ open' = open \cup {<<"tcp", "fd">>}
          /\ Goto("C", "tls") /\ UNCHANGED ret
       \/ Call("C", "disconnect", "race") /\ UNCHANGED <<conn, open>>
    /\ UNCHANGED <<state, closedTwice, via, connectMutex, result, others>>

\* socket_create + socket_connect_timeout on both address families (see Dial).
TcpConnect ==
    /\ pc["C"] = "tcp"
    /\ \/ /\ conn' = [conn EXCEPT !.fd = <<"tcp", "fd">>]
          /\ open' = open \cup {<<"tcp", "fd">>}
          /\ Goto("C", "tls") /\ UNCHANGED ret
       \/ Call("C", "disconnect", "race") /\ UNCHANGED <<conn, open>>
    /\ UNCHANGED <<state, closedTwice, via, connectMutex, result, others>>

\* A failed handshake over TCP closes the socket and falls back to the race; over
\* the NAT-T transport it disconnects and returns.
HandshakeFailed ==
    IF via = "tcp"
    THEN /\ open' = open \ {conn.ssl_ctx, conn.fd}
         /\ conn' = [conn EXCEPT !.ssl_ctx = NULL, !.fd = NULL]
         /\ Call("C", "disconnect", "race")
    ELSE /\ open' = open \ {conn.ssl_ctx}
         /\ conn' = [conn EXCEPT !.ssl_ctx = NULL]
         /\ Call("C", "disconnect", "failed")

\* perform_tls_handshake: ssl_create_client, then the blocking ssl_connect.
TlsStart ==
    /\ pc["C"] = "tls"
    /\ state' = "TLS_HANDSHAKE"
    /\ \/ HandshakeFailed
       \/ /\ conn' = [conn EXCEPT !.ssl_ctx = Res("ssl")]
          /\ open' = open \cup {Res("ssl")}
          /\ Goto("C", "tls_wait") /\ UNCHANGED ret
    /\ UNCHANGED <<closedTwice, via, connectMutex, result, others>>

TlsEnd ==
    /\ pc["C"] = "tls_wait"
    /\ \/ HandshakeFailed
       \/ /\ conn.fd \notin shut
          /\ conn' = [conn EXCEPT !.ssl = conn.ssl_ctx]
          /\ Goto("C", "hello") /\ UNCHANGED <<open, ret>>
    /\ UNCHANGED <<state, closedTwice, via, connectMutex, result, others>>

\* softether_connect_parallel_race: the winner's socket, contexts and transport
\* become the connection's (TransportRace); when nobody wins the attempt goes on to
\* the login, which refuses a connection without a TLS context.
Race ==
    /\ pc["C"] = "race"
    /\ \/ /\ conn' = [conn EXCEPT !.fd = <<"race", "fd">>, !.ssl_ctx = <<"race", "ssl">>,
                                  !.ssl = <<"race", "ssl">>, !.using_nat_t = TRUE,
                                  !.nat_t_transport = <<"race", "transport">>]
          /\ open' = open \cup {<<"race", k>> : k \in {"fd", "ssl", "transport"}}
          /\ via' = "race"
       \/ UNCHANGED <<conn, open, via>>
    /\ Goto("C", "hello")
    /\ UNCHANGED <<state, closedTwice, connectMutex, ret, result, others>>

\* read_http_response can only succeed on a socket nobody has shut down.
Answered == conn.fd \notin shut

\* The VPNCONNECT watermark is sent over TLS and answered by the server's Hello.
Watermark == conn.ssl # NULL /\ Answered

\* softether_protocol_login up to the password: the VPNCONNECT watermark and the
\* server's Hello, then the UDP-acceleration context, unless the connection itself
\* runs over the UDP transport.
Hello ==
    /\ pc["C"] = "hello"
    /\ \/ Goto("C", "refused") /\ UNCHANGED <<state, conn, open>>
       \/ /\ Watermark
          /\ state' = "AUTHENTICATING"
          /\ IF ~conn.use_tcp /\ ~conn.using_nat_t
             THEN \/ conn' = [conn EXCEPT !.rudp = Res("rudp")] /\ open' = open \cup {Res("rudp")}
                  \/ conn' = [conn EXCEPT !.rudp = NULL] /\ UNCHANGED open
             ELSE conn' = [conn EXCEPT !.rudp = NULL] /\ UNCHANGED open
          /\ Goto("C", "auth")
    /\ UNCHANGED <<closedTwice, via, connectMutex, ret, result, others>>

\* The Welcome may offer UDP acceleration, which sets rudp_enabled even when there
\* is no context.
Welcome == \E offered \in BOOLEAN : conn' = [conn EXCEPT !.rudp_enabled = @ \/ offered]

\* perform_authentication_http: refused, or accepted.
Authenticate ==
    /\ pc["C"] = "auth"
    /\ \/ Goto("C", "refused") /\ UNCHANGED conn
       \/ Answered /\ Welcome /\ Goto("C", "setup")
    /\ UNCHANGED <<state, open, closedTwice, via, connectMutex, ret, result, others>>

\* A login refused over TCP is retried over NAT-T; one refused over UDP is final.
LoginRefused ==
    /\ pc["C"] = "refused"
    /\ Call("C", "disconnect", IF conn.using_nat_t THEN "failed" ELSE "natt")
    /\ connUnchanged /\ UNCHANGED <<state, connectMutex, result, others>>

\* softether_try_nat_t_connect.
NatTConnect ==
    /\ pc["C"] = "natt"
    /\ \/ /\ conn' = [conn EXCEPT !.fd = <<"natt", "fd">>, !.using_nat_t = TRUE,
                                  !.nat_t_transport = <<"natt", "transport">>]
          /\ open' = open \cup {<<"natt", "fd">>, <<"natt", "transport">>}
          /\ via' = "natt"
          /\ Goto("C", "tls") /\ UNCHANGED ret
       \/ Call("C", "disconnect", "failed") /\ UNCHANGED <<conn, open, via>>
    /\ UNCHANGED <<state, closedTwice, connectMutex, result, others>>

SetupKeepsAccel ==
    /\ pc["C"] = "setup"
    /\ state' = "SESSION_SETUP"
    /\ IF ~conn.use_tcp /\ conn.rudp # NULL /\ conn.rudp_enabled
       THEN \E ok \in BOOLEAN : conn' = [conn EXCEPT !.rudp_inited = ok]
       ELSE UNCHANGED conn
    /\ Goto("C", "established")
    /\ UNCHANGED <<open, closedTwice, via, connectMutex, ret, result, others>>

\* The acceleration context gets the server's keys; without a port or a key, or when
\* rudp_init_client fails, acceleration is switched off.
Setup ==
    /\ pc["C"] = "setup"
    /\ state' = "SESSION_SETUP"
    /\ IF ~conn.use_tcp /\ conn.rudp # NULL /\ conn.rudp_enabled
       THEN \E ok \in BOOLEAN : conn' = [conn EXCEPT !.rudp_inited = ok, !.rudp_enabled = ok]
       ELSE UNCHANGED conn
    /\ Goto("C", "established")
    /\ UNCHANGED <<open, closedTwice, via, connectMutex, ret, result, others>>

\* A connection without a socket is given up again, otherwise it is CONNECTED.
Established ==
    /\ pc["C"] = "established"
    /\ state' = "CONNECTED"
    /\ IF conn.fd = NULL THEN Call("C", "disconnect", "failed")
                         ELSE Goto("C", "half") /\ UNCHANGED ret
    /\ connUnchanged /\ UNCHANGED <<connectMutex, result, others>>

\* softether_establish_first_additional: the server may ask for a half-connection,
\* and the first additional socket may fail.  Then connect returns ERR_NONE.
FirstAdditional ==
    /\ pc["C"] = "half"
    /\ \/ UNCHANGED <<conn, open>>
       \/ /\ conn' = [conn EXCEPT !.additional = Res("additional")]
          /\ open' = open \cup {Res("additional")}
    /\ Goto("C", "returned") /\ result' = "ERR_NONE" /\ connectMutex' = NULL
    /\ UNCHANGED <<state, closedTwice, via, ret, others>>

ConnectFailsKeepingMutex ==
    /\ pc["C"] = "failed"
    /\ Goto("C", "returned") /\ result' = "error"
    /\ connUnchanged /\ UNCHANGED <<state, connectMutex, ret, others>>

ConnectFails ==
    /\ pc["C"] = "failed"
    /\ Goto("C", "returned") /\ result' = "error" /\ connectMutex' = NULL
    /\ connUnchanged /\ UNCHANGED <<state, ret, others>>

-----------------------------------------------------------------------------
(* The closing thread.                                                      *)

\* softether_force_close_socket: no mutex, the descriptors stay open.
ForceClose ==
    /\ pc["D"] = "idle" /\ conn.fd # NULL /\ conn.fd \notin shut
    /\ shut' = shut \cup {conn.fd}
    /\ connUnchanged /\ UNCHANGED <<state, connectMutex, pc, ret, result, freed>>

\* nativeDisconnect looks at the state before it waits for connect_mutex.
NativeDisconnect ==
    /\ pc["D"] = "idle" /\ ~Gone(state)
    /\ Call("D", "disconnect", "idle")
    /\ connUnchanged /\ UNCHANGED <<state, connectMutex, result, others>>

DestroyOnlyFrees ==
    /\ pc["D"] = "idle" /\ (DestroyDuringConnect \/ pc["C"] \in {"idle", "returned"})
    /\ Goto("D", "free") /\ UNCHANGED ret
    /\ connUnchanged /\ UNCHANGED <<state, connectMutex, result, others>>

\* softether_destroy: disconnect unless DISCONNECTED, then free.
NativeDestroy ==
    /\ pc["D"] = "idle" /\ (DestroyDuringConnect \/ pc["C"] \in {"idle", "returned"})
    /\ IF state = "DISCONNECTED" THEN Goto("D", "free") /\ UNCHANGED ret
                                 ELSE Call("D", "disconnect", "free")
    /\ connUnchanged /\ UNCHANGED <<state, connectMutex, result, others>>

\* A transport that survived is destroyed, and with it its application descriptor.
Free ==
    /\ pc["D"] = "free"
    /\ Goto("D", "freed") /\ freed' = TRUE
    /\ LET stale == conn.nat_t_transport
       IN  IF stale = NULL THEN UNCHANGED <<open, closedTwice>>
           ELSE /\ open' = open \ {stale, AppFd(stale)}
                /\ closedTwice' = (closedTwice \/ AppFd(stale) \notin open)
    /\ conn' = [conn EXCEPT !.nat_t_transport = NULL, !.using_nat_t = FALSE]
    /\ UNCHANGED <<state, shut, connectMutex, ret, via, result>>

ConnectStep == \/ Connect \/ Resolve \/ TcpConnect \/ TlsStart \/ TlsEnd \/ Race \/ Hello
               \/ Authenticate \/ LoginRefused \/ NatTConnect \/ Setup \/ Established
               \/ FirstAdditional \/ ConnectFails \/ DisconnectEnter("C") \/ Teardown("C")
CloserStep == \/ ForceClose \/ NativeDisconnect \/ NativeDestroy \/ Free
              \/ DisconnectEnter("D") \/ Teardown("D")
Next == ConnectStep \/ CloserStep

Spec == Init /\ [][Next]_vars

\* Each thread keeps running once it is inside a call: every network wait of the
\* connect path has a timeout.  Nobody is obliged to make a call.
Fairness == /\ WF_vars(pc["C"] # "idle" /\ ConnectStep)
            /\ WF_vars(DisconnectEnter("D") \/ Teardown("D") \/ Free)
FairSpec == Spec /\ Fairness

-----------------------------------------------------------------------------
(* Properties                                                               *)

\* Types of the life-cycle state.
TypeOK ==
    /\ state \in States
    /\ open \subseteq Sites \X Kinds /\ shut \subseteq Sites \X {"fd"}
    /\ \A p \in Pointers : conn[p] \in (Sites \X Kinds) \cup {NULL}
    /\ \A f \in {"using_nat_t", "rudp_enabled", "rudp_inited", "udp_only", "use_tcp"} :
         conn[f] \in BOOLEAN
    /\ closedTwice \in BOOLEAN /\ freed \in BOOLEAN
    /\ connectMutex \in Threads \cup {NULL}
    /\ pc \in [Threads -> Steps] /\ ret \in [Threads -> Steps]
    /\ via \in Sites /\ result \in {NULL, "ERR_NONE", "error"}

\* Until the struct is freed, its pointers name exactly the resources that are open:
\* no error path, fallback or teardown leaves a dangling pointer behind or loses the
\* last pointer to something still open.
OwnsExactly == ~freed => Held = open

\* softether_disconnect on the closing thread tears the connection down only after
\* the connect call has returned, whatever the moment it was called at.
TeardownAfterConnect == pc["D"] = "teardown" => pc["C"] = "returned"

\* A connect that returned an error has left the connection DISCONNECTED; all it may
\* leave open is what a won transport race had acquired.
FailedConnectCleansUp ==
    pc["C"] = "returned" /\ result = "error" =>
        state = "DISCONNECTED" /\ open \subseteq {<<"race", k>> : k \in Kinds}

\* After softether_destroy nothing is left open, but for the TLS context of a race
\* winner whose login was refused.
DestroyReleases == freed /\ pc["C"] \in {"idle", "returned"} => open \subseteq {<<"race", "ssl">>}

\* A connected session has one UDP channel at most: either it runs over the UDP
\* transport and has no acceleration context, or it has no transport; and an
\* acceleration context in use has been given the server's keys.
OneUdpChannel ==
    state = "CONNECTED" =>
        /\ conn.using_nat_t <=> conn.nat_t_transport # NULL
        /\ conn.using_nat_t => conn.rudp = NULL
        /\ conn.rudp # NULL /\ conn.rudp_enabled => conn.rudp_inited

\* A closing call that waits for connect_mutex gets it and returns: no path through
\* the connect call leaves the mutex locked.
DisconnectReturns == pc["D"] \in {"disconnect", "teardown"} ~> pc["D"] \in {"idle", "freed"}

\* No descriptor is closed twice: what the ownership claims in softether_disconnect
\* are there for.
NoDoubleClose == ~closedTwice

=============================================================================
