-------------------------------- MODULE Dial --------------------------------
(***************************************************************************)
(* The TCP dial of softether_connect_with_hub: one softether_socket_t      *)
(* whose descriptor is re-created when the address family changes, dialled *)
(* to every resolved address (first the family of the first one, then the  *)
(* other one), then once more to an explicitly resolved address of the     *)
(* other family, and handed over to the connection or destroyed.           *)
(*                                                                         *)
(* A connect() that times out stays in progress in the kernel: while the   *)
(* same descriptor is reused, the next connect() is refused (EALREADY) or  *)
(* reports the earlier attempt's late success.                             *)
(***************************************************************************)
EXTENDS Naturals, Sequences, FiniteSetsExt, SequencesExt

CONSTANT MaxAddrs       \* bound: addresses the resolver returns

NoFd == 0
Families == {"v4", "v6"}
Other(f) == IF f = "v4" THEN "v6" ELSE "v4"

VARIABLES
    dialPc,     \* where the dial is
    preferred,  \* family of resolved_ip
    sock,       \* softether_socket_t: fd, family, blocking mode; pending: connect in progress
    fds,        \* descriptors open in the process
    left,       \* families of the addresses still to be tried in this call
    call,       \* "host" or "fallback": which call of socket_connect_timeout
    families,   \* families of the addresses the host name resolved to
    dialled,    \* families for which a connect attempt was really started, or no socket was to be had
    connFd      \* conn->socket_fd

dialVars == <<dialPc, preferred, sock, fds, left, call, families, dialled, connFd>>

NoSock == [fd |-> NoFd, family |-> "none", blocking |-> FALSE, pending |-> FALSE]
NewSock(f, used) == [fd |-> Min(1..9 \ used), family |-> f, blocking |-> FALSE, pending |-> FALSE]

DialInit == /\ dialPc = "create" /\ preferred \in Families /\ sock = NoSock /\ fds = {}
            /\ left = <<>> /\ call = "host" /\ families = {} /\ dialled = {} /\ connFd = NoFd

\* socket_create: an AF_INET socket in non-blocking mode.
SocketCreate ==
    /\ dialPc = "create"
    /\ \/ /\ sock' = NewSock("v4", fds) /\ fds' = fds \cup {sock'.fd} /\ dialPc' = "resolve"
       \/ /\ dialPc' = "failed" /\ UNCHANGED <<sock, fds>>
    /\ UNCHANGED <<preferred, left, call, families, dialled, connFd>>

\* The order of the two passes over the resolver's list: the family of its first
\* address, then the other one.
PassesFirstOnly(list) == SelectSeq(list, LAMBDA f : f = Head(list))
Passes(list) == SelectSeq(list, LAMBDA f : f = Head(list)) \o
                SelectSeq(list, LAMBDA f : f # Head(list))

\* getaddrinfo in socket_connect_timeout, and resolve_hostname_family before the
\* second call, whose argument is one literal address of the other family.
GetAddrInfo ==
    /\ dialPc = "resolve"
    /\ \/ /\ call = "host"
          /\ \E n \in 1..MaxAddrs : \E list \in [1..n -> Families] :
                left' = Passes(list) /\ families' = Range(list)
          /\ dialPc' = "try"
       \/ /\ call = "fallback"
          /\ left' = <<Other(preferred)>> /\ families' = families \cup {Other(preferred)}
          /\ dialPc' = "try"
       \/ /\ dialPc' = IF call = "host" THEN "resolve" ELSE "destroy"
          /\ UNCHANGED <<left, families>>
    /\ call' = IF dialPc' = "resolve" THEN "fallback" ELSE call
    /\ UNCHANGED <<preferred, sock, fds, dialled, connFd>>

\* socket_recreate_for_family: the socket to connect and the descriptors then open.
RecreatedLeaking(f) ==
    IF sock.fd # NoFd /\ sock.family = f
      THEN {[sock |-> sock, fds |-> fds]}
      ELSE LET new == NewSock(f, fds)
           IN  {[sock |-> new, fds |-> fds \cup {new.fd}], [sock |-> NoSock, fds |-> fds]}

Recreated(f) ==
    IF sock.fd # NoFd /\ sock.family = f
      THEN {[sock |-> sock, fds |-> fds]}
      ELSE LET others == fds \ {sock.fd}
               new == NewSock(f, others)
           IN  {[sock |-> new, fds |-> others \cup {new.fd}], [sock |-> NoSock, fds |-> others]}

\* try_connect_addr for the next address of the list.
TryConnect ==
    /\ dialPc = "try" /\ left # <<>> /\ left' = Tail(left)
    /\ \E r \in Recreated(Head(left)) :
          /\ fds' = r.fds
          /\ dialled' = IF r.sock.pending THEN dialled ELSE dialled \cup {Head(left)}
          /\ \/ r.sock.fd # NoFd                                         \* connected
                /\ sock' = [r.sock EXCEPT !.blocking = TRUE, !.pending = FALSE]
                /\ dialPc' = "handover"
             \/ sock' = r.sock /\ dialPc' = dialPc       \* no socket, refused, or EALREADY
             \/ /\ r.sock.fd # NoFd /\ ~r.sock.pending                   \* timed out
                /\ sock' = [r.sock EXCEPT !.pending = TRUE] /\ dialPc' = dialPc
    /\ UNCHANGED <<preferred, call, families, connFd>>

CallFails ==
    /\ dialPc = "try" /\ left = <<>>
    /\ dialPc' = IF call = "host" THEN "resolve" ELSE "destroy"
    /\ call' = "fallback"
    /\ UNCHANGED <<preferred, sock, fds, left, families, dialled, connFd>>

\* The descriptor moves to the connection; socket_destroy closes what is left.
HandOver ==
    /\ dialPc = "handover"
    /\ connFd' = sock.fd /\ sock' = NoSock /\ dialPc' = "connected"
    /\ UNCHANGED <<preferred, fds, left, call, families, dialled>>

SocketDestroy ==
    /\ dialPc = "destroy"
    /\ fds' = fds \ {sock.fd} /\ sock' = NoSock /\ dialPc' = "failed"
    /\ UNCHANGED <<preferred, left, call, families, dialled, connFd>>

DialNext == SocketCreate \/ GetAddrInfo \/ TryConnect \/ CallFails \/ HandOver \/ SocketDestroy

-----------------------------------------------------------------------------
\* Every socket() of the dial has exactly one owner, the socket object or the
\* connection, and none is left open when the dial has failed, whichever of the
\* attempts changed the family and whichever socket() failed.
DialOwnsItsSocket ==
    fds = {sock.fd, connFd} \ {NoFd}

\* The dial gives up only after each family the host resolved to had an attempt of
\* its own: a connect() on a socket with nothing in progress, unless the system
\* refused to create one.
BothFamiliesDialled ==
    dialPc = "destroy" => families \subseteq dialled

=============================================================================
