----------------------------- MODULE SocketPool -----------------------------
(***************************************************************************)
(* The data path of a connected session and the sockets it shares: the     *)
(* sending thread TX (softether_send), the receiving thread RX             *)
(* (softether_receive: keepalives, housekeeping, fill_recv_queue), the     *)
(* background thread BG that opens additional connections, and a           *)
(* softether_disconnect running on DX.                                     *)
(*                                                                         *)
(* A socket is a number: 0 is the primary, n > 0 the n-th additional one   *)
(* dialled.  Its descriptor is open while n is in openFd, its TLS context  *)
(* allocated while n is in openCtx; the UDP-acceleration context is the    *)
(* member RUDP of openCtx.  TLS contexts are not safe for use after        *)
(* ssl_destroy: write_mutex, ssl_lifetime_lock and the compare-and-swap    *)
(* claims (take_ssl_ctx_slot) are what keeps the threads apart, and        *)
(* SoftEtherClient.externalLock, which its callers hold around send,       *)
(* receive and the teardown of a published handle.                         *)
(*                                                                         *)
(* Payloads, block framing and the receive queue are left out (RecvQueue). *)
(***************************************************************************)
EXTENDS Integers, FiniteSets, Sequences, SequencesExt

CONSTANTS
    NULL, RUDP,
    NumSlots,           \* MAX_SE_CONNECTIONS
    MaxConnection,      \* conn->max_connection, the server's limit
    MaxDials,           \* bound: additional sockets dialled in a behaviour
    MaxFields,          \* bound: reads of the socket for one message
    Directions,         \* what the server may answer for an additional socket
    PrimaryDirection,   \* conn->primary_direction
    LockDisciplines     \* the sets of threads whose native calls hold externalLock

ASSUME PoolAssumption ==
    /\ NumSlots \in Nat \ {0} /\ MaxConnection \in Nat /\ MaxDials \in Nat /\ MaxFields \in Nat \ {0}
    /\ Directions \subseteq {"both", "c2s", "s2c"} /\ PrimaryDirection \in {"both", "c2s"}
    /\ LockDisciplines \subseteq SUBSET {"TX", "RX", "DX"}

VARIABLES
    state,                  \* conn->state
    lockers,                \* the threads that hold externalLock around their calls
    primary,                \* conn->socket_fd, conn->ssl
    rudp,                   \* conn->rudp
    slot,                   \* conn->additional[]
    numAdditional,          \* conn->num_additional
    connecting, connectSlot,\* additional_connecting, additional_connect_slot
    dials,                  \* additional sockets dialled so far
    openFd, openCtx,        \* what close() / ssl_destroy / rudp_destroy has not released
    reused,                 \* has a slot been refilled between its retiring and its claim?
    destroyedTwice,         \* has a TLS context been destroyed a second time?
    writeMutex, lifetimeLock, externalLock,   \* who holds each lock
    pc, cap,                \* where each thread is; the socket it has captured
    todo                    \* TX: candidates not yet tried; RX: the loop index

vars == <<state, lockers, primary, rudp, slot, numAdditional, connecting, connectSlot, dials, openFd,
          openCtx, reused, destroyedTwice, writeMutex, lifetimeLock, externalLock, pc, cap, todo>>

links == <<state, lockers, primary, rudp, slot, numAdditional, connecting, connectSlot, dials>>
resources == <<openFd, openCtx, reused, destroyedTwice>>
locks == <<writeMutex, lifetimeLock, externalLock>>

Threads == {"TX", "RX", "BG", "DX"}
Slots == 1..NumSlots
Sockets == 0..MaxDials
NoSocket == [idx |-> 0, ssl |-> NULL, fd |-> NULL, num |-> 0]
FreeSlot == [active |-> FALSE, fd |-> NULL, ssl |-> NULL, ctx |-> NULL, dir |-> "both"]

CanSend(d) == d \in {"both", "c2s"}
CanReceive(d) == d \in {"both", "s2c"}
Gone == state \in {"DISCONNECTED", "DISCONNECTING"}

Goto(t, step) == pc' = [pc EXCEPT ![t] = step]
Capture(t, idx, ssl, fd) == cap' = [cap EXCEPT ![t] = [idx |-> idx, ssl |-> ssl, fd |-> fd, num |-> 0]]
Drop(t) == cap' = [cap EXCEPT ![t] = NoSocket]        \* its locals go out of scope
Enter(t) == IF t \in lockers THEN externalLock = NULL /\ externalLock' = t
                                      ELSE UNCHANGED externalLock
Leave(t) == externalLock' = IF externalLock = t THEN NULL ELSE externalLock

Init == /\ state = "CONNECTED" /\ lockers \in LockDisciplines
        /\ primary = [fd |-> 0, ssl |-> 0] /\ rudp \in {RUDP, NULL}
        /\ slot = [i \in Slots |-> FreeSlot] /\ numAdditional = 0
        /\ connecting = FALSE /\ connectSlot = NULL /\ dials = 0
        /\ openFd = {0} /\ openCtx = {0} \cup ({rudp} \ {NULL}) /\ reused = FALSE /\ destroyedTwice = FALSE
        /\ writeMutex = NULL /\ lifetimeLock = NULL /\ externalLock = NULL
        /\ pc = [t \in Threads |-> "idle"] /\ cap = [t \in Threads |-> NoSocket]
        /\ todo = [t \in {"TX", "RX"} |-> <<>>]

-----------------------------------------------------------------------------
(* Retiring a failed additional socket: mark the slot inactive, then close  *)
(* the descriptor, claim the context with compare-and-swap and destroy it.  *)

Retiring(t) == pc[t] \in {"send_claim", "clean_claim", "read_claim"}

RetireMark(t, i, step) ==
    /\ Capture(t, i, slot[i].ssl, slot[i].fd)
    /\ slot' = [slot EXCEPT ![i].active = FALSE, ![i].ssl = NULL, ![i].fd = NULL]
    /\ Goto(t, step)

RetireCaptured(t, step) ==
    LET ctx == cap[t].ssl
    IN  /\ openFd' = openFd \ {cap[t].fd}
        /\ openCtx' = openCtx \ {ctx}
        /\ destroyedTwice' = (destroyedTwice \/ (ctx # NULL /\ ctx \notin openCtx))
        /\ cap' = [cap EXCEPT ![t].num = numAdditional]
        /\ Goto(t, step)
        /\ UNCHANGED <<slot, reused>>

RetireClaim(t, step) ==
    LET i == cap[t].idx ctx == slot[i].ctx
    IN  /\ openFd' = openFd \ {cap[t].fd}
        /\ openCtx' = openCtx \ {ctx}
        /\ destroyedTwice' = (destroyedTwice \/ (ctx # NULL /\ ctx \notin openCtx))
        /\ slot' = [slot EXCEPT ![i].ctx = NULL] /\ UNCHANGED reused
        /\ cap' = [cap EXCEPT ![t].num = numAdditional]
        /\ Goto(t, step)

\* num_additional-- and num_additional++ are a load and a store of a plain int.
RetireCount(t, from, step) ==
    /\ pc[t] = from /\ numAdditional' = cap[t].num - 1 /\ Goto(t, step) /\ Drop(t)
    /\ UNCHANGED <<state, lockers, primary, rudp, slot, connecting, connectSlot, dials, resources, locks, todo>>

-----------------------------------------------------------------------------
(* softether_send: acceleration first, then the TCP sockets with failover.  *)

Send == /\ pc["TX"] = "idle" /\ state = "CONNECTED"
        /\ Enter("TX") /\ Goto("TX", "send_lock")
        /\ UNCHANGED <<links, resources, writeMutex, lifetimeLock, cap, todo>>

SendDone == Goto("TX", "idle") /\ Leave("TX") /\ writeMutex' = NULL /\ Drop("TX")

\* softether_select_send_socket picks any capable socket (round robin); the failover
\* list is that one, then the primary, then the other slots in order.
SendCapable(i) == IF i = 0 THEN primary.fd # NULL /\ primary.ssl # NULL /\ CanSend(PrimaryDirection)
                           ELSE slot[i].active /\ CanSend(slot[i].dir)
SendOrder(best) == (IF best = 0 THEN <<>> ELSE <<best>>) \o
                   SelectSeq([i \in 1..(NumSlots + 1) |-> i - 1],
                             LAMBDA i : SendCapable(i) /\ (i = 0 \/ i # best))
TransmitBlock ==
    /\ Goto("TX", "send_next")
    /\ \E best \in {i \in {0} \cup Slots : i = 0 \/ SendCapable(i)} :
         todo' = [todo EXCEPT !["TX"] = IF state = "DISCONNECTING" \/ primary.ssl = NULL
                                        THEN <<>> ELSE SendOrder(best)]

SendLock ==
    /\ pc["TX"] = "send_lock" /\ writeMutex = NULL
    /\ IF state = "DISCONNECTING" \/ primary.ssl = NULL
       THEN SendDone /\ UNCHANGED todo
       ELSE /\ writeMutex' = "TX" /\ UNCHANGED externalLock
            /\ \/ /\ rudp # NULL /\ Goto("TX", "send_udp")
                  /\ Capture("TX", 0, rudp, NULL) /\ UNCHANGED todo
               \/ TransmitBlock /\ UNCHANGED cap
    /\ UNCHANGED <<links, resources, lifetimeLock>>

\* rudp_poll, rudp_is_send_ready and rudp_send on the captured context.
SendUdp ==
    /\ pc["TX"] = "send_udp"
    /\ \/ SendDone /\ UNCHANGED todo
       \/ TransmitBlock /\ Drop("TX") /\ UNCHANGED <<writeMutex, externalLock>>
    /\ UNCHANGED <<links, resources, lifetimeLock>>

SendNext ==
    /\ pc["TX"] = "send_next"
    /\ IF todo["TX"] = <<>>
       THEN SendDone /\ UNCHANGED todo
       ELSE LET i == Head(todo["TX"])
            IN  /\ todo' = [todo EXCEPT !["TX"] = Tail(@)]
                /\ IF i = 0
                   THEN IF primary.ssl = NULL \/ primary.fd = NULL THEN UNCHANGED <<pc, cap>>
                        ELSE Capture("TX", 0, primary.ssl, primary.fd) /\ Goto("TX", "send_io")
                   ELSE IF ~slot[i].active \/ slot[i].ssl = NULL \/ slot[i].fd = NULL THEN UNCHANGED <<pc, cap>>
                        ELSE Capture("TX", i, slot[i].ssl, slot[i].fd) /\ Goto("TX", "send_io")
                /\ UNCHANGED <<writeMutex, externalLock>>
    /\ UNCHANGED <<links, resources, lifetimeLock>>

SendIo ==
    /\ pc["TX"] = "send_io"
    /\ \/ SendDone /\ todo' = [todo EXCEPT !["TX"] = <<>>] /\ UNCHANGED slot
       \/ /\ IF cap["TX"].idx = 0 THEN Goto("TX", "send_next") /\ Drop("TX") /\ UNCHANGED slot
                                  ELSE RetireMark("TX", cap["TX"].idx, "send_claim")
          /\ UNCHANGED <<writeMutex, externalLock, todo>>
    /\ UNCHANGED <<state, lockers, primary, rudp, numAdditional, connecting, connectSlot, dials>>
    /\ UNCHANGED <<resources, lifetimeLock>>

SendClaim ==
    /\ pc["TX"] = "send_claim" /\ RetireClaim("TX", "send_count")
    /\ UNCHANGED <<state, lockers, primary, rudp, numAdditional, connecting, connectSlot, dials, locks, todo>>

-----------------------------------------------------------------------------
(* softether_receive: keepalives, launching BG, cleaning up, reading.       *)

RxAt(step, k) == Goto("RX", step) /\ todo' = [todo EXCEPT !["RX"] = <<k>>]
RxIndex == Head(todo["RX"])

Receive == /\ pc["RX"] = "idle" /\ state = "CONNECTED"
           /\ Enter("RX")
           /\ RxAt("keepalive", 0) \/ RxAt("launch", 0)      \* keepalives due, or not
           /\ UNCHANGED <<links, resources, writeMutex, lifetimeLock, cap>>

\* softether_send_keepalive_all captures each socket before it takes write_mutex.
KeepaliveNext ==
    /\ pc["RX"] = "keepalive"
    /\ LET k == RxIndex
       IN  IF k > NumSlots \/ primary.ssl = NULL THEN RxAt("launch", 0) /\ UNCHANGED cap
           ELSE IF SendCapable(k) /\ state = "CONNECTED"
           THEN /\ RxAt("keepalive_lock", k + 1)
                /\ IF k = 0 THEN Capture("RX", 0, primary.ssl, primary.fd)
                            ELSE Capture("RX", k, slot[k].ssl, slot[k].fd)
           ELSE RxAt("keepalive", k + 1) /\ UNCHANGED cap
    /\ UNCHANGED <<links, resources, locks>>

KeepaliveLock(from, to) ==
    /\ pc["RX"] = from /\ writeMutex = NULL
    /\ writeMutex' = "RX" /\ Goto("RX", to)
    /\ UNCHANGED <<links, resources, lifetimeLock, externalLock, cap, todo>>

KeepaliveIo ==
    /\ pc["RX"] = "keepalive_io"
    /\ writeMutex' = NULL /\ Goto("RX", "keepalive") /\ Drop("RX")
    /\ UNCHANGED <<links, resources, lifetimeLock, externalLock, todo>>

LaunchPastTheEnd ==
    /\ pc["RX"] = "launch" /\ ~connecting /\ dials < MaxDials
    /\ connectSlot' = Cardinality({i \in Slots : slot[i].active}) + 1
    /\ connecting' = TRUE
    /\ pc' = [pc EXCEPT !["BG"] = "start", !["RX"] = "clean"]
    /\ todo' = [todo EXCEPT !["RX"] = <<1>>]
    /\ UNCHANGED <<state, lockers, primary, rudp, slot, numAdditional, dials, resources, locks, cap>>

\* softether_maintain_links: one background connect at a time, below the limit.
Launch ==
    /\ pc["RX"] = "launch"
    /\ \/ /\ numAdditional + 1 < MaxConnection /\ ~connecting /\ dials < MaxDials
          /\ \E i \in Slots : /\ ~slot[i].active /\ \A j \in 1..(i - 1) : slot[j].active
                              /\ connectSlot' = i
          /\ connecting' = TRUE
          /\ pc' = [pc EXCEPT !["BG"] = "start", !["RX"] = "clean"]
       \/ Goto("RX", "clean") /\ UNCHANGED <<connecting, connectSlot>>
    /\ todo' = [todo EXCEPT !["RX"] = <<1>>]
    /\ UNCHANGED <<state, lockers, primary, rudp, slot, numAdditional, dials, resources, locks, cap>>

\* Sockets that poll() reports as hung up are retired without a lock.
Clean ==
    /\ pc["RX"] = "clean"
    /\ LET k == RxIndex
       IN  \/ RxAt(IF k > NumSlots THEN "fill" ELSE "clean", (k + 1) % (NumSlots + 2)) /\ UNCHANGED <<slot, cap>>
           \/ k > NumSlots /\ RxAt("frame", 0) /\ UNCHANGED <<slot, cap>>    \* frames are queued
           \/ /\ k <= NumSlots /\ slot[k].active /\ ~(connecting /\ k = connectSlot)
              /\ RetireMark("RX", k, "clean_claim") /\ UNCHANGED todo
    /\ UNCHANGED <<state, lockers, primary, rudp, numAdditional, connecting, connectSlot, dials, resources, locks>>

CleanClaim ==
    /\ pc["RX"] = "clean_claim" /\ RetireClaim("RX", "clean_count")
    /\ UNCHANGED <<state, lockers, primary, rudp, numAdditional, connecting, connectSlot, dials, locks, todo>>

\* Return from softether_fill_recv_queue: without data the call is over, with data
\* the first queued frame is looked at.
UnlockLifetime == lifetimeLock' = IF lifetimeLock = "RX" THEN NULL ELSE lifetimeLock
ReceiveDone == RxAt("idle", 0) /\ Drop("RX") /\ Leave("RX") /\ UnlockLifetime
ReceiveFrame == RxAt("frame", 0) /\ Drop("RX") /\ UnlockLifetime /\ UNCHANGED externalLock

FillWithoutLifetimeLock ==
    /\ pc["RX"] = "fill"
    /\ IF primary.ssl = NULL \/ Gone
       THEN ReceiveDone
       ELSE /\ UNCHANGED todo
            /\ IF rudp # NULL THEN Goto("RX", "drain") /\ Capture("RX", 0, rudp, NULL)
                              ELSE Goto("RX", "poll") /\ UNCHANGED cap
            /\ UNCHANGED <<lifetimeLock, externalLock>>
    /\ UNCHANGED <<links, resources, writeMutex>>

\* softether_fill_recv_queue holds ssl_lifetime_lock for reading from here on.
Fill ==
    /\ pc["RX"] = "fill" /\ lifetimeLock = NULL
    /\ IF primary.ssl = NULL \/ Gone
       THEN ReceiveDone
       ELSE /\ lifetimeLock' = "RX" /\ UNCHANGED <<externalLock, todo>>
            /\ IF rudp # NULL THEN Goto("RX", "drain") /\ Capture("RX", 0, rudp, NULL)
                              ELSE Goto("RX", "poll") /\ UNCHANGED cap
    /\ UNCHANGED <<links, resources, writeMutex>>

Drain ==
    /\ pc["RX"] = "drain"
    /\ \/ ReceiveFrame
       \/ RxAt("poll", 0) /\ Drop("RX") /\ UNCHANGED <<lifetimeLock, externalLock>>
    /\ UNCHANGED <<links, resources, writeMutex>>

\* Capture the receive-capable sockets, poll them, pick one that is readable.
Poll ==
    /\ pc["RX"] = "poll"
    /\ \/ ReceiveDone
       \/ /\ \/ /\ primary.fd # NULL /\ CanReceive(PrimaryDirection)
                /\ Capture("RX", 0, primary.ssl, primary.fd)
             \/ \E i \in Slots : /\ slot[i].active /\ CanReceive(slot[i].dir)
                                 /\ slot[i].ssl # NULL /\ slot[i].fd # NULL
                                 /\ Capture("RX", i, slot[i].ssl, slot[i].fd)
          /\ RxAt("revalidate", 0) /\ UNCHANGED <<lifetimeLock, externalLock>>
    /\ UNCHANGED <<links, resources, writeMutex>>

Revalidate ==
    /\ pc["RX"] = "revalidate"
    /\ LET c == cap["RX"]
           valid == /\ state # "DISCONNECTING"
                    /\ IF c.idx = 0 THEN primary.ssl = c.ssl /\ primary.fd = c.fd
                                    ELSE slot[c.idx].active /\ slot[c.idx].ssl = c.ssl
       IN  IF valid THEN RxAt("read_lock", MaxFields) /\ UNCHANGED <<cap, lifetimeLock, externalLock>>
                    ELSE ReceiveDone
    /\ UNCHANGED <<links, resources, writeMutex>>

\* Each field of the message is one read under write_mutex.  A read error retires an
\* additional socket and fails the call on the primary; a keepalive is answered.
ReadIo ==
    /\ pc["RX"] = "read_io"
    /\ writeMutex' = NULL
    /\ \/ /\ RxIndex > 1 /\ RxAt("read_lock", RxIndex - 1)
          /\ UNCHANGED <<slot, cap, lifetimeLock, externalLock>>
       \/ (ReceiveDone \/ ReceiveFrame) /\ UNCHANGED slot
       \/ /\ cap["RX"].idx # 0 /\ RetireMark("RX", cap["RX"].idx, "read_claim")
          /\ UNCHANGED <<lifetimeLock, externalLock, todo>>
       \/ /\ primary.ssl # NULL /\ state = "CONNECTED"
          /\ Capture("RX", 0, primary.ssl, primary.fd) /\ RxAt("reply_lock", 0)
          /\ UNCHANGED <<slot, lifetimeLock, externalLock>>
    /\ UNCHANGED <<state, lockers, primary, rudp, numAdditional, connecting, connectSlot, dials>>
    /\ UNCHANGED resources

ReadClaim ==
    /\ pc["RX"] = "read_claim" /\ RetireClaim("RX", "read_count")
    /\ UNCHANGED <<state, lockers, primary, rudp, numAdditional, connecting, connectSlot, dials, locks, todo>>

ReadEnd ==
    /\ pc["RX"] \in {"read_end", "reply_io", "arp_io"} /\ ReceiveDone
    /\ writeMutex' = IF writeMutex = "RX" THEN NULL ELSE writeMutex
    /\ UNCHANGED <<links, resources>>

\* softether_reply_arp_request: softether_send_data tries the acceleration context
\* without a lock, softether_send_packet writes to one selected socket.
Frame ==
    /\ pc["RX"] = "frame"
    /\ \/ ReceiveDone
       \/ /\ state = "CONNECTED" /\ UNCHANGED <<lifetimeLock, externalLock, todo>>
          /\ IF rudp # NULL THEN Goto("RX", "arp_udp") /\ Capture("RX", 0, rudp, NULL)
                            ELSE Goto("RX", "arp_lock") /\ UNCHANGED cap
    /\ UNCHANGED <<links, resources, writeMutex>>

ArpUdp ==
    /\ pc["RX"] = "arp_udp"
    /\ \/ ReceiveDone
       \/ RxAt("arp_lock", 0) /\ Drop("RX") /\ UNCHANGED <<lifetimeLock, externalLock>>
    /\ UNCHANGED <<links, resources, writeMutex>>

ArpLock ==
    /\ pc["RX"] = "arp_lock" /\ writeMutex = NULL
    /\ IF state = "DISCONNECTING" \/ primary.ssl = NULL
       THEN ReceiveDone /\ UNCHANGED writeMutex
       ELSE /\ writeMutex' = "RX" /\ Goto("RX", "arp_io")
            /\ \/ Capture("RX", 0, primary.ssl, primary.fd)
               \/ \E i \in Slots : SendCapable(i) /\ Capture("RX", i, slot[i].ssl, slot[i].fd)
            /\ UNCHANGED <<lifetimeLock, externalLock, todo>>
    /\ UNCHANGED <<links, resources>>

-----------------------------------------------------------------------------
(* additional_connect_thread_routine / softether_additional_connect.        *)

BgStartUnchecked ==
    /\ pc["BG"] = "start"
    /\ \/ \E i \in Slots : /\ ~slot[i].active /\ \A j \in 1..(i - 1) : slot[j].active
                           /\ Goto("BG", "dial") /\ Capture("BG", i, NULL, NULL)
       \/ (\A i \in Slots : slot[i].active) /\ Goto("BG", "end") /\ UNCHANGED cap
    /\ UNCHANGED <<links, resources, locks, todo>>

BgStart ==
    /\ pc["BG"] = "start"
    /\ \/ /\ state = "CONNECTED"
          /\ \E i \in Slots : /\ ~slot[i].active /\ \A j \in 1..(i - 1) : slot[j].active
                              /\ Goto("BG", "dial") /\ Capture("BG", i, NULL, NULL)
       \/ /\ state # "CONNECTED" \/ \A i \in Slots : slot[i].active
          /\ Goto("BG", "end") /\ UNCHANGED cap
    /\ UNCHANGED <<links, resources, locks, todo>>

\* TCP connect, TLS handshake, watermark and additional_connect PACK; a failure
\* releases what was acquired.
BgDial ==
    /\ pc["BG"] = "dial"
    /\ dials' = dials + 1
    /\ \/ /\ openFd' = openFd \cup {dials'} /\ openCtx' = openCtx \cup {dials'}
          /\ Capture("BG", cap["BG"].idx, dials', dials') /\ Goto("BG", "publish")
       \/ Goto("BG", "end") /\ UNCHANGED <<openFd, openCtx, cap>>
    /\ UNCHANGED <<state, lockers, primary, rudp, slot, numAdditional, connecting, connectSlot>>
    /\ UNCHANGED <<reused, destroyedTwice, locks, todo>>

BgPublish ==
    /\ pc["BG"] = "publish"
    /\ \E d \in Directions :
         slot' = [slot EXCEPT ![cap["BG"].idx] = [active |-> TRUE, fd |-> cap["BG"].fd,
                                                  ssl |-> cap["BG"].ssl, ctx |-> cap["BG"].ssl, dir |-> d]]
    /\ cap' = [cap EXCEPT !["BG"].num = numAdditional]
    /\ reused' = (reused \/ \E t \in {"TX", "RX"} : Retiring(t) /\ cap[t].idx = cap["BG"].idx)
    /\ Goto("BG", "count")
    /\ UNCHANGED <<state, lockers, primary, rudp, numAdditional, connecting, connectSlot, dials>>
    /\ UNCHANGED <<openFd, openCtx, destroyedTwice, locks, todo>>

BgCount ==
    /\ pc["BG"] = "count" /\ numAdditional' = cap["BG"].num + 1 /\ Goto("BG", "end")
    /\ UNCHANGED <<state, lockers, primary, rudp, slot, connecting, connectSlot, dials, resources, locks, cap, todo>>

BgEnd ==
    /\ pc["BG"] = "end" /\ connecting' = FALSE /\ Goto("BG", "idle") /\ Drop("BG")
    /\ UNCHANGED <<state, lockers, primary, rudp, slot, numAdditional, connectSlot, dials, resources, locks, todo>>

-----------------------------------------------------------------------------
(* softether_disconnect.                                                    *)

Disconnect ==
    /\ pc["DX"] = "idle" /\ state = "CONNECTED"
    /\ Enter("DX") /\ state' = "DISCONNECTING" /\ Goto("DX", "join")
    /\ UNCHANGED <<lockers, primary, rudp, slot, numAdditional, connecting, connectSlot, dials, resources>>
    /\ UNCHANGED <<writeMutex, lifetimeLock, cap, todo>>

\* Wait for BG if it is running, then close the primary descriptor.
DisconnectJoin ==
    /\ pc["DX"] = "join" /\ ~connecting
    /\ openFd' = openFd \ {primary.fd} /\ primary' = [primary EXCEPT !.fd = NULL]
    /\ Goto("DX", "lifetime_lock")
    /\ UNCHANGED <<state, lockers, rudp, slot, numAdditional, connecting, connectSlot, dials>>
    /\ UNCHANGED <<openCtx, reused, destroyedTwice, locks, cap, todo>>

DisconnectLocksWriteFirst ==
    /\ \/ /\ pc["DX"] = "lifetime_lock" /\ writeMutex = NULL
          /\ writeMutex' = "DX" /\ Goto("DX", "write_lock") /\ UNCHANGED lifetimeLock
       \/ /\ pc["DX"] = "write_lock" /\ lifetimeLock = NULL
          /\ lifetimeLock' = "DX" /\ Goto("DX", "close") /\ UNCHANGED writeMutex
    /\ UNCHANGED <<links, resources, externalLock, cap, todo>>

\* ssl_lifetime_lock for writing, then write_mutex.
DisconnectLocks ==
    /\ \/ /\ pc["DX"] = "lifetime_lock" /\ lifetimeLock = NULL
          /\ lifetimeLock' = "DX" /\ Goto("DX", "write_lock") /\ UNCHANGED writeMutex
       \/ /\ pc["DX"] = "write_lock" /\ writeMutex = NULL
          /\ writeMutex' = "DX" /\ Goto("DX", "close") /\ UNCHANGED lifetimeLock
    /\ UNCHANGED <<links, resources, externalLock, cap, todo>>

\* softether_close_additional: every active slot is emptied and its descriptor
\* closed, every context still in a slot is claimed and destroyed.
CloseAdditional ==
    /\ pc["DX"] = "close" /\ ~connecting
    /\ openFd' = openFd \ {slot[i].fd : i \in {j \in Slots : slot[j].active}}
    /\ LET claimed == {slot[i].ctx : i \in Slots} \ {NULL}
       IN  /\ openCtx' = openCtx \ claimed
           /\ destroyedTwice' = (destroyedTwice \/ ~(claimed \subseteq openCtx))
    /\ slot' = [i \in Slots |-> IF slot[i].active THEN [FreeSlot EXCEPT !.dir = slot[i].dir]
                                                  ELSE [slot[i] EXCEPT !.ctx = NULL]]
    /\ numAdditional' = 0
    /\ Goto("DX", "close_primary")
    /\ UNCHANGED <<state, lockers, primary, rudp, connecting, connectSlot, dials, reused, locks, cap, todo>>

ClosePrimary ==
    /\ pc["DX"] = "close_primary"
    /\ openCtx' = openCtx \ {primary.ssl} /\ primary' = [primary EXCEPT !.ssl = NULL]
    /\ destroyedTwice' = (destroyedTwice \/ primary.ssl \notin openCtx)
    /\ writeMutex' = NULL /\ lifetimeLock' = NULL /\ Goto("DX", "close_rudp")
    /\ UNCHANGED <<state, lockers, rudp, slot, numAdditional, connecting, connectSlot, dials, openFd, reused>>
    /\ UNCHANGED <<externalLock, cap, todo>>

CloseRudp ==
    /\ pc["DX"] = "close_rudp"
    /\ openCtx' = openCtx \ {rudp} /\ rudp' = NULL
    /\ state' = "DISCONNECTED" /\ Goto("DX", "idle") /\ Leave("DX")
    /\ UNCHANGED <<lockers, primary, slot, numAdditional, connecting, connectSlot, dials, openFd>>
    /\ UNCHANGED <<reused, destroyedTwice, writeMutex, lifetimeLock, cap, todo>>

TxStep == RetireCount("TX", "send_count", "send_next") \/ SendLock \/ SendUdp \/ SendNext \/ SendIo \/ SendClaim
RxStep == \/ RetireCount("RX", "clean_count", "clean") \/ RetireCount("RX", "read_count", "read_end")
          \/ KeepaliveNext \/ KeepaliveLock("keepalive_lock", "keepalive_io") \/ KeepaliveIo
          \/ Launch \/ Clean \/ CleanClaim \/ Fill \/ Drain \/ Poll \/ Revalidate
          \/ KeepaliveLock("read_lock", "read_io") \/ ReadIo \/ ReadClaim \/ ReadEnd
          \/ Frame \/ ArpUdp \/ ArpLock
          \/ KeepaliveLock("reply_lock", "reply_io")
BgStep == BgStart \/ BgDial \/ BgPublish \/ BgCount \/ BgEnd
DxStep == DisconnectJoin \/ DisconnectLocks \/ CloseAdditional \/ ClosePrimary \/ CloseRudp
Next == Send \/ TxStep \/ Receive \/ RxStep \/ BgStep \/ Disconnect \/ DxStep

Spec == Init /\ [][Next]_vars
FairSpec == Spec /\ WF_vars(TxStep) /\ WF_vars(RxStep) /\ WF_vars(BgStep) /\ WF_vars(DxStep)

-----------------------------------------------------------------------------
(* Properties                                                               *)

\* Types of the pool, the resources and the locks; a socket number never exceeds what
\* the bounded background dials can have produced.
TypeOK ==
    /\ state \in {"CONNECTED", "DISCONNECTING", "DISCONNECTED"}
    /\ primary \in [fd : {0, NULL}, ssl : {0, NULL}] /\ rudp \in {RUDP, NULL}
    /\ slot \in [Slots -> [active : BOOLEAN, fd : Sockets \cup {NULL}, ssl : Sockets \cup {NULL},
                           ctx : Sockets \cup {NULL}, dir : {"both", "c2s", "s2c"}]]
    /\ connecting \in BOOLEAN /\ connectSlot \in Slots \cup {NULL} /\ dials \in 0..MaxDials
    /\ openFd \subseteq Sockets /\ openCtx \subseteq Sockets \cup {RUDP}
    /\ writeMutex \in {"TX", "RX", "DX", NULL} /\ lifetimeLock \in {"RX", "DX", NULL}
    /\ externalLock \in lockers \cup {NULL}

\* A TLS context is destroyed at most once, however the teardown interleaves with the
\* threads that retire sockets: the compare-and-swap claim of take_ssl_ctx_slot.
DestroyedOnce == ~destroyedTwice

\* Where a thread is about to hand a captured context to the TLS or acceleration code.
UnderWriteMutex(t) == pc[t] \in {"send_io", "send_udp", "arp_io"}
UnderLifetimeLock(t) == pc[t] \in {"read_io", "reply_io", "drain"}

Keepaliving(t) == pc[t] \in {"keepalive_io", "arp_udp"}

\* No thread hands a destroyed context to OpenSSL or to the acceleration code.  The
\* primary and the acceleration context are safe under write_mutex and
\* ssl_lifetime_lock alone; an additional socket's unless its slot was refilled while
\* it was being retired; the periodic keepalives and the ARP reply, which capture
\* without a lock, if the teardown goes through externalLock.
UsedContextIsAlive ==
    \A t \in {"TX", "RX"} :
        \/ cap[t].ssl \in openCtx
        \/ ~UnderWriteMutex(t) /\ ~UnderLifetimeLock(t) /\ (Keepaliving(t) => "DX" \notin lockers)
        \/ reused /\ cap[t].idx > 0

\* After softether_disconnect every descriptor is closed, or about to be by a thread
\* that is retiring it, and every context is destroyed: a background connect that
\* finishes late cannot publish a socket nobody closes.
DisconnectReleases ==
    state = "DISCONNECTED" =>
        /\ openFd \subseteq {cap[t].fd : t \in {u \in Threads : Retiring(u)}}
        /\ reused \/ openCtx = {}
        /\ \A i \in Slots : ~slot[i].active

\* Once softether_disconnect has started it completes: every lock it waits for is
\* released, and the background thread it joins ends.
DisconnectCompletes == (state = "DISCONNECTING") ~> (state = "DISCONNECTED")

=============================================================================
