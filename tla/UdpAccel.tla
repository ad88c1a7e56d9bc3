------------------------------ MODULE UdpAccel ------------------------------
(***************************************************************************)
(* UDP acceleration (softether_rudp.c): an unreliable, encrypted side      *)
(* channel for frames.  The client sends a frame over it only while the    *)
(* path is proven in both directions; everything else rides TCP.  The      *)
(* proof is made of clocks: each datagram carries its sender's tick and    *)
(* the latest tick it heard from the other side.  Receive-queue overflows  *)
(* suspend the use of UDP with a back-off; losses shrink a token bucket.   *)
(*                                                                         *)
(* The callers are serialised (SoftEtherClient.externalLock): a send is    *)
(* rudp_poll, rudp_is_send_ready, rudp_send; a receive is rudp_poll and    *)
(* then rudp_recv until the queue is empty.  Time is counted in ticks of   *)
(* the CLOCK_MONOTONIC reading; it does not advance inside a send or a     *)
(* receive, whose calls never block.  The peer and the network, which      *)
(* loses and reorders datagrams, are external; a duplicate is one that the *)
(* peer sends twice in a tick.                                             *)
(* Encryption, cookies and padding are the predicate that a datagram of    *)
(* the peer passes and no other does.                                      *)
(***************************************************************************)
EXTENDS Integers, FiniteSets, Sequences

CONSTANTS
    Window,         \* RUDP_WINDOW_SIZE_MSEC
    KaTimeout,      \* RUDP_KA_TIMEOUT
    Continuous,     \* RUDP_REQUIRE_CONTINUOUS
    LossGap,        \* RUDP_PEER_TICK_LOSS_GAP
    KaIntervals,    \* RUDP_KA_INTERVAL_MIN .. RUDP_KA_INTERVAL_MAX - 1
    SuspendMs, MaxShift, CleanMs, Threshold,    \* RUDP_UDP_SUSPEND_MS and its back-off
    CwinStart, CwinMin, CwinMax, GrowBps, Second,   \* RUDP_CWIN_*; Second is 1000 ms
    QueueSize, MaxPayload,  \* RUDP_RECV_QUEUE_SIZE, RUDP_MAX_PAYLOAD_SIZE
    RecvBuffer,     \* MAX_QUEUED_FRAME, the buffer rudp_recv is called with
    Sizes,          \* sizes of a frame, before and after decompression
    MaxTime, MaxNet, MaxOverflows   \* bounds: the clock, datagrams in flight, overflows

ASSUME AccelAssumption ==
    /\ Window \in Nat /\ KaTimeout \in Nat /\ Continuous \in Nat /\ LossGap \in Nat
    /\ SuspendMs \in Nat /\ MaxShift \in Nat /\ CleanMs \in Nat /\ Threshold \in Nat \ {0}
    /\ CwinStart \in Nat /\ CwinMin \in Nat /\ CwinMax \in Nat
    /\ GrowBps \in Nat /\ Second \in Nat \ {0}
    /\ QueueSize \in Nat /\ MaxPayload \in Nat /\ RecvBuffer \in Nat
    /\ KaIntervals \subseteq Nat /\ Sizes \subseteq Nat \ {0}
    /\ MaxTime \in Nat /\ MaxNet \in Nat /\ MaxOverflows \in Nat
    /\ CwinMin <= CwinMax /\ CwinStart <= CwinMax /\ MaxPayload <= RecvBuffer

ASSUME ShiftAssumption ==       \* suspend_ms <<= shift
    \A n \in 0..MaxShift : 2^n \in Nat /\ 2^n <= 2^MaxShift

VARIABLES
    time,       \* CLOCK_MONOTONIC; never 0, which the code uses for "never"
    ctx,        \* the fields of rudp_context_t that decide
    queue,      \* lengths of the frames in ctx->recv_queue
    locked,     \* ctx->lock is held between calls
    pc,         \* where the caller is
    net,        \* datagrams from the peer that may still arrive
    up,         \* the client tick on its way to the peer
    peerHeard,  \* the latest client tick the peer has heard
    path        \* history: fresh datagrams read (last, and first without a gap)

vars == <<time, ctx, queue, locked, pc, net, up, peerHeard, path>>

\* The fields of ctx, with 0 for "never" as calloc leaves them.
Init ==
    /\ time = 1
    /\ ctx = [now |-> 1, lastRecv |-> 0, firstStable |-> 0, recvMyTick |-> 0, recvYourTick |-> 0,
              peerTickSeen |-> 0, nextKeepalive |-> 0, lastLoss |-> 0,
              overflows |-> 0, suspended |-> FALSE, resume |-> 0, suspensions |-> 0,
              cwin |-> 0, cwinInited |-> FALSE, lastRefill |-> 0]
    /\ queue = <<>> /\ locked = FALSE /\ pc = "idle"
    /\ net = {} /\ up = 0 /\ peerHeard = 0
    /\ path = [last |-> 0, since |-> 0]

Larger(a, b) == IF a > b THEN a ELSE b
Smaller(a, b) == IF a < b THEN a ELSE b

-----------------------------------------------------------------------------
(* The token bucket.                                                        *)

Refill(c) ==        \* rudp_cwin_refill
    IF ~c.cwinInited
    THEN [c EXCEPT !.cwin = CwinStart, !.lastRefill = c.now, !.cwinInited = TRUE]
    ELSE IF c.now <= c.lastRefill THEN c
    ELSE [c EXCEPT !.lastRefill = c.now,
                   !.cwin = Smaller(CwinMax, @ + (GrowBps * (c.now - c.lastRefill)) \div Second)]

OnLoss(c) ==        \* rudp_cwin_on_loss
    [c EXCEPT !.lastLoss = c.now, !.cwin = Larger(CwinMin, @ \div 2)]

-----------------------------------------------------------------------------
(* rudp_poll: time-out, keepalive, then every datagram that has arrived.    *)

TimedOut(c) == c.lastRecv + KaTimeout < c.now

PollIgnoresSilence(caller) ==
    /\ pc = "idle" /\ ~locked
    /\ LET c == [ctx EXCEPT !.now = time]
       IN  IF c.nextKeepalive <= time
           THEN /\ \E k \in KaIntervals : ctx' = [c EXCEPT !.nextKeepalive = time + k]
                /\ up' = time
           ELSE ctx' = c /\ UNCHANGED up
    /\ pc' = caller
    /\ UNCHANGED <<time, queue, locked, net, peerHeard, path>>

Poll(caller) ==
    /\ pc = "idle" /\ ~locked
    /\ LET c == [ctx EXCEPT !.now = time]
           t == IF c.lastRecv # 0 /\ TimedOut(c)
                THEN [c EXCEPT !.firstStable = 0, !.lastLoss = time] ELSE c
       IN  IF t.nextKeepalive <= time
           THEN /\ \E k \in KaIntervals : ctx' = [t EXCEPT !.nextKeepalive = time + k]
                /\ up' = time
           ELSE ctx' = t /\ UNCHANGED up
    /\ pc' = caller
    /\ UNCHANGED <<time, queue, locked, net, peerHeard, path>>

\* The clocks of an accepted datagram; a jump of the peer's clock is a loss.
Clocks(c, p) ==
    LET d == [c EXCEPT !.recvMyTick = Larger(@, p.echo), !.recvYourTick = Larger(@, p.tick)]
    IN  [IF c.peerTickSeen # 0 /\ p.tick > c.peerTickSeen + LossGap THEN OnLoss(d) ELSE d
           EXCEPT !.peerTickSeen = p.tick]

\* Only a peer that has heard a recent tick of ours counts as received.
Fresh(c) == c.recvMyTick # 0 /\ c.recvMyTick + Window >= c.now
Received(c) ==
    IF Fresh(c) THEN [c EXCEPT !.lastRecv = c.now,
                               !.firstStable = IF @ = 0 THEN c.now ELSE @]
                ELSE c

ProcessAnySize(p) ==
    /\ pc \in {"send_poll", "recv_poll"}
    /\ ctx' = Received(Clocks(ctx, p))
    /\ queue' = IF p.len > 0 /\ Len(queue) < QueueSize THEN Append(queue, p.len) ELSE queue
    /\ net' = net \ {p}
    /\ UNCHANGED <<time, locked, pc, up, peerHeard, path>>

\* rudp_process_inner.  Afterwards the frame, if there is one, is queued; an oversized
\* one is dropped, and one that finds the queue full is counted and shrinks the bucket.
ProcessInner(p) ==
    /\ pc \in {"send_poll", "recv_poll"}
    /\ ~(p.tick < ctx.recvYourTick /\ ctx.recvYourTick - p.tick >= Window)
    /\ LET c == Received(Clocks(ctx, p))
           full == p.len > 0 /\ p.len <= MaxPayload /\ Len(queue) >= QueueSize
       IN  /\ ctx' = IF full THEN OnLoss([c EXCEPT !.overflows = @ + 1]) ELSE c
           /\ queue' = IF p.len > 0 /\ p.len <= MaxPayload /\ ~full THEN Append(queue, p.len) ELSE queue
           /\ path' = IF ~Fresh(c) THEN path
                      ELSE [last |-> time, since |-> IF path.last = 0 \/ path.last + KaTimeout < time
                                                     THEN time ELSE path.since]
    /\ net' = net \ {p}
    /\ UNCHANGED <<time, locked, pc, up, peerHeard>>

PollEnd ==
    /\ pc \in {"send_poll", "recv_poll"}
    /\ pc' = IF pc = "send_poll" THEN "ready" ELSE "recv"
    /\ UNCHANGED <<time, ctx, queue, locked, net, up, peerHeard, path>>

-----------------------------------------------------------------------------
(* rudp_is_send_ready(ctx, 1), as steps on the context, and rudp_send.       *)

CleanReset(c) ==
    IF ~c.suspended /\ c.lastLoss # 0 /\ c.now > c.lastLoss /\ c.now - c.lastLoss >= CleanMs
    THEN [c EXCEPT !.suspensions = 0, !.overflows = 0] ELSE c

Reprobe(c) ==
    IF c.suspended /\ c.now >= c.resume THEN [c EXCEPT !.suspended = FALSE, !.overflows = 0] ELSE c

SuspendOffByOne(c) ==
    IF ~c.suspended /\ c.overflows >= Threshold
    THEN [c EXCEPT !.suspended = TRUE, !.suspensions = @ + 1,
                   !.resume = c.now + SuspendMs * 2^(Smaller(c.suspensions, MaxShift) + 1)]
    ELSE c

Suspend(c) ==
    IF ~c.suspended /\ c.overflows >= Threshold
    THEN [c EXCEPT !.suspended = TRUE, !.suspensions = @ + 1,
                   !.resume = c.now + SuspendMs * 2^Smaller(c.suspensions, MaxShift)]
    ELSE c

IsSendReady ==
    /\ pc = "ready" /\ ~locked
    /\ LET c == Suspend(Reprobe(CleanReset(Refill(ctx))))
           silent == ~c.suspended /\ (c.lastRecv = 0 \/ TimedOut(c))
       IN  /\ ctx' = IF silent THEN [c EXCEPT !.firstStable = 0] ELSE c
           /\ pc' = IF ~c.suspended /\ ~silent /\ c.firstStable + Continuous <= c.now /\ c.cwin # 0
                    THEN "send" ELSE "idle"        \* idle: the frame rides TCP
    /\ UNCHANGED <<time, queue, locked, net, up, peerHeard, path>>

SendUnderflows(len) ==
    /\ pc = "send" /\ ~locked
    /\ LET r == Refill([ctx EXCEPT !.now = time]) IN up' = time /\ ctx' = [r EXCEPT !.cwin = @ - len]
    /\ pc' = "idle"
    /\ UNCHANGED <<time, queue, locked, net, peerHeard, path>>

Send(len) ==
    /\ pc = "send" /\ ~locked
    /\ LET c == [ctx EXCEPT !.now = time]
           r == Refill(c)
       IN  \/ up' = time /\ ctx' = [r EXCEPT !.cwin = IF @ >= len THEN @ - len ELSE 0]
           \/ ctx' = c /\ UNCHANGED up             \* too large, or sendto failed: TCP
    /\ pc' = "idle"
    /\ UNCHANGED <<time, queue, locked, net, peerHeard, path>>

\* rudp_recv, called by drain_rudp_into_recv_queue until the queue is empty; a frame
\* larger than the buffer returns with the lock held.
Recv ==
    /\ pc = "recv" /\ ~locked
    /\ IF queue = <<>> THEN pc' = "idle" /\ UNCHANGED <<queue, locked>>
       ELSE IF Head(queue) > RecvBuffer THEN pc' = "idle" /\ locked' = TRUE /\ UNCHANGED queue
       ELSE \/ queue' = Tail(queue) /\ UNCHANGED <<pc, locked>>
            \/ pc' = "idle" /\ UNCHANGED <<queue, locked>>     \* the caller's queue is full
    /\ UNCHANGED <<time, ctx, net, up, peerHeard, path>>

-----------------------------------------------------------------------------
(* The environment.                                                         *)

Tick == /\ pc = "idle" /\ time < MaxTime /\ time' = time + 1
        /\ UNCHANGED <<ctx, queue, locked, pc, net, up, peerHeard, path>>
PeerHears == /\ pc = "idle" /\ peerHeard # up /\ peerHeard' = up
             /\ UNCHANGED <<time, ctx, queue, locked, pc, net, up, path>>
PeerSends == /\ pc = "idle" /\ ctx.overflows < MaxOverflows
             /\ \E len \in Sizes \cup {0}, kept \in SUBSET net :
                  /\ Cardinality(kept) < MaxNet
                  /\ net' = kept \cup {[tick |-> time, echo |-> peerHeard, len |-> len]}
             /\ UNCHANGED <<time, ctx, queue, locked, pc, up, peerHeard, path>>

Next == \/ \E caller \in {"send_poll", "recv_poll"} : Poll(caller)
        \/ \E p \in net : ProcessInner(p)
        \/ PollEnd \/ IsSendReady \/ Recv
        \/ \E len \in Sizes : Send(len)
        \/ Tick \/ PeerHears \/ PeerSends

Spec == Init /\ [][Next]_vars

-----------------------------------------------------------------------------
Context == [now : Nat, lastRecv : Nat, firstStable : Nat, recvMyTick : Nat, recvYourTick : Nat,
            peerTickSeen : Nat, nextKeepalive : Nat, lastLoss : Nat,
            overflows : Nat, suspended : BOOLEAN, resume : Nat, suspensions : Nat,
            cwin : Nat, cwinInited : BOOLEAN, lastRefill : Nat]
Datagram == [tick : Nat, echo : Nat, len : Nat]

TypeOK ==
    /\ time \in Nat \ {0} /\ ctx \in Context /\ queue \in Seq(Nat) /\ locked \in BOOLEAN
    /\ pc \in {"idle", "send_poll", "recv_poll", "ready", "send", "recv"}
    /\ net \subseteq Datagram /\ up \in Nat /\ peerHeard \in Nat
    /\ path \in [last : Nat, since : Nat]

\* A frame goes over UDP only on a path proven in both directions: datagrams have
\* been read without a silence longer than RUDP_KA_TIMEOUT for at least
\* RUDP_REQUIRE_CONTINUOUS (rudp_is_send_ready), and the peer has itself heard from
\* the client within the window that rudp_process_inner demands of an echo.
UdpPathIsProven ==
    pc = "send" =>
        /\ path.last # 0 /\ ctx.now <= path.last + KaTimeout
        /\ path.since + Continuous <= ctx.now
        /\ ctx.now <= peerHeard + Window + KaTimeout

\* The longest suspension.
MaxSuspension == SuspendMs * 2^MaxShift

\* A suspension of UDP data is never longer than the capped back-off, and while it
\* lasts no frame is sent over UDP.
SuspensionBounded ==
    ctx.suspended => /\ ctx.resume <= ctx.now + MaxSuspension
                     /\ pc # "send"

\* rudp_recv's return without unlocking is never taken: what rudp_process_inner
\* queues always fits the buffer drain_rudp_into_recv_queue passes.
LockReleased == ~locked

\* The bucket, an unsigned number that refills, halves and pays for frames, neither
\* wraps below zero nor exceeds its ceiling; the receive queue never exceeds its size.
WithinBounds == ctx.cwin \in 0..CwinMax /\ Len(queue) <= QueueSize

=============================================================================
