-------------------------- MODULE UdpAccelProofs --------------------------
(***************************************************************************)
(* Proofs about UdpAccel, for every value of its constants.                *)
(***************************************************************************)
EXTENDS UdpAccel, TLAPS

\* What the clocks say between calls.  firstStable is the start of the current run of
\* fresh datagrams, or 0 once a silence has been noticed; the latest fresh datagram
\* proved that the peer had heard a tick at most Window old; no echo is newer than
\* what the peer has heard.
ClockInv ==
    /\ ctx.now <= time /\ up <= time /\ peerHeard <= up
    /\ ctx.lastRecv <= ctx.now /\ ctx.lastRecv = path.last
    /\ ctx.firstStable # 0 => ctx.firstStable = path.since /\ ctx.lastRecv # 0
    /\ ctx.firstStable = 0 => ctx.lastRecv = 0 \/ TimedOut(ctx)
    /\ ctx.lastRecv <= ctx.recvMyTick + Window
    /\ ctx.recvMyTick <= peerHeard
    /\ \A p \in net : p.echo <= peerHeard
    /\ pc \in {"send_poll", "recv_poll"} =>
         /\ ctx.now = time
         /\ ctx.lastRecv # 0 /\ TimedOut(ctx) => ctx.firstStable = 0

\* What rudp_is_send_ready has established when it answers 1.
ReadyInv ==
    pc = "send" => /\ ctx.lastRecv # 0 /\ ~TimedOut(ctx) /\ ~ctx.suspended
                   /\ ctx.firstStable + Continuous <= ctx.now

QueueInv ==
    /\ Len(queue) <= QueueSize
    /\ \A i \in 1..Len(queue) : queue[i] <= MaxPayload

BoundInv ==
    /\ ctx.cwin <= CwinMax
    /\ ctx.suspended => ctx.resume <= ctx.now + MaxSuspension

IInv == TypeOK /\ ClockInv /\ ReadyInv /\ QueueInv /\ BoundInv /\ ~locked

-----------------------------------------------------------------------------
(* What the helpers do to a context.                                        *)

\* d has the same clocks as c.
SameClocks(c, d) ==
    /\ d.now = c.now /\ d.lastRecv = c.lastRecv /\ d.firstStable = c.firstStable
    /\ d.recvMyTick = c.recvMyTick

\* d has the same suspension as c.
SameSuspension(c, d) == d.suspended = c.suspended /\ d.resume = c.resume

\* The types of the fields the proofs are about.
LEMMA ContextFields ==
    ASSUME NEW c \in Context
    PROVE  /\ c.now \in Nat /\ c.lastRecv \in Nat /\ c.firstStable \in Nat /\ c.recvMyTick \in Nat
           /\ c.cwin \in Nat /\ c.resume \in Nat /\ c.suspended \in BOOLEAN
  BY DEF Context

\* Additive growth is a natural number of bytes (rudp_cwin_refill).
LEMMA GrowthType ==
    ASSUME NEW n \in Nat PROVE (GrowBps * n) \div Second \in Nat
<1>1. GrowBps * n \in Nat BY AccelAssumption
<1>2. ASSUME NEW a \in Nat, NEW b \in Nat \ {0} PROVE a \div b \in Nat OBVIOUS
<1> QED BY <1>1, <1>2, AccelAssumption

\* rudp_cwin_refill keeps the bucket below its ceiling and touches nothing else.
LEMMA RefillKeeps ==
    ASSUME NEW c \in Context, c.cwin <= CwinMax
    PROVE  /\ Refill(c) \in Context /\ Refill(c).cwin <= CwinMax
           /\ SameClocks(c, Refill(c)) /\ SameSuspension(c, Refill(c))
<1>1. CASE ~c.cwinInited
  BY <1>1, AccelAssumption DEF Refill, Context, SameClocks, SameSuspension
<1>2. CASE c.cwinInited /\ c.now <= c.lastRefill
  BY <1>2 DEF Refill, Context, SameClocks, SameSuspension
<1>3. CASE c.cwinInited /\ ~(c.now <= c.lastRefill)
  <2> DEFINE grow == (GrowBps * (c.now - c.lastRefill)) \div Second
  <2>1. c.now - c.lastRefill \in Nat BY <1>3 DEF Context
  <2>2. grow \in Nat BY <2>1, GrowthType
  <2>3. Refill(c) = [c EXCEPT !.lastRefill = c.now, !.cwin = Smaller(CwinMax, c.cwin + grow)]
    BY <1>3 DEF Refill
  <2> HIDE DEF grow
  <2>4. Smaller(CwinMax, c.cwin + grow) \in Nat /\ Smaller(CwinMax, c.cwin + grow) <= CwinMax
    BY <2>2, AccelAssumption DEF Smaller, Context
  <2> QED BY <2>3, <2>4 DEF Context, SameClocks, SameSuspension
<1> QED BY <1>1, <1>2, <1>3 DEF Context

\* rudp_cwin_on_loss keeps the bucket below its ceiling and the clocks as they are.
LEMMA OnLossKeeps ==
    ASSUME NEW c \in Context, c.cwin <= CwinMax
    PROVE  /\ OnLoss(c) \in Context /\ OnLoss(c).cwin <= CwinMax
           /\ SameClocks(c, OnLoss(c)) /\ SameSuspension(c, OnLoss(c))
<1>1. Larger(CwinMin, c.cwin \div 2) \in Nat /\ Larger(CwinMin, c.cwin \div 2) <= CwinMax
  BY AccelAssumption DEF Larger, Context
<1> QED BY <1>1 DEF OnLoss, Context, SameClocks, SameSuspension

-----------------------------------------------------------------------------
(* The invariant is inductive.                                              *)

\* The longest suspension, and that no back-off exceeds it.
LEMMA BackoffType ==
    /\ MaxSuspension \in Nat
    /\ \A n \in 0..MaxShift : SuspendMs * 2^n \in Nat /\ SuspendMs * 2^n <= MaxSuspension
<1>1. ASSUME NEW a \in Nat, NEW x \in Nat, NEW y \in Nat, x <= y
      PROVE  a * x \in Nat /\ a * y \in Nat /\ a * x <= a * y
  BY <1>1
<1>2. MaxShift \in 0..MaxShift /\ SuspendMs \in Nat BY AccelAssumption
<1> QED BY <1>1, <1>2, ShiftAssumption DEF MaxSuspension

\* The state rudp_create leaves satisfies the inductive invariant.
LEMMA InitIInv == Init => IInv
<1> SUFFICES ASSUME Init PROVE IInv OBVIOUS
<1> USE DEF Init
<1>1. TypeOK
  <2>1. ctx \in Context BY DEF Context
  <2>2. queue \in Seq(Nat) /\ net \subseteq Datagram OBVIOUS
  <2>3. path \in [last : Nat, since : Nat] OBVIOUS
  <2>4. time \in Nat \ {0} /\ up \in Nat /\ peerHeard \in Nat OBVIOUS
  <2>5. pc = "idle" /\ locked = FALSE OBVIOUS
  <2> HIDE DEF Init
  <2> QED BY <2>1, <2>2, <2>3, <2>4, <2>5 DEF TypeOK
<1>2. ClockInv BY AccelAssumption DEF ClockInv, TimedOut
<1>3. ReadyInv /\ QueueInv BY AccelAssumption DEF ReadyInv, QueueInv
<1>4. BoundInv
  <2>1. ctx.suspended = FALSE /\ ctx.cwin = 0 OBVIOUS
  <2> QED BY <2>1, AccelAssumption DEF BoundInv
<1> QED BY <1>1, <1>2, <1>3, <1>4 DEF IInv

\* The start of rudp_poll preserves the inductive invariant: it only advances the clock,
\* and it forgets the path when the silence is longer than RUDP_KA_TIMEOUT.
LEMMA PollPreserves ==
    ASSUME IInv, NEW caller \in {"send_poll", "recv_poll"}, Poll(caller) PROVE IInv'
<1> DEFINE c == [ctx EXCEPT !.now = time]
           silent == ctx.lastRecv # 0 /\ ctx.lastRecv + KaTimeout < time
           t == IF silent THEN [c EXCEPT !.firstStable = 0, !.lastLoss = time] ELSE c
<1>0. TypeOK /\ ClockInv /\ QueueInv /\ BoundInv /\ ~locked BY DEF IInv
<1>1. /\ pc = "idle" /\ pc' = caller
      /\ time' = time /\ queue' = queue /\ locked' = locked /\ net' = net
      /\ peerHeard' = peerHeard /\ path' = path
  BY DEF Poll
<1>2. /\ t \in Context /\ t.now = time /\ t.lastRecv = ctx.lastRecv
      /\ t.firstStable = IF silent THEN 0 ELSE ctx.firstStable
      /\ t.recvMyTick = ctx.recvMyTick /\ t.cwin = ctx.cwin
      /\ t.suspended = ctx.suspended /\ t.resume = ctx.resume
  BY <1>0 DEF TypeOK, Context
<1>3. \/ \E k \in KaIntervals : ctx' = [t EXCEPT !.nextKeepalive = time + k] /\ up' = time
      \/ ctx' = t /\ up' = up
  BY <1>0 DEF Poll, TimedOut, TypeOK, Context
<1> HIDE DEF t
<1>4. /\ ctx' \in Context /\ ctx'.now = time /\ ctx'.lastRecv = ctx.lastRecv
      /\ ctx'.firstStable = IF silent THEN 0 ELSE ctx.firstStable
      /\ ctx'.recvMyTick = ctx.recvMyTick /\ ctx'.cwin = ctx.cwin
      /\ ctx'.suspended = ctx.suspended /\ ctx'.resume = ctx.resume
      /\ (up' = up \/ up' = time)
  <2>1. ASSUME NEW k \in KaIntervals PROVE time + k \in Nat
    BY AccelAssumption, <1>0 DEF TypeOK
  <2> QED BY <2>1, <1>2, <1>3 DEF Context
<1>5. TypeOK' BY <1>0, <1>1, <1>4 DEF TypeOK
<1>a. /\ time \in Nat /\ up \in Nat /\ peerHeard \in Nat /\ KaTimeout \in Nat
      /\ ctx.now \in Nat /\ ctx.lastRecv \in Nat /\ ctx.firstStable \in Nat
  BY <1>0, ContextFields, AccelAssumption DEF TypeOK
<1>6. ClockInv' BY <1>a, <1>0, <1>1, <1>4 DEF ClockInv, TimedOut
<1>7. ReadyInv' BY <1>1 DEF ReadyInv
<1>8. QueueInv' BY <1>0, <1>1 DEF QueueInv
<1>9. BoundInv' BY BackoffType, ContextFields, <1>0, <1>a, <1>4 DEF BoundInv, TypeOK, ClockInv
<1> QED BY <1>0, <1>1, <1>5, <1>6, <1>7, <1>8, <1>9 DEF IInv

\* rudp_process_inner moves the echo and the peer's clock forward only.
LEMMA ClocksKeep ==
    ASSUME NEW c \in Context, NEW p \in Datagram, c.cwin <= CwinMax
    PROVE  /\ Clocks(c, p) \in Context /\ Clocks(c, p).cwin <= CwinMax
           /\ SameSuspension(c, Clocks(c, p))
           /\ Clocks(c, p).now = c.now /\ Clocks(c, p).lastRecv = c.lastRecv
           /\ Clocks(c, p).firstStable = c.firstStable
           /\ Clocks(c, p).recvMyTick = Larger(c.recvMyTick, p.echo)
<1> DEFINE d == [c EXCEPT !.recvMyTick = Larger(@, p.echo), !.recvYourTick = Larger(@, p.tick)]
<1>1. p.tick \in Nat /\ p.echo \in Nat BY DEF Datagram
<1>2. Larger(c.recvMyTick, p.echo) \in Nat /\ Larger(c.recvYourTick, p.tick) \in Nat
  BY <1>1 DEF Larger, Context
<1>3. /\ d \in Context /\ d.cwin = c.cwin /\ SameSuspension(c, d)
      /\ d.now = c.now /\ d.lastRecv = c.lastRecv /\ d.firstStable = c.firstStable
      /\ d.recvMyTick = Larger(c.recvMyTick, p.echo)
  BY <1>2 DEF Context, SameSuspension
<1> DEFINE e == IF c.peerTickSeen # 0 /\ p.tick > c.peerTickSeen + LossGap THEN OnLoss(d) ELSE d
<1>4. Clocks(c, p) = [e EXCEPT !.peerTickSeen = p.tick] BY DEF Clocks
<1> HIDE DEF d
<1>5. /\ e \in Context /\ e.cwin <= CwinMax /\ SameSuspension(c, e)
      /\ e.now = c.now /\ e.lastRecv = c.lastRecv /\ e.firstStable = c.firstStable
      /\ e.recvMyTick = Larger(c.recvMyTick, p.echo)
  BY <1>3, OnLossKeeps DEF SameClocks, SameSuspension
<1> HIDE DEF e
<1> QED BY <1>1, <1>4, <1>5 DEF Context, SameSuspension

\* One datagram read by rudp_process_inner preserves the inductive invariant: a fresh one
\* carries an echo within the window, and what is queued fits the queue.
LEMMA ProcessInnerPreserves ==
    ASSUME IInv, NEW p \in net, ProcessInner(p) PROVE IInv'
<1> DEFINE k == Clocks(ctx, p)
           c == Received(k)
           fits == p.len > 0 /\ p.len <= MaxPayload
           full == fits /\ Len(queue) >= QueueSize
<1>0. TypeOK /\ ClockInv /\ QueueInv /\ BoundInv /\ ~locked BY DEF IInv
<1>1. /\ pc \in {"send_poll", "recv_poll"} /\ pc' = pc /\ time' = time /\ locked' = locked
      /\ up' = up /\ peerHeard' = peerHeard /\ net' = net \ {p}
      /\ ctx' = IF full THEN OnLoss([c EXCEPT !.overflows = @ + 1]) ELSE c
      /\ queue' = IF fits /\ ~full THEN Append(queue, p.len) ELSE queue
      /\ path' = IF ~Fresh(c) THEN path
                 ELSE [last |-> time, since |-> IF path.last = 0 \/ path.last + KaTimeout < time
                                                THEN time ELSE path.since]
  BY DEF ProcessInner
<1>2. p \in Datagram /\ p.echo \in Nat /\ p.len \in Nat /\ p.echo <= peerHeard
  BY <1>0 DEF TypeOK, ClockInv, Datagram
<1>3. /\ time \in Nat \ {0} /\ up \in Nat /\ peerHeard \in Nat
      /\ KaTimeout \in Nat /\ Window \in Nat
      /\ ctx.now \in Nat /\ ctx.lastRecv \in Nat /\ ctx.firstStable \in Nat /\ ctx.recvMyTick \in Nat
      /\ path.last \in Nat /\ path.since \in Nat
  BY <1>0, ContextFields, AccelAssumption DEF TypeOK
<1>4. /\ k \in Context /\ k.cwin <= CwinMax /\ SameSuspension(ctx, k)
      /\ k.now = time /\ k.lastRecv = ctx.lastRecv /\ k.firstStable = ctx.firstStable
      /\ k.recvMyTick \in Nat /\ k.recvMyTick >= ctx.recvMyTick /\ k.recvMyTick <= peerHeard
  <2>1. Larger(ctx.recvMyTick, p.echo) \in Nat /\ Larger(ctx.recvMyTick, p.echo) >= ctx.recvMyTick
        /\ Larger(ctx.recvMyTick, p.echo) <= peerHeard
    BY <1>0, <1>2, <1>3 DEF Larger, ClockInv
  <2> QED BY <2>1, <1>0, <1>1, <1>2, ClocksKeep DEF TypeOK, BoundInv, ClockInv
<1> HIDE DEF k
<1>5. /\ c \in Context /\ c.cwin <= CwinMax /\ SameSuspension(ctx, c)
      /\ c.now = time /\ c.recvMyTick = k.recvMyTick
      /\ Fresh(c) <=> Fresh(k)
      /\ c.lastRecv = IF Fresh(k) THEN time ELSE ctx.lastRecv
      /\ c.firstStable = IF Fresh(k) /\ ctx.firstStable = 0 THEN time ELSE ctx.firstStable
  <2>1. CASE ~Fresh(k) BY <2>1, <1>4 DEF Received
  <2>2. CASE Fresh(k)
    BY <2>2, <1>3, <1>4 DEF Received, Fresh, Context, SameSuspension
  <2> QED BY <2>1, <2>2
<1> HIDE DEF c
<1>6. /\ ctx' \in Context /\ ctx'.cwin <= CwinMax /\ SameSuspension(ctx, ctx')
      /\ ctx'.now = time /\ ctx'.recvMyTick = k.recvMyTick
      /\ ctx'.lastRecv = c.lastRecv /\ ctx'.firstStable = c.firstStable
  <2> DEFINE o == [c EXCEPT !.overflows = @ + 1]
  <2>1. o \in Context /\ o.cwin <= CwinMax /\ SameClocks(c, o) /\ SameSuspension(c, o)
    BY <1>5 DEF Context, SameClocks, SameSuspension
  <2>2. ctx' = IF full THEN OnLoss(o) ELSE c BY <1>1
  <2> HIDE DEF o
  <2> QED BY <2>1, <2>2, <1>5, OnLossKeeps DEF SameClocks, SameSuspension
<1>7. queue' \in Seq(Nat) /\ QueueInv'
  <2>1. CASE fits /\ ~full
    <3>1. queue' = Append(queue, p.len) BY <2>1, <1>1
    <3>2. queue \in Seq(Nat) /\ Len(queue) \in Nat /\ QueueSize \in Nat BY <1>0, AccelAssumption DEF TypeOK
    <3>3. Len(queue) < QueueSize /\ p.len <= MaxPayload BY <2>1, <3>2
    <3> QED BY <3>1, <3>2, <3>3, <1>0, <1>2 DEF QueueInv
  <2>2. CASE ~(fits /\ ~full) BY <2>2, <1>0, <1>1 DEF TypeOK, QueueInv
  <2> QED BY <2>1, <2>2
<1>8. path' \in [last : Nat, since : Nat]
  BY <1>0, <1>1, <1>3 DEF TypeOK
<1>9. TypeOK' BY <1>0, <1>1, <1>6, <1>7, <1>8 DEF TypeOK
<1>10. ClockInv'
  <2>a. pc \in {"send_poll", "recv_poll"} /\ pc' = pc /\ time' = time /\ up' = up /\ peerHeard' = peerHeard
    BY <1>1
  <2>0. \A q \in net' : q.echo <= peerHeard' BY <1>0, <1>1 DEF ClockInv
  <2>1. Fresh(k) => time <= k.recvMyTick + Window BY <1>3, <1>4 DEF Fresh
  <2>2. CASE Fresh(k)
    <3>1. path'.last = time /\ path'.since = IF path.last = 0 \/ path.last + KaTimeout < time
                                             THEN time ELSE path.since
      BY <2>2, <1>1, <1>5
    <3>2. ctx'.lastRecv = time /\ ctx'.firstStable = IF ctx.firstStable = 0 THEN time ELSE ctx.firstStable
      BY <2>2, <1>5, <1>6
    <3>3. ctx.firstStable = 0 <=> path.last = 0 \/ path.last + KaTimeout < time
      BY <1>0, <1>1, <1>3 DEF ClockInv, TimedOut
    <3>4. ctx.firstStable # 0 => ctx.firstStable = path.since BY <1>0 DEF ClockInv
    <3>5. ctx'.firstStable = path'.since /\ ctx'.firstStable # 0 BY <3>1, <3>2, <3>3, <3>4, <1>3
    <3>6. up <= time /\ peerHeard <= up BY <1>0 DEF ClockInv
    <3>7. ~(ctx'.lastRecv + KaTimeout < ctx'.now) BY <3>2, <1>3, <1>6
    <3> HIDE DEF fits, full
    <3> QED BY <2>a, <2>0, <2>1, <2>2, <3>1, <3>2, <3>5, <3>6, <3>7, <1>3, <1>4, <1>6 DEF ClockInv, TimedOut
  <2>3. CASE ~Fresh(k)
    <3>1. path' = path /\ ctx'.lastRecv = ctx.lastRecv /\ ctx'.firstStable = ctx.firstStable
      BY <2>3, <1>1, <1>5, <1>6
    <3> HIDE DEF fits, full
    <3> QED BY <2>a, <2>0, <3>1, <1>0, <1>3, <1>4, <1>6 DEF ClockInv, TimedOut
  <2> QED BY <2>2, <2>3
<1>11. ReadyInv' BY <1>1 DEF ReadyInv
<1>12. BoundInv' BY BackoffType, <1>0, <1>1, <1>3, <1>6 DEF BoundInv, SameSuspension, ClockInv
<1> QED BY <1>0, <1>1, <1>7, <1>9, <1>10, <1>11, <1>12 DEF IInv

\* The three adjustments rudp_is_send_ready makes to the suspension leave the clocks
\* alone, and a context it leaves suspended resumes within the longest back-off.
LEMMA SuspensionSteps ==
    ASSUME NEW c \in Context, c.cwin <= CwinMax, c.suspended => c.resume <= c.now + MaxSuspension,
           NEW d, d = Suspend(Reprobe(CleanReset(c)))
    PROVE  /\ d \in Context /\ d.cwin <= CwinMax /\ SameClocks(c, d)
           /\ d.suspended => d.resume <= d.now + MaxSuspension
<1> DEFINE e == CleanReset(c)
           f == Reprobe(e)
<1>1. /\ e \in Context /\ e.cwin = c.cwin /\ SameClocks(c, e)
      /\ e.suspended = c.suspended /\ e.resume = c.resume
  BY DEF CleanReset, Context, SameClocks
<1> HIDE DEF e
<1>2. /\ f \in Context /\ f.cwin = c.cwin /\ SameClocks(c, f)
      /\ (f = e \/ f.suspended = FALSE)
  <2>1. CASE e.suspended /\ e.now >= e.resume
    BY <1>1, <2>1 DEF Reprobe, Context, SameClocks
  <2>2. CASE ~(e.suspended /\ e.now >= e.resume)
    BY <1>1, <2>2 DEF Reprobe
  <2> QED BY <2>1, <2>2
<1>3. f.suspended => f.resume <= f.now + MaxSuspension
  BY <1>1, <1>2 DEF SameClocks
<1> HIDE DEF f
<1>4. CASE ~(~f.suspended /\ f.overflows >= Threshold)
  <2>1. d = f BY <1>4 DEF Suspend, e, f
  <2> QED BY <2>1, <1>2, <1>3
<1>5. CASE ~f.suspended /\ f.overflows >= Threshold
  <2> DEFINE n == Smaller(f.suspensions, MaxShift)
             m == SuspendMs * 2^n
  <2>1. d = [f EXCEPT !.suspended = TRUE, !.suspensions = @ + 1, !.resume = f.now + m]
    BY <1>5 DEF Suspend, e, f
  <2>2. n \in 0..MaxShift BY <1>2, AccelAssumption DEF Smaller, Context
  <2>3. m \in Nat /\ m <= MaxSuspension /\ MaxSuspension \in Nat BY <2>2, BackoffType
  <2> HIDE DEF n, m
  <2>4. f.now + m \in Nat /\ f.now \in Nat BY <2>3, <1>2 DEF Context
  <2>5. d \in Context /\ d.cwin = f.cwin /\ SameClocks(f, d) /\ d.resume = f.now + m
    <3> DEFINE w == f.now + m
               k == f.suspensions + 1
    <3>1. w \in Nat /\ k \in Nat BY <2>4, <1>2 DEF Context
    <3>2. d = [f EXCEPT !.suspended = TRUE, !.suspensions = k, !.resume = w] BY <2>1
    <3> HIDE DEF w, k
    <3>3. d \in Context /\ d.cwin = f.cwin /\ SameClocks(f, d) /\ d.resume = w
      BY <3>1, <3>2, <1>2 DEF Context, SameClocks
    <3> QED BY <3>3 DEF w
  <2> QED BY <2>3, <2>4, <2>5, <1>2 DEF SameClocks
<1> QED BY <1>4, <1>5

\* rudp_is_send_ready preserves the inductive invariant, and its "yes" establishes the
\* facts ReadyInv records.
LEMMA IsSendReadyPreserves == ASSUME IInv, IsSendReady PROVE IInv'
<1> DEFINE r == Refill(ctx)
           c == Suspend(Reprobe(CleanReset(r)))
           silent == ~c.suspended /\ (c.lastRecv = 0 \/ TimedOut(c))
<1>0. TypeOK /\ ClockInv /\ QueueInv /\ BoundInv /\ ~locked BY DEF IInv
<1>1. /\ pc = "ready" /\ time' = time /\ queue' = queue /\ locked' = locked /\ net' = net
      /\ up' = up /\ peerHeard' = peerHeard /\ path' = path
      /\ ctx' = IF silent THEN [c EXCEPT !.firstStable = 0] ELSE c
      /\ pc' = IF ~c.suspended /\ ~silent /\ c.firstStable + Continuous <= c.now /\ c.cwin # 0
               THEN "send" ELSE "idle"
  BY DEF IsSendReady
<1>2. r \in Context /\ r.cwin <= CwinMax /\ SameClocks(ctx, r) /\ SameSuspension(ctx, r)
  BY <1>0, RefillKeeps DEF TypeOK, BoundInv
<1> HIDE DEF r
<1>3. r.suspended => r.resume <= r.now + MaxSuspension
  BY <1>0, <1>2 DEF SameClocks, SameSuspension, BoundInv
<1>4. /\ c \in Context /\ c.cwin <= CwinMax /\ SameClocks(r, c)
      /\ c.suspended => c.resume <= c.now + MaxSuspension
  BY <1>2, <1>3, SuspensionSteps
<1> HIDE DEF c
<1>5. /\ time \in Nat /\ KaTimeout \in Nat /\ Continuous \in Nat
      /\ ctx.now \in Nat /\ ctx.lastRecv \in Nat /\ ctx.firstStable \in Nat /\ ctx.recvMyTick \in Nat
  BY <1>0, ContextFields, AccelAssumption DEF TypeOK
<1>6. /\ c.now = ctx.now /\ c.lastRecv = ctx.lastRecv /\ c.firstStable = ctx.firstStable
      /\ c.recvMyTick = ctx.recvMyTick
  BY <1>2, <1>4 DEF SameClocks
<1>7. /\ ctx' \in Context /\ ctx'.cwin <= CwinMax /\ ctx'.now = ctx.now
      /\ ctx'.lastRecv = ctx.lastRecv /\ ctx'.recvMyTick = ctx.recvMyTick
      /\ ctx'.firstStable = IF silent THEN 0 ELSE ctx.firstStable
      /\ ctx'.suspended = c.suspended /\ ctx'.resume = c.resume
  <2>1. CASE silent BY <2>1, <1>1, <1>4, <1>6 DEF Context
  <2>2. CASE ~silent BY <2>2, <1>1, <1>4, <1>6
  <2> QED BY <2>1, <2>2
<1>8. silent => ctx.lastRecv = 0 \/ ctx.lastRecv + KaTimeout < ctx.now BY <1>6 DEF TimedOut
<1>9. pc' = "send" => /\ ~c.suspended /\ ~silent /\ ctx.firstStable + Continuous <= ctx.now
                      /\ ctx.lastRecv # 0 /\ ~(ctx.lastRecv + KaTimeout < ctx.now)
  BY <1>1, <1>6 DEF TimedOut
<1>p. pc' \in {"send", "idle"} BY <1>1
<1> HIDE DEF silent
<1>10. TypeOK' BY <1>0, <1>1, <1>p, <1>7 DEF TypeOK
<1>11. ClockInv' BY <1>0, <1>1, <1>p, <1>5, <1>7, <1>8 DEF ClockInv, TimedOut
<1>12. ReadyInv' BY <1>7, <1>9 DEF ReadyInv, TimedOut
<1>13. QueueInv' /\ ~locked' BY <1>0, <1>1 DEF QueueInv
<1>14. BoundInv' BY <1>4, <1>6, <1>7 DEF BoundInv
<1> QED BY <1>10, <1>11, <1>12, <1>13, <1>14 DEF IInv

\* rudp_send preserves the inductive invariant: the bucket never goes below zero.
LEMMA SendPreserves == ASSUME IInv, NEW len \in Sizes, Send(len) PROVE IInv'
<1> DEFINE c == [ctx EXCEPT !.now = time]
           r == Refill(c)
<1>0. TypeOK /\ ClockInv /\ QueueInv /\ BoundInv /\ ~locked BY DEF IInv
<1>1. /\ pc' = "idle" /\ time' = time /\ queue' = queue /\ locked' = locked /\ net' = net
      /\ peerHeard' = peerHeard /\ path' = path
      /\ \/ up' = time /\ ctx' = [r EXCEPT !.cwin = IF r.cwin >= len THEN r.cwin - len ELSE 0]
         \/ up' = up /\ ctx' = c
  BY DEF Send
<1>2. /\ time \in Nat /\ len \in Nat /\ up \in Nat /\ peerHeard \in Nat
      /\ ctx.now \in Nat /\ ctx.lastRecv \in Nat /\ ctx.resume \in Nat
      /\ KaTimeout \in Nat /\ CwinMax \in Nat /\ MaxSuspension \in Nat
  BY <1>0, ContextFields, AccelAssumption, BackoffType DEF TypeOK
<1>3. /\ c \in Context /\ c.cwin <= CwinMax /\ SameSuspension(ctx, c)
      /\ c.now = time /\ c.lastRecv = ctx.lastRecv /\ c.firstStable = ctx.firstStable
      /\ c.recvMyTick = ctx.recvMyTick
  BY <1>0 DEF TypeOK, BoundInv, Context, SameSuspension
<1> HIDE DEF c
<1>4. /\ r \in Context /\ r.cwin <= CwinMax /\ SameClocks(c, r) /\ SameSuspension(c, r)
  BY <1>3, RefillKeeps
<1> HIDE DEF r
<1>5. /\ ctx' \in Context /\ ctx'.cwin <= CwinMax /\ SameSuspension(ctx, ctx')
      /\ ctx'.now = time /\ ctx'.lastRecv = ctx.lastRecv /\ ctx'.firstStable = ctx.firstStable
      /\ ctx'.recvMyTick = ctx.recvMyTick
      /\ (up' = time \/ up' = up)
  <2> DEFINE rest == IF r.cwin >= len THEN r.cwin - len ELSE 0
  <2>1. rest \in Nat /\ rest <= CwinMax BY <1>2, <1>4, ContextFields
  <2>2. CASE up' = up /\ ctx' = c BY <2>2, <1>3
  <2>3. CASE up' = time /\ ctx' = [r EXCEPT !.cwin = rest]
    <3> HIDE DEF rest
    <3> QED BY <2>1, <2>3, <1>3, <1>4 DEF Context, SameClocks, SameSuspension
  <2> QED BY <2>2, <2>3, <1>1
<1>6. TypeOK' BY <1>0, <1>1, <1>2, <1>5 DEF TypeOK
<1>7. ClockInv' BY <1>0, <1>1, <1>2, <1>5 DEF ClockInv, TimedOut
<1>8. ReadyInv' /\ QueueInv' /\ ~locked' BY <1>0, <1>1 DEF ReadyInv, QueueInv
<1>9. BoundInv' BY <1>0, <1>2, <1>5 DEF BoundInv, SameSuspension, ClockInv
<1> QED BY <1>6, <1>7, <1>8, <1>9 DEF IInv

\* rudp_recv preserves the inductive invariant: a queued frame fits the buffer, so the
\* return that keeps the lock is not taken.
LEMMA RecvPreserves == ASSUME IInv, Recv PROVE IInv'
<1>0. TypeOK /\ ClockInv /\ QueueInv /\ BoundInv /\ ~locked BY DEF IInv
<1>1. /\ pc = "recv" /\ time' = time /\ ctx' = ctx /\ net' = net /\ up' = up
      /\ peerHeard' = peerHeard /\ path' = path
  BY DEF Recv
<1>2. ~locked' /\ locked' \in BOOLEAN /\ pc' \in {"idle", "recv"}
      /\ (queue' = queue \/ (queue # <<>> /\ queue' = Tail(queue)))
  <2>1. queue # <<>> => Head(queue) <= RecvBuffer
    <3>1. ASSUME queue # <<>> PROVE Head(queue) = queue[1] /\ 1 \in 1..Len(queue)
      BY <1>0, <3>1 DEF TypeOK
    <3>2. queue # <<>> => Head(queue) \in Nat BY <1>0 DEF TypeOK
    <3> QED BY <1>0, <3>1, <3>2, AccelAssumption DEF QueueInv
  <2>2. queue # <<>> => ~(Head(queue) > RecvBuffer)
    BY <2>1, <1>0, AccelAssumption DEF TypeOK
  <2> QED BY <2>2, <1>0, <1>1 DEF Recv, TypeOK
<1>3. queue' \in Seq(Nat) /\ QueueInv'
  <2>1. CASE queue' = queue BY <2>1, <1>0 DEF TypeOK, QueueInv
  <2>2. CASE queue # <<>> /\ queue' = Tail(queue)
    <3>1. /\ Tail(queue) \in Seq(Nat) /\ Len(Tail(queue)) = Len(queue) - 1 /\ Len(queue) \in Nat
          /\ \A i \in 1..Len(Tail(queue)) : Tail(queue)[i] = queue[i + 1]
      BY <2>2, <1>0 DEF TypeOK
    <3>2. \A i \in 1..Len(Tail(queue)) : i + 1 \in 1..Len(queue) BY <3>1
    <3> QED BY <2>2, <3>1, <3>2, <1>0, AccelAssumption DEF QueueInv
  <2> QED BY <2>1, <2>2, <1>2
<1>4. TypeOK' BY <1>0, <1>1, <1>2, <1>3 DEF TypeOK
<1>5. ClockInv' BY <1>0, <1>1, <1>2 DEF ClockInv, TimedOut
<1>6. ReadyInv' /\ BoundInv' BY <1>0, <1>1, <1>2 DEF ReadyInv, BoundInv
<1> QED BY <1>2, <1>3, <1>4, <1>5, <1>6 DEF IInv

\* The steps that leave the context and the queue alone.
LEMMA EnvironmentPreserves ==
    ASSUME IInv, PollEnd \/ Tick \/ PeerHears \/ PeerSends PROVE IInv'
<1>0. TypeOK /\ ClockInv /\ ReadyInv /\ QueueInv /\ BoundInv /\ ~locked BY DEF IInv
<1>1. /\ time \in Nat /\ up \in Nat /\ peerHeard \in Nat /\ ctx.now \in Nat /\ ctx.lastRecv \in Nat
      /\ ctx.recvMyTick \in Nat /\ \A p \in net : p.echo \in Nat
  BY <1>0, ContextFields DEF TypeOK, Datagram
<1>2. CASE PollEnd
  <2>1. /\ ctx' = ctx /\ queue' = queue /\ locked' = locked /\ net' = net /\ up' = up /\ time' = time
        /\ peerHeard' = peerHeard /\ path' = path /\ pc' \in {"ready", "recv"}
    BY <1>2 DEF PollEnd
  <2> QED BY <2>1, <1>0 DEF IInv, TypeOK, ClockInv, ReadyInv, QueueInv, BoundInv, TimedOut
<1>3. CASE Tick
  <2>1. /\ ctx' = ctx /\ queue' = queue /\ locked' = locked /\ net' = net /\ up' = up
        /\ peerHeard' = peerHeard /\ path' = path /\ pc' = pc /\ pc = "idle" /\ time' = time + 1
    BY <1>3 DEF Tick
  <2>2. ClockInv' BY <2>1, <1>0, <1>1 DEF ClockInv, TimedOut
  <2> QED BY <2>1, <2>2, <1>0, <1>1 DEF IInv, TypeOK, ReadyInv, QueueInv, BoundInv
<1>4. CASE PeerHears
  <2>1. /\ ctx' = ctx /\ queue' = queue /\ locked' = locked /\ net' = net /\ up' = up /\ time' = time
        /\ peerHeard' = up /\ path' = path /\ pc' = pc /\ pc = "idle"
    BY <1>4 DEF PeerHears
  <2>2. \A p \in net : p.echo <= up BY <1>0, <1>1 DEF ClockInv
  <2>3. ClockInv' BY <2>1, <2>2, <1>0, <1>1 DEF ClockInv, TimedOut
  <2> QED BY <2>1, <2>3, <1>0, <1>1 DEF IInv, TypeOK, ReadyInv, QueueInv, BoundInv
<1>5. CASE PeerSends
  <2>1. /\ ctx' = ctx /\ queue' = queue /\ locked' = locked /\ up' = up /\ time' = time
        /\ peerHeard' = peerHeard /\ path' = path /\ pc' = pc /\ pc = "idle"
    BY <1>5 DEF PeerSends
  <2>2. PICK len \in Sizes \cup {0}, kept \in SUBSET net :
           net' = kept \cup {[tick |-> time, echo |-> peerHeard, len |-> len]}
    BY <1>5 DEF PeerSends
  <2>3. len \in Nat BY AccelAssumption
  <2>4. net' \subseteq Datagram BY <2>2, <2>3, <1>0, <1>1 DEF TypeOK, Datagram
  <2>5. \A p \in net' : p.echo <= peerHeard BY <2>2, <1>0, <1>1 DEF ClockInv
  <2>6. TypeOK' BY <2>1, <2>4, <1>0 DEF TypeOK
  <2>7. ClockInv' BY <2>1, <2>5, <1>0 DEF ClockInv, TimedOut
  <2> QED BY <2>1, <2>6, <2>7, <1>0 DEF IInv, ReadyInv, QueueInv, BoundInv
<1> QED BY <1>2, <1>3, <1>4, <1>5

\* Every step preserves the inductive invariant.
LEMMA NextIInv == IInv /\ [Next]_vars => IInv'
<1> SUFFICES ASSUME IInv, [Next]_vars PROVE IInv' OBVIOUS
<1>1. ASSUME NEW caller \in {"send_poll", "recv_poll"}, Poll(caller) PROVE IInv'
  BY <1>1, PollPreserves
<1>2. ASSUME NEW p \in net, ProcessInner(p) PROVE IInv' BY <1>2, ProcessInnerPreserves
<1>3. CASE IsSendReady BY <1>3, IsSendReadyPreserves
<1>4. CASE Recv BY <1>4, RecvPreserves
<1>5. ASSUME NEW len \in Sizes, Send(len) PROVE IInv' BY <1>5, SendPreserves
<1>6. CASE PollEnd \/ Tick \/ PeerHears \/ PeerSends BY <1>6, EnvironmentPreserves
<1>7. CASE UNCHANGED vars
  BY <1>7 DEF vars, IInv, TypeOK, ClockInv, ReadyInv, QueueInv, BoundInv, TimedOut
<1> QED BY <1>1, <1>2, <1>3, <1>4, <1>5, <1>6, <1>7 DEF Next

\* For every clock, every length of the time-outs and every pattern of loss and
\* reordering: a frame goes over UDP only on a path proven in both directions
\* (rudp_is_send_ready), a suspension is bounded, and rudp_recv never returns with
\* the lock held.
THEOREM AccelSafety ==
    Spec => [](TypeOK /\ UdpPathIsProven /\ SuspensionBounded /\ LockReleased /\ WithinBounds)
<1>1. IInv => TypeOK /\ UdpPathIsProven /\ SuspensionBounded /\ LockReleased /\ WithinBounds
  <2> SUFFICES ASSUME IInv PROVE UdpPathIsProven /\ SuspensionBounded /\ WithinBounds
    BY DEF IInv, LockReleased
  <2>0. TypeOK /\ ClockInv /\ ReadyInv /\ QueueInv /\ BoundInv BY DEF IInv
  <2>1. /\ ctx.now \in Nat /\ ctx.lastRecv \in Nat /\ ctx.firstStable \in Nat
        /\ ctx.recvMyTick \in Nat /\ peerHeard \in Nat /\ path.since \in Nat
        /\ KaTimeout \in Nat /\ Window \in Nat /\ Continuous \in Nat
    BY <2>0, ContextFields, AccelAssumption DEF TypeOK
  <2>2. UdpPathIsProven
    BY <2>0, <2>1 DEF UdpPathIsProven, ClockInv, ReadyInv, TimedOut
  <2>3. SuspensionBounded /\ WithinBounds
    BY <2>0, ContextFields, AccelAssumption DEF SuspensionBounded, WithinBounds, TypeOK, BoundInv, ReadyInv, QueueInv
  <2> QED BY <2>2, <2>3
<1> QED BY <1>1, InitIInv, NextIInv, PTL DEF Spec

=============================================================================
