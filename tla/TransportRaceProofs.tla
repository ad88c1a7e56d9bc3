------------------------- MODULE TransportRaceProofs -------------------------
(***************************************************************************)
(* Proofs about TransportRace for every set of transports: what a losing   *)
(* thread leaves behind, and that a handshake stops its own session.       *)
(***************************************************************************)
EXTENDS TransportRace, TLAPS

(* Every step of a transport thread or of its worker (transport_thread_*,
   rudp_transport_connect, ssl_connect, rt_worker) keeps the types and the
   invariant of every thread. *)
LEMMA TransportStepKeepsInv ==
  ASSUME RaceInv, NEW t \in Transports, ThreadStep(t) \/ WorkerStep(t)
  PROVE  RaceInv'
<1> USE RaceAssumption
<1>1. CASE Delay(t)
  <2>1. TypeOK'
    BY <1>1 DEF RaceInv, TypeOK, Phases, Delay, Goto, threadVars, workerVars
  <2>2. ASSUME NEW u \in Transports PROVE ThreadInv(u)'
    BY <1>1 DEF RaceInv, TypeOK, ThreadInv, Delay, Goto, threadVars, workerVars
  <2>3. QED BY <2>1, <2>2 DEF RaceInv
<1>2. CASE Relay(t)
  <2>1. TypeOK'
    BY <1>2 DEF RaceInv, TypeOK, Phases, Relay, Goto, threadVars, workerVars
  <2>2. ASSUME NEW u \in Transports PROVE ThreadInv(u)'
    BY <1>2 DEF RaceInv, TypeOK, ThreadInv, Relay, Goto, threadVars, workerVars
  <2>3. QED BY <2>1, <2>2 DEF RaceInv
<1>3. CASE Rendezvous(t)
  <2>1. TypeOK'
    BY <1>3 DEF RaceInv, TypeOK, Phases, Rendezvous, Goto, threadVars, workerVars
  <2>2. ASSUME NEW u \in Transports PROVE ThreadInv(u)'
    BY <1>3 DEF RaceInv, TypeOK, ThreadInv, Rendezvous, Goto, threadVars, workerVars
  <2>3. QED BY <2>1, <2>2 DEF RaceInv
<1>4. CASE StartTransport(t)
  <2>1. TypeOK'
    BY <1>4 DEF RaceInv, TypeOK, Phases, StartTransport, Goto, threadVars, workerVars
  <2>2. ASSUME NEW u \in Transports PROVE ThreadInv(u)'
    BY <1>4 DEF RaceInv, TypeOK, ThreadInv, StartTransport, Goto, threadVars, workerVars
  <2>3. QED BY <2>1, <2>2 DEF RaceInv
<1>5. CASE ConnectReturns(t)
  <2>1. TypeOK'
    <3>1. CASE Goto(t, "ssl_new") /\ UNCHANGED halt
      BY <1>5, <3>1 DEF RaceInv, TypeOK, Phases, ConnectReturns, Goto, threadVars, workerVars
    <3>2. CASE GiveUp(t)
      BY <1>5, <3>2 DEF RaceInv, TypeOK, Phases, ConnectReturns, Goto, GiveUp, threadVars, workerVars
    <3>3. QED BY <1>5, <3>1, <3>2 DEF ConnectReturns
  <2>2. ASSUME NEW u \in Transports PROVE ThreadInv(u)'
    BY <1>5 DEF RaceInv, TypeOK, ThreadInv, ConnectReturns, Goto, GiveUp, threadVars, workerVars
  <2>3. QED BY <2>1, <2>2 DEF RaceInv
<1>6. CASE ConnectGivesUp(t)
  <2>1. TypeOK'
    BY <1>6 DEF RaceInv, TypeOK, Phases, ConnectGivesUp, Goto, GiveUp, threadVars, workerVars
  <2>2. ASSUME NEW u \in Transports PROVE ThreadInv(u)'
    BY <1>6 DEF RaceInv, TypeOK, ThreadInv, ConnectGivesUp, Goto, GiveUp, threadVars, workerVars
  <2>3. QED BY <2>1, <2>2 DEF RaceInv
<1>7. CASE SslNew(t)
  <2>1. TypeOK'
    <3>1. CASE GiveUp(t) /\ UNCHANGED holds
      BY <1>7, <3>1 DEF RaceInv, TypeOK, Phases, SslNew, Goto, GiveUp, threadVars, workerVars
    <3>2. CASE /\ holds' = [holds EXCEPT ![t] = @ \cup {"ssl"}]
               /\ \E phase \in {"tls", "ssl_destroy"} : Goto(t, phase)
               /\ UNCHANGED halt
      <4>1. thread' \in [Transports -> Phases]
        BY <3>2 DEF RaceInv, TypeOK, Phases, Goto
      <4>2. holds' \in [Transports -> SUBSET {"udp_fd", "transport", "ssl"}]
        BY <3>2 DEF RaceInv, TypeOK
      <4>3. QED BY <1>7, <3>2, <4>1, <4>2 DEF RaceInv, TypeOK, SslNew, workerVars
    <3>3. QED BY <1>7, <3>1, <3>2 DEF SslNew
  <2>2. ASSUME NEW u \in Transports PROVE ThreadInv(u)'
    BY <1>7 DEF RaceInv, TypeOK, ThreadInv, SslNew, Goto, GiveUp, threadVars, workerVars
  <2>3. QED BY <2>1, <2>2 DEF RaceInv
<1>8. CASE Handshake(t)
  <2>1. TypeOK'
    BY <1>8 DEF RaceInv, TypeOK, Phases, Handshake, Goto, threadVars, workerVars
  <2>2. ASSUME NEW u \in Transports PROVE ThreadInv(u)'
    BY <1>8 DEF RaceInv, TypeOK, ThreadInv, Handshake, Goto, threadVars, workerVars
  <2>3. QED BY <2>1, <2>2 DEF RaceInv
<1>9. CASE HandshakeReturns(t)
  <2>1. TypeOK'
    <3>1. PICK good \in {FALSE} \cup {flight[t] = "answered"} :
            /\ ok' = [ok EXCEPT ![t] = good]
            /\ Goto(t, IF good THEN "done" ELSE "ssl_destroy")
      BY <1>9 DEF HandshakeReturns
    <3>2. good \in BOOLEAN
      OBVIOUS
    <3>3. ok' \in [Transports -> BOOLEAN] /\ thread' \in [Transports -> Phases]
      BY <3>1, <3>2 DEF RaceInv, TypeOK, Phases, Goto
    <3>4. QED BY <1>9, <3>3 DEF RaceInv, TypeOK, HandshakeReturns, workerVars
  <2>2. ASSUME NEW u \in Transports PROVE ThreadInv(u)'
    BY <1>9 DEF RaceInv, TypeOK, ThreadInv, HandshakeReturns, Goto, threadVars, workerVars
  <2>3. QED BY <2>1, <2>2 DEF RaceInv
<1>10. CASE SslDestroy(t)
  <2>1. TypeOK'
    BY <1>10 DEF RaceInv, TypeOK, Phases, SslDestroy, Goto, GiveUp, threadVars, workerVars
  <2>2. ASSUME NEW u \in Transports PROVE ThreadInv(u)'
    BY <1>10 DEF RaceInv, TypeOK, ThreadInv, SslDestroy, Goto, GiveUp, threadVars, workerVars
  <2>3. QED BY <2>1, <2>2 DEF RaceInv
<1>11. CASE JoinWorker(t)
  <2>1. TypeOK'
    BY <1>11 DEF RaceInv, TypeOK, Phases, JoinWorker, Goto, threadVars, workerVars
  <2>2. ASSUME NEW u \in Transports PROVE ThreadInv(u)'
    BY <1>11 DEF RaceInv, TypeOK, ThreadInv, JoinWorker, Goto, threadVars, workerVars
  <2>3. QED BY <2>1, <2>2 DEF RaceInv
<1>12. CASE WorkerEntersCrypto(t)
  <2>1. TypeOK'
    BY <1>12 DEF RaceInv, TypeOK, Phases, WorkerEntersCrypto, workerFrame, threadVars, workerVars
  <2>2. ASSUME NEW u \in Transports PROVE ThreadInv(u)'
    BY <1>12 DEF RaceInv, TypeOK, ThreadInv, WorkerEntersCrypto, workerFrame, threadVars, workerVars
  <2>3. QED BY <2>1, <2>2 DEF RaceInv
<1>13. CASE WorkerCarries(t)
  <2>1. TypeOK'
    BY <1>13 DEF RaceInv, TypeOK, Phases, WorkerCarries, Answer, workerFrame, threadVars, workerVars
  <2>2. ASSUME NEW u \in Transports PROVE ThreadInv(u)'
    BY <1>13 DEF RaceInv, TypeOK, ThreadInv, WorkerCarries, Answer, workerFrame, threadVars, workerVars
  <2>3. QED BY <2>1, <2>2 DEF RaceInv
<1>14. CASE WorkerEstablishes(t)
  <2>1. TypeOK'
    BY <1>14 DEF RaceInv, TypeOK, Phases, WorkerEstablishes, workerFrame, threadVars, workerVars
  <2>2. ASSUME NEW u \in Transports PROVE ThreadInv(u)'
    BY <1>14 DEF RaceInv, TypeOK, ThreadInv, WorkerEstablishes, workerFrame, threadVars, workerVars
  <2>3. QED BY <2>1, <2>2 DEF RaceInv
<1>15. CASE WorkerDisconnects(t)
  <2>1. TypeOK'
    BY <1>15 DEF RaceInv, TypeOK, Phases, WorkerDisconnects, rt_set_disconnected, workerFrame, threadVars, workerVars
  <2>2. ASSUME NEW u \in Transports PROVE ThreadInv(u)'
    BY <1>15 DEF RaceInv, TypeOK, ThreadInv, WorkerDisconnects, rt_set_disconnected, workerFrame, threadVars, workerVars
  <2>3. QED BY <2>1, <2>2 DEF RaceInv
<1>16. CASE ConnectTimeout(t)
  <2>1. TypeOK'
    BY <1>16 DEF RaceInv, TypeOK, Phases, ConnectTimeout, rt_set_disconnected, workerFrame, threadVars, workerVars
  <2>2. ASSUME NEW u \in Transports PROVE ThreadInv(u)'
    BY <1>16 DEF RaceInv, TypeOK, ThreadInv, ConnectTimeout, rt_set_disconnected, workerFrame, threadVars, workerVars
  <2>3. QED BY <2>1, <2>2 DEF RaceInv
<1>17. CASE WorkerExits(t)
  <2>1. TypeOK'
    BY <1>17 DEF RaceInv, TypeOK, Phases, WorkerExits, rt_set_disconnected, workerFrame, threadVars, workerVars
  <2>2. ASSUME NEW u \in Transports PROVE ThreadInv(u)'
    BY <1>17 DEF RaceInv, TypeOK, ThreadInv, WorkerExits, rt_set_disconnected, workerFrame, threadVars, workerVars
  <2>3. QED BY <2>1, <2>2 DEF RaceInv
<1> QED BY <1>1, <1>2, <1>3, <1>4, <1>5, <1>6, <1>7, <1>8, <1>9, <1>10, <1>11, <1>12, <1>13, <1>14, <1>15, <1>16, <1>17 DEF ThreadStep, WorkerStep

(* The invariant holds of every reachable state of the race. *)
THEOREM RaceInvariance == Spec => []RaceInv
<1>1. Init => RaceInv
  <2> SUFFICES ASSUME Init PROVE RaceInv
    OBVIOUS
  <2>1. TypeOK
    BY DEF Init, TypeOK, Phases
  <2>2. ASSUME NEW t \in Transports PROVE ThreadInv(t)
    BY RaceAssumption DEF Init, ThreadInv
  <2>3. QED BY <2>1, <2>2 DEF RaceInv
<1>2. RaceInv /\ [Next]_vars => RaceInv'
  <2> SUFFICES ASSUME RaceInv, [Next]_vars PROVE RaceInv'
    OBVIOUS
  <2>1. CASE PollEnds
    BY <2>1 DEF PollEnds, mainFrame, threadVars, workerVars, RaceInv, TypeOK, ThreadInv
  <2>2. CASE RaceEnds
    BY <2>2 DEF RaceEnds, mainFrame, threadVars, workerVars, RaceInv, TypeOK, ThreadInv
  <2>3. ASSUME NEW t \in Transports, ThreadStep(t) \/ WorkerStep(t) PROVE RaceInv'
    BY <2>3, TransportStepKeepsInv
  <2>4. CASE UNCHANGED vars
    BY <2>4 DEF vars, threadVars, workerVars, RaceInv, TypeOK, ThreadInv
  <2>5. QED BY <2>1, <2>2, <2>3, <2>4 DEF Next
<1>3. QED BY <1>1, <1>2, PTL DEF Spec

(* Every thread, worker, result and lock of the race keeps its type: a thread
   never holds anything but the three resources it knows how to release. *)
THEOREM RaceTypes == Spec => []TypeOK
<1>1. RaceInv => TypeOK
  BY DEF RaceInv
<1>2. QED BY <1>1, RaceInvariance, PTL

(* A thread of the race that ends without a connection owns nothing and has no
   worker running, for any set of transports. *)
THEOREM LosersHoldNothing == Spec => []LosersCleanUp
<1>1. RaceInv => LosersCleanUp
  BY DEF RaceInv, ThreadInv, LosersCleanUp
<1>2. QED BY <1>1, RaceInvariance, PTL

(* A thread inside SSL_do_handshake holds g_openssl_lock, without which its
   worker neither sends, receives nor ends an established session: neither the
   session nor the handshake's bytes move until the handshake returns. *)
THEOREM HandshakeStopsItsSession == Spec => HandshakeFreezesSession
<1> DEFINE Frozen ==
      \A t \in Transports :
        thread[t] = "handshake" => status'[t] = status[t] /\ flight'[t] = flight[t]
<1>1. RaceInv /\ [Next]_vars => [Frozen]_vars
  <2> SUFFICES ASSUME RaceInv, [Next]_vars, NEW u \in Transports,
                      thread[u] = "handshake"
               PROVE  status'[u] = status[u] /\ flight'[u] = flight[u]
    OBVIOUS
  <2>1. g_openssl_lock = u /\ g_openssl_lock # NoThread /\ status[u] # "CONNECT_SENT"
    BY RaceAssumption DEF RaceInv, ThreadInv
  <2>2. ASSUME NEW t \in Transports, ThreadStep(t)
        PROVE  status'[u] = status[u] /\ flight'[u] = flight[u]
    BY <2>1, <2>2 DEF ThreadStep, Delay, Relay, Rendezvous, StartTransport,
       ConnectReturns, ConnectGivesUp, SslNew, Handshake, HandshakeReturns,
       SslDestroy, JoinWorker, workerVars
  <2>3. ASSUME NEW t \in Transports, WorkerStep(t)
        PROVE  status'[u] = status[u] /\ flight'[u] = flight[u]
    <3>1. CASE WorkerEntersCrypto(t)
      BY <3>1 DEF WorkerEntersCrypto
    <3>2. CASE ConnectTimeout(t)
      BY <2>1, <3>2 DEF ConnectTimeout, rt_set_disconnected, RaceInv, TypeOK
    <3>3. CASE WorkerExits(t)
      BY <2>1, <3>3 DEF WorkerExits, rt_set_disconnected, RaceInv, TypeOK
    <3>4. QED BY <2>1, <2>3, <3>1, <3>2, <3>3
      DEF WorkerStep, WorkerCarries, WorkerEstablishes, WorkerDisconnects
  <2>4. CASE PollEnds \/ RaceEnds
    BY <2>4 DEF PollEnds, RaceEnds, mainFrame, workerVars
  <2>5. CASE UNCHANGED vars
    BY <2>5 DEF vars, workerVars
  <2>6. QED BY <2>2, <2>3, <2>4, <2>5 DEF Next
<1>2. QED BY <1>1, RaceInvariance, PTL DEF Spec, HandshakeFreezesSession
=============================================================================
