--------------------------- MODULE TransportRace ---------------------------
(***************************************************************************)
(* softether_connect_parallel_race: one thread per UDP transport, each of  *)
(* which builds an R-UDP transport (rudp_transport_connect starts a worker *)
(* thread of its own) and runs the TLS handshake over it, while the caller *)
(* polls for a winner, raises cancel_flag and joins all the threads.       *)
(*                                                                         *)
(* The threads also meet in the two process-wide locks of aes_wrapper.c.   *)
(* g_openssl_lock is taken around every digest, every random number and    *)
(* the whole of SSL_do_handshake.  g_tls_use_lock is read-locked during    *)
(* the handshake and write-locked to create or free an SSL object; its     *)
(* readers are the threads in Readers.                                     *)
(*                                                                         *)
(* The worker is reduced to what the race sees: its session's status and   *)
(* whether it is about to hash or draw random bytes ("crypto"), which it   *)
(* does for each datagram it sends or receives.  RudpTransport models it   *)
(* in full.  What is due by time may or may not be due at any step.        *)
(***************************************************************************)
EXTENDS FiniteSets

CONSTANTS
  Transports,   \* the transports raced: those the caller launches threads for
  Answering,    \* those whose server end answers R-UDP connection requests
  NoThread      \* no thread: a free lock, a race nobody has won

ASSUME RaceAssumption ==
  /\ Transports \subseteq {"RUDP_DIRECT", "NATT", "DNS", "ICMP"}
  /\ Answering \subseteq Transports
  /\ NoThread \notin Transports

VARIABLES
  main,            \* softether_connect_parallel_race: poll, join, returned
  winner,
  cancel_flag,
  thread,          \* where each transport thread is
  ok,              \* result.finished and result.ok
  holds,           \* what the thread owns: udp_fd, transport, ssl
  worker,          \* rt_worker of the thread's transport
  status,          \* its se->status
  result,          \* its result_ready / result_ok
  halt,
  flight,          \* the handshake's bytes: ClientHello in the pair, answered
  g_openssl_lock   \* the thread inside SSL_do_handshake

threadVars == <<thread, ok, holds>>
workerVars == <<worker, status, result>>
vars == <<main, winner, cancel_flag, threadVars, workerVars, halt, flight,
          g_openssl_lock>>

Phases == {"delay", "relay", "rendezvous", "keys", "waiting", "ssl_new", "tls",
           "handshake", "ssl_destroy", "join", "done"}

Init ==
  /\ main = "poll" /\ winner = NoThread /\ cancel_flag = FALSE
  /\ thread = [t \in Transports |-> "delay"]
  /\ ok = [t \in Transports |-> FALSE]
  /\ holds = [t \in Transports |-> {}]
  /\ worker = [t \in Transports |-> "none"]
  /\ status = [t \in Transports |-> "CONNECT_SENT"]
  /\ result = [t \in Transports |-> "none"]
  /\ halt = [t \in Transports |-> FALSE]
  /\ flight = [t \in Transports |-> "none"]
  /\ g_openssl_lock = NoThread

-----------------------------------------------------------------------------
(* The transport threads.                                                  *)

\* Threads that hold g_tls_use_lock for reading.
Readers == {u \in Transports : thread[u] \in {"tls", "handshake"}}

Goto(t, phase) == thread' = [thread EXCEPT ![t] = phase]

\* The staggered delay, the first look at cancel_flag, and what can fail
\* before the first socket: no IPv4 address, no memory.
Delay(t) ==
  /\ thread[t] = "delay"
  /\ \/ Goto(t, "done")
     \/ /\ ~cancel_flag
        /\ Goto(t, IF t = "NATT" THEN "relay" ELSE "keys")
  /\ UNCHANGED <<main, winner, cancel_flag, ok, holds, workerVars, halt, flight,
                 g_openssl_lock>>

\* The head of nat_t_connect: the relay's name is a digest, the transaction id
\* is random.  The relay may not resolve.
Relay(t) ==
  /\ thread[t] = "relay" /\ g_openssl_lock = NoThread
  /\ \E phase \in {"rendezvous", "done"} : Goto(t, phase)
  /\ UNCHANGED <<main, winner, cancel_flag, ok, holds, workerVars, halt, flight,
                 g_openssl_lock>>

\* nat_t_connect returns: no endpoint (its socket is closed), a target in the
\* same LAN (closed as well), or an endpoint with the socket that reached it.
Rendezvous(t) ==
  /\ thread[t] = "rendezvous"
  /\ \/ Goto(t, "done") /\ UNCHANGED holds
     \/ /\ ~cancel_flag /\ Goto(t, "keys")
        /\ \E kept \in {{}, {"udp_fd"}} : holds' = [holds EXCEPT ![t] = kept]
  /\ UNCHANGED <<main, winner, cancel_flag, ok, workerVars, halt, flight,
                 g_openssl_lock>>

JoinsUnstarted(t) ==
  /\ thread[t] = "keys"
  /\ \/ /\ Goto(t, "join") /\ holds' = [holds EXCEPT ![t] = {"transport"}]
        /\ UNCHANGED <<workerVars, halt>>
     \/ /\ t # "ICMP" /\ g_openssl_lock = NoThread
        /\ holds' = [holds EXCEPT ![t] = {"transport"}]
        /\ worker' = [worker EXCEPT ![t] = "loop"]
        /\ Goto(t, IF cancel_flag THEN "join" ELSE "waiting")
        /\ halt' = [halt EXCEPT ![t] = cancel_flag]
        /\ UNCHANGED <<status, result>>
  /\ UNCHANGED <<main, winner, cancel_flag, ok, flight, g_openssl_lock>>

\* rudp_transport_connect up to its wait.  It refuses ICMP, whose server_port
\* is 0; what fails before the worker starts closes the transport's fds (fcntl
\* on a socket just made is taken to succeed).  The wait begins with a look at
\* cancel_flag.
StartTransport(t) ==
  /\ thread[t] = "keys"
  /\ \/ /\ Goto(t, "done") /\ holds' = [holds EXCEPT ![t] = {}]
        /\ UNCHANGED <<workerVars, halt>>
     \/ /\ t # "ICMP" /\ g_openssl_lock = NoThread
        /\ holds' = [holds EXCEPT ![t] = {"transport"}]
        /\ worker' = [worker EXCEPT ![t] = "loop"]
        /\ Goto(t, IF cancel_flag THEN "join" ELSE "waiting")
        /\ halt' = [halt EXCEPT ![t] = cancel_flag]
        /\ UNCHANGED <<status, result>>
  /\ UNCHANGED <<main, winner, cancel_flag, ok, flight, g_openssl_lock>>

\* The transport is given up: halt is raised and the worker will be joined.
GiveUp(t) == Goto(t, "join") /\ halt' = [halt EXCEPT ![t] = TRUE]

GoesOnCancelled(t) ==
  /\ thread[t] = "waiting" /\ result[t] # "none"
  /\ \/ result[t] = "ok" /\ ~cancel_flag /\ Goto(t, "ssl_new") /\ UNCHANGED halt
     \/ result[t] = "failed" /\ GiveUp(t)
     \/ result[t] = "ok" /\ cancel_flag /\ Goto(t, "done") /\ UNCHANGED halt
  /\ UNCHANGED <<main, winner, cancel_flag, ok, holds, workerVars, flight,
                 g_openssl_lock>>

\* rudp_transport_connect has its result; a cancelled thread goes no further.
ConnectReturns(t) ==
  /\ thread[t] = "waiting" /\ result[t] # "none"
  /\ \/ result[t] = "ok" /\ ~cancel_flag /\ Goto(t, "ssl_new") /\ UNCHANGED halt
     \/ (result[t] = "failed" \/ cancel_flag) /\ GiveUp(t)
  /\ UNCHANGED <<main, winner, cancel_flag, ok, holds, workerVars, flight,
                 g_openssl_lock>>

\* The wait ends without a result: its deadline, or a wakeup after which
\* cancel_flag is seen.
ConnectGivesUp(t) ==
  /\ thread[t] = "waiting" /\ result[t] = "none" /\ GiveUp(t)
  /\ UNCHANGED <<main, winner, cancel_flag, ok, holds, workerVars, flight,
                 g_openssl_lock>>

\* ssl_create_client, which may fail, and SSL_new under the write lock, which
\* may fail too and leaves the context to be destroyed.
SslNew(t) ==
  /\ thread[t] = "ssl_new"
  /\ \/ GiveUp(t) /\ UNCHANGED holds
     \/ /\ Readers = {} /\ holds' = [holds EXCEPT ![t] = @ \cup {"ssl"}]
        /\ \E phase \in {"tls", "ssl_destroy"} : Goto(t, phase)
        /\ UNCHANGED halt
  /\ UNCHANGED <<main, winner, cancel_flag, ok, workerVars, flight,
                 g_openssl_lock>>

HandshakeUnlocked(t) ==
  /\ thread[t] = "tls" /\ g_openssl_lock = NoThread
  /\ Goto(t, "handshake") /\ flight' = [flight EXCEPT ![t] = "hello"]
  /\ UNCHANGED <<main, winner, cancel_flag, ok, holds, workerVars, halt,
                 g_openssl_lock>>

\* SSL_do_handshake under g_openssl_lock writes the ClientHello to the
\* blocking app fd and then reads from it.
Handshake(t) ==
  /\ thread[t] = "tls" /\ g_openssl_lock = NoThread
  /\ g_openssl_lock' = t
  /\ Goto(t, "handshake") /\ flight' = [flight EXCEPT ![t] = "hello"]
  /\ UNCHANGED <<main, winner, cancel_flag, ok, holds, workerVars, halt>>

\* SSL_do_handshake returns once it has the server's answer, good or bad, or
\* the pair is shut down.  A thread that succeeds claims its own result.
HandshakeReturns(t) ==
  /\ thread[t] = "handshake"
  /\ flight[t] = "answered" \/ status[t] = "DISCONNECTED"
  /\ g_openssl_lock' = NoThread
  /\ \E good \in {FALSE} \cup {flight[t] = "answered"} :
       /\ ok' = [ok EXCEPT ![t] = good]
       /\ Goto(t, IF good THEN "done" ELSE "ssl_destroy")
  /\ UNCHANGED <<main, winner, cancel_flag, holds, workerVars, halt, flight>>

SslDestroy(t) ==
  /\ thread[t] = "ssl_destroy" /\ Readers = {}
  /\ holds' = [holds EXCEPT ![t] = @ \ {"ssl"}]
  /\ GiveUp(t)
  /\ UNCHANGED <<main, winner, cancel_flag, ok, workerVars, flight,
                 g_openssl_lock>>

\* pthread_join of the worker; then the transport's fds are closed and it is
\* freed (the failure path of rudp_transport_connect, rudp_transport_destroy).
JoinWorker(t) ==
  /\ thread[t] = "join" /\ worker[t] = "ended"
  /\ Goto(t, "done") /\ holds' = [holds EXCEPT ![t] = {}]
  /\ UNCHANGED <<main, winner, cancel_flag, ok, workerVars, halt, flight,
                 g_openssl_lock>>

-----------------------------------------------------------------------------
(* The workers.                                                            *)

\* rt_set_disconnected: the pair is shut down, the first result is kept.
rt_set_disconnected(t) ==
  /\ status' = [status EXCEPT ![t] = "DISCONNECTED"]
  /\ result' = [result EXCEPT ![t] = IF @ = "none" THEN "failed" ELSE @]

workerFrame == UNCHANGED <<main, winner, cancel_flag, threadVars, halt,
                           g_openssl_lock>>

\* A datagram has arrived or is due to be sent, or a session that was
\* established has to say goodbye: the worker calls sha1_hash or
\* generate_random_bytes and blocks if the lock is taken.
WorkerEntersCrypto(t) ==
  /\ worker[t] = "loop" /\ status[t] # "DISCONNECTED"
  /\ worker' = [worker EXCEPT ![t] = "crypto"]
  /\ workerFrame /\ UNCHANGED <<status, result, flight>>

\* The handshake's bytes after an established session has carried them to the
\* server and back.
Answer(t) == IF flight[t] = "hello" /\ status[t] = "ESTABLISHED"
             THEN "answered" ELSE flight[t]

\* The datagram is sent or handled, and may have been the server's answer.
WorkerCarries(t) ==
  /\ worker[t] = "crypto" /\ g_openssl_lock = NoThread
  /\ worker' = [worker EXCEPT ![t] = "loop"]
  /\ \E f \in {flight[t], Answer(t)} :
       flight' = [flight EXCEPT ![t] = f]
  /\ workerFrame /\ UNCHANGED <<status, result>>

\* The first valid segment of the server establishes the session.
WorkerEstablishes(t) ==
  /\ worker[t] = "crypto" /\ g_openssl_lock = NoThread
  /\ t \in Answering /\ status[t] = "CONNECT_SENT"
  /\ worker' = [worker EXCEPT ![t] = "loop"]
  /\ status' = [status EXCEPT ![t] = "ESTABLISHED"]
  /\ result' = [result EXCEPT ![t] = IF @ = "none" THEN "ok" ELSE @]
  /\ workerFrame /\ UNCHANGED flight

\* The end of an established session: the server's disconnect magic, or the
\* client's own after silence or once it is told to halt.
WorkerDisconnects(t) ==
  /\ worker[t] = "crypto" /\ g_openssl_lock = NoThread
  /\ status[t] = "ESTABLISHED"
  /\ worker' = [worker EXCEPT ![t] = "loop"]
  /\ rt_set_disconnected(t)
  /\ workerFrame /\ UNCHANGED flight

\* No answer within connect_timeout_ms.
ConnectTimeout(t) ==
  /\ worker[t] = "loop" /\ status[t] = "CONNECT_SENT"
  /\ rt_set_disconnected(t)
  /\ workerFrame /\ UNCHANGED <<worker, flight>>

\* The loop ends.  A session never established has nobody to say goodbye to.
WorkerExits(t) ==
  /\ worker[t] = "loop"
  /\ status[t] = "DISCONNECTED" \/ (halt[t] /\ status[t] = "CONNECT_SENT")
  /\ worker' = [worker EXCEPT ![t] = "ended"]
  /\ rt_set_disconnected(t)
  /\ workerFrame /\ UNCHANGED flight

-----------------------------------------------------------------------------
(* The caller.                                                             *)

mainFrame == UNCHANGED <<threadVars, workerVars, halt, flight, g_openssl_lock>>

\* A poll finds a winner, or the deadline passes; all threads are cancelled.
PollEnds ==
  /\ main = "poll"
  /\ winner' \in {t \in Transports : ok[t]} \cup {NoThread}
  /\ cancel_flag' = TRUE /\ main' = "join"
  /\ mainFrame

\* Every thread has been joined: the winner is promoted into the connection.
RaceEnds ==
  /\ main = "join" /\ \A t \in Transports : thread[t] = "done"
  /\ main' = "returned"
  /\ UNCHANGED <<winner, cancel_flag>> /\ mainFrame

-----------------------------------------------------------------------------
ThreadStep(t) ==
  \/ Delay(t) \/ Relay(t) \/ Rendezvous(t) \/ StartTransport(t)
  \/ ConnectReturns(t) \/ ConnectGivesUp(t)
  \/ SslNew(t) \/ Handshake(t) \/ HandshakeReturns(t) \/ SslDestroy(t)
  \/ JoinWorker(t)

WorkerStep(t) ==
  \/ WorkerEntersCrypto(t) \/ WorkerCarries(t) \/ WorkerEstablishes(t)
  \/ WorkerDisconnects(t) \/ ConnectTimeout(t) \/ WorkerExits(t)

Next ==
  \/ PollEnds \/ RaceEnds
  \/ \E t \in Transports : ThreadStep(t) \/ WorkerStep(t)

\* Threads run.  Time passes, so a request that is never answered times out
\* (connect_timeout_ms is looked at in every round of the loop); halt is too.
Fairness ==
  /\ WF_vars(PollEnds) /\ WF_vars(RaceEnds)
  /\ \A t \in Transports :
       /\ WF_vars(ThreadStep(t)) /\ WF_vars(WorkerStep(t))
       /\ SF_vars(ConnectTimeout(t)) /\ SF_vars(WorkerExits(t))
       /\ SF_vars(halt[t] /\ WorkerDisconnects(t))

Spec == Init /\ [][Next]_vars
FairSpec == Spec /\ Fairness

-----------------------------------------------------------------------------
(* Properties.                                                             *)

TypeOK ==
  /\ main \in {"poll", "join", "returned"}
  /\ winner \in Transports \cup {NoThread} /\ cancel_flag \in BOOLEAN
  /\ thread \in [Transports -> Phases]
  /\ ok \in [Transports -> BOOLEAN]
  /\ holds \in [Transports -> SUBSET {"udp_fd", "transport", "ssl"}]
  /\ worker \in [Transports -> {"none", "loop", "crypto", "ended"}]
  /\ status \in [Transports -> {"CONNECT_SENT", "ESTABLISHED", "DISCONNECTED"}]
  /\ result \in [Transports -> {"none", "ok", "failed"}]
  /\ halt \in [Transports -> BOOLEAN]
  /\ flight \in [Transports -> {"none", "hello", "answered"}]
  /\ g_openssl_lock \in Transports \cup {NoThread}

\* "Losing threads cancel and clean up": a thread that ends without a
\* connection, wherever cancel_flag, a timeout or a failure met it, leaves no
\* socket, transport or SSL object behind and no worker running.
LosersCleanUp ==
  \A t \in Transports :
    thread[t] = "done" /\ ~ok[t] =>
      holds[t] = {} /\ worker[t] \in {"none", "ended"}

\* While a thread is inside SSL_do_handshake its own session stands still: the
\* worker that should carry the handshake needs the lock the handshake holds.
HandshakeFreezesSession ==
  [][\A t \in Transports :
       thread[t] = "handshake" => status'[t] = status[t] /\ flight'[t] = flight[t]]_vars

\* The inductive invariant behind LosersCleanUp and HandshakeFreezesSession.
ThreadInv(t) ==
  /\ thread[t] \in {"delay", "relay", "rendezvous", "keys"} => worker[t] = "none"
  /\ thread[t] \in {"delay", "relay", "rendezvous"} => holds[t] = {}
  /\ thread[t] = "done" /\ ~ok[t] =>
       holds[t] = {} /\ worker[t] \in {"none", "ended"}
  /\ thread[t] \in {"ssl_new", "tls", "handshake"} => result[t] = "ok"
  /\ result[t] = "ok" => status[t] # "CONNECT_SENT"
  /\ thread[t] = "handshake" <=> g_openssl_lock = t

RaceInv == TypeOK /\ \A t \in Transports : ThreadInv(t)

\* softether_connect_parallel_race returns, with a winner or without one.
RaceReturns == <>(main = "returned")

\* Only a TLS handshake over an R-UDP transport can keep the race from
\* returning: servers that do not answer, timeouts, lost sessions, failures and
\* a cancel at any point cannot.
ReturnsUnlessHandshake ==
  RaceReturns \/ <>(\E t \in Transports : thread[t] = "handshake")
=============================================================================
