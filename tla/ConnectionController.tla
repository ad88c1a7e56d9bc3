------------------------ MODULE ConnectionController ------------------------
(***************************************************************************)
(* The life of the native connection under ConnectionController.kt: the    *)
(* coroutines of Dispatchers.IO that create, use and free native handles.  *)
(*                                                                         *)
(*   "connect"    connect(), called once by the service                    *)
(*   Reconnects   calls of attemptReconnect(), launched by the data loops  *)
(*   Stops        calls of destroyResources() by the service               *)
(*   and the receive loop, the TUN reader, the keepalive loop and the      *)
(*   native state monitor.                                                 *)
(*                                                                         *)
(* A step is a statement or a run of statements between which no other     *)
(* coroutine can tell the difference.  A JNI call under externalLock is    *)
(* one step; nativeConnectWithHub, which is not, is entered and left.  The *)
(* locals `handle` of the coroutines are in local, and a JNI call whose    *)
(* handle is already freed is recorded in misuse.  CONNECTING stands for   *)
(* every state between it and CONNECTED.  connectionMutex is left out: its *)
(* one holder is the one call of connect().                                *)
(***************************************************************************)
EXTENDS Integers, FiniteSets

CONSTANTS
  Reconnects,              \* how many reconnects may be launched
  Stops,                   \* how many calls of destroyResources
  StopDuringConnect,       \* may a stop begin before connect() has returned
  MaxBegun,                \* bound: reconnects and stops that begin in a behaviour
  Handles,                 \* addresses of native connections
  MAX_RECONNECT_ATTEMPTS

Flows == {"connect"} \cup Reconnects
Actors == Flows \cup Stops

ASSUME ControllerAssumption ==
  /\ "connect" \notin Reconnects \cup Stops /\ Reconnects \cap Stops = {}
  /\ StopDuringConnect \in BOOLEAN /\ MaxBegun \in Nat
  /\ Handles \subseteq Nat \ {0}
  /\ MAX_RECONNECT_ATTEMPTS \in Nat \ {0}

VARIABLES
  live,               \* native connections that exist
  nativeHandle,       \* 0 when there is none
  externalHandle,     \* the client's copy, which the data calls use
  connectInFlight, isCancelled, isReconnecting, reconnectAttempts,
  currentState,
  vpnInterface,       \* the TUN interface: none, open, or read by TunTerminal
  pc, local, after,   \* of each actor; after: where it goes once it has freed
  receiver, keepalive,
  monitor, monitored, monitorJob,
  misuse

flags == <<connectInFlight, isCancelled, isReconnecting, reconnectAttempts>>
monitorVars == <<monitor, monitored, monitorJob>>
loops == <<receiver, keepalive, monitorVars>>
vars == <<live, nativeHandle, externalHandle, flags, currentState, vpnInterface,
          pc, local, after, loops, misuse>>

Init ==
  /\ live = {} /\ nativeHandle = 0 /\ externalHandle = 0
  /\ connectInFlight = FALSE /\ isCancelled = FALSE /\ isReconnecting = FALSE
  /\ reconnectAttempts = 0
  /\ currentState = "DISCONNECTED" /\ vpnInterface = "none"
  /\ pc = [a \in Actors |-> "idle"]
  /\ local = [a \in Actors |-> 0]
  /\ after = [a \in Actors |-> "idle"]
  /\ receiver = "off" /\ keepalive = "off"
  /\ monitor = "off" /\ monitored = 0 /\ monitorJob = FALSE
  /\ misuse = {}

-----------------------------------------------------------------------------
(* Native handles.                                                         *)

Goto(a, step) == pc' = [pc EXCEPT ![a] = step]

MayBegin == Cardinality({a \in Reconnects \cup Stops : pc[a] # "idle"}) < MaxBegun

\* Go and free the handle, then go on at `step`.
Teardown(a, step) == Goto(a, "take") /\ after' = [after EXCEPT ![a] = step]

\* The JNI layer refuses handle 0 and believes every other one.
Call(h, what) ==
  misuse' = IF h = 0 \/ h \in live THEN misuse ELSE misuse \cup {what}

\* An address that nothing refers to any more is as good as a new one.
Fresh == Handles \ (live \cup {nativeHandle, externalHandle, monitored}
                         \cup {local[a] : a \in Actors})

\* val handle = nativeHandle.  attemptReconnect and disconnect skip the rest
\* when there is none.
TakeHandle(a) ==
  /\ pc[a] = "take"
  /\ local' = [local EXCEPT ![a] = nativeHandle]
  /\ Goto(a, IF nativeHandle = 0 /\ a \in Reconnects THEN after[a] ELSE "clear")
  /\ UNCHANGED <<live, nativeHandle, externalHandle, flags, currentState,
                 vpnInterface, after, loops, misuse>>

\* nativeHandle = 0
ClearHandle(a) ==
  /\ pc[a] = "clear" /\ nativeHandle' = 0
  /\ IF local[a] = 0 THEN Goto(a, after[a])
                     ELSE Goto(a, IF a \in Stops THEN "force" ELSE "free")
  /\ UNCHANGED <<live, externalHandle, flags, currentState, vpnInterface, local,
                 after, loops, misuse>>

\* nativeDisconnect and nativeDestroy under externalLock.
FreeHandle(a) ==
  /\ pc[a] = "free" /\ Call(local[a], "free")
  /\ live' = live \ {local[a]}
  /\ local' = [local EXCEPT ![a] = 0] /\ Goto(a, after[a])
  /\ UNCHANGED <<nativeHandle, externalHandle, flags, currentState, vpnInterface,
                 after, loops>>

-----------------------------------------------------------------------------
(* What connect() and attemptReconnect() have in common.                   *)

\* connectInFlight is raised before nativeCreate.
RaiseInFlight(a) ==
  /\ pc[a] = "flag" /\ connectInFlight' = TRUE /\ Goto(a, "create")
  /\ UNCHANGED <<live, nativeHandle, externalHandle, isCancelled, isReconnecting,
                 reconnectAttempts, currentState, vpnInterface, local, after,
                 loops, misuse>>

\* nativeCreate, which may fail.
CreateHandle(a) ==
  /\ pc[a] = "create"
  /\ \/ nativeHandle' = 0 /\ Goto(a, "throw") /\ UNCHANGED live
     \/ \E h \in Fresh :
          /\ \A g \in Fresh : h <= g
          /\ nativeHandle' = h /\ live' = live \cup {h} /\ Goto(a, "options")
  /\ UNCHANGED <<externalHandle, flags, currentState, vpnInterface, local, after,
                 loops, misuse>>

\* The options are set, the state monitor is started and nativeConnectWithHub
\* is entered.  Only connect() looks at isCancelled first.
EnterConnect(a) ==
  /\ pc[a] = "options"
  /\ \/ /\ a = "connect" /\ isCancelled /\ Goto(a, "throw")
        /\ UNCHANGED <<currentState, local, monitorVars, misuse>>
     \/ /\ a = "connect" => ~isCancelled
        /\ Call(nativeHandle, "flow") /\ local' = [local EXCEPT ![a] = nativeHandle]
        /\ currentState' = IF a = "connect" THEN "CONNECTING" ELSE currentState
        /\ monitor' = "read" /\ monitorJob' = TRUE /\ monitored' = 0
        /\ Goto(a, "connecting")
  /\ UNCHANGED <<live, nativeHandle, externalHandle, flags, vpnInterface, after,
                 receiver, keepalive>>

\* nativeConnectWithHub returns; the monitor's job is cancelled, not joined.
\* connect() throws for a cancel before it looks at the result, attemptReconnect
\* frees the handle for one after it.
LeaveConnect(a) ==
  /\ pc[a] = "connecting"
  /\ Call(local[a], "flow") /\ local' = [local EXCEPT ![a] = 0]
  /\ monitorJob' = FALSE
  /\ \/ /\ Goto(a, "throw")
        /\ currentState' = IF a = "connect" /\ ~isCancelled THEN "ERROR"
                                                            ELSE currentState
        /\ UNCHANGED <<externalHandle, reconnectAttempts, after>>
     \/ /\ local[a] # 0 /\ a = "connect" /\ ~isCancelled
        /\ currentState' = "CONNECTING" /\ reconnectAttempts' = 0
        /\ externalHandle' = nativeHandle /\ Goto(a, "protect")
        /\ UNCHANGED after
     \/ /\ local[a] # 0 /\ a \in Reconnects
        /\ IF isCancelled THEN Teardown(a, "finally")
                          ELSE Goto(a, "protect") /\ UNCHANGED after
        /\ UNCHANGED <<currentState, externalHandle, reconnectAttempts>>
  /\ UNCHANGED <<live, nativeHandle, connectInFlight, isCancelled, isReconnecting,
                 vpnInterface, receiver, keepalive, monitor, monitored>>

\* The sockets are protected: calls on nativeHandle as it is now.
Protect(a) ==
  /\ pc[a] = "protect"
  /\ \/ /\ a = "connect" /\ isCancelled /\ Goto(a, "throw")
        /\ UNCHANGED <<externalHandle, misuse>>
     \/ /\ a = "connect" => ~isCancelled
        /\ Call(nativeHandle, "flow") /\ Goto(a, "dhcp")
        /\ externalHandle' = IF a = "connect" THEN externalHandle ELSE nativeHandle
  /\ UNCHANGED <<live, nativeHandle, flags, currentState, vpnInterface, local,
                 after, loops>>

\* doDhcp.  Only connect() looks at isCancelled after it.
Dhcp(a) ==
  /\ pc[a] = "dhcp" /\ Call(nativeHandle, "flow")
  /\ Goto(a, IF a = "connect" /\ isCancelled THEN "throw" ELSE "tun")
  /\ UNCHANGED <<live, nativeHandle, externalHandle, flags, currentState,
                 vpnInterface, local, after, loops>>

EstablishReads(a) ==
  /\ pc[a] = "tun"
  /\ \/ vpnInterface' = "read" /\ Goto(a, "up")
     \/ Goto(a, "throw") /\ UNCHANGED vpnInterface
  /\ UNCHANGED <<live, nativeHandle, externalHandle, flags, currentState, local,
                 after, loops, misuse>>

\* establishVpnInterface, which may return null.
Establish(a) ==
  /\ pc[a] = "tun"
  /\ \/ vpnInterface' = "open" /\ Goto(a, "up")
     \/ Goto(a, "throw") /\ UNCHANGED vpnInterface
  /\ UNCHANGED <<live, nativeHandle, externalHandle, flags, currentState, local,
                 after, loops, misuse>>

\* CONNECTED is announced; startDataForwarding throws if the interface has been
\* closed meanwhile, and otherwise starts the loops.
Up(a) ==
  /\ pc[a] = "up" /\ currentState' = "CONNECTED"
  /\ \/ /\ vpnInterface = "none" /\ Goto(a, "throw")
        /\ UNCHANGED <<vpnInterface, receiver, keepalive, reconnectAttempts>>
     \/ /\ vpnInterface # "none" /\ Goto(a, "finally")
        /\ vpnInterface' = "read" /\ receiver' = "check" /\ keepalive' = "check"
        /\ reconnectAttempts' = IF a = "connect" THEN reconnectAttempts ELSE 0
  /\ UNCHANGED <<live, nativeHandle, externalHandle, connectInFlight, isCancelled,
                 isReconnecting, local, after, monitorVars, misuse>>

-----------------------------------------------------------------------------
(* connect().                                                              *)

\* The checks at its head; without a network it reports an error and returns.
ConnectStarts ==
  /\ pc["connect"] = "idle"
  /\ \/ Goto("connect", "returned")
     \/ ~isCancelled /\ Goto("connect", "begin")
  /\ UNCHANGED <<live, nativeHandle, externalHandle, flags, currentState,
                 vpnInterface, local, after, loops, misuse>>

PerformConnect ==
  /\ pc["connect"] = "begin"
  /\ currentState' = "CONNECTING" /\ isCancelled' = FALSE /\ Goto("connect", "flag")
  /\ UNCHANGED <<live, nativeHandle, externalHandle, connectInFlight,
                 isReconnecting, reconnectAttempts, vpnInterface, local, after,
                 loops, misuse>>

\* catch in performConnect: teardownNativeConnection.
ConnectThrows ==
  /\ pc["connect"] = "throw" /\ externalHandle' = 0
  /\ Teardown("connect", "rethrow")
  /\ UNCHANGED <<live, nativeHandle, flags, currentState, vpnInterface, local,
                 loops, misuse>>

FinallyForgetsFlag ==
  /\ pc["connect"] \in {"finally", "rethrow"}
  /\ Goto("connect", IF pc["connect"] = "finally" THEN "returned" ELSE "failed")
  /\ UNCHANGED <<live, nativeHandle, externalHandle, flags, currentState,
                 vpnInterface, local, after, loops, misuse>>

\* finally in performConnect, after success or a failed attempt.
ConnectFinally ==
  /\ pc["connect"] \in {"finally", "rethrow"} /\ connectInFlight' = FALSE
  /\ Goto("connect", IF pc["connect"] = "finally" THEN "returned" ELSE "failed")
  /\ UNCHANGED <<live, nativeHandle, externalHandle, isCancelled, isReconnecting,
                 reconnectAttempts, currentState, vpnInterface, local, after,
                 loops, misuse>>

\* catch in connect(): give up when cancelled, when the network is gone or
\* after the last attempt; otherwise wait.
ConnectFails ==
  /\ pc["connect"] = "failed"
  /\ \/ /\ isCancelled /\ Goto("connect", "returned")
        /\ UNCHANGED <<reconnectAttempts, currentState>>
     \/ /\ ~isCancelled /\ reconnectAttempts + 1 < MAX_RECONNECT_ATTEMPTS
        /\ reconnectAttempts' = reconnectAttempts + 1
        /\ Goto("connect", "backoff") /\ UNCHANGED currentState
     \/ /\ ~isCancelled /\ Goto("connect", "returned")
        /\ currentState' = "DISCONNECTED"
        /\ reconnectAttempts' \in {n \in {reconnectAttempts, reconnectAttempts + 1} :
             n = reconnectAttempts \/ n >= MAX_RECONNECT_ATTEMPTS}
  /\ UNCHANGED <<live, nativeHandle, externalHandle, connectInFlight, isCancelled,
                 isReconnecting, vpnInterface, local, after, loops, misuse>>

\* delay(RECONNECT_DELAY_MS) ends, or throws because the service has cancelled
\* the job on its way to destroyResources.
ConnectRetries ==
  /\ pc["connect"] = "backoff"
  /\ Goto("connect", IF \A s \in Stops : pc[s] = "idle" THEN "begin"
                                                        ELSE "returned")
  /\ UNCHANGED <<live, nativeHandle, externalHandle, flags, currentState,
                 vpnInterface, local, after, loops, misuse>>

-----------------------------------------------------------------------------
(* attemptReconnect().                                                     *)

ReconnectUnguarded(r) ==
  /\ pc[r] = "start"
  /\ isReconnecting' = TRUE /\ reconnectAttempts' = reconnectAttempts + 1
  /\ Goto(r, IF reconnectAttempts' >= MAX_RECONNECT_ATTEMPTS
             THEN "disconnect" ELSE "reset")
  /\ UNCHANGED <<live, nativeHandle, externalHandle, connectInFlight, isCancelled,
                 currentState, vpnInterface, local, after, loops, misuse>>

\* isReconnecting lets one call through; the last attempt gives up.
ReconnectStarts(r) ==
  /\ pc[r] = "start"
  /\ \/ /\ isReconnecting /\ Goto(r, "done")
        /\ UNCHANGED <<isReconnecting, reconnectAttempts>>
     \/ /\ ~isReconnecting /\ isReconnecting' = TRUE
        /\ reconnectAttempts' = reconnectAttempts + 1
        /\ Goto(r, IF reconnectAttempts' >= MAX_RECONNECT_ATTEMPTS
                   THEN "disconnect" ELSE "reset")
  /\ UNCHANGED <<live, nativeHandle, externalHandle, connectInFlight, isCancelled,
                 currentState, vpnInterface, local, after, loops, misuse>>

ReconnectKeepsOld(r) ==
  /\ pc[r] = "reset"
  /\ isCancelled' = FALSE /\ vpnInterface' = "none" /\ Goto(r, "gone")
  /\ UNCHANGED <<live, nativeHandle, externalHandle, connectInFlight,
                 isReconnecting, reconnectAttempts, currentState, local, after,
                 loops, misuse>>

\* isCancelled is reset, the interface is closed, the old handle is freed;
\* externalHandle is left alone.
ReconnectResets(r) ==
  /\ pc[r] = "reset"
  /\ isCancelled' = FALSE /\ vpnInterface' = "none" /\ Teardown(r, "gone")
  /\ UNCHANGED <<live, nativeHandle, externalHandle, connectInFlight,
                 isReconnecting, reconnectAttempts, currentState, local, loops,
                 misuse>>

\* CONNECTING is announced and the delay begins.
ReconnectWaits(r) ==
  /\ pc[r] = "gone" /\ currentState' = "CONNECTING" /\ Goto(r, "wait")
  /\ UNCHANGED <<live, nativeHandle, externalHandle, flags, vpnInterface, local,
                 after, loops, misuse>>

ReconnectGoesOn(r) ==
  /\ pc[r] = "wait" /\ Goto(r, IF isCancelled THEN "finally" ELSE "flag")
  /\ UNCHANGED <<live, nativeHandle, externalHandle, flags, currentState,
                 vpnInterface, local, after, loops, misuse>>

\* catch: the handle is freed, DISCONNECTED is announced.
ReconnectThrows(r) ==
  /\ pc[r] = "throw" /\ Teardown(r, "failed")
  /\ UNCHANGED <<live, nativeHandle, externalHandle, flags, currentState,
                 vpnInterface, local, loops, misuse>>

ReconnectFails(r) ==
  /\ pc[r] = "failed" /\ currentState' = "DISCONNECTED" /\ Goto(r, "finally")
  /\ UNCHANGED <<live, nativeHandle, externalHandle, flags, vpnInterface, local,
                 after, loops, misuse>>

ReconnectFinally(r) ==
  /\ pc[r] = "finally" /\ connectInFlight' = FALSE /\ isReconnecting' = FALSE
  /\ Goto(r, "done")
  /\ UNCHANGED <<live, nativeHandle, externalHandle, isCancelled,
                 reconnectAttempts, currentState, vpnInterface, local, after,
                 loops, misuse>>

\* disconnect(), up to the native teardown and after it.
Disconnect(r) ==
  /\ pc[r] = "disconnect" /\ isCancelled' = TRUE /\ externalHandle' = 0
  /\ IF connectInFlight THEN Goto(r, "disconnected") /\ UNCHANGED after
                        ELSE Teardown(r, "disconnected")
  /\ UNCHANGED <<live, nativeHandle, connectInFlight, isReconnecting,
                 reconnectAttempts, currentState, vpnInterface, local, loops,
                 misuse>>

Disconnected(r) ==
  /\ pc[r] = "disconnected" /\ vpnInterface' = "none"
  /\ currentState' = "DISCONNECTED" /\ Goto(r, "finally")
  /\ UNCHANGED <<live, nativeHandle, externalHandle, flags, local, after, loops,
                 misuse>>

-----------------------------------------------------------------------------
(* destroyResources().                                                     *)

StopKeepsExternal(s) ==
  /\ pc[s] = "idle"
  /\ MayBegin /\ (StopDuringConnect \/ pc["connect"] = "returned")
  /\ isCancelled' = TRUE /\ Goto(s, "close")
  /\ UNCHANGED <<live, nativeHandle, externalHandle, connectInFlight,
                 isReconnecting, reconnectAttempts, currentState, vpnInterface,
                 local, after, loops, misuse>>

\* isCancelled is raised and externalHandle is retired,
StopBegins(s) ==
  /\ pc[s] = "idle"
  /\ MayBegin /\ (StopDuringConnect \/ pc["connect"] = "returned")
  /\ isCancelled' = TRUE /\ externalHandle' = 0 /\ Goto(s, "close")
  /\ UNCHANGED <<live, nativeHandle, connectInFlight, isReconnecting,
                 reconnectAttempts, currentState, vpnInterface, local, after,
                 loops, misuse>>

\* the TUN interface is stopped and closed.
StopCloses(s) ==
  /\ pc[s] = "close" /\ vpnInterface' = "none" /\ Goto(s, "defer")
  /\ UNCHANGED <<live, nativeHandle, externalHandle, flags, currentState, local,
                 after, loops, misuse>>

\* While a connect flow is in flight the teardown is left to it.
StopDefers(s) ==
  /\ pc[s] = "defer"
  /\ IF connectInFlight THEN Goto(s, "done") /\ UNCHANGED after
                        ELSE Teardown(s, "done")
  /\ UNCHANGED <<live, nativeHandle, externalHandle, flags, currentState,
                 vpnInterface, local, loops, misuse>>

\* forceCloseExternalSocket; the sleep before nativeDestroy follows.
StopForceCloses(s) ==
  /\ pc[s] = "force" /\ Call(local[s], "force") /\ Goto(s, "free")
  /\ UNCHANGED <<live, nativeHandle, externalHandle, flags, currentState,
                 vpnInterface, local, after, loops>>

-----------------------------------------------------------------------------
(* The loops of a connected session.                                       *)

Forwarding == currentState = "CONNECTED" /\ ~isCancelled

\* scope.launch { attemptReconnect() }, until the bound is reached.
Launch ==
  \/ MayBegin /\ \E r \in Reconnects : pc[r] = "idle" /\ Goto(r, "start")
  \/ ~(MayBegin /\ \E r \in Reconnects : pc[r] = "idle") /\ UNCHANGED pc

loopFrame == UNCHANGED <<live, nativeHandle, externalHandle, flags, local, after>>

ReceiverChecks ==
  /\ receiver = "check" /\ receiver' = IF Forwarding THEN "call" ELSE "off"
  /\ loopFrame
  /\ UNCHANGED <<currentState, vpnInterface, pc, keepalive, monitorVars, misuse>>

\* receiveBatch reads externalHandle once it has the lock.
ReceiverCalls ==
  /\ receiver = "call" /\ Call(externalHandle, "data")
  /\ \/ externalHandle # 0 /\ receiver' = "check" /\ UNCHANGED pc
     \/ receiver' = "off" /\ IF Forwarding THEN Launch ELSE UNCHANGED pc
  /\ loopFrame /\ UNCHANGED <<currentState, vpnInterface, keepalive, monitorVars>>

\* onPacket of TunTerminal; the reader outlives a failed send.
TunSends ==
  /\ vpnInterface = "read" /\ Call(externalHandle, "data")
  /\ IF Forwarding THEN Launch \/ UNCHANGED pc ELSE UNCHANGED pc
  /\ loopFrame
  /\ UNCHANGED <<currentState, vpnInterface, receiver, keepalive, monitorVars>>

\* onError of TunTerminal: reading has ended.
TunFails ==
  /\ vpnInterface = "read" /\ vpnInterface' = "open"
  /\ IF isCancelled THEN UNCHANGED pc ELSE Launch
  /\ loopFrame /\ UNCHANGED <<currentState, loops, misuse>>

KeepaliveChecks ==
  /\ keepalive = "check" /\ keepalive' = IF Forwarding THEN "delay" ELSE "off"
  /\ loopFrame
  /\ UNCHANGED <<currentState, vpnInterface, pc, receiver, monitorVars, misuse>>

\* After its delay it finds the peer alive, or dead and reconnects, without
\* another look at isCancelled.
KeepaliveWakes ==
  /\ keepalive = "delay"
  /\ \/ keepalive' = "check" /\ UNCHANGED pc
     \/ keepalive' = "off" /\ Launch
  /\ loopFrame
  /\ UNCHANGED <<currentState, vpnInterface, receiver, monitorVars, misuse>>

\* The state monitor copies nativeHandle,
MonitorReads ==
  /\ monitor = "read" /\ monitored' = nativeHandle
  /\ monitor' = IF isCancelled \/ nativeHandle = 0 THEN "off" ELSE "call"
  /\ loopFrame
  /\ UNCHANGED <<currentState, vpnInterface, pc, receiver, keepalive, monitorJob,
                 misuse>>

\* waits for externalLock and asks for the native state of that handle,
MonitorCalls ==
  /\ monitor = "call" /\ Call(monitored, "monitor")
  /\ monitor' \in {"set", "wake"}
  /\ monitor' = "set" => \E a \in Flows : pc[a] = "connecting"
  /\ monitored' = 0 /\ loopFrame
  /\ UNCHANGED <<currentState, vpnInterface, pc, receiver, keepalive, monitorJob>>

\* shows an intermediate one,
MonitorSets ==
  /\ monitor = "set" /\ currentState' = "CONNECTING" /\ monitor' = "wake"
  /\ loopFrame
  /\ UNCHANGED <<vpnInterface, pc, receiver, keepalive, monitored, monitorJob,
                 misuse>>

\* and ends, or sleeps, which is where it learns that its job is cancelled.
MonitorSleeps ==
  /\ monitor = "wake"
  /\ monitor' = IF monitorJob /\ currentState \notin {"CONNECTED", "DISCONNECTED"}
                THEN "read" ELSE "off"
  /\ loopFrame
  /\ UNCHANGED <<currentState, vpnInterface, pc, receiver, keepalive, monitored,
                 monitorJob, misuse>>

-----------------------------------------------------------------------------
FlowStep(a) ==
  \/ RaiseInFlight(a) \/ CreateHandle(a) \/ EnterConnect(a) \/ LeaveConnect(a)
  \/ Protect(a) \/ Dhcp(a) \/ Establish(a) \/ Up(a)

ConnectStep ==
  \/ ConnectStarts \/ PerformConnect \/ ConnectThrows \/ ConnectFinally
  \/ ConnectFails \/ ConnectRetries

ReconnectStep(r) ==
  \/ ReconnectStarts(r) \/ ReconnectResets(r) \/ ReconnectWaits(r)
  \/ ReconnectGoesOn(r) \/ ReconnectThrows(r) \/ ReconnectFails(r)
  \/ ReconnectFinally(r) \/ Disconnect(r) \/ Disconnected(r)

StopStep(s) ==
  StopBegins(s) \/ StopCloses(s) \/ StopDefers(s) \/ StopForceCloses(s)

LoopStep ==
  \/ ReceiverChecks \/ ReceiverCalls \/ TunSends \/ TunFails
  \/ KeepaliveChecks \/ KeepaliveWakes
  \/ MonitorReads \/ MonitorCalls \/ MonitorSets \/ MonitorSleeps

Next ==
  \/ \E a \in Actors : TakeHandle(a) \/ ClearHandle(a) \/ FreeHandle(a)
  \/ \E a \in Flows : FlowStep(a)
  \/ ConnectStep
  \/ \E r \in Reconnects : ReconnectStep(r)
  \/ \E s \in Stops : StopStep(s)
  \/ LoopStep

Spec == Init /\ [][Next]_vars

-----------------------------------------------------------------------------
(* Properties.                                                             *)

Steps == {"idle", "begin", "flag", "create", "options", "connecting", "protect",
          "dhcp", "tun", "up", "finally", "throw", "rethrow", "failed", "backoff",
          "returned", "start", "reset", "gone", "wait", "disconnect",
          "disconnected", "close", "defer", "take", "clear", "force", "free", "done"}

Building == {"create", "options", "connecting", "protect", "dhcp", "tun", "up"}

\* isReconnecting admits one attemptReconnect at a time and the data loops start
\* only when connect() is through: two flows never build a connection at once.
OneConnectFlow ==
  \A a, b \in Flows : pc[a] \in Building /\ pc[b] \in Building => a = b

NoStop == \A s \in Stops : pc[s] = "idle"
HandlesOwned == misuse \cap {"flow", "free", "force"} = {}

\* "ONLY this function destroys the native handle": until destroyResources is
\* called, no flow makes a call on a connection that has been freed under it, and
\* none is freed twice.
FlowsOwnHandle == NoStop => HandlesOwned

\* Until then every native connection is known to someone who will free it.
NoOrphan ==
  NoStop => \A h \in live :
    \/ nativeHandle = h
    \/ \E a \in Actors : pc[a] \in {"force", "free"} /\ local[a] = h

\* externalLock "serializes every JNI call that consumes the externally-managed
\* handle with the teardown path": no send or receive meets a freed handle.
DataCallsLive == "data" \notin misuse

\* After destroyResources, and once the flows it may have deferred to are over,
\* nothing is left: no native connection, no TUN interface.
StoppedIsEmpty ==
  /\ \E s \in Stops : pc[s] = "done"
  /\ \A a \in Actors : pc[a] \in {"idle", "returned", "done"}
  => live = {} /\ vpnInterface = "none"

-----------------------------------------------------------------------------
(* The inductive invariant behind OneConnectFlow.                          *)

\* A reconnect that isReconnecting has let through and that is not over.
Admitted == Steps \ {"idle", "start", "done"}

\* Something that only a connected session starts.
Started == \/ vpnInterface = "read" \/ receiver # "off" \/ keepalive # "off"
           \/ \E r \in Reconnects : pc[r] # "idle"

Freeing == {"take", "clear", "force", "free"}

FlowInv ==
  /\ pc \in [Actors -> Steps] /\ after \in [Actors -> Steps]
  /\ \A r \in Reconnects : pc[r] \in Admitted => isReconnecting
  /\ \A r, q \in Reconnects : pc[r] \in Admitted /\ pc[q] \in Admitted => r = q
  /\ \A r \in Reconnects :
       pc[r] \in Freeing => after[r] \in {"gone", "finally", "failed", "disconnected"}
  /\ pc["connect"] \in Freeing => after["connect"] = "rethrow"
  /\ \A s \in Stops : pc[s] \in Freeing => after[s] = "done"
  /\ Started => pc["connect"] \in {"finally", "returned"}

\* Where a flow has the native connection to itself.
Busy == Building \cup Freeing \cup {"flag", "gone", "wait"}

\* The inductive invariant behind FlowsOwnHandle and NoOrphan until somebody calls
\* destroyResources: nativeHandle names the one connection there is, except
\* while a flow is freeing it.
OwnInv ==
  /\ nativeHandle \in Handles \cup {0} /\ local \in [Actors -> Handles \cup {0}]
  /\ (\A a \in Actors : pc[a] # "free") => live = {nativeHandle} \ {0}
  /\ \A a \in Actors :
       /\ pc[a] \in {"clear", "connecting"} => local[a] = nativeHandle
       /\ pc[a] = "free" => nativeHandle = 0 /\ local[a] # 0 /\ live = {local[a]}
       /\ pc[a] \in {"flag", "create", "gone", "wait"} => nativeHandle = 0
  /\ pc["connect"] \in {"idle", "begin", "rethrow", "failed", "backoff"}
       => nativeHandle = 0
  /\ HandlesOwned
=============================================================================
