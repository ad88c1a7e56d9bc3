--------------------- MODULE ConnectionControllerProofs ---------------------
(***************************************************************************)
(* For any number of reconnects and of stops, at any time: the connect and *)
(* reconnect flows never build a connection at the same time; and until a  *)
(* stop begins they free every connection exactly once and lose none.      *)
(***************************************************************************)
EXTENDS ConnectionController, TLAPS

\* The actors are apart: connect() is no reconnect and no stop, and no stop is
\* a reconnect.
LEMMA ActorsAreApart ==
  /\ "connect" \in Actors /\ "connect" \in Flows
  /\ Reconnects \subseteq Actors /\ Stops \subseteq Actors
  /\ \A r \in Reconnects : r # "connect" /\ r \notin Stops
  /\ \A s \in Stops : s # "connect" /\ s \notin Reconnects
  /\ \A a \in Actors : a = "connect" \/ a \in Reconnects \/ a \in Stops
BY ControllerAssumption DEF ControllerAssumption, Actors, Flows

\* The steps by which an actor takes nativeHandle, clears it and frees the
\* connection keep the invariant: they go on where `after` says.
LEMMA FreeingKeepsInv ==
  ASSUME FlowInv, NEW a \in Actors, TakeHandle(a) \/ ClearHandle(a) \/ FreeHandle(a)
  PROVE  FlowInv'
BY ActorsAreApart DEF FlowInv, TakeHandle, ClearHandle, FreeHandle, Goto, Steps,
   Admitted, Started, Freeing, flags, loops, monitorVars

\* So do the steps that connect() and attemptReconnect() share.
LEMMA FlowStepKeepsInv ==
  ASSUME FlowInv, NEW a \in Flows, FlowStep(a)
  PROVE  FlowInv'
<1>0. a \in Actors /\ (a = "connect" \/ a \in Reconnects)
  BY DEF Flows, Actors
<1>1. CASE RaiseInFlight(a) \/ CreateHandle(a) \/ EnterConnect(a)
  <2>1. CASE a = "connect"
    BY <1>1, <2>1, ActorsAreApart DEF FlowInv, RaiseInFlight, CreateHandle, EnterConnect, Goto, Steps,
       Admitted, Started, Freeing, flags, loops, monitorVars
  <2>2. CASE a \in Reconnects
    BY <1>1, <2>2, ActorsAreApart DEF FlowInv, RaiseInFlight, CreateHandle, EnterConnect, Goto, Steps,
       Admitted, Started, Freeing, flags, loops, monitorVars
  <2>3. QED BY <1>0, <2>1, <2>2
<1>2. CASE LeaveConnect(a)
  <2>1. CASE a = "connect"
    BY <1>2, <2>1, ActorsAreApart DEF FlowInv, LeaveConnect, Teardown, Goto, Steps,
       Admitted, Started, Freeing, flags, loops, monitorVars
  <2>2. CASE a \in Reconnects
    BY <1>2, <2>2, ActorsAreApart DEF FlowInv, LeaveConnect, Teardown, Goto, Steps,
       Admitted, Started, Freeing, flags, loops, monitorVars
  <2>3. QED BY <1>0, <2>1, <2>2
<1>3. CASE Protect(a) \/ Dhcp(a) \/ Establish(a)
  <2>1. CASE a = "connect"
    BY <1>3, <2>1, ActorsAreApart DEF FlowInv, Protect, Dhcp, Establish, Goto, Steps,
       Admitted, Started, Freeing, flags, loops, monitorVars
  <2>2. CASE a \in Reconnects
    BY <1>3, <2>2, ActorsAreApart DEF FlowInv, Protect, Dhcp, Establish, Goto, Steps,
       Admitted, Started, Freeing, flags, loops, monitorVars
  <2>3. QED BY <1>0, <2>1, <2>2
<1>4. CASE Up(a)
  <2>1. CASE a = "connect"
    BY <1>4, <2>1, ActorsAreApart DEF FlowInv, Up, Goto, Steps,
       Admitted, Started, Freeing, flags, loops, monitorVars
  <2>2. CASE a \in Reconnects
    BY <1>4, <2>2, ActorsAreApart DEF FlowInv, Up, Goto, Steps,
       Admitted, Started, Freeing, flags, loops, monitorVars
  <2>3. QED BY <1>0, <2>1, <2>2
<1>5. QED BY <1>1, <1>2, <1>3, <1>4 DEF FlowStep

\* So do the steps of connect() itself.
LEMMA ConnectStepKeepsInv ==
  ASSUME FlowInv, ConnectStep
  PROVE  FlowInv'
BY ActorsAreApart DEF FlowInv, ConnectStep, ConnectStarts, PerformConnect, ConnectThrows,
   ConnectFinally, ConnectFails, ConnectRetries, Goto, Teardown, Steps,
   Admitted, Started, Freeing, flags, loops, monitorVars

\* So do the steps of attemptReconnect() itself.
LEMMA ReconnectStepKeepsInv ==
  ASSUME FlowInv, NEW r \in Reconnects, ReconnectStep(r)
  PROVE  FlowInv'
<1>1. CASE ReconnectStarts(r)
  BY <1>1, ActorsAreApart DEF FlowInv, ReconnectStarts, Goto, Steps,
     Admitted, Started, Freeing, flags, loops, monitorVars
<1>2. CASE ReconnectResets(r) \/ ReconnectWaits(r) \/ ReconnectGoesOn(r)
  BY <1>2, ActorsAreApart DEF FlowInv, ReconnectResets, ReconnectWaits, ReconnectGoesOn,
     Goto, Teardown, Steps, Admitted, Started, Freeing, flags, loops, monitorVars
<1>3. CASE ReconnectThrows(r) \/ ReconnectFails(r) \/ ReconnectFinally(r)
  BY <1>3, ActorsAreApart DEF FlowInv, ReconnectThrows, ReconnectFails, ReconnectFinally,
     Goto, Teardown, Steps, Admitted, Started, Freeing, flags, loops, monitorVars
<1>4. CASE Disconnect(r) \/ Disconnected(r)
  BY <1>4, ActorsAreApart DEF FlowInv, Disconnect, Disconnected,
     Goto, Teardown, Steps, Admitted, Started, Freeing, flags, loops, monitorVars
<1>5. QED BY <1>1, <1>2, <1>3, <1>4 DEF ReconnectStep

\* So do the steps of destroyResources(), whenever it is called.
LEMMA StopStepKeepsInv ==
  ASSUME FlowInv, NEW s \in Stops, StopStep(s)
  PROVE  FlowInv'
BY ActorsAreApart DEF FlowInv, StopStep, StopBegins, StopCloses, StopDefers,
   StopForceCloses, Goto, Teardown, Steps, Admitted, Started, Freeing, flags, loops,
   monitorVars

\* The data loops only launch reconnects, and only once connect() is through.
LEMMA LoopStepKeepsInv ==
  ASSUME FlowInv, LoopStep
  PROVE  FlowInv'
<1>1. ASSUME Launch, Started, UNCHANGED <<after, isReconnecting>>,
             vpnInterface' = "read" \/ receiver' # "off" \/ keepalive' # "off"
               => vpnInterface = "read" \/ receiver # "off" \/ keepalive # "off"
      PROVE  FlowInv'
  BY <1>1, ActorsAreApart DEF FlowInv, Launch, Goto, Steps, Admitted, Started, Freeing
<1>2. ASSUME UNCHANGED <<pc, after, isReconnecting>>,
             vpnInterface' = "read" \/ receiver' # "off" \/ keepalive' # "off"
               => vpnInterface = "read" \/ receiver # "off" \/ keepalive # "off"
      PROVE  FlowInv'
  BY <1>2 DEF FlowInv, Started
<1>3. QED BY <1>1, <1>2 DEF LoopStep, ReceiverChecks, ReceiverCalls, TunSends, TunFails,
     KeepaliveChecks, KeepaliveWakes, MonitorReads, MonitorCalls, MonitorSets,
     MonitorSleeps, loopFrame, flags, loops, monitorVars, Started

\* The strengthened invariant holds in every state of the controller.
THEOREM FlowInvariance == Spec => []FlowInv
<1>1. Init => FlowInv
  BY ActorsAreApart DEF Init, FlowInv, Steps, Admitted, Started, Freeing
<1>2. FlowInv /\ [Next]_vars => FlowInv'
  <2> SUFFICES ASSUME FlowInv, [Next]_vars PROVE FlowInv'
    OBVIOUS
  <2>1. CASE UNCHANGED vars
    BY <2>1 DEF FlowInv, Started, vars, flags, loops, monitorVars
  <2>2. QED BY <2>1, FreeingKeepsInv, FlowStepKeepsInv, ConnectStepKeepsInv,
       ReconnectStepKeepsInv, StopStepKeepsInv, LoopStepKeepsInv DEF Next
<1>3. QED BY <1>1, <1>2, PTL DEF Spec

\* isReconnecting and the order in which connect() starts the data loops keep
\* two flows from building a connection at once, whatever the stops do.
THEOREM FlowsTakeTurns == Spec => []OneConnectFlow
<1>1. FlowInv => OneConnectFlow
  BY ActorsAreApart DEF FlowInv, OneConnectFlow, Building, Flows, Admitted, Started, Steps
<1>2. QED BY <1>1, FlowInvariance, PTL

-----------------------------------------------------------------------------
(* Until a stop begins the flows own the native connection.                *)

\* Two flows are never busy with the native connection at once, and connect()
\* is through when a reconnect is.
LEMMA OneIsBusy ==
  ASSUME FlowInv, NoStop
  PROVE  /\ \A a, b \in Actors : pc[a] \in Busy /\ pc[b] \in Busy => a = b
         /\ \A r \in Reconnects : pc[r] # "idle" => pc["connect"] \in {"finally", "returned"}
BY ActorsAreApart DEF FlowInv, NoStop, Admitted, Started, Steps, Busy, Building, Freeing

\* Taking, clearing and freeing the handle keep the ownership invariant.
LEMMA FreeingKeepsOwn ==
  ASSUME FlowInv, NoStop, OwnInv, NEW a \in Actors,
         TakeHandle(a) \/ ClearHandle(a) \/ FreeHandle(a)
  PROVE  OwnInv'
<1>0. a \notin Stops
  BY DEF NoStop, TakeHandle, ClearHandle, FreeHandle
<1>1. CASE TakeHandle(a)
  BY <1>0, <1>1, OneIsBusy, ActorsAreApart, ControllerAssumption DEF FlowInv, OwnInv, TakeHandle,
     Goto, HandlesOwned, Busy, Building, Freeing, ControllerAssumption
<1>2. CASE ClearHandle(a)
  BY <1>0, <1>2, OneIsBusy, ActorsAreApart, ControllerAssumption DEF FlowInv, OwnInv, ClearHandle,
     Goto, HandlesOwned, Busy, Building, Freeing, ControllerAssumption
<1>3. CASE FreeHandle(a)
  BY <1>0, <1>3, OneIsBusy, ActorsAreApart, ControllerAssumption DEF FlowInv, OwnInv, FreeHandle,
     Goto, Call, HandlesOwned, Busy, Building, Freeing, ControllerAssumption
<1>4. QED BY <1>1, <1>2, <1>3

\* So do the steps that connect() and attemptReconnect() share.
LEMMA FlowStepKeepsOwn ==
  ASSUME FlowInv, NoStop, OwnInv, NEW a \in Flows, FlowStep(a)
  PROVE  OwnInv'
<1>0. a \in Actors /\ (a = "connect" \/ a \in Reconnects)
  BY DEF Flows, Actors
<1>1. CASE RaiseInFlight(a)
  BY <1>0, <1>1, OneIsBusy, ActorsAreApart DEF FlowInv, OwnInv, RaiseInFlight, Goto,
     HandlesOwned, Busy, Building, Freeing
<1>2. CASE CreateHandle(a)
  BY <1>0, <1>2, OneIsBusy, ActorsAreApart, ControllerAssumption DEF FlowInv, OwnInv,
     CreateHandle, Fresh, Goto, HandlesOwned, Busy, Building, Freeing, ControllerAssumption
<1>3. CASE EnterConnect(a)
  BY <1>0, <1>3, OneIsBusy, ActorsAreApart DEF FlowInv, OwnInv, EnterConnect, Call, Goto,
     HandlesOwned, Busy, Building, Freeing
<1>4. CASE LeaveConnect(a)
  BY <1>0, <1>4, OneIsBusy, ActorsAreApart DEF FlowInv, OwnInv, LeaveConnect, Call, Goto,
     Teardown, HandlesOwned, Busy, Building, Freeing
<1>5. CASE Protect(a) \/ Dhcp(a)
  BY <1>0, <1>5, OneIsBusy, ActorsAreApart DEF FlowInv, OwnInv, Protect, Dhcp, Call, Goto,
     HandlesOwned, Busy, Building, Freeing
<1>6. CASE Establish(a) \/ Up(a)
  BY <1>0, <1>6, OneIsBusy, ActorsAreApart DEF FlowInv, OwnInv, Establish, Up, Goto,
     HandlesOwned, Busy, Building, Freeing
<1>7. QED BY <1>1, <1>2, <1>3, <1>4, <1>5, <1>6 DEF FlowStep

\* So do the steps of connect() itself, which touch no handle.
LEMMA ConnectStepKeepsOwn ==
  ASSUME FlowInv, NoStop, OwnInv, ConnectStep
  PROVE  OwnInv'
BY OneIsBusy, ActorsAreApart DEF FlowInv, OwnInv, ConnectStep, ConnectStarts, PerformConnect,
   ConnectThrows, ConnectFinally, ConnectFails, ConnectRetries, Goto, Teardown,
   HandlesOwned

\* So do the steps of attemptReconnect() itself.
LEMMA ReconnectStepKeepsOwn ==
  ASSUME FlowInv, NoStop, OwnInv, NEW r \in Reconnects, ReconnectStep(r)
  PROVE  OwnInv'
<1>1. CASE ReconnectStarts(r) \/ ReconnectResets(r) \/ ReconnectWaits(r) \/ ReconnectGoesOn(r)
  BY <1>1, OneIsBusy, ActorsAreApart DEF FlowInv, OwnInv, ReconnectStarts, ReconnectResets,
     ReconnectWaits, ReconnectGoesOn, Goto, Teardown, HandlesOwned
<1>2. CASE ReconnectThrows(r) \/ ReconnectFails(r) \/ ReconnectFinally(r)
  BY <1>2, OneIsBusy, ActorsAreApart DEF FlowInv, OwnInv, ReconnectThrows, ReconnectFails,
     ReconnectFinally, Goto, Teardown, HandlesOwned
<1>3. CASE Disconnect(r) \/ Disconnected(r)
  BY <1>3, OneIsBusy, ActorsAreApart DEF FlowInv, OwnInv, Disconnect, Disconnected, Goto,
     Teardown, HandlesOwned
<1>4. QED BY <1>1, <1>2, <1>3 DEF ReconnectStep

\* The loops free nothing, and what they misuse is not a flow's call.
LEMMA LoopStepKeepsOwn ==
  ASSUME FlowInv, NoStop, OwnInv, LoopStep
  PROVE  OwnInv'
<1>1. /\ UNCHANGED <<live, nativeHandle, local>> /\ (Launch \/ UNCHANGED pc)
      /\ misuse' \subseteq misuse \cup {"data", "monitor"}
  BY DEF LoopStep, ReceiverChecks, ReceiverCalls, TunSends, TunFails, KeepaliveChecks,
     KeepaliveWakes, MonitorReads, MonitorCalls, MonitorSets, MonitorSleeps, loopFrame, Call
<1>2. HandlesOwned'
  BY <1>1 DEF OwnInv, HandlesOwned
<1>3. \A a \in Actors : pc'[a] = pc[a] \/ pc'[a] = "start"
  BY <1>1, ActorsAreApart DEF FlowInv, Launch, Goto
<1>4. pc'["connect"] = pc["connect"]
  BY <1>1, ActorsAreApart DEF FlowInv, Launch, Goto
<1>5. \A a \in Actors : pc[a] = "free" => pc'[a] = "free"
  BY <1>1, ActorsAreApart DEF FlowInv, Launch, Goto
<1>6. QED BY <1>1, <1>2, <1>3, <1>4, <1>5 DEF OwnInv

\* A call of destroyResources that has begun is never idle again.
LEMMA StopsStayBegun ==
  ASSUME FlowInv, [Next]_vars, NoStop'
  PROVE  NoStop
<1> SUFFICES ASSUME NEW s \in Stops, pc[s] # "idle"
             PROVE  pc'[s] # "idle"
  BY DEF NoStop
<1>1. \A a \in Actors : TakeHandle(a) \/ ClearHandle(a) \/ FreeHandle(a) => pc'[s] # "idle"
  BY ActorsAreApart DEF FlowInv, TakeHandle, ClearHandle, FreeHandle, Goto, Freeing
<1>2. \A a \in Flows : FlowStep(a) => pc'[s] = pc[s]
  BY ActorsAreApart DEF FlowInv, FlowStep, RaiseInFlight, CreateHandle, EnterConnect,
     LeaveConnect, Protect, Dhcp, Establish, Up, Goto, Teardown, Flows
<1>3. ConnectStep => pc'[s] = pc[s]
  BY ActorsAreApart DEF FlowInv, ConnectStep, ConnectStarts, PerformConnect, ConnectThrows,
     ConnectFinally, ConnectFails, ConnectRetries, Goto, Teardown
<1>4. \A r \in Reconnects : ReconnectStep(r) => pc'[s] = pc[s]
  BY ActorsAreApart DEF FlowInv, ReconnectStep, ReconnectStarts, ReconnectResets,
     ReconnectWaits, ReconnectGoesOn, ReconnectThrows, ReconnectFails, ReconnectFinally,
     Disconnect, Disconnected, Goto, Teardown
<1>5. \A q \in Stops : StopStep(q) => pc'[s] # "idle"
  BY ActorsAreApart DEF FlowInv, StopStep, StopBegins, StopCloses, StopDefers,
     StopForceCloses, Goto, Teardown
<1>6. LoopStep => pc'[s] = pc[s]
  <2>1. Launch => pc'[s] = pc[s]
    BY ActorsAreApart DEF FlowInv, Launch, Goto
  <2>2. QED BY <2>1 DEF LoopStep, ReceiverChecks, ReceiverCalls, TunSends, TunFails,
       KeepaliveChecks, KeepaliveWakes, MonitorReads, MonitorCalls, MonitorSets,
       MonitorSleeps, loopFrame
<1>7. QED BY <1>1, <1>2, <1>3, <1>4, <1>5, <1>6 DEF Next, vars

\* Until somebody calls destroyResources, the ownership invariant holds.
THEOREM OwnInvariance == Spec => [](NoStop => OwnInv)
<1>1. Init => OwnInv
  BY ActorsAreApart DEF Init, OwnInv, HandlesOwned
<1>2. FlowInv /\ (NoStop => OwnInv) /\ [Next]_vars => (NoStop => OwnInv)'
  <2> SUFFICES ASSUME FlowInv, NoStop => OwnInv, [Next]_vars, NoStop' PROVE OwnInv'
    OBVIOUS
  <2>0. NoStop /\ OwnInv
    BY StopsStayBegun
  <2>1. CASE UNCHANGED vars
    BY <2>0, <2>1 DEF OwnInv, HandlesOwned, vars
  <2>2. ASSUME NEW s \in Stops, StopStep(s) PROVE FALSE
    BY <2>0, <2>2, ActorsAreApart DEF FlowInv, NoStop, StopStep, StopBegins, StopCloses,
       StopDefers, StopForceCloses, Goto
  <2>3. QED BY <2>0, <2>1, <2>2, FreeingKeepsOwn, FlowStepKeepsOwn, ConnectStepKeepsOwn,
       ReconnectStepKeepsOwn, LoopStepKeepsOwn DEF Next
<1>3. QED BY <1>1, <1>2, FlowInvariance, PTL DEF Spec

\* Until then the connect and reconnect flows free every native connection
\* exactly once, and never under a call of theirs.
THEOREM FlowsOwnTheirHandles == Spec => []FlowsOwnHandle
<1>1. (NoStop => OwnInv) => FlowsOwnHandle
  BY DEF OwnInv, FlowsOwnHandle
<1>2. QED BY <1>1, OwnInvariance, PTL

\* Until then no native connection is forgotten, whatever fails in a flow.
THEOREM NoConnectionForgotten == Spec => []NoOrphan
<1>1. (NoStop => OwnInv) => NoOrphan
  BY DEF OwnInv, NoOrphan
<1>2. QED BY <1>1, OwnInvariance, PTL
=============================================================================
