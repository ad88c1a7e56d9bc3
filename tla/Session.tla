------------------------------ MODULE Session ------------------------------
(***************************************************************************)
(* The phases of one session in the order the code runs them: the TCP      *)
(* dial; when it fails, the NAT-T rendezvous; after the login, DHCP,       *)
(* gateway resolution and data.  TLS and login are the subject of          *)
(* Connection: here they succeed or end the session.  A phase starts from  *)
(* what the one before left behind, and a phase that is over is reset to   *)
(* the state its result needs.                                             *)
(***************************************************************************)
EXTENDS Dial, NatT, Bringup

VARIABLE phase      \* "dial", "natt", "bringup", "data" or "over"

vars == <<dialVars, nattVars, bringupVars, phase>>

Init == DialInit /\ NatTInit /\ BringupInit /\ phase = "dial"

\* The dial is over: its descriptor is the connection's from here on (Connection), or
\* there is none and the rendezvous starts.  NAT-T is for IPv4 servers only.
DialOver ==
    /\ phase = "dial" /\ dialPc \in {"connected", "failed"}
    /\ \/ /\ dialPc = "connected"
          /\ phase' = "bringup" /\ bpc' = "discover" /\ UNCHANGED nattPc
       \/ /\ dialPc = "failed" /\ preferred = "v4"
          /\ phase' = "natt" /\ nattPc' = "open" /\ UNCHANGED bpc
       \/ /\ dialPc = "connected" \/ preferred = "v6"       \* or TLS or the login fails
          /\ phase' = "over" /\ UNCHANGED <<bpc, nattPc>>
    /\ dialPc' = "off" /\ preferred' = "v4" /\ left' = <<>> /\ call' = "host"
    /\ families' = {} /\ dialled' = {}
    /\ connFd' = NoFd /\ fds' = fds \ {connFd}
    /\ UNCHANGED <<sock, now, nextSend, numTries, asked, answers, spent, cancel, udpOpen, natt,
                   queueVars, retry, elapsed, lease, assigned, gwIp, gwMac, gwCall, polls, up,
                   broken, lanVars>>

\* The rendezvous is over: its socket, if any, becomes the R-UDP transport's.
NatTOver ==
    /\ phase = "natt" /\ nattPc = "returned"
    /\ \/ natt.rc = "0" /\ phase' = "bringup" /\ bpc' = "discover"
       \/ phase' = "over" /\ UNCHANGED bpc
    /\ nattPc' = "off" /\ now' = 0 /\ nextSend' = 0 /\ numTries' = 0 /\ asked' = FALSE
    /\ answers' = {} /\ spent' = 0 /\ cancel' = FALSE /\ udpOpen' = FALSE
    /\ natt' = [rc |-> "none", fd |-> FALSE, from |-> {}]
    /\ UNCHANGED <<dialVars, queueVars, retry, elapsed, lease, assigned, gwIp, gwMac, gwCall,
                   polls, up, broken, lanVars>>

\* nativeDoDhcp has returned.  On success the packet loops start, on the queue as the
\* bring-up left it; from here on anything may come over the wire.
BringupOver ==
    /\ phase = "bringup" /\ bpc \in {"done", "failed"}
    /\ phase' = IF bpc = "done" /\ up /\ ~broken THEN "data" ELSE "over"
    /\ bpc' = "off" /\ elapsed' = 0 /\ lease' = NoLease /\ assigned' = NoAddr
    /\ gwIp' = NoAddr /\ gwMac' = NoAddr /\ gwCall' = 1 /\ polls' = 0
    /\ wire' = <<>> /\ todo' = Idle /\ bound' = {} /\ arpAsked' = {} /\ strays' = 0
    /\ retry' = 0 /\ UNCHANGED <<dialVars, nattVars, queueVars, up, broken>>

\* softether_receive and softether_receive_batch: fill an empty queue, take frames off
\* its head.
DataPhase == phase = "data" /\ QueueNext
             /\ UNCHANGED <<dialVars, nattVars, clientVars, lanVars, phase>>
DialPhase == phase = "dial" /\ DialNext /\ UNCHANGED <<nattVars, bringupVars, phase>>
NatTPhase == phase = "natt" /\ NatTNext /\ UNCHANGED <<dialVars, bringupVars, phase>>
BringupPhase == phase = "bringup" /\ BringupNext /\ UNCHANGED <<dialVars, nattVars, phase>>

Next == DialPhase \/ DialOver \/ NatTPhase \/ NatTOver \/ BringupPhase \/ BringupOver \/ DataPhase
Spec == Init /\ [][Next]_vars

\* The connecting thread runs on, the polls of each wait time out.  Nothing is assumed
\* of the relay, the servers or the other hosts.
ThreadRuns ==
    \/ DialPhase \/ DialOver \/ NatTOver \/ BringupOver
    \/ phase = "natt" /\ NatTStep /\ UNCHANGED <<dialVars, bringupVars, phase>>
    \/ phase = "bringup" /\ BringupStep /\ UNCHANGED <<dialVars, nattVars, phase>>
FairSpec == Spec /\ WF_vars(ThreadRuns)

-----------------------------------------------------------------------------
\* Setting up a session ends, in the data phase or in an error, whatever the network,
\* the relay and the DHCP servers do or fail to do, so long as the unrelated traffic is
\* finite (only an empty poll counts towards the DHCP timeout).
SetupReturns == <>(phase \in {"data", "over"})

=============================================================================
