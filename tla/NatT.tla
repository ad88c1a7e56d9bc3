-------------------------------- MODULE NatT --------------------------------
(***************************************************************************)
(* The NAT-T rendezvous, nat_t_connect: a request is sent to the relay     *)
(* over an unreliable datagram socket until an answer to this transaction  *)
(* arrives, the time is up or another transport of the race has won.       *)
(*                                                                         *)
(* The relay and the network are external: requests and answers may be     *)
(* lost, delayed, duplicated and reordered, an answer may belong to an     *)
(* earlier transaction or come from another sender.  The contents of the   *)
(* packets (opcode, cookie, addresses) are abstracted to the verdict the   *)
(* parser reaches.  Time is counted in units of the send interval.         *)
(***************************************************************************)
EXTENDS Naturals

CONSTANTS
    NatTTimeout,    \* timeout_ms
    BackoffExp,     \* NAT_T_MAX_BACKOFF_EXP
    MaxAnswers      \* bound: datagrams the network delivers

VARIABLES
    nattPc,         \* "off", "open", "loop", "drain", "wait" or "returned"
    now, nextSend,  \* nat_t_tick_ms(), next_send_tick
    numTries,       \* num_tries
    asked,          \* the relay has received a request
    answers, spent, \* datagrams waiting to be read; how many there have been
    cancel,         \* *cancel_flag
    udpOpen,        \* is the rendezvous socket open?
    natt            \* return code, udp_fd >= 0, and the answer they rest on

nattVars == <<nattPc, now, nextSend, numTries, asked, answers, spent, cancel, udpOpen, natt>>
clockVars == <<now, nextSend, numTries, asked>>

Verdicts == {"ok", "same_lan", "error", "unusable"}
Answers == [relay : BOOLEAN, ours : BOOLEAN, verdict : Verdicts]
Failed(from) == [rc |-> "-1", fd |-> FALSE, from |-> from]

NatTInit == /\ nattPc = "off" /\ now = 0 /\ nextSend = 0 /\ numTries = 0 /\ asked = FALSE
            /\ answers = {} /\ spent = 0 /\ cancel = FALSE /\ udpOpen = FALSE
            /\ natt = [rc |-> "none", fd |-> FALSE, from |-> {}]

\* Relay name, relay address and socket: each may fail before the loop is entered.
NatTOpen ==
    /\ nattPc = "open"
    /\ \/ nattPc' = "returned" /\ natt' = Failed({}) /\ UNCHANGED udpOpen
       \/ nattPc' = "loop" /\ udpOpen' = TRUE /\ UNCHANGED natt
    /\ UNCHANGED <<clockVars, answers, spent, cancel>>

GiveUpLeaking ==
    /\ nattPc = "loop" /\ (now >= NatTTimeout \/ cancel)
    /\ nattPc' = "returned" /\ natt' = Failed({})
    /\ UNCHANGED <<clockVars, answers, spent, cancel, udpOpen>>

\* The head of the loop: time is up, or another transport has won; else read answers.
GiveUp ==
    /\ nattPc = "loop" /\ (now >= NatTTimeout \/ cancel)
    /\ nattPc' = "returned" /\ natt' = Failed({}) /\ udpOpen' = FALSE
    /\ UNCHANGED <<clockVars, answers, spent, cancel>>

GoOn ==
    /\ nattPc = "loop" /\ now < NatTTimeout /\ ~cancel /\ nattPc' = "drain"
    /\ UNCHANGED <<clockVars, answers, spent, cancel, udpOpen, natt>>

\* nat_t_parse_response: 1 success, 0 ignore, -1 definite error.
ParseAnyTransaction(a) ==
    IF a.verdict = "unusable" THEN "0" ELSE IF a.verdict = "error" THEN "-1" ELSE "1"

ParseResponse(a) ==
    IF ~a.ours \/ a.verdict = "unusable" THEN "0" ELSE IF a.verdict = "error" THEN "-1" ELSE "1"

\* One datagram of the drain loop.
ReadAnswer(a) ==
    /\ nattPc = "drain" /\ a \in answers /\ answers' = answers \ {a}
    /\ \/ /\ ~a.relay \/ ParseResponse(a) = "0"
          /\ UNCHANGED <<nattPc, udpOpen, natt>>
       \/ /\ a.relay /\ ParseResponse(a) = "1"
          /\ natt' = [rc |-> "0", fd |-> a.verdict = "ok", from |-> {a}]
          /\ udpOpen' = (a.verdict = "ok") /\ nattPc' = "returned"
       \/ /\ a.relay /\ ParseResponse(a) = "-1"
          /\ natt' = Failed({a}) /\ udpOpen' = FALSE /\ nattPc' = "returned"
    /\ UNCHANGED <<clockVars, spent, cancel>>

\* 2^max(num_tries, NAT_T_MAX_BACKOFF_EXP) intervals until the next request.
Backoff(tries) == 2 ^ (IF tries < BackoffExp THEN BackoffExp ELSE tries)

\* Nothing more to read: send the request when it is due (it may be lost), then poll.
SendRequest ==
    /\ nattPc = "drain" /\ answers = {} /\ nattPc' = "wait"
    /\ IF nextSend = 0 \/ now >= nextSend
         THEN /\ nextSend' = now + Backoff(numTries) /\ numTries' = numTries + 1
              /\ asked' \in {asked, TRUE}
         ELSE UNCHANGED <<nextSend, numTries, asked>>
    /\ UNCHANGED <<now, answers, spent, cancel, udpOpen, natt>>

\* poll() returns at once when there is something to read.
Wait ==
    /\ nattPc = "wait" /\ nattPc' = "loop"
    /\ now' = IF answers = {} THEN now + 1 ELSE now
    /\ UNCHANGED <<nextSend, numTries, asked, answers, spent, cancel, udpOpen, natt>>

\* The network delivers a datagram: an answer to a request the relay has received
\* (any number of times), or one that is not ours.
Delivered ==
    /\ nattPc \in {"loop", "drain", "wait"} /\ spent < MaxAnswers
    /\ \E a \in Answers : /\ a.relay /\ a.ours => asked
                          /\ answers' = answers \cup {a}
    /\ spent' = spent + 1
    /\ UNCHANGED <<nattPc, clockVars, cancel, udpOpen, natt>>

\* Another transport of the race wins.
Cancel ==
    /\ nattPc \in {"loop", "drain", "wait"} /\ ~cancel /\ cancel' = TRUE
    /\ UNCHANGED <<nattPc, clockVars, answers, spent, udpOpen, natt>>

NatTStep == NatTOpen \/ GiveUp \/ GoOn \/ SendRequest \/ Wait \/ \E a \in answers : ReadAnswer(a)
NatTNext == NatTStep \/ Delivered \/ Cancel

-----------------------------------------------------------------------------
\* The rendezvous socket is open while nat_t_connect runs, and afterwards exactly
\* when it was returned in udp_fd: no return path leaks it and none hands out a
\* descriptor it has closed.
RendezvousSocketOwned ==
    udpOpen <=> (nattPc \in {"loop", "drain", "wait"} \/ natt.fd)

\* Success or a definite refusal rests on the relay's answer to this transaction, not
\* on a stray or a late datagram.
RendezvousIsOurs ==
    \A a \in natt.from : a.relay /\ a.ours /\ asked

=============================================================================
