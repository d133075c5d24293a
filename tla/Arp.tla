-------------------------------- MODULE Arp --------------------------------
(***************************************************************************)
(* arp_request() of network.c: the supervisor thread asks for the MAC of   *)
(* the next hop of a peer while it sets up the peer's session, and         *)
(* fill_headers() puts what it got into the header of every frame the      *)
(* session will send.                                                      *)
(*                                                                         *)
(* The raw socket delivers every frame on the wire.  Of a frame only the   *)
(* bytes at the places of an ARP sender address are looked at: a frame is  *)
(* its sip (sender_ip) and smac (sender_mac), whatever it really is.       *)
(***************************************************************************)
EXTENDS Integers

CONSTANTS
    Frames,         \* what the wire may carry: records [sip, smac]
    MyIp, MyMac,    \* of the interface that asks
    NextHops,       \* the next hops of the peers, after getaddrinfo()
    ZeroIp, ZeroMac,
    ARP_TIMEOUT,    \* in seconds
    MaxTime,        \* bound on the seconds before and after the request
    MaxSignals      \* bound on recv() calls that a signal interrupts

ASSUME TimeAssumption == ARP_TIMEOUT \in Nat /\ MaxTime \in Nat /\ MaxSignals \in Nat
ASSUME ZeroAssumption == ZeroIp \notin NextHops

VARIABLES
    pc,         \* where the supervisor is in arp_request
    asking,     \* the next hop it asks for
    frame,      \* ether_frame, through the pointer arpreply
    now,        \* time(NULL)
    clk,        \* when the wait began
    ret,        \* what arp_request returned, once pc is "done"
    h_dest,     \* the result, hdr->eh.h_dest
    at,         \* history: when the frame in the buffer came in
    sentOk,     \* history: did sendto() take the request?
    signals     \* recv() calls interrupted so far

arp == <<pc, asking, frame, now, clk, ret, h_dest, at, sentOk, signals>>

\* arp_request() builds the request in ether_frame.
Request == [sip |-> MyIp, smac |-> MyMac]

\* Before the first request.
Idle == /\ pc = "idle" /\ asking = ZeroIp
        /\ frame = Request
        /\ now = 0 /\ clk = 0 /\ at = 0
        /\ ret = 0 /\ h_dest = ZeroMac
        /\ sentOk = FALSE /\ signals = 0

\* Fault: the headers are not zeroed.
AskStale(hop) ==
    /\ pc' = "resolve" /\ asking' = hop
    /\ frame' = Request
    /\ now' = 0 /\ clk' = 0 /\ at' = 0
    /\ ret' = 0 /\ UNCHANGED h_dest
    /\ sentOk' = FALSE /\ signals' = 0

\* fill_headers() zeroes the headers, then calls arp_request().  Time is counted
\* from there.
Ask(hop) ==
    /\ pc' = "resolve" /\ asking' = hop
    /\ frame' = Request
    /\ now' = 0 /\ clk' = 0 /\ at' = 0
    /\ ret' = 0 /\ h_dest' = ZeroMac
    /\ sentOk' = FALSE /\ signals' = 0

\* getaddrinfo() or inet_pton() may refuse the configured addresses.
Resolve == /\ pc = "resolve"
           /\ pc' \in {"send", "exited"}
           /\ UNCHANGED <<asking, frame, now, clk, ret, h_dest, at, sentOk, signals>>

Return(r) == pc' = "done" /\ ret' = r

\* A request that cannot be sent is reported, and arp_request returns 0.
SendFails == /\ pc = "send"
             /\ Return(0)
             /\ UNCHANGED <<asking, frame, now, clk, h_dest, at, sentOk, signals>>

Send == /\ pc = "send"
        /\ clk' = now /\ at' = now /\ sentOk' = TRUE /\ pc' = "wait"
        /\ UNCHANGED <<asking, frame, now, ret, h_dest, signals>>

\* The head of the loop: the frame in the buffer is from the one asked.
Answered == frame.sip = asking

\* Fault: the answer is not copied to the result.
ResolvedStale == /\ pc = "wait" /\ Answered
                 /\ Return(0)
                 /\ UNCHANGED <<asking, h_dest, frame, now, clk, at, sentOk, signals>>

Resolved == /\ pc = "wait" /\ Answered
            /\ h_dest' = frame.smac
            /\ Return(0)
            /\ UNCHANGED <<asking, frame, now, clk, at, sentOk, signals>>

\* A frame too short to reach the addresses leaves the buffer's as they were.
Recv == /\ pc = "wait" /\ ~Answered
        /\ frame' \in Frames \cup {frame} /\ at' = now
        /\ pc' = "timeout"
        /\ UNCHANGED <<asking, now, clk, ret, h_dest, sentOk, signals>>

\* Fault: only the address of the sender is cleared.
RecvClearsPart == /\ pc = "wait" /\ ~Answered
                  /\ signals < MaxSignals /\ signals' = signals + 1
                  /\ frame' = [frame EXCEPT !.sip = ZeroIp]
                  /\ UNCHANGED <<asking, pc, now, clk, ret, h_dest, at, sentOk>>

\* EINTR: the buffer is cleared, and the time-out is not looked at.
RecvInterrupted == /\ pc = "wait" /\ ~Answered
                   /\ signals < MaxSignals /\ signals' = signals + 1
                   /\ frame' = [sip |-> ZeroIp, smac |-> ZeroMac]
                   /\ UNCHANGED <<asking, pc, now, clk, ret, h_dest, at, sentOk>>

RecvFails == /\ pc = "wait" /\ ~Answered
             /\ Return(-1)
             /\ UNCHANGED <<asking, frame, now, clk, h_dest, at, sentOk, signals>>

\* Fault: an answer that came too late is taken.
TimeoutUnlessAnswered ==
    /\ pc = "timeout"
    /\ IF now - clk > ARP_TIMEOUT /\ ~Answered THEN Return(-1) ELSE pc' = "wait" /\ UNCHANGED ret
    /\ UNCHANGED <<asking, frame, now, clk, h_dest, at, sentOk, signals>>

\* Fault: nobody looks at the clock.
NoTimeout == /\ pc = "timeout" /\ pc' = "wait"
             /\ UNCHANGED <<asking, ret, frame, now, clk, h_dest, at, sentOk, signals>>

\* Only a frame that was received makes the loop look at the clock.
Timeout == /\ pc = "timeout"
           /\ IF now - clk > ARP_TIMEOUT THEN Return(-1) ELSE pc' = "wait" /\ UNCHANGED ret
           /\ UNCHANGED <<asking, frame, now, clk, h_dest, at, sentOk, signals>>

Tick == /\ pc \in {"send", "wait", "timeout"}
        /\ now - clk < MaxTime /\ now' = now + 1
        /\ UNCHANGED <<asking, pc, frame, clk, ret, h_dest, at, sentOk, signals>>

\* The locals of arp_request are gone; the result stays in the headers.
Leave == /\ pc' = "idle" /\ asking' = ZeroIp /\ frame' = Request
         /\ now' = 0 /\ clk' = 0 /\ at' = 0
         /\ ret' = 0 /\ sentOk' = FALSE /\ signals' = 0
         /\ UNCHANGED h_dest

arp_request == Resolve \/ Send \/ SendFails \/ Resolved \/ Recv \/ RecvInterrupted
               \/ RecvFails \/ Timeout

-----------------------------------------------------------------------------
\* The values that the variables range over.
ArpTypeOK ==
    /\ pc \in {"idle", "resolve", "send", "wait", "timeout", "done", "exited"}
    /\ asking \in NextHops \cup {ZeroIp}
    /\ frame \in Frames \cup {Request, [sip |-> ZeroIp, smac |-> ZeroMac]}
    /\ now \in 0..2*MaxTime /\ clk \in 0..now /\ at \in 0..now
    /\ ret \in {0, -1}
    /\ sentOk \in BOOLEAN /\ signals \in 0..MaxSignals

\* The destination address that fill_headers() is left with is that of a
\* frame whose sender is the next hop, or all zeroes: frames of other hosts,
\* an interrupted recv() and a failure never leak into the headers, and a
\* request that was answered is never reported with the zeroes.
DestIsNextHop ==
    pc = "done" => IF ret = 0 /\ sentOk
                     THEN \E f \in Frames \cup {Request} :
                             f.sip = asking /\ f.smac = h_dest
                     ELSE h_dest = ZeroMac

\* An answer that comes in after the time-out is never taken, although the
\* loop looks at the sender only after it has looked at the clock.
NoLateAnswer == pc = "done" /\ ret = 0 /\ sentOk => at - clk <= ARP_TIMEOUT
=============================================================================
