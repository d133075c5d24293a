----------------------------- MODULE LossyLane -----------------------------
(***************************************************************************)
(* What a lane promises to the two taps at its ends: of the frames that go *)
(* in, each comes out at most once, with the length it had or one that the *)
(* limits of the lane account for, less the headers of every time that it  *)
(* was stripped again.  Frames may be lost, and may overtake each other;   *)
(* frames of other programs on the peer's host (number 0) come out as      *)
(* well.  What is out stays as it is.                                      *)
(***************************************************************************)
EXTENDS Integers, Sequences

CONSTANTS
    Lengths,    \* of the frames that go in
    Strays,     \* of frames of other programs on the peer's host
    Padded,     \* the length up to which the lane fills a frame
    Header      \* what one more stripping takes off

VARIABLES
    offered,    \* the lengths of the frames that went in
    brought,    \* what came out: records [num, ofA, len, again]
    room        \* the longest frame that fits; fixed

lane == <<offered, brought, room>>

Start == offered = <<>> /\ brought = <<>> /\ room \in Int

Cut(l) == IF l < room THEN l ELSE room

\* The lengths with which a frame of length l may come out.
Arrives(l) == {Cut(l)} \cup {a \in {Cut(Padded)} : l < a}

Offer == /\ \E l \in Lengths : offered' = Append(offered, l)
         /\ UNCHANGED <<brought, room>>

\* How often a frame that arrives with length l can be stripped again and have
\* something left.
Times(l) == 0..(l - 1) \div Header

Bring(n, l, k) ==
    /\ brought' = Append(brought, [num |-> n, ofA |-> TRUE, len |-> l - Header * k, again |-> k])
    /\ UNCHANGED <<offered, room>>

BringFrame == \E n \in 1..Len(offered) :
    /\ \A i \in 1..Len(brought) : brought[i].num # n
    /\ \E l \in Arrives(offered[n]) : \E k \in Times(l) : Bring(n, l, k)

BringStray == \E l \in Strays : \E k \in Times(l) : Bring(0, l, k)

Step == Offer \/ BringFrame \/ BringStray

Lossy == Start /\ [][Step]_lane
=============================================================================
