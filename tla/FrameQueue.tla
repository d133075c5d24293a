----------------------------- MODULE FrameQueue -----------------------------
(***************************************************************************)
(* What the two threads of a ring promise together: a bounded queue that   *)
(* never repeats or invents a frame.  It may lose frames, and they may     *)
(* overtake each other.  A frame is the number of its arrival.             *)
(***************************************************************************)
EXTENDS Integers, Sequences, FiniteSets

CONSTANTS
    Capacity,   \* how many frames wait at most
    Frames      \* the frames that may be let through

VARIABLES
    waiting,    \* the frames in the queue
    delivered   \* those that left it, in the order in which they left

queue == <<waiting, delivered>>

Empty == waiting = {} /\ delivered = <<>>

\* A frame comes in.
Accept(f) ==
    /\ f \in Frames \ waiting
    /\ \A i \in 1..Len(delivered) : delivered[i] # f
    /\ Cardinality(waiting) < Capacity
    /\ waiting' = waiting \cup {f}
    /\ UNCHANGED delivered

\* Frames are lost: push grants the slot of one that still waits, and it is read
\* over.
Lose == /\ waiting' \in SUBSET waiting
        /\ UNCHANGED delivered

\* One of them.
Drop(f) == /\ waiting' = waiting \ {f}
           /\ UNCHANGED delivered

\* Fault: a frame that has left still waits.
DeliverAgain(f) ==
    /\ f \in waiting
    /\ delivered' = Append(delivered, f)
    /\ UNCHANGED waiting

\* A frame leaves.
Deliver(f) ==
    /\ f \in waiting
    /\ delivered' = Append(delivered, f)
    /\ waiting' = waiting \ {f}

Step == Lose \/ \E f \in Frames : Accept(f) \/ Deliver(f)

LossyQueue == Empty /\ [][Step]_queue
=============================================================================
