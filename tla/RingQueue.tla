------------------------------ MODULE RingQueue ------------------------------
(***************************************************************************)
(* The ring, up to its first reset, implements the queue of FrameQueue.    *)
(***************************************************************************)
EXTENDS Ring, FiniteSets

\* The slots with a frame that the worker may still send: the I/O thread is not
\* filling it, the worker does not skip its length and has not just sent it.
Live(i) == /\ Rlen[i] > MinFrame
           /\ ~(ioPc \in IoFills /\ i = ioSlot)
           /\ \A n \in 1..Len(sent) : Rframe[i] # sent[n]

Waiting == {Rframe[i] : i \in {k \in 0..rsz-1 : Live(k)}}

FromPeer == {n \in 1..MaxPolls : Dir = "tx" \/ n \notin Foreign}

Queue == INSTANCE FrameQueue WITH
            Capacity <- rsz, Frames <- FromPeer, waiting <- Waiting, delivered <- sent

\* What goes into a ring comes out at most once, and only if it is the peer's,
\* whatever the two threads lose by the way.
ImplementsQueue == Queue!LossyQueue
=============================================================================
