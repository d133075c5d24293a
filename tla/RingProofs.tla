----------------------------- MODULE RingProofs -----------------------------
(***************************************************************************)
(* Proofs about Ring, for every ring size, word width and residue: first   *)
(* what holds in every behaviour, resets included, then the locks.         *)
(*                                                                         *)
(* None of the properties is inductive.  Inv adds to them what each thread *)
(* knows about sz between the tests in push and pop and its own update:    *)
(* the I/O thread that found room still has it, since only itself adds;    *)
(* the worker that found a frame still has it, since only itself takes;    *)
(* and a value loaded for an update is out of date in one direction only.  *)
(***************************************************************************)
EXTENDS Ring, TLAPS

\* What the threads know about sz at each place of the code.
SzInv ==
    /\ sz <= Largest(rsz - 1, Residue)
    /\ ioPc \in {"fullin", "fullout", "grant", "ret", "sz", "szinc"} \cup IoFills
         => sz <= rsz - 2
    /\ ioPc # "szkeep"
    /\ ioPc = "szst" => sz <= ioReg /\ ioReg <= rsz - 1
    /\ wkPc \in {"emptyidx", "wrap", "unlock", "ret"} \cup WkScans
                 \cup {"len", "send", "clear", "sz", "szdec"} => sz >= 1
    /\ wkPc = "szst" => wkReg <= sz

\* The inductive invariant of the ring.
Inv == TypeOK /\ InBounds /\ SzInv

USE SizeAssumption, WidthAssumption, InputAssumption, ResidueAssumption

\* A value that fits uint32_t is not changed by its arithmetic.
LEMMA ModIdentity == \A n \in 0..UINT-1 : n % UINT = n
  OBVIOUS

\* Arithmetic on uint32_t, as done on in and sz, gives a uint32_t.
LEMMA ModRange == \A n \in Int : n % UINT \in 0..UINT-1
  OBVIOUS

\* Whatever the I/O thread adds to or subtracts from in, it stays a uint32_t.
LEMMA InStaysInRange ==
  ASSUME in \in 0..UINT-1, ioReg \in Int, PushIncStore \/ IoInAdd \/ IoInSub
  PROVE  in' \in 0..UINT-1
<1>1. ioReg + 1 \in Int /\ in + 1 \in Int /\ in - ioReg \in Int
  OBVIOUS
<1>2. QED
  BY <1>1, ModRange DEF PushIncStore, IoInAdd, IoInSub, SetIn

\* What the worker sends is a frame.
LEMMA SentIsFrames ==
  ASSUME sent \in Seq(Nat), Rframe[wkSlot] \in Nat, WkSend
  PROVE  sent' \in Seq(Nat)
  BY DEF WkSend

-----------------------------------------------------------------------------
\* Init establishes the invariant.
LEMMA InitInv == Init => Inv
<1> SUFFICES ASSUME Init PROVE Inv
  OBVIOUS
<1> USE DEF Largest, IoInside, IoScans, IoDecides, IoFills, IoPublishes,
            WkInside, WkScans, WkResets, WkDrains
<1>1. Rlock \in [0..rsz -> {0, 1}]
  BY DEF Init
<1>2. sent \in Seq(Nat)
  BY DEF Init
<1>3. TypeOK
  BY <1>1, <1>2 DEF Init, TypeOK
<1>4. InBounds /\ SzInv
  BY DEF Init, InBounds, SzInv
<1>5. QED
  BY <1>3, <1>4 DEF Inv

\* Every step of the I/O thread preserves it, and never lowers sz.
LEMMA IoInv == Inv /\ IoStep => Inv' /\ sz' >= sz
<1> SUFFICES ASSUME Inv, IoStep
             PROVE  Inv' /\ sz' >= sz
  OBVIOUS
<1> USE DEF Inv, TypeOK, InBounds, SzInv, Largest, IoInside, IoScans, IoDecides,
            IoFills, IoPublishes, WkInside, WkScans, WkResets, WkDrains
<1>0. UNCHANGED <<wkPc, wkReg, wkSlot, sent, rst>>
  BY DEF IoStep, wk
<1>1. CASE PushLock
  BY <1>0, <1>1 DEF PushLock, IoGo, SetLock, R
<1>2. CASE PushIndex
  BY <1>0, <1>2 DEF PushIndex, IoLoad, Q, R
<1>3. CASE PushSlot
  <2>1. ioPc = "slot" /\ UNCHANGED <<Rlen, Rframe, Q, polls>>
    BY <1>3 DEF PushSlot, Lock, SetRlock, R
  <2>2. Rlock' \in [0..rsz -> {0, 1}]
    BY <1>3 DEF PushSlot, Lock, SetRlock, R
  <2>3. /\ ioPc' \in {"crashed", "wrap", "skip"} /\ UNCHANGED ioSlot
        /\ ioReg' \in Int
    BY <1>3 DEF PushSlot, IoGo, IoLoad
  <2>4. TypeOK'
    BY <1>0, <2>1, <2>2, <2>3 DEF Q
  <2>5. InBounds' /\ SzInv' /\ sz' >= sz
    BY <1>0, <2>1, <2>3 DEF Q
  <2>6. QED
    BY <2>4, <2>5
<1>4. CASE PushSkip
  BY <1>0, <1>4 DEF PushSkip, IoGo, WrapIn, R, SetIn
<1>5. CASE PushIncLoad
  BY <1>0, <1>5 DEF PushIncLoad, IoLoad, Q, R
<1>6. CASE PushIncStore
  <2>1. in' \in 0..UINT-1 /\ UNCHANGED <<out, sz, lock, full, R, polls>>
    BY <1>6, InStaysInRange DEF PushIncStore, SetIn
  <2>2. ioPc' = "index" /\ ioReg' = 0 /\ UNCHANGED ioSlot /\ ioPc = "incst"
    BY <1>6 DEF PushIncStore, IoLoad
  <2>3. QED
    BY <1>0, <2>1, <2>2 DEF R
<1>7. CASE PushWrap
  BY <1>0, <1>7 DEF PushWrap, IoGo, WrapIn, R, SetIn
<1>8. CASE PushFullSz
  BY <1>0, <1>8 DEF PushFullSz, IoGo, Q, R
<1>9. CASE PushFullIn
  BY <1>0, <1>9 DEF PushFullIn, IoLoad, Q, R
<1>10. CASE PushFullOut
  BY <1>0, <1>10 DEF PushFullOut, IoLoad, Q, R
<1>11. CASE PushRefuse
  BY <1>0, <1>11 DEF PushRefuse, IoGo, SetFull, R
<1>12. CASE PushUnslotLoad
  BY <1>0, <1>12 DEF PushUnslotLoad, IoLoad, Q, R
<1>13. CASE PushUnslot
  <2>1. ioPc = "unslotst"
    BY <1>13 DEF PushUnslot
  <2>2. Rlock' \in [0..rsz -> {0, 1}] /\ UNCHANGED <<Rlen, Rframe, Q, polls>>
    BY <1>13 DEF PushUnslot, Unlock, SetRlock
  <2>3. ioPc' = "null" /\ ioReg' = 0 /\ UNCHANGED ioSlot
    BY <1>13 DEF PushUnslot, IoLoad
  <2>4. QED
    BY <1>0, <2>1, <2>2, <2>3 DEF Q
<1>14. CASE PushNull
  BY <1>0, <1>14 DEF PushNull, IoGo, SetLock, R
<1>15. CASE PushGrant
  BY <1>0, <1>15 DEF PushGrant, IoGo, SetLock, R
<1>16. CASE PushReturn
  BY <1>0, <1>16 DEF PushReturn, Q, R
<1>17. CASE IoRead
  BY <1>0, <1>17 DEF IoRead, IoLoad, Poll, SetRframe, Q
<1>18. CASE IoLen
  BY <1>0, <1>18 DEF IoLen, IoLoad, SetRlen, Q
<1>19. CASE IoReadError
  BY <1>0, <1>19 DEF IoReadError, IoGo, Poll, SetRlen, Q
<1>20. CASE IoNoInput
  BY <1>0, <1>20 DEF IoNoInput, IoGo, Poll, Q, R
<1>21. CASE IoCheck
  BY <1>0, <1>21 DEF IoCheck, IoGo, Usable, Q, R
<1>22. CASE IoStripLoad
  BY <1>0, <1>22 DEF IoStripLoad, IoLoad, ETHIP4, Q, R
<1>23. CASE IoStrip
  BY <1>0, <1>23 DEF IoStrip, IoLoad, SetRlen, Q
<1>24. CASE IoRelease
  BY <1>0, <1>24 DEF IoRelease, Unlock, Q, SetRlock
<1>25. CASE IoSzTest
  BY <1>0, <1>25 DEF IoSzTest, IoGo, Q, R
<1>26. CASE IoSzLoad
  <2>1. ioPc = "szinc" /\ sz + 1 \in 0..UINT-1
    BY <1>26 DEF IoSzLoad
  <2>2. ioReg' = sz + 1 /\ ioPc' = "szst" /\ UNCHANGED <<ioSlot, Q, R, polls>>
    BY <1>26, <2>1, ModIdentity DEF IoSzLoad, IoLoad
  <2>3. QED
    BY <1>0, <2>1, <2>2 DEF Q, R
<1>27. CASE IoSzStore
  BY <1>0, <1>27 DEF IoSzStore, IoLoad, SetSz, R
<1>28. CASE IoInAdd
  <2>1. in' \in 0..UINT-1 /\ UNCHANGED <<out, sz, lock, full, R, polls>>
    BY <1>28, InStaysInRange DEF IoInAdd, SetIn
  <2>2. ioPc' = "intest" /\ UNCHANGED <<ioReg, ioSlot>> /\ ioPc = "in"
    BY <1>28 DEF IoInAdd, IoGo
  <2>3. QED
    BY <1>0, <2>1, <2>2 DEF R
<1>29. CASE IoInTest
  BY <1>0, <1>29 DEF IoInTest, IoGo, Q, R
<1>30. CASE IoInLoad
  BY <1>0, <1>30 DEF IoInLoad, IoLoad, Q, R
<1>31. CASE IoInSub
  <2>1. in' \in 0..UINT-1 /\ UNCHANGED <<out, sz, lock, full, R, polls>>
    BY <1>31, InStaysInRange DEF IoInSub, SetIn
  <2>2. ioPc' = "push" /\ ioReg' = 0 /\ UNCHANGED ioSlot /\ ioPc = "insub"
    BY <1>31 DEF IoInSub, IoLoad
  <2>3. QED
    BY <1>0, <2>1, <2>2 DEF R
<1>32. QED
  BY <1>1, <1>2, <1>3, <1>4, <1>5, <1>6, <1>7, <1>8, <1>9, <1>10, <1>11, <1>12, <1>13,
       <1>14, <1>15, <1>16, <1>17, <1>18, <1>19, <1>20, <1>21, <1>22, <1>23, <1>24, <1>25,
       <1>26, <1>27, <1>28, <1>29, <1>30, <1>31 DEF IoStep, Io, Push, Fill

\* Every step of the worker preserves it, and never raises sz.
LEMMA WorkerInv == Inv /\ WorkerStep => Inv' /\ sz' <= sz
<1> SUFFICES ASSUME Inv, WorkerStep
             PROVE  Inv' /\ sz' <= sz
  OBVIOUS
<1> USE DEF Inv, TypeOK, InBounds, SzInv, Largest, IoInside, IoScans, IoDecides,
            IoFills, IoPublishes, WkInside, WkScans, WkResets, WkDrains
<1>0. UNCHANGED <<ioPc, ioReg, ioSlot, polls>> /\ rst' \in BOOLEAN
  BY DEF WorkerStep, io
<1>1. CASE PopLock
  BY <1>0, <1>1 DEF PopLock, WkGo, SetLock, R
<1>2. CASE PopEmptySz
  BY <1>0, <1>2 DEF PopEmptySz, WkGo, Q, R
<1>3. CASE PopEmptyIdx
  BY <1>0, <1>3 DEF PopEmptyIdx, WkGo, Q, R
<1>4. CASE PopZero
  BY <1>0, <1>4 DEF PopZero, WkGo, SetSz, R
<1>5. CASE PopUnlockEmpty
  BY <1>0, <1>5 DEF PopUnlockEmpty, WkGo, SetLock, R
<1>6. CASE PopFull
  BY <1>0, <1>6 DEF PopFull, WkGo, Q, R
<1>7. CASE PopWrap
  BY <1>0, <1>7 DEF PopWrap, WkGo, SetOut, R
<1>8. CASE PopScan
  BY <1>0, <1>8 DEF PopScan, WkGo, Q, R
<1>9. CASE PopSlot
  <2>1. wkPc = "slot" /\ out \in 0..rsz-1
    BY <1>9 DEF PopSlot
  <2>2. Rlock' \in [0..rsz -> {0, 1}] /\ UNCHANGED <<Rlen, Rframe, Q, sent>>
    BY <1>9, <2>1 DEF PopSlot, Lock, SetRlock, R
  <2>3. wkPc' \in {"unlock", "next"} /\ UNCHANGED <<wkReg, wkSlot>>
    BY <1>9 DEF PopSlot, WkGo
  <2>4. QED
    BY <1>0, <2>1, <2>2, <2>3 DEF Q
<1>10. CASE PopNext
  BY <1>0, <1>10 DEF PopNext, WkGo, SetOut, R
<1>11. CASE PopUnlock
  BY <1>0, <1>11 DEF PopUnlock, WkGo, SetLock, R
<1>12. CASE PopReturn
  BY <1>0, <1>12 DEF PopReturn, SetOut, R
<1>13. CASE ResetIn
  BY <1>0, <1>13 DEF ResetIn, WkGo, SetIn, R
<1>14. CASE ResetOut
  BY <1>0, <1>14 DEF ResetOut, WkGo, SetOut, R
<1>15. CASE ResetSz
  BY <1>0, <1>15 DEF ResetSz, WkGo, SetSz, R
<1>16. CASE ResetLock
  BY <1>0, <1>16 DEF ResetLock, WkGo, SetLock, R
<1>17. CASE ResetFull
  BY <1>0, <1>17 DEF ResetFull, WkLoad, SetFull, R
<1>18. CASE ResetLen
  <2>1. wkReg \in 0..rsz-1 /\ wkPc = "rlen"
    BY <1>18 DEF ResetLen
  <2>2. Rlen' \in [0..rsz-1 -> Int] /\ UNCHANGED <<Rlock, Rframe, Q, sent>>
    BY <1>18, <2>1 DEF ResetLen, SetRlen
  <2>3. /\ UNCHANGED wkSlot
        /\ \/ wkPc' = "rlen" /\ wkReg' = wkReg + 1 /\ wkReg + 1 < rsz
           \/ wkPc' = "wait" /\ wkReg' = 0
    BY <1>18 DEF ResetLen, WkLoad
  <2>4. QED
    BY <1>0, <2>1, <2>2, <2>3 DEF Q
<1>19. CASE WkWait
  BY <1>0, <1>19 DEF WkWait, WkGo, Q, R
<1>20. CASE WkLen
  BY <1>0, <1>20 DEF WkLen, WkGo, MinFrame, Q, R
<1>21. CASE WkSend
  <2>1. Rframe[wkSlot] \in Nat
    OBVIOUS
  <2>2. sent' \in Seq(Nat)
    BY <1>21, <2>1, SentIsFrames
  <2>3. wkPc = "send" /\ wkPc' = "clear" /\ UNCHANGED <<wkReg, wkSlot, Q, R>>
    BY <1>21 DEF WkSend, WkGo
  <2>4. QED
    BY <1>0, <2>2, <2>3 DEF Q, R
<1>22. CASE WkClear
  BY <1>0, <1>22 DEF WkClear, WkGo, SetRlen, Q
<1>23. CASE WkSzTest
  BY <1>0, <1>23 DEF WkSzTest, WkGo, WkLoad, Q, R
<1>24. CASE WkSzLoad
  <2>1. wkPc = "szdec" /\ sz - 1 \in 0..UINT-1
    BY <1>24 DEF WkSzLoad
  <2>2. wkReg' = sz - 1 /\ wkPc' = "szst" /\ UNCHANGED <<wkSlot, Q, R, sent>>
    BY <1>24, <2>1, ModIdentity DEF WkSzLoad, WkLoad
  <2>3. QED
    BY <1>0, <2>1, <2>2 DEF Q, R
<1>25. CASE WkSzStore
  BY <1>0, <1>25 DEF WkSzStore, WkLoad, SetSz, R
<1>26. CASE WkRelease
  BY <1>0, <1>26 DEF WkRelease, Unlock, Q, SetRlock
<1>27. QED
  BY <1>1, <1>2, <1>3, <1>4, <1>5, <1>6, <1>7, <1>8, <1>9, <1>10, <1>11, <1>12, <1>13,
       <1>14, <1>15, <1>16, <1>17, <1>18, <1>19, <1>20, <1>21, <1>22, <1>23, <1>24, <1>25,
       <1>26 DEF WorkerStep, Worker, Pop, Reset, Drain

\* Inv implies the properties that the runs check.
LEMMA InvImplies == Inv => SzInRange /\ ClampsIdle /\ PopLocksSlot
  BY DEF Inv, TypeOK, SzInv, SzInRange, ClampsIdle, PopLocksSlot, WkScans

\* Every step of push, pop, reset_ring and the loops around them preserves the
\* inductive invariant.
LEMMA NextInv == Inv /\ [Next]_vars => Inv'
<1> SUFFICES ASSUME Inv, [Next]_vars PROVE Inv'
  OBVIOUS
<1>1. CASE IoStep
  BY <1>1, IoInv
<1>2. CASE WorkerStep
  BY <1>2, WorkerInv
<1>3. CASE UNCHANGED vars
  BY <1>3 DEF vars, Q, R, io, wk, Inv, TypeOK, InBounds, SzInv
<1>4. QED
  BY <1>1, <1>2, <1>3 DEF Next

\* The inductive invariant holds throughout every behaviour of the ring.
LEMMA InvAlways == Spec => []Inv
<1>1. Init => Inv
  BY InitInv
<1>2. Inv /\ [Next]_vars => Inv'
  BY NextInv
<1>3. QED
  BY <1>1, <1>2, PTL DEF Spec

\* The fields of the queue and of its slots, and what the two threads hold of
\* them, keep their types through all races on in, out and sz.
THEOREM TypeCorrect == Spec => []TypeOK
<1>1. Inv => TypeOK
  BY DEF Inv
<1>2. QED
  BY InvAlways, <1>1, PTL

\* Past the scan of push, every index with which push, pop and reset_ring
\* address q->R is that of a slot, whatever init_ring_buffer left in in and
\* out and whatever a concurrent reset_ring stores.
THEOREM AccessesInBounds == Spec => []InBounds
<1>1. Inv => InBounds
  BY DEF Inv
<1>2. QED
  BY InvAlways, <1>1, PTL

\* q->sz, updated by both threads with no lock, never underflows and never
\* exceeds what push allows (or what init_ring_buffer left in it).
THEOREM CountInRange == Spec => []SzInRange
  BY InvAlways, InvImplies, PTL

\* The clamps around the updates of q->sz in tx_io, rx_io, tx and rx are never
\* needed, although each is a test, a load and a store with no lock.
THEOREM ClampsNeverNeeded == Spec => []ClampsIdle
  BY InvAlways, InvImplies, PTL

\* pop never leaves its scan without a slot it has locked, although the other
\* thread writes q->sz during the scan.
THEOREM PopReturnsLockedSlot == Spec => []PopLocksSlot
  BY InvAlways, InvImplies, PTL

\* The racing updates of q->sz lose each other's effect but never reverse it:
\* the I/O thread never lowers it and the worker never raises it.
THEOREM CountOneWay == Spec => SzOneWay
<1>1. Inv /\ [Next]_vars => [(IoStep => sz' >= sz) /\ (WorkerStep => sz' <= sz)]_vars
  BY IoInv, WorkerInv
<1>2. QED
  BY InvAlways, <1>1, PTL DEF Spec, SzOneWay

-----------------------------------------------------------------------------
(***************************************************************************)
(* The lock discipline up to the first reset_ring, if in and out start     *)
(* inside the ring.                                                        *)
(*                                                                         *)
(* Who holds a slot depends on in and out, which each thread also moves    *)
(* while the other is at work, so the argument is about them: in moves     *)
(* only while the I/O thread holds no slot; out wraps at rsz - 1, so the   *)
(* worker never takes the last slot, and push, which skips at most the     *)
(* worker's slot, never runs past the end; pop skips a locked slot only    *)
(* where in has wrapped to the first one.                                  *)
(***************************************************************************)

\* q->lock is held exactly inside push and pop.
MutexInv ==
    /\ lock = 1 <=> (ioPc \in IoInside \/ wkPc \in WkInside)
    /\ ~(ioPc \in IoInside /\ wkPc \in WkInside)

\* Where in is, and that what the I/O thread loaded of it is still its value.
IoIndexInv ==
    /\ ioPc # "crashed"
    /\ in <= rsz
    /\ ioPc \notin {"intest", "inload", "insub"} => in < rsz
    /\ ioPc \in {"slot", "incst", "unslotst", "insub"} => ioReg = in
    /\ ioPc \in {"skip", "inc", "incst"} => in <= rsz - 2
    /\ ioPc \in IoFills => ioSlot = in

\* The I/O thread has locked a slot and given up q->lock.
IoKeeps == ioPc \in {"ret"} \cup IoFills

\* Where out is, and how it keeps clear of the slot the I/O thread fills.
WkIndexInv ==
    /\ wkPc \notin WkResets
    /\ wkPc \in WkScans \cup {"unlock", "ret"} => out <= rsz - 2
    /\ wkPc \in WkDrains => wkSlot <= rsz - 2
    /\ wkPc = "wrap" /\ IoKeeps => in # out
    /\ wkPc \in {"scan", "slot"} /\ IoKeeps => in # out \/ out = 0
    /\ wkPc = "next" => out = 0 /\ (IoKeeps => in = 0)

\* A slot is locked exactly by the one thread that holds it.
OwnInv == \A i \in 0..rsz-1 : /\ Rlock[i] = 1 <=> (IoHolds(i) \/ WkHolds(i))
                              /\ ~(IoHolds(i) /\ WkHolds(i))

\* With Inv, inductive up to the first reset.
LockInv == MutexInv /\ IoIndexInv /\ WkIndexInv /\ OwnInv

-----------------------------------------------------------------------------
\* The two wraps of in inside push find nothing to wrap.
LEMMA WrapIdle ==
  ASSUME Inv, LockInv, PushSkip \/ PushWrap
  PROVE  UNCHANGED in
<1>1. ioPc \in {"skip", "wrap"} /\ in' = IF in >= rsz THEN 0 ELSE in
  BY DEF PushSkip, PushWrap, WrapIn, SetIn
<1>2. in \in Nat /\ in < rsz
  BY <1>1 DEF LockInv, IoIndexInv, Inv, TypeOK
<1>3. QED
  BY <1>1, <1>2

\* push takes a slot nobody holds, or skips the slot the worker holds, which
\* is not the last one.
LEMMA PushSlotLocks ==
  ASSUME Inv, LockInv, PushSlot, UNCHANGED <<wkPc, wkReg, wkSlot>>
  PROVE  LockInv'
<1>1. ioPc = "slot" /\ UNCHANGED <<in, out, sz, lock, full>>
  BY DEF PushSlot, Q
<1>2. ioReg = in /\ in < rsz
  BY <1>1 DEF LockInv, IoIndexInv
<1>3. in \in 0..rsz-1 /\ Rlock \in [0..rsz -> {0, 1}] /\ wkSlot \in 0..rsz-1 /\ out \in Nat
  BY <1>2 DEF Inv, TypeOK, Largest
<1>4. ioPc \in IoInside /\ ioPc \notin IoDecides \cup IoFills \cup {"wrap", "ret"}
  BY <1>1 DEF IoInside, IoScans, IoDecides, IoFills
<1>5. wkPc \notin WkInside
  BY <1>4 DEF LockInv, MutexInv
<1>6. Rlock[in] = 1 <=> WkHolds(in)
  BY <1>3, <1>4 DEF LockInv, OwnInv, IoHolds
<1>7. CASE Rlock[in] = 0
  <2>1. ioPc' = "wrap" /\ UNCHANGED ioSlot /\ Rlock' = [Rlock EXCEPT ![in] = 1]
    BY <1>1, <1>2, <1>3, <1>7 DEF PushSlot, Lock, SetRlock, IoLoad
  <2>2. MutexInv'
    BY <1>1, <1>4, <2>1 DEF LockInv, MutexInv, IoInside
  <2>3. IoIndexInv'
    BY <1>1, <1>2, <2>1 DEF LockInv, IoIndexInv, IoFills
  <2>4. WkIndexInv'
    BY <1>1, <1>4, <2>1 DEF LockInv, WkIndexInv, IoKeeps, IoFills
  <2>5. \A i \in 0..rsz-1 : IoHolds(i)' <=> i = in
    BY <1>1, <2>1 DEF IoHolds, IoFills
  <2>6. \A i \in 0..rsz-1 : WkHolds(i)' <=> WkHolds(i)
    BY <1>1 DEF WkHolds
  <2>7. \A i \in 0..rsz-1 : ~IoHolds(i)
    BY <1>4 DEF IoHolds
  <2>8. OwnInv'
    BY <1>3, <1>6, <1>7, <2>1, <2>5, <2>6, <2>7 DEF LockInv, OwnInv
  <2>9. QED
    BY <2>2, <2>3, <2>4, <2>8 DEF LockInv
<1>8. CASE Rlock[in] = 1
  <2>1. ioPc' = "skip" /\ UNCHANGED <<ioSlot, Rlock>>
    BY <1>1, <1>2, <1>3, <1>8 DEF PushSlot, IoLoad, R
  <2>2. in <= rsz - 2
    BY <1>5, <1>6, <1>8 DEF LockInv, WkIndexInv, WkHolds, WkInside
  <2>3. MutexInv'
    BY <1>1, <1>4, <2>1 DEF LockInv, MutexInv, IoInside, IoScans
  <2>4. IoIndexInv'
    BY <1>1, <1>2, <2>1, <2>2 DEF LockInv, IoIndexInv, IoFills
  <2>5. WkIndexInv'
    BY <1>1, <1>4, <2>1 DEF LockInv, WkIndexInv, IoKeeps, IoFills
  <2>6. \A i \in 0..rsz-1 : ~IoHolds(i)' /\ ~IoHolds(i)
    BY <1>4, <2>1 DEF IoHolds, IoDecides, IoFills
  <2>7. OwnInv'
    BY <1>1, <2>1, <2>6 DEF LockInv, OwnInv, WkHolds
  <2>8. QED
    BY <2>3, <2>4, <2>5, <2>7 DEF LockInv
<1>9. QED
  BY <1>3, <1>7, <1>8

\* The I/O thread moves in only while it holds no slot, and to a slot (or, for
\* a moment, one past the last).
LEMMA IoMovesIn ==
  ASSUME Inv, LockInv, PushIncStore \/ IoInAdd \/ IoInSub,
         UNCHANGED <<wkPc, wkReg, wkSlot>>
  PROVE  LockInv'
<1>1. /\ ioPc \in {"incst", "in", "insub"} /\ UNCHANGED <<out, sz, lock, full, Rlock, ioSlot>>
      /\ ioPc = "incst" => PushIncStore /\ ioPc' = "index"
      /\ ioPc = "in" => IoInAdd /\ ioPc' = "intest"
      /\ ioPc = "insub" => IoInSub /\ ioPc' = "push"
  BY DEF PushIncStore, IoInAdd, IoInSub, IoLoad, IoGo, SetIn, R
<1>2. in \in Nat /\ in <= rsz /\ ioReg \in Int
  BY DEF Inv, TypeOK, LockInv, IoIndexInv
<1>3. /\ in' \in Nat /\ in' <= rsz
      /\ ioPc # "in" => in' < rsz
  <2>1. CASE ioPc = "incst"
    <3>1. ioReg = in /\ in <= rsz - 2
      BY <2>1 DEF LockInv, IoIndexInv
    <3>2. in' = (in + 1) % UINT /\ in + 1 \in 0..UINT-1
      BY <1>1, <1>2, <2>1, <3>1 DEF PushIncStore, SetIn
    <3>3. in' = in + 1
      BY <3>2, ModIdentity
    <3>4. QED
      BY <1>2, <3>1, <3>3
  <2>2. CASE ioPc = "in"
    <3>1. in < rsz
      BY <2>2 DEF LockInv, IoIndexInv
    <3>2. in' = (in + 1) % UINT /\ in + 1 \in 0..UINT-1
      BY <1>1, <1>2, <2>2, <3>1 DEF IoInAdd, SetIn
    <3>3. in' = in + 1
      BY <3>2, ModIdentity
    <3>4. QED
      BY <1>2, <2>2, <3>1, <3>3
  <2>3. CASE ioPc = "insub"
    <3>1. ioReg = in
      BY <2>3 DEF LockInv, IoIndexInv
    <3>2. in' = 0 % UINT /\ 0 \in 0..UINT-1
      BY <1>1, <1>2, <2>3, <3>1 DEF IoInSub, SetIn
    <3>3. in' = 0
      BY <3>2, ModIdentity
    <3>4. QED
      BY <3>3
  <2>4. QED
    BY <1>1, <2>1, <2>2, <2>3
<1>4. MutexInv'
  BY <1>1 DEF LockInv, MutexInv, IoInside, IoScans, IoDecides
<1>5. IoIndexInv'
  BY <1>1, <1>3 DEF IoIndexInv, IoFills
<1>6. WkIndexInv'
  BY <1>1 DEF LockInv, WkIndexInv, IoKeeps, IoFills
<1>7. \A i \in 0..rsz-1 : ~IoHolds(i)' /\ ~IoHolds(i) /\ (WkHolds(i)' <=> WkHolds(i))
  BY <1>1 DEF IoHolds, WkHolds, IoDecides, IoFills
<1>8. OwnInv'
  BY <1>1, <1>7 DEF LockInv, OwnInv
<1>9. QED
  BY <1>4, <1>5, <1>6, <1>8 DEF LockInv

\* pop takes a slot nobody holds, or skips the slot the I/O thread holds,
\* which then is the first one.
LEMMA PopSlotLocks ==
  ASSUME Inv, LockInv, PopSlot, UNCHANGED <<ioPc, ioReg, ioSlot>>
  PROVE  LockInv'
<1>1. wkPc = "slot" /\ UNCHANGED <<in, out, sz, lock, full>>
  BY DEF PopSlot, Q
<1>2. out <= rsz - 2
  BY <1>1 DEF LockInv, WkIndexInv, WkScans
<1>3. out \in 0..rsz-1 /\ Rlock \in [0..rsz -> {0, 1}]
  BY <1>2 DEF Inv, TypeOK, Largest
<1>4. wkPc \in WkInside /\ wkPc \notin WkDrains \cup {"unlock", "ret"}
  BY <1>1 DEF WkInside, WkScans, WkDrains
<1>5. ioPc \notin IoInside
  BY <1>4 DEF LockInv, MutexInv
<1>6. Rlock[out] = 1 <=> IoHolds(out)
  BY <1>3, <1>4 DEF LockInv, OwnInv, WkHolds
<1>7. CASE Rlock[out] = 0
  <2>1. wkPc' = "unlock" /\ UNCHANGED wkSlot /\ Rlock' = [Rlock EXCEPT ![out] = 1]
    BY <1>1, <1>7 DEF PopSlot, Lock, SetRlock, WkGo
  <2>2. MutexInv'
    BY <1>1, <1>4, <2>1 DEF LockInv, MutexInv, WkInside
  <2>3. IoIndexInv'
    BY <1>1 DEF LockInv, IoIndexInv
  <2>4. WkIndexInv'
    BY <1>1, <1>2, <2>1 DEF LockInv, WkIndexInv, IoKeeps, WkScans, WkResets, WkDrains
  <2>5. \A i \in 0..rsz-1 : WkHolds(i)' <=> i = out
    BY <1>1, <2>1 DEF WkHolds, WkDrains
  <2>6. \A i \in 0..rsz-1 : IoHolds(i)' <=> IoHolds(i)
    BY <1>1 DEF IoHolds
  <2>7. \A i \in 0..rsz-1 : ~WkHolds(i)
    BY <1>4 DEF WkHolds
  <2>8. OwnInv'
    BY <1>3, <1>6, <1>7, <2>1, <2>5, <2>6, <2>7 DEF LockInv, OwnInv
  <2>9. QED
    BY <2>2, <2>3, <2>4, <2>8 DEF LockInv
<1>8. CASE Rlock[out] = 1
  <2>1. wkPc' = "next" /\ UNCHANGED <<wkSlot, Rlock>>
    BY <1>1, <1>8 DEF PopSlot, WkGo, R
  <2>2. IoKeeps /\ in = out
    BY <1>5, <1>6, <1>8 DEF LockInv, IoIndexInv, IoHolds, IoKeeps, IoInside
  <2>3. out = 0
    BY <1>1, <2>2 DEF LockInv, WkIndexInv
  <2>4. MutexInv'
    BY <1>1, <1>4, <2>1 DEF LockInv, MutexInv, WkInside, WkScans
  <2>5. IoIndexInv'
    BY <1>1 DEF LockInv, IoIndexInv
  <2>6. WkIndexInv'
    BY <1>1, <1>2, <2>1, <2>2, <2>3 DEF LockInv, WkIndexInv, IoKeeps, WkScans, WkResets,
         WkDrains
  <2>7. \A i \in 0..rsz-1 : ~WkHolds(i)' /\ ~WkHolds(i)
    BY <1>4, <2>1 DEF WkHolds, WkDrains
  <2>8. OwnInv'
    BY <1>1, <2>1, <2>7 DEF LockInv, OwnInv, IoHolds
  <2>9. QED
    BY <2>4, <2>5, <2>6, <2>8 DEF LockInv
<1>9. QED
  BY <1>3, <1>7, <1>8

\* Moving out keeps the worker off the I/O thread's slot and off the last one.
LEMMA PopMovesOut ==
  ASSUME Inv, LockInv, PopWrap \/ PopNext, UNCHANGED <<ioPc, ioReg, ioSlot>>
  PROVE  LockInv'
<1>1. /\ wkPc \in {"wrap", "next"} /\ wkPc' = "scan"
      /\ UNCHANGED <<in, sz, lock, full, Rlock, wkSlot>>
  BY DEF PopWrap, PopNext, WkGo, SetOut, R
<1>2. out \in Nat /\ in \in Nat
  BY DEF Inv, TypeOK, Largest
<1>3. /\ out' \in Nat /\ out' <= rsz - 2
      /\ IoKeeps => in # out' \/ out' = 0
  <2>1. CASE PopWrap
    <3>1. wkPc = "wrap" /\ out' = IF out >= rsz - 1 THEN 0 ELSE out
      BY <2>1 DEF PopWrap, SetOut
    <3>2. IoKeeps => in # out
      BY <3>1 DEF LockInv, WkIndexInv
    <3>3. QED
      BY <1>2, <3>1, <3>2
  <2>2. CASE PopNext
    <3>1. wkPc = "next" /\ out' = IF out >= rsz - 1 THEN 0 ELSE out + 1
      BY <2>2 DEF PopNext, SetOut
    <3>2. out = 0 /\ (IoKeeps => in = 0)
      BY <3>1 DEF LockInv, WkIndexInv
    <3>3. QED
      BY <3>1, <3>2
  <2>3. QED
    BY <2>1, <2>2
<1>4. MutexInv'
  BY <1>1 DEF LockInv, MutexInv, WkInside, WkScans
<1>5. IoIndexInv'
  BY <1>1 DEF LockInv, IoIndexInv
<1>6. WkIndexInv'
  BY <1>1, <1>3 DEF WkIndexInv, IoKeeps, WkScans, WkResets, WkDrains
<1>7. \A i \in 0..rsz-1 : ~WkHolds(i)' /\ ~WkHolds(i) /\ (IoHolds(i)' <=> IoHolds(i))
  BY <1>1 DEF WkHolds, WkDrains, IoHolds
<1>8. OwnInv'
  BY <1>1, <1>7 DEF LockInv, OwnInv
<1>9. QED
  BY <1>4, <1>5, <1>6, <1>8 DEF LockInv

\* The worker unlocks the slot it holds, not the I/O thread's.
LEMMA WkReleaseLocks ==
  ASSUME Inv, LockInv, WkRelease, UNCHANGED <<ioPc, ioReg, ioSlot>>
  PROVE  LockInv'
<1>1. /\ wkPc = "release" /\ wkPc' = "pop" /\ UNCHANGED <<in, out, sz, lock, full>>
      /\ Rlock' = [Rlock EXCEPT ![wkSlot] = 0]
  BY DEF WkRelease, Unlock, SetRlock, Q
<1>2. wkSlot \in 0..rsz-1 /\ Rlock \in [0..rsz -> {0, 1}]
  BY DEF Inv, TypeOK
<1>3. MutexInv'
  BY <1>1 DEF LockInv, MutexInv, WkInside, WkScans
<1>4. IoIndexInv'
  BY <1>1 DEF LockInv, IoIndexInv
<1>5. WkIndexInv'
  BY <1>1 DEF LockInv, WkIndexInv, IoKeeps, WkScans, WkResets, WkDrains
<1>6. \A i \in 0..rsz-1 : ~WkHolds(i)' /\ (WkHolds(i) <=> i = wkSlot)
  BY <1>1 DEF WkHolds, WkDrains
<1>7. \A i \in 0..rsz-1 : IoHolds(i)' <=> IoHolds(i)
  BY <1>1 DEF IoHolds
<1>8. OwnInv'
  BY <1>1, <1>2, <1>6, <1>7 DEF LockInv, OwnInv
<1>9. QED
  BY <1>3, <1>4, <1>5, <1>8 DEF LockInv

-----------------------------------------------------------------------------
\* No step of the I/O thread breaks the lock discipline.
LEMMA IoLocks == Inv /\ LockInv /\ IoStep => LockInv'
<1> SUFFICES ASSUME Inv, LockInv, IoStep
             PROVE  LockInv'
  OBVIOUS
<1> USE DEF Inv, TypeOK, LockInv, MutexInv, IoIndexInv, WkIndexInv, OwnInv, IoKeeps,
            IoHolds, WkHolds, IoInside, IoScans, IoDecides, IoFills, IoPublishes,
            WkInside, WkScans, WkResets, WkDrains
<1>0. UNCHANGED <<wkPc, wkReg, wkSlot>>
  BY DEF IoStep, wk
<1>1. CASE PushLock
  BY <1>0, <1>1 DEF PushLock, IoGo, SetLock, R
<1>2. CASE PushIndex
  BY <1>0, <1>2 DEF PushIndex, IoLoad, Q, R
<1>3. CASE PushSlot
  BY <1>0, <1>3, PushSlotLocks
<1>4. CASE PushSkip
  <2>1. ioPc = "skip" /\ ioPc' = "inc" /\ UNCHANGED <<ioReg, ioSlot, out, sz, lock, full,
       R, polls>>
    BY <1>4 DEF PushSkip, IoGo, WrapIn, SetIn
  <2>2. UNCHANGED in
    BY <1>4, WrapIdle
  <2>3. QED
    BY <1>0, <2>1, <2>2 DEF R
<1>5. CASE PushIncLoad
  BY <1>0, <1>5 DEF PushIncLoad, IoLoad, Q, R
<1>6. CASE PushIncStore
  BY <1>0, <1>6, IoMovesIn
<1>7. CASE PushWrap
  <2>1. ioPc = "wrap" /\ ioPc' = "fullsz" /\ UNCHANGED <<ioReg, ioSlot, out, sz, lock,
       full, R, polls>>
    BY <1>7 DEF PushWrap, IoGo, WrapIn, SetIn
  <2>2. UNCHANGED in
    BY <1>7, WrapIdle
  <2>3. QED
    BY <1>0, <2>1, <2>2 DEF R
<1>8. CASE PushFullSz
  BY <1>0, <1>8 DEF PushFullSz, IoGo, Q, R
<1>9. CASE PushFullIn
  BY <1>0, <1>9 DEF PushFullIn, IoLoad, Q, R
<1>10. CASE PushFullOut
  BY <1>0, <1>10 DEF PushFullOut, IoLoad, Q, R
<1>11. CASE PushRefuse
  BY <1>0, <1>11 DEF PushRefuse, IoGo, SetFull, R
<1>12. CASE PushUnslotLoad
  BY <1>0, <1>12 DEF PushUnslotLoad, IoLoad, Q, R
<1>13. CASE PushUnslot
  BY <1>0, <1>13 DEF PushUnslot, IoLoad, Unlock, Q, SetRlock
<1>14. CASE PushNull
  BY <1>0, <1>14 DEF PushNull, IoGo, SetLock, R
<1>15. CASE PushGrant
  BY <1>0, <1>15 DEF PushGrant, IoGo, SetLock, R
<1>16. CASE PushReturn
  BY <1>0, <1>16 DEF PushReturn, Q, R
<1>17. CASE IoRead
  BY <1>0, <1>17 DEF IoRead, IoLoad, Poll, SetRframe, Q
<1>18. CASE IoLen
  BY <1>0, <1>18 DEF IoLen, IoLoad, SetRlen, Q
<1>19. CASE IoReadError
  BY <1>0, <1>19 DEF IoReadError, IoGo, Poll, SetRlen, Q
<1>20. CASE IoNoInput
  BY <1>0, <1>20 DEF IoNoInput, IoGo, Poll, Q, R
<1>21. CASE IoCheck
  BY <1>0, <1>21 DEF IoCheck, IoGo, Usable, Q, R
<1>22. CASE IoStripLoad
  BY <1>0, <1>22 DEF IoStripLoad, IoLoad, ETHIP4, Q, R
<1>23. CASE IoStrip
  BY <1>0, <1>23 DEF IoStrip, IoLoad, SetRlen, Q
<1>24. CASE IoRelease
  BY <1>0, <1>24 DEF IoRelease, Unlock, Q, SetRlock
<1>25. CASE IoSzTest
  BY <1>0, <1>25 DEF IoSzTest, IoGo, Q, R
<1>26. CASE IoSzLoad
  BY <1>0, <1>26 DEF IoSzLoad, IoLoad, Q, R
<1>27. CASE IoSzStore
  BY <1>0, <1>27 DEF IoSzStore, IoLoad, SetSz, R
<1>28. CASE IoInAdd
  BY <1>0, <1>28, IoMovesIn
<1>29. CASE IoInTest
  <2>1. ioPc = "intest" /\ UNCHANGED <<ioReg, ioSlot, Q, R, polls>>
    BY <1>29 DEF IoInTest, IoGo
  <2>2. CASE in >= rsz
    <3>1. ioPc' = "inload"
      BY <1>29, <2>2 DEF IoInTest, IoGo
    <3>2. QED
      BY <1>0, <2>1, <3>1 DEF Q, R
  <2>3. CASE ~(in >= rsz)
    <3>1. ioPc' = "push" /\ in < rsz
      BY <1>29, <2>3 DEF IoInTest, IoGo
    <3>2. QED
      BY <1>0, <2>1, <3>1 DEF Q, R
  <2>4. QED
    BY <2>2, <2>3
<1>30. CASE IoInLoad
  BY <1>0, <1>30 DEF IoInLoad, IoLoad, Q, R
<1>31. CASE IoInSub
  BY <1>0, <1>31, IoMovesIn
<1>32. QED
  BY <1>1, <1>2, <1>3, <1>4, <1>5, <1>6, <1>7, <1>8, <1>9, <1>10, <1>11, <1>12, <1>13,
       <1>14, <1>15, <1>16, <1>17, <1>18, <1>19, <1>20, <1>21, <1>22, <1>23, <1>24, <1>25,
       <1>26, <1>27, <1>28, <1>29, <1>30, <1>31 DEF IoStep, Io, Push, Fill

\* No step of the worker does, up to its first call of reset_ring.
LEMMA WorkerLocks == Inv /\ LockInv /\ WorkerStep /\ wkPc' # "rin" => LockInv'
<1> SUFFICES ASSUME Inv, LockInv, WorkerStep, wkPc' # "rin"
             PROVE  LockInv'
  OBVIOUS
<1> USE DEF Inv, TypeOK, LockInv, MutexInv, IoIndexInv, WkIndexInv, OwnInv, IoKeeps,
            IoHolds, WkHolds, IoInside, IoScans, IoDecides, IoFills, IoPublishes,
            WkInside, WkScans, WkResets, WkDrains
<1>0. UNCHANGED <<ioPc, ioReg, ioSlot>> /\ wkPc' # "rin"
  BY DEF WorkerStep, io
<1>1. CASE PopLock
  BY <1>0, <1>1 DEF PopLock, WkGo, SetLock, R
<1>2. CASE PopEmptySz
  BY <1>0, <1>2 DEF PopEmptySz, WkGo, Q, R
<1>3. CASE PopEmptyIdx
  BY <1>0, <1>3 DEF PopEmptyIdx, WkGo, Q, R
<1>4. CASE PopZero
  BY <1>0, <1>4 DEF PopZero, WkGo, SetSz, R
<1>5. CASE PopUnlockEmpty
  BY <1>0, <1>5 DEF PopUnlockEmpty, WkGo, SetLock, R
<1>6. CASE PopFull
  <2>1. wkPc = "full" /\ wkPc' = "wait" /\ UNCHANGED <<wkReg, wkSlot, Q, R, sent>>
    BY <1>0, <1>6 DEF PopFull, WkGo
  <2>2. QED
    BY <1>0, <2>1 DEF Q, R
<1>7. CASE PopWrap
  BY <1>0, <1>7, PopMovesOut
<1>8. CASE PopScan
  <2>1. wkPc = "scan" /\ wkPc' = "slot" /\ UNCHANGED <<wkReg, wkSlot, Q, R, sent>>
    BY <1>8 DEF PopScan, WkGo, SzInv
  <2>2. QED
    BY <1>0, <2>1 DEF Q, R
<1>9. CASE PopSlot
  BY <1>0, <1>9, PopSlotLocks
<1>10. CASE PopNext
  BY <1>0, <1>10, PopMovesOut
<1>11. CASE PopUnlock
  BY <1>0, <1>11 DEF PopUnlock, WkGo, SetLock, R
<1>12. CASE PopReturn
  BY <1>0, <1>12 DEF PopReturn, SetOut, R
<1>13. CASE WkWait
  BY <1>0, <1>13 DEF WkWait, WkGo, Q, R
<1>14. CASE WkLen
  BY <1>0, <1>14 DEF WkLen, WkGo, MinFrame, Q, R
<1>15. CASE WkSend
  BY <1>0, <1>15 DEF WkSend, WkGo, Q, R
<1>16. CASE WkClear
  BY <1>0, <1>16 DEF WkClear, WkGo, SetRlen, Q
<1>17. CASE WkSzTest
  BY <1>0, <1>17 DEF WkSzTest, WkGo, WkLoad, Q, R
<1>18. CASE WkSzLoad
  BY <1>0, <1>18 DEF WkSzLoad, WkLoad, Q, R
<1>19. CASE WkSzStore
  BY <1>0, <1>19 DEF WkSzStore, WkLoad, SetSz, R
<1>20. CASE WkRelease
  BY <1>0, <1>20, WkReleaseLocks
<1>21. CASE Reset
  BY <1>21 DEF Reset, ResetIn, ResetOut, ResetSz, ResetLock, ResetFull, ResetLen
<1>22. QED
  BY <1>1, <1>2, <1>3, <1>4, <1>5, <1>6, <1>7, <1>8, <1>9, <1>10, <1>11, <1>12, <1>13,
       <1>14, <1>15, <1>16, <1>17, <1>18, <1>19, <1>20, <1>21 DEF WorkerStep, Worker, Pop,
       Drain

-----------------------------------------------------------------------------
\* The lock discipline, as long as the worker has not entered reset_ring.
UntilReset == rst \/ LockInv

\* init_ring_buffer unlocks everything; the indices it leaves alone are
\* assumed to be inside the ring.
LEMMA InitLocks == Residue < rsz /\ Init => LockInv
<1> SUFFICES ASSUME Residue < rsz, Init PROVE LockInv
  OBVIOUS
<1>1. ioPc = "push" /\ wkPc = "pop" /\ lock = 0 /\ in \in 0..rsz-1
  BY DEF Init
<1>2. \A i \in 0..rsz-1 : Rlock[i] = 0
  BY DEF Init
<1>3. MutexInv
  BY <1>1 DEF MutexInv, IoInside, IoScans, IoDecides, WkInside, WkScans
<1>4. IoIndexInv /\ WkIndexInv
  BY <1>1 DEF IoIndexInv, WkIndexInv, IoFills, WkScans, WkResets, WkDrains
<1>5. OwnInv
  BY <1>1, <1>2 DEF OwnInv, IoHolds, WkHolds, IoDecides, IoFills, WkDrains
<1>6. QED
  BY <1>3, <1>4, <1>5 DEF LockInv

\* Every step of the two threads preserves the lock discipline, or is the
\* worker's entry into reset_ring.
LEMMA NextLocks == Inv /\ UntilReset /\ [Next]_vars => UntilReset'
<1> SUFFICES ASSUME Inv, UntilReset, [Next]_vars PROVE UntilReset'
  OBVIOUS
<1>1. CASE IoStep
  <2>1. UNCHANGED rst
    BY <1>1 DEF IoStep
  <2>2. LockInv => LockInv'
    BY <1>1, IoLocks
  <2>3. QED
    BY <2>1, <2>2 DEF UntilReset
<1>2. CASE WorkerStep
  <2>1. rst' = (rst \/ wkPc' = "rin")
    BY <1>2 DEF WorkerStep
  <2>2. LockInv /\ wkPc' # "rin" => LockInv'
    BY <1>2, WorkerLocks
  <2>3. QED
    BY <2>1, <2>2 DEF UntilReset
<1>3. CASE UNCHANGED vars
  <2>1. UNCHANGED rst
    BY <1>3 DEF vars
  <2>2. LockInv => LockInv'
    BY <1>3 DEF vars, Q, R, io, wk, LockInv, MutexInv, IoIndexInv, WkIndexInv, OwnInv,
                IoKeeps, IoHolds, WkHolds
  <2>3. QED
    BY <2>1, <2>2 DEF UntilReset
<1>4. QED
  BY <1>1, <1>2, <1>3 DEF Next

\* LockInv is stronger than what the runs check.
LEMMA LockInvImplies ==
  Inv /\ UntilReset => QueueMutex /\ SlotOwnership /\ ScanInBounds
<1>1. LockInv => QueueMutex
  BY DEF LockInv, MutexInv, QueueMutex
<1>2. LockInv => SlotOwnership
  BY DEF LockInv, OwnInv, SlotOwnership
<1>3. LockInv => ScanInBounds
  BY DEF LockInv, IoIndexInv, ScanInBounds, IoInside, IoScans, IoDecides
<1>4. rst => QueueMutex /\ SlotOwnership /\ ScanInBounds
  BY DEF QueueMutex, SlotOwnership, ScanInBounds
<1>5. QED
  BY <1>1, <1>2, <1>3, <1>4 DEF UntilReset

\* The lock discipline in every reachable state, if in and out start inside.
LEMMA LocksAlways ==
  ASSUME Residue < rsz
  PROVE  Spec => [](Inv /\ UntilReset)
<1>1. Init => UntilReset
  BY InitLocks DEF UntilReset
<1>2. Inv /\ UntilReset /\ [Next]_vars => UntilReset'
  BY NextLocks
<1>3. Spec => []Inv
  BY InvAlways
<1>4. QED
  BY <1>1, <1>2, <1>3, PTL DEF Spec

\* If in and out start inside the ring, then up to the first reset_ring q->lock
\* is held by exactly the thread inside push or pop.
THEOREM QueueLockExcludes == ASSUME Residue < rsz PROVE Spec => []QueueMutex
  BY LocksAlways, LockInvImplies, PTL

\* Then also every slot is locked by exactly the thread at work on it: push and
\* pop hand out locked slots, none is leaked and none unlocked by the other.
THEOREM OneOwnerPerSlot == ASSUME Residue < rsz PROVE Spec => []SlotOwnership
  BY LocksAlways, LockInvImplies, PTL

\* And the scan of push never touches the memory behind q->R.
THEOREM PushScansInside == ASSUME Residue < rsz PROVE Spec => []ScanInBounds
  BY LocksAlways, LockInvImplies, PTL

=============================================================================
