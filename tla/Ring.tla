-------------------------------- MODULE Ring --------------------------------
(***************************************************************************)
(* The queue Q of ring.c between its two threads: the I/O thread (tx_io or *)
(* rx_io) that fills slots and the worker (tx or rx) that drains them.     *)
(*                                                                         *)
(* The two share memory guarded by two kinds of compare-and-swap lock, the *)
(* queue's (lock) and each slot's (Rlock[i]), and touch part of it with no *)
(* lock at all.  Every load, store and compare-and-swap of shared memory   *)
(* that can race is a step of its own; a thread has its place in the code  *)
(* (ioPc, wkPc), the value it loaded last (Reg) and the slot that push or  *)
(* pop gave it (Slot).  Only the worker writes out, so its read-modify-    *)
(* write sequences are single steps.                                       *)
(***************************************************************************)
EXTENDS Integers, Sequences

CONSTANTS
    rsz,        \* q->rsz, the number of slots
    UINT,       \* 2^32 in the code: the modulus of uint32_t
    Dir,        \* "tx": tx_io and tx;  "rx": rx_io and rx
    Lengths,    \* what a successful read() returns
    Foreign,    \* frames that are not from the peer (rx_io drops them)
    Hangup,     \* TRUE iff poll() may return without POLLIN
    MaxPolls,   \* bound on the calls of poll()
    Residue     \* init_ring_buffer leaves in, out, sz as malloc found them

ASSUME SizeAssumption == rsz \in Nat /\ rsz >= 3
ASSUME WidthAssumption == UINT \in Nat /\ UINT > rsz + 1 /\ UINT > Residue + 1
ASSUME InputAssumption == /\ Dir \in {"tx", "rx"} /\ Hangup \in BOOLEAN
                          /\ Lengths \subseteq Nat /\ Foreign \subseteq Nat
                          /\ MaxPolls \in Nat
ASSUME ResidueAssumption == Residue \in Nat

VARIABLES
    in, out, sz, lock, full,    \* the fields of Q
    Rlock, Rlen, Rframe,        \* q->R[i].lock, .len and what .data holds
    ioPc, ioReg, ioSlot,        \* the I/O thread
    wkPc, wkReg, wkSlot,        \* the worker
    polls,  \* calls of poll() so far; the n-th one that reads gets frame n
    sent,   \* the frames that sendto() or write() took, in order
    rst     \* history: has the worker entered reset_ring?

Q == <<in, out, sz, lock, full>>
R == <<Rlock, Rlen, Rframe>>
io == <<ioPc, ioReg, ioSlot>>
wk == <<wkPc, wkReg, wkSlot>>
vars == <<Q, R, io, wk, polls, sent, rst>>

MinFrame == 14
ETHIP4 == 34
AddrEnd == 30       \* where saddr ends

\* R is calloc'ed, so its slots start unlocked and empty.  Rlock[rsz] is the
\* lock word of the memory behind it: all that matters is whether it reads 0.
Init ==
    /\ in \in 0..Residue /\ out \in 0..Residue /\ sz \in 0..Residue
    /\ lock = 0 /\ full = 0
    /\ \E beyond \in {0, 1} : Rlock = [i \in 0..rsz |-> IF i = rsz THEN beyond ELSE 0]
    /\ Rlen = [i \in 0..rsz-1 |-> 0]
    /\ Rframe = [i \in 0..rsz-1 |-> 0]
    /\ ioPc = "push" /\ ioReg = 0 /\ ioSlot = 0
    /\ wkPc = "pop" /\ wkReg = 0 /\ wkSlot = 0
    /\ polls = 0
    /\ sent = <<>>
    /\ rst = FALSE

-----------------------------------------------------------------------------
(* A thread goes on to pc, keeping or replacing the value it loaded.        *)

IoGo(pc) == ioPc' = pc /\ UNCHANGED <<ioReg, ioSlot>>
IoLoad(v, pc) == ioReg' = v /\ ioPc' = pc /\ UNCHANGED ioSlot
WkGo(pc) == wkPc' = pc /\ UNCHANGED <<wkReg, wkSlot>>
WkLoad(v, pc) == wkReg' = v /\ wkPc' = pc /\ UNCHANGED wkSlot

(* A store to one field of the queue, or of one slot.                       *)

SetIn(v) == in' = v /\ UNCHANGED <<out, sz, lock, full>>
SetOut(v) == out' = v /\ UNCHANGED <<in, sz, lock, full>>
SetSz(v) == sz' = v /\ UNCHANGED <<in, out, lock, full>>
SetLock(v) == lock' = v /\ UNCHANGED <<in, out, sz, full>>
SetFull(v) == full' = v /\ UNCHANGED <<in, out, sz, lock>>

SetRlock(i, v) == Rlock' = [Rlock EXCEPT ![i] = v] /\ UNCHANGED <<Rlen, Rframe>>
SetRlen(i, v) == Rlen' = [Rlen EXCEPT ![i] = v] /\ UNCHANGED <<Rlock, Rframe>>
SetRframe(i, v) == Rframe' = [Rframe EXCEPT ![i] = v] /\ UNCHANGED <<Rlock, Rlen>>

Lock(i) == SetRlock(i, 1)

\* Fault: unlocks by subtraction, which underflows if the lock is not held.
UnlockBySub(i) == SetRlock(i, Rlock[i] - 1)

Unlock(i) == SetRlock(i, 0)

-----------------------------------------------------------------------------
(* push(q).  A failed attempt on q->lock returns LOCKFAIL and the caller    *)
(* tries again: it changes nothing and is not a step.                       *)

\* Fault: the result of the attempt on q->lock is ignored.
PushAnyway == /\ ioPc = "push"
              /\ SetLock(1)
              /\ IoGo("index") /\ UNCHANGED <<R, polls>>

PushLock == /\ ioPc = "push" /\ lock = 0
            /\ SetLock(1)
            /\ IoGo("index") /\ UNCHANGED <<R, polls>>

PushIndex == ioPc = "index" /\ IoLoad(in, "slot") /\ UNCHANGED <<Q, R, polls>>

\* The scan for an unlocked slot.  It starts at q->in and may look one slot
\* past the end; an index beyond that is an access far outside R.
PushSlot ==
    /\ ioPc = "slot"
    /\ \/ ioReg > rsz /\ IoGo("crashed") /\ UNCHANGED R
       \/ /\ ioReg <= rsz /\ Rlock[ioReg] = 0
          /\ Lock(ioReg) /\ IoLoad(0, "wrap")
       \/ /\ ioReg <= rsz /\ Rlock[ioReg] = 1
          /\ IoLoad(0, "skip") /\ UNCHANGED R
    /\ UNCHANGED <<Q, polls>>

\* Both wraps of q->in: reset_ring is the only other writer and stores 0 too,
\* so the test and the store are one step.
WrapIn == SetIn(IF in >= rsz THEN 0 ELSE in)

PushSkip == ioPc = "skip" /\ WrapIn /\ IoGo("inc") /\ UNCHANGED <<R, polls>>

PushIncLoad == ioPc = "inc" /\ IoLoad(in, "incst") /\ UNCHANGED <<Q, R, polls>>

PushIncStore == /\ ioPc = "incst" /\ SetIn((ioReg + 1) % UINT)
                /\ IoLoad(0, "index") /\ UNCHANGED <<R, polls>>

PushWrap == ioPc = "wrap" /\ WrapIn /\ IoGo("fullsz") /\ UNCHANGED <<R, polls>>

\* Fault: pushes without looking at the count.
PushAlways == /\ ioPc = "fullsz" /\ IoGo("fullin") /\ UNCHANGED <<Q, R, polls>>

PushFullSz == /\ ioPc = "fullsz"
              /\ IoGo(IF sz >= rsz - 1 THEN "refuse" ELSE "fullin")
              /\ UNCHANGED <<Q, R, polls>>

\* q->in == q->out - 1 loads in, then out.
PushFullIn == ioPc = "fullin" /\ IoLoad(in, "fullout") /\ UNCHANGED <<Q, R, polls>>

PushFullOut == /\ ioPc = "fullout"
               /\ IoLoad(0, IF ioReg = (out - 1) % UINT THEN "refuse" ELSE "grant")
               /\ UNCHANGED <<Q, R, polls>>

PushRefuse == /\ ioPc = "refuse" /\ SetFull(1)
              /\ IoGo("unslot") /\ UNCHANGED <<R, polls>>

PushUnslotLoad == ioPc = "unslot" /\ IoLoad(in, "unslotst") /\ UNCHANGED <<Q, R, polls>>

\* Fault: a refused push keeps its slot locked.
PushKeepSlot == ioPc = "unslotst" /\ IoLoad(0, "null") /\ UNCHANGED <<Q, R, polls>>

PushUnslot == /\ ioPc = "unslotst" /\ Unlock(ioReg)
              /\ IoLoad(0, "null") /\ UNCHANGED <<Q, polls>>

PushNull == /\ ioPc = "null" /\ SetLock(0)
            /\ IoGo("push") /\ UNCHANGED <<R, polls>>

PushGrant == /\ ioPc = "grant" /\ SetLock(0)
             /\ IoGo("ret") /\ UNCHANGED <<R, polls>>

\* return &q->R[q->in], after q->lock is released.
PushReturn == /\ ioPc = "ret" /\ ioSlot' = in /\ ioPc' = "poll"
              /\ UNCHANGED <<Q, R, ioReg, polls>>

-----------------------------------------------------------------------------
(* The loop of tx_io and rx_io that fills the slot push returned.           *)

Poll == ioPc = "poll" /\ polls < MaxPolls /\ polls' = polls + 1

\* read() first copies the frame, then its result is stored in data->len.
IoRead == /\ Poll
          /\ SetRframe(ioSlot, polls')
          /\ \E l \in Lengths : IoLoad(l, "len")
          /\ UNCHANGED Q

IoLen == /\ ioPc = "len"
         /\ SetRlen(ioSlot, ioReg)
         /\ IoLoad(0, "check") /\ UNCHANGED <<Q, polls>>

IoReadError == /\ Poll
               /\ SetRlen(ioSlot, -1)
               /\ IoGo("check") /\ UNCHANGED Q

\* poll() returned without POLLIN: data->len is what the slot held before.
IoNoInput == Hangup /\ Poll /\ IoGo("check") /\ UNCHANGED <<Q, R>>

\* Fault: rx_io does not look at the sender.
UsableAnySender(i) == {Rlen[i] >= 1}

\* What the test of the loop may say of the frame in slot i.  If the frame does
\* not reach saddr, the slot still has that of the frame before it.
Usable(i) == IF Dir = "tx" THEN {Rlen[i] # -1}
             ELSE IF Rlen[i] \in 1..AddrEnd-1 THEN BOOLEAN
             ELSE {Rlen[i] >= 1 /\ Rframe[i] \notin Foreign}

IoCheck == /\ ioPc = "check"
           /\ \E usable \in Usable(ioSlot) :
                IoGo(IF ~usable THEN "poll" ELSE IF Dir = "rx" THEN "strip" ELSE "release")
           /\ UNCHANGED <<Q, R, polls>>

\* data->len -= ETHIP4 in rx_io.
IoStripLoad == /\ ioPc = "strip" /\ IoLoad(Rlen[ioSlot] - ETHIP4, "stripst")
               /\ UNCHANGED <<Q, R, polls>>

IoStrip == /\ ioPc = "stripst" /\ SetRlen(ioSlot, ioReg)
           /\ IoLoad(0, "release") /\ UNCHANGED <<Q, polls>>

IoRelease == /\ ioPc = "release" /\ Unlock(ioSlot)
             /\ ioSlot' = 0 /\ ioPc' = "sz" /\ UNCHANGED <<Q, ioReg, polls>>

\* sz = sz >= rsz ? sz : sz + 1, with no lock held.
IoSzTest == /\ ioPc = "sz" /\ IoGo(IF sz >= rsz THEN "szkeep" ELSE "szinc")
            /\ UNCHANGED <<Q, R, polls>>

\* Fault: the count wraps around like an index.
IoSzModulo == /\ ioPc \in {"szkeep", "szinc"}
              /\ IoLoad((sz + 1) % (rsz - 1), "szst") /\ UNCHANGED <<Q, R, polls>>

IoSzLoad == /\ ioPc \in {"szkeep", "szinc"}
            /\ IoLoad(IF ioPc = "szkeep" THEN sz ELSE (sz + 1) % UINT, "szst")
            /\ UNCHANGED <<Q, R, polls>>

IoSzStore == /\ ioPc = "szst" /\ SetSz(ioReg)
             /\ IoLoad(0, "in") /\ UNCHANGED <<R, polls>>

IoInAdd == /\ ioPc = "in" /\ SetIn((in + 1) % UINT)
           /\ IoGo("intest") /\ UNCHANGED <<R, polls>>

\* Fault: in is not wrapped after the last slot.
IoInNoTest == /\ ioPc = "intest" /\ IoGo("push") /\ UNCHANGED <<Q, R, polls>>

IoInTest == /\ ioPc = "intest" /\ IoGo(IF in >= rsz THEN "inload" ELSE "push")
            /\ UNCHANGED <<Q, R, polls>>

\* __sync_fetch_and_sub(&in, in): the argument is loaded before the
\* atomic subtraction.
IoInLoad == ioPc = "inload" /\ IoLoad(in, "insub") /\ UNCHANGED <<Q, R, polls>>

IoInSub == /\ ioPc = "insub" /\ SetIn((in - ioReg) % UINT)
           /\ IoLoad(0, "push") /\ UNCHANGED <<R, polls>>

Push == \/ PushLock \/ PushIndex \/ PushSlot \/ PushSkip \/ PushIncLoad
        \/ PushIncStore \/ PushWrap \/ PushFullSz \/ PushFullIn \/ PushFullOut
        \/ PushRefuse \/ PushUnslotLoad \/ PushUnslot \/ PushNull
        \/ PushGrant \/ PushReturn

Fill == \/ IoRead \/ IoLen \/ IoReadError \/ IoNoInput \/ IoCheck
        \/ IoStripLoad \/ IoStrip \/ IoRelease
        \/ IoSzTest \/ IoSzLoad \/ IoSzStore
        \/ IoInAdd \/ IoInTest \/ IoInLoad \/ IoInSub

Io == Push \/ Fill

-----------------------------------------------------------------------------
(* pop(q); LOCKFAIL is a retry, as in push.                                 *)

PopLock == /\ wkPc = "pop" /\ lock = 0
           /\ SetLock(1)
           /\ WkGo("empty") /\ UNCHANGED <<R, sent>>

\* Fault: pops without looking at the count.
PopEvenIfEmpty == /\ wkPc = "empty" /\ WkGo("emptyidx") /\ UNCHANGED <<Q, R, sent>>

PopEmptySz == /\ wkPc = "empty" /\ WkGo(IF sz < 1 THEN "zero" ELSE "emptyidx")
              /\ UNCHANGED <<Q, R, sent>>

PopEmptyIdx == /\ wkPc = "emptyidx" /\ WkGo(IF in = out THEN "zero" ELSE "wrap")
               /\ UNCHANGED <<Q, R, sent>>

PopZero == /\ wkPc = "zero" /\ SetSz(0)
           /\ WkGo("unlock0") /\ UNCHANGED <<R, sent>>

PopUnlockEmpty == /\ wkPc = "unlock0" /\ SetLock(0)
                  /\ WkGo("full") /\ UNCHANGED <<R, sent>>

PopFull == /\ wkPc = "full" /\ WkGo(IF full = 1 THEN "rin" ELSE "wait")
           /\ UNCHANGED <<Q, R, sent>>

\* reset_ring: plain stores, with no lock held.
ResetIn == /\ wkPc = "rin" /\ SetIn(0)
           /\ WkGo("rout") /\ UNCHANGED <<R, sent>>
ResetOut == /\ wkPc = "rout" /\ SetOut(0)
            /\ WkGo("rsz") /\ UNCHANGED <<R, sent>>
ResetSz == /\ wkPc = "rsz" /\ SetSz(0)
           /\ WkGo("rlock") /\ UNCHANGED <<R, sent>>
ResetLock == /\ wkPc = "rlock" /\ SetLock(0)
             /\ WkGo("rfull") /\ UNCHANGED <<R, sent>>
ResetFull == /\ wkPc = "rfull" /\ SetFull(0)
             /\ WkLoad(0, "rlen") /\ UNCHANGED <<R, sent>>
ResetLen == /\ wkPc = "rlen"
            /\ SetRlen(wkReg, 0)
            /\ IF wkReg + 1 < rsz THEN WkLoad(wkReg + 1, "rlen") ELSE WkLoad(0, "wait")
            /\ UNCHANGED <<Q, sent>>

\* Fault: out is not wrapped before the scan.
PopNoWrap == wkPc = "wrap" /\ WkGo("scan") /\ UNCHANGED <<Q, R, sent>>

PopWrap == /\ wkPc = "wrap" /\ SetOut(IF out >= rsz - 1 THEN 0 ELSE out)
           /\ WkGo("scan") /\ UNCHANGED <<R, sent>>

PopScan == /\ wkPc = "scan" /\ WkGo(IF sz > 0 THEN "slot" ELSE "unlock")
           /\ UNCHANGED <<Q, R, sent>>

\* Fault: pop does not lock the slot it found.
PopSlotUnlocked == /\ wkPc = "slot" /\ WkGo("unlock") /\ UNCHANGED <<Q, R, sent>>

PopSlot == /\ wkPc = "slot"
           /\ \/ Rlock[out] = 0 /\ Lock(out) /\ WkGo("unlock")
              \/ Rlock[out] = 1 /\ UNCHANGED R /\ WkGo("next")
           /\ UNCHANGED <<Q, sent>>

\* Fault: the scan of pop waits for the same slot.
PopRetry == wkPc = "next" /\ WkGo("scan") /\ UNCHANGED <<Q, R, sent>>

PopNext == /\ wkPc = "next" /\ SetOut(IF out >= rsz - 1 THEN 0 ELSE out + 1)
           /\ WkGo("scan") /\ UNCHANGED <<R, sent>>

PopUnlock == /\ wkPc = "unlock" /\ SetLock(0)
             /\ WkGo("ret") /\ UNCHANGED <<R, sent>>

\* return &q->R[q->out++], after q->lock is released.
PopReturn == /\ wkPc = "ret"
             /\ wkSlot' = out /\ wkPc' = "len"
             /\ SetOut(out + 1) /\ UNCHANGED <<R, wkReg, sent>>

-----------------------------------------------------------------------------
(* The loop of tx and rx around pop.                                        *)

\* The worker sleeps as long as sz is 0.
WkWait == wkPc = "wait" /\ sz > 0 /\ WkGo("pop") /\ UNCHANGED <<Q, R, sent>>

WkLen == /\ wkPc = "len" /\ WkGo(IF Rlen[wkSlot] > MinFrame THEN "send" ELSE "clear")
         /\ UNCHANGED <<Q, R, sent>>

\* sendto() or write(); a failure is only logged.
WkSend == /\ wkPc = "send"
          /\ \/ sent' = Append(sent, Rframe[wkSlot])
             \/ UNCHANGED sent
          /\ WkGo("clear") /\ UNCHANGED <<Q, R>>

\* Fault: the length of the drained slot is left as it was.
WkClearNot == wkPc = "clear" /\ WkGo("sz") /\ UNCHANGED <<Q, R, sent>>

WkClear == /\ wkPc = "clear" /\ SetRlen(wkSlot, -1)
           /\ WkGo("sz") /\ UNCHANGED <<Q, sent>>

\* sz = sz < 1 ? 0 : sz - 1, with no lock held.
WkSzTest == /\ wkPc = "sz"
            /\ IF sz < 1 THEN WkLoad(0, "szst") ELSE WkGo("szdec")
            /\ UNCHANGED <<Q, R, sent>>

WkSzLoad == /\ wkPc = "szdec" /\ WkLoad((sz - 1) % UINT, "szst")
            /\ UNCHANGED <<Q, R, sent>>

WkSzStore == /\ wkPc = "szst" /\ SetSz(wkReg)
             /\ WkLoad(0, "release") /\ UNCHANGED <<R, sent>>

WkRelease == /\ wkPc = "release" /\ Unlock(wkSlot)
             /\ wkSlot' = 0 /\ wkPc' = "pop" /\ UNCHANGED <<Q, wkReg, sent>>

Pop == \/ PopLock \/ PopEmptySz \/ PopEmptyIdx \/ PopZero \/ PopUnlockEmpty
       \/ PopFull \/ PopWrap \/ PopScan \/ PopSlot \/ PopNext \/ PopUnlock \/ PopReturn

Reset == ResetIn \/ ResetOut \/ ResetSz \/ ResetLock \/ ResetFull \/ ResetLen

Drain == \/ WkWait \/ WkLen \/ WkSend \/ WkClear
         \/ WkSzTest \/ WkSzLoad \/ WkSzStore \/ WkRelease

Worker == Pop \/ Reset \/ Drain

-----------------------------------------------------------------------------
IoStep == Io /\ UNCHANGED <<wk, sent, rst>>

\* A wild access by the I/O thread ends the process.
WorkerStep == /\ ioPc # "crashed"
              /\ Worker
              /\ rst' = (rst \/ wkPc' = "rin")
              /\ UNCHANGED <<io, polls>>

Next == IoStep \/ WorkerStep

Spec == Init /\ [][Next]_vars

\* The behaviours up to the first reset, with both threads scheduled.
SpecToReset == /\ Init /\ [][~rst /\ Next]_vars
               /\ WF_vars(~rst /\ IoStep) /\ WF_vars(~rst /\ WorkerStep)

\* The same, on hardware where a thread that keeps trying for q->lock gets it.
SpecNoStarvation == SpecToReset /\ SF_vars(~rst /\ IoStep) /\ SF_vars(~rst /\ WorkerStep)

-----------------------------------------------------------------------------
(* Regions of the code.                                                     *)

\* Inside push, holding q->lock, with and without a slot already locked.
IoScans == {"index", "slot", "skip", "inc", "incst"}
IoDecides == {"fullsz", "fullin", "fullout", "refuse", "unslot", "unslotst", "grant"}
IoInside == IoScans \cup {"wrap", "null"} \cup IoDecides

\* Filling the slot that push returned, and publishing it.
IoFills == {"poll", "len", "check", "strip", "stripst", "release"}
IoPublishes == {"sz", "szkeep", "szinc", "szst", "in", "intest", "inload", "insub"}

\* Inside pop, holding q->lock.
WkScans == {"scan", "slot", "next"}
WkInside == {"empty", "emptyidx", "zero", "unlock0", "wrap", "unlock"} \cup WkScans

WkResets == {"rin", "rout", "rsz", "rlock", "rfull", "rlen"}
WkDrains == {"len", "send", "clear", "sz", "szdec", "szst", "release"}

Largest(a, b) == IF a > b THEN a ELSE b

-----------------------------------------------------------------------------
(* Properties of every behaviour, resets included.                          *)

\* The values that the variables range over.
TypeOK ==
    /\ in \in 0..UINT-1 /\ out \in 0..Largest(rsz, Residue) /\ sz \in 0..UINT-1
    /\ lock \in {0, 1} /\ full \in {0, 1}
    /\ Rlock \in [0..rsz -> {0, 1}]
    /\ Rlen \in [0..rsz-1 -> Int] /\ Rframe \in [0..rsz-1 -> Nat]
    /\ ioPc \in {"push", "ret", "crashed"} \cup IoInside \cup IoFills \cup IoPublishes
    /\ ioReg \in Int /\ ioSlot \in 0..rsz-1
    /\ wkPc \in {"pop", "full", "wait", "ret"} \cup WkInside \cup WkResets \cup WkDrains
    /\ wkReg \in Nat /\ wkSlot \in 0..rsz-1
    /\ polls \in Nat /\ sent \in Seq(Nat) /\ rst \in BOOLEAN

\* sz counts up and down in three places with no lock held and is zeroed in
\* two more, yet it never underflows, and never exceeds the rsz - 1 frames at
\* which push refuses (or what malloc left in it).
SzInRange == sz <= Largest(rsz - 1, Residue)

\* The clamps of both sz updates (workers.c 83, 201, 312, 426) are never
\* needed: when the I/O thread adds there is room, when the worker subtracts
\* there is something to subtract.
ClampsIdle == /\ ioPc = "sz" => sz < rsz
              /\ wkPc = "sz" => sz >= 1

\* pop leaves its scan only with a slot locked: the other exit of its loop,
\* sz having dropped to 0, is never taken, so the slot it returns was locked.
PopLocksSlot == wkPc = "scan" => sz > 0

\* Past the scan of push, every index is that of a slot, whatever the residue
\* in in and out and whatever a concurrent reset stores.
InBounds == /\ ioPc \in IoDecides \cup {"ret"} => in < rsz
            /\ ioPc = "unslotst" => ioReg < rsz
            /\ wkPc \in WkScans \cup {"unlock", "ret"} => out < rsz
            /\ wkPc = "rlen" => wkReg < rsz

\* The unlocked updates of sz race and lose each other's effect, but never
\* turn it around: no step of the I/O thread lowers sz, so a sleeping worker
\* is never sent back to sleep; no step of the worker raises it.
SzOneWay == [][ /\ IoStep => sz' >= sz
                /\ WorkerStep => sz' <= sz ]_vars

-----------------------------------------------------------------------------
(* Properties of the behaviours up to the first reset.                      *)

\* The slot a thread has locked, if any: by index during push and pop, by
\* pointer once they have returned.
IoHolds(i) == \/ ioPc \in IoDecides \cup {"wrap", "ret"} /\ i = in
              \/ ioPc \in IoFills /\ i = ioSlot
WkHolds(i) == \/ wkPc \in {"unlock", "ret"} /\ i = out
              \/ wkPc \in WkDrains /\ i = wkSlot

\* q->lock: held by exactly the thread that is inside push or pop, and never
\* by both.
QueueMutex == \/ rst
              \/ /\ lock = 1 <=> (ioPc \in IoInside \/ wkPc \in WkInside)
                 /\ ~(ioPc \in IoInside /\ wkPc \in WkInside)

\* A slot is locked exactly while one thread is at work on it, and the two
\* threads are never at work on the same slot: push and pop hand out locked
\* slots, nothing leaks, nobody unlocks the other's slot.
SlotOwnership == \/ rst
                 \/ \A i \in 0..rsz-1 :
                      /\ Rlock[i] = 1 <=> (IoHolds(i) \/ WkHolds(i))
                      /\ ~(IoHolds(i) /\ WkHolds(i))

\* The scan of push stays inside R: it never reads the lock word behind the
\* last slot.
ScanInBounds == \/ rst
                \/ ioPc # "crashed" /\ (ioPc \in IoInside => in < rsz)

\* A frame leaves at most once, although it stays in its slot when it has left,
\* push hands out slots whose frame is still to be sent, and poll may return
\* without a new one.
NoRepeat == \/ rst
            \/ \A i, j \in 1..Len(sent) : i # j => sent[i] # sent[j]

\* Nothing but the peer's frames is written to the tap, although rx_io reads
\* every frame into a slot of the ring before it looks at the sender.
PeerOnly == \/ rst \/ Dir = "tx"
            \/ \A i \in 1..Len(sent) : sent[i] \notin Foreign

\* Once it has q->lock, push comes back: its scan finds a slot.
PushTerminates == (ioPc = "index") ~> (rst \/ ioPc \in {"push", "poll"})

\* Once it has q->lock, pop comes back: it never scans for a slot in vain.
PopTerminates == (wkPc = "empty") ~> (rst \/ wkPc \in {"len", "wait"})

-----------------------------------------------------------------------------
(* What the comments of ring.c say, and the code does not do.               *)

\* "returns a pointer to a RNG struct if successful" and "the caller also needs
\* to release the lock on the RNG data returned to it" (ring.c:79-80): push never
\* looks for a slot with an index from anywhere (a reset while the I/O thread
\* wraps in makes it huge), and the slot it returned is locked while the caller
\* fills it.
ReturnedLocked == ioPc # "crashed" /\ (ioPc \in IoFills => Rlock[ioSlot] = 1)

\* "returns NULL if the buffer is full" (ring.c:77): a ring whose count is 0
\* is not full, so a push that is refused then is not refused for ever.
RefusalEnds == (ioPc = "refuse" /\ sz = 0) ~> (rst \/ ioPc = "poll")

=============================================================================
