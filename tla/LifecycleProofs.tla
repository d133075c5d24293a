-------------------------- MODULE LifecycleProofs --------------------------
(***************************************************************************)
(* What the threads of the process can rely on, for every list of peers,   *)
(* every number of threads and of CPUs, whatever h->id holds at first and  *)
(* whatever order the threads run in.                                      *)
(*                                                                         *)
(* h->id and cpu_available are shared by threads that nobody orders, so    *)
(* the invariants compare what a worker took with where the counter is     *)
(* now; the rings are counted against the supervisor's loop, which is      *)
(* ahead of every thread it creates; and memory is freed only by a thread  *)
(* that found run cleared, which nobody sets a second time.                *)
(***************************************************************************)
EXTENDS Lifecycle, FiniteSetTheorems, SequenceTheorems, TLAPS

\* Where the supervisor is in the loop over the rings of its session; the
\* sessions it has not come to have none.
SupInv ==
    /\ supPc \in {"ring", "worker"} => cur \in Sessions
    /\ supPc = "ring" => j <= Threads(cur) /\ nq[cur] = j
    /\ supPc = "worker" => j < Threads(cur) /\ nq[cur] = j + 1
    /\ \A s \in Sessions : s > cur \/ (s = cur /\ supPc \in {"none", "setup"}) => nq[s] = 0

\* A thread exists only if its rings do.
CreatedInv ==
    /\ \A x \in Workers : wkPc[x] # "none" => x[2] <= nq[x[1]]
    /\ supPc = "worker" => \A x \in Workers : x[1] = cur /\ wkPc[x] # "none" => x[2] <= j
    /\ \A s \in Sessions : ioPc[s] # "none" => s < cur /\ nq[s] = Threads(s)

\* The workers of a session that have their ring.
ClaimedOf(s) == {x \in Workers : x[1] = s /\ Claimed(x)}

\* h->id is past every ring that has been claimed.
ClaimInv == \A x \in Workers : Claimed(x) => wkId[x] < id[x[1]]

\* cpu_available is below every CPU that has been taken.
PinInv == \A x \in Workers : wkCpu[x] # NoCpu => cpu_available < wkCpu[x]

\* There are threads only once main waits for the supervisor; from the start
\* of the supervisor on, run is cleared only by a SIGTERM that counts.
EndInv ==
    /\ mainPc \in {"spawn", "join", "unload"} => run = 1 \/ termed
    /\ supPc # "none" => mainPc \in {"join", "unload"}
    /\ \A s \in Sessions : ioPc[s] # "none" => mainPc \in {"join", "unload"}
    /\ "freed" \in faults \/ (\E s \in Sessions : mem[s] = "freed") =>
          termed /\ run = 0 /\ mainPc \in {"join", "unload"}
-----------------------------------------------------------------------------
\* There are Len(Peers) sessions, each with a direction and a number of threads.
LEMMA SessionFacts ==
  /\ Len(Peers) \in Nat
  /\ \A s \in Sessions : Threads(s) \in Nat /\ Peers[s].dir \in {"IN", "OUT"}
<1>1. Len(Peers) \in Nat
  BY PeersAssumption, LenProperties
<1>2. \A s \in Sessions : Peers[s] \in [dir : {"IN", "OUT"}, threads : Nat]
  BY PeersAssumption, ElementOfSeq DEF Sessions
<1>3. QED
  BY <1>1, <1>2 DEF Threads

\* A worker is a session and the number of one of its rings, counted from 1.
LEMMA WorkerFacts ==
  \A x \in Workers : x = <<x[1], x[2]>> /\ x[1] \in Sessions /\ x[2] \in 1..Threads(x[1])
<1> TAKE x \in Workers
<1>1. PICK s \in Sessions : x \in {s} \X (1..Threads(s))
  BY DEF Workers
<1>2. PICK k \in 1..Threads(s) : x = <<s, k>>
  BY <1>1
<1>3. QED
  BY <1>2

\* Assigning to one element of an array keeps its type.
LEMMA Update ==
  ASSUME NEW S, NEW T, NEW f \in [S -> T], NEW e, NEW v \in T
  PROVE  [f EXCEPT ![e] = v] \in [S -> T]
  OBVIOUS

\* Nothing is created and nothing is freed.
LEMMA InitInv ==
  Init => TypeOK /\ SupInv /\ CreatedInv /\ ClaimInv /\ RingsDistinct /\ PinInv /\ PinsDistinct /\ EndInv
<1> SUFFICES ASSUME Init
             PROVE  TypeOK /\ SupInv /\ CreatedInv /\ ClaimInv /\ RingsDistinct /\ PinInv /\ PinsDistinct /\ EndInv
  OBVIOUS
<1> USE DEF Init, All
<1>1. TypeOK
  <2>1. cur \in 1..Len(Peers) + 1 /\ terms \in 0..MaxTerms
    BY SessionFacts, TermsAssumption
  <2>2. id \in [Sessions -> Nat]
    BY ResidueAssumption
  <2>3. cpu_available \in Int /\ wkCpu \in [Workers -> Int]
    BY ResidueAssumption DEF NoCpu
  <2>4. \A s \in Sessions : nq[s] <= Threads(s)
    BY SessionFacts
  <2>5. QED
    BY <2>1, <2>2, <2>3, <2>4 DEF TypeOK
<1>2. SupInv
  BY DEF SupInv
<1>3. CreatedInv
  BY DEF CreatedInv
<1>4. ClaimInv /\ RingsDistinct
  BY DEF ClaimInv, RingsDistinct, Claimed
<1>5. PinInv /\ PinsDistinct
  BY DEF PinInv, PinsDistinct
<1>6. EndInv
  BY DEF EndInv
<1>7. QED
  BY <1>1, <1>2, <1>3, <1>4, <1>5, <1>6

\* exit() leaves no thread and no memory, so nothing about them can be wrong.
LEMMA ExitInv ==
  ASSUME TypeOK, EndInv, Exit
  PROVE  TypeOK' /\ SupInv' /\ CreatedInv' /\ ClaimInv' /\ RingsDistinct' /\ PinInv' /\ PinsDistinct' /\ EndInv'
<1> USE DEF Exit, All, sig
<1>1. TypeOK'
  <2>1. cur' \in 1..Len(Peers) + 1 /\ wkCpu' \in [Workers -> Int]
    BY SessionFacts DEF NoCpu
  <2>2. \A s \in Sessions : nq'[s] <= Threads(s)
    BY SessionFacts
  <2>3. QED
    BY <2>1, <2>2 DEF TypeOK
<1>2. SupInv'
  BY DEF SupInv
<1>3. CreatedInv'
  BY DEF CreatedInv
<1>4. ClaimInv' /\ RingsDistinct'
  BY DEF ClaimInv, RingsDistinct, Claimed
<1>5. PinInv' /\ PinsDistinct'
  BY DEF PinInv, PinsDistinct
<1>6. EndInv'
  BY DEF EndInv
<1>7. QED
  BY <1>1, <1>2, <1>3, <1>4, <1>5, <1>6

\* The steps that are not exit(): main, the supervisor, a SIGTERM that is
\* handled, a worker, an I/O thread.
Caught == /\ proc = "live" /\ terms < MaxTerms /\ handled
          /\ terms' = terms + 1 /\ run' = 0
          /\ termed' = (termed \/ mainPc \in {"spawn", "join", "unload"})
          /\ lost' = (lost \/ mainPc \in {"config", "start"})
          /\ UNCHANGED <<proc, handled, cpu_available, mainPc, sup, sess, wk, io, faults>>

Started == MainArgs \/ MainSignals \/ MainConfig \/ start_supervisor \/ SpawnSupervisor \/ Join

\* Every step is one of these, or exit().
LEMMA Steps ==
  ASSUME [Next]_vars
  PROVE  \/ Exit \/ Started \/ Supervisor \/ Caught
         \/ \E x \in Workers : Worker(x)
         \/ \E s \in Sessions : IoThread(s)
         \/ UNCHANGED vars
  BY DEF Next, Main, Started, unload_config, MainDies, SupDies, Term, Die, Caught
-----------------------------------------------------------------------------
\* The values of the variables, and the supervisor's place in its loops.
LEMMA NextTypeOK == TypeOK /\ SupInv /\ EndInv /\ [Next]_vars => TypeOK'
<1> SUFFICES ASSUME TypeOK, SupInv, EndInv, [Next]_vars PROVE TypeOK'
  OBVIOUS
<1> USE DEF TypeOK, sup, sess, wk, io, sig
<1>1. CASE Exit
  BY <1>1, ExitInv
<1>2. CASE Started
  BY <1>2 DEF Started, MainGo, MainArgs, MainSignals, MainConfig, start_supervisor, SpawnSupervisor, Join
<1>3. CASE Supervisor
  <2> USE DEF SupOnly
  <2>1. CASE SessionReady
    <3>1. mem' \in [Sessions -> {"none", "alive", "freed"}]
      BY <2>1 DEF SessionReady
    <3>2. QED
      BY <2>1, <3>1 DEF SessionReady
  <2>2. CASE SessionSkipped \/ NewIo
    <3>1. cur \in Sessions /\ cur' = cur + 1
      BY <2>2 DEF SessionSkipped, NewIo, SupInv
    <3>2. cur' \in 1..Len(Peers) + 1
      BY <3>1, SessionFacts DEF Sessions
    <3>3. ioPc' \in [Sessions -> {"none", "top", "push", "ended"}]
      BY <2>2 DEF SessionSkipped, NewIo
    <3>4. QED
      BY <2>2, <3>2, <3>3 DEF SessionSkipped, NewIo
  <2>3. CASE InitRing
    <3>1. cur \in Sessions /\ Threads(cur) \in Nat /\ j + 1 <= Threads(cur)
      BY <2>3, SessionFacts DEF InitRing, SupInv
    <3>2. nq' \in [Sessions -> Nat]
      BY <2>3, Update DEF InitRing
    <3>3. \A s \in Sessions : nq'[s] <= Threads(s)
      BY <2>3, <3>1 DEF InitRing
    <3>4. QED
      BY <2>3, <3>2, <3>3 DEF InitRing
  <2>4. CASE NewWorker
    <3>1. wkPc' \in [Workers -> {"none", "claim", "pin", "top", "pop", "wait", "ended"}]
      BY <2>4, Update DEF NewWorker
    <3>2. QED
      BY <2>4, <3>1 DEF NewWorker
  <2>5. CASE SetupDone \/ drop_privs \/ SupervisorEnds
    BY <2>5 DEF SetupDone, drop_privs, SupervisorEnds
  <2>6. QED
    BY <1>3, <2>1, <2>2, <2>3, <2>4, <2>5 DEF Supervisor
<1>4. CASE Caught
  <2>1. terms' \in 0..MaxTerms
    BY <1>4, TermsAssumption DEF Caught
  <2>2. termed' \in BOOLEAN /\ lost' \in BOOLEAN
    BY <1>4, Zenon DEF Caught
  <2>3. QED
    BY <1>4, <2>1, <2>2 DEF Caught
<1>5. CASE \E x \in Workers : Worker(x)
  <2> PICK x \in Workers : Worker(x)
    BY <1>5
  <2> USE DEF ThreadOnly, WkRest
  <2>1. faults' \subseteq {"freed", "beyond"}
    BY DEF Worker, Claim, Pin, WkTop, WkPop, WkSleeps, WkWakes, Touch
  <2>2. wkPc' \in [Workers -> {"none", "claim", "pin", "top", "pop", "wait", "ended"}]
    BY DEF Worker, Claim, Pin, WkTop, WkPop, WkSleeps, WkWakes, WkGo
  <2>3. CASE Claim(x)
    <3>1. x[1] \in Sessions /\ id[x[1]] \in Nat
      BY WorkerFacts
    <3>2. id' \in [Sessions -> Nat] /\ wkId' \in [Workers -> Nat]
      BY <2>3, <3>1 DEF Claim
    <3>3. QED
      BY <2>1, <2>2, <2>3, <3>2 DEF Claim
  <2>4. CASE Pin(x)
    <3>1. cpu_available' \in Int /\ wkCpu' \in [Workers -> Int]
      BY <2>4 DEF Pin, NoCpu
    <3>2. QED
      BY <2>1, <2>2, <2>4, <3>1 DEF Pin
  <2>5. CASE WkTop(x) \/ WkPop(x) \/ WkSleeps(x) \/ WkWakes(x)
    BY <2>1, <2>2, <2>5 DEF WkTop, WkPop, WkSleeps, WkWakes
  <2>6. QED
    BY <2>3, <2>4, <2>5 DEF Worker
<1>6. CASE \E s \in Sessions : IoThread(s)
  <2> PICK s \in Sessions : IoThread(s)
    BY <1>6
  <2>1. faults' \subseteq {"freed", "beyond"}
    BY DEF IoThread, IoTop, IoPush, IoEnds, Touch
  <2>2. ioPc' \in [Sessions -> {"none", "top", "push", "ended"}]
    BY DEF IoThread, IoTop, IoPush, IoEnds
  <2>3. ioI' \in [Sessions -> Nat]
    <3>1. NextQ(s) \in Nat
      BY DEF NextQ
    <3>2. QED
      BY <3>1 DEF IoThread, IoTop, IoPush, IoEnds
  <2>4. mem' \in [Sessions -> {"none", "alive", "freed"}]
    BY DEF IoThread, IoTop, IoPush, IoEnds
  <2>5. IoRest
    BY DEF IoThread, IoTop, IoPush, IoEnds
  <2>6. QED
    BY <2>1, <2>2, <2>3, <2>4, <2>5 DEF IoRest, ThreadOnly
<1>7. CASE UNCHANGED vars
  BY <1>7 DEF vars
<1>8. QED
  BY Steps, <1>1, <1>2, <1>3, <1>4, <1>5, <1>6, <1>7
\* The supervisor's loops: a ring is initialized, then its worker is created.
LEMMA NextSupInv == TypeOK /\ SupInv /\ EndInv /\ [Next]_vars => SupInv'
<1> SUFFICES ASSUME TypeOK, SupInv, EndInv, [Next]_vars PROVE SupInv'
  OBVIOUS
<1>1. CASE Exit
  BY <1>1, ExitInv
<1>2. CASE Supervisor
  <2>1. cur \in Nat /\ j \in Nat /\ nq \in [Sessions -> Nat]
    BY SessionFacts DEF TypeOK
  <2> USE <2>1, SessionFacts DEF SupInv, SupOnly, sess
  <2>2. CASE SessionReady
    BY <2>2 DEF SessionReady
  <2>3. CASE SessionSkipped \/ NewIo
    BY <2>3 DEF SessionSkipped, NewIo, Sessions
  <2>4. CASE InitRing
    BY <2>4 DEF InitRing
  <2>5. CASE NewWorker
    BY <2>5 DEF NewWorker
  <2>6. CASE SetupDone \/ drop_privs \/ SupervisorEnds
    BY <2>6 DEF SetupDone, drop_privs, SupervisorEnds
  <2>7. QED
    BY <1>2, <2>2, <2>3, <2>4, <2>5, <2>6 DEF Supervisor
<1>3. CASE Started
  <2>1. UNCHANGED nq
    BY <1>3 DEF Started, MainGo, MainArgs, MainSignals, MainConfig, start_supervisor,
                SpawnSupervisor, Join, sess
  <2>2. CASE SpawnSupervisor
    <3>1. supPc = "none"
      BY <2>2 DEF SpawnSupervisor, MainGo, EndInv
    <3>2. QED
      BY <2>1, <2>2, <3>1 DEF SupInv, SpawnSupervisor
  <2>3. CASE UNCHANGED sup
    BY <2>1, <2>3 DEF SupInv, sup
  <2>4. QED
    BY <1>3, <2>2, <2>3 DEF Started, MainArgs, MainSignals, MainConfig, start_supervisor, Join
<1>4. CASE UNCHANGED <<sup, nq>>
  BY <1>4 DEF SupInv, sup
<1>5. QED
  <2>1. Caught => UNCHANGED <<sup, nq>>
    BY DEF Caught, sess
  <2>2. (\E x \in Workers : Worker(x)) => UNCHANGED <<sup, nq>>
    BY DEF Worker, Claim, Pin, WkTop, WkPop, WkSleeps, WkWakes, WkRest, ThreadOnly
  <2>3. (\E s \in Sessions : IoThread(s)) => UNCHANGED <<sup, nq>>
    BY DEF IoThread, IoTop, IoPush, IoEnds, IoRest, ThreadOnly
  <2>4. UNCHANGED vars => UNCHANGED <<sup, nq>>
    BY DEF vars, sess
  <2>5. QED
    BY Steps, <1>1, <1>2, <1>3, <1>4, <2>1, <2>2, <2>3, <2>4

\* What the steps of the threads do not touch.
LEMMA ThreadSteps ==
  ASSUME TypeOK, (\E x \in Workers : Worker(x)) \/ (\E s \in Sessions : IoThread(s))
  PROVE  /\ UNCHANGED <<run, mainPc, supPc, cur, j, nq, termed>>
         /\ \A x \in Workers : wkPc[x] = "none" => wkPc'[x] = "none"
         /\ \A s \in Sessions : ioPc[s] = "none" => ioPc'[s] = "none"
<1> USE DEF TypeOK
<1>1. CASE \E x \in Workers : Worker(x)
  <2> PICK x \in Workers : Worker(x)
    BY <1>1
  <2>1. UNCHANGED <<run, mainPc, supPc, cur, j, nq, termed, ioPc>>
    BY DEF Worker, Claim, Pin, WkTop, WkPop, WkSleeps, WkWakes, WkRest, ThreadOnly, sup, io, sig
  <2>2. wkPc[x] # "none" /\ \E to : wkPc' = [wkPc EXCEPT ![x] = to]
    BY DEF Worker, Claim, Pin, WkTop, WkPop, WkSleeps, WkWakes, WkGo
  <2>3. QED
    BY <2>1, <2>2
<1>2. CASE \E s \in Sessions : IoThread(s)
  <2> PICK s \in Sessions : IoThread(s)
    BY <1>2
  <2>1. UNCHANGED <<run, mainPc, supPc, cur, j, nq, termed, wkPc>>
    BY DEF IoThread, IoTop, IoPush, IoEnds, IoRest, ThreadOnly, sup, wk, sig
  <2>2. ioPc[s] # "none" /\ \E to : ioPc' = [ioPc EXCEPT ![s] = to]
    BY DEF IoThread, IoTop, IoPush, IoEnds
  <2>3. QED
    BY <2>1, <2>2
<1>3. QED
  BY <1>1, <1>2

\* A worker is created after its ring, an I/O thread after all of them.
LEMMA NextCreatedInv == TypeOK /\ SupInv /\ EndInv /\ CreatedInv /\ [Next]_vars => CreatedInv'
<1> SUFFICES ASSUME TypeOK, SupInv, EndInv, CreatedInv, [Next]_vars PROVE CreatedInv'
  OBVIOUS
<1>1. CASE Exit
  BY <1>1, ExitInv
<1>2. CASE Supervisor
  <2>1. cur \in Nat /\ j \in Nat /\ nq \in [Sessions -> Nat]
    BY SessionFacts DEF TypeOK
  <2>2. CASE InitRing
    <3>1. cur \in Sessions /\ nq[cur] = j /\ nq' = [nq EXCEPT ![cur] = j + 1]
      BY <2>2 DEF InitRing, SupInv
    <3>2. \A s \in Sessions : nq[s] <= nq'[s] /\ (s < cur => nq[s] = nq'[s])
      BY <2>1, <3>1
    <3>3. UNCHANGED <<wkPc, ioPc, cur>>
      BY <2>2 DEF InitRing, wk, io
    <3>4. \A x \in Workers : wkPc'[x] # "none" => x[2] <= nq'[x[1]]
      <4> SUFFICES ASSUME NEW x \in Workers, wkPc'[x] # "none" PROVE x[2] <= nq'[x[1]]
        OBVIOUS
      <4>1. x[1] \in Sessions /\ x[2] \in Nat
        BY WorkerFacts, SessionFacts
      <4>2. nq[x[1]] \in Nat /\ nq'[x[1]] \in Nat
        BY <2>1, <3>1, <4>1, NextTypeOK DEF TypeOK
      <4>3. QED
        BY <3>2, <3>3, <4>1, <4>2 DEF CreatedInv
    <3>5. \A x \in Workers : x[1] = cur /\ wkPc'[x] # "none" => x[2] <= j
      BY <3>1, <3>3 DEF CreatedInv
    <3>6. QED
      BY <2>2, <3>2, <3>3, <3>4, <3>5 DEF CreatedInv, InitRing
  <2>3. CASE NewWorker
    <3>1. cur \in Sessions /\ nq[cur] = j + 1 /\ UNCHANGED <<nq, ioPc, cur>>
      BY <2>3 DEF NewWorker, SupInv, sess, io
    <3>2. SUFFICES ASSUME NEW x \in Workers, wkPc'[x] # "none" PROVE x[2] <= nq[x[1]]
      BY <2>3, <3>1 DEF CreatedInv, NewWorker
    <3>3. CASE x = <<cur, j + 1>>
      BY <2>1, <3>1, <3>3
    <3>4. CASE x # <<cur, j + 1>>
      BY <2>3, <3>2, <3>4 DEF NewWorker, CreatedInv, TypeOK
    <3>5. QED
      BY <3>3, <3>4
  <2>4. CASE NewIo
    <3>1. cur \in Sessions /\ nq[cur] = Threads(cur)
      BY <2>1, <2>4, SessionFacts DEF NewIo, SupInv
    <3>2. QED
      BY <2>1, <2>4, <3>1 DEF NewIo, CreatedInv, TypeOK, Sessions, sess, wk
  <2>5. CASE SessionSkipped
    BY <2>1, <2>5 DEF SessionSkipped, CreatedInv, Sessions, sess, wk, io
  <2>6. CASE SessionReady \/ SetupDone \/ drop_privs \/ SupervisorEnds
    BY <2>6 DEF SessionReady, SetupDone, drop_privs, SupervisorEnds, CreatedInv, sess, wk, io
  <2>7. QED
    BY <1>2, <2>2, <2>3, <2>4, <2>5, <2>6 DEF Supervisor
<1>3. CASE (\E x \in Workers : Worker(x)) \/ (\E s \in Sessions : IoThread(s))
  BY <1>3, ThreadSteps DEF CreatedInv
<1>4. CASE Started \/ Caught \/ UNCHANGED vars
  <2>1. UNCHANGED <<cur, j, nq, wkPc, ioPc>> /\ (supPc' = supPc \/ supPc' = "setup")
    BY <1>4 DEF Started, MainGo, MainArgs, MainSignals, MainConfig, start_supervisor, SpawnSupervisor,
                Join, Caught, vars, sup, sess, wk, io
  <2>2. QED
    BY <2>1 DEF CreatedInv
<1>5. QED
  BY Steps, <1>1, <1>2, <1>3, <1>4
-----------------------------------------------------------------------------
\* Only the fetch-and-add on h->id gives a worker a ring.
LEMMA OnlyClaimClaims ==
  ASSUME TypeOK, [Next]_vars, ~Exit, ~(\E x \in Workers : Claim(x))
  PROVE  UNCHANGED <<id, wkId>> /\ \A x \in Workers : Claimed(x)' => Claimed(x)
<1>1. CASE \E x \in Workers : Worker(x)
  <2> PICK x \in Workers : Worker(x)
    BY <1>1
  <2> USE DEF TypeOK
  <2>1. UNCHANGED <<id, wkId>>
    BY DEF Worker, Pin, WkTop, WkPop, WkSleeps, WkWakes, WkRest
  <2>2. CASE Pin(x)
    <3>1. wkPc[x] = "pin" /\ wkPc' = [wkPc EXCEPT ![x] = IF Peers[x[1]].dir = "OUT" THEN "top" ELSE "claim"]
      BY <2>2 DEF Pin, WkGo
    <3>2. QED
      BY <2>1, <3>1 DEF Claimed
  <2>3. CASE WkTop(x) \/ WkPop(x) \/ WkSleeps(x) \/ WkWakes(x)
    <3>1. wkPc[x] \in {"top", "pop", "wait"} /\ \E to : wkPc' = [wkPc EXCEPT ![x] = to]
      BY <2>3 DEF WkTop, WkPop, WkSleeps, WkWakes, WkGo
    <3>2. QED
      BY <2>1, <3>1 DEF Claimed
  <2>4. QED
    BY <2>2, <2>3 DEF Worker
<1>2. CASE NewWorker
  <2>1. wkPc' = [wkPc EXCEPT ![<<cur, j + 1>>] = IF Peers[cur].dir = "OUT" THEN "claim" ELSE "pin"]
    BY <1>2 DEF NewWorker
  <2>2. UNCHANGED <<id, wkId>>
    BY <1>2 DEF NewWorker, sess
  <2>3. \A x \in Workers : x # <<cur, j + 1>> => wkPc'[x] = wkPc[x]
    BY <2>1 DEF TypeOK
  <2>4. \A x \in Workers : x = <<cur, j + 1>> =>
           wkPc'[x] = IF Peers[x[1]].dir = "OUT" THEN "claim" ELSE "pin"
    BY <2>1 DEF TypeOK
  <2>5. QED
    BY <2>2, <2>3, <2>4 DEF Claimed
<1>3. CASE UNCHANGED <<id, wkPc, wkId>>
  BY <1>3 DEF Claimed
<1>4. QED
  <2>1. Started \/ Caught \/ UNCHANGED vars => UNCHANGED <<id, wkPc, wkId>>
    BY DEF Started, MainGo, MainArgs, MainSignals, MainConfig, start_supervisor, SpawnSupervisor,
           Join, Caught, vars, sess, wk
  <2>2. Supervisor => NewWorker \/ UNCHANGED <<id, wkPc, wkId>>
    BY DEF Supervisor, SessionReady, SessionSkipped, InitRing, NewIo, SetupDone, drop_privs,
           SupervisorEnds, sess, wk
  <2>3. (\E s \in Sessions : IoThread(s)) => UNCHANGED <<id, wkPc, wkId>>
    BY DEF IoThread, IoTop, IoPush, IoEnds, IoRest, wk
  <2>4. QED
    BY Steps, <1>1, <1>2, <1>3, <2>1, <2>2, <2>3

\* A ring is claimed once: h->id goes past it in the same step.
LEMMA NextClaims ==
  TypeOK /\ EndInv /\ ClaimInv /\ RingsDistinct /\ [Next]_vars => ClaimInv' /\ RingsDistinct'
<1> SUFFICES ASSUME TypeOK, EndInv, ClaimInv, RingsDistinct, [Next]_vars
             PROVE  ClaimInv' /\ RingsDistinct'
  OBVIOUS
<1>1. CASE Exit
  BY <1>1, ExitInv
<1>2. CASE \E x \in Workers : Claim(x)
  <2> PICK x \in Workers : Claim(x)
    BY <1>2
  <2>1. x[1] \in Sessions /\ id[x[1]] \in Nat /\ wkPc[x] = "claim"
    BY WorkerFacts DEF Claim, WkGo, TypeOK
  <2>2. wkId'[x] = id[x[1]] /\ id'[x[1]] = id[x[1]] + 1
    BY <2>1 DEF Claim, TypeOK
  <2>3. ASSUME NEW y \in Workers, y # x, Claimed(y)'
        PROVE  /\ Claimed(y) /\ wkId'[y] = wkId[y] /\ wkId[y] < id[y[1]]
               /\ id[y[1]] <= id'[y[1]]
    <3>1. wkPc'[y] = wkPc[y] /\ wkId'[y] = wkId[y]
      BY <2>3 DEF Claim, WkGo, TypeOK
    <3>2. Claimed(y)
      BY <2>3, <3>1 DEF Claimed
    <3>3. y[1] \in Sessions /\ id[y[1]] \in Nat
      BY WorkerFacts DEF TypeOK
    <3>4. id[y[1]] <= id'[y[1]]
      BY <2>1, <3>3 DEF Claim, TypeOK
    <3>5. QED
      BY <3>1, <3>2, <3>4 DEF ClaimInv
  <2>4. ClaimInv'
    <3> SUFFICES ASSUME NEW y \in Workers, Claimed(y)' PROVE wkId'[y] < id'[y[1]]
      BY DEF ClaimInv
    <3>1. CASE y = x
      BY <2>1, <2>2, <3>1
    <3>2. CASE y # x
      <4>1. y[1] \in Sessions /\ id[y[1]] \in Nat /\ wkId[y] \in Nat /\ id'[y[1]] \in Nat
        BY WorkerFacts, <2>1 DEF TypeOK, Claim
      <4>2. QED
        BY <2>3, <3>2, <4>1
    <3>3. QED
      BY <3>1, <3>2
  <2>5. RingsDistinct'
    <3> SUFFICES ASSUME NEW y \in Workers, NEW z \in Workers, y # z, y[1] = z[1],
                        Claimed(y)', Claimed(z)'
                 PROVE  wkId'[y] # wkId'[z]
      BY DEF RingsDistinct
    <3>1. wkId[y] \in Nat /\ wkId[z] \in Nat
      BY DEF TypeOK
    <3>2. CASE y = x
      BY <2>1, <2>2, <2>3, <3>1, <3>2
    <3>3. CASE z = x
      BY <2>1, <2>2, <2>3, <3>1, <3>3
    <3>4. CASE y # x /\ z # x
      BY <2>3, <3>4 DEF RingsDistinct
    <3>5. QED
      BY <3>2, <3>3, <3>4
  <2>6. QED
    BY <2>4, <2>5
<1>3. CASE ~Exit /\ ~(\E x \in Workers : Claim(x))
  BY <1>3, OnlyClaimClaims DEF ClaimInv, RingsDistinct
<1>4. QED
  BY <1>1, <1>2, <1>3

\* A CPU number is taken once: cpu_available goes below it in the same step.
LEMMA NextPins ==
  TypeOK /\ EndInv /\ PinInv /\ PinsDistinct /\ [Next]_vars => PinInv' /\ PinsDistinct'
<1> SUFFICES ASSUME TypeOK, EndInv, PinInv, PinsDistinct, [Next]_vars PROVE PinInv' /\ PinsDistinct'
  OBVIOUS
<1>1. CASE Exit
  BY <1>1, ExitInv
<1>2. CASE \E x \in Workers : Pin(x)
  <2> PICK x \in Workers : Pin(x)
    BY <1>2
  <2>1. /\ wkCpu' = [wkCpu EXCEPT ![x] = wkCpu'[x]]
        /\ wkCpu'[x] \in {cpu_available, NoCpu}
        /\ cpu_available' = cpu_available - 1
    BY DEF Pin, TypeOK
  <2>2. cpu_available \in Int /\ wkCpu \in [Workers -> Int]
    BY DEF TypeOK
  <2>3. PinInv'
    BY <2>1, <2>2 DEF PinInv
  <2>4. PinsDistinct'
    BY <2>1, <2>2 DEF PinInv, PinsDistinct
  <2>5. QED
    BY <2>3, <2>4
<1>3. CASE UNCHANGED <<cpu_available, wkCpu>>
  BY <1>3 DEF PinInv, PinsDistinct
<1>4. QED
  <2>1. Started \/ Caught \/ UNCHANGED vars => UNCHANGED <<cpu_available, wkCpu>>
    BY DEF Started, MainGo, MainArgs, MainSignals, MainConfig, start_supervisor, SpawnSupervisor,
           Join, Caught, vars, wk
  <2>2. Supervisor => UNCHANGED <<cpu_available, wkCpu>>
    BY DEF Supervisor, SessionReady, SessionSkipped, InitRing, NewWorker, NewIo, SetupDone, drop_privs,
           SupervisorEnds, SupOnly, wk
  <2>3. (\E s \in Sessions : IoThread(s)) => UNCHANGED <<cpu_available, wkCpu>>
    BY DEF IoThread, IoTop, IoPush, IoEnds, IoRest, wk
  <2>4. (\E x \in Workers : Worker(x)) =>
           (\E x \in Workers : Pin(x)) \/ UNCHANGED <<cpu_available, wkCpu>>
    BY DEF Worker, Claim, WkTop, WkPop, WkSleeps, WkWakes, WkRest
  <2>5. QED
    BY Steps, <1>1, <1>2, <1>3, <2>1, <2>2, <2>3, <2>4
\* run is set once, before there is any thread; SIGTERM clears it.
LEMMA NextEndInv == TypeOK /\ EndInv /\ [Next]_vars => EndInv'
<1> SUFFICES ASSUME TypeOK, EndInv, [Next]_vars PROVE EndInv'
  OBVIOUS
<1>1. CASE Exit
  BY <1>1, ExitInv
<1>2. CASE Started
  <2>1. UNCHANGED <<ioPc, mem, faults, termed>>
    BY <1>2 DEF Started, MainGo, MainArgs, MainSignals, MainConfig, start_supervisor, SpawnSupervisor,
                Join, sess, io, sig
  <2>2. QED
    BY <1>2, <2>1 DEF EndInv, Started, MainGo, MainArgs, MainSignals, MainConfig, start_supervisor,
                SpawnSupervisor, Join, sup
<1>3. CASE Supervisor
  <2>1. UNCHANGED <<run, mainPc, faults, termed>> /\ supPc # "none"
    BY <1>3 DEF Supervisor, SessionReady, SessionSkipped, InitRing, NewWorker, NewIo, SetupDone,
                drop_privs, SupervisorEnds, SupOnly, sig
  <2>2. mainPc \in {"join", "unload"}
    BY <2>1 DEF EndInv
  <2>3. \A s \in Sessions : mem'[s] = "freed" => mem[s] = "freed"
    BY <1>3 DEF Supervisor, SessionReady, SessionSkipped, InitRing, NewWorker, NewIo, SetupDone,
                drop_privs, SupervisorEnds, sess, TypeOK
  <2>4. QED
    BY <2>1, <2>2, <2>3 DEF EndInv
<1>4. CASE Caught
  BY <1>4 DEF EndInv, Caught, sup, sess, io
<1>5. CASE \E x \in Workers : Worker(x)
  <2>1. UNCHANGED <<run, mainPc, supPc, ioPc, mem, termed>>
    BY <1>5 DEF Worker, Claim, Pin, WkTop, WkPop, WkSleeps, WkWakes, WkRest, ThreadOnly, sup, io, sig
  <2>2. "freed" \in faults' => "freed" \in faults \/ \E s \in Sessions : mem[s] = "freed"
    BY <1>5, WorkerFacts DEF Worker, Claim, Pin, WkTop, WkPop, WkSleeps, WkWakes, Touch
  <2>3. QED
    BY <2>1, <2>2 DEF EndInv
<1>6. CASE \E s \in Sessions : IoThread(s)
  <2> PICK s \in Sessions : IoThread(s)
    BY <1>6
  <2>1. UNCHANGED <<run, mainPc, supPc, termed>> /\ ioPc[s] # "none"
    BY DEF IoThread, IoTop, IoPush, IoEnds, IoRest, ThreadOnly, sup, sig
  <2>2. mainPc \in {"join", "unload"} /\ (run = 1 \/ termed)
    BY <2>1 DEF EndInv
  <2>3. CASE IoEnds(s)
    <3>1. run = 0 /\ termed
      BY <2>2, <2>3 DEF IoEnds, TypeOK
    <3>2. QED
      BY <2>1, <2>2, <3>1 DEF EndInv
  <2>4. CASE IoTop(s) \/ IoPush(s)
    <3>1. UNCHANGED mem /\ ("freed" \in faults' => "freed" \in faults \/ mem[s] = "freed")
      BY <2>4 DEF IoTop, IoPush, Touch
    <3>2. QED
      BY <2>1, <2>2, <3>1 DEF EndInv
  <2>5. QED
    BY <2>3, <2>4 DEF IoThread
<1>7. CASE UNCHANGED vars
  BY <1>7 DEF EndInv, vars, sup, sess, io, sig
<1>8. QED
  BY Steps, <1>1, <1>2, <1>3, <1>4, <1>5, <1>6, <1>7

\* The claimed workers of a session are among its first nq[s].
LEMMA FewClaims ==
  ASSUME TypeOK, CreatedInv, NEW s \in Sessions
  PROVE  IsFiniteSet(ClaimedOf(s)) /\ Cardinality(ClaimedOf(s)) <= nq[s]
<1> DEFINE Ring == 1..nq[s]
<1>1. nq[s] \in Nat
  BY DEF TypeOK
<1>2. IsFiniteSet(Ring) /\ Cardinality(Ring) = nq[s]
  BY <1>1, FS_Interval
<1>3. IsFiniteSet({s}) /\ Cardinality({s}) = 1
  BY FS_Singleton
<1>4. IsFiniteSet({s} \X Ring) /\ Cardinality({s} \X Ring) = Cardinality({s}) * Cardinality(Ring)
  BY <1>2, <1>3, FS_Product
<1>5. Cardinality({s} \X Ring) = nq[s]
  BY <1>1, <1>2, <1>3, <1>4
<1>6. ClaimedOf(s) \in SUBSET ({s} \X Ring)
  <2> SUFFICES ASSUME NEW x \in ClaimedOf(s) PROVE x \in {s} \X Ring
    OBVIOUS
  <2>1. x \in Workers /\ x[1] = s /\ wkPc[x] # "none"
    BY DEF ClaimedOf, Claimed
  <2>2. x = <<s, x[2]>> /\ x[2] \in 1..Threads(s)
    BY <2>1, WorkerFacts
  <2>3. x[2] \in Ring
    BY <1>1, <2>1, <2>2, SessionFacts DEF CreatedInv
  <2>4. QED
    BY <2>2, <2>3
<1>7. QED
  BY <1>4, <1>5, <1>6, FS_Subset

-----------------------------------------------------------------------------
\* The inductive invariant.
LifeInv == /\ TypeOK /\ SupInv /\ CreatedInv /\ EndInv
           /\ ClaimInv /\ RingsDistinct /\ PinInv /\ PinsDistinct

\* It holds in every reachable state.
LEMMA LifeInvAlways == Spec => []LifeInv
<1>1. Init => LifeInv
  BY InitInv DEF LifeInv
<1>2. LifeInv /\ [Next]_vars => LifeInv'
  BY NextTypeOK, NextSupInv, NextCreatedInv, NextEndInv, NextClaims, NextPins DEF LifeInv
<1>3. QED
  BY <1>1, <1>2, PTL DEF Spec

\* The variables of main, the supervisor, the sessions and the threads keep
\* their types, whatever the peers; the supervisor's loops stay inside the
\* arrays they index.
THEOREM TypeCorrect == Spec => []TypeOK
<1>1. LifeInv => TypeOK
  BY DEF LifeInv
<1>2. QED
  BY <1>1, LifeInvAlways, PTL

\* No two workers of a session drain the same ring (tx and rx, the
\* fetch-and-add on h->id), for any residue in h->id.
THEOREM WorkersHaveOwnRing == Spec => []RingsDistinct
<1>1. LifeInv => RingsDistinct
  BY DEF LifeInv
<1>2. QED
  BY <1>1, LifeInvAlways, PTL

\* No two workers are pinned to the same CPU (tx and rx, cpu_available).
THEOREM WorkersHaveOwnCpu == Spec => []PinsDistinct
<1>1. LifeInv => PinsDistinct
  BY DEF LifeInv
<1>2. QED
  BY <1>1, LifeInvAlways, PTL

\* tx_io and rx_io free a session's memory only after a SIGTERM that ends the
\* process, and nothing touches freed memory before.
THEOREM MemoryOutlivesRun == Spec => []FreedOnlyAtEnd
<1>1. LifeInv => FreedOnlyAtEnd
  BY DEF LifeInv, EndInv, FreedOnlyAtEnd
<1>2. QED
  BY <1>1, LifeInvAlways, PTL

\* Where h->id counts the claims, every claimed ring is initialized, and an
\* I/O thread runs only when all rings of its session are (tx_session,
\* rx_session).
THEOREM RingsBeforeThreads == Spec => []RingReady
<1>1. LifeInv => RingReady
  <2> SUFFICES ASSUME LifeInv, NEW s \in Sessions
               PROVE  /\ id[s] = Cardinality(ClaimedOf(s)) =>
                            \A x \in Workers : x[1] = s /\ Claimed(x) => wkId[x] < nq[s]
                      /\ ioPc[s] # "none" => nq[s] = Threads(s)
    BY DEF RingReady, ClaimedOf
  <2>1. ASSUME id[s] = Cardinality(ClaimedOf(s)), NEW x \in Workers, x[1] = s, Claimed(x)
        PROVE  wkId[x] < nq[s]
    <3>1. id[s] <= nq[s]
      BY <2>1, FewClaims DEF LifeInv
    <3>2. wkId[x] < id[s]
      BY <2>1 DEF LifeInv, ClaimInv
    <3>3. wkId[x] \in Nat /\ id[s] \in Nat /\ nq[s] \in Nat
      BY DEF LifeInv, TypeOK
    <3>4. QED
      BY <3>1, <3>2, <3>3
  <2>2. QED
    BY <2>1 DEF LifeInv, CreatedInv
<1>2. QED
  BY <1>1, LifeInvAlways, PTL
=============================================================================
