----------------------------- MODULE Lifecycle -----------------------------
(***************************************************************************)
(* The threads of the process: main() starts the supervisor and joins it;  *)
(* the supervisor sets up one session per peer (tx_session, rx_session),   *)
(* each with its rings, its workers (tx, rx) and its I/O thread (tx_io,    *)
(* rx_io), drops the privileges and waits for the end; a signal may come   *)
(* at any time.  What goes on inside a ring is module Ring's; here a       *)
(* thread only touches h->q[i], and the question is whether it is there.   *)
(***************************************************************************)
EXTENDS Integers, Sequences, FiniteSets

CONSTANTS
    Peers,      \* MPL in configuration order: records [dir, threads]
    NCPU,       \* sysconf(_SC_NPROCESSORS_CONF)
    IdResidue,  \* what malloc may leave in h->id
    MaxTerms    \* bound on the SIGTERMs

ASSUME PeersAssumption == Peers \in Seq([dir : {"IN", "OUT"}, threads : Nat])
\* Only the first session of each direction has an entry of its own (see
\* Setup!TunnelsIndependent).
ASSUME OneEachWay == \A s, t \in 1..Len(Peers) : Peers[s].dir = Peers[t].dir => s = t
ASSUME ResidueAssumption == IdResidue \subseteq Nat /\ NCPU \in Nat
ASSUME TermsAssumption == MaxTerms \in Nat

Sessions == 1..Len(Peers)
Threads(s) == Peers[s].threads
Workers == UNION {{s} \X (1..Threads(s)) : s \in Sessions}
NoCpu == -1

VARIABLES
    proc,           \* "live" or "exited"
    handled,        \* is signal_handler installed?
    run,            \* global.run
    cpu_available,  \* global.cpu_available
    mainPc, supPc,
    cur, j,         \* the supervisor's peer and loop counter
    id,             \* h->id of every session
    mem,            \* h, h->q and h->q->R: "none", "alive" or "freed"
    nq,             \* how many rings of h->q are initialized
    wkPc, wkId, wkCpu,      \* of every worker: i, and the CPU it is pinned to
    ioPc, ioI,              \* of every I/O thread: i
    terms, termed,  \* SIGTERMs so far; history: one came after run was set
    lost,           \* history: a SIGTERM was handled before that
    faults          \* history: accesses to memory that is not there

sup == <<supPc, cur, j>>
sess == <<id, mem, nq>>
wk == <<wkPc, wkId, wkCpu>>
io == <<ioPc, ioI>>
sig == <<terms, termed, lost>>
vars == <<proc, handled, run, cpu_available, mainPc, sup, sess, wk, io, sig, faults>>

All(S, v) == [x \in S |-> v]

Init ==
    /\ proc = "live" /\ handled = FALSE /\ run = 0 /\ cpu_available = NCPU
    /\ mainPc = "args" /\ supPc = "none" /\ cur = 1 /\ j = 0
    /\ id \in [Sessions -> IdResidue] /\ mem = All(Sessions, "none") /\ nq = All(Sessions, 0)
    /\ wkPc = All(Workers, "none") /\ wkId = All(Workers, 0) /\ wkCpu = All(Workers, NoCpu)
    /\ ioPc = All(Sessions, "none") /\ ioI = All(Sessions, 0)
    /\ terms = 0 /\ termed = FALSE /\ lost = FALSE /\ faults = {}

\* exit(), from whatever thread: all of them are gone, and their memory.
Exit ==
    /\ proc = "live" /\ proc' = "exited"
    /\ supPc' = "none" /\ cur' = 1 /\ j' = 0
    /\ id' = All(Sessions, 0) /\ mem' = All(Sessions, "none") /\ nq' = All(Sessions, 0)
    /\ wkPc' = All(Workers, "none") /\ wkId' = All(Workers, 0) /\ wkCpu' = All(Workers, NoCpu)
    /\ ioPc' = All(Sessions, "none") /\ ioI' = All(Sessions, 0)
    /\ UNCHANGED <<handled, run, cpu_available, mainPc, sig, faults>>

-----------------------------------------------------------------------------
(* main()                                                                   *)

MainGo(from, to) == /\ proc = "live" /\ mainPc = from /\ mainPc' = to
                    /\ UNCHANGED <<proc, cpu_available, sess, wk, io, sig, faults>>

\* No arguments, or arguments that parse_args refuses.
MainArgs == /\ MainGo("args", "signals") /\ UNCHANGED <<handled, run, sup>>

MainSignals == /\ MainGo("signals", "config") /\ handled' = TRUE /\ UNCHANGED <<run, sup>>

MainConfig == /\ MainGo("config", "start") /\ UNCHANGED <<handled, run, sup>>

\* die() in main: too few arguments, bad options, an address that does not
\* resolve.
MainDies == mainPc \in {"args", "config"} /\ Exit

start_supervisor == MainGo("start", "spawn") /\ run' = 1 /\ UNCHANGED <<handled, sup>>

\* new_thread(SUP, ...) creates the thread and joins it.
SpawnSupervisor == /\ MainGo("spawn", "join")
                   /\ supPc' = "setup" /\ UNCHANGED <<handled, run, cur, j>>

Join == /\ supPc = "ended"
        /\ MainGo("join", "unload") /\ UNCHANGED <<handled, run, sup>>

unload_config == mainPc = "unload" /\ Exit

Main == MainArgs \/ MainSignals \/ MainConfig \/ start_supervisor
        \/ SpawnSupervisor \/ Join \/ unload_config

-----------------------------------------------------------------------------
(* The supervisor: enumerate_interfaces, tx_session, rx_session.            *)

SupOnly == proc = "live" /\ UNCHANGED <<proc, handled, run, cpu_available, mainPc, sig, faults>>

\* The tap is ready, h->q is allocated and fill_headers() has asked for the
\* next hop.
SessionReady ==
    /\ supPc = "setup" /\ cur \in Sessions
    /\ mem' = [mem EXCEPT ![cur] = "alive"]
    /\ supPc' = "ring" /\ j' = 0
    /\ UNCHANGED <<cur, id, nq, wk, io>> /\ SupOnly

\* A tap that cannot be opened (only reported), or a socket or pipe path:
\* the peer gets no threads.
SessionSkipped ==
    /\ supPc = "setup" /\ cur \in Sessions
    /\ cur' = cur + 1
    /\ UNCHANGED <<supPc, j, sess, wk, io>> /\ SupOnly

\* die(): no interface, no raw socket, no data source, no address for the
\* tap, no memory for the rings, privileges that cannot be dropped.
SupDies == /\ \/ supPc = "setup" /\ cur \in Sessions
              \/ supPc \in {"ring", "drop"}
           /\ Exit

\* Fault: the worker is created before its ring.
InitRingBefore ==
    /\ supPc = "ring" /\ j < Threads(cur)
    /\ nq' = [nq EXCEPT ![cur] = j]
    /\ supPc' = "worker"
    /\ UNCHANGED <<cur, j, id, mem, wk, io>> /\ SupOnly

\* Fault: one ring more than was allocated.
InitRingTooMany ==
    /\ supPc = "ring" /\ j <= Threads(cur)
    /\ nq' = [nq EXCEPT ![cur] = j + 1]
    /\ supPc' = "worker"
    /\ UNCHANGED <<cur, j, id, mem, wk, io>> /\ SupOnly

\* init_ring_buffer(&h->q[j], ...), then new_thread(LBR, ...).
InitRing ==
    /\ supPc = "ring" /\ j < Threads(cur)
    /\ nq' = [nq EXCEPT ![cur] = j + 1]
    /\ supPc' = "worker"
    /\ UNCHANGED <<cur, j, id, mem, wk, io>> /\ SupOnly

NewWorker ==
    /\ supPc = "worker"
    /\ wkPc' = [wkPc EXCEPT ![<<cur, j + 1>>] = IF Peers[cur].dir = "OUT" THEN "claim" ELSE "pin"]
    /\ supPc' = "ring" /\ j' = j + 1
    /\ UNCHANGED <<cur, sess, wkId, wkCpu, io>> /\ SupOnly

NewIo ==
    /\ supPc = "ring" /\ j >= Threads(cur)
    /\ ioPc' = [ioPc EXCEPT ![cur] = "top"]
    /\ supPc' = "setup" /\ cur' = cur + 1
    /\ UNCHANGED <<j, sess, wk, ioI>> /\ SupOnly

SetupDone ==
    /\ supPc = "setup" /\ cur \notin Sessions
    /\ supPc' = "drop" /\ UNCHANGED <<cur, j, sess, wk, io>> /\ SupOnly

drop_privs ==
    /\ supPc = "drop"
    /\ supPc' = "loop" /\ UNCHANGED <<cur, j, sess, wk, io>> /\ SupOnly

\* Fault: the supervisor does not look at run.
SupervisorForever ==
    /\ supPc = "loop"
    /\ UNCHANGED <<sup, sess, wk, io>> /\ SupOnly

\* while (global.run) sleep: a round that finds it set changes nothing.
SupervisorEnds ==
    /\ supPc = "loop" /\ run = 0
    /\ supPc' = "ended" /\ UNCHANGED <<cur, j, sess, wk, io>> /\ SupOnly

Supervisor == SessionReady \/ SessionSkipped \/ InitRing \/ NewWorker \/ NewIo
              \/ SetupDone \/ drop_privs \/ SupervisorEnds

-----------------------------------------------------------------------------
(* The workers and the I/O threads.  An access to h->q[i] after h is freed  *)
(* or past its end is recorded; the thread may get away with it, or the     *)
(* SIGSEGV ends the process (action Die).                                   *)

ThreadOnly == proc = "live" /\ UNCHANGED <<proc, handled, run, mainPc, sup, nq, sig>>

Touch(s, i) ==
    faults' = faults \cup (IF mem[s] = "freed" THEN {"freed"} ELSE {})
                     \cup (IF i >= Threads(s) THEN {"beyond"} ELSE {})

WkGo(x, from, to) == wkPc[x] = from /\ wkPc' = [wkPc EXCEPT ![x] = to]

\* Fault: h->id is read and not advanced.
ClaimReadOnly(x) ==
    /\ WkGo(x, "claim", IF Peers[x[1]].dir = "OUT" THEN "pin" ELSE "top")
    /\ wkId' = [wkId EXCEPT ![x] = id[x[1]]]
    /\ Touch(x[1], id[x[1]])
    /\ UNCHANGED <<id, cpu_available, wkCpu, mem, io>> /\ ThreadOnly

\* i = __sync_fetch_and_add(&h->id, 1); h->q[i].id = i
Claim(x) ==
    /\ WkGo(x, "claim", IF Peers[x[1]].dir = "OUT" THEN "pin" ELSE "top")
    /\ wkId' = [wkId EXCEPT ![x] = id[x[1]]]
    /\ id' = [id EXCEPT ![x[1]] = @ + 1]
    /\ Touch(x[1], id[x[1]])
    /\ UNCHANGED <<cpu_available, wkCpu, mem, io>> /\ ThreadOnly

\* Fault: the CPU numbers stop at 0.
PinShared(x) ==
    /\ WkGo(x, "pin", IF Peers[x[1]].dir = "OUT" THEN "top" ELSE "claim")
    /\ wkCpu' = [wkCpu EXCEPT ![x] = IF cpu_available \in 0..NCPU-1 THEN cpu_available ELSE NoCpu]
    /\ cpu_available' = IF cpu_available > 0 THEN cpu_available - 1 ELSE 0
    /\ UNCHANGED <<id, wkId, mem, io, faults>> /\ ThreadOnly

\* The affinity is set to CPU number cpu_available, which counts down; a set
\* without an existing CPU is refused and nothing is pinned.
Pin(x) ==
    /\ WkGo(x, "pin", IF Peers[x[1]].dir = "OUT" THEN "top" ELSE "claim")
    /\ wkCpu' = [wkCpu EXCEPT ![x] = IF cpu_available \in 0..NCPU-1 THEN cpu_available ELSE NoCpu]
    /\ cpu_available' = cpu_available - 1
    /\ UNCHANGED <<id, wkId, mem, io, faults>> /\ ThreadOnly

WkRest == UNCHANGED <<id, wkId, wkCpu, cpu_available, mem, io>> /\ ThreadOnly

WkTop(x) == WkGo(x, "top", IF run = 1 THEN "pop" ELSE "ended") /\ UNCHANGED faults /\ WkRest

\* pop: a frame, or LOCKFAIL, or NULL and the wait for sz, which does not
\* look at run.
WkPop(x) == /\ \/ WkGo(x, "pop", "top") \/ WkGo(x, "pop", "wait")
            /\ Touch(x[1], wkId[x]) /\ WkRest

WkSleeps(x) == WkGo(x, "wait", "wait") /\ Touch(x[1], wkId[x]) /\ WkRest

WkWakes(x) == WkGo(x, "wait", "top") /\ Touch(x[1], wkId[x]) /\ WkRest

Worker(x) == Claim(x) \/ Pin(x) \/ WkTop(x) \/ WkPop(x) \/ WkSleeps(x) \/ WkWakes(x)

IoRest == UNCHANGED <<id, wk, cpu_available>> /\ ThreadOnly

\* i = i < qnum ? i + 1 : 0
NextQ(s) == IF ioI[s] < Threads(s) THEN ioI[s] + 1 ELSE 0

\* tx_io moves on before it pushes, rx_io after.
IoTop(s) == /\ ioPc[s] = "top" /\ run = 1
            /\ ioPc' = [ioPc EXCEPT ![s] = "push"]
            /\ ioI' = IF Peers[s].dir = "OUT" THEN [ioI EXCEPT ![s] = NextQ(s)] ELSE ioI
            /\ UNCHANGED <<mem, faults>> /\ IoRest

\* push, and the frame that fills its slot if it gave one.
IoPush(s) == /\ ioPc[s] = "push"
             /\ Touch(s, ioI[s])
             /\ ioPc' = [ioPc EXCEPT ![s] = "top"]
             /\ ioI' = IF Peers[s].dir = "IN" THEN [ioI EXCEPT ![s] = NextQ(s)] ELSE ioI
             /\ UNCHANGED mem /\ IoRest

\* Fault: the I/O thread ends while run is set.
IoGivesUp(s) == /\ ioPc[s] = "top"
                /\ ioPc' = [ioPc EXCEPT ![s] = "ended"]
                /\ mem' = [mem EXCEPT ![s] = "freed"]
                /\ UNCHANGED <<ioI, faults>> /\ IoRest

\* free_tx, free_rx.
IoEnds(s) == /\ ioPc[s] = "top" /\ run # 1
             /\ ioPc' = [ioPc EXCEPT ![s] = "ended"]
             /\ mem' = [mem EXCEPT ![s] = "freed"]
             /\ UNCHANGED <<ioI, faults>> /\ IoRest

IoThread(s) == IoTop(s) \/ IoPush(s) \/ IoEnds(s)

-----------------------------------------------------------------------------
(* Signals.                                                                 *)

\* SIGTERM: signal_handler clears run; without it the process ends.
Term == /\ proc = "live" /\ terms < MaxTerms
        /\ IF handled
             THEN /\ terms' = terms + 1 /\ run' = 0
                  /\ termed' = (termed \/ mainPc \in {"spawn", "join", "unload"})
                  /\ lost' = (lost \/ mainPc \in {"config", "start"})
                  /\ UNCHANGED <<proc, handled, cpu_available, mainPc, sup, sess, wk, io, faults>>
             ELSE Exit

\* Every signal but SIGTERM, SIGCHLD, SIGTTOU and SIGPROF: die().
Die == Exit

Next == \/ Main \/ MainDies \/ Supervisor \/ SupDies \/ Term \/ Die
        \/ \E x \in Workers : Worker(x)
        \/ \E s \in Sessions : IoThread(s)

\* The supervisor may wait for ever in the set-up of a session: for the next
\* hop of its peer to answer (see Arp), or for a writer to its pipe (see Setup).
Unanswered == supPc = "setup" /\ cur \in Sessions

\* main and, outside that wait, the supervisor are scheduled.  Nothing is
\* assumed of the workers and I/O threads.
Spec == /\ Init /\ [][Next]_vars
        /\ WF_vars(Main) /\ WF_vars(~Unanswered /\ Supervisor)

-----------------------------------------------------------------------------
\* The values that the variables range over.
TypeOK ==
    /\ proc \in {"live", "exited"} /\ handled \in BOOLEAN /\ run \in {0, 1}
    /\ cpu_available \in Int
    /\ mainPc \in {"args", "signals", "config", "start", "spawn", "join", "unload"}
    /\ supPc \in {"none", "setup", "ring", "worker", "drop", "loop", "ended"}
    /\ cur \in 1..Len(Peers)+1 /\ j \in Nat
    /\ id \in [Sessions -> Nat]
    /\ mem \in [Sessions -> {"none", "alive", "freed"}]
    /\ nq \in [Sessions -> Nat] /\ \A s \in Sessions : nq[s] <= Threads(s)
    /\ wkPc \in [Workers -> {"none", "claim", "pin", "top", "pop", "wait", "ended"}]
    /\ wkId \in [Workers -> Nat] /\ wkCpu \in [Workers -> Int]
    /\ ioPc \in [Sessions -> {"none", "top", "push", "ended"}]
    /\ ioI \in [Sessions -> Nat]
    /\ terms \in 0..MaxTerms /\ termed \in BOOLEAN /\ lost \in BOOLEAN
    /\ faults \subseteq {"freed", "beyond"}

\* The workers that have their ring: past the fetch-and-add on h->id.
Claimed(x) == \/ wkPc[x] \in {"top", "pop", "wait", "ended"}
              \/ wkPc[x] = "pin" /\ Peers[x[1]].dir = "OUT"

\* No two workers of a session drain the same ring, in whatever order they
\* get to run and whatever h->id held at first.
RingsDistinct == \A x, y \in Workers :
    x # y /\ x[1] = y[1] /\ Claimed(x) /\ Claimed(y) => wkId[x] # wkId[y]

\* If h->id starts at 0, a worker's ring is initialized before the worker can
\* claim it, although it claims by order of arrival and not of creation; and
\* the I/O thread starts when all of them are.
RingReady == \A s \in Sessions :
    /\ id[s] = Cardinality({x \in Workers : x[1] = s /\ Claimed(x)}) =>
          \A x \in Workers : x[1] = s /\ Claimed(x) => wkId[x] < nq[s]
    /\ ioPc[s] # "none" => nq[s] = Threads(s)

\* No two workers of the process, whatever their session, are pinned to the
\* same CPU.
PinsDistinct == \A x, y \in Workers : x # y /\ wkCpu[x] # NoCpu => wkCpu[x] # wkCpu[y]

\* No session loses its memory before the process has been told to end: once
\* one has, run is 0 for good, and no thread can have touched freed memory
\* before.
FreedOnlyAtEnd == ("freed" \in faults \/ \E s \in Sessions : mem[s] = "freed") => termed /\ run = 0

\* A SIGTERM that comes once the supervisor has been started ends the
\* process, whatever the workers and I/O threads are doing or waiting for, if
\* the supervisor does not wait in the set-up of a session for ever.
TermExits == []<>~Unanswered => (termed ~> proc = "exited")

-----------------------------------------------------------------------------
(* What a message and two comments say, and the code does not do.           *)

\* "Termination signal will be sent to all threads." (util.c:205): every
\* SIGTERM that was handled ends the process, with the same reservation.
TermHonoured == []<>~Unanswered => (lost \/ termed ~> proc = "exited")

\* "exit peacefully" (main.c:23), each thread with "their queue" (workers.h:54):
\* no thread touches memory that is not its session's: neither what the I/O
\* thread has freed at the end, nor a ring behind the last, where the round
\* robin or an h->id as malloc left it may lead.
ExitPeacefully == faults = {}
=============================================================================
