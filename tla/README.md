# lanes in TLA+

`lanes` carries the frames of a tap device over raw sockets to a peer and back. One
process runs a supervisor, and for every configured peer a *session*: an I/O thread that
reads frames, a number of worker threads that send them on, and one ring buffer per worker
between them. The rings are shared memory with hand-made compare-and-swap locks, and part of
their state is not locked at all; this is where the program is hard, and where this
development puts most of its weight.

## 1. Inventory

| Part | Code | State | Operations | Interacts with |
|---|---|---|---|---|
| ring buffer | `ring.c` | `Q`: `in`, `out`, `sz`, `lock`, `full`, and the slots `R[i]`: `lock`, `len`, data | `init_ring_buffer`, `push`, `pop`, `reset_ring` | the I/O thread pushes, one worker pops; shared memory |
| packet threads | `workers.c` | thread-local indices, `h->id`, `cpu_available` | `tx_io`, `rx_io`, `tx`, `rx` | rings, tap, raw socket, `global.run` |
| supervisor, process | `main.c`, `workers.c`, `util.c`, `state.c` | `global.run`, threads | `main`, `start_supervisor`, `supervisor`, `new_thread`, `signal_handler`, `drop_privs`, `unload_config` | starts all threads; signals |
| session set-up | `network.c` | the arrays `TX`, `RX`; per session `fd`, `tifname`, `q`, headers | `enumerate_interfaces`, `tx_session`, `rx_session`, `ifup`, `tuntap`, `set_ip`, `set_mtu`, `free_tx`, `free_rx` | taps and sockets, ARP, workers |
| ARP resolution | `network.c` | the frame buffer, the clock | `arp_request`, `fill_headers` | the wire |
| configuration | `state.c` | the peer list `MPL`, the peer being filled | `load_config`, `add_to_peer_list` | libyaml |
| utilities | `util.c` | – | `atomic_lock`, `atomic_unlock`, `die`, `csum`, `parse_args`, logging | all |

Not part of the running program: `crypto.c` (an initialization nobody calls), `list.h` (the
kernel's lists), `ringtst.c` and `xstate.c` (not built).

What is hard here, and what correctness means for each part:

* **Ring buffer.** `sz` is read, tested and written by both threads with no lock; `in` and `out`
  wrap at different places; `push` and `pop` give up `q->lock` before they compute the slot they
  return; `reset_ring` rewrites everything with no lock. Correct means: the count stays in its
  range whatever is lost; every slot index is inside the ring; a slot is at work in one
  thread only; no frame is sent twice; nobody scans for ever.
* **Packet threads.** Workers take rings by order of arrival while later rings are still being
  made; they pin themselves to a CPU number counted down by all; I/O threads free the memory
  of the session at the end. Correct means: one worker per ring, a ring that exists, one worker
  per CPU, memory that lives as long as its users.
* **Supervisor and signals.** Threads wait in places that do not look at `run`; a SIGTERM may come
  at any time. Correct means: a SIGTERM ends the process.
* **Set-up.** Two loops over the peers have to agree on how many sessions there are; descriptors are
  looked up in earlier sessions and otherwise taken from an uninitialized variable; some failures end
  the process and some are only reported. Correct means: no session runs on a tap that is not ready or
  in the memory of another.
* **The lane.** A frame crosses two rings, two MTUs and a wire with other traffic. Correct means: what
  comes out is the peer's, at most once, and cut only where an MTU cuts it.
* **ARP.** A raw socket delivers anything; `recv` may be interrupted; the clock is looked at only
  after a frame. Correct means: the headers get the next hop's address in time or none.
* **Configuration.** Nested loops over a token stream with state carried from pair to pair. Correct
  means: the list holds the peers of the file, and the loops end.

The full list of hazards, each at its line with the properties that watch it, is in
`PROJECT.json`.

## 2. Modules

| Module | Models | Used by |
|---|---|---|
| `Ring` | `push`, `pop`, `reset_ring` and the loops of `tx_io`/`tx` or `rx_io`/`rx` around one ring | `RingQueue`, `RingProofs` |
| `FrameQueue` | what a ring promises: a bounded queue that may lose frames and let them overtake each other, and never repeats or invents one | `RingQueue`, `Tunnel` |
| `RingQueue` | the refinement: `Ring`, up to its first reset, implements `FrameQueue` | `MCRing`, `RingQueueProofs` |
| `RingProofs` | theorems about every behaviour of `Ring`, and on the locks up to the first reset | `RingQueueProofs` |
| `RingQueueProofs` | theorems on the frames up to the first reset, and the refinement | |
| `Tunnel` | a lane across two hosts: `tx_io`, `tx`, the wire, `rx_io`, `rx`, with two `FrameQueue`s for the rings | `MCTunnel`, `TunnelProofs` |
| `LossyLane` | what a lane promises to the taps at its ends | `Tunnel` |
| `TunnelProofs` | theorems on sender, number and length of what a lane delivers, and the refinement of `LossyLane` | |
| `Arp` | `arp_request` | `Setup` |
| `Setup` | `enumerate_interfaces`, `tx_session`, `rx_session` and the functions they call, composed with `Arp` | `MCSetup`, `SetupProofs` |
| `SetupProofs` | theorems on what the headers of a session get and on its tap | |
| `Lifecycle` | `main`, supervisor, start and end of all threads, signals | `MCLifecycle`, `LifecycleProofs` |
| `LifecycleProofs` | theorems on the rings, CPUs and memory of all threads | |
| `Config` | `load_config` over libyaml's tokens | `MCConfig`, `ConfigProofs` |
| `ConfigProofs` | theorems on the list of peers, for every file | `ConfigLoadProofs` |
| `FlattenProofs` | lemmas on `FlattenSeq`: where the parts of a flattened sequence are | `ConfigLoadProofs` |
| `ConfigLoadProofs` | the list is what the file says, for every file of the layout of `sample.yaml` | |

How they fit together: `Config` builds the list of peers that `Setup` walks; `Setup` asks `Arp` for the
headers of a session and starts threads, which `Lifecycle` follows to the end of the process; what the
threads of one session do with one ring is `Ring`; and `Tunnel` puts two of those rings, as
`FrameQueue`s, at the two ends of a wire; seen from the two taps that is a `LossyLane`.

Definitions marked `Fault:` are not part of a specification. Each is a plausible bug of the
definition after it (a dropped test, a missing wrap, a lost update); put in its place, it makes
TLC report the property that `PROJECT.json` names with it, which shows that the property depends
on that line of the code.

### Ring

One ring, one I/O thread, one worker. The grain is the single racing access: every load,
store and compare-and-swap of shared memory that the other thread can interfere with is a
step. `sz = sz >= rsz ? sz : sz + 1` (workers.c:83) is therefore three steps (test, load,
store) and `__sync_fetch_and_sub(&in, in)` two (the load of the argument, the atomic
subtraction). A thread has a place in the code (`ioPc`, `wkPc`), the value it loaded last
(`ioReg`, `wkReg`) and the slot it was given (`ioSlot`, `wkSlot`). Only the worker writes `out`;
its read-modify-write sequences on it are one step each. A failed attempt on `q->lock` returns
`LOCKFAIL` and is repeated by the caller: it changes nothing and is not a step.

Memory is sequentially consistent in the model. The code's fields are plain (not `_Atomic`), so
the C language promises less; a compiler that merges or keeps back the accesses of `sz` would have
behaviours that are not modelled. `uint32_t` arithmetic is modulo `UINT`. `Rlock[rsz]` stands for
the word behind the last slot, which `push` can read; an index beyond that is a wild access and ends the
process (`ioPc = "crashed"`). `init_ring_buffer` does not set `in`, `out` and `sz`: they start at any
value up to `Residue`. Data is a frame number (the n-th `poll()` that reads gets frame n) and a
length. The mark words of a slot (`RNG_HDR_FOOT`) are never read and are left out. `rst` and `sent` are
history. `polls < MaxPolls` is the only bound on behaviours: the I/O thread polls that often.

### FrameQueue, RingQueue

`FrameQueue` is the abstract specification of a ring: `Accept` of a frame that has not been delivered,
`Deliver` of any that waits, `Lose`, at most `Capacity` waiting (`Drop` is a `Lose` of one frame, for `Tunnel`). The refinement mapping takes for
`waiting` the frames that the worker may still send: in a slot that the I/O thread is not filling,
with a length above 14, and not sent before; `delivered` is the history `sent`. A frame thus
enters the queue when its I/O thread unlocks the slot and leaves it in `sendto` or `write`. A slot keeps its frame
until its length is cleared, so the mapping also claims that the worker does not send it again.
`Capacity` is `rsz`: the test in `push` is meant to leave a slot free, but a lost update of `sz` lets
all of them fill.

The queue is not first in, first out, because the ring is not. From `rsz = 4` on frames can overtake each
other: a race loses an increment of `sz`; the scan of `push` skips the slot that the worker holds, so that
`in` has caught up with `out` and the test `in == out - 1` (ring.c:100) does not see that the ring is full;
`push` then grants the slot with the oldest frame that is still to be sent, the newest is read over it, and the worker comes to it first.
TLC finds this with `rsz = 4`, fields that start at up to 2 and 6 polls, and also from zeroed fields with 12. At
`rsz = 3` it finds no such behaviour. No document promises an order; the design is that of a queue, so a
reader should know.

### Tunnel

Host A reads a frame of `l` bytes from its tap (at most `mtu - 34` of them), sends it behind 34 bytes of
headers; the wire pads it to `MinWire`, loses it or carries it on; host B reads at most its own `mtu`,
tests the sender, takes the 34 bytes off again and writes the rest to its tap. Frames are
numbers with lengths. On the wire there are also frames of other hosts and of other programs on A's
host: `rx_io` only compares `saddr`, and so lets the latter through. A frame too short to reach `saddr` is
compared with what an earlier frame left in the slot, so it may pass or not. `sendto` and `write` may
fail, which is only reported.

`rx_io` takes off the headers behind its loop, whether the last `poll()` brought a frame or not
(workers.c:285-306). If `push` has granted a slot whose frame still waits (see `FrameQueue`) and `poll()` returns without
`POLLIN` (interrupted, or on a hang-up), the stale length and sender pass the tests and the frame is stripped a second time:
`rx_io_again`. It is then written to the tap without its last 34 bytes, or dropped if less than 15 are left.
The field `again` of `rxBuf` is history; it counts these strips.

`LossyLane` is what is left of all this for the two taps: frames go in (`Offer`), and each comes out at
most once (`BringFrame`), cut to `room` or filled up to `Padded`, less `Header` for each repeated strip; frames of other programs on the peer's host
come out as well (`BringStray`). The refinement mapping shows it the two taps (`tap`, `out`) and, as `room`, the smaller MTU less the 34 bytes.

Assumed: one ring per host, as in `sample.yaml`; pushes that go into
the session's own ring (see `ExitPeacefully` for those that do not); no reset of a ring (a reset
lets `push` return a slot that is not locked); a wire that keeps the order.

### Arp, Setup

`Arp` is one call of `arp_request`, with the wire and the clock. A frame is the two addresses that are
looked at, whatever it really is; a frame too short to reach them leaves the buffer as it was.
`die(0, ...)` only reports, so the loop's error paths return. `MaxTime` bounds the seconds before and after
the request, `MaxSignals` the interrupted calls of `recv`.

`Setup` is the supervisor walking the list of peers: the counting loop, then one session after the
other through socket, data source, tap, address, headers and threads, with the point of every
`die(1, ...)` and of every failure that is only reported. `block[s]` is the piece of memory that
session `s` works in. `TX[txc]` with `TX` the address of a global is the array itself for the first
session of a direction and the next words of the data segment for later ones; `Layout` says which
globals these are, and behind the last a pointer is `wild`. The blocks differ in how much they hold: the first loop
counts what `malloc` gets (`txc`, `rxc`, `mpc`), and `Room(s)` says that the array a session ends up in has an element for it, which `malloc(0)`
has not, nor an array of one `struct txq` (160 bytes) for the `struct rxq` (168) of an ingress session. A session without room is
written over what follows on the heap, and what happens then is undefined: the model goes on as if
nothing had, and the properties that depend on the memory suppose that every session has room. The instance uses `RX`, `M`, `TX`, the order in which a link with
`gcc -fcommon` placed them. `entry` is what the descriptor search sees of a block. The uninitialized
`fd` starts at any value of `FdResidue`. `hdr[s]` is what the rings of a session are initialized with;
`fill_headers` ignores the result of `arp_request`. `open()` of a pipe may wait for ever for a writer (network.c:300, 437): `PipePath`
can always be taken, but nothing makes it happen.

### Lifecycle

All threads of the process, at the grain of what they share: `run`, `cpu_available`, `h->id`, and
the memory of a session (`mem`: none, alive, freed; `nq`: rings initialized so far). What happens
inside `push` and `pop` is `Ring`'s; here a call touches `h->q[i]`, and `Touch` records in `faults`
if that is freed or behind the last ring. Such an access may go unnoticed or end the process
(`Die`, which also stands for the other signals that `signal_handler` turns into `die`). `tx` claims its
ring and then pins itself, `rx` the other way round; `tx_io` advances its round robin before
`push`, `rx_io` after. The uninitialized `h->id` starts at any value of
`IdResidue`: with a nonzero one a worker claims a ring that is not there (`ExitPeacefully`). After `exit` nothing of the threads remains.

`ASSUME OneEachWay`: at most one peer per direction; what becomes of more is `Setup`'s
`TunnelsIndependent`.

### Config

Every iteration of one of `load_config`'s nested loops is a step; a position in the token
stream and the loop the program is in (`pc`) replace the parser. `Tokens` produces what libyaml
produces for a file in block style (external: taken from how `state.c` uses it). After an error,
or behind the end, every further token has no type. Left out: `strncmp` with the length of the key, which also
accepts a longer key that starts with a known one; the fields that only copy a value (represented by `interface`);
flow style and sequences that are not indented. `MPL` holds copies of the peers where the code links the structures
themselves: `StartPeer` links the peer and in the same branch allocates the next one (state.c:243-252), so no
assignment reaches a peer that is linked.
`Symmetric` and `Described` are the reference: what a reader of the file would say its peers are.

`Regular` is the layout of `sample.yaml`, for which the loader keeps to that reference. Each part of it is there because the
code does something else without it:

* A section with entries, of something else than peers, comes first (state.c:119): the mapping of the whole file is skipped to the first END.
* Behind `symmetric-peers` only lists of peers, or sections without entries, follow (state.c:131): others are read as peers.
* No value is a list or a mapping (`Plain`): the loop over the pairs (state.c:142) scans nothing on the token that opens it, and turns for ever.
* A peer starts with its name and has each key once; its last value is not left out (the END of
  the entry then ends the section, and the next entry is skipped); a `map-interface` is not followed by a `type`, which would take it back.

## 3. Runs

Runs that pass:

| Run | Instance | Shows |
|---|---|---|
| `ring_tx` | rsz 3, 4 polls, hang-ups, all fields 0 | `SzInRange`, `ClampsIdle`, `PopLocksSlot`, `InBounds`, `SzOneWay` under every interleaving of `tx_io` and `tx`, resets included |
| `ring_order` | rsz 3, 4 polls, hang-ups, lengths 20 and 60, frame 2 foreign, fields 0 or 1 | `rx_io` against `rx` up to the first reset: `QueueMutex`, `SlotOwnership`, `ScanInBounds`, `NoRepeat`, `PeerOnly`; the refinement `ImplementsQueue`; `PushTerminates`, `PopTerminates` |
| `setup` | a list of three peers on two taps and pairs of peers: ingress or egress, tap, socket, pipe, no source or map, one tap or two, two next hops; residue of `fd` 0 or 7; `tap0` exists or not; time-out 1, clock to 3, 1 signal | `DestIsNextHop`, `NoLateAnswer`, `HeadersOfOwnHop`, `EgressTapReady`, `SameTapSameFd`; `SetupEnds` |
| `tunnel` | queues of 2, 2 frames of 14, 15, 40 or 60 bytes, MTUs 80 and 100 on either side, a foreign frame of 20 or 60 bytes | `OnlyFromPeer`, `AtMostOnce`, `Intact`; the refinement `ImplementsLane` |
| `lifecycle` | rx with 2 workers and tx with 1, 1 CPU, 1 SIGTERM, `h->id` 0 | `RingsDistinct`, `RingReady`, `PinsDistinct`, `FreedOnlyAtEnd` in every order of creation, claiming, pinning and signals; `TermExits` |
| `config` | 915 files: 455 in the layout of `sample.yaml` (`Regular`, which TLC checks), with up to three entries of seven kinds in four layouts of sections; 38 that are rejected after 3 to 40 tokens; and 422 that depart from the layout, but are `Plain` | `LoadsPeers` for the `Regular` ones, `AllListed` for all, `LoadReturns` for all that the scanner takes |

Runs that end in a violation, each a disagreement between the code and what the repository says
of it (quoted in `PROJECT.json`, `findings`):

| Run | Says | Does |
|---|---|---|
| `ring_ReturnedLocked` | ring.c:79-80 "returns a pointer to a RNG struct if successful", the caller releases its lock | a concurrent `reset_ring` makes `push` return a slot nobody locked |
| `ring_RefusalEnds` | ring.c:77 "returns NULL if the buffer is full" | `in == out - 1` also holds with `sz` 0; the worker then sleeps on `sz` and `push` refuses, for ever |
| `lifecycle_TermHonoured` | util.c:205 "Termination signal will be sent to all threads" | a SIGTERM before `start_supervisor` sets `run` is forgotten |
| `lifecycle_ExitPeacefully` | main.c:23 "exit peacefully" | workers use a session after its I/O thread freed it |
| `setup_TunnelsIndependent` | specification.md:171 "A tunnel must function in complete independence of all other tunnels" | with three ingress peers the third is set up in the memory of a running egress session |
| `config_FailureReturned` | state.h:12 "they should return 1 on failure,0 on success" | a file that begins with its peers is loaded without them, and 0 is returned |

A run shows one way to break its property; these properties say more, and the code breaks them in other ways too. The last three
are found alone with another value of one constant, defined in the MC modules; the first when its second conjunct is left out:

* `ReturnedLocked` also excludes the wild access of a `push` whose `in` a reset has made huge, between the load and the subtraction of
  workers.c:86 (`ioPc = "crashed"`).
* `ExitPeacefully` also excludes accesses behind the last ring of a session. `Peers <- AsSample`: the round robin of an I/O thread
  runs from 0 to `qnum` inclusive (workers.c:49, 269). `IdResidue <- AnyId`: `h->id` comes from `malloc` and is never set
  (workers.c:122), and the last worker takes a ring that is not there.
* `TunnelsIndependent` also excludes a session without memory for it. `PeerLists <- Single`: an egress peer that is fed by a pipe is not
  counted for `TX` (network.c:138), and `tx_session` writes it into `malloc(0)`.
* `FailureReturned` for a file that the scanner rejects (`Files <- RejectedFiles`): `load_config` turns for ever (state.c:289) and never
  returns the 1 that main.c:17 waits for. `NestedValue`: on a list or a mapping as a value the loop over the pairs turns for ever
  (state.c:142). `GlobalLast`: the entries of a `global` section behind `symmetric-peers` become peers (state.c:131), against
  sample.yaml:6 "for logging and such to identify this instace".

Other departures that the models contain and no run is devoted to: frames overtake each other in a ring
(see `FrameQueue`); frames are stripped twice (`rx_io_again`), against specification.md:181 "proper encapsulation
and decapsulation of the data": `Intact` says exactly what such a frame loses; two peers whose sessions overlap in memory (`setup_TunnelsIndependent`) may also use two descriptors for one
tap, or one for two, which is why `SameTapSameFd` supposes that no two do and that each has room (`Apart`); `arp_request` returns 0 when
`sendto` fails (network.c:602, against network.h:61); the first worker asks for CPU number `NCPU`, which does not
exist, and stays unpinned (workers.c:141); a positive value in the uninitialized `fd` is taken
for an open tap (network.c:228); a thread count that is no number is announced to become 1
and stays 0 (state.c:191); other traffic of the peer's host is written to the tap (workers.c:292); the tap's MTU is set to
`mtu - 34`, but a frame of the tap is up to 14 bytes longer than that and `tx_io` reads `mtu - 34`, so that the largest
frames lose their end (network.c:251, workers.c:68; `Intact` says exactly where). Seen and not modelled:
the header checksum is computed over payload, and `tot_len` is not in network order (workers.c:74), but the
receiving side reads neither.

### Bounds

* `rsz = 3` is the smallest size at which the last slot (which `pop` never visits), the first
  and one between differ; three frames take both indices round the ring, so
  4 polls wrap both and fill the ring. The program uses larger rings; the proofs cover every
  size from 3.
* `UINT = 16` keeps the wrapped value of `in - ioReg` (13 to 15) apart from all indices,
  as 2^32 does.
* Residues of 0 and 1 make the indices start apart from each other and the count start wrong. Other starts are left to the
  proofs: `RingProofs` and `RingQueueProofs` cover every start inside the ring, and what does not need the locks every
  residue; the lock discipline and `PeerOnly` need not hold from outside the ring.
* A time-out of 1 and a clock to 3: an answer before, at and after the time-out (`waited > ARP_TIMEOUT`).
* Two peers make every pair of a session and one set up before it, in both orders; the list of three has a session that
  finds its tap in the second of two earlier ones, and a map peer, without which the array behind `RX` would be
  `malloc(0)`; a third of a direction (`setup_TunnelsIndependent`) reaches over the words `RX`, `M`, `TX`.
* The frames of `tunnel` lie on both sides of every limit: 14 and 15 of the worker's test, 26 of the padding, 46
  and 66 of what the two MTUs leave; one of 60 bytes can be stripped once more and still be written, one of 40 cannot. Two frames
  overtake each other, and with the foreign one outnumber the slots.
* Two workers of one session are needed for a race on `h->id`, a third worker of another
  session for one on `cpu_available` between sessions; a SIGTERM may come before, during and after
  the start.
* Three entries make a first, a middle and a last peer; the kinds cover every branch on keys,
  a repeated name, a value that is missing, an entry that is no mapping and an address that does not resolve.

No run uses symmetry.

### Deadlock and fairness

Every cfg switches the deadlock check off because every instance may stop: a ring when the polls are
used up, the others when the process has ended, the set-up is done, the frames are delivered or the file is loaded.
That nothing stops too early is what the liveness properties say.

* `SpecToReset` (ring): weak fairness of each thread, that is, the operating system schedules both.
  It suffices for `PushTerminates` and `PopTerminates`, which start when `q->lock` is taken.
* `SpecNoStarvation` adds strong fairness, so that a thread that tries for `q->lock` gets it in the end.
  `ring_RefusalEnds` uses it to make sure that the stall it finds is not mere starvation.
* `Setup!Spec`: the supervisor goes on, `recv` comes back and time passes. The comment at network.c:627 says that
  the loop hangs otherwise; interruptions are finitely many. There is no fairness of `open()` on a pipe, which waits for a
  writer: `SetupEnds` is about the behaviours in which it does not wait there for ever.
* `Lifecycle!Spec`: main and the supervisor are scheduled, nothing is assumed of workers and I/O
  threads, nor that the supervisor gets an answer while it sets up a session: `TermExits` supposes
  that it does not wait there for ever.
* `Config!Spec`: the single thread goes on. `LoadReturns` is about files that the scanner takes and that have no list or mapping
  for a value; for the others see `config_FailureReturned`.
* `Tunnel` has no liveness: every part of it may lose a frame.

## 4. Proofs

Checked by TLAPS, for every value of the constants that satisfies the assumptions of the
module. Every invariant, action property and refinement that a passing run checks is a theorem.

| Module | Theorems: what always holds |
|---|---|
| `RingProofs` | `TypeCorrect`: `TypeOK`; `AccessesInBounds`: `InBounds`; `CountInRange`: `SzInRange`; `ClampsNeverNeeded`: `ClampsIdle`; `PopReturnsLockedSlot`: `PopLocksSlot`; `CountOneWay`: `SzOneWay`; up to the first reset `QueueLockExcludes`: `QueueMutex`; `OneOwnerPerSlot`: `SlotOwnership`; `PushScansInside`: `ScanInBounds` |
| `RingQueueProofs` | `NoFrameTwice`: `NoRepeat`; `PeerFramesOnly`: `PeerOnly`; `RingImplementsQueue`: `SpecToReset => ImplementsQueue` |
| `TunnelProofs` | `TypeCorrect`: `TypeOK`; `OnlyPeerReachesTap`: `OnlyFromPeer`; `LaneDeliversOnce`: `AtMostOnce`; `LaneKeepsFrames`: `Intact`; `TunnelImplementsLane`: `Spec => ImplementsLane` |
| `LifecycleProofs` | `TypeCorrect`: `TypeOK`; `WorkersHaveOwnRing`: `RingsDistinct`; `WorkersHaveOwnCpu`: `PinsDistinct`; `MemoryOutlivesRun`: `FreedOnlyAtEnd`; `RingsBeforeThreads`: `RingReady` |
| `SetupProofs` | `TypeCorrect`: `TypeOK`; `HeadersFromNextHop`: `DestIsNextHop`; `LateAnswersIgnored`: `NoLateAnswer`; `OwnNextHop`: `HeadersOfOwnHop`; `EgressOnReadyTap`: `EgressTapReady`; `OneFdPerTap`: `SameTapSameFd` |
| `ConfigProofs` | `TypeCorrect`: `TypeOK`; `NoPeerLost`: `AllListed` |
| `ConfigLoadProofs` | `RegularLoaded`: `LoadsPeers` |
| `FlattenProofs` | `FlattenParts`: every part of a flattened sequence is at its offset |

What they assume of the constants:

* Ring: `rsz >= 3`; `UINT` greater than `rsz + 1` and `Residue + 1`; any lengths, foreign frames, number of polls, hang-ups
  or none. What holds up to the first reset also supposes `Residue < rsz`: a residue outside the ring makes
  `push` read behind it.
* Tunnel: MTUs of more than 48 bytes and at least the wire's shortest frame, as Ethernet has them.
* Lifecycle: lists of peers with at most one per direction (`OneEachWay`), any number of threads of each, of CPUs and of SIGTERMs.
* Setup: any lists of peers, any wire, layout of the globals and residue of `fd`; no tap has the
  name that an unused block is given (`NoTap`).
* Config: any files, of whose tokens only `FilesAssumption` is used: they are tokens, the end of the stream comes
  last, and not at all in a file that is rejected. `RegularLoaded` assumes no more: it is about those
  of the files that are `Regular` and not rejected, with any number of sections, entries and pairs.

**The count.** `SzInRange` alone is not inductive: the I/O thread stores a value it loaded earlier.
`SzInv` adds what each thread knows between its test and its store. Past the test of `push`, `sz <= rsz - 2`
remains true because only the worker can intervene and it only lowers `sz`; between load and
store, `sz <= ioReg`. Dually, past the tests of `pop`, `sz >= 1` because only the I/O thread can
intervene and it only raises it. The two directions are `SzOneWay`, and each thread's proof needs the other's:
that circle is why the races on `sz` are harmless to its range, resets included.

**The locks.** `LockInv` is inductive only together with `Inv` and up to the first reset. Besides exclusion on
`q->lock` and ownership of slots it says where the indices are: `push` skips only over a slot
the worker holds, and the worker never holds the last one (`out` wraps at `rsz - 1`), so the scan
of `push` cannot run off the end; while the I/O thread fills its slot, `in # out` keeps the worker
away from it, except after a wrap of `out` to 0, where the worker finds that slot locked and moves on.

**The frames.** `FrameInv` speaks of slots and not of indices, which say nothing of a frame (`FrameQueue` above tells why):
each slot is written by its owner only, a poll brings one frame into one slot, and the worker clears the length of a slot
whose frame it has sent before it unlocks it (`Drained` is the moment between). So no two filled slots hold the same
frame (`OnceInv`), and none that is sent is in a slot that the worker may come to again. `SenderInv` does the same for the
sender: a foreign frame is in a slot only as long as `rx_io` has not looked at it. `LengthInv` carries a length from the test to the
use.

**The refinement** is a simulation: each action is matched with a step of the queue. The unlock of a filled slot is an
`Accept`, for which there is room because waiting frames are in different slots and there are `rsz` of those; `sendto` or
`write` is a `Deliver`, which needs `OnceInv`; a poll over a frame that still waits is a `Lose`; all others leave the queue alone.

**The lane.** A frame is in one of five places (A's ring, the wire, B's slots, B's ring, B's tap), in each at most once, and
in none behind the one it has reached (`OnceInv`); `PlacesInv` gives its length and its sender in each place in terms
of what A's tap gave. Of the rings only `FrameQueue` is used. The refinement of `LossyLane` follows: only `tx_io` and a `write` of `rx`
show at a tap; the first is an `Offer`, the second a `BringFrame`, for which `OnceInv` says that the frame is not out yet and
`ArrivalLength` computes its length through two MTUs and the padding (a repeated strip moves 34 bytes from `len` to `again`, and their sum,
`len + 34 * again`, is what the invariant speaks of), or a `BringStray`, which `FitsInv` bounds.

**The process.** `ClaimInv` compares the number a worker took with where `h->id` is now, `PinInv` the same for
`cpu_available`: both counters only move away from what was handed out. `SupInv` and `CreatedInv` count rings and threads
against the supervisor's loop, which is always ahead; `EndInv` says that a cleared `run` stays cleared once there are
threads. `RingReady` takes a count of the workers that have claimed (`FewClaims`), a set of no more than
have been created.

**ARP and set-up.** `WaitInv` carries the clock test over to the sender test: a frame of the next hop found at
the head of the loop was received before the clock was looked at, in time. `AskInv` says whom the
supervisor asks for whom, and that nothing is asked between two sessions; together they carry the result of a
request into the headers of the right session. For the taps, `TapInv` is what holds between
`set_mtu` and the start of the threads. `PlaceInv` says in which order blocks of memory are given out; `FdInv` says that the
blocks that name a tap agree on its descriptor, of which the two searches (`FoundHasTap`, `NoneHasTap`) find one if there is any. It
supposes `Apart`, which a step of the set-up can only make false, never true again (`ApartBefore`).

**The loader.** `ListInv` follows the list by number: the peer being filled is the latest that was begun, and those before it
are on the list.

**The list of peers.** `LoadsPeers` compares what nested loops over a flat stream of tokens build with what the structure of the file
says. `FlattenProofs` relates the two: the offset of a part is the length of the parts before it. (The induction theorems of the library take an
operator and cannot be used here; `LeastNat` says instead that a set of numbers with a member has a least one, and a
counterexample is then refuted at its least length.) So the tokens of every section, entry and pair have a place
(`SecAt`, `EntAt`, `PairAt`), and every peer a number, that of the peers before it (`Rank`). `LoadsInv` lists the
places where a loop can be, with what has been built there: `Complete(c)`, the first `c` peers are done, or `Begun(c, e)`, the
last of them has got the pairs `e` so far. Which loop reads a place is not determined: the skipping loop reads
the first section, and in a list of something else than peers a value left out at the end of an entry makes the outer loop go on
within the section, and then the skipping one. The invariant keeps the
pairs of peers from being read there (`LoopsOf`), and those of other lists from being read as peers (`ReadsAsPeers`). Each place has a
lemma on the step that leaves it, and `SomewhereStep` combines them.

Only model-checked: all liveness, that is `PushTerminates`, `PopTerminates`, `SetupEnds`, `TermExits` and `LoadReturns` (fairness and
ENABLED are outside what the prover handles).

## 5. Not modelled

`crypto.c`, `list.h`, `ringtst.c`, `xstate.c` (see the inventory); `tx_lb`, `rx_lb`, `map`, `map_in`, `map_lb` (never started
or empty: a peer of type `map` starts threads that return); the packet and thread counters and
their printing (never read by the program); what the interface ioctls put into an `ifreq`, and `seccomp` (only
whether they succeed is modelled); several rings in one lane;
`csum` (the receiver never reads its result); weak memory.

## 6. Plan

Order of work, the most important behaviour first:

1. *Done.* `Ring` with its proofs; `Lifecycle`; `Config`.
2. *Done.* `FrameQueue` and the refinement `RingQueue`; `Tunnel` on top of it; `Setup` composed with `Arp`.
3. *Done.* Proofs of every safety property of `Ring`, of the refinement, of `Tunnel`, `Lifecycle`, `Setup` and
   `Config`.
4. *Done.* `LossyLane` and its refinement; repeated strips; the list of peers for every file of the layout of `sample.yaml`.
5. Several rings in one lane, so that `Tunnel` says how frames of one flow overtake each other across workers.
6. `csum` against its reference definition (RFC 1071), should the receiver come to check it.
