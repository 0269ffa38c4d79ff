# NatGhost in TLA+

natGhost helps two hosts behind NATs reach each other: it finds out this host's
public address from STUN servers, hands that address from one process to the
next, and opens ("drills") NATs with waves of datagrams to every UDP port. This
directory models the programs of the repository that have state worth
checking, checks them with TLC, and proves the main results with TLAPS.

    tlc -config StunDiscovery.cfg StunDiscovery
    tlapm StunDiscovery_proofs.tla

`PROJECT.json` lists every run, the source lines each definition stands for,
the hazards of the code with the properties aimed at them, and for each
property a *mutant*: a plausible bug, written as an operator next to the
definition it would replace ("a defective variant" in the modules), under which
TLC finds the property violated.

## 1. The system

The repository has no single program. It is a set of small ones, in C
(`kernel/`, `natghost_forge/`, `listener_engine/`), C++ and Python (`core/`),
connected by two shared memory segments and by what they put on the wire.

    STUN servers <--UDP--> memory_pool_optimization --/natghost_shm--> read_ip_port (udp_flooder, adaptive_probe)
    memory_map --/shrmem--> map_reader
    natghost_forge master --CreateProcess--> workers --forged UDP--> every port of the peer
    workers <--NATs and the network--> the peer's workers; what gets through --> listener_engine
    holekeeper --a datagram every 5 s--> the hole
    burst_wawe main --pthread_create--> 128 threads --sendmmsg--> every port of the peer
    blast_controller --> firer threads --(port 54321)--> listener --> send_table --> ranking
    STUN servers <--UDP--> epoll_burst, nat_analyzer, burst_blaster, stundiscoverer (older experiments)
    DNS <--> DynamicStunScanner, parallel_dns_discoverer --> lists of servers
    packet log --> randomness analyzers --> port predictions

| component | state | operations | what is hard | what makes it correct | status |
|---|---|---|---|---|---|
| STUN discovery engine, `kernel/memory_pool_optimization.c` (and its twin `archive/burst_controller.c`) | `stun_list`: transaction ID, send time, `rtt_ms`, public address per server; the epoll window; shared memory | load, burst_send_all, burst_receive, retry, qsort, choose, write | the network loses, delays, repeats and reorders answers; batches share one time stamp; a retry round with new IDs; a window that must close | first answers decide; a fastest server with an address is published; windows end | `StunDiscovery`, `Election` |
| Hand-over by `/natghost_shm`: `write_shared_memory` and `read_ip_port` (`udp_flooder.py`, `adaptive_probe.py`, `archive/read_shm.py`) | 64 characters in a segment that outlives everyone | open, resize, print; open, map, copy, parse | no lock, kills at any step, old text under new text | a read that no write overlaps returns the last address | `ShmPublish`, `SafeRegister` |
| Forge wave, `natghost_forge/` | master's handles; each worker's `uint16_t port` | spawn, wait, report; set up, send loop | failures of CreateProcess and sockets; a 16-bit counter at its limit | slices partition the ports; workers cover them; the wave ends | `ForgeWave` |
| Burst wave, `kernel/burst_wawe.c`, `archive/statistical_collision_analysis.c` | 128 threads with a port range each | create, join; socket, sendmmsg | short sendmmsg, failed creation, joins of threads that never were | complete, from threads that send in ranges of their own, when main says so | `BurstWave` |
| Task pool `/shrmem`, `kernel/memory_map.c`, `map_reader.c` | blocks of ID, count and tasks | truncate, resize, fill; map, read block | two programs computing one layout; refill under a reader | tasks dealt once; a reader gets its block | `TaskPool` |
| Discovery controller, `archive/blast_controller.c`, `raw_socket_firer_threads.c`, `listener.c` | `send_table`, results, UDP port 54321 | launch, fire, join, listen, look up, sort | the port changes hands between sending and listening; tables at their limit | round trips are never too short; nothing the listener's socket takes is lost | `BlastController`; its sort in `Ranking` |
| Checksums, `kernel/net.c`, `natghost_forge/src/checksum.c` | none | Internet checksum, UDP checksum field | carries, odd lengths, a sum of zero | both versions equal RFC 1071; receivers accept | `Checksum` |
| Rankings, `archive/burst_blaster.c`, `blast_controller.c` | a list | exchange sort, first five | 0 stands for no answer | the fastest are listed | `Ranking` |
| Randomness analyzers, `kernel/full_spectrum_randomness_analyzer.cpp`, `archive/port_histogram.cpp` and smaller ones | a log of ports | bit stream, Berlekamp-Massey, the predictor's coefficients, runs, repetitions, cycles, differences, transitions, remainders, suggestions | index arithmetic, integer division, the direction of a sort | equal to their definitions | `PortAnalysis` |
| Hole keeper, `core/holekeeper.py`, `core/listener.py` | the NAT's mapping, time of the next datagram | a datagram every 5 s for a duration | the mapping may live 1 to 5 s (`burst_wawe.c:5`) and come back on another port | the hole stays open | `HolePunch` |
| Listener engine, `listener_engine/` | a raw socket | filter by address and protocol, print the port | one datagram is taken for a hole; it was sent earlier, through a mapping that may be gone | a printed port is a hole | `HolePunch` |
| Older STUN engine, `archive/epoll_burst.c` | as the engine's, and a thread per server | create, send, join; the receive loop; list | threads that were never created leave entries with an ID of zeros; answers come before anyone listens | what is listed was answered; early answers count | `EpollBurst` |
| `archive/nat_analyzer.c` | three results on the stack | ask three servers in turn from one port, compare | late answers and strangers' datagrams are taken for the answer; the port is decoded in the wrong byte order; results may be unwritten | how far the verdict can be trusted | `NatAnalyzer` |
| `archive/burst_blaster.c` | a time per server | ping in threads, join, rank | time-outs recorded as round trips; threads that were never created | the list of the fastest | `ParallelProbes`, `Ranking` |
| `archive/brust_general_explanation.c` | | notes and fragments, not a program | | | not modelled |
| `core/archive/stundiscoverer.py`, `DynamicStunScanner.py`, `parallel_dns_discoverer.py` | result lists, one copy per process or one in a Manager | resolve, probe, collect, join | globals are copied into child processes; starts may fail | main lists what the workers found | `ParallelProbes` (what the scripts start and share) |
| Packet tools and scripts (`stun_packet.c`, `sniff_listener.c`, `raw_socket_firer.c`, `nat_sniffer.py`, `fingerprinter.py`, `tcp_trigger.py`, `kill_zombies.sh`) | none of their own | straight-line I/O | | | not modelled |

## 2. The modules

Modules keep the source's names (`rtt`, `targets`, `shm`, `EndPort` for
`end_port`, ...), but where two modules are checked in one run and would both use
a name, one of them has another (`EngineNext` beside `Next`). Each action is a piece of the program that other processes or
the environment can tell from the next one; within it everything the code does
is one step. Wording, logging and the bytes of packets are left out.

**StunDiscovery** is `main` of the engine. `Load` is `load_stun_servers`, with
any subset of the names resolving. `SendRequest` is one turn of
`burst_send_all`. `BeginReceive`, `EpollReady`, `HandleMsg`, `FinishBatch`,
`EpollTimeout`, `StayInWindow` and `LeaveWindow` are `burst_receive`: one
`epoll_wait`, one `recvmmsg` of at most `BatchSize` datagrams that share a time
stamp, one turn of the loop over the batch, and the test of the elapsed time.
`PlanRetry`, `SkipRetry`, `Sort` and `Publish` are the rest of `main`. `Arrive`
is the network: at any time while the socket is open an answer to any request
sent so far, in any kind (too short, without a usable address, with one), any
number of times, or a stranger's datagram. `Tick` is the monotonic clock. The
12 random bytes of a transaction ID are the round they were drawn in: IDs are
taken never to collide. `sendto`'s result is ignored by the code, so a request
that failed is one that is not answered. `heard` is a history variable: the
first round's answers in the order they were handled.

**Election** is what the engine promises, without packets or timers: each
server gets at most one verdict (silent, bare, mapped), none after the vote
closes, and a fastest mapped server wins. `StunDiscovery!Vote` instantiates it
with `verdict <- Verdict`, `time <- rtt`, `closed <- VoteClosed` and
`winner <- shm`. `VoteClosed` is true from the end of the first window: that
the mapping works shows that the retry round cannot add anything.

**ShmPublish** copies one character per step on both sides (`PutChar`,
`GetChar`), so every tearing a larger copy can show is among its behaviours. The
writer may be killed between any two steps. The reader (`OpenShm`, `MapToRead`)
fails on a segment that is absent or too short as Python does. `last`, `intact`
and `clean` are history. **SafeRegister** is Lamport's safe register; `Register`
instantiates it. Errors are outside the register and have a property of their
own.

**ForgeWave** has the master (`Spawn`, `SpawnedAll`, `Wait`, `Report`) and the
workers (`Setup`, `Send`, `Finish`). Port arithmetic wraps at `MaxPort + 1` as
`uint16_t` does at 65536. `WaitForMultipleObjects` returns at once when a
handle is NULL, which is what a failed `CreateProcess` leaves.

**BurstWave** holds for two programs, chosen by `archived` in `Init`. `Send` is
one `sendmmsg`: it stops at the first datagram that fails, and the kernel
refuses port 0. Joining a thread that was never created is undefined in C: it
returns or crashes. The two sources do not compile as they are (undefined
names); the evident names are read.

**TaskPool** is word by word. A reader may use another `vm_count` than the
writer, map a segment that is too short, and be overtaken by the next run; an
access beyond the last page is `Fault` (SIGBUS).

**BlastController** follows `main` from firing to the list. `Launch` is
`record_send` followed by `pthread_create`; `Fire(r)` is the thread; `owner`
says who has port 54321. Datagrams that arrive while the firer has it, or
nobody, go nowhere; a result and a place in the listener's socket name the
datagram they come from by its place in the history `heard`. `StopListening`
closes the socket and puts the results into some order of their times: that the
exchange sort of `Ranking` does this is proved for every list of replies
(`ControllerSortsReplies`). `construct_stun_binding_request` and `generate_transaction_id`
are not in the repository; the thread is taken to send the ID that was
recorded.

**EpollBurst** is the engine's ancestor: threads send, `main` joins them and
only then listens. Entries are matched by ID alone, so an entry that was never
sent, whose ID is zeros, can be "answered"; its time then counts from the boot
of the machine. `BootAssumption` says that is longer ago than the window. The
list is printed in the order of the array and is kept as a set.

**NatAnalyzer** asks one server after the other. `ext` is the NAT, any
assignment of addresses to servers; `results` starts with any values, being an
uninitialized array. `Answer` puts a datagram into the socket that is open:
another answer to any request sent so far, or a stranger's, for the code looks
neither at the sender nor at the transaction ID (`Datagrams`). What the scan for
the two bytes 00 20 finds in a stranger's datagram may be any address or none.
`PrintedPort` is what a little-endian machine makes of the port (l.65-68): the
cookie is not brought into network order before the XOR, so every printed port is
off by XOR 0x3333.

**HolePunch** composes what the two ends of a hole run: the waves of all workers
on each side (the last one goes through all ports again and again), the listener
engine and hole keepers, with the two NATs and the network between them.
`WaveSend(s, w)` is one turn of `run_worker`, from port p to port p of the peer;
`Arrive` is a datagram that reaches a NAT, and `Reported` what `packet_handler`
prints of it if the NAT lets it in; `StartKeeper`, `KeepSend` and `KeepEnd` are
`holekeeper.py`, between any two ports (`KeepFlows`; its own call uses 4444 and
80), whose thread ends when its time is up or a send raises an exception; `Tick`
ages flows, datagrams and sleeping keepers. The NAT is external: symmetric (each
flow gets its own external port) and port-restricted (only the flow's destination
may answer), with flows that are forgotten after `Lifetime` ticks, which is what
the README of the repository means to drill and `burst_wawe.c:5` says of
lifetimes. Both sides' waves are assumed to run at the same time; nothing in the
code makes them start together. Of one flow there is one keeper at a time.

**ParallelProbes** holds for three programs that start workers, join them and
list what they found, chosen by `program` in `ProbeInit`. `Start` starts the
threads or processes one after the other, as the code's loops do. A thread that
`pthread_create` did not make is not noticed; a `start` that raises ends P1's
loop, or the whole program if it is main's. `Ask` takes the next server;
`GetAnswer` and `TimesOut` are the blaster's `recvfrom`, after which `Store`
writes the time that passed; `Probed` is the discoverer's; `Resolve` is a lookup
of the discoverer's P2 or the scanner's processes; `Show` is `main` after the
joins. `Memory` says whose lists a worker reads and writes: a thread its
process's, a process its own copy, a process with a Manager the common one. Only
the blaster compares times, so only it has a clock (`Millisecond`).

**Checksum**, **Ranking** and **PortAnalysis** are operators, with their
reference definitions beside them. Loops are folds: `Pass` is the inner loop of
an exchange sort, `ExchangeSort` the outer one, `Only` the loop that prints. The
order of a sort is a set of pairs. **MCAlgorithms** feeds the operators every
input: its behaviour (`Inputs`) starts from no data and appends one value at a
time (`Extend`) up to a length. `HotLists` is `port_histogram.cpp`, on a log's hits: no program of
the repository writes the segment `/nat_collision_map` it reads. In
`lfsr_predictor` (`Predictor`) a read before the first bit is harmless if it is
multiplied by 0, which the model tells apart, and a write beyond the arrays ends
what can be said. `ForgeField` has two outcomes, for malloc may fail.

**MCForge**, **MCShm**, **MCArchive** and **MCNat** put modules side by side for
one run each. What they combine shares no state (but for the size of `/shrmem`,
which the burst wave finds as the pool's writer left it), so interleaving them
would only multiply states: in a behaviour one of the programs runs, or one after
the other, and the action names (`Probing`, `Forging`, `Alone`, ...) say which.
Each program's own behaviours are all there. **MCHolePunch** holds values for the
run that checks `HolePunch` alone.

## 3. The runs

Five runs check what holds, on programs that belong together, and seven show a
disagreement between the code and what the repository says of it, one each.

| run | bounds | states | shows |
|---|---|---|---|
| `stun_discovery` | 3 names for 2 entries, batches of 2, window 1, 1 tick late, 3 datagrams, fairness | 1,834,200 | `FirstAnswerWins`, `BestIsFastestValid`, `RetryIsInert`, `ImplementsElection`, `Terminates` |
| `forge` | probes: 3 servers or names, time-out 2, threads 1 tick late, 2 listed, 3 programs; forge: ports 1..7, 3 processes; algorithms: sequences of up to 6 values of 4, bytes and ports of 2 bits, 4 remainders, cycles below 5; fairness | 92,821 | `SilentNeverAhead`, `ScannerListsWhatIsFound`, `Terminates`; `SlicesPartition`, `FinishedCoversSlice`, `ReportNeedsFailure`, `LastTriesEveryPort`; `ChecksumsCorrect`, `RankingCorrect`, `RegistersCorrect`, `LogStatisticsCorrect` |
| `shm` | pool: 4 tasks, 1 to 3 machines, 2 runs, pages of 4 words; wave: 3 threads of 3 ports, both programs, fairness; hand-over: texts of 3 and 5 characters in 6 cells, 3 runs | 893,870 | `TasksDealtOnce`, `CalmReaderGetsBlock`; `CompleteCoversRest`, `Terminates`; `ImplementsRegister`, `NoErrorOncePublished` |
| `archive` | controller: 3 requests, 2 threads, tables of 2, window 2, 3 datagrams; epoll engine: 2 servers, batches of 2, window 2, 1 shown, 1 tick late, 3 datagrams | 3,465,243 | `RttCoversRoundTrip`, `ListenerKeepsReplies`; `ListedWereAnswered`, `EarlyAnswersCounted` |
| `nat` | hole: 2 hosts (symmetric), 2 ports, 2 workers, a keeper's flow 1 to 2, lifetime 2, 2 datagrams under way for up to 1 tick, keepers of interval 1 and duration 2; analyser: 3 servers, 2 addresses, 2 ports, 2 datagrams | 4,803,725 | `ReportMeansHole`; `VerdictErrsTowardsOpen` |
| `forge_wave_ends` | ports 1..5, 2 processes, fairness | violation | `WaveEnds` |
| `burst_fills` | 2 threads of 2 ports | violation | `WaveFillsPortSpace` |
| `hints` | as `forge` | violation | `TopSuggested` |
| `predictor` | as `forge` | violation | `CoefficientsObtained` |
| `probes_best` | as `forge` | violation | `DiscovererListsWhatItMeasured` |
| `hole_held` | 2 ports, lifetime 3, datagrams that arrive at once, keepers of interval 5 and duration 60 that are never late | violation | `KeepersHoldTheHole` |
| `nat_label` | as `nat` | violation | `PortPerServerIsSymmetric` |

The passing runs also check the type invariant of every module with a state,
which includes the limits of tables and buffers.

*Why the bounds are enough.* In `stun_discovery` three datagrams let one server
answer twice (bare, then mapped, in one round or across both), the second
server answer between, and a batch of two be followed by another; a window of
one tick that may be left one tick late gives answers before, at and after its
end, and three round-trip times; one name is more than the table holds. Of the
analyser two datagrams are the two answers that are compared, from any
pair of servers asked so far or from strangers. Of the epoll engine a batch of two
may be one early answer and one stranger, and a third datagram remains for the
window. Seven ports among three processes give uneven slices, and a wrap through
all of them. Four tasks among three machines leave a remainder,
and pages of four words give a last page that reads as zeros and one that
faults. The two texts of the hand-over differ in length, so old characters stay
beyond a shorter new text. Of the controller the third request exceeds the
threads, and a duplicate exceeds the results. Of the hole two ports let a
flow come back on another external port and a datagram meet the wrong flow, and
two datagrams are under way in both directions at once; a life of two ticks is
longer than a datagram's delay, the premise of `ReportMeansHole`, without a tick
to spare; two workers send on different ports independently, and the second wraps.
Of the probes three servers give the discoverer's threads parts that are
empty, alone and shared, and the blaster one silent server between two that
answered, with one more than is listed. Constants of the code that are
only sizes (65535 ports, 128 threads, 1024 entries, 64 characters) are small
here; where it matters the proofs are for every value. In `hole_held` a tick is a
second: interval and duration are the code's, and the lifetime is in the middle of
the 1 to 5 s that `burst_wawe.c:5` gives.

*Bounds on the environment* are the constants marked "bound" in the modules:
`MaxArrivals`, `Slack` and `Late` (how late the scheduler may be, so that clocks
stay finite), `MaxDelay` and `MaxFlight` (how long and how many datagrams are
under way), `MaxRuns`, `MaxWrites`, `MaxCount`, `MaxLen`.

*Deadlock* is checked everywhere but in `hints` and `predictor`, where the input
simply stops growing. Programs that have ended stutter explicitly
(`Done`, `Ended`, `EngineEnded`, `Over`).

*Fairness.* `FairSpec` of `StunDiscovery`, `ForgeWave` and `BurstWave` and
`FairProbes` of `ParallelProbes`, and what `ForgeSpec` and `ShmSpec` take over from
them, ask for weak fairness of each process or thread as a
whole (an operating system runs a runnable thread) and of the clock. Nothing is
asked of the network, of `CreateProcess` or of any call that may fail.

### What the runs say of the code

Found to hold, and not obvious:

* The retry round of the discovery engine asks only entries that have a
  round-trip time, and `burst_receive` fills only entries that have none. It
  costs another window and changes nothing (`RetryIsInert`).
* Addresses are torn only by reads that overlap a write or follow one that was
  cut short; the segment is never cut, so after the first publication no read
  fails.
* The last worker of the forge wave wraps past 65535 and goes on through the
  slices of all others (`LastTriesEveryPort`); so the master's report is
  printed only if some worker did not start or failed (`ReportNeedsFailure`),
  possibly while others still send.
* A datagram of the wave opens only the sender's NAT. What the listener prints
  is a hole that is open both ways at that moment, provided no datagram is under
  way longer than a mapping lives (`ReportMeansHole`); the number is the peer's
  external port, which is the local port to use only because the wave goes from
  p to p.
* `burst_blaster.c` stores the time of a receive that timed out like a round
  trip, so its list of the fastest may hold servers that never answered; but
  such a server is ahead only of answers as slow as the time-out
  (`SilentNeverAhead`).
* The Manager's list of `DynamicStunScanner.py` loses nothing, whichever of its
  processes fail (`ScannerListsWhatIsFound`).
* The firer's port is closed before the listener opens it: answers faster than
  that are lost, and the listener reports only what reached its own socket.
* In `epoll_burst.c` a stranger's datagram with twelve zeros gives a time to an
  entry that never asked; it is not listed only because its time counts from the
  boot (`ListedWereAnswered`).
* If both compared results come from servers' answers, `nat_analyzer.c` can only err
  in calling a NAT open, when the first server's late answer is taken for the
  second's (`VerdictErrsTowardsOpen`); that it decodes the ports wrongly does not
  matter to the comparison. With one of them missing it compares memory that
  was never written, and a stranger's datagram can have it say anything.
* A log of fewer than 2560 packets is called biased unless all remainders occur
  equally often (`ShortLogIsBiased`, in `LogStatisticsCorrect`).
* Two folds are enough for the checksum of `net.c`. The forge leaves a checksum
  of zero as it is, and sends zero when malloc fails; both tell the receiver there
  is none, and the datagram is accepted.

Disagreements between the code and what the repository says of it, each with a run:

* `WaveEnds`: `natghost_forge/src/main.c:81` reports the end of a wave that does
  not end. The last slice ends at 65535, which a `uint16_t` never exceeds.
* `WaveFillsPortSpace`: `burst_wawe.c:17-21` says that 128 threads of 512 ports fill
  the whole port space, and l.134 reports the wave complete. The first thread starts
  at port 0, which the kernel refuses, and sends nothing.
* `TopSuggested`: `full_spectrum_randomness_analyzer.cpp:128` prints the "top"
  suggestions; the comparison of l.124 puts the ports seen least first.
* `CoefficientsObtained`: l.376 of the same file says that the coefficients are
  obtained. The loop starts with the register's final length, and on most logs reads
  a bit before the first that counts, or writes beyond `c`.
* `DiscovererListsWhatItMeasured`: `stundiscoverer.py:453` prints the best five
  servers, but of main's own list, to which no other process can add.
* `KeepersHoldTheHole`: `holekeeper.py:8` says that the keepalives keep the NAT open.
  One in 5 s does not, where mappings live 1 to 5 s (`burst_wawe.c:5`).
* `PortPerServerIsSymmetric`: `nat_analyzer.c:117` calls a NAT symmetric that gives
  "a different port or IP to each server"; one that differs in the ports only is
  called restricted.

Seen while reading and recorded without a run: README.md:52-64 gives the discovery
29 ms in the best case and 132 ms in the worst, and no overhead for a retry, but
`burst_receive` waits for the end of its window of 100 ms even when all have
answered (l.151-181), and the retry waits for another; `nat_analyzer.c` prints
ports that are off by XOR 0x3333; udp_flooder.py:14 says
that `read_ip_port` returns the published address, but a read
that overlaps a write returns parts of two (which is why `ImplementsRegister`
names a register that is only safe); the tasks of `memory_map.c` go
up to 65536, which is no port (l.60); `read_ip_port` promises `('', 0)` for a
segment without an address, but `mmap` raises `ValueError` on one of size 0,
which the engine leaves if it dies before `ftruncate`; the archived burst sends
to one port per thread (l.55); `epoll_burst.c` prints the first five, not the
"fastest 5" (l.158); `udp_flooder.py` and `adaptive_probe.py` define
`read_ip_port` but ask the user for the address when run.

## 4. What is proved

For every value of the constants the modules' assumptions allow: sizes are
natural numbers, and batches, windows, counts of threads and pages are not zero
(`SizesAssumption`, `CountsAssumption`); there are no more processes than ports
(`SlicesAssumption`); a byte has more than one value, and the inputs of the
algorithms are octets and fewer than a word has values (`ByteAssumption`,
`InputsAssumption`; 256 and 65536 in the code; as ports the inputs fit in
`PortBits`); addresses are sequences of characters that fit the segment
(`TextAssumption`); there are two hosts (`HolePunchAssumption`); the machine was
not booted within the window (`BootAssumption`). Time and traffic have no bound
but the named constants, which may be any number.

`StunDiscovery_proofs`

| theorem | statement |
|---|---|
| `TypeCorrect` | `Spec => []TypeOK` |
| `TableNeverOverflows` | `Spec => []TableFits` |
| `FirstAnswerDecides` | `Spec => []FirstAnswerWins` |
| `FastestIsPublished` | `Spec => []BestIsFastestValid` |
| `RetryChangesNothing` | `Spec => RetryIsInert` |
| `DiscoveryImplementsElection` | `Spec => ImplementsElection` |

The inductive invariant is `TypeOK /\ Timing /\ Traffic /\ Rounds /\ Table /\
History /\ Ranking /\ FirstAnswerWins /\ BestIsFastestValid`.
`TableFits` is inductive by itself: loaded names take the first
entries of the table, and by the pigeonhole principle (`FirstEntriesFit`) no
more of them than there are entries.
`FirstAnswerWins` alone is not inductive. It needs that an answer in flight
belongs to a request that was sent (`Traffic`), that whoever is in the history
has a time already, so a later answer finds its entry taken (`History`), that
the first round asks exactly the loaded entries and the second only answered
ones (`Rounds`), and that time stamps do not run backwards, so a recorded
round trip is never mistaken for -1 (`Timing`). `FastestIsPublished` rests on
the lemma `FirstValidIsFastest`: in any order `cmp_rtt` allows, stable or not,
the first valid entry is a fastest one. In the refinement `HandleMsg` is
`Decide` or a stutter, `LeaveWindow` of the first round is `Close`, `Publish` is
`Elect` or a stutter, and everything else stutters; `RetryIsInert`'s argument is
what keeps `HandleMsg` from deciding after the close.

`Shares_proofs` proves the two programs that deal out ports, which share the
arithmetic of quotients. `ForgeWave`:

| theorem | statement |
|---|---|
| `TypeCorrect` | `Spec => []TypeOK` |
| `SlicesArePartition` | `Spec => []SlicesPartition` |
| `WorkersCoverSlices` | `Spec => [](FinishedCoversSlice /\ AscendingOnce)` |
| `ReportOnlyAfterFailure` | `Spec => []ReportNeedsFailure` |

The arithmetic of the slices (`Division` to `SlicesCover`) is done once, without
states. The inductive invariant then says of each worker what it has sent at its
current port and that the last one never finishes, which is why a wait that
returns needs a NULL handle or a failed worker.

`TaskPool`, in the same module:

| theorem | statement |
|---|---|
| `PoolTypes` | `PoolSpec => []PoolTypeOK` |
| `EveryTaskDealtOnce` | `PoolSpec => []TasksDealtOnce` |
| `CalmReaderIsRight` | `PoolSpec => []CalmReaderGetsBlock` |

The arithmetic is in `Quotient` (a number determines its block and field) and
`Field` (the word at a field of a block, and that it lies in the layout). The
invariant: a writer at work has written what it passed and nothing counts as
settled (`Filling`), a settled segment holds a whole layout (`Settled`), and what
a calm reader printed so far is a beginning of its block (`Copied`).

`Nat_proofs` proves the two modules about NATs. `HolePunch`:

| theorem | statement |
|---|---|
| `TypeCorrect` | `HoleSpec => []HoleTypeOK` |
| `ReportIsHole` | `HoleSpec => []ReportMeansHole` |

`ReportMeansHole` needs the sender's side of the hole: with `MaxDelay < Lifetime`
the flow a datagram left through has the external port the datagram carries and
is at least as young as it (`SentThrough`), so it lives when the datagram
arrives.

`NatAnalyzer`, in the same module:

| theorem | statement |
|---|---|
| `AnalyzerTypes` | `AnalyzerSpec => []AnalyzerTypeOK` |
| `VerdictIsLenient` | `AnalyzerSpec => []VerdictErrsTowardsOpen` |

A result that came from a server is what this server or one asked before it saw,
as the code prints it (`Written`, by `Asked`), so the first is the first server's,
and only the second can be another's. That the printed ports of two ports differ
is the lemma `PrintedPorts`.

`ShmPublish_proofs`

| theorem | statement |
|---|---|
| `TypeCorrect` | `PublishSpec => []PublishTypeOK` |
| `NeverFailsAgain` | `PublishSpec => NoErrorOncePublished` |
| `SegmentIsRegister` | `PublishSpec => ImplementsRegister` |

The invariant says how big the segment is at each step (`Sized`), which
characters a writer at work has written (`Writing`), that an intact segment
begins with the last address and a terminator (`Content`), and that a reader no
write overlapped has a beginning of it (`Copied`). The lemma `CutCopy` says that
cutting such a copy at its first terminator gives back the address, whatever
older characters follow. In the refinement every step is one of the register's
or a stutter.

`BurstWave_proofs`

| theorem | statement |
|---|---|
| `TypeCorrect` | `Spec => []TypeOK` |
| `CompleteWaveCovers` | `Spec => []CompleteCoversRest` |

The invariant says which threads may exist and which have ended at each point of
main (`Progress`), and that a thread that ended has sent to its whole range, or
had a failure or a refused datagram (`Coverage`); `BatchSent` is what one `sendmmsg` adds.

`EpollBurst_proofs`

| theorem | statement |
|---|---|
| `TypeCorrect` | `EngineSpec => []EngineTypeOK` |
| `ListIsAnswered` | `EngineSpec => []ListedWereAnswered` |
| `EarlyAnswersCount` | `EngineSpec => []EarlyAnswersCounted` |

The invariant follows an early answer from the socket to the first batch to its
entry (`Early`), says that a time belongs to a server whose answer came, or
counts from the boot (`Answered`, with `Origin`: what is held came, and not later
than the time it goes by), and what is fixed before and after the window starts
(`Phases`). `FirstFit` bounds a loop that counts its entries.

`BlastController_proofs`

| theorem | statement |
|---|---|
| `BlastTypes` | `Spec => []TypeOK` |
| `BlastRttCoversRoundTrip` | `Spec => []RttCoversRoundTrip` |
| `BlastListenerKeepsReplies` | `Spec => []ListenerKeepsReplies` |

The inductive invariant `BlastInv` adds to the properties how far the clock may
have run in each phase (`Timely`, which bounds the times of `TypeOK`), that the
table holds the first requests in their order and no time in the future
(`Recorded`), that a thread exists only after its request was recorded and sends
later (`SentAfter`), that an answer follows its request (`HeardBefore`), who has
the port and that nothing was received before the listener had it (`Port`), and
that datagrams wait in the order of their arrival (`Waiting`). That no round trip
is too short then follows from `table[r].time <= sentAt[r]`: main records the
time before it makes the thread that sends.

`Algorithms_proofs`

| theorem | statement |
|---|---|
| `ChecksumsAreCorrect` | `Inputs => []ChecksumsCorrect` |
| `RankingIsCorrect` | `Inputs => []RankingCorrect` |
| `RegistersAreCorrect` | `Inputs => []RegistersCorrect` |
| `LinearComplexityIs` | Berlekamp-Massey as coded returns the linear complexity and taps that generate the bits, the only ones if it is at most half the number of bits, for every log of ports |
| `LogStatisticsAreCorrect` | `Inputs => []LogStatisticsCorrect` |
| `ControllerSortsReplies` | the sort of `blast_controller.c` on any list of replies gives what `StopListening` allows |
| `ProbesTypes` | `ProbeSpec => []ProbeTypeOK` |
| `ProbesSilentNeverAhead` | `ProbeSpec => []SilentNeverAhead` |
| `ProbesScannerListsWhatIsFound` | `ProbeSpec => []ScannerListsWhatIsFound` |

The library's induction theorems take an operator, which the provers cannot
instantiate, so induction over data is done with sets: a set of numbers that
holds 0 and with each number the next one holds all (`SetInduction`, by the least
number that is missing). A fold is a recursive function of sets of places; it
exists (`FoldExists`, by induction on the largest place), and its values at
`1..k` are its running values (`RunningValues`). With that a sum is its running
sums, a pass of a sort its list after each exchange, and a sort its list after
each pass.

For the checksums, `OnesComplement(x)` is the number from 1 to `Word - 1` that is
congruent to x > 0 modulo `Word - 1` (`Representative`). Folding keeps it
(`FoldKeeps`). Two folds are enough for net.c because after the first the high
part is at most 1 (`TwoFolds`); the loop of checksum.c ends with the same word
because each turn makes the sum smaller (`LoopOfFolds`). The sum of at most `Word`
words stays below `Wide` (`NoWrap`): 32 bits are enough. The words of what is
covered are those of the pseudo-header, the field and the payload
(`CoveredWords`, `CoveredTotal`), so the inverted sum in the field makes all ones
(`Cancels`).

For the sorts, a list is followed together with the bijection of places it is
rearranged by (`Rearranged`): an exchange swaps two places, a pass puts an entry
in front that no later one belongs before (`OneExchange`, `PassDoes`), and the
sort extends the ordered part by one (`OnePass`). The comparison need only be
asymmetric and transitive (`IsOrder`), as that of `burst_blaster.c` is with 0 as
its last element (`Orders`). `Only` then selects a beginning of the sorted list
(`IsFiltered`).

`ParallelProbes` uses the same lemmas for the list that `burst_blaster.c` prints
(`BlasterPrintsFastest`). Its inductive invariant `ProbesInv` adds that a thread
waits no longer than it may (`Waits`), what a stored time says of the answer
(`Stored`), that a list of times is in order (`InOrder`), and that the scanner's
common list has every name (`Shared`).

The two theorems on logs of ports hold for every width of the ports, every length
of the log and every `ModBase` and `MaxCycle`. They need a theory of sums
first: `SumFunctionOnSet` takes its elements in an order that is not known, so
its sum on each subset is a function (`SumExists`) of which every element can be
peeled off first (`AnyOrder`); from that come additivity, scaling, reindexing by
a bijection and the exchange of two sums (`SumAdds`, `SumScaled`, `SumReindexed`,
`SumExchanged`).

That Berlekamp-Massey finds a shortest register is Massey's theorem, proved for the
loop as it is coded, with arrays as long as the bits. Its core is `Massey`: if one
register predicts the bits before place q and fails at q, and another predicts them
and bit q too, then their lengths add up to more than q. It is shown by writing the
failure of the first as a double sum and exchanging the order. The invariant of the
loop (`RegisterInv`) says that the taps predict all bits so far and are 0 beyond
the length (`Connections`), that no shorter register predicts them (`Least`), and
that the saved taps b predict all bits before place m and fail there
(`LastFailure`); without the latter the correction `c[j + shift] ^= b[j]` says
nothing. That the correction cancels the failure and disturbs no earlier bit is
`CombinedCoef` and `Corrected`, by the parity of sums. Two registers of the least length that both predict all
bits and are at most half as long as they are the same (`OnlyTaps`).

Of the statistics, counts are sums of ones (`CountIsSum`), and counts by a key
weighted by it are a sum over the log (`WeightsByKey`): hence the remainders add
up to the length of the log (`RemaindersAddUp`), which makes the remainders of a
short log differ unless each occurs equally often, and the differences
telescope (`DifferencesAddUp`). The runs test counts places where a block starts,
and each block has one (`RunsAreBlocks`). The loop for the longest run keeps that
the current run is the longest that ends at the bit and that no run before is
longer than the longest (`LongestSoFar`). The loops over repeated ports keep in
their map the last place of each port (`IsSeen`, for `first_seen` too), so every
packet adds at most one pair, at the distance found (`PairsGrow`).

*Only model-checked:* all liveness (`Terminates` of `stun_discovery`, `shm` and
`forge`, `LastTriesEveryPort` of `forge`; fairness and ENABLED are outside the
prover) and the violations. Every other property of a run is also a theorem, of its
module's own specification, which the MC modules only put side by side.

## 5. Not modelled, and why

* Floating-point statistics of the analyzers (entropy, correlation, spectrum,
  p-values): no floating point in TLC.
* The loops of `udp_flooder.py` and `adaptive_probe.py`, which send and sleep
  without state; `ParallelVectorEngine` and `reload_and_fire` of
  `stundiscoverer.py`, which nothing calls; the order by time of its list.
* What `lfsr_predictor` predicts (l.398-413), with coefficients that it did not
  obtain. A log of zeros has length 0, and the prediction then erases from an empty
  vector.
* How long the discovery takes in milliseconds.
* The bytes of headers other than the checksum field: constants or copies.
* DNS, NAT devices, STUN servers: environment. They appear as what the code can
  observe of them.
* Scripts without state of their own, and configuration.

## 6. The plan

The modules of the plan are written, and of each module with a state the type
invariant and the safety properties are proved, and so are the properties of the
algorithms. Left is the liveness, which only the runs show.
Some hazards have no property: a thread that `raw_socket_firer_threads.c` did not
create but joins (l.105), which C leaves undefined; a pool that is rewritten under
a mapped reader (`memory_map.c:32`), of which the repository promises nothing;
round trips below 1 ms in `burst_blaster.c` (l.84), which count as none; and
the order of `epoll_burst.c`'s list (l.160), which is that of its array by
construction.
