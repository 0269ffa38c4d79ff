---------------------------- MODULE ParallelProbes ----------------------------
(***************************************************************************)
(* Three programs of the archives that look for STUN servers with several  *)
(* workers at a time and then list what was found; ProbeInit chooses one:  *)
(*                                                                         *)
(*  "blaster"     kernel/archive/burst_blaster.c: a thread per server asks *)
(*                it and stores the time; main sorts and prints.           *)
(*  "discoverer"  core/archive/stundiscoverer.py: process P1 asks the      *)
(*                servers in four threads with overlapping parts of the    *)
(*                list, P2 looks names up, P3 looks around what was found; *)
(*                main sorts and prints.                                   *)
(*  "scanner"     core/archive/DynamicStunScanner.py: a process per domain *)
(*                looks names up and adds them to a list of a Manager;     *)
(*                main returns the list.                                   *)
(*                                                                         *)
(* Each probe has a socket of its own.  A tick is a millisecond.           *)
(***************************************************************************)
EXTENDS Ranking

CONSTANTS N,            \* servers, or domains
          Timeout,      \* of a receive: 200 ms, or 3 s
          Delay         \* bound: how late a thread may be scheduled

ASSUME ProbesAssumption == /\ {N, Timeout} \subseteq Nat \ {0}
                           /\ Delay \in Nat

Servers  == 1..N
Programs == {"blaster", "discoverer", "scanner"}
Memories == {"main", "P1", "P2"}
Probers  == 1..(IF N < 5 THEN 5 ELSE N)

\* The workers of a program.
IsWorker(p, t) == IF p = "discoverer" THEN t <= 5 ELSE t \in Servers

All == [i \in Servers |-> i]

\* process1_static_threader: which part of stun_servers each thread gets.
Ranges == << SubSeq(All, 1, N \div 2), SubSeq(All, N \div 2 + 1, N), Reverse(All),
             SubSeq(All, N \div 4 + 1, (3 * N) \div 4) >>

\* What each worker has to do.  P2 is worker 5.  P3 goes twice through its own
\* copy of dynamic_found, which is empty, and does nothing.
Work(p, t) == IF p # "discoverer" THEN (IF t \in Servers THEN <<t>> ELSE <<>>)
              ELSE IF t <= 4 THEN Ranges[t]
              ELSE IF t = 5 THEN All ELSE <<>>

\* A defective variant: the scanner's list is an ordinary one.
PlainList(p, t) == IF p = "blaster" THEN "main"
                   ELSE IF p = "discoverer" /\ t > 4 THEN "P2" ELSE "P1"

\* Whose globals a worker reads and writes: threads share those of their
\* process, a process has copies of its parent's, a Manager's list is one.
Memory(p, t) == IF p # "discoverer" THEN "main" ELSE IF t <= 4 THEN "P1" ELSE "P2"

Asks(p, t) == p = "blaster" \/ (p = "discoverer" /\ t <= 4)

VARIABLES
    program,
    wpc,       \* each worker: "new", "ready", "waiting" or "absent"
    todo,      \* what it has still to ask or look up
    wait,      \* a blaster's thread: ticks since its request left
    ans,       \* wait when its answer arrived, or -1
    rtt_ms,    \* stun_servers[i].rtt_ms of the blaster, 0 until a thread stores it
    measured,  \* servers whose replies the discoverer recorded, in each memory
    found,     \* names that were looked up, in each memory
    stage,     \* "join", "listed" or "crashed"
    printed,   \* the servers or names that main lists
    reply,     \* history: the answer the blaster stored a time for, or -1
    resolved   \* history: names that were looked up with success

probes  == <<wait, ans>>
records == <<rtt_ms, measured>>
history == <<reply, resolved>>
output  == <<stage, printed>>
probeVars == <<program, wpc, todo, probes, records, found, output, history>>

ProbeInit == /\ program \in Programs
             /\ wpc = [t \in Probers |-> IF IsWorker(program, t) THEN "new" ELSE "ready"]
             /\ todo = [t \in Probers |-> Work(program, t)]
             /\ wait = [t \in Probers |-> 0]
             /\ ans = [t \in Probers |-> -1]
             /\ rtt_ms = [s \in Servers |-> 0]
             /\ measured = [m \in Memories |-> {}]
             /\ found = [m \in Memories |-> {}]
             /\ stage = "join"
             /\ printed = <<>>
             /\ reply = [s \in Servers |-> -1]
             /\ resolved = {}

-----------------------------------------------------------------------------
(* Workers.                                                                *)

Running == stage = "join"
Finished(t) == wpc[t] = "absent" \/ (wpc[t] = "ready" /\ todo[t] = <<>>)
Pop(t) == todo' = [todo EXCEPT ![t] = Tail(@)]

\* One after the other: a loop of main, or of process1_static_threader, starts them.
IsNext(t) == /\ wpc[t] = "new"
             /\ \A u \in 1..(t - 1) :
                   Memory(program, u) = Memory(program, t) => wpc[u] # "new"

\* pthread_create, whose result burst_blaster.c ignores, or start, which raises
\* what nobody catches: P1 then starts no more threads and ends with those it has;
\* in the discoverer's main, which starts P1, P2 and P3 (worker 5 stands for all
\* three), and in the scanner's it ends the program.
Start(t) ==
    /\ Running
    /\ IsNext(t)
    /\ \/ wpc' = [wpc EXCEPT ![t] = "ready"] /\ UNCHANGED stage
       \/ /\ program = "blaster"
          /\ wpc' = [wpc EXCEPT ![t] = "absent"]
          /\ UNCHANGED stage
       \/ /\ program = "discoverer" /\ t <= 4
          /\ wpc' = [u \in Probers |-> IF u \in t..4 THEN "absent" ELSE wpc[u]]
          /\ UNCHANGED stage
       \/ /\ program = "scanner" \/ (program = "discoverer" /\ t = 5)
          /\ stage' = "crashed"
          /\ UNCHANGED wpc
    /\ UNCHANGED <<program, todo, probes, records, found, printed, history>>

HasWork(t) == Running /\ wpc[t] = "ready" /\ todo[t] # <<>>

\* thread_worker, stun_ping and forgeStunPacket up to the receive.  A host that
\* was found dynamically is passed over; the name may not resolve, or there is no
\* socket.
Ask(t) ==
    LET s == Head(todo[t]) IN
    /\ HasWork(t)
    /\ Asks(program, t)
    /\ IF s \in found[Memory(program, t)] THEN Pop(t) /\ UNCHANGED wpc
       ELSE \/ wpc' = [wpc EXCEPT ![t] = "waiting"] /\ UNCHANGED todo
            \/ Pop(t) /\ UNCHANGED wpc
    /\ UNCHANGED <<program, probes, records, found, output, history>>

Waiting(t) == Running /\ wpc[t] = "waiting"

\* recvfrom of the blaster returns, with an answer or not, which it does not
\* notice: the time that passed is stored.
Store(t) ==
    LET s == Head(todo[t]) IN
    /\ program = "blaster"
    /\ rtt_ms' = [rtt_ms EXCEPT ![s] = wait[t]]
    /\ reply' = [reply EXCEPT ![s] = ans[t]]
    /\ wait' = [wait EXCEPT ![t] = 0]
    /\ ans' = [ans EXCEPT ![t] = -1]
    /\ wpc' = [wpc EXCEPT ![t] = "ready"]
    /\ Pop(t)
    /\ UNCHANGED <<program, measured, found, output, resolved>>

GetAnswer(t) == Waiting(t) /\ ans[t] >= 0 /\ Store(t)

\* A defective variant: the receive does not wait.
TimesOutAtOnce(t) == Waiting(t) /\ ans[t] = -1 /\ Store(t)

\* SO_RCVTIMEO.
TimesOut(t) == Waiting(t) /\ ans[t] = -1 /\ wait[t] >= Timeout /\ Store(t)

\* forgeStunPacket from the receive on: a valid reply is recorded; a time-out, an
\* error or another datagram is not.
Probed(t) == /\ Waiting(t)
             /\ program = "discoverer"
             /\ \/ measured' = [measured EXCEPT ![Memory(program, t)] = @ \union {Head(todo[t])}]
                \/ UNCHANGED measured
             /\ wpc' = [wpc EXCEPT ![t] = "ready"]
             /\ Pop(t)
             /\ UNCHANGED <<program, probes, rtt_ms, found, output, history>>

\* A defective variant: a name without records is tried again later.
ResolveAgain(t) ==
    /\ HasWork(t)
    /\ ~Asks(program, t)
    /\ LET name == Head(todo[t]) IN
          \/ /\ found' = [found EXCEPT ![Memory(program, t)] = @ \union {name}]
             /\ resolved' = resolved \union {name}
             /\ Pop(t)
          \/ /\ todo' = [todo EXCEPT ![t] = Append(Tail(@), name)]
             /\ UNCHANGED <<found, resolved>>
    /\ UNCHANGED <<program, wpc, probes, records, output, reply>>

\* resolve_record, resolve_srv, ...: the name has records, or there is an error that
\* is caught or ends the process of this one lookup.
Resolve(t) == /\ HasWork(t)
              /\ ~Asks(program, t)
              /\ \/ LET name == Head(todo[t]) IN
                      /\ found' = [found EXCEPT ![Memory(program, t)] = @ \union {name}]
                      /\ resolved' = resolved \union {name}
                 \/ UNCHANGED <<found, resolved>>
              /\ Pop(t)
              /\ UNCHANGED <<program, wpc, probes, records, output, reply>>

-----------------------------------------------------------------------------
(* The network and the clock of the blaster.                               *)

Answer(t) == /\ Waiting(t)
             /\ program = "blaster"
             /\ ans[t] = -1
             /\ ans' = [ans EXCEPT ![t] = wait[t]]
             /\ UNCHANGED <<program, wpc, todo, wait, records, found, output, history>>

\* A defective variant: the receive has no time-out.
MillisecondMore ==
    /\ program = "blaster"
    /\ \E t \in Probers : Waiting(t)
    /\ wait' = [t \in Probers |-> IF Waiting(t) THEN wait[t] + 1 ELSE wait[t]]
    /\ UNCHANGED <<program, wpc, todo, ans, records, found, output, history>>

\* The call a thread waits in returns at its answer or time-out, and the thread
\* runs at most Delay later.
Millisecond ==
    LET waiting == {t \in Probers : Waiting(t)} IN
    /\ program = "blaster"
    /\ waiting # {}
    /\ \A t \in waiting : wait[t] < Delay + (IF ans[t] \in 0..Timeout THEN ans[t] ELSE Timeout)
    /\ wait' = [t \in Probers |-> IF t \in waiting THEN wait[t] + 1 ELSE wait[t]]
    /\ UNCHANGED <<program, wpc, todo, ans, records, found, output, history>>

-----------------------------------------------------------------------------
(* main.                                                                   *)

BlasterPrints ==
    LET faster(x, y) == BlasterBefore(rtt_ms[x], rtt_ms[y])
    IN  FirstShown(Only(ExchangeSort(Pairs(Servers, faster), All),
                        {s \in Servers : rtt_ms[s] > 0}))

\* deduplicate_dynamic_results and the first five of results; their order by
\* time is left out.
DiscovererPrints == FirstShown(SetToSeq(measured["main"] \ found["main"]))

ScannerReturns == SetToSeq(found["main"])

\* main has joined all its workers.  The blaster joins a thread that was not
\* created as well, with what its entry of threads[] holds: it returns or crashes.
Show == /\ Running
        /\ \A t \in Probers : Finished(t)
        /\ \/ /\ stage' = "listed"
              /\ printed' = CASE program = "blaster" -> BlasterPrints
                             [] program = "discoverer" -> DiscovererPrints
                             [] program = "scanner" -> ScannerReturns
           \/ /\ program = "blaster" /\ \E t \in Probers : wpc[t] = "absent"
              /\ stage' = "crashed"
              /\ UNCHANGED printed
        /\ UNCHANGED <<program, wpc, todo, probes, records, found, history>>

Probe(t) == Start(t) \/ Ask(t) \/ GetAnswer(t) \/ TimesOut(t) \/ Probed(t) \/ Resolve(t)

Over == ~Running /\ UNCHANGED probeVars

ProbeNext == (\E t \in Probers : Probe(t) \/ Answer(t)) \/ Millisecond \/ Show \/ Over

ProbeSpec == ProbeInit /\ [][ProbeNext]_probeVars

\* Workers and main are scheduled, and time passes.
FairProbes == /\ ProbeSpec
              /\ \A t \in Probers : WF_probeVars(Probe(t))
              /\ WF_probeVars(Show) /\ WF_probeVars(Millisecond)
-----------------------------------------------------------------------------
(* What must hold.                                                         *)

Ticks == (-1)..(Timeout + Delay)

\* Type invariant.
ProbeTypeOK == /\ program \in Programs
               /\ wpc \in [Probers -> {"new", "ready", "waiting", "absent"}]
               /\ todo \in [Probers -> Seq(Servers)]
               /\ wait \in [Probers -> 0..(Timeout + Delay)]
               /\ ans \in [Probers -> Ticks]
               /\ rtt_ms \in [Servers -> 0..(Timeout + Delay)]
               /\ measured \in [Memories -> SUBSET Servers]
               /\ found \in [Memories -> SUBSET Servers]
               /\ stage \in {"join", "listed", "crashed"}
               /\ printed \in Seq(Servers)
               /\ reply \in [Servers -> Ticks]
               /\ resolved \subseteq Servers

\* burst_blaster.c l.78-88 and l.110-128: a receive that timed out is stored as
\* a round trip, so the list of the fastest may hold servers that never answered;
\* but such a server is ahead of one that answered only if that answer took as
\* long as the timeout, but for the delays of the scheduler.
SilentNeverAhead ==
    program = "blaster" =>
        \A i, j \in DOMAIN printed :
            i < j /\ reply[printed[i]] = -1 /\ reply[printed[j]] >= 0 =>
                reply[printed[j]] >= Timeout - Delay

\* DynamicStunScanner.py l.26, l.61-74: when run_all returns, its list has the
\* names that any of its processes found, each once, and no other.
ScannerListsWhatIsFound ==
    program = "scanner" /\ stage = "listed" =>
        ToSet(printed) = resolved /\ Len(printed) = Cardinality(resolved)

\* stundiscoverer.py l.453 calls what it prints "Final RTT Analysis (Best 5 STUN
\* Servers)": so if P1 recorded the reply of a server that P2 did not find as well,
\* which l.431 removes, a server is printed.  It is not: main sorts its own list
\* of results, to which no process but itself can add.
DiscovererListsWhatItMeasured ==
    program = "discoverer" /\ stage = "listed" /\ measured["P1"] \ found["P2"] # {} =>
        printed # <<>>

\* All joins return: whatever the network does each program comes to its list,
\* or crashes on a worker that could not be created.
Terminates == <>(stage \in {"listed", "crashed"})
=============================================================================
