---------------------------- MODULE Shares_proofs -----------------------------
(***************************************************************************)
(* Two programs cut a whole into equal shares by an integer division and give*)
(* each worker its own.  ForgeWave: for every size of the port space and   *)
(* every number of workers, in particular for 65535 ports and 16 processes.*)
(* TaskPool: for every number of tasks and machines and every page size, in*)
(* particular for 65536 tasks.                                             *)
(***************************************************************************)
EXTENDS ForgeWave, TaskPool, TLAPS

-----------------------------------------------------------------------------
(***************************************************************************)
(* Slices of ports for the processes of the forge wave.                    *)
(***************************************************************************)

-----------------------------------------------------------------------------
(* Arithmetic of the slices.                                               *)

\* Quotient and remainder.
LEMMA Division ==
    ASSUME NEW n \in Nat, NEW d \in Nat \ {0}
    PROVE  /\ n \div d \in Nat
           /\ n % d \in 0..(d - 1)
           /\ n = d * (n \div d) + (n % d)
           /\ d * (n \div d) <= n
           /\ n < d * (n \div d) + d
  OBVIOUS

\* Products grow with their factors.
LEMMA Product ==
    ASSUME NEW a \in Nat, NEW b \in Nat, NEW c \in Nat, a <= b
    PROVE  a * c \in Nat /\ b * c \in Nat /\ a * c <= b * c
  OBVIOUS

\* A uint16_t holds every port.
LEMMA U16Identity ==
    ASSUME NEW n \in Ports
    PROVE  U16(n) = n
  BY SlicesAssumption DEF U16, Ports

\* A number cut to 16 bits is a port.
LEMMA U16Type ==
    ASSUME NEW n \in Nat
    PROVE  U16(n) \in Ports
  BY SlicesAssumption DEF U16, Ports

\* A process has at least one port.
LEMMA PerProcess ==
    /\ PortsPerProcess \in Nat \ {0}
    /\ Procs * PortsPerProcess <= MaxPort
<1>1. /\ PortsPerProcess \in Nat
      /\ Procs * PortsPerProcess <= MaxPort
      /\ MaxPort < Procs * PortsPerProcess + Procs
  BY SlicesAssumption, Division DEF PortsPerProcess
<1>2. PortsPerProcess # 0
  BY <1>1, SlicesAssumption
<1> QED
  BY <1>1, <1>2

\* Where the slices start and end, computed without overflow.
LEMMA SliceBounds ==
    ASSUME NEW i \in Workers
    PROVE  /\ StartPort(i) = i * PortsPerProcess + 1
           /\ EndPort(i) = IF i = LastWorker THEN MaxPort ELSE (i + 1) * PortsPerProcess
           /\ StartPort(i) \in 1..MaxPort /\ EndPort(i) \in 1..MaxPort
           /\ i # LastWorker => EndPort(i) < MaxPort
           /\ StartPort(i) <= EndPort(i)
<1> DEFINE c == PortsPerProcess
<1>1. /\ i \in Nat /\ i + 1 \in Nat /\ i + 1 <= Procs /\ Procs \in Nat
      /\ c \in Nat \ {0} /\ Procs * c <= MaxPort /\ MaxPort \in Nat
  BY SlicesAssumption, PerProcess DEF Workers
<1> HIDE DEF c
<1>2. /\ (i + 1) * c \in Nat /\ (i + 1) * c <= MaxPort
      /\ i * c \in Nat /\ (i + 1) * c = i * c + c
  <2>1. (i + 1) * c <= Procs * c /\ (i + 1) * c \in Nat /\ i * c \in Nat
    BY <1>1, Product
  <2>2. (i + 1) * c = i * c + c
    BY <1>1
  <2> QED
    BY <1>1, <2>1, <2>2
<1>3. i * c + 1 \in 1..MaxPort
  BY <1>1, <1>2
<1>4. StartPort(i) = i * c + 1
  BY <1>1, <1>3, U16Identity DEF StartPort, Ports, c
<1>5. EndPort(i) = IF i = LastWorker THEN MaxPort ELSE (i + 1) * c
  BY <1>1, <1>2, U16Identity DEF EndPort, Ports, c
<1>6. i # LastWorker => (i + 1) * c < MaxPort
  <2>1. SUFFICES ASSUME i # LastWorker PROVE (i + 1) * c < MaxPort
    OBVIOUS
  <2>2. i + 2 <= Procs /\ i + 2 \in Nat
    BY <1>1, <2>1 DEF LastWorker, Workers
  <2>3. (i + 2) * c <= Procs * c /\ (i + 2) * c \in Nat
    BY <1>1, <2>2, Product
  <2>4. (i + 2) * c = (i + 1) * c + c
    BY <1>1
  <2> QED
    BY <1>1, <1>2, <2>3, <2>4
<1> QED
  BY <1>1, <1>2, <1>3, <1>4, <1>5, <1>6 DEF c

\* Slices of different workers have no port in common.
LEMMA SlicesDisjoint ==
    ASSUME NEW i \in Workers, NEW j \in Workers, i < j
    PROVE  Slice(i) \cap Slice(j) = {}
<1> DEFINE c == PortsPerProcess
<1>1. /\ i + 1 \in Nat /\ j \in Nat /\ i + 1 <= j /\ c \in Nat /\ i # LastWorker
  BY SlicesAssumption, PerProcess DEF Workers, LastWorker
<1>2. EndPort(i) = (i + 1) * c /\ StartPort(j) = j * c + 1
  BY <1>1, SliceBounds
<1> HIDE DEF c
<1>3. (i + 1) * c \in Nat /\ (i + 1) * c <= j * c /\ j * c \in Nat
  BY <1>1, Product
<1> QED
  BY <1>2, <1>3, SliceBounds DEF Slice

\* Every port from 1 on lies in some slice.
LEMMA SlicesCover ==
    ASSUME NEW p \in 1..MaxPort
    PROVE  \E i \in Workers : p \in Slice(i)
<1> DEFINE c == PortsPerProcess
           q == (p - 1) \div c
<1>1. /\ c \in Nat \ {0} /\ p - 1 \in Nat /\ Procs \in Nat \ {0}
      /\ LastWorker \in Workers /\ MaxPort \in Nat /\ LastWorker = Procs - 1
  BY SlicesAssumption, PerProcess DEF LastWorker, Workers
<1>2. q \in Nat /\ c * q <= p - 1 /\ p - 1 < c * q + c
  BY <1>1, Division
<1> HIDE DEF c, q
<1>3. CASE q < LastWorker
  <2>1. q \in Workers /\ q # LastWorker
    BY <1>1, <1>2, <1>3 DEF Workers
  <2>2. StartPort(q) = q * c + 1 /\ EndPort(q) = (q + 1) * c
    BY <2>1, SliceBounds DEF c
  <2>3. q * c = c * q /\ (q + 1) * c = c * q + c /\ c * q \in Nat
    BY <1>1, <1>2
  <2>4. p \in Slice(q)
    BY <1>1, <1>2, <2>2, <2>3 DEF Slice
  <2> QED
    BY <2>1, <2>4
<1>4. CASE q >= LastWorker
  <2>1. StartPort(LastWorker) = LastWorker * c + 1 /\ EndPort(LastWorker) = MaxPort
    BY <1>1, SliceBounds DEF c
  <2>2. LastWorker * c <= q * c /\ LastWorker * c \in Nat /\ q * c = c * q
    BY <1>1, <1>2, <1>4, Product
  <2>3. p \in Slice(LastWorker)
    BY <1>1, <1>2, <2>1, <2>2 DEF Slice
  <2> QED
    BY <1>1, <2>3
<1> QED
  BY <1>1, <1>2, <1>3, <1>4

\* run_master's slices partition the ports 1..MaxPort.
LEMMA Partition == SlicesPartition
<1>1. \A i \in Workers : Slice(i) \subseteq 1..MaxPort
  BY SliceBounds, SlicesAssumption DEF Slice
<1>2. UNION {Slice(i) : i \in Workers} = 1..MaxPort
  BY <1>1, SlicesCover
<1>3. ASSUME NEW i \in Workers, NEW j \in Workers, i # j
      PROVE  Slice(i) \cap Slice(j) = {}
  <2>1. i < j \/ j < i
    BY <1>3, SlicesAssumption DEF Workers
  <2> QED
    BY <2>1, SlicesDisjoint
<1> QED
  BY <1>2, <1>3 DEF SlicesPartition

-----------------------------------------------------------------------------
(* The inductive invariant.                                                *)

\* The last worker's loop condition is always true, so it never finishes.
LastRuns == proc[LastWorker] # "finished"

\* Inside a slice that ends before MaxPort the counter does not wrap.
Progress == \A w \in Workers :
    /\ w >= next => proc[w] = "absent"
    /\ proc[w] \in {"absent", "setup"} => sent[w] = {}
    /\ proc[w] = "loop" /\ w # LastWorker =>
          port[w] \in StartPort(w)..(EndPort(w) + 1)
    /\ proc[w] = "finished" => w # LastWorker /\ port[w] = EndPort(w) + 1

IInv == TypeOK /\ LastRuns /\ Progress /\ AscendingOnce /\ FinishedCoversSlice
          /\ ReportNeedsFailure

\* What the proofs use of the constants.
LEMMA WorkerFacts ==
    /\ LastWorker \in Workers /\ Procs \in Nat \ {0} /\ MaxPort \in Nat
    /\ Workers \subseteq Nat
  BY SlicesAssumption DEF LastWorker, Workers

\* The inductive invariant holds initially.
LEMMA InitInv == Init => IInv
  BY WorkerFacts DEF Init, IInv, TypeOK, LastRuns, Progress, AscendingOnce,
     FinishedCoversSlice, ReportNeedsFailure, Ports

\* The steps that leave the workers' states alone.
LEMMA WorkersFrame ==
    ASSUME LastRuns, Progress, AscendingOnce, FinishedCoversSlice,
           UNCHANGED <<next, proc, port, sent>>
    PROVE  LastRuns' /\ Progress' /\ AscendingOnce' /\ FinishedCoversSlice'
  BY DEF LastRuns, Progress, AscendingOnce, FinishedCoversSlice

\* Spawn preserves it.
LEMMA SpawnInv == IInv /\ Spawn => IInv'
<1> SUFFICES ASSUME IInv, Spawn PROVE IInv'
  OBVIOUS
<1> USE WorkerFacts DEF IInv
<1>1. next \in Workers /\ next' = next + 1 /\ proc[next] = "absent"
  BY DEF Spawn, TypeOK, Workers, Progress
<1>2. TypeOK' /\ LastRuns' /\ ReportNeedsFailure'
  BY <1>1 DEF Spawn, TypeOK, LastRuns, ReportNeedsFailure
<1>3. /\ UNCHANGED <<port, sent>>
      /\ \A w \in Workers \ {next} : proc'[w] = proc[w]
      /\ proc'[next] \in {"absent", "setup"}
  BY <1>1 DEF Spawn, TypeOK
<1>4. Progress'
  BY <1>1, <1>3 DEF Progress, TypeOK
<1>5. AscendingOnce' /\ FinishedCoversSlice'
  BY <1>1, <1>3 DEF AscendingOnce, FinishedCoversSlice
<1> QED
  BY <1>2, <1>4, <1>5

\* So do the other steps of the master, and stuttering.
LEMMA RestOfMasterInv ==
    IInv /\ (SpawnedAll \/ Wait \/ Report \/ UNCHANGED vars) => IInv'
<1> SUFFICES ASSUME IInv, SpawnedAll \/ Wait \/ Report \/ UNCHANGED vars
             PROVE  IInv'
  OBVIOUS
<1> USE WorkerFacts DEF IInv
<1>1. UNCHANGED <<next, proc, port, sent>>
  BY DEF SpawnedAll, Wait, Report, vars
<1>2. TypeOK'
  BY DEF SpawnedAll, Wait, Report, vars, TypeOK
<1>3. ReportNeedsFailure'
  <2>1. CASE Wait
    BY <2>1 DEF Wait, WaitReturns, Exited, ReportNeedsFailure, LastRuns, TypeOK
  <2>2. CASE SpawnedAll \/ Report \/ UNCHANGED vars
    BY <2>2 DEF SpawnedAll, Report, vars, ReportNeedsFailure, TypeOK
  <2> QED
    BY <2>1, <2>2
<1> QED
  BY <1>1, <1>2, <1>3, WorkersFrame

\* Setup preserves it.
LEMMA SetupInv == ASSUME NEW w \in Workers PROVE IInv /\ Setup(w) => IInv'
<1> SUFFICES ASSUME IInv, Setup(w) PROVE IInv'
  OBVIOUS
<1> USE WorkerFacts DEF IInv
<1>1. StartPort(w) \in 1..EndPort(w) /\ EndPort(w) \in 1..MaxPort
  BY SliceBounds
<1>2. /\ proc[w] = "setup" /\ sent' = sent /\ UNCHANGED master /\ ~(w >= next)
      /\ \A v \in Workers \ {w} : proc'[v] = proc[v] /\ port'[v] = port[v]
      /\ \/ proc'[w] = "failed"
         \/ proc'[w] = "loop" /\ port'[w] = StartPort(w)
  BY DEF Setup, TypeOK, Progress
<1>3. TypeOK'
  BY <1>1 DEF Setup, TypeOK, Ports, master
<1>4. LastRuns' /\ ReportNeedsFailure'
  BY <1>2 DEF LastRuns, ReportNeedsFailure, master
<1>5. Progress' /\ FinishedCoversSlice'
  BY <1>1, <1>2 DEF Progress, FinishedCoversSlice, master
<1>6. AscendingOnce'
  <2>1. sent[w] = {} /\ StartPort(w)..(StartPort(w) - 1) = {}
    BY <1>1, <1>2 DEF Progress
  <2> QED
    BY <1>2, <2>1 DEF AscendingOnce
<1> QED
  BY <1>3, <1>4, <1>5, <1>6

\* Send preserves it.
LEMMA SendInv == ASSUME NEW w \in Workers PROVE IInv /\ Send(w) => IInv'
<1> SUFFICES ASSUME IInv, Send(w) PROVE IInv'
  OBVIOUS
<1> USE WorkerFacts DEF IInv
<1>1. /\ proc[w] = "loop" /\ UNCHANGED <<mpc, next, handle, proc>>
      /\ port[w] \in Ports /\ port[w] <= EndPort(w)
      /\ port'[w] = U16(port[w] + 1)
      /\ sent'[w] = sent[w] \union ({port[w]} \ {0})
      /\ \A v \in Workers \ {w} : port'[v] = port[v] /\ sent'[v] = sent[v]
  BY DEF Send, MoreToSend, TypeOK, master
<1>2. TypeOK'
  <2>1. U16(port[w] + 1) \in Ports
    BY <1>1, U16Type DEF Ports
  <2> QED
    BY <1>1, <2>1 DEF Send, TypeOK, Ports
<1>3. w # LastWorker => /\ port[w] \in StartPort(w)..EndPort(w)
                  /\ port'[w] = port[w] + 1
                  /\ sent'[w] = StartPort(w)..port[w]
  <2>1. SUFFICES ASSUME w # LastWorker
                 PROVE  /\ port[w] \in StartPort(w)..EndPort(w)
                        /\ port'[w] = port[w] + 1
                        /\ sent'[w] = StartPort(w)..port[w]
    OBVIOUS
  <2>2. /\ StartPort(w) \in 1..MaxPort /\ EndPort(w) \in 1..MaxPort
        /\ EndPort(w) < MaxPort
    BY <2>1, SliceBounds
  <2>3. port[w] \in StartPort(w)..EndPort(w)
    BY <1>1, <2>1, <2>2 DEF Progress
  <2>4. port'[w] = port[w] + 1
    BY <1>1, <2>2, <2>3, U16Identity DEF Ports
  <2>5. sent[w] = StartPort(w)..(port[w] - 1)
    BY <1>1, <2>1 DEF AscendingOnce
  <2>6. sent'[w] = StartPort(w)..port[w]
    BY <1>1, <2>2, <2>3, <2>5
  <2> QED
    BY <2>3, <2>4, <2>6
<1>4. LastRuns' /\ ReportNeedsFailure'
  BY <1>1 DEF LastRuns, ReportNeedsFailure
<1>5. Progress' /\ FinishedCoversSlice'
  BY <1>1, <1>3, SliceBounds DEF Progress, FinishedCoversSlice
<1>6. AscendingOnce'
  <2>1. ASSUME NEW v \in Workers \ {LastWorker}, proc[v] = "loop"
        PROVE  sent'[v] = StartPort(v)..(port'[v] - 1)
    <3>1. CASE v = w
      <4>1. /\ port'[w] = port[w] + 1 /\ port[w] \in Int
            /\ sent'[w] = StartPort(w)..port[w]
        BY <1>1, <1>3, <2>1, <3>1 DEF Ports
      <4> QED
        BY <3>1, <4>1
    <3>2. CASE v # w
      BY <1>1, <2>1, <3>2 DEF AscendingOnce
    <3> QED
      BY <3>1, <3>2
  <2> QED
    BY <1>1, <2>1 DEF AscendingOnce
<1> QED
  BY <1>2, <1>4, <1>5, <1>6

\* Finish preserves it.
LEMMA FinishInv == ASSUME NEW w \in Workers PROVE IInv /\ Finish(w) => IInv'
<1> SUFFICES ASSUME IInv, Finish(w) PROVE IInv'
  OBVIOUS
<1> USE WorkerFacts DEF IInv
<1>1. /\ proc[w] = "loop" /\ UNCHANGED <<mpc, next, handle, port, sent>>
      /\ port[w] \in 0..MaxPort /\ ~(port[w] <= EndPort(w))
      /\ proc'[w] = "finished"
      /\ \A v \in Workers \ {w} : proc'[v] = proc[v]
  BY DEF Finish, MoreToSend, TypeOK, master, Ports
<1>2. w # LastWorker
  BY <1>1, SliceBounds
<1>3. port[w] = EndPort(w) + 1 /\ sent[w] = Slice(w)
  <2>1. port[w] \in StartPort(w)..(EndPort(w) + 1)
    BY <1>1, <1>2 DEF Progress
  <2>2. port[w] = EndPort(w) + 1
    BY <1>1, <2>1, SliceBounds
  <2>3. sent[w] = StartPort(w)..(port[w] - 1)
    BY <1>1, <1>2 DEF AscendingOnce
  <2> QED
    BY <2>2, <2>3, SliceBounds DEF Slice
<1>4. TypeOK' /\ LastRuns'
  BY <1>1, <1>2 DEF Finish, TypeOK, LastRuns, master
<1>5. Progress'
  BY <1>1, <1>2, <1>3 DEF Progress
<1>6. AscendingOnce' /\ FinishedCoversSlice'
  BY <1>1, <1>3 DEF AscendingOnce, FinishedCoversSlice
<1>7. ReportNeedsFailure'
  BY <1>1 DEF ReportNeedsFailure
<1> QED
  BY <1>4, <1>5, <1>6, <1>7

\* Every step preserves the inductive invariant.
LEMMA StepInv == IInv /\ [Next]_vars => IInv'
<1> SUFFICES ASSUME IInv, [Next]_vars PROVE IInv'
  OBVIOUS
<1>1. CASE Master
  BY <1>1, SpawnInv, RestOfMasterInv DEF Master
<1>2. CASE \E w \in Workers : Worker(w)
  BY <1>2, SetupInv, SendInv, FinishInv DEF Worker
<1>3. CASE Done \/ UNCHANGED vars
  BY <1>3, RestOfMasterInv DEF Done
<1> QED
  BY <1>1, <1>2, <1>3 DEF Next

\* It is an invariant.
LEMMA Invariance == Spec => []IInv
  BY InitInv, StepInv, PTL DEF Spec

-----------------------------------------------------------------------------
(* The theorems.                                                           *)

\* The state of natghost_forge keeps its type.
THEOREM TypeCorrect == Spec => []TypeOK
<1>1. IInv => TypeOK
  BY DEF IInv
<1> QED
  BY <1>1, Invariance, PTL

\* run_master hands out slices that partition the ports 1..MaxPort (l.57-58).
THEOREM SlicesArePartition == Spec => []SlicesPartition
  BY Partition, PTL

\* A worker that leaves run_worker's loop has tried exactly its slice, and
\* a worker in the loop has tried what it has passed, each port once.
THEOREM WorkersCoverSlices == Spec => [](FinishedCoversSlice /\ AscendingOnce)
<1>1. IInv => FinishedCoversSlice /\ AscendingOnce
  BY DEF IInv
<1> QED
  BY <1>1, Invariance, PTL

\* For every port space and every number of processes, run_master prints its
\* report only when a worker was not started or failed: a wave in which all
\* is well is never reported.
THEOREM ReportOnlyAfterFailure == Spec => []ReportNeedsFailure
<1>1. IInv => ReportNeedsFailure
  BY DEF IInv
<1> QED
  BY <1>1, Invariance, PTL
-----------------------------------------------------------------------------
(***************************************************************************)
(* Blocks of tasks for the machines of the pool.                           *)
(***************************************************************************)

-----------------------------------------------------------------------------
(* Arithmetic of the layout.                                               *)

\* Quotient and remainder are the only numbers that make up a number so.
LEMMA Quotient ==
    ASSUME NEW d \in Nat \ {0}, NEW i \in Nat, NEW f \in 0..(d - 1)
    PROVE  /\ i * d + f \in Nat
           /\ (i * d + f) \div d = i
           /\ (i * d + f) % d = f
<1> DEFINE k == i * d + f
           q == k \div d
           r == k % d
<1>1. k \in Nat
  BY Product
<1>2. q \in Nat /\ r \in 0..(d - 1) /\ k = d * q + r
  BY <1>1, Division
<1> HIDE DEF q, r
<1>3. i * d + f = q * d + r
  BY <1>2
<1>4. ~(q < i)
  <2>1. SUFFICES ASSUME q < i PROVE FALSE
    OBVIOUS
  <2>2. (q + 1) * d <= i * d /\ (q + 1) * d = q * d + d
    BY <1>2, <2>1, Product
  <2>3. q * d \in Nat /\ i * d \in Nat
    BY <1>2, Product
  <2> QED
    BY <1>2, <1>3, <2>2, <2>3
<1>5. ~(i < q)
  <2>1. SUFFICES ASSUME i < q PROVE FALSE
    OBVIOUS
  <2>2. (i + 1) * d <= q * d /\ (i + 1) * d = i * d + d
    BY <1>2, <2>1, Product
  <2>3. q * d \in Nat /\ i * d \in Nat
    BY <1>2, Product
  <2> QED
    BY <1>2, <1>3, <2>2, <2>3
<1>6. q = i
  BY <1>2, <1>4, <1>5
<1>7. r = f
  BY <1>2, <1>3, <1>6, Product
<1> QED
  BY <1>1, <1>6, <1>7 DEF q, r

\* The sizes of the layout for n machines.
LEMMA Sizes ==
    ASSUME NEW n \in Counts
    PROVE  /\ n \in Nat \ {0}
           /\ EachTask(n) \in Nat /\ n * EachTask(n) \in Nat
           /\ n * EachTask(n) = Overall - (Overall % n)
           /\ n * EachTask(n) <= Overall
           /\ BlockSize(n) \in Nat \ {0}
           /\ BlockSize(n) = EachTask(n) + 2
           /\ TotalSize(n) \in Nat
           /\ TotalSize(n) = n * EachTask(n) + 2 * n
           /\ TotalSize(n) \in 0..Largest
<1> DEFINE e == EachTask(n)
           r == Overall % n
<1>1. n \in Nat \ {0} /\ n <= MaxCount /\ MaxCount \in Nat /\ Overall \in Nat
  BY SizesAssumption DEF Counts
<1>2. e \in Nat /\ r \in 0..(n - 1) /\ Overall = n * e + r
  BY <1>1, Division DEF EachTask
<1>3. BlockSize(n) = e + 2
  BY <1>2 DEF BlockSize
<1>4. TotalSize(n) = (e + 2) * n
  BY <1>3 DEF TotalSize
<1> HIDE DEF e, r
<1>5. n * e \in Nat /\ (e + 2) * n = n * e + 2 * n
  <2>1. n * e \in Nat
    BY <1>1, <1>2, Product
  <2>2. (e + 2) * n = n * e + 2 * n
    BY <1>1, <1>2
  <2> QED
    BY <2>1, <2>2
<1>6. n * e = Overall - r /\ n * e <= Overall
  BY <1>1, <1>2, <1>5
<1>7. (e + 2) * n \in 0..Largest
  BY <1>1, <1>5, <1>6 DEF Largest
<1> QED
  BY <1>1, <1>2, <1>3, <1>4, <1>5, <1>6, <1>7 DEF e, r

\* The word at field f of block i, and that it lies in the layout.
LEMMA Field ==
    ASSUME NEW n \in Counts, NEW i \in 0..(n - 1), NEW f \in 0..(BlockSize(n) - 1)
    PROVE  /\ i * BlockSize(n) + f \in 0..(TotalSize(n) - 1)
           /\ f = 0 => WordAt(n, i * BlockSize(n) + f) = i
           /\ f = 1 => WordAt(n, i * BlockSize(n) + f) = EachTask(n)
           /\ f > 1 => WordAt(n, i * BlockSize(n) + f) = i * EachTask(n) + f - 1
<1> DEFINE b == BlockSize(n)
           k == i * b + f
<1>1. /\ n \in Nat \ {0} /\ b \in Nat \ {0} /\ i \in Nat /\ i + 1 <= n
      /\ f \in 0..(b - 1) /\ TotalSize(n) = b * n
  BY Sizes DEF TotalSize
<1>2. k \div BlockSize(n) = i /\ k % BlockSize(n) = f /\ k \in Nat
  BY <1>1, Quotient
<1>3. k \in 0..(TotalSize(n) - 1)
  <2> HIDE DEF b
  <2>1. (i + 1) * b <= n * b /\ i * b \in Nat /\ n * b \in Nat
    BY <1>1, Product
  <2>2. (i + 1) * b = i * b + b /\ n * b = b * n
    BY <1>1
  <2> QED
    BY <1>1, <2>1, <2>2
<1> HIDE DEF k
<1>4. /\ f = 0 => WordAt(n, k) = i
      /\ f = 1 => WordAt(n, k) = EachTask(n)
      /\ f > 1 => WordAt(n, k) = i * EachTask(n) + f - 1
  BY <1>1, <1>2 DEF WordAt
<1> QED
  BY <1>3, <1>4 DEF k, b

\* What the writer writes is a word.
LEMMA WordType ==
    ASSUME NEW n \in Counts, NEW k \in 0..(TotalSize(n) - 1)
    PROVE  WordAt(n, k) \in Words
<1> DEFINE b == BlockSize(n)
           i == k \div b
           f == k % b
           e == EachTask(n)
<1>1. /\ n \in Nat \ {0} /\ b \in Nat \ {0} /\ k \in Nat /\ e \in Nat
      /\ k < b * n /\ b = e + 2 /\ n * e <= Overall /\ n * e \in Nat
      /\ n <= MaxCount /\ MaxCount \in Nat /\ Overall \in Nat
  BY Sizes, SizesAssumption DEF TotalSize, Counts
<1>2. i \in Nat /\ f \in 0..(b - 1) /\ k = b * i + f
  BY <1>1, Division
<1> HIDE DEF b, i, f, e
<1>3. i + 1 <= n
  <2>1. SUFFICES ASSUME n <= i PROVE FALSE
    BY <1>1, <1>2
  <2>2. n * b <= i * b /\ n * b = b * n /\ i * b = b * i /\ i * b \in Nat
    BY <1>1, <1>2, <2>1, Product
  <2> QED
    BY <1>1, <1>2, <2>2
<1>4. i * e + e <= n * e /\ i * e \in Nat /\ e <= n * e
  <2>1. (i + 1) * e <= n * e /\ i * e \in Nat
    BY <1>1, <1>2, <1>3, Product
  <2>2. (i + 1) * e = i * e + e
    BY <1>1, <1>2
  <2> QED
    BY <1>1, <2>1, <2>2
<1>5. WordAt(n, k) = CASE f = 0 -> i [] f = 1 -> e [] OTHER -> i * e + f - 1
  BY DEF WordAt, b, i, f, e
<1>6. CASE f = 0
  BY <1>1, <1>2, <1>3, <1>5, <1>6 DEF Words, Largest
<1>7. CASE f = 1
  BY <1>1, <1>2, <1>4, <1>5, <1>7 DEF Words, Largest
<1>8. CASE f # 0 /\ f # 1
  <2>1. WordAt(n, k) = i * e + f - 1
    BY <1>5, <1>8
  <2>2. i * e + f - 1 \in 0..(n * e)
    BY <1>1, <1>2, <1>4, <1>8
  <2> QED
    BY <1>1, <2>1, <2>2 DEF Words, Largest
<1> QED
  BY <1>6, <1>7, <1>8

\* The pages of a segment hold all its words.
LEMMA PagesHold ==
    ASSUME NEW w \in Nat
    PROVE  w <= PageWords * Pages(w)
<1> DEFINE m == w + PageWords - 1
           q == m \div PageWords
<1>1. PageWords \in Nat \ {0} /\ m \in Nat
  BY SizesAssumption
<1>2. /\ q \in Nat /\ m % PageWords \in 0..(PageWords - 1)
      /\ m = PageWords * q + (m % PageWords)
  BY <1>1, Division
<1>3. Pages(w) = q
  BY DEF Pages
<1> HIDE DEF q
<1>4. PageWords * q \in Nat
  BY <1>1, <1>2, Product
<1> QED
  BY <1>1, <1>2, <1>3, <1>4

-----------------------------------------------------------------------------
(* Types.                                                                  *)

\* What the proofs use of the sizes of the pool.
LEMMA LargestType == Largest \in Nat /\ 0 \in Words /\ 1 \in Counts
  BY SizesAssumption DEF Largest, Words, Counts

\* What the reader finds at a place of its block, whoever wrote it.
LEMMA ReadType ==
    ASSUME PoolTypeOK, NEW k \in Nat
    PROVE  Word(k) \in Words
<1>1. size \in Int /\ size <= Largest
  BY LargestType, Sizes DEF PoolTypeOK
<1> QED
  BY <1>1, LargestType DEF PoolTypeOK, Word

\* The reader's block begins at a place.
LEMMA BlockType ==
    ASSUME PoolTypeOK
    PROVE  Block \in Nat
<1>1. BlockSize(rCount) \in Nat /\ rId \in Nat
  BY Sizes DEF PoolTypeOK, Counts
<1> QED
  BY <1>1, Product DEF Block

\* Types are kept by every step.
LEMMA PoolTypeStep ==
    ASSUME PoolTypeOK, [PoolNext]_poolVars
    PROVE  PoolTypeOK'
<1> USE DEF PoolTypeOK
<1>1. CASE OpenTruncated
  <2>1. writes' \in 0..MaxWrites
    BY <1>1, SizesAssumption DEF OpenTruncated
  <2>2. mem' \in [0..(Largest - 1) -> Words]
    BY <1>1, LargestType DEF OpenTruncated
  <2>3. size' = 0 /\ wPos' = 0 /\ wPos' \in 0..Largest
    BY <1>1, LargestType DEF OpenTruncated
  <2>4. /\ wpc' = "opened" /\ wCount' \in Counts /\ settled' = 0 /\ calm' = FALSE
        /\ UNCHANGED <<rpc, rCount, rId, gotId, gotTasks>>
    BY <1>1 DEF OpenTruncated, reader
  <2> QED
    BY <2>1, <2>2, <2>3, <2>4
<1>2. CASE Resize
  BY <1>2 DEF Resize, reader
<1>3. CASE Fill
  <2>1. wCount \in Counts /\ wPos \in Nat /\ wPos < TotalSize(wCount)
    BY <1>3, LargestType DEF Fill
  <2>2. TotalSize(wCount) \in 0..Largest
    BY <2>1, Sizes
  <2>3. wPos \in 0..(TotalSize(wCount) - 1) /\ TotalSize(wCount) \in 0..Largest
    BY <2>1, <2>2, LargestType
  <2>4. wPos + 1 \in 0..Largest
    BY <2>3, LargestType
  <2>5. WordAt(wCount, wPos) \in Words
    BY <2>3, WordType
  <2>6. mem' \in [0..(Largest - 1) -> Words]
    BY <1>3, <2>5 DEF Fill
  <2> QED
    BY <1>3, <2>4, <2>6 DEF Fill, reader
<1>4. CASE Filled
  BY <1>4 DEF Filled, reader
<1>5. CASE WriterStops
  BY <1>5 DEF WriterStops, reader
<1>6. CASE OpenToRead
  BY <1>6, LargestType DEF OpenToRead
<1>7. CASE ReadId
  BY <1>7, BlockType, ReadType DEF ReadId, Fault
<1>8. CASE ReadCount
  BY <1>8 DEF ReadCount, Fault
<1>9. CASE ReadTask
  <2>1. Block + 2 + Len(gotTasks) \in Nat
    BY BlockType
  <2>2. Word(Block + 2 + Len(gotTasks)) \in Words
    BY <2>1, ReadType
  <2>3. gotTasks' \in Seq(Words)
    BY <1>9, <2>2 DEF ReadTask, Fault
  <2> QED
    BY <1>9, <2>3 DEF ReadTask, Fault
<1>10. CASE UNCHANGED poolVars
  BY <1>10 DEF poolVars
<1> QED
  BY <1>1, <1>2, <1>3, <1>4, <1>5, <1>6, <1>7, <1>8, <1>9, <1>10
     DEF PoolNext, Writer, Reader

\* PoolTypeOK holds initially.
LEMMA PoolStarts ==
    ASSUME PoolInit
    PROVE  PoolTypeOK
<1>1. mem \in [0..(Largest - 1) -> Words]
  BY LargestType DEF PoolInit
<1>2. /\ wCount \in Counts /\ rCount \in Counts /\ rId \in 0..(rCount - 1)
      /\ wPos \in 0..Largest /\ writes \in 0..MaxWrites /\ gotId \in Words
      /\ gotTasks \in Seq(Words)
  BY LargestType, SizesAssumption DEF PoolInit
<1> QED
  BY <1>1, <1>2 DEF PoolInit, PoolTypeOK

\* Every variable keeps to its type; the segment has room for a whole layout
\* of the writer's or is empty.
THEOREM PoolTypes == PoolSpec => []PoolTypeOK
<1>1. PoolInit => PoolTypeOK
  BY PoolStarts
<1>2. PoolTypeOK /\ [PoolNext]_poolVars => PoolTypeOK'
  BY PoolTypeStep
<1> QED
  BY <1>1, <1>2, PTL DEF PoolSpec

-----------------------------------------------------------------------------
(* The layout in the segment.                                              *)

\* The words below w are those of the layout for n machines.
Holds(n, w) == \A k \in 0..(w - 1) : mem[k] = WordAt(n, k)

\* A writer at work has written what it has passed; nothing counts as
\* settled until it is through.
Filling == /\ wpc # "idle" => settled = 0
           /\ wpc = "opened" => wPos = 0
           /\ wpc = "filling" => /\ size = TotalSize(wCount)
                                 /\ Holds(wCount, wPos)

\* A settled segment holds a whole layout.
Settled == settled > 0 => /\ size = TotalSize(settled)
                          /\ Holds(settled, TotalSize(settled))

\* Every step keeps the layout of the pool while it is filled, and once it is.
LEMMA LayoutStep ==
    ASSUME PoolTypeOK, Filling, Settled, [PoolNext]_poolVars
    PROVE  Filling' /\ Settled'
<1> USE DEF PoolTypeOK, Filling, Settled
<1>1. CASE OpenTruncated
  BY <1>1 DEF OpenTruncated
<1>2. CASE Resize
  <2>1. Holds(wCount, wPos)'
    BY <1>2 DEF Resize, Holds
  <2> QED
    BY <1>2, <2>1 DEF Resize, reader
<1>3. CASE Fill
  <2>1. wPos \in Nat /\ wPos \in DOMAIN mem
    BY <1>3, Sizes, LargestType DEF Fill
  <2>2. /\ wCount' = wCount /\ wPos' = wPos + 1
        /\ mem' = [mem EXCEPT ![wPos] = WordAt(wCount, wPos)]
    BY <1>3 DEF Fill
  <2>3. Holds(wCount, wPos)
    BY <1>3 DEF Fill
  <2>4. ASSUME NEW k \in 0..wPos
        PROVE  mem'[k] = WordAt(wCount, k)
    <3>1. CASE k = wPos
      BY <2>1, <2>2, <3>1
    <3>2. CASE k # wPos
      <4>1. k \in 0..(wPos - 1)
        BY <2>1, <3>2
      <4> QED
        BY <2>2, <2>3, <3>2, <4>1 DEF Holds
    <3> QED
      BY <3>1, <3>2
  <2>5. Holds(wCount, wPos)'
    BY <2>1, <2>2, <2>4 DEF Holds
  <2> QED
    BY <1>3, <2>5 DEF Fill
<1>4. CASE Filled
  <2>1. /\ size' = TotalSize(settled') /\ mem' = mem /\ settled' = wCount
        /\ Holds(wCount, TotalSize(wCount))
    BY <1>4 DEF Filled
  <2>2. Holds(settled, TotalSize(settled))'
    BY <2>1 DEF Holds
  <2> QED
    BY <1>4, <2>1, <2>2 DEF Filled
<1>5. CASE WriterStops
  BY <1>5, Sizes DEF WriterStops
<1>6. CASE Reader \/ UNCHANGED poolVars
  <2>1. UNCHANGED <<size, mem, wpc, wCount, wPos, settled>>
    BY <1>6 DEF Reader, OpenToRead, ReadId, ReadCount, ReadTask, poolVars
  <2>2. Holds(wCount, wPos)' <=> Holds(wCount, wPos)
    BY <2>1 DEF Holds
  <2>3. Holds(settled, TotalSize(settled))' <=> Holds(settled, TotalSize(settled))
    BY <2>1 DEF Holds
  <2> QED
    BY <2>1, <2>2, <2>3
<1> QED
  BY <1>1, <1>2, <1>3, <1>4, <1>5, <1>6 DEF PoolNext, Writer

\* The tasks of a machine in a settled segment.
LEMMA TasksOfMachine ==
    ASSUME PoolTypeOK, Settled, settled > 0, NEW i \in 0..(settled - 1)
    PROVE  TasksOf(settled, i)
             = {i * EachTask(settled) + 1 + j : j \in 0..(EachTask(settled) - 1)}
<1> DEFINE e == EachTask(settled)
           b == BlockSize(settled)
<1>1. settled \in Counts /\ Holds(settled, TotalSize(settled))
  BY DEF PoolTypeOK, Settled
<1>2. e \in Nat /\ b = e + 2 /\ i \in Nat /\ i * b \in Nat /\ i * e \in Nat
  BY <1>1, Sizes, Product
<1>3. ASSUME NEW j \in 0..(e - 1)
      PROVE  mem[i * b + 2 + j] = i * e + 1 + j
  <2>1. 2 + j \in 0..(b - 1) /\ 2 + j > 1
    BY <1>2
  <2>2. /\ i * b + (2 + j) \in 0..(TotalSize(settled) - 1)
        /\ WordAt(settled, i * b + (2 + j)) = i * e + (2 + j) - 1
    BY <1>1, <2>1, Field
  <2>3. mem[i * b + (2 + j)] = i * e + (2 + j) - 1
    BY <1>1, <2>2 DEF Holds
  <2>4. i * b + (2 + j) = i * b + 2 + j /\ i * e + (2 + j) - 1 = i * e + 1 + j
    <3> HIDE DEF e, b
    <3> QED BY <1>2
  <2> QED
    BY <2>3, <2>4
<1> HIDE DEF e, b
<1>4. TasksOf(settled, i) = {mem[i * b + 2 + j] : j \in 0..(e - 1)}
  BY DEF TasksOf, e, b
<1>5. TasksOf(settled, i) = {i * e + 1 + j : j \in 0..(e - 1)}
  BY <1>3, <1>4
<1> QED
  BY <1>5 DEF e

\* Every task that is dealt is dealt to one machine.
LEMMA Dealt ==
    ASSUME PoolTypeOK, Settled
    PROVE  TasksDealtOnce
<1> SUFFICES ASSUME settled > 0
             PROVE  /\ UNION {TasksOf(settled, i) : i \in 0..(settled - 1)}
                         = 1..(Overall - (Overall % settled))
                    /\ \A i, j \in 0..(settled - 1) :
                          i # j => TasksOf(settled, i) \cap TasksOf(settled, j) = {}
  BY DEF TasksDealtOnce
<1> DEFINE n == settled
           e == EachTask(settled)
           T(i) == TasksOf(settled, i)
           last == Overall - (Overall % settled)
<1>1. settled \in Counts
  BY DEF PoolTypeOK
<1>2. n \in Nat \ {0} /\ e \in Nat /\ n * e \in Nat /\ last = n * e
  BY <1>1, Sizes
<1>3. ASSUME NEW i \in 0..(n - 1)
      PROVE  T(i) = {i * e + 1 + j : j \in 0..(e - 1)}
  BY <1>3, TasksOfMachine
<1> HIDE DEF n, e, T, last
<1>4. ASSUME NEW i \in 0..(n - 1), NEW t \in T(i)
      PROVE  t \in Int /\ i * e < t /\ t <= i * e + e
  <2>1. PICK j \in 0..(e - 1) : t = i * e + 1 + j
    BY <1>3, <1>4
  <2>2. i * e \in Nat
    BY <1>2, Product
  <2> QED
    BY <1>2, <2>1, <2>2
<1>5. ASSUME NEW i \in 0..(n - 1)
      PROVE  i * e \in Nat /\ i * e + e <= n * e
  <2>1. (i + 1) * e <= n * e /\ (i + 1) * e = i * e + e
    BY <1>2, Product
  <2> QED
    BY <1>2, <2>1, Product
<1>6. ASSUME NEW i \in 0..(n - 1), NEW t \in T(i)
      PROVE  t \in 1..last
  BY <1>2, <1>4, <1>5
<1>7. ASSUME NEW t \in 1..last
      PROVE  \E i \in 0..(n - 1) : t \in T(i)
  <2> DEFINE i == (t - 1) \div e
             j == (t - 1) % e
  <2>1. e # 0
    <3>1. e = 0 => n * e = 0
      BY <1>2
    <3> QED
      BY <1>2, <1>7, <3>1
  <2>2. i \in Nat /\ j \in 0..(e - 1) /\ t - 1 = e * i + j
    <3>1. t - 1 \in Nat /\ e \in Nat \ {0}
      BY <1>2, <2>1
    <3> QED
      BY <3>1, Division
  <2> HIDE DEF i, j
  <2>3. i * e \in Nat /\ t = i * e + 1 + j
    BY <1>2, <2>2, Product
  <2>4. i < n
    <3>1. SUFFICES ASSUME n <= i PROVE FALSE
      BY <1>2, <2>2
    <3>2. n * e <= i * e
      BY <1>2, <2>2, <3>1, Product
    <3> QED
      BY <1>2, <2>2, <2>3, <3>2
  <2>5. i \in 0..(n - 1)
    BY <1>2, <2>2, <2>4
  <2>6. t \in T(i)
    BY <1>3, <2>2, <2>3, <2>5
  <2> QED
    BY <2>5, <2>6
<1>8. ASSUME NEW i \in 0..(n - 1), NEW k \in 0..(n - 1), i < k
      PROVE  T(i) \cap T(k) = {}
  <2>1. (i + 1) * e <= k * e /\ (i + 1) * e = i * e + e /\ i * e \in Nat /\ k * e \in Nat
    BY <1>2, <1>8, Product
  <2> QED
    BY <1>2, <1>4, <2>1
<1>9. UNION {T(i) : i \in 0..(n - 1)} = 1..last
  BY <1>6, <1>7
<1>10. \A i, k \in 0..(n - 1) : i # k => T(i) \cap T(k) = {}
  <2> TAKE i, k \in 0..(n - 1)
  <2> HAVE i # k
  <2>1. CASE i < k
    BY <1>8, <2>1
  <2>2. CASE k < i
    BY <1>8, <2>2
  <2> QED
    BY <1>2, <2>1, <2>2
<1> QED
  BY <1>9, <1>10 DEF n, T, last

\* A complete layout deals every task but the remainder to one machine
\* (memory_map.c l.51-59).
THEOREM EveryTaskDealtOnce == PoolSpec => []TasksDealtOnce
<1>1. PoolInit => Filling /\ Settled
  BY DEF PoolInit, Filling, Settled
<1>2. PoolTypeOK /\ Filling /\ Settled /\ [PoolNext]_poolVars => (Filling /\ Settled)'
  BY LayoutStep
<1>3. PoolTypeOK /\ Settled => TasksDealtOnce
  BY Dealt
<1> QED
  BY <1>1, <1>2, <1>3, PoolTypes, PTL DEF PoolSpec

-----------------------------------------------------------------------------
(* The reader.                                                             *)

\* What a reader that nobody overtakes has printed at each of its steps.
Copied ==
    calm => /\ settled = rCount
            /\ rpc \in {"id", "loop", "task", "done"}
            /\ rpc = "id" => gotTasks = <<>>
            /\ rpc # "id" => gotId = rId
            /\ Len(gotTasks) <= EachTask(rCount)
            /\ rpc = "task" => Len(gotTasks) < EachTask(rCount)
            /\ rpc = "done" => Len(gotTasks) = EachTask(rCount)
            /\ \A j \in 1..Len(gotTasks) :
                  gotTasks[j] = rId * EachTask(rCount) + j

\* In a settled layout of the reader's, every word of its block can be read
\* and is the layout's.
LEMMA ReadsBlock ==
    ASSUME PoolTypeOK, Settled, settled = rCount, NEW f \in 0..(BlockSize(rCount) - 1)
    PROVE  /\ Readable(Block + f)
           /\ f = 0 => Word(Block + f) = rId
           /\ f = 1 => Word(Block + f) = EachTask(rCount)
           /\ f > 1 => Word(Block + f) = rId * EachTask(rCount) + f - 1
<1> DEFINE k == Block + f
<1>1. rCount \in Counts /\ rId \in 0..(rCount - 1) /\ rCount > 0
  BY DEF PoolTypeOK, Counts
<1>2. /\ size = TotalSize(rCount) /\ Holds(rCount, TotalSize(rCount))
      /\ TotalSize(rCount) \in Nat
  BY <1>1, Sizes DEF Settled
<1>3. /\ k \in 0..(TotalSize(rCount) - 1)
      /\ f = 0 => WordAt(rCount, k) = rId
      /\ f = 1 => WordAt(rCount, k) = EachTask(rCount)
      /\ f > 1 => WordAt(rCount, k) = rId * EachTask(rCount) + f - 1
  BY <1>1, Field DEF Block
<1> HIDE DEF k
<1>4. Word(k) = WordAt(rCount, k)
  BY <1>2, <1>3 DEF Word, Holds
<1>5. Readable(k)
  <2>1. TotalSize(rCount) <= PageWords * Pages(TotalSize(rCount))
    BY <1>2, PagesHold
  <2> DEFINE held == PageWords * Pages(TotalSize(rCount))
  <2>2. held \in Int
    BY <1>2, SizesAssumption DEF Pages
  <2> HIDE DEF held
  <2>3. k < held
    BY <1>2, <1>3, <2>1, <2>2 DEF held
  <2> QED
    BY <1>2, <2>3 DEF Readable, held
<1> QED
  BY <1>3, <1>4, <1>5 DEF k

\* Every step keeps what a reader copied in calm equal to its tasks.
LEMMA CopyStep ==
    ASSUME PoolTypeOK, Filling, Settled, Copied, [PoolNext]_poolVars
    PROVE  Copied'
<1> SUFFICES ASSUME calm' PROVE Copied'
  BY DEF Copied
<1> DEFINE e == EachTask(rCount)
<1>1. rCount \in Counts /\ rId \in Nat /\ e \in Nat /\ BlockSize(rCount) = e + 2
  BY Sizes DEF PoolTypeOK
<1>2. Block \in Nat
  BY BlockType
<1>3. gotTasks \in Seq(Words) /\ Len(gotTasks) \in Nat
  BY DEF PoolTypeOK
<1> USE DEF Copied
<1>4. CASE OpenTruncated
  BY <1>4 DEF OpenTruncated
<1>5. CASE Filled
  BY <1>1, <1>5 DEF Filled, Filling, Counts
<1>6. CASE Resize \/ Fill \/ WriterStops \/ UNCHANGED poolVars
  <2>1. UNCHANGED <<rpc, rCount, rId, gotId, gotTasks, settled, calm>>
    BY <1>6 DEF Resize, Fill, WriterStops, poolVars, reader
  <2> QED
    BY <2>1
<1>7. CASE OpenToRead
  <2>1. /\ rCount' \in Counts /\ rpc' = "id" /\ gotTasks' = <<>>
        /\ calm' = (settled = rCount') /\ settled' = settled
    BY <1>7 DEF OpenToRead
  <2>2. EachTask(rCount)' \in Nat
    BY <2>1, Sizes
  <2>3. Len(gotTasks') = 0 /\ 1..Len(gotTasks') = {}
    BY <2>1
  <2>4. settled' = rCount'
    BY <2>1
  <2> QED
    BY <2>1, <2>2, <2>3, <2>4
<1>8. CASE ReadId
  <2>1. /\ rpc = "id" /\ calm /\ settled = rCount
        /\ UNCHANGED <<rCount, rId, settled, calm>>
    BY <1>8 DEF ReadId
  <2>2. Readable(Block) /\ Word(Block) = rId
    <3>1. 0 \in 0..(BlockSize(rCount) - 1) /\ Block + 0 = Block
      BY <1>1, <1>2
    <3>2. Readable(Block + 0) /\ Word(Block + 0) = rId
      BY <2>1, <3>1, ReadsBlock
    <3> QED
      BY <3>1, <3>2
  <2>3. gotId' = rId /\ rpc' = "loop" /\ gotTasks' = gotTasks
    BY <1>8, <2>2 DEF ReadId
  <2> QED
    BY <1>1, <2>1, <2>3
<1>9. CASE ReadCount
  <2>1. /\ rpc = "loop" /\ calm /\ settled = rCount
        /\ UNCHANGED <<rCount, rId, settled, calm>>
    BY <1>9 DEF ReadCount
  <2>2. Readable(Block + 1) /\ Word(Block + 1) = e
    <3>1. 1 \in 0..(BlockSize(rCount) - 1)
      BY <1>1
    <3> QED
      BY <2>1, <3>1, ReadsBlock
  <2>3. /\ rpc' = IF Len(gotTasks) < e THEN "task" ELSE "done"
        /\ UNCHANGED <<gotId, gotTasks>>
    BY <1>9, <2>2 DEF ReadCount
  <2> QED
    BY <1>1, <1>3, <2>1, <2>3
<1>10. CASE ReadTask
  <2> DEFINE l == Len(gotTasks)
  <2>1. /\ rpc = "task" /\ calm /\ settled = rCount /\ l < e
        /\ UNCHANGED <<rCount, rId, settled, calm>>
    BY <1>10 DEF ReadTask
  <2>2. Readable(Block + 2 + l) /\ Word(Block + 2 + l) = rId * e + (l + 1)
    <3>1. /\ 2 + l \in 0..(BlockSize(rCount) - 1) /\ 2 + l > 1
          /\ Block + (2 + l) = Block + 2 + l
      BY <1>1, <1>2, <1>3, <2>1
    <3>2. Readable(Block + (2 + l)) /\ Word(Block + (2 + l)) = rId * e + (2 + l) - 1
      BY <2>1, <3>1, ReadsBlock
    <3>3. rId * e \in Nat
      BY <1>1, Product
    <3>4. rId * e + (2 + l) - 1 = rId * e + (l + 1)
      <4> HIDE DEF e, l
      <4> QED BY <1>3, <3>3 DEF l
    <3> QED
      BY <3>1, <3>2, <3>4
  <2>3. /\ gotTasks' = Append(gotTasks, rId * e + (l + 1))
        /\ rpc' = "loop" /\ gotId' = gotId
    BY <1>10, <2>2 DEF ReadTask
  <2>4. Len(gotTasks') = l + 1 /\ Len(gotTasks') <= e
    BY <1>1, <1>3, <2>1, <2>3
  <2>5. ASSUME NEW j \in 1..Len(gotTasks')
        PROVE  gotTasks'[j] = rId * e + j
    BY <1>3, <2>1, <2>3, <2>4
  <2> QED
    BY <2>1, <2>3, <2>4, <2>5
<1> QED
  BY <1>4, <1>5, <1>6, <1>7, <1>8, <1>9, <1>10 DEF PoolNext, Writer, Reader

\* Who printed the whole block printed the reader's tasks.
LEMMA CopiedIsBlock ==
    ASSUME PoolTypeOK, Copied
    PROVE  CalmReaderGetsBlock
<1> SUFFICES ASSUME calm, rpc = "done"
             PROVE  gotTasks = [j \in 1..EachTask(rCount) |->
                                  rId * EachTask(rCount) + j]
  BY DEF CalmReaderGetsBlock, Copied
<1>1. gotTasks \in Seq(Words) /\ Len(gotTasks) = EachTask(rCount)
  BY DEF PoolTypeOK, Copied
<1>2. \A j \in 1..EachTask(rCount) : gotTasks[j] = rId * EachTask(rCount) + j
  BY <1>1 DEF Copied
<1> QED
  BY <1>1, <1>2

\* A reader that uses the writer's vm_count and is not overtaken prints its
\* own block and never leaves the segment (map_reader.c l.44-50).
THEOREM CalmReaderIsRight == PoolSpec => []CalmReaderGetsBlock
<1>1. PoolInit => Filling /\ Settled /\ Copied
  BY DEF PoolInit, Filling, Settled, Copied
<1>2. /\ PoolTypeOK /\ Filling /\ Settled /\ Copied /\ [PoolNext]_poolVars
      => (Filling /\ Settled /\ Copied)'
  BY LayoutStep, CopyStep
<1>3. PoolTypeOK /\ Copied => CalmReaderGetsBlock
  BY CopiedIsBlock
<1> QED
  BY <1>1, <1>2, <1>3, PoolTypes, PTL DEF PoolSpec
=============================================================================
