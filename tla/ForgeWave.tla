----------------------------- MODULE ForgeWave -----------------------------
(***************************************************************************)
(* natghost_forge: a master process cuts the UDP port space into slices    *)
(* and starts one worker process per slice; each worker sends one forged   *)
(* datagram to every port of its slice; the master waits for the workers   *)
(* and reports that the wave is over.                                      *)
(*                                                                         *)
(* Ports are uint16_t in the code.  Here they are 0..MaxPort, and port     *)
(* arithmetic wraps at MaxPort + 1 as it does at 65536.                    *)
(***************************************************************************)
EXTENDS Integers, FiniteSets

CONSTANTS MaxPort,      \* total_ports_to_scan, the largest uint16_t
          Procs         \* PROCESS_COUNT

ASSUME SlicesAssumption == /\ MaxPort \in Nat
                           /\ Procs \in Nat \ {0}
                           /\ Procs <= MaxPort

Workers    == 0..(Procs - 1)
LastWorker == Procs - 1
Ports      == 0..MaxPort

\* A value assigned to a uint16_t.
U16(n) == n % (MaxPort + 1)

-----------------------------------------------------------------------------
(* Slices (run_master, l.43-58).                                           *)

PortsPerProcess == MaxPort \div Procs

StartPort(i) == U16(i * PortsPerProcess + 1)

\* A defective variant: the division's remainder belongs to nobody.
EvenEndPort(i) == U16((i + 1) * PortsPerProcess)

EndPort(i) == IF i = LastWorker THEN MaxPort ELSE U16((i + 1) * PortsPerProcess)

Slice(i) == StartPort(i)..EndPort(i)

-----------------------------------------------------------------------------
VARIABLES
    mpc,      \* the master: "spawn", "wait", "report" or "done"
    next,     \* i of the spawning loop
    handle,   \* process_handles: "unset", "null", "open" or "closed"
    proc,     \* each worker: "absent", "setup", "loop", "finished" or "failed"
    port,     \* port of each worker's loop
    sent      \* ports each worker has called sendto for

vars == <<mpc, next, handle, proc, port, sent>>
master == <<mpc, next, handle>>

Init == /\ mpc = "spawn"
        /\ next = 0
        /\ handle = [w \in Workers |-> "unset"]
        /\ proc = [w \in Workers |-> "absent"]
        /\ port = [w \in Workers |-> 0]
        /\ sent = [w \in Workers |-> {}]

-----------------------------------------------------------------------------
(* The master.                                                             *)

\* The spawning loop: CreateProcess may fail, which is printed and leaves
\* the handle NULL; the loop goes on.
Spawn == /\ mpc = "spawn"
         /\ next < Procs
         /\ \/ /\ handle' = [handle EXCEPT ![next] = "open"]
               /\ proc' = [proc EXCEPT ![next] = "setup"]
            \/ /\ handle' = [handle EXCEPT ![next] = "null"]
               /\ UNCHANGED proc
         /\ next' = next + 1
         /\ UNCHANGED <<mpc, port, sent>>

SpawnedAll == /\ mpc = "spawn"
              /\ next = Procs
              /\ mpc' = "wait"
              /\ UNCHANGED <<next, handle, proc, port, sent>>

Exited(w) == proc[w] \in {"finished", "failed"}

\* A defective variant: WaitForMultipleObjects with bWaitAll FALSE.
WaitAny == \E w \in Workers : handle[w] = "null" \/ Exited(w)

\* WaitForMultipleObjects(..., TRUE, INFINITE) returns when every process has
\* ended, and at once with WAIT_FAILED when a handle is NULL.
WaitReturns == \/ \E w \in Workers : handle[w] = "null"
               \/ \A w \in Workers : Exited(w)

\* The result of the wait is not looked at: the report is printed next.
Wait == /\ mpc = "wait"
        /\ WaitReturns
        /\ mpc' = "report"
        /\ UNCHANGED <<next, handle, proc, port, sent>>

\* Print the report, close the handles and return.  Closing a handle does
\* not stop its process.
Report == /\ mpc = "report"
          /\ handle' = [w \in Workers |-> IF handle[w] = "open" THEN "closed"
                                          ELSE handle[w]]
          /\ mpc' = "done"
          /\ UNCHANGED <<next, proc, port, sent>>

-----------------------------------------------------------------------------
(* A worker.                                                               *)

\* main and run_worker up to the loop: WSAStartup, socket or setsockopt may
\* fail, and the worker then ends without a word to the master.
Setup(w) == /\ proc[w] = "setup"
            /\ \/ /\ proc' = [proc EXCEPT ![w] = "loop"]
                  /\ port' = [port EXCEPT ![w] = StartPort(w)]
               \/ /\ proc' = [proc EXCEPT ![w] = "failed"]
                  /\ UNCHANGED port
            /\ UNCHANGED <<master, sent>>

\* A defective variant: the loop stops one port early.
StopBeforeEnd(w) == port[w] < EndPort(w)

\* The loop condition port <= end_port.
MoreToSend(w) == port[w] <= EndPort(w)

\* A defective variant: port 0 is not skipped.
SendPortZeroToo(w) == /\ proc[w] = "loop"
                      /\ MoreToSend(w)
                      /\ sent' = [sent EXCEPT ![w] = @ \union {port[w]}]
                      /\ port' = [port EXCEPT ![w] = U16(@ + 1)]
                      /\ UNCHANGED <<master, proc>>

\* One iteration: forge_udp_packet and sendto, whose result is ignored;
\* port 0 is skipped; port++ wraps.
Send(w) == /\ proc[w] = "loop"
           /\ MoreToSend(w)
           /\ sent' = [sent EXCEPT ![w] = @ \union ({port[w]} \ {0})]
           /\ port' = [port EXCEPT ![w] = U16(@ + 1)]
           /\ UNCHANGED <<master, proc>>

Finish(w) == /\ proc[w] = "loop"
             /\ ~MoreToSend(w)
             /\ proc' = [proc EXCEPT ![w] = "finished"]
             /\ UNCHANGED <<master, port, sent>>

-----------------------------------------------------------------------------
Master == Spawn \/ SpawnedAll \/ Wait \/ Report
Worker(w) == Setup(w) \/ Send(w) \/ Finish(w)

\* The master and, if any are left, the workers have ended.
Done == mpc = "done" /\ (\A w \in Workers : proc[w] = "absent" \/ Exited(w))
                     /\ UNCHANGED vars

Next == Master \/ (\E w \in Workers : Worker(w)) \/ Done

Spec == Init /\ [][Next]_vars

\* Every process is scheduled.
FairSpec == Spec /\ WF_vars(Master) /\ \A w \in Workers : WF_vars(Worker(w))

-----------------------------------------------------------------------------
(* What must hold.                                                         *)

\* Type invariant.
TypeOK == /\ mpc \in {"spawn", "wait", "report", "done"}
          /\ next \in 0..Procs
          /\ handle \in [Workers -> {"unset", "null", "open", "closed"}]
          /\ proc \in [Workers -> {"absent", "setup", "loop", "finished", "failed"}]
          /\ port \in [Workers -> Ports]
          /\ sent \in [Workers -> SUBSET (Ports \ {0})]

\* run_master, l.55-60: the slices handed out when the spawning loop ends
\* cover ports 1..65535, each port once.
SlicesPartition ==
    next = Procs =>
        /\ UNION {Slice(i) : i \in Workers} = 1..MaxPort
        /\ \A i, j \in Workers : i # j => Slice(i) \cap Slice(j) = {}

\* run_worker, l.62-83: a worker that leaves its loop has tried every port of
\* its slice and no other.
FinishedCoversSlice ==
    \A w \in Workers : proc[w] = "finished" => sent[w] = Slice(w)

\* run_worker, l.62: every worker but the last sends to the ports of its
\* slice in ascending order, each once; only the last one's counter wraps.
AscendingOnce ==
    \A w \in Workers \ {LastWorker} :
        proc[w] = "loop" => sent[w] = StartPort(w)..(port[w] - 1)

\* run_master, l.76-81: the report that all processes completed is only ever
\* printed when some worker was not started or could not open its socket;
\* the wave in which all went well is never reported.
ReportNeedsFailure ==
    mpc \in {"report", "done"} =>
        \E w \in Workers : handle[w] = "null" \/ proc[w] = "failed"

\* run_worker, l.62-63: the last worker's counter passes 65535, skips 0 and
\* goes on through the slices of all others, so every port is tried even
\* when the other workers fail.
LastTriesEveryPort == proc[LastWorker] = "loop" ~> sent[LastWorker] = 1..MaxPort

\* natghost_forge/src/main.c l.81: a wave that is waited for is reported.
WaveEnds == mpc = "wait" ~> mpc = "done"
=============================================================================
