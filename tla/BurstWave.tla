----------------------------- MODULE BurstWave -----------------------------
(***************************************************************************)
(* kernel/burst_wawe.c: main starts THREAD_COUNT threads; each builds one  *)
(* datagram for every port of its own range and hands them to a single     *)
(* sendmmsg; main joins the threads and reports.                           *)
(*                                                                         *)
(* kernel/archive/statistical_collision_analysis.c is the same program     *)
(* without shared memory and with another destination port (l.55); Init    *)
(* chooses which of the two runs.                                          *)
(***************************************************************************)
EXTENDS Integers, FiniteSets

CONSTANTS Threads,      \* THREAD_COUNT
          PerThread     \* PORTS_PER_THREAD

ASSUME CountsAssumption == /\ Threads \in Nat \ {0}
                           /\ PerThread \in Nat \ {0}

ThreadIds == 0..(Threads - 1)
Base(t)   == t * PerThread
Ports     == 0..(Threads * PerThread)

VARIABLES
    archived,  \* the archived copy runs
    segment,   \* the shared memory of main's first lines: "absent", "empty", "sized"
    mpc,       \* main: "start", "create", "join", "done" or "crashed"
    next,      \* i of the loop main is in
    tpc,       \* each thread: "absent", "socket", "send", "exited"
    count,     \* what each thread's sendmmsg returned; -1 an error, 0 before
    sent,      \* ports each thread's datagrams went to
    faulty     \* history: a socket or a send of the thread failed by itself

outside == <<archived, segment>>
main == <<mpc, next>>
thread == <<tpc, count, sent, faulty>>
vars == <<outside, main, thread>>

Init == /\ archived \in BOOLEAN
        /\ segment \in {"absent", "empty", "sized"}
        /\ mpc = "start"
        /\ next = 0
        /\ tpc = [t \in ThreadIds |-> "absent"]
        /\ count = [t \in ThreadIds |-> 0]
        /\ sent = [t \in ThreadIds |-> {}]
        /\ faulty = [t \in ThreadIds |-> FALSE]

-----------------------------------------------------------------------------
(* main.                                                                   *)

\* shm_open fails without a segment, mmap fails on an empty one; the archived
\* copy needs none.  The loop that creates the threads starts.
Start == /\ mpc = "start"
         /\ mpc' = IF archived \/ segment = "sized" THEN "create" ELSE "done"
         /\ UNCHANGED <<outside, next, thread>>

\* A defective variant: the loop makes one turn too many.
CreateOneMore == /\ mpc = "create"
                 /\ next <= Threads
                 /\ \/ tpc' = [tpc EXCEPT ![next] = "socket"]
                    \/ UNCHANGED tpc
                 /\ next' = next + 1
                 /\ UNCHANGED <<outside, mpc, count, sent, faulty>>

\* pthread_create; its result is ignored.
Create == /\ mpc = "create"
          /\ next < Threads
          /\ \/ tpc' = [tpc EXCEPT ![next] = "socket"]
             \/ UNCHANGED tpc
          /\ next' = next + 1
          /\ UNCHANGED <<outside, mpc, count, sent, faulty>>

CreatedAll == /\ mpc = "create"
              /\ next = Threads
              /\ mpc' = "join"
              /\ next' = 0
              /\ UNCHANGED <<outside, thread>>

\* Defective variants: the thread is not waited for, and the loop does not
\* advance.
JoinAtOnce == /\ mpc = "join"
              /\ next < Threads
              /\ next' = next + 1
              /\ UNCHANGED <<outside, mpc, thread>>

JoinSameThread == /\ mpc = "join"
                  /\ next < Threads
                  /\ tpc[next] \in {"absent", "exited"}
                  /\ UNCHANGED vars

\* pthread_join waits for the thread.  A thread that was not created left
\* its pthread_t unset, and joining that is undefined: it returns or crashes.
Join == /\ mpc = "join"
        /\ next < Threads
        /\ \/ /\ tpc[next] \in {"absent", "exited"}
              /\ next' = next + 1
              /\ UNCHANGED mpc
           \/ /\ tpc[next] = "absent"
              /\ mpc' = "crashed"
              /\ UNCHANGED next
        /\ UNCHANGED <<outside, thread>>

\* "[+] Burst wave complete."
Complete == /\ mpc = "join"
            /\ next = Threads
            /\ mpc' = "done"
            /\ UNCHANGED <<outside, next, thread>>

-----------------------------------------------------------------------------
(* burst_worker.                                                           *)

\* Threads run until main ends or crashes.
Running == mpc \notin {"done", "crashed"}

Socket(t) == /\ Running
             /\ tpc[t] = "socket"
             /\ \/ tpc' = [tpc EXCEPT ![t] = "send"] /\ UNCHANGED faulty
                \/ /\ tpc' = [tpc EXCEPT ![t] = "exited"]
                   /\ faulty' = [faulty EXCEPT ![t] = TRUE]
             /\ UNCHANGED <<outside, main, count, sent>>

\* sin_port of every datagram of thread t in the archived copy: the 1 looks like i.
ArchivedPort(t) == Base(t) + 1

\* sin_port of datagram i of thread t.
DestPort(t, i) == IF archived THEN ArchivedPort(t) ELSE Base(t) + i

\* The kernel refuses a datagram to port 0 (EINVAL).
Refused(t, i) == DestPort(t, i) = 0

\* sendmmsg sends the datagrams in order and stops at the first that fails,
\* refused or not sent for another reason; n is how many it sends.
SendsFirst(t, n, fault) == /\ \A i \in 0..(n - 1) : ~Refused(t, i)
                           /\ IF n = PerThread THEN ~fault
                              ELSE fault \/ Refused(t, n)

\* It returns the number sent, or -1 if the first one failed; the number is
\* printed, and what was not sent is not tried again.
Send(t) == /\ Running
           /\ tpc[t] = "send"
           /\ \E n \in 0..PerThread, fault \in BOOLEAN :
                 /\ SendsFirst(t, n, fault)
                 /\ faulty' = [faulty EXCEPT ![t] = fault]
                 /\ count' = [count EXCEPT ![t] = IF n = 0 THEN -1 ELSE n]
                 /\ sent' = [sent EXCEPT ![t] = {DestPort(t, i) : i \in 0..(n - 1)}]
           /\ tpc' = [tpc EXCEPT ![t] = "exited"]
           /\ UNCHANGED <<outside, main>>

Main == Start \/ Create \/ CreatedAll \/ Join \/ Complete
Thread(t) == Socket(t) \/ Send(t)

Ended == ~Running /\ UNCHANGED vars

Next == Main \/ (\E t \in ThreadIds : Thread(t)) \/ Ended

Spec == Init /\ [][Next]_vars

\* Every thread is scheduled.
FairSpec == Spec /\ WF_vars(Main) /\ \A t \in ThreadIds : WF_vars(Thread(t))

-----------------------------------------------------------------------------
(* What must hold.                                                         *)

\* Type invariant.
TypeOK == /\ archived \in BOOLEAN
          /\ segment \in {"absent", "empty", "sized"}
          /\ mpc \in {"start", "create", "join", "done", "crashed"}
          /\ next \in 0..Threads
          /\ tpc \in [ThreadIds -> {"absent", "socket", "send", "exited"}]
          /\ count \in [ThreadIds -> {-1} \union 0..PerThread]
          /\ sent \in [ThreadIds -> SUBSET (Ports \ {0})]
          /\ faulty \in [ThreadIds -> BOOLEAN]

\* The ports of a thread: its range, which no other thread has, or in the
\* archived copy one port of it.
Targets(t) == IF archived THEN {Base(t) + 1} ELSE Base(t)..(Base(t) + PerThread - 1)

\* main, l.130-134, and burst_worker, l.72-82: when the wave is complete each
\* thread that was created has ended, and has covered all its ports unless
\* something failed in it or the kernel refuses one of its datagrams.
CompleteCoversRest ==
    mpc = "done" =>
        \A t \in ThreadIds :
            tpc[t] # "absent" =>
                /\ tpc[t] = "exited"
                /\ \/ sent[t] = Targets(t)
                   \/ faulty[t]
                   \/ \E i \in 0..(PerThread - 1) : Refused(t, i)

\* l.17-21, "each of 128 threads sends a wave of 512 ports, so the NAT's whole
\* UDP port space is filled", and l.134, "Burst wave complete.": a wave in which
\* every thread was created and nothing failed has filled the ports from 1 on.
\* It has not: the first thread's batch begins with port 0, which the kernel
\* refuses, and sendmmsg sends nothing of what is behind it.
WaveFillsPortSpace ==
    (/\ mpc = "done" /\ ~archived
     /\ \A t \in ThreadIds : tpc[t] = "exited" /\ ~faulty[t])
        => UNION {sent[t] : t \in ThreadIds} = 1..(Threads * PerThread - 1)

\* Once started main returns or crashes; no thread is waited for without end.
Terminates == mpc \in {"create", "join"} ~> mpc \in {"done", "crashed"}
=============================================================================
