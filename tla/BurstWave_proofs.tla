-------------------------- MODULE BurstWave_proofs --------------------------
(***************************************************************************)
(* What holds of BurstWave for every number of threads and every number of *)
(* ports per thread, in both programs.                                     *)
(***************************************************************************)
EXTENDS BurstWave, TLAPS

-----------------------------------------------------------------------------
(* The inductive invariant.                                                *)

\* How far main has come is how many threads may exist or must have ended.
Progress ==
    /\ mpc = "start" => next = 0 /\ \A t \in ThreadIds : tpc[t] = "absent"
    /\ mpc = "create" => \A t \in ThreadIds : t >= next => tpc[t] = "absent"
    /\ mpc = "join" => \A t \in ThreadIds : t < next => tpc[t] \in {"absent", "exited"}
    /\ mpc = "done" => \A t \in ThreadIds : tpc[t] \in {"absent", "exited"}

\* A thread without a fault has covered its ports when it ends, or is refused one.
Covered(t) == \/ sent[t] = Targets(t)
              \/ \E i \in 0..(PerThread - 1) : Refused(t, i)

Coverage == \A t \in ThreadIds : tpc[t] = "exited" => faulty[t] \/ Covered(t)

IInv == TypeOK /\ Progress /\ Coverage

-----------------------------------------------------------------------------
(* Lemmas about the ports.                                                 *)

\* The first port of a thread; the last port of the last thread is in range.
LEMMA Bases ==
    ASSUME NEW t \in ThreadIds
    PROVE  /\ t \in Nat /\ Base(t) \in Nat
           /\ Base(t) + PerThread <= Threads * PerThread
           /\ Threads * PerThread \in Nat
           /\ t # 0 => Base(t) >= PerThread
           /\ t = 0 => Base(t) = 0
<1>1. t \in Nat /\ t <= Threads - 1 /\ PerThread \in Nat /\ PerThread >= 1 /\ Threads \in Nat
  BY CountsAssumption DEF ThreadIds
<1>2. t * PerThread \in Nat /\ Threads * PerThread \in Nat
  BY <1>1
<1>3. (t + 1) * PerThread <= Threads * PerThread
  BY <1>1
<1>4. (t + 1) * PerThread = t * PerThread + PerThread
  BY <1>1
<1>5. t # 0 => t * PerThread >= PerThread
  BY <1>1
<1>6. t = 0 => t * PerThread = 0
  BY <1>1
<1> QED
  BY <1>1, <1>2, <1>3, <1>4, <1>5, <1>6 DEF Base

\* Every destination is a port; only the first thread's first datagram of the
\* kernel's program goes to port 0.
LEMMA Destinations ==
    ASSUME archived \in BOOLEAN, NEW t \in ThreadIds, NEW i \in 0..(PerThread - 1)
    PROVE  /\ DestPort(t, i) \in Ports
           /\ Refused(t, i) <=> ~archived /\ t = 0 /\ i = 0
<1>1. /\ Base(t) \in Nat /\ Base(t) + PerThread <= Threads * PerThread
      /\ Threads * PerThread \in Nat /\ PerThread \in Nat /\ PerThread >= 1
      /\ t # 0 => Base(t) >= PerThread
      /\ t = 0 => Base(t) = 0
  BY Bases, CountsAssumption
<1>2. CASE archived
  BY <1>1, <1>2 DEF DestPort, ArchivedPort, Ports, Refused
<1>3. CASE ~archived
  BY <1>1, <1>3 DEF DestPort, Ports, Refused
<1> QED
  BY <1>2, <1>3

\* What one sendmmsg may have sent.
LEMMA BatchSent ==
    ASSUME archived \in BOOLEAN, NEW t \in ThreadIds, NEW n \in 0..PerThread,
           NEW fault \in BOOLEAN, SendsFirst(t, n, fault)
    PROVE  LET ports == {DestPort(t, i) : i \in 0..(n - 1)}
           IN  /\ ports \subseteq Ports \ {0}
               /\ \/ fault
                  \/ ports = Targets(t)
                  \/ \E i \in 0..(PerThread - 1) : Refused(t, i)
<1> DEFINE ports == {DestPort(t, i) : i \in 0..(n - 1)}
<1>1. PerThread \in Nat /\ PerThread >= 1 /\ n \in Nat /\ n <= PerThread /\ Base(t) \in Nat
  BY Bases, CountsAssumption
<1>2. \A i \in 0..(n - 1) : i \in 0..(PerThread - 1) /\ ~Refused(t, i)
  BY <1>1 DEF SendsFirst
<1>3. ports \subseteq Ports \ {0}
  BY <1>2, Destinations DEF Refused
<1>4. ASSUME ~fault, \A i \in 0..(PerThread - 1) : ~Refused(t, i)
      PROVE  ports = Targets(t)
  <2>1. n = PerThread
    <3>1. CASE n < PerThread
      BY <1>1, <1>4, <3>1 DEF SendsFirst
    <3> QED
      BY <1>1, <3>1
  <2>2. CASE archived
    <3>1. ports = {Base(t) + 1}
      BY <1>1, <2>1, <2>2 DEF DestPort, ArchivedPort
    <3> QED
      BY <2>2, <3>1 DEF Targets
  <2>3. CASE ~archived
    <3>1. \A p \in Base(t)..(Base(t) + PerThread - 1) :
             p - Base(t) \in 0..(n - 1) /\ p = Base(t) + (p - Base(t))
      BY <1>1, <2>1
    <3>2. \A i \in 0..(n - 1) : Base(t) + i \in Base(t)..(Base(t) + PerThread - 1)
      BY <1>1, <2>1
    <3>3. ports = {Base(t) + i : i \in 0..(n - 1)}
      BY <2>3 DEF DestPort
    <3>4. ports = Base(t)..(Base(t) + PerThread - 1)
      BY <3>1, <3>2, <3>3
    <3> QED
      BY <2>3, <3>4 DEF Targets
  <2> QED
    BY <2>2, <2>3
<1> QED
  BY <1>3, <1>4

-----------------------------------------------------------------------------
(* The invariant is inductive.                                             *)

\* The inductive invariant holds initially.
LEMMA IInvInit == Init => IInv
<1> SUFFICES ASSUME Init PROVE IInv
  OBVIOUS
<1>1. TypeOK
  BY CountsAssumption DEF Init, TypeOK
<1>2. Progress /\ Coverage
  BY DEF Init, Progress, Coverage
<1> QED
  BY <1>1, <1>2 DEF IInv

\* Main's steps leave what the threads sent alone.
LEMMA MainKeeps ==
    ASSUME IInv, Main
    PROVE  IInv'
<1>0. /\ next \in 0..Threads /\ Threads \in Nat \ {0}
      /\ tpc \in [ThreadIds -> {"absent", "socket", "send", "exited"}]
  BY CountsAssumption DEF IInv, TypeOK
<1>1. CASE Start
  <2>1. TypeOK'
    BY <1>1 DEF Start, IInv, TypeOK, outside, thread
  <2>2. Progress' /\ Coverage'
    BY <1>1 DEF Start, IInv, Progress, Coverage, Covered, Targets, Refused, DestPort, ArchivedPort, outside, thread
  <2> QED
    BY <2>1, <2>2 DEF IInv
<1>2. CASE Create
  <2>1. /\ mpc = "create" /\ mpc' = "create" /\ next' = next + 1 /\ next \in ThreadIds
        /\ tpc' \in {tpc, [tpc EXCEPT ![next] = "socket"]}
        /\ UNCHANGED <<archived, segment, count, sent, faulty>>
    BY <1>0, <1>2 DEF Create, ThreadIds, outside
  <2>2. next' \in 0..Threads
    BY <1>0, <1>2 DEF Create
  <2>3. \A t \in ThreadIds : t # next => tpc'[t] = tpc[t]
    BY <1>0, <2>1
  <2>4. TypeOK'
    BY <1>0, <2>1, <2>2 DEF IInv, TypeOK
  <2>5. Progress'
    BY <1>0, <2>1, <2>3 DEF IInv, Progress, ThreadIds
  <2>6. Coverage'
    BY <1>0, <2>1, <2>3 DEF IInv, Coverage, Covered, Targets, Refused, DestPort, ArchivedPort
  <2> QED
    BY <2>4, <2>5, <2>6 DEF IInv
<1>3. CASE CreatedAll
  <2>1. TypeOK'
    BY <1>0, <1>3 DEF CreatedAll, IInv, TypeOK, outside, thread
  <2>2. Progress'
    BY <1>0, <1>3 DEF CreatedAll, IInv, Progress, outside, thread, ThreadIds
  <2>3. Coverage'
    BY <1>3 DEF CreatedAll, IInv, Coverage, Covered, Targets, Refused, DestPort, ArchivedPort, outside, thread
  <2> QED
    BY <2>1, <2>2, <2>3 DEF IInv
<1>4. CASE Join
  <2>1. next' \in 0..Threads /\ mpc' \in {"join", "crashed"} /\ mpc = "join"
    BY <1>0, <1>4 DEF Join
  <2>2. TypeOK'
    BY <1>4, <2>1 DEF Join, IInv, TypeOK, outside, thread
  <2>3. Progress'
    BY <1>0, <1>4 DEF Join, IInv, Progress, outside, thread, ThreadIds
  <2>4. Coverage'
    BY <1>4 DEF Join, IInv, Coverage, Covered, Targets, Refused, DestPort, ArchivedPort, outside, thread
  <2> QED
    BY <2>2, <2>3, <2>4 DEF IInv
<1>5. CASE Complete
  <2>1. TypeOK'
    BY <1>5 DEF Complete, IInv, TypeOK, outside, thread
  <2>2. Progress'
    BY <1>0, <1>5 DEF Complete, IInv, Progress, outside, thread, ThreadIds
  <2>3. Coverage'
    BY <1>5 DEF Complete, IInv, Coverage, Covered, Targets, Refused, DestPort, ArchivedPort, outside, thread
  <2> QED
    BY <2>1, <2>2, <2>3 DEF IInv
<1> QED
  BY <1>1, <1>2, <1>3, <1>4, <1>5 DEF Main

\* A thread's steps change that thread only.
LEMMA ThreadKeeps ==
    ASSUME IInv, NEW t \in ThreadIds, Thread(t)
    PROVE  IInv'
<1>0. /\ tpc \in [ThreadIds -> {"absent", "socket", "send", "exited"}]
      /\ sent \in [ThreadIds -> SUBSET (Ports \ {0})]
      /\ count \in [ThreadIds -> {-1} \union 0..PerThread]
      /\ faulty \in [ThreadIds -> BOOLEAN] /\ archived \in BOOLEAN
  BY DEF IInv, TypeOK
<1>1. ASSUME UNCHANGED <<outside, main>>, tpc[t] \in {"socket", "send"},
             NEW v \in {"send", "exited"}, tpc' = [tpc EXCEPT ![t] = v]
      PROVE  Progress'
  BY <1>0, <1>1 DEF IInv, Progress, outside, main
<1>2. ASSUME UNCHANGED archived, \A u \in ThreadIds \ {t} :
                tpc'[u] = tpc[u] /\ sent'[u] = sent[u] /\ faulty'[u] = faulty[u],
             tpc'[t] = "exited" => faulty'[t] \/ Covered(t)'
      PROVE  Coverage'
  BY <1>2 DEF IInv, Coverage, Covered, Targets, Refused, DestPort, ArchivedPort
<1>3. CASE Socket(t)
  <2>1. TypeOK'
    BY <1>0, <1>3 DEF Socket, IInv, TypeOK, outside, main
  <2>2. Progress'
    BY <1>1, <1>3 DEF Socket
  <2>3. Coverage'
    BY <1>0, <1>2, <1>3 DEF Socket, outside
  <2> QED
    BY <2>1, <2>2, <2>3 DEF IInv
<1>4. CASE Send(t)
  <2> PICK n \in 0..PerThread, fault \in BOOLEAN :
        /\ SendsFirst(t, n, fault)
        /\ faulty' = [faulty EXCEPT ![t] = fault]
        /\ count' = [count EXCEPT ![t] = IF n = 0 THEN -1 ELSE n]
        /\ sent' = [sent EXCEPT ![t] = {DestPort(t, i) : i \in 0..(n - 1)}]
    BY <1>4 DEF Send
  <2>1. /\ UNCHANGED <<outside, main>> /\ tpc[t] = "send"
        /\ tpc' = [tpc EXCEPT ![t] = "exited"]
    BY <1>4 DEF Send
  <2> DEFINE ports == {DestPort(t, i) : i \in 0..(n - 1)}
  <2>2. /\ ports \subseteq Ports \ {0}
        /\ \/ fault
           \/ ports = Targets(t)
           \/ \E i \in 0..(PerThread - 1) : Refused(t, i)
    BY <1>0, BatchSent
  <2>3. sent' = [sent EXCEPT ![t] = ports]
    OBVIOUS
  <2> HIDE DEF ports
  <2>4. sent'[t] = ports /\ faulty'[t] = fault
    BY <1>0, <2>3
  <2>5. /\ sent' \in [ThreadIds -> SUBSET (Ports \ {0})]
        /\ count' \in [ThreadIds -> {-1} \union 0..PerThread]
        /\ faulty' \in [ThreadIds -> BOOLEAN]
        /\ tpc' \in [ThreadIds -> {"absent", "socket", "send", "exited"}]
    BY <1>0, <2>1, <2>2, <2>3
  <2>6. TypeOK'
    BY <2>1, <2>5 DEF IInv, TypeOK, outside, main
  <2>7. Progress'
    BY <1>1, <2>1
  <2>8. Coverage'
    <3>1. faulty'[t] \/ Covered(t)'
      BY <2>1, <2>2, <2>4 DEF Covered, Targets, Refused, DestPort, ArchivedPort, outside
    <3>2. \A u \in ThreadIds \ {t} :
             tpc'[u] = tpc[u] /\ sent'[u] = sent[u] /\ faulty'[u] = faulty[u]
      BY <1>0, <2>1, <2>3
    <3> QED
      BY <1>2, <2>1, <3>1, <3>2 DEF outside
  <2> QED
    BY <2>6, <2>7, <2>8 DEF IInv
<1> QED
  BY <1>3, <1>4 DEF Thread

\* Every step preserves it.
LEMMA IInvNext == IInv /\ [Next]_vars => IInv'
<1>1. IInv /\ UNCHANGED vars => IInv'
  BY DEF vars, outside, main, thread, IInv, TypeOK, Progress, Coverage, Covered, Targets, Refused, DestPort, ArchivedPort
<1> QED
  BY <1>1, MainKeeps, ThreadKeeps DEF Next, Ended

\* It is an invariant.
LEMMA Invariance == Spec => []IInv
  BY IInvInit, IInvNext, PTL DEF Spec

-----------------------------------------------------------------------------
(* The theorems.                                                           *)

\* Every variable keeps its type: nothing is ever sent beyond the threads'
\* ranges, nor to port 0.
THEOREM TypeCorrect == Spec => []TypeOK
  BY Invariance, PTL DEF IInv

\* When the wave is complete every thread that was created has ended and has
\* covered its ports, unless a call failed in it or a datagram is refused.
THEOREM CompleteWaveCovers == Spec => []CompleteCoversRest
<1>1. IInv => CompleteCoversRest
  BY DEF IInv, Progress, Coverage, Covered, CompleteCoversRest
<1> QED
  BY <1>1, Invariance, PTL
=============================================================================
