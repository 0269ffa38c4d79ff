-------------------------- MODULE EpollBurst_proofs --------------------------
(***************************************************************************)
(* What holds of EpollBurst for any number of servers, threads that were   *)
(* not created, and any traffic.                                           *)
(***************************************************************************)
EXTENDS EpollBurst, SequenceTheorems, FiniteSetTheorems, TLAPS

-----------------------------------------------------------------------------
(* The inductive invariant.                                                *)

Before == {"load", "spawn", "join"}                  \* main does not listen yet
After  == {"recv", "drain", "check", "list", "done"} \* every thread has sent

\* Only a thread draws an ID and stamps its entry, and it is created once.
Drawn == /\ \A h \in Hosts :
               /\ spc[h] = "exited" => tid[h] = h
               /\ spc[h] # "exited" => tid[h] = Zero /\ sendTime[h] = 0
               /\ spc[h] # "absent" => h \in loaded /\ mpc # "load"
         /\ mpc = "spawn" => \A h \in left : spc[h] = "absent"

\* Until it listens, main takes nothing; then every thread has sent, and a time
\* that is recorded counts up to the start of the window at least.
Phases == /\ mpc \in Before => /\ \A h \in Hosts : rtt[h] = NoRtt
                              /\ Len(sockbuf) = Len(arrived)
                              /\ \A k \in DOMAIN sockbuf : sockbuf[k] = arrived[k].id
          /\ mpc \in After => \A h \in Hosts :
                /\ sendTime[h] <= began
                /\ rtt[h] # NoRtt => rtt[h] >= began - sendTime[h]
          /\ mpc = "drain" => began <= now
          /\ mpc = "crashed" => \A h \in Hosts : rtt[h] = NoRtt
          /\ Boot <= time /\ Boot <= now
          /\ mpc # "done" => listed = {}
          /\ mpc = "done" => \A h \in listed : InTime(h)

\* What main holds came, and not later than the time it goes by.
Came(m, t) == \E i \in DOMAIN arrived : arrived[i].id = m /\ arrived[i].at <= t

Origin == /\ \A k \in DOMAIN sockbuf : Came(sockbuf[k], time)
          /\ \A k \in DOMAIN batch : Came(batch[k], now)
          /\ \A i \in DOMAIN arrived :
                arrived[i].id \in Hosts => spc[arrived[i].id] = "exited"

\* A time belongs to a server that answered, or to an entry that never asked
\* and counts from the boot.
Answered == \A h \in Hosts :
               rtt[h] # NoRtt =>
                  \/ spc[h] = "exited" /\ Came(h, rtt[h] + sendTime[h])
                  \/ spc[h] # "exited" /\ rtt[h] >= Boot

\* An early answer is before main, or its server has a time.
Waiting(h) == \/ /\ mpc \in Before \union {"recv"}
                 /\ \E k \in DOMAIN sockbuf : k <= BatchSize /\ sockbuf[k] = h
              \/ /\ mpc = "drain"
                 /\ \E k \in DOMAIN batch : batch[k] = h

Early == \A i \in DOMAIN arrived :
            (i <= BatchSize /\ arrived[i].early /\ arrived[i].id \in Hosts) =>
                \/ rtt[arrived[i].id] # NoRtt
                \/ mpc = "crashed"
                \/ Waiting(arrived[i].id)

IInv == EngineTypeOK /\ Drawn /\ Phases /\ Origin /\ Answered /\ Early

-----------------------------------------------------------------------------
(* Lemmas about the operators.                                             *)

\* A loop that stops at its n-th entry has passed n entries at most: the index
\* of an entry is the number of those before it.
LEMMA FirstFit ==
    ASSUME NEW S \in SUBSET Hosts, NEW n \in Nat
    PROVE  FirstOf(S, n) \in SUBSET S /\ Cardinality(FirstOf(S, n)) <= n
<1> DEFINE Prior(h) == {g \in S : g < h}
           F == FirstOf(S, n)
           I == 0..(n - 1)
           index == [h \in F |-> Cardinality(Prior(h))]
<1>1. /\ IsFiniteSet(F) /\ Cardinality(F) \in Nat /\ F \in SUBSET S
      /\ \A h \in Hosts : IsFiniteSet(Prior(h)) /\ Cardinality(Prior(h)) \in Nat
  <2>1. IsFiniteSet(Hosts)
    BY EngineAssumption, FS_Interval DEF Hosts
  <2>2. F \in SUBSET Hosts /\ F \in SUBSET S
    BY DEF FirstOf
  <2>3. \A h \in Hosts : Prior(h) \in SUBSET Hosts
    OBVIOUS
  <2> QED
    BY <2>1, <2>2, <2>3, FS_Subset, FS_CardinalityType
<1>2. IsFiniteSet(I) /\ Cardinality(I) = n
  BY FS_Interval
<1>3. index \in [F -> I]
  <2> SUFFICES ASSUME NEW h \in F PROVE Cardinality(Prior(h)) \in I
    OBVIOUS
  <2>1. h \in Hosts /\ Cardinality(Prior(h)) < n
    BY DEF FirstOf
  <2>2. Cardinality(Prior(h)) \in Nat
    BY <1>1, <2>1
  <2> QED
    BY <2>1, <2>2
<1>4. ASSUME NEW x \in F, NEW y \in F, x < y
      PROVE  index[x] # index[y]
  <2>1. x \in S /\ x \in Hosts /\ y \in Hosts
    BY <1>1
  <2>2. (\A g \in Hosts : g < x => g < y) /\ ~(x < x)
    BY <1>4, <2>1, EngineAssumption DEF Hosts
  <2>3. Prior(x) \in SUBSET Prior(y) /\ x \in Prior(y) /\ x \notin Prior(x)
    BY <1>4, <2>1, <2>2
  <2>4. Cardinality(Prior(x)) # Cardinality(Prior(y))
    BY <1>1, <2>1, <2>3, FS_Subset
  <2> QED
    BY <2>4
<1>5. \A x, y \in F : x # y => index[x] # index[y]
  <2> SUFFICES ASSUME NEW x \in F, NEW y \in F, x # y PROVE index[x] # index[y]
    OBVIOUS
  <2>1. x \in Hosts /\ y \in Hosts
    BY <1>1
  <2>2. x < y \/ y < x
    BY <2>1 DEF Hosts
  <2> QED
    BY <1>4, <2>2
<1> HIDE DEF F, I, index
<1>6. ~(Cardinality(I) < Cardinality(F))
  BY <1>1, <1>2, <1>3, <1>5, FS_PigeonHole
<1> QED
  BY <1>1, <1>2, <1>6 DEF F

\* recvmmsg takes the first datagrams and leaves the others.
LEMMA SplitBuffer ==
    ASSUME NEW S, sockbuf \in Seq(S), sockbuf # <<>>
    PROVE  LET b == SubSeq(sockbuf, 1, BatchLen)
               r == SubSeq(sockbuf, BatchLen + 1, Len(sockbuf))
           IN  /\ b \in Seq(S) /\ r \in Seq(S)
               /\ Len(b) = BatchLen /\ BatchLen <= BatchSize
               /\ \A k \in DOMAIN b : k \in DOMAIN sockbuf /\ b[k] = sockbuf[k]
               /\ \A k \in DOMAIN sockbuf : k <= BatchSize => k \in DOMAIN b
               /\ \A k \in DOMAIN r : \E l \in DOMAIN sockbuf : r[k] = sockbuf[l]
<1> DEFINE n == Len(sockbuf)
           c == BatchLen
           b == SubSeq(sockbuf, 1, c)
           r == SubSeq(sockbuf, c + 1, n)
<1>1. /\ n \in Nat /\ c \in 0..n /\ c <= BatchSize
      /\ \A k \in 1..n : k <= BatchSize => k <= c
  BY LenProperties, EngineAssumption DEF BatchLen
<1>2. DOMAIN sockbuf = 1..n /\ \A k \in 1..n : sockbuf[k] \in S
  BY LenProperties, ElementOfSeq
<1> HIDE DEF n, c
<1>3. /\ b \in Seq(S) /\ Len(b) = c /\ DOMAIN b = 1..c
      /\ \A k \in 1..c : b[k] = sockbuf[k]
  BY <1>1, <1>2, SubSeqProperties
<1>4. /\ r \in Seq(S) /\ DOMAIN r = 1..(n - c)
      /\ \A k \in 1..(n - c) : r[k] = sockbuf[c + k]
  BY <1>1, <1>2, SubSeqProperties
<1>5. \A k \in DOMAIN r : \E l \in DOMAIN sockbuf : r[k] = sockbuf[l]
  <2> SUFFICES ASSUME NEW k \in 1..(n - c)
               PROVE  c + k \in 1..n /\ r[k] = sockbuf[c + k]
    BY <1>2, <1>4
  <2> QED
    BY <1>1, <1>4
<1> QED
  BY <1>1, <1>2, <1>3, <1>4, <1>5 DEF n, c

\* A datagram with a host's ID has that host's entry for its only owner.
LEMMA OwnerOfId ==
    ASSUME IInv, NEW h \in Hosts, spc[h] = "exited", rtt[h] = NoRtt
    PROVE  Owners(h) = {h} /\ IsFirst(h, Owners(h))
<1>1. h \in loaded /\ tid[h] = h /\ h # Short /\ loaded \subseteq Hosts
  BY EngineAssumption DEF IInv, Drawn, EngineTypeOK, Hosts, Short
<1>2. ASSUME NEW g \in loaded, tid[g] = h PROVE g = h
  BY <1>1, <1>2 DEF IInv, Drawn, Hosts, Zero
<1>3. Owners(h) = {h}
  BY <1>1, <1>2 DEF Owners
<1> QED
  BY <1>3 DEF IsFirst, Hosts

-----------------------------------------------------------------------------
(* It holds initially and is kept.                                         *)

\* The inductive invariant holds initially.
LEMMA IInvInit == EngineInit => IInv
<1> SUFFICES ASSUME EngineInit PROVE IInv
  OBVIOUS
<1>1. EngineTypeOK
  BY EngineAssumption, FS_EmptySet DEF EngineInit, EngineTypeOK
<1>2. Drawn /\ Phases
  BY EngineAssumption DEF EngineInit, Drawn, Phases, Before
<1>3. Origin /\ Answered /\ Early
  BY DEF EngineInit, Origin, Answered, Early
<1> QED
  BY <1>1, <1>2, <1>3 DEF IInv

\* What every state of the invariant says of the numbers.
LEMMA Numbers ==
    ASSUME EngineTypeOK
    PROVE  /\ time \in Nat /\ began \in Nat /\ now \in Nat
           /\ \A h \in Hosts : sendTime[h] \in Nat /\ rtt[h] \in Int
           /\ Boot \in Nat /\ TimeLimit \in Nat \ {0} /\ Boot >= TimeLimit
           /\ NoRtt = -1 /\ BatchSize \in Nat \ {0}
           /\ Len(arrived) \in Nat /\ DOMAIN arrived = 1..Len(arrived)
           /\ Len(sockbuf) \in Nat /\ DOMAIN sockbuf = 1..Len(sockbuf)
           /\ \A i \in DOMAIN arrived : arrived[i].at \in Nat
<1>1. /\ time \in Nat /\ began \in Nat /\ now \in Nat
      /\ \A h \in Hosts : sendTime[h] \in Nat /\ rtt[h] \in Int
      /\ NoRtt = -1
  BY DEF EngineTypeOK, NoRtt
<1>2. /\ Boot \in Nat /\ TimeLimit \in Nat \ {0} /\ Boot >= TimeLimit
      /\ BatchSize \in Nat \ {0}
  BY EngineAssumption, BootAssumption
<1>3. /\ Len(arrived) \in Nat /\ DOMAIN arrived = 1..Len(arrived)
      /\ Len(sockbuf) \in Nat /\ DOMAIN sockbuf = 1..Len(sockbuf)
  BY LenProperties DEF EngineTypeOK
<1>4. ASSUME NEW i \in DOMAIN arrived PROVE arrived[i].at \in Nat
  <2>1. arrived[i] \in [id : Ids, at : Nat, early : BOOLEAN]
    BY <1>3, ElementOfSeq DEF EngineTypeOK
  <2> QED
    BY <2>1
<1> QED
  BY <1>1, <1>2, <1>3, <1>4

\* Load preserves the inductive invariant.
LEMMA LoadKeeps == IInv /\ Load => IInv'
<1> SUFFICES ASSUME IInv, Load PROVE IInv'
  OBVIOUS
<1>1. /\ mpc = "load" /\ mpc' = "spawn" /\ left' = loaded'
      /\ UNCHANGED <<spc, tid, sendTime, rtt, time, began, now, sockbuf, batch,
                     listed, arrived>>
  BY DEF Load, senders, inbox
<1>2. PICK resolved \in SUBSET Hosts : loaded' = FirstOf(resolved, MaxStun)
  BY DEF Load
<1>3. loaded' \in SUBSET Hosts /\ Cardinality(loaded') <= MaxStun
  BY <1>2, FirstFit, EngineAssumption
<1>4. EngineTypeOK'
  BY <1>1, <1>3 DEF IInv, EngineTypeOK, Phases
<1>5. Drawn'
  BY <1>1, <1>3 DEF IInv, Drawn
<1>6. Phases'
  BY <1>1 DEF IInv, Phases, Before, After
<1>7. (Origin /\ Answered)'
  BY <1>1 DEF IInv, Origin, Answered, Came
<1>8. Early'
  BY <1>1 DEF IInv, Early, Waiting, Before
<1> QED
  BY <1>4, <1>5, <1>6, <1>7, <1>8 DEF IInv

\* Creating a socket preserves the inductive invariant.
LEMMA CreateKeeps ==
    ASSUME NEW h \in Hosts
    PROVE  IInv /\ Create(h) => IInv'
<1> SUFFICES ASSUME IInv, Create(h) PROVE IInv'
  OBVIOUS
<1>1. /\ mpc = "spawn" /\ h \in left /\ h \in loaded
      /\ left' = left \ {h}
      /\ spc' \in {spc, [spc EXCEPT ![h] = "ready"]}
      /\ UNCHANGED <<mpc, loaded, tid, sendTime, rtt, time, began, now, sockbuf,
                     batch, listed, arrived>>
  BY DEF Create, IsFirst, inbox, IInv, EngineTypeOK
<1>2. EngineTypeOK'
  BY <1>1 DEF IInv, EngineTypeOK
<1>3. \A g \in Hosts : g # h => spc'[g] = spc[g]
  BY <1>1 DEF IInv, EngineTypeOK
<1>4. spc[h] = "absent" /\ spc'[h] \in {"absent", "ready"}
  BY <1>1 DEF IInv, EngineTypeOK, Drawn
<1>5. Drawn'
  BY <1>1, <1>3, <1>4 DEF IInv, Drawn, EngineTypeOK
<1>6. Phases'
  BY <1>1 DEF IInv, Phases, InTime
<1>7. Origin'
  <2>1. \A g \in Hosts : spc[g] = "exited" => spc'[g] = "exited"
    BY <1>3, <1>4
  <2> QED
    BY <1>1, <2>1 DEF IInv, Origin, Came
<1>8. Answered'
  BY <1>1 DEF IInv, Answered, Phases, Before
<1>9. Early'
  BY <1>1 DEF IInv, Early, Waiting
<1> QED
  BY <1>2, <1>5, <1>6, <1>7, <1>8, <1>9 DEF IInv

\* Sending a request preserves the inductive invariant.
LEMMA SendKeeps ==
    ASSUME NEW h \in Hosts
    PROVE  IInv /\ Send(h) => IInv'
<1> SUFFICES ASSUME IInv, Send(h) PROVE IInv'
  OBVIOUS
<1>1. /\ mpc \in {"spawn", "join"} /\ spc[h] = "ready"
      /\ spc' = [spc EXCEPT ![h] = "exited"]
      /\ tid' = [tid EXCEPT ![h] = h]
      /\ sendTime' = [sendTime EXCEPT ![h] = time]
      /\ UNCHANGED <<mpc, loaded, left, rtt, time, began, now, sockbuf, batch,
                     listed, arrived>>
  BY DEF Send, mainState, inbox
<1>2. EngineTypeOK'
  BY <1>1 DEF IInv, EngineTypeOK
<1>3. \A g \in Hosts : /\ g # h => spc'[g] = spc[g] /\ tid'[g] = tid[g]
                                   /\ sendTime'[g] = sendTime[g]
                       /\ g = h => spc'[g] = "exited" /\ tid'[g] = h
  BY <1>1 DEF IInv, EngineTypeOK
<1>4. h \in loaded /\ h \notin (IF mpc = "spawn" THEN left ELSE {})
  BY <1>1 DEF IInv, Drawn
<1>5. Drawn'
  BY <1>1, <1>3, <1>4 DEF IInv, Drawn, EngineTypeOK
<1>6. Phases'
  BY <1>1 DEF IInv, Phases, Before, After
<1>7. Origin'
  BY <1>1, <1>3 DEF IInv, Origin, Came
<1>8. Answered'
  BY <1>1 DEF IInv, Answered, Phases, Before
<1>9. Early'
  BY <1>1 DEF IInv, Early, Waiting
<1> QED
  BY <1>2, <1>5, <1>6, <1>7, <1>8, <1>9 DEF IInv

\* Steps that only move main, or leave everything.
LEMMA MoveKeeps ==
    IInv /\ (CreatedAll \/ TimeOut \/ Handled \/ CheckElapsed
             \/ EngineEnded \/ UNCHANGED engineVars \/ (\E h \in Hosts : JoinSender(h))) => IInv'
<1> SUFFICES ASSUME IInv,
                    CreatedAll \/ TimeOut \/ Handled \/ CheckElapsed
                      \/ EngineEnded \/ UNCHANGED engineVars \/ (\E h \in Hosts : JoinSender(h))
             PROVE  IInv'
  OBVIOUS
<1>1. /\ UNCHANGED <<loaded, spc, tid, sendTime, rtt, time, began, now, sockbuf,
                     batch, listed, arrived>>
      /\ \/ mpc' = mpc /\ left' \subseteq left
         \/ mpc = "spawn" /\ mpc' = "join" /\ left' = loaded
         \/ mpc = "join" /\ mpc' = "crashed" /\ left' = left
         \/ mpc = "recv" /\ sockbuf = <<>> /\ mpc' = "check" /\ left' = left
         \/ mpc = "drain" /\ batch = <<>> /\ mpc' = "check" /\ left' = left
         \/ mpc = "check" /\ mpc' \in {"recv", "list"} /\ left' = left
  BY DEF CreatedAll, TimeOut, Handled, CheckElapsed, EngineEnded, engineVars, JoinSender, mainState,
         senders, inbox
<1>2. EngineTypeOK'
  BY <1>1 DEF IInv, EngineTypeOK
<1>3. Drawn'
  BY <1>1 DEF IInv, Drawn
<1>4. Phases'
  BY <1>1 DEF IInv, Phases, Before, After, InTime
<1>5. (Origin /\ Answered)'
  BY <1>1 DEF IInv, Origin, Answered, Came
<1>6. Early'
  BY <1>1 DEF IInv, Early, Waiting, Before
<1> QED
  BY <1>2, <1>3, <1>4, <1>5, <1>6 DEF IInv

\* Begin preserves the inductive invariant.
LEMMA BeginKeeps == IInv /\ Begin => IInv'
<1> SUFFICES ASSUME IInv, Begin PROVE IInv'
  OBVIOUS
<1>1. /\ mpc = "join" /\ mpc' = "recv" /\ began' = time
      /\ UNCHANGED <<loaded, left, spc, tid, sendTime, rtt, time, now, sockbuf,
                     batch, listed, arrived>>
  BY DEF Begin, senders, inbox
<1>2. EngineTypeOK'
  BY <1>1 DEF IInv, EngineTypeOK
<1>3. Drawn'
  BY <1>1 DEF IInv, Drawn
<1>4. Phases'
  BY <1>1 DEF IInv, Phases, Before, After, EngineTypeOK
<1>5. (Origin /\ Answered)'
  BY <1>1 DEF IInv, Origin, Answered, Came
<1>6. Early'
  BY <1>1 DEF IInv, Early, Waiting, Before
<1> QED
  BY <1>2, <1>3, <1>4, <1>5, <1>6 DEF IInv

\* Ready preserves the inductive invariant.
LEMMA ReadyKeeps == IInv /\ Ready => IInv'
<1> SUFFICES ASSUME IInv, Ready PROVE IInv'
  OBVIOUS
<1> DEFINE b == SubSeq(sockbuf, 1, BatchLen)
           r == SubSeq(sockbuf, BatchLen + 1, Len(sockbuf))
<1>1. /\ mpc = "recv" /\ mpc' = "drain" /\ now' = time /\ batch' = b /\ sockbuf' = r
      /\ sockbuf # <<>> /\ sockbuf \in Seq(Ids)
      /\ UNCHANGED <<loaded, left, spc, tid, sendTime, rtt, time, began, listed,
                     arrived>>
  BY DEF Ready, senders, IInv, EngineTypeOK
<1>2. /\ b \in Seq(Ids) /\ r \in Seq(Ids)
      /\ Len(b) = BatchLen /\ BatchLen <= BatchSize
      /\ \A k \in DOMAIN b : k \in DOMAIN sockbuf /\ b[k] = sockbuf[k]
      /\ \A k \in DOMAIN sockbuf : k <= BatchSize => k \in DOMAIN b
      /\ \A k \in DOMAIN r : \E l \in DOMAIN sockbuf : r[k] = sockbuf[l]
  BY <1>1, SplitBuffer
<1> HIDE DEF b, r
<1>3. EngineTypeOK'
  BY <1>1, <1>2 DEF IInv, EngineTypeOK
<1>4. Drawn'
  BY <1>1 DEF IInv, Drawn
<1>5. Phases'
  BY <1>1 DEF IInv, Phases, Before, After, EngineTypeOK
<1>6. Origin'
  <2>1. \A k \in DOMAIN sockbuf' : Came(sockbuf'[k], time)
    BY <1>1, <1>2 DEF IInv, Origin
  <2>2. \A k \in DOMAIN batch' : Came(batch'[k], time)
    BY <1>1, <1>2 DEF IInv, Origin
  <2> QED
    BY <1>1, <2>1, <2>2 DEF IInv, Origin, Came
<1>7. Answered'
  BY <1>1 DEF IInv, Answered, Came
<1>8. Early'
  BY <1>1, <1>2 DEF IInv, Early, Waiting, Before
<1> QED
  BY <1>3, <1>4, <1>5, <1>6, <1>7, <1>8 DEF IInv

\* Handle preserves the inductive invariant.
LEMMA HandleKeeps == IInv /\ Handle => IInv'
<1> SUFFICES ASSUME IInv, Handle PROVE IInv'
  OBVIOUS
<1> DEFINE m == Head(batch)
<1>1. /\ mpc = "drain" /\ batch # <<>> /\ batch \in Seq(Ids)
      /\ rtt' = [h \in Hosts |-> IF IsFirst(h, Owners(m)) THEN now - sendTime[h]
                                 ELSE rtt[h]]
      /\ batch' = Tail(batch)
      /\ UNCHANGED <<mpc, loaded, left, spc, tid, sendTime, time, began, now,
                     sockbuf, listed, arrived>>
  BY DEF Handle, mainState, senders, IInv, EngineTypeOK
<1>2. /\ m = batch[1] /\ Len(batch) \in Nat \ {0} /\ DOMAIN batch = 1..Len(batch)
      /\ batch' \in Seq(Ids) /\ Len(batch') = Len(batch) - 1
      /\ DOMAIN batch' = 1..(Len(batch) - 1)
      /\ \A k \in 1..(Len(batch) - 1) : batch'[k] = batch[k + 1]
  BY <1>1, HeadTailProperties, LenProperties
<1> HIDE DEF m
<1>3. /\ time \in Nat /\ began \in Nat /\ now \in Nat /\ now <= time /\ began <= now
      /\ \A h \in Hosts : /\ sendTime[h] \in Nat /\ rtt[h] \in Int
                          /\ sendTime[h] <= began
      /\ Boot <= now /\ Boot \in Nat /\ NoRtt = -1 /\ loaded \subseteq Hosts
  BY <1>1, Numbers DEF IInv, EngineTypeOK, Phases, After
<1>4. ASSUME NEW h \in Hosts
      PROVE  /\ ~IsFirst(h, Owners(m)) => rtt'[h] = rtt[h]
             /\ IsFirst(h, Owners(m)) => /\ rtt[h] = NoRtt /\ tid[h] = m
                                         /\ rtt'[h] = now - sendTime[h]
                                         /\ rtt'[h] \in 0..time /\ rtt'[h] # NoRtt
  <2>1. IsFirst(h, Owners(m)) => rtt[h] = NoRtt /\ tid[h] = m
    BY DEF IsFirst, Owners
  <2> QED
    BY <1>1, <1>3, <2>1
<1>5. EngineTypeOK'
  <2>1. rtt' \in [Hosts -> {NoRtt} \union 0..time]
    BY <1>1, <1>4 DEF IInv, EngineTypeOK
  <2>2. Len(batch') <= BatchSize
    BY <1>1, <1>2, EngineAssumption DEF IInv, EngineTypeOK
  <2> QED
    BY <1>1, <1>2, <2>1, <2>2 DEF IInv, EngineTypeOK
<1>6. Drawn'
  BY <1>1 DEF IInv, Drawn
<1>7. Phases'
  <2>1. ASSUME NEW h \in Hosts, rtt'[h] # NoRtt
        PROVE  rtt'[h] >= began - sendTime[h]
    BY <1>1, <1>3, <1>4, <2>1 DEF IInv, Phases, After
  <2> QED
    BY <1>1, <1>3, <2>1 DEF IInv, Phases, Before, After
<1>8. Origin'
  <2>1. \A k \in DOMAIN batch' : Came(batch'[k], now)
    BY <1>2 DEF IInv, Origin
  <2> QED
    BY <1>1, <2>1 DEF IInv, Origin, Came
<1>9. Answered'
  <2> SUFFICES ASSUME NEW h \in Hosts, rtt'[h] # NoRtt
               PROVE  \/ spc[h] = "exited" /\ Came(h, rtt'[h] + sendTime[h])
                      \/ spc[h] # "exited" /\ rtt'[h] >= Boot
    BY <1>1 DEF Answered, Came
  <2>1. CASE ~IsFirst(h, Owners(m))
    <3>1. rtt'[h] = rtt[h]
      BY <1>4, <2>1
    <3> QED
      BY <3>1 DEF IInv, Answered
  <2>2. CASE IsFirst(h, Owners(m)) /\ spc[h] = "exited"
    <3>1. h = m /\ rtt'[h] + sendTime[h] = now
      BY <1>3, <1>4, <2>2 DEF IInv, Drawn
    <3>2. Came(m, now)
      BY <1>2 DEF IInv, Origin
    <3> QED
      BY <2>2, <3>1, <3>2
  <2>3. CASE IsFirst(h, Owners(m)) /\ spc[h] # "exited"
    BY <1>3, <1>4, <2>3 DEF IInv, Drawn
  <2> QED
    BY <2>1, <2>2, <2>3
<1>10. Early'
  <2> SUFFICES ASSUME NEW i \in DOMAIN arrived, i <= BatchSize, arrived[i].early,
                      arrived[i].id \in Hosts, rtt'[arrived[i].id] = NoRtt
               PROVE  \E k \in DOMAIN batch' : batch'[k] = arrived[i].id
    BY <1>1 DEF Early, Waiting
  <2> DEFINE h == arrived[i].id
  <2>1. rtt[h] = NoRtt /\ spc[h] = "exited"
    BY <1>4 DEF IInv, Origin
  <2>2. PICK k \in DOMAIN batch : batch[k] = h
    BY <1>1, <2>1 DEF IInv, Early, Waiting, Before
  <2>3. k # 1
    <3>1. SUFFICES ASSUME k = 1 PROVE FALSE
      OBVIOUS
    <3>2. m = h
      BY <1>2, <2>2, <3>1
    <3>3. IsFirst(h, Owners(m))
      BY <2>1, <3>2, OwnerOfId
    <3> QED
      BY <1>4, <3>3
  <2>4. k - 1 \in 1..(Len(batch) - 1) /\ (k - 1) + 1 = k
    BY <1>2, <2>3
  <2> QED
    BY <1>2, <2>2, <2>4
<1> QED
  BY <1>5, <1>6, <1>7, <1>8, <1>9, <1>10 DEF IInv

\* List preserves the inductive invariant.
LEMMA ListKeeps == IInv /\ List => IInv'
<1> SUFFICES ASSUME IInv, List PROVE IInv'
  OBVIOUS
<1>1. /\ mpc = "list" /\ mpc' = "done"
      /\ listed' = FirstOf(EntriesInTime, Shown)
      /\ UNCHANGED <<loaded, left, spc, tid, sendTime, rtt, time, began, now,
                     sockbuf, batch, arrived>>
  BY DEF List, senders, inbox
<1>2. EntriesInTime \in SUBSET Hosts /\ EntriesInTime \in SUBSET loaded
  BY DEF EntriesInTime, IInv, EngineTypeOK
<1>3. /\ listed' \in SUBSET EntriesInTime
      /\ Cardinality(listed') <= Shown
  BY <1>1, <1>2, FirstFit, EngineAssumption
<1>4. EngineTypeOK'
  BY <1>1, <1>2, <1>3 DEF IInv, EngineTypeOK
<1>5. Drawn'
  BY <1>1 DEF IInv, Drawn
<1>6. Phases'
  <2>1. \A h \in listed' : InTime(h)
    BY <1>3 DEF EntriesInTime
  <2> QED
    BY <1>1, <2>1 DEF IInv, Phases, Before, After, InTime
<1>7. (Origin /\ Answered)'
  BY <1>1 DEF IInv, Origin, Answered, Came
<1>8. Early'
  BY <1>1 DEF IInv, Early, Waiting, Before
<1> QED
  BY <1>4, <1>5, <1>6, <1>7, <1>8 DEF IInv

\* Arrive preserves the inductive invariant.
LEMMA ArriveKeeps == IInv /\ Deliver => IInv'
<1> SUFFICES ASSUME IInv, Deliver PROVE IInv'
  OBVIOUS
<1>1. PICK m \in Deliverable :
         /\ sockbuf' = Append(sockbuf, m)
         /\ arrived' = Append(arrived, [id |-> m, at |-> time,
                                        early |-> mpc \in {"spawn", "join"}])
  BY DEF Deliver
<1>2. /\ mpc \in {"spawn", "join", "recv", "drain", "check"}
      /\ UNCHANGED <<mpc, loaded, left, spc, tid, sendTime, rtt, time, began, now,
                     batch, listed>>
  BY DEF Deliver, mainState, senders
<1> DEFINE a == [id |-> m, at |-> time, early |-> mpc \in {"spawn", "join"}]
           n == Len(arrived)
           l == Len(sockbuf)
<1>3. /\ m \in Ids /\ (m \in Hosts => spc[m] = "exited")
      /\ a \in [id : Ids, at : Nat, early : BOOLEAN]
      /\ a.id = m /\ a.at = time /\ (a.early <=> mpc \in {"spawn", "join"})
  <2>1. m \in Ids /\ (m \in Hosts => spc[m] = "exited")
    BY EngineAssumption DEF Deliverable, Ids, Hosts, Zero, Short
  <2>2. time \in Nat /\ (mpc \in {"spawn", "join"}) \in BOOLEAN
    BY DEF IInv, EngineTypeOK
  <2>3. a.id = m /\ a.at = time /\ (a.early <=> mpc \in {"spawn", "join"})
    OBVIOUS
  <2>4. a \in [id : Ids, at : Nat, early : BOOLEAN]
    BY <2>1, <2>2
  <2> QED
    BY <2>1, <2>3, <2>4
<1> HIDE DEF a
<1>4. /\ n \in Nat /\ l \in Nat
      /\ DOMAIN arrived = 1..n /\ DOMAIN arrived' = 1..(n + 1)
      /\ DOMAIN sockbuf = 1..l /\ DOMAIN sockbuf' = 1..(l + 1)
      /\ Len(arrived') = n + 1 /\ Len(sockbuf') = l + 1
      /\ arrived'[n + 1] = a /\ sockbuf'[l + 1] = m
      /\ \A i \in 1..n : arrived'[i] = arrived[i]
      /\ \A k \in 1..l : sockbuf'[k] = sockbuf[k]
  BY <1>1, AppendProperties, LenProperties DEF IInv, EngineTypeOK, a
<1>5. EngineTypeOK'
  BY <1>1, <1>2, <1>3, AppendProperties DEF IInv, EngineTypeOK, a
<1>6. Drawn'
  BY <1>2 DEF IInv, Drawn
<1> HIDE DEF n, l
<1>7. Phases'
  BY <1>2, <1>3, <1>4 DEF IInv, Phases, Before, After, InTime
<1>8. ASSUME NEW x, NEW t, Came(x, t)
      PROVE  \E i \in DOMAIN arrived' : arrived'[i].id = x /\ arrived'[i].at <= t
  <2>1. PICK i \in 1..n : arrived[i].id = x /\ arrived[i].at <= t
    BY <1>4, <1>8 DEF Came
  <2>2. i \in DOMAIN arrived' /\ arrived'[i] = arrived[i]
    BY <1>4, <2>1
  <2> QED
    BY <2>1, <2>2
<1>9. Origin'
  <2>1. ASSUME NEW k \in DOMAIN sockbuf'
        PROVE  \E i \in DOMAIN arrived' :
                  arrived'[i].id = sockbuf'[k] /\ arrived'[i].at <= time
    <3>1. CASE k \in 1..l
      BY <1>4, <1>8, <3>1 DEF IInv, Origin
    <3>2. CASE k = l + 1
      <4>1. n + 1 \in DOMAIN arrived' /\ arrived'[n + 1].id = sockbuf'[k]
        BY <1>3, <1>4, <3>2
      <4>2. arrived'[n + 1].at <= time
        BY <1>3, <1>4 DEF IInv, EngineTypeOK
      <4> QED
        BY <4>1, <4>2
    <3> QED
      BY <1>4, <3>1, <3>2
  <2>2. ASSUME NEW k \in DOMAIN batch
        PROVE  \E i \in DOMAIN arrived' :
                  arrived'[i].id = batch[k] /\ arrived'[i].at <= now
    BY <1>8 DEF IInv, Origin
  <2>3. ASSUME NEW i \in DOMAIN arrived', arrived'[i].id \in Hosts
        PROVE  spc[arrived'[i].id] = "exited"
    <3>1. CASE i \in 1..n
      BY <1>4, <2>3, <3>1 DEF IInv, Origin
    <3>2. CASE i = n + 1
      BY <1>3, <1>4, <2>3, <3>2
    <3> QED
      BY <1>4, <3>1, <3>2
  <2> QED
    BY <1>2, <2>1, <2>2, <2>3 DEF Origin, Came
<1>10. Answered'
  <2> SUFFICES ASSUME NEW h \in Hosts, rtt[h] # NoRtt
               PROVE  \/ /\ spc[h] = "exited"
                         /\ \E i \in DOMAIN arrived' :
                               arrived'[i].id = h /\ arrived'[i].at <= rtt[h] + sendTime[h]
                      \/ spc[h] # "exited" /\ rtt[h] >= Boot
    BY <1>2 DEF Answered, Came
  <2> QED
    BY <1>8 DEF IInv, Answered
<1>11. Early'
  <2> SUFFICES ASSUME NEW i \in DOMAIN arrived', i <= BatchSize, arrived'[i].early,
                      arrived'[i].id \in Hosts, rtt[arrived'[i].id] = NoRtt
               PROVE  \/ /\ mpc \in Before \union {"recv"}
                         /\ \E k \in DOMAIN sockbuf' :
                               k <= BatchSize /\ sockbuf'[k] = arrived'[i].id
                      \/ /\ mpc = "drain"
                         /\ \E k \in DOMAIN batch : batch[k] = arrived'[i].id
    BY <1>2, <1>4 DEF Early, Waiting
  <2>1. CASE i \in 1..n
    <3>1. arrived'[i] = arrived[i] /\ i \in DOMAIN arrived
      BY <1>4, <2>1
    <3>2. Waiting(arrived[i].id) \/ mpc = "crashed"
      BY <3>1 DEF IInv, Early
    <3>3. \A k \in DOMAIN sockbuf : k \in DOMAIN sockbuf' /\ sockbuf'[k] = sockbuf[k]
      BY <1>4
    <3> QED
      BY <1>2, <3>1, <3>2, <3>3 DEF Waiting
  <2>2. CASE i = n + 1
    <3>1. mpc \in {"spawn", "join"} /\ arrived'[i].id = m
      BY <1>3, <1>4, <2>2
    <3>2. l = n
      BY <3>1 DEF IInv, Phases, Before, l, n
    <3>3. i \in DOMAIN sockbuf' /\ sockbuf'[i] = m
      BY <1>4, <2>2, <3>2
    <3> QED
      BY <3>1, <3>3 DEF Before
  <2> QED
    BY <1>4, <2>1, <2>2
<1> QED
  BY <1>5, <1>6, <1>7, <1>9, <1>10, <1>11 DEF IInv

\* Tick preserves it.
LEMMA TickKeeps == IInv /\ ClockTick => IInv'
<1> SUFFICES ASSUME IInv, ClockTick PROVE IInv'
  OBVIOUS
<1>1. /\ time' = time + 1 /\ time \in Nat
      /\ UNCHANGED <<mpc, loaded, left, spc, tid, sendTime, rtt, began, now,
                     sockbuf, batch, listed, arrived>>
  BY DEF ClockTick, mainState, senders, inbox, IInv, EngineTypeOK
<1>2. EngineTypeOK'
  BY <1>1 DEF IInv, EngineTypeOK
<1>3. Drawn'
  BY <1>1 DEF IInv, Drawn
<1>4. Phases'
  BY <1>1, EngineAssumption DEF IInv, Phases, InTime
<1>5. Origin'
  <2>1. ASSUME NEW x, Came(x, time)
        PROVE  \E i \in DOMAIN arrived : arrived[i].id = x /\ arrived[i].at <= time + 1
    BY <1>1, <2>1, Numbers DEF IInv, Came
  <2> QED
    BY <1>1, <2>1 DEF IInv, Origin, Came
<1>6. (Answered /\ Early)'
  BY <1>1 DEF IInv, Answered, Early, Came, Waiting
<1> QED
  BY <1>2, <1>3, <1>4, <1>5, <1>6 DEF IInv

\* Every step preserves it.
LEMMA IInvNext == IInv /\ [EngineNext]_engineVars => IInv'
  BY LoadKeeps, CreateKeeps, SendKeeps, MoveKeeps, BeginKeeps, ReadyKeeps,
     HandleKeeps, ListKeeps, ArriveKeeps, TickKeeps DEF EngineNext, EngineMain

\* It is an invariant.
LEMMA Invariance == EngineSpec => []IInv
  BY IInvInit, IInvNext, PTL DEF EngineSpec

-----------------------------------------------------------------------------
(* The theorems.                                                           *)

\* The table, the batches and the list keep to their sizes.
THEOREM TypeCorrect == EngineSpec => []EngineTypeOK
<1>1. IInv => EngineTypeOK
  BY DEF IInv
<1> QED
  BY <1>1, Invariance, PTL

\* What is listed asked and was answered (epoll_burst.c l.114, l.161).
THEOREM ListIsAnswered == EngineSpec => []ListedWereAnswered
<1>1. ASSUME IInv PROVE ListedWereAnswered
  <2> SUFFICES ASSUME NEW h \in listed
               PROVE  /\ spc[h] = "exited"
                      /\ \E i \in DOMAIN arrived : /\ arrived[i].id = h
                                                   /\ rtt[h] >= arrived[i].at - sendTime[h]
    BY DEF ListedWereAnswered
  <2>1. h \in Hosts /\ rtt[h] >= 0 /\ rtt[h] < TimeLimit
    BY <1>1 DEF IInv, EngineTypeOK, Phases, InTime
  <2>2. rtt[h] # NoRtt /\ ~(rtt[h] >= Boot)
    BY <1>1, <2>1, Numbers DEF IInv
  <2>3. spc[h] = "exited" /\ Came(h, rtt[h] + sendTime[h])
    BY <1>1, <2>1, <2>2 DEF IInv, Answered
  <2>4. PICK i \in DOMAIN arrived : /\ arrived[i].id = h
                                    /\ arrived[i].at <= rtt[h] + sendTime[h]
    BY <2>3 DEF Came
  <2>5. rtt[h] >= arrived[i].at - sendTime[h]
    BY <1>1, <2>1, <2>4, Numbers DEF IInv
  <2> QED
    BY <2>3, <2>4, <2>5
<1> QED
  BY <1>1, Invariance, PTL

\* Answers that come while the threads are joined are counted, with times that
\* reach into the window (epoll_burst.c l.152-155).
THEOREM EarlyAnswersCount == EngineSpec => []EarlyAnswersCounted
<1>1. IInv => EarlyAnswersCounted
  BY DEF IInv, Early, Waiting, Phases, Before, After, EarlyAnswersCounted
<1> QED
  BY <1>1, Invariance, PTL
=============================================================================
