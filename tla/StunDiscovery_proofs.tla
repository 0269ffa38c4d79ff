------------------------ MODULE StunDiscovery_proofs ------------------------
(***************************************************************************)
(* What holds of StunDiscovery for every number of servers, every batch    *)
(* size, every window and every behaviour of the network.                  *)
(***************************************************************************)
EXTENDS StunDiscovery, SequenceTheorems, FiniteSetTheorems, TLAPS

USE DEF Hosts, NoHost, NoRtt

-----------------------------------------------------------------------------
(* The inductive invariant.                                                *)

\* A datagram of the receive buffer answers a request that was sent.
Legal == {m \in Msgs : m.host # NoHost => m.tid \in 1..tid[m.host]}

\* No entry was stamped after the time the current batch is stamped with.
Timing == /\ \A h \in Hosts : sendTime[h] <= clock
          /\ pc = "drain" => \A h \in Hosts : sendTime[h] <= now

Traffic == /\ tid \in [Hosts -> 0..round]
           /\ sockbuf \in Seq(Legal)
           /\ batch \in Seq(Legal)

\* Which entries a round asks: all of them, then only answered ones.
Rounds == /\ pc = "load" => /\ round = 1 /\ loaded = {} /\ heard = <<>>
                            /\ rtt = [h \in Hosts |-> NoRtt]
          /\ pc = "retry" => round = 1
          /\ round = 1 => targets = loaded
          /\ round = 2 => \A h \in targets : rtt[h] # NoRtt

\* Only loaded entries are asked, timed, and given an address.
Table == \A h \in Hosts : /\ mapped[h] => rtt[h] # NoRtt
                          /\ rtt[h] # NoRtt => h \in loaded

\* A server in the history has its round-trip time.
History == \A i \in DOMAIN heard : /\ heard[i].ms \in Nat
                                   /\ heard[i].host \in loaded
                                   /\ rtt[heard[i].host] # NoRtt

Ranking == /\ pc = "publish" => order \in SortedOrders
           /\ pc # "done" => shm = NoHost

IInv == /\ TypeOK /\ Timing /\ Traffic /\ Rounds /\ Table /\ History
        /\ Ranking /\ FirstAnswerWins /\ BestIsFastestValid

-----------------------------------------------------------------------------
(* Lemmas about the operators.                                             *)

\* BatchLen never exceeds what the receive buffer holds.
LEMMA BatchLenBounds ==
    ASSUME NEW S, sockbuf \in Seq(S)
    PROVE  BatchLen \in 0..Len(sockbuf)
  BY SizesAssumption, LenProperties DEF BatchLen

\* recvmmsg hands over a prefix and leaves the rest, of the same datagrams.
LEMMA SplitBuffer ==
    ASSUME NEW S, sockbuf \in Seq(S)
    PROVE  /\ SubSeq(sockbuf, 1, BatchLen) \in Seq(S)
           /\ SubSeq(sockbuf, BatchLen + 1, Len(sockbuf)) \in Seq(S)
<1>1. BatchLen \in 0..Len(sockbuf) /\ Len(sockbuf) \in Nat
  BY BatchLenBounds, LenProperties
<1>2. \A i \in 1..Len(sockbuf) : sockbuf[i] \in S
  BY ElementOfSeq
<1>3. \A i \in 1..BatchLen : sockbuf[i] \in S
  BY <1>1, <1>2
<1>4. \A i \in (BatchLen + 1)..Len(sockbuf) : sockbuf[i] \in S
  BY <1>1, <1>2
<1> QED
  BY <1>1, <1>3, <1>4, SubSeqProperties

\* The table of loaded entries is finite, so an order of it is a sequence.
LEMMA LoadedFinite ==
    ASSUME loaded \in SUBSET Hosts
    PROVE  Cardinality(loaded) \in Nat
<1>1. IsFiniteSet(Hosts)
  BY SizesAssumption, FS_Interval
<1> QED
  BY <1>1, FS_Subset, FS_CardinalityType

\* load_stun_servers fills at most MAX_STUN entries: an entry's index is the
\* number of names before it that resolved, and no two entries share one.
LEMMA FirstEntriesFit ==
    ASSUME NEW resolved \in SUBSET Hosts
    PROVE  Cardinality(FirstEntries(resolved)) <= MaxStun
<1> DEFINE Before(h) == {g \in resolved : g < h}
           F == FirstEntries(resolved)
           I == 0..(MaxStun - 1)
           index == [h \in F |-> Cardinality(Before(h))]
<1>1. /\ IsFiniteSet(F) /\ Cardinality(F) \in Nat
      /\ \A h \in Hosts : IsFiniteSet(Before(h)) /\ Cardinality(Before(h)) \in Nat
  <2>1. IsFiniteSet(Hosts)
    BY SizesAssumption, FS_Interval
  <2>2. F \in SUBSET Hosts
    BY DEF FirstEntries
  <2>3. \A h \in Hosts : Before(h) \in SUBSET Hosts
    OBVIOUS
  <2> QED
    BY <2>1, <2>2, <2>3, FS_Subset, FS_CardinalityType
<1>2. IsFiniteSet(I) /\ Cardinality(I) = MaxStun
  BY SizesAssumption, FS_Interval
<1>3. index \in [F -> I]
  <2> SUFFICES ASSUME NEW h \in F PROVE Cardinality(Before(h)) \in I
    OBVIOUS
  <2>1. h \in Hosts /\ Cardinality(Before(h)) < MaxStun
    BY DEF FirstEntries
  <2>2. Cardinality(Before(h)) \in Nat
    BY <1>1, <2>1
  <2> QED
    BY <2>1, <2>2, SizesAssumption
<1>4. ASSUME NEW x \in F, NEW y \in F, x < y
      PROVE  index[x] # index[y]
  <2>1. x \in resolved /\ x \in Hosts /\ y \in Hosts
    BY DEF FirstEntries
  <2>2. /\ \A g \in Hosts : g < x => g < y
        /\ ~(x < x)
    BY <1>4, <2>1, SizesAssumption
  <2>3. Before(x) \in SUBSET Before(y) /\ x \in Before(y) /\ x \notin Before(x)
    BY <1>4, <2>1, <2>2
  <2>4. Cardinality(Before(x)) # Cardinality(Before(y))
    BY <1>1, <2>1, <2>3, FS_Subset
  <2> QED
    BY <2>4
<1>5. \A x, y \in F : x # y => index[x] # index[y]
  <2> SUFFICES ASSUME NEW x \in F, NEW y \in F, x # y PROVE index[x] # index[y]
    OBVIOUS
  <2>1. x < y \/ y < x
    BY DEF FirstEntries
  <2> QED
    BY <1>4, <2>1
<1> HIDE DEF F, I, index
<1>6. ~(Cardinality(I) < Cardinality(F))
  BY <1>1, <1>2, <1>3, <1>5, FS_PigeonHole
<1> QED
  BY <1>1, <1>2, <1>6, SizesAssumption DEF F

\* The first valid entry of a sorted table is a fastest valid one.
LEMMA FirstValidIsFastest ==
    ASSUME TypeOK, Table, order \in SortedOrders,
           NEW i \in DOMAIN order, IsBest(i)
    PROVE  /\ order[i] \in loaded /\ mapped[order[i]]
           /\ \A h \in loaded : mapped[h] => rtt[order[i]] <= rtt[h]
<1>1. Cardinality(loaded) \in Nat
  BY LoadedFinite DEF TypeOK
<1>2. /\ order \in [1..Cardinality(loaded) -> loaded]
      /\ \A h \in loaded : \E j \in DOMAIN order : order[j] = h
      /\ \A j, k \in DOMAIN order : j < k => MayPrecede(order[j], order[k])
  BY DEF SortedOrders
<1>3. order[i] \in loaded /\ mapped[order[i]]
  BY <1>2 DEF IsBest
<1>4. ASSUME NEW h \in loaded, mapped[h]
      PROVE  rtt[order[i]] <= rtt[h]
  <2>1. PICK j \in DOMAIN order : order[j] = h
    BY <1>2
  <2>2. rtt[h] \in Nat /\ rtt[order[i]] \in Nat
    BY <1>3, <1>4 DEF TypeOK, Table
  <2>3. i \in Int /\ j \in Int /\ ~(j < i)
    BY <1>1, <1>2, <1>4, <2>1 DEF IsBest
  <2>4. CASE j = i
    BY <2>1, <2>2, <2>4
  <2>5. CASE i < j
    <3>1. MayPrecede(order[i], h)
      BY <1>2, <2>1, <2>5
    <3> QED
      BY <2>2, <3>1 DEF MayPrecede
  <2> QED
    BY <2>3, <2>4, <2>5
<1> QED
  BY <1>3, <1>4

-----------------------------------------------------------------------------
(* One lemma per action: it preserves the inductive invariant.             *)

\* What the history says of the table stands while neither is touched.
LEMMA HistoryFrame ==
    ASSUME FirstAnswerWins, UNCHANGED <<loaded, rtt, mapped, heard>>
    PROVE  FirstAnswerWins'
  BY DEF FirstAnswerWins, Answers

\* The inductive invariant holds initially.
LEMMA InitInv == Init => IInv
<1> SUFFICES ASSUME Init PROVE IInv
  OBVIOUS
<1> USE DEF Init
<1>1. TypeOK
  BY EmptySeq DEF TypeOK
<1>2. Timing /\ Rounds /\ Table /\ History /\ Ranking /\ BestIsFastestValid
  BY DEF Timing, Rounds, Table, History, Ranking, BestIsFastestValid
<1>3. Traffic
  BY EmptySeq DEF Traffic
<1>4. FirstAnswerWins
  BY DEF FirstAnswerWins
<1> QED
  BY <1>1, <1>2, <1>3, <1>4 DEF IInv

\* Load preserves it.
LEMMA LoadInv == IInv /\ Load => IInv'
<1> SUFFICES ASSUME IInv, Load PROVE IInv'
  OBVIOUS
<1> USE DEF IInv, Load, table, times, inbox, outcome
<1>1. loaded' \in SUBSET Hosts /\ targets' = loaded' /\ todo' = loaded'
  BY DEF FirstEntries
<1>2. TypeOK'
  <2>1. order \in Seq(loaded')
    BY <1>1, SeqMonotonic DEF TypeOK, Rounds
  <2> QED
    BY <1>1, <2>1 DEF TypeOK
<1>3. Timing' /\ Rounds' /\ Table' /\ History' /\ Ranking' /\ BestIsFastestValid'
  BY <1>1 DEF TypeOK, Timing, Rounds, Table, History, Ranking, BestIsFastestValid
<1>4. Traffic'
  BY DEF Traffic, Legal
<1>5. FirstAnswerWins'
  BY <1>1 DEF TypeOK, FirstAnswerWins, Answers, Rounds, Table
<1> QED
  BY <1>2, <1>3, <1>4, <1>5

\* Send preserves it.
LEMMA SendInv == ASSUME NEW h \in Hosts PROVE IInv /\ SendRequest(h) => IInv'
<1> SUFFICES ASSUME IInv, SendRequest(h) PROVE IInv'
  OBVIOUS
<1> USE DEF IInv, SendRequest, times, inbox, outcome
<1>1. TypeOK'
  BY DEF TypeOK
<1>2. Timing' /\ Rounds' /\ Table' /\ History' /\ Ranking' /\ BestIsFastestValid'
  BY DEF TypeOK, Timing, Rounds, Table, History, Ranking, BestIsFastestValid, SortedOrders
<1>3. Traffic'
  <2>1. tid' \in [Hosts -> 0..round']
    BY DEF TypeOK, Traffic
  <2>2. Legal \subseteq Legal'
    BY DEF TypeOK, Traffic, Legal, Msgs
  <2> QED
    BY <2>1, <2>2, SeqMonotonic DEF Traffic
<1>4. FirstAnswerWins'
  BY HistoryFrame
<1> QED
  BY <1>1, <1>2, <1>3, <1>4

\* BeginReceive preserves it.
LEMMA BeginInv == IInv /\ BeginReceive => IInv'
<1> SUFFICES ASSUME IInv, BeginReceive PROVE IInv'
  OBVIOUS
<1> USE DEF IInv, BeginReceive, table, inbox, outcome
<1>1. TypeOK'
  BY DEF TypeOK
<1>2. Timing' /\ Rounds' /\ Table' /\ History' /\ Ranking' /\ BestIsFastestValid'
  BY DEF TypeOK, Timing, Rounds, Table, History, Ranking, BestIsFastestValid
<1>3. Traffic'
  BY DEF Traffic, Legal
<1>4. FirstAnswerWins'
  BY HistoryFrame
<1> QED
  BY <1>1, <1>2, <1>3, <1>4

\* EpollReady preserves it.
LEMMA ReadyInv == IInv /\ EpollReady => IInv'
<1> SUFFICES ASSUME IInv, EpollReady PROVE IInv'
  OBVIOUS
<1> USE DEF IInv, EpollReady, table, outcome
<1>1. TypeOK'
  <2>1. sockbuf' \in Seq(Msgs) /\ batch' \in Seq(Msgs)
    BY SplitBuffer DEF TypeOK
  <2> QED
    BY <2>1 DEF TypeOK
<1>2. Timing' /\ Rounds' /\ Table' /\ History' /\ Ranking' /\ BestIsFastestValid'
  BY DEF TypeOK, Timing, Rounds, Table, History, Ranking, BestIsFastestValid
<1>3. Traffic'
  <2>1. sockbuf' \in Seq(Legal) /\ batch' \in Seq(Legal)
    BY SplitBuffer DEF Traffic
  <2>2. Legal' = Legal
    BY DEF Legal
  <2> QED
    BY <2>1, <2>2 DEF Traffic
<1>4. FirstAnswerWins'
  BY HistoryFrame
<1> QED
  BY <1>1, <1>2, <1>3, <1>4

\* The actions that leave table, buffers and history alone and only move
\* main or the clock.
LEMMA QuietInv ==
    ASSUME IInv, FinishBatch \/ EpollTimeout \/ LeaveWindow \/ StayInWindow
                   \/ SkipRetry \/ Tick \/ UNCHANGED vars
    PROVE  IInv'
<1> USE DEF IInv, table, times, phase, inbox, outcome
<1> DEFINE Quiet == FinishBatch \/ EpollTimeout \/ LeaveWindow \/ StayInWindow
                      \/ SkipRetry
<1>1. CASE Quiet
  <2> USE <1>1 DEF FinishBatch, EpollTimeout, LeaveWindow, StayInWindow, SkipRetry
  <2>1. TypeOK'
    BY DEF TypeOK
  <2>2. Timing' /\ Rounds' /\ Table' /\ History' /\ Ranking' /\ BestIsFastestValid'
    BY DEF TypeOK, Timing, Rounds, Table, History, Ranking, BestIsFastestValid
  <2>3. Traffic'
    BY DEF Traffic, Legal
  <2>4. FirstAnswerWins'
    BY HistoryFrame
  <2> QED
    BY <2>1, <2>2, <2>3, <2>4
<1>2. CASE Tick
  <2> USE <1>2 DEF Tick, Receiving
  <2>1. TypeOK'
    BY DEF TypeOK
  <2>2. Timing'
    BY DEF TypeOK, Timing
  <2>3. Rounds' /\ Table' /\ History' /\ Ranking' /\ BestIsFastestValid'
    BY DEF Rounds, Table, History, Ranking, BestIsFastestValid
  <2>4. Traffic'
    BY DEF Traffic, Legal
  <2>5. FirstAnswerWins'
    BY HistoryFrame
  <2> QED
    BY <2>1, <2>2, <2>3, <2>4, <2>5
<1>3. CASE UNCHANGED vars
  <2> USE <1>3 DEF vars
  <2>1. TypeOK'
    BY DEF TypeOK
  <2>2. Timing' /\ Rounds' /\ Table' /\ History' /\ BestIsFastestValid'
    BY DEF Timing, Rounds, Table, History, BestIsFastestValid
  <2>3. Ranking'
    BY DEF Ranking, SortedOrders, MayPrecede
  <2>4. Traffic'
    BY DEF Traffic, Legal
  <2>5. FirstAnswerWins'
    BY HistoryFrame
  <2> QED
    BY <2>1, <2>2, <2>3, <2>4, <2>5
<1> QED
  BY <1>1, <1>2, <1>3

\* PlanRetry preserves it.
LEMMA PlanInv == IInv /\ PlanRetry => IInv'
<1> SUFFICES ASSUME IInv, PlanRetry PROVE IInv'
  OBVIOUS
<1> USE DEF IInv, PlanRetry, RetryTargets, table, inbox, outcome
<1>1. TypeOK'
  BY DEF TypeOK
<1>2. Timing' /\ Rounds' /\ Table' /\ History' /\ Ranking' /\ BestIsFastestValid'
  BY DEF TypeOK, Timing, Rounds, Table, History, Ranking, BestIsFastestValid
<1>3. Traffic'
  BY DEF TypeOK, Traffic, Rounds, Legal
<1>4. FirstAnswerWins'
  BY HistoryFrame
<1> QED
  BY <1>1, <1>2, <1>3, <1>4

\* Sort preserves it.
LEMMA SortInv == IInv /\ Sort => IInv'
<1> SUFFICES ASSUME IInv, Sort PROVE IInv'
  OBVIOUS
<1> USE DEF IInv, Sort, table, times, inbox
<1>1. TypeOK'
  <2>1. Cardinality(loaded) \in Nat
    BY LoadedFinite DEF TypeOK
  <2>2. order' \in Seq(loaded)
    BY <2>1 DEF SortedOrders
  <2> QED
    BY <2>2 DEF TypeOK
<1>2. Timing' /\ Rounds' /\ Table' /\ History' /\ BestIsFastestValid'
  BY DEF TypeOK, Timing, Rounds, Table, History, BestIsFastestValid
<1>3. Ranking'
  <2>1. SortedOrders' = SortedOrders
    BY DEF SortedOrders, MayPrecede
  <2> QED
    BY <2>1 DEF Ranking
<1>4. Traffic'
  BY DEF Traffic, Legal
<1>5. FirstAnswerWins'
  BY HistoryFrame
<1> QED
  BY <1>1, <1>2, <1>3, <1>4, <1>5

\* Publish preserves it.
LEMMA PublishInv == IInv /\ Publish => IInv'
<1> SUFFICES ASSUME IInv, Publish PROVE IInv'
  OBVIOUS
<1> USE DEF IInv, Publish, table, times, inbox
<1>1. order \in SortedOrders
  BY DEF Ranking
<1>2. BestIsFastestValid'
  <2>1. CASE \A i \in DOMAIN order : ~mapped[order[i]]
    <3>1. \A h \in loaded : ~mapped[h]
      BY <1>1, <2>1 DEF SortedOrders
    <3>2. \A i \in DOMAIN order : ~IsBest(i)
      BY <2>1 DEF IsBest
    <3> QED
      BY <3>1, <3>2 DEF BestIsFastestValid, Ranking
  <2>2. CASE \E i \in DOMAIN order : IsBest(i) /\ shm' = order[i]
    <3>1. PICK i \in DOMAIN order : IsBest(i) /\ shm' = order[i]
      BY <2>2
    <3>2. /\ shm' \in loaded /\ mapped[shm']
          /\ \A h \in loaded : mapped[h] => rtt[shm'] <= rtt[h]
      BY <1>1, <3>1, FirstValidIsFastest
    <3> QED
      BY <3>2 DEF BestIsFastestValid
  <2> QED
    BY <2>1, <2>2
<1>3. TypeOK'
  <2>1. shm' \in Hosts \union {NoHost}
    BY <1>1 DEF TypeOK, SortedOrders
  <2> QED
    BY <2>1 DEF TypeOK
<1>4. Timing' /\ Rounds' /\ Table' /\ History' /\ Ranking'
  BY DEF TypeOK, Timing, Rounds, Table, History, Ranking
<1>5. Traffic'
  BY DEF Traffic, Legal
<1>6. FirstAnswerWins'
  BY HistoryFrame
<1> QED
  BY <1>2, <1>3, <1>4, <1>5, <1>6

\* Arrive preserves it.
LEMMA ArriveInv == IInv /\ Arrive => IInv'
<1> SUFFICES ASSUME IInv, Arrive PROVE IInv'
  OBVIOUS
<1> USE DEF IInv, Arrive, phase, table, times, outcome
<1>1. PICK m \in Deliverable : sockbuf' = Append(sockbuf, m)
  OBVIOUS
<1>2. m \in Legal /\ m \in Msgs
  BY DEF Deliverable, Legal, Msgs
<1>3. TypeOK'
  BY <1>1, <1>2 DEF TypeOK
<1>4. Timing' /\ Rounds' /\ Table' /\ History' /\ Ranking' /\ BestIsFastestValid'
  BY DEF TypeOK, Timing, Rounds, Table, History, Ranking, BestIsFastestValid
<1>5. Traffic'
  <2>1. Legal' = Legal
    BY DEF Legal
  <2> QED
    BY <1>1, <1>2, <2>1 DEF Traffic
<1>6. FirstAnswerWins'
  BY HistoryFrame
<1> QED
  BY <1>3, <1>4, <1>5, <1>6

\* An answer is taken in the first round only, by the server it comes from.
LEMMA OwnersAre ==
    ASSUME IInv, NEW m \in Legal
    PROVE  Owners(m) = IF /\ round = 1 /\ m.kind # "short"
                          /\ m.host \in loaded /\ rtt[m.host] = NoRtt
                       THEN {m.host} ELSE {}
<1> USE DEF IInv
<1>1. Owners(m) \subseteq {m.host}
  BY DEF Owners
<1>2. m.host \in Owners(m) => /\ round = 1 /\ m.kind # "short"
                              /\ m.host \in loaded /\ rtt[m.host] = NoRtt
  <2>1. SUFFICES ASSUME m.host \in Owners(m)
                 PROVE  round = 1 /\ m.host \in loaded
    BY DEF Owners
  <2>2. m.host \in targets /\ rtt[m.host] = NoRtt
    BY <2>1 DEF Owners
  <2>3. targets \subseteq loaded /\ round \in 1..2
    BY DEF TypeOK
  <2> QED
    BY <2>2, <2>3 DEF Rounds
<1>3. ASSUME round = 1, m.kind # "short", m.host \in loaded, rtt[m.host] = NoRtt
      PROVE  m.host \in Owners(m)
  <2>1. m.host \in Hosts
    BY <1>3 DEF TypeOK
  <2>2. m.tid \in 1..tid[m.host] /\ tid[m.host] \in 0..1
    BY <1>3, <2>1 DEF Legal, Traffic
  <2>3. m.tid = tid[m.host]
    BY <2>2
  <2> QED
    BY <1>3, <2>3 DEF Owners, Rounds
<1> QED
  BY <1>1, <1>2, <1>3

\* The history grows at its end.
LEMMA HistoryGrows ==
    ASSUME TypeOK, NEW e, heard' = Append(heard, e)
    PROVE  /\ Len(heard) \in Nat
           /\ DOMAIN heard = 1..Len(heard)
           /\ DOMAIN heard' = 1..(Len(heard) + 1)
           /\ \A i \in 1..Len(heard) : heard'[i] = heard[i]
           /\ heard'[Len(heard) + 1] = e
  BY DEF TypeOK

\* A round-trip time is never negative.
LEMMA StampBeforeNow ==
    ASSUME TypeOK, Timing, pc = "drain", NEW h \in loaded
    PROVE  now - sendTime[h] \in Nat
<1>1. h \in Hosts /\ now \in Nat
  BY DEF TypeOK
<1>2. sendTime[h] \in Nat /\ sendTime[h] <= now
  BY <1>1 DEF TypeOK, Timing
<1> QED
  BY <1>1, <1>2

\* HandleMsg when the datagram is the server's first answer.
LEMMA TakeAnswer ==
    ASSUME IInv, NEW h \in loaded, NEW k \in Kinds \ {"short"},
           pc = "drain", rtt[h] = NoRtt,
           rtt' = [rtt EXCEPT ![h] = now - sendTime[h]],
           mapped' = [mapped EXCEPT ![h] = @ \/ k = "mapped"],
           heard' = Append(heard, [host |-> h, kind |-> k,
                                   ms |-> now - sendTime[h]]),
           loaded' = loaded
    PROVE  /\ rtt' \in [Hosts -> Nat \union {NoRtt}]
           /\ mapped' \in [Hosts -> BOOLEAN]
           /\ heard' \in Seq([host : Hosts, kind : Kinds \ {"short"}, ms : Int])
           /\ Table' /\ History' /\ FirstAnswerWins'
<1> USE DEF IInv
<1> DEFINE e == [host |-> h, kind |-> k, ms |-> now - sendTime[h]]
<1>1. now - sendTime[h] \in Nat
  BY StampBeforeNow
<1>2. /\ rtt' \in [Hosts -> Nat \union {NoRtt}]
      /\ mapped' \in [Hosts -> BOOLEAN]
  BY <1>1 DEF TypeOK
<1>3. heard' \in Seq([host : Hosts, kind : Kinds \ {"short"}, ms : Int])
  <2>1. e \in [host : Hosts, kind : Kinds \ {"short"}, ms : Int]
    BY <1>1 DEF TypeOK
  <2> QED
    BY <2>1 DEF TypeOK
<1>4. Table'
  BY <1>1, <1>2 DEF Table, TypeOK
<1>5. /\ Len(heard) \in Nat
      /\ DOMAIN heard = 1..Len(heard)
      /\ DOMAIN heard' = 1..(Len(heard) + 1)
      /\ \A i \in 1..Len(heard) : heard'[i] = heard[i]
      /\ heard'[Len(heard) + 1] = e
  BY HistoryGrows
<1>6. History'
  <2>1. ASSUME NEW i \in 1..(Len(heard) + 1)
        PROVE  /\ heard'[i].ms \in Nat
               /\ heard'[i].host \in loaded'
               /\ rtt'[heard'[i].host] # NoRtt
    <3>1. CASE i = Len(heard) + 1
      BY <1>1, <1>5, <3>1 DEF TypeOK
    <3>2. CASE i \in 1..Len(heard)
      BY <1>1, <1>5, <3>2 DEF History, TypeOK
    <3> QED
      BY <1>5, <2>1, <3>1, <3>2
  <2> QED
    BY <1>5, <2>1 DEF History
<1>7. Answers(h) = {}
  BY <1>5 DEF Answers, History
<1>8. Answers(h)' = {Len(heard) + 1}
  BY <1>5, <1>7 DEF Answers
<1>9. \A g \in loaded \ {h} : Answers(g)' = Answers(g)
  BY <1>5 DEF Answers
<1>10. ASSUME NEW g \in loaded, g # h
       PROVE  /\ rtt'[g] = rtt[g] /\ mapped'[g] = mapped[g]
              /\ \A i \in Answers(g) : heard'[i] = heard[i]
  BY <1>5, <1>10 DEF TypeOK, Answers
<1>11. rtt'[h] = e.ms /\ mapped'[h] = (k = "mapped")
  BY DEF TypeOK, Table
<1> HIDE DEF e
<1>12. ASSUME NEW g \in loaded
       PROVE  /\ Answers(g)' = {} => rtt'[g] = NoRtt /\ ~mapped'[g]
              /\ \A i \in Answers(g)' :
                    (\A j \in Answers(g)' : i <= j) =>
                        /\ rtt'[g] = heard'[i].ms
                        /\ mapped'[g] = (heard'[i].kind = "mapped")
  <2>1. CASE g = h
    BY <1>5, <1>8, <1>11, <2>1 DEF e
  <2>2. CASE g # h
    <3>1. Answers(g)' = Answers(g) /\ rtt'[g] = rtt[g] /\ mapped'[g] = mapped[g]
      BY <1>9, <1>10, <2>2
    <3>2. \A i \in Answers(g) : heard'[i] = heard[i]
      BY <1>10, <2>2
    <3>3. /\ Answers(g) = {} => rtt[g] = NoRtt /\ ~mapped[g]
          /\ \A i \in Answers(g) :
                (\A j \in Answers(g) : i <= j) =>
                    /\ rtt[g] = heard[i].ms
                    /\ mapped[g] = (heard[i].kind = "mapped")
      BY DEF FirstAnswerWins
    <3> QED
      BY <3>1, <3>2, <3>3
  <2> QED
    BY <2>1, <2>2
<1>13. FirstAnswerWins'
  BY <1>12 DEF FirstAnswerWins
<1> QED
  BY <1>2, <1>3, <1>4, <1>6, <1>13

\* HandleMsg when a server that has its verdict is heard once more.
LEMMA IgnoreAnswer ==
    ASSUME IInv, NEW h \in loaded, NEW k \in Kinds \ {"short"},
           pc = "drain", rtt[h] # NoRtt,
           UNCHANGED <<rtt, mapped, loaded>>,
           heard' = Append(heard, [host |-> h, kind |-> k,
                                   ms |-> now - sendTime[h]])
    PROVE  /\ heard' \in Seq([host : Hosts, kind : Kinds \ {"short"}, ms : Int])
           /\ Table' /\ History' /\ FirstAnswerWins'
<1> USE DEF IInv
<1> DEFINE e == [host |-> h, kind |-> k, ms |-> now - sendTime[h]]
<1>1. now - sendTime[h] \in Nat
  BY StampBeforeNow
<1>2. heard' \in Seq([host : Hosts, kind : Kinds \ {"short"}, ms : Int])
  <2>1. e \in [host : Hosts, kind : Kinds \ {"short"}, ms : Int]
    BY <1>1 DEF TypeOK
  <2> QED
    BY <2>1 DEF TypeOK
<1>3. Table'
  BY DEF Table
<1>4. /\ Len(heard) \in Nat
      /\ DOMAIN heard = 1..Len(heard)
      /\ DOMAIN heard' = 1..(Len(heard) + 1)
      /\ \A i \in 1..Len(heard) : heard'[i] = heard[i]
      /\ heard'[Len(heard) + 1] = e
  BY HistoryGrows
<1>5. History'
  <2>1. ASSUME NEW i \in 1..(Len(heard) + 1)
        PROVE  /\ heard'[i].ms \in Nat
               /\ heard'[i].host \in loaded'
               /\ rtt'[heard'[i].host] # NoRtt
    <3>1. CASE i = Len(heard) + 1
      BY <1>1, <1>4, <3>1
    <3>2. CASE i \in 1..Len(heard)
      BY <1>4, <3>2 DEF History
    <3> QED
      BY <1>4, <2>1, <3>1, <3>2
  <2> QED
    BY <1>4, <2>1 DEF History
<1>6. PICK first \in Answers(h) : TRUE
  BY DEF FirstAnswerWins
<1>7. /\ \A g \in loaded : Answers(g) \subseteq Answers(g)'
      /\ \A g \in loaded : \A i \in Answers(g) : i \in 1..Len(heard)
      /\ \A g \in loaded \ {h} : Answers(g)' = Answers(g)
      /\ Answers(h)' = Answers(h) \union {Len(heard) + 1}
  BY <1>4 DEF Answers
<1> HIDE DEF e
<1>8. ASSUME NEW g \in loaded
      PROVE  /\ Answers(g)' = {} => rtt'[g] = NoRtt /\ ~mapped'[g]
             /\ \A i \in Answers(g)' :
                   (\A j \in Answers(g)' : i <= j) =>
                       /\ rtt'[g] = heard'[i].ms
                       /\ mapped'[g] = (heard'[i].kind = "mapped")
  <2>1. Answers(g)' = {} => Answers(g) = {}
    BY <1>7
  <2>2. ASSUME NEW i \in Answers(g)', \A j \in Answers(g)' : i <= j
        PROVE  i \in Answers(g) /\ heard'[i] = heard[i]
    <3>1. i # Len(heard) + 1 \/ g # h
      BY <1>4, <1>6, <1>7, <2>2
    <3>2. i \in Answers(g)
      BY <1>7, <3>1
    <3> QED
      BY <1>4, <1>7, <3>2
  <2> QED
    BY <1>7, <2>1, <2>2 DEF FirstAnswerWins
<1>9. FirstAnswerWins'
  BY <1>8 DEF FirstAnswerWins
<1> QED
  BY <1>2, <1>3, <1>5, <1>9

\* HandleMsg preserves it.
LEMMA HandleInv == IInv /\ HandleMsg => IInv'
<1> SUFFICES ASSUME IInv, HandleMsg PROVE IInv'
  OBVIOUS
<1> DEFINE m == Head(batch)
<1> USE DEF IInv, phase, times, outcome
<1>1. /\ pc = "drain" /\ batch # <<>> /\ batch' = Tail(batch)
      /\ UNCHANGED <<phase, tid, sendTime, times, sockbuf, outcome, arrivals>>
      /\ heard' = Remember(m)
      /\ \/ \E h \in Owners(m) : Record(h, m)
         \/ Owners(m) = {} /\ UNCHANGED <<rtt, mapped>>
  BY DEF HandleMsg
<1>2. /\ m \in Legal /\ m \in Msgs
      /\ batch' \in Seq(Legal) /\ batch' \in Seq(Msgs)
  BY <1>1, HeadTailProperties DEF Traffic, TypeOK
<1> HIDE DEF m
<1>3. /\ rtt' \in [Hosts -> Nat \union {NoRtt}]
      /\ mapped' \in [Hosts -> BOOLEAN]
      /\ heard' \in Seq([host : Hosts, kind : Kinds \ {"short"}, ms : Int])
      /\ Table' /\ History' /\ FirstAnswerWins'
      /\ \A h \in Hosts : rtt[h] # NoRtt => rtt'[h] # NoRtt
  <2> DEFINE answer == round = 1 /\ m.host \in loaded /\ m.kind # "short"
  <2>1. CASE answer /\ rtt[m.host] = NoRtt
    <3>1. Owners(m) = {m.host}
      BY <1>2, <2>1, OwnersAre
    <3>2. Record(m.host, m)
      BY <1>1, <3>1
    <3>3. heard' = Append(heard, [host |-> m.host, kind |-> m.kind,
                                  ms |-> now - sendTime[m.host]])
      BY <1>1, <2>1 DEF Remember
    <3>4. /\ rtt' \in [Hosts -> Nat \union {NoRtt}]
          /\ mapped' \in [Hosts -> BOOLEAN]
          /\ heard' \in Seq([host : Hosts, kind : Kinds \ {"short"}, ms : Int])
          /\ Table' /\ History' /\ FirstAnswerWins'
      BY <1>1, <1>2, <2>1, <3>2, <3>3, TakeAnswer DEF Record, Msgs
    <3>5. \A h \in Hosts : rtt[h] # NoRtt => rtt'[h] # NoRtt
      BY <2>1, <3>2 DEF Record, TypeOK
    <3> QED
      BY <3>4, <3>5
  <2>2. CASE answer /\ rtt[m.host] # NoRtt
    <3>1. Owners(m) = {}
      BY <1>2, <2>2, OwnersAre
    <3>2. UNCHANGED <<rtt, mapped, loaded>>
      BY <1>1, <3>1
    <3>3. heard' = Append(heard, [host |-> m.host, kind |-> m.kind,
                                  ms |-> now - sendTime[m.host]])
      BY <1>1, <2>2 DEF Remember
    <3> QED
      BY <1>1, <1>2, <2>2, <3>2, <3>3, IgnoreAnswer DEF Msgs, TypeOK
  <2>3. CASE ~answer
    <3>1. Owners(m) = {}
      BY <1>2, <2>3, OwnersAre
    <3>2. UNCHANGED <<rtt, mapped, loaded, heard>>
      BY <1>1, <2>3, <3>1 DEF Remember
    <3> QED
      BY <3>2, HistoryFrame DEF TypeOK, Table, History
  <2> QED
    BY <2>1, <2>2, <2>3
<1>4. TypeOK'
  BY <1>1, <1>2, <1>3 DEF TypeOK
<1>5. Timing' /\ Rounds' /\ Ranking' /\ BestIsFastestValid'
  BY <1>1, <1>3 DEF TypeOK, Timing, Rounds, Ranking, BestIsFastestValid
<1>6. Traffic'
  BY <1>1, <1>2 DEF Traffic, Legal
<1> QED
  BY <1>3, <1>4, <1>5, <1>6

\* Every step preserves the inductive invariant.
LEMMA StepInv == IInv /\ [Next]_vars => IInv'
<1> SUFFICES ASSUME IInv, [Next]_vars PROVE IInv'
  OBVIOUS
<1>1. CASE \E h \in Hosts : SendRequest(h)
  BY <1>1, SendInv
<1>2. CASE Load \/ BeginReceive \/ EpollReady \/ HandleMsg
  BY <1>2, LoadInv, BeginInv, ReadyInv, HandleInv
<1>3. CASE PlanRetry \/ Sort \/ Publish \/ Arrive
  BY <1>3, PlanInv, SortInv, PublishInv, ArriveInv
<1>4. CASE \/ FinishBatch \/ EpollTimeout \/ LeaveWindow \/ StayInWindow
           \/ SkipRetry \/ Tick \/ UNCHANGED vars
  BY <1>4, QuietInv
<1>5. CASE Done
  BY <1>5, QuietInv DEF Done
<1> QED
  BY <1>1, <1>2, <1>3, <1>4, <1>5 DEF Next, Program

-----------------------------------------------------------------------------
(* The theorems.                                                           *)

\* It is an invariant.
LEMMA Invariance == Spec => []IInv
  BY InitInv, StepInv, PTL DEF Spec

\* The state of memory_pool_optimization.c keeps its type.
THEOREM TypeCorrect == Spec => []TypeOK
<1>1. IInv => TypeOK
  BY DEF IInv
<1> QED
  BY <1>1, Invariance, PTL

\* For any number of servers and any network, the table says what each
\* server's first full-length answer said (burst_receive, l.157-171).
THEOREM FirstAnswerDecides == Spec => []FirstAnswerWins
<1>1. IInv => FirstAnswerWins
  BY DEF IInv
<1> QED
  BY <1>1, Invariance, PTL

\* The published address is a fastest server's (main, l.220-252).
THEOREM FastestIsPublished == Spec => []BestIsFastestValid
<1>1. IInv => BestIsFastestValid
  BY DEF IInv
<1> QED
  BY <1>1, Invariance, PTL

\* The retry round of main, l.215-218, never changes the table.
THEOREM RetryChangesNothing == Spec => RetryIsInert
<1>1. IInv /\ [Next]_vars => [round = 2 => UNCHANGED <<rtt, mapped>>]_vars
  <2> SUFFICES ASSUME IInv, Next, round = 2
               PROVE  UNCHANGED <<rtt, mapped>>
    BY DEF vars
  <2>1. CASE HandleMsg
    <3>1. Head(batch) \in Legal
      BY <2>1, HeadTailProperties DEF IInv, Traffic, HandleMsg
    <3>2. Owners(Head(batch)) = {}
      BY <3>1, OwnersAre
    <3> QED
      BY <2>1, <3>2 DEF HandleMsg
  <2>2. CASE ~HandleMsg
    BY <2>2 DEF Next, Program, Load, SendRequest, BeginReceive, EpollReady,
         FinishBatch, EpollTimeout, LeaveWindow, StayInWindow, PlanRetry,
         SkipRetry, Sort, Publish, Tick, Arrive, Done, table, vars
  <2> QED
    BY <2>1, <2>2
<1> QED
  BY <1>1, Invariance, PTL DEF Spec, RetryIsInert

\* stun_list never holds more than MAX_STUN entries, whichever names resolve
\* (load_stun_servers, l.61).
THEOREM TableNeverOverflows == Spec => []TableFits
<1>1. Init => TableFits
  BY FS_EmptySet, SizesAssumption DEF Init, TableFits
<1>2. TableFits /\ [Next]_vars => TableFits'
  <2> SUFFICES ASSUME TableFits, [Next]_vars PROVE TableFits'
    OBVIOUS
  <2>1. CASE Load
    BY <2>1, FirstEntriesFit DEF Load, TableFits
  <2>2. CASE ~Load
    <3>1. loaded' = loaded
      BY <2>2 DEF Next, Program, SendRequest, BeginReceive, EpollReady, HandleMsg,
           FinishBatch, EpollTimeout, LeaveWindow, StayInWindow, PlanRetry,
           SkipRetry, Sort, Publish, Tick, Arrive, Done, phase, vars
    <3> QED
      BY <3>1 DEF TableFits
  <2> QED
    BY <2>1, <2>2
<1> QED
  BY <1>1, <1>2, PTL DEF Spec

-----------------------------------------------------------------------------
(* The program implements the election.                                    *)

\* The first answer of a server is its vote.
LEMMA AnswerDecides ==
    ASSUME IInv, IInv', HandleMsg
    PROVE  (\E h \in Hosts : Vote!Decide(h)) \/ UNCHANGED Vote!vars
<1> DEFINE m == Head(batch)
<1>1. /\ m \in Legal /\ m \in Msgs
      /\ UNCHANGED <<pc, round, shm>> /\ pc = "drain"
  BY HeadTailProperties DEF IInv, Traffic, TypeOK, HandleMsg, phase, outcome
<1>2. UNCHANGED <<VoteClosed, shm>>
  BY <1>1 DEF VoteClosed
<1>3. CASE Owners(m) = {}
  BY <1>2, <1>3 DEF HandleMsg, Vote!vars, Verdict
<1>4. CASE Owners(m) # {}
  <2>1. /\ Owners(m) = {m.host} /\ m.host \in Hosts
        /\ round = 1 /\ rtt[m.host] = NoRtt
    BY <1>1, <1>4, OwnersAre DEF IInv, TypeOK
  <2>2. Record(m.host, m)
    BY <2>1 DEF HandleMsg
  <2>3. ~mapped[m.host] /\ Verdict[m.host] = "silent" /\ ~VoteClosed
    BY <1>1, <2>1 DEF IInv, Table, Verdict, VoteClosed
  <2>4. /\ rtt \in [Hosts -> Nat \union {NoRtt}] /\ mapped \in [Hosts -> BOOLEAN]
        /\ rtt'[m.host] \in Nat
    <3>1. m.host \in loaded
      BY <1>1, <1>4, <2>1, OwnersAre
    <3> QED
      BY <1>1, <2>1, <2>2, <3>1, StampBeforeNow DEF IInv, TypeOK, Record
  <2>5. rtt' = [rtt EXCEPT ![m.host] = rtt'[m.host]]
    BY <2>1, <2>2, <2>4 DEF Record
  <2>6. \E v \in {"bare", "mapped"} : Verdict' = [Verdict EXCEPT ![m.host] = v]
    <3>1. CASE m.kind = "mapped"
      <4>1. Verdict' = [Verdict EXCEPT ![m.host] = "mapped"]
        BY <2>1, <2>2, <2>3, <2>4, <3>1 DEF Record, Verdict
      <4> QED
        BY <4>1
    <3>2. CASE m.kind # "mapped"
      <4>1. Verdict' = [Verdict EXCEPT ![m.host] = "bare"]
        <5>1. mapped' = mapped
          BY <2>1, <2>2, <2>3, <2>4, <3>2 DEF Record
        <5>2. rtt'[m.host] # NoRtt
          BY <2>4
        <5>3. \A h \in Hosts \ {m.host} : rtt'[h] = rtt[h]
          BY <2>4, <2>5
        <5> QED
          BY <2>1, <2>3, <5>1, <5>2, <5>3 DEF Verdict
      <4> QED
        BY <4>1
    <3> QED
      BY <3>1, <3>2
  <2>7. Vote!Decide(m.host)
    BY <1>2, <2>3, <2>4, <2>5, <2>6 DEF Vote!Decide
  <2> QED
    BY <2>1, <2>7
<1> QED
  BY <1>3, <1>4

\* Leaving the first window closes the vote.
LEMMA WindowCloses ==
    ASSUME IInv, LeaveWindow
    PROVE  Vote!Close \/ UNCHANGED Vote!vars
<1>1. UNCHANGED <<rtt, mapped, shm, Verdict>>
  BY DEF LeaveWindow, table, outcome, Verdict
<1>2. pc = "check" /\ round \in 1..2 /\ round' = round
      /\ pc' = IF round = 1 THEN "retry" ELSE "sort"
  BY DEF LeaveWindow, IInv, TypeOK
<1>3. CASE round = 1
  BY <1>1, <1>2, <1>3 DEF Vote!Close, VoteClosed
<1>4. CASE round = 2
  BY <1>1, <1>2, <1>4 DEF Vote!vars, VoteClosed
<1> QED
  BY <1>2, <1>3, <1>4

\* Publishing the first valid entry elects a fastest mapped server.
LEMMA PublishElects ==
    ASSUME IInv, Publish
    PROVE  (\E h \in Hosts : Vote!Elect(h)) \/ UNCHANGED Vote!vars
<1>1. /\ UNCHANGED <<rtt, mapped, Verdict, VoteClosed>> /\ VoteClosed
      /\ shm = NoHost
  BY DEF Publish, table, Verdict, VoteClosed, IInv, Ranking
<1>2. CASE shm' = shm
  BY <1>1, <1>2 DEF Vote!vars
<1>3. CASE shm' # shm
  <2>1. PICK i \in DOMAIN order : IsBest(i) /\ shm' = order[i]
    BY <1>3 DEF Publish
  <2>2. /\ shm' \in loaded /\ mapped[shm']
        /\ \A h \in loaded : mapped[h] => rtt[shm'] <= rtt[h]
    BY <2>1, FirstValidIsFastest DEF IInv, Ranking, Publish
  <2>3. Vote!Mapped = {h \in Hosts : mapped[h]}
    BY DEF Vote!Mapped, Verdict
  <2>4. \A h \in Hosts : mapped[h] => h \in loaded
    BY DEF IInv, Table
  <2>5. shm' \in Hosts
    BY <2>2 DEF IInv, TypeOK
  <2>6. Vote!Elect(shm')
    BY <1>1, <2>2, <2>3, <2>4, <2>5 DEF Vote!Elect
  <2> QED
    BY <2>5, <2>6
<1> QED
  BY <1>2, <1>3

\* Every other step is invisible in the election.
LEMMA OthersStutter ==
    ASSUME IInv, [Next]_vars, ~HandleMsg, ~LeaveWindow, ~Publish
    PROVE  UNCHANGED Vote!vars
<1>1. UNCHANGED <<rtt, mapped, shm>>
  BY DEF Next, Program, Load, SendRequest, BeginReceive, EpollReady,
     FinishBatch, EpollTimeout, StayInWindow, PlanRetry, SkipRetry, Sort, Tick,
     Arrive, Done, table, outcome, vars
<1>2. UNCHANGED VoteClosed
  BY DEF Next, Program, Load, SendRequest, BeginReceive, EpollReady,
     FinishBatch, EpollTimeout, StayInWindow, PlanRetry, SkipRetry, Sort, Tick,
     Arrive, Done, phase, vars, VoteClosed, IInv, Rounds
<1> QED
  BY <1>1, <1>2 DEF Vote!vars, Verdict

\* memory_pool_optimization.c implements Election: one final verdict per
\* server, none after the first window, a fastest mapped server or nobody.
THEOREM DiscoveryImplementsElection == Spec => ImplementsElection
<1>1. Init => Vote!Init
  BY DEF Init, Vote!Init, Verdict, VoteClosed
<1>2. IInv /\ IInv' /\ [Next]_vars => [Vote!Next]_(Vote!vars)
  BY AnswerDecides, WindowCloses, PublishElects, OthersStutter DEF Vote!Next
<1> QED
  BY <1>1, <1>2, Invariance, PTL DEF Spec, ImplementsElection, Vote!Spec
=============================================================================
