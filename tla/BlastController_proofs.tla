------------------------ MODULE BlastController_proofs ------------------------
(***************************************************************************)
(* What BlastController promises, for any number of targets and threads,   *)
(* any size of the table, any window and any arrivals.                     *)
(***************************************************************************)
EXTENDS BlastController, SequenceTheorems, TLAPS

\* Only the phases up to the listener's end move the clock, each by what it may.
Timely == /\ start <= clock
          /\ pc \in {"fire", "join", "bind"} => start = 1 /\ clock <= 1 + Slack
          /\ pc = "listen" => start <= 1 + Slack /\ clock <= start + Window + Slack

\* send_table has the first requests in their order.
Recorded == /\ Len(table) = (IF made <= MaxTargets THEN made ELSE MaxTargets)
            /\ \A i \in DOMAIN table : table[i].request = i /\ table[i].time <= clock

\* A thread exists once its request was recorded, and sends at most once, later.
SentAfter == \A r \in Requests :
                /\ tpc[r] # "absent" \/ sentAt[r] > 0 => r <= made
                /\ tpc[r] = "ready" => sentAt[r] = 0
                /\ sentAt[r] > 0 /\ r <= Len(table) => table[r].time <= sentAt[r]

\* An answer came after its request, and not later than now.
HeardBefore == \A i \in DOMAIN heard :
                  /\ heard[i].at <= clock
                  /\ heard[i].request # Other => sentAt[heard[i].request] > 0

\* The listener's socket has the port while it listens, and nothing before.
Port == /\ owner = "listener" <=> pc = "listen"
        /\ pc \notin {"listen", "done"} => buffer = <<>> /\ results = <<>>
        /\ pc \in {"fire", "join", "bind", "crashed"} =>
              \A i \in DOMAIN heard : ~heard[i].taken

\* Datagrams wait in the order of their arrival.
Waiting == pc = "listen" =>
              /\ \A j, k \in DOMAIN buffer : j < k => buffer[j] < buffer[k]
              /\ \A b \in DOMAIN buffer : heard[buffer[b]].taken

BlastInv == /\ TypeOK /\ Timely /\ Recorded /\ SentAfter /\ HeardBefore /\ Port /\ Waiting
            /\ RttCoversRoundTrip /\ ListenerKeepsReplies

\* The bounds are numbers.
LEMMA Bounds == /\ NumTargets \in Nat /\ MaxTargets \in Nat
                /\ MaxThreads \in Nat /\ MaxThreads > 0
                /\ Window \in Nat /\ Window > 0 /\ Slack \in Nat
                /\ Launches \in Nat /\ Requests \subseteq Nat /\ Other \notin Requests
                /\ \A r \in Requests : r > 0 /\ r <= Launches
<1>1. /\ NumTargets \in Nat /\ MaxThreads \in Nat /\ MaxThreads > 0 /\ MaxTargets \in Nat
      /\ Window \in Nat /\ Window > 0 /\ Slack \in Nat
  BY SizesAssumption
<1>2. Launches \in Nat
  BY <1>1 DEF Launches
<1> QED BY <1>1, <1>2 DEF Requests, Other

\* The entries of any list.
LEMMA OfSeq ==
    ASSUME NEW E, NEW s \in Seq(E)
    PROVE  Len(s) \in Nat /\ DOMAIN s = 1..Len(s) /\ \A i \in DOMAIN s : s[i] \in E
  OBVIOUS

\* The entries of the lists.
LEMMA Entries ==
    ASSUME TypeOK
    PROVE  /\ Len(heard) \in Nat /\ DOMAIN heard = 1..Len(heard)
           /\ \A i \in DOMAIN heard : /\ heard[i].request \in Requests \union {Other}
                                     /\ heard[i].at \in Nat /\ heard[i].at \in Times
                                     /\ heard[i].taken \in BOOLEAN
           /\ Len(results) \in Nat /\ DOMAIN results = 1..Len(results)
           /\ \A k \in DOMAIN results : /\ results[k].request \in Requests
                                       /\ results[k].datagram \in DOMAIN heard
           /\ Len(table) \in Nat /\ DOMAIN table = 1..Len(table)
           /\ \A i \in DOMAIN table : table[i].time \in Times \ {0} /\ table[i].time \in Nat
           /\ Len(buffer) \in Nat /\ DOMAIN buffer = 1..Len(buffer)
           /\ \A b \in DOMAIN buffer : buffer[b] \in DOMAIN heard
           /\ clock \in Nat /\ clock > 0 /\ \A r \in Requests : sentAt[r] \in Nat
<1>1. Times \subseteq Nat
  BY Bounds DEF Times
<1>2. /\ heard \in Seq([request : Requests \union {Other}, at : Times, taken : BOOLEAN])
      /\ results \in Seq([request : Requests, rtt : Times, datagram : DOMAIN heard])
      /\ table \in Seq([request : Requests, time : Times \ {0}])
      /\ buffer \in Seq(DOMAIN heard)
      /\ clock \in Times \ {0} /\ sentAt \in [Requests -> Times]
  BY DEF TypeOK
<1>3. /\ Len(heard) \in Nat /\ DOMAIN heard = 1..Len(heard)
      /\ \A i \in DOMAIN heard :
            heard[i] \in [request : Requests \union {Other}, at : Times, taken : BOOLEAN]
  BY <1>2, OfSeq, Zenon
<1>4. /\ Len(results) \in Nat /\ DOMAIN results = 1..Len(results)
      /\ \A k \in DOMAIN results :
            results[k] \in [request : Requests, rtt : Times, datagram : DOMAIN heard]
  BY <1>2, OfSeq, Zenon
<1>5. /\ Len(table) \in Nat /\ DOMAIN table = 1..Len(table)
      /\ \A i \in DOMAIN table : table[i] \in [request : Requests, time : Times \ {0}]
  BY <1>2, OfSeq, Zenon
<1>6. /\ Len(buffer) \in Nat /\ DOMAIN buffer = 1..Len(buffer)
      /\ \A b \in DOMAIN buffer : buffer[b] \in DOMAIN heard
  BY <1>2, OfSeq, Zenon
<1>7. ASSUME NEW x \in Times PROVE x \in Nat /\ (x # 0 => x > 0)
  <2>1. x \in Nat
    BY <1>1
  <2> QED BY <2>1
<1>8. clock \in Nat /\ clock > 0
  BY <1>2, <1>7
<1>9. \A r \in Requests : sentAt[r] \in Nat
  BY <1>2, <1>7
<1>10. \A i \in DOMAIN heard : /\ heard[i].request \in Requests \union {Other}
                             /\ heard[i].at \in Nat /\ heard[i].at \in Times
                             /\ heard[i].taken \in BOOLEAN
  BY <1>3, <1>7
<1>11. \A k \in DOMAIN results : /\ results[k].request \in Requests
                               /\ results[k].datagram \in DOMAIN heard
  BY <1>4
<1>12. \A i \in DOMAIN table : table[i].time \in Times \ {0} /\ table[i].time \in Nat
  BY <1>5, <1>7
<1> QED BY <1>3, <1>4, <1>5, <1>6, <1>8, <1>9, <1>10, <1>11, <1>12, Zenon

\* get_send_time finds the time of the request's own entry.
LEMMA SendTimeIs ==
    ASSUME TypeOK, Recorded, NEW r \in Requests
    PROVE  SendTime(r) = IF r <= Len(table) THEN table[r].time ELSE -1
<1> DEFINE found == {i \in DOMAIN table : table[i].request = r}
<1>1. table \in Seq([request : Requests, time : Times \ {0}])
        /\ \A i \in DOMAIN table : table[i].request = i
  BY DEF TypeOK, Recorded
<1>2. r \in Nat /\ r > 0 /\ DOMAIN table = 1..Len(table) /\ Len(table) \in Nat
  BY <1>1, Bounds
<1>3. CASE r <= Len(table)
  <2>1. r \in DOMAIN table
    BY <1>2, <1>3
  <2>2. found = {r}
    BY <1>1, <2>1
  <2>3. (CHOOSE i \in found : \A j \in found : i <= j) = r
    BY <1>2, <2>2
  <2> QED BY <1>3, <2>2, <2>3 DEF SendTime
<1>4. CASE ~(r <= Len(table))
  <2>1. found = {}
    BY <1>1, <1>2, <1>4
  <2> QED BY <1>4, <2>1 DEF SendTime
<1> QED BY <1>3, <1>4

\* The initial states.
LEMMA BlastInit == Init => BlastInv
<1> SUFFICES ASSUME Init PROVE BlastInv
  OBVIOUS
<1>1. TypeOK
  BY Bounds DEF Init, TypeOK, Times
<1>2. Timely /\ Recorded /\ SentAfter /\ HeardBefore /\ Port /\ Waiting
  BY Bounds DEF Init, Timely, Recorded, SentAfter, HeardBefore, Port, Waiting
<1>3. RttCoversRoundTrip /\ ListenerKeepsReplies
  BY DEF Init, RttCoversRoundTrip, ListenerKeepsReplies
<1> QED BY <1>1, <1>2, <1>3 DEF BlastInv

\* The steps of main before it listens, and its last ones: what the listener has
\* is left alone.
LEMMA OpenFirerKeeps == ASSUME BlastInv, OpenFirer PROVE BlastInv'
<1> USE DEF BlastInv, OpenFirer, threads
<1>1. TypeOK'
  BY DEF TypeOK, Times
<1>2. Timely' /\ Recorded' /\ SentAfter' /\ HeardBefore' /\ Port' /\ Waiting'
  BY DEF Timely, Recorded, SentAfter, HeardBefore, Port, Waiting
<1>3. RttCoversRoundTrip' /\ ListenerKeepsReplies'
  BY DEF RttCoversRoundTrip, ListenerKeepsReplies
<1> QED BY <1>1, <1>2, <1>3

\* The next request is recorded before its thread exists.
LEMMA LaunchKeeps == ASSUME BlastInv, Launch PROVE BlastInv'
<1> DEFINE entry == [request |-> made + 1, time |-> clock]
<1>0. /\ TypeOK /\ Timely /\ Recorded /\ SentAfter /\ HeardBefore /\ Port /\ Waiting
      /\ RttCoversRoundTrip /\ ListenerKeepsReplies
  BY DEF BlastInv
<1>1. /\ pc = "fire" /\ made < Launches /\ made' = made + 1
      /\ table' = IF Len(table) < MaxTargets THEN Append(table, entry) ELSE table
      /\ tpc' = [tpc EXCEPT ![made + 1] = "ready"] \/ tpc' = tpc
      /\ UNCHANGED <<pc, joined, owner, sentAt, buffer, results, clock, start, heard>>
  BY DEF Launch
<1>2. made \in Nat /\ made + 1 \in Requests /\ clock \in Times \ {0}
        /\ clock \in Nat /\ joined \in Nat /\ joined <= made
  BY <1>0, <1>1, Bounds DEF TypeOK, Requests, Times
<1>3. /\ table \in Seq([request : Requests, time : Times \ {0}])
      /\ entry \in [request : Requests, time : Times \ {0}]
      /\ Len(table) \in Nat /\ DOMAIN table = 1..Len(table)
  BY <1>0, <1>2 DEF TypeOK
<1> HIDE DEF entry
<1>4. /\ table' \in Seq([request : Requests, time : Times \ {0}])
      /\ DOMAIN table' = 1..Len(table')
      /\ Len(table') = (IF Len(table) < MaxTargets THEN Len(table) + 1 ELSE Len(table))
      /\ \A i \in DOMAIN table' : table'[i] = IF i <= Len(table) THEN table[i] ELSE entry
  <2> DEFINE E == [request : Requests, time : Times \ {0}]
  <2>1. table \in Seq(E) /\ entry \in E
    BY <1>3
  <2> HIDE DEF E
  <2>2. CASE Len(table) < MaxTargets
    <3>1. table' = Append(table, entry)
      BY <1>1, <2>2
    <3>2. /\ Append(table, entry) \in Seq(E) /\ Len(Append(table, entry)) = Len(table) + 1
          /\ \A i \in 1..(Len(table) + 1) :
                Append(table, entry)[i] = IF i <= Len(table) THEN table[i] ELSE entry
      BY <2>1
    <3>3. DOMAIN Append(table, entry) = 1..(Len(table) + 1)
      BY <2>1
    <3> QED BY <2>2, <3>1, <3>2, <3>3 DEF E
  <2>3. CASE ~(Len(table) < MaxTargets)
    BY <1>1, <1>3, <2>3
  <2> QED BY <2>2, <2>3
<1>5. TypeOK'
  <2>1. tpc' \in [Requests -> {"absent", "ready", "exited"}] /\ Len(table') <= MaxTargets
    <3>1. tpc \in [Requests -> {"absent", "ready", "exited"}] /\ Len(table) <= MaxTargets
      BY <1>0 DEF TypeOK
    <3>2. tpc' \in [Requests -> {"absent", "ready", "exited"}]
      BY <1>1, <1>2, <3>1
    <3> QED BY <1>3, <1>4, <3>1, <3>2, Bounds
  <2>2. made' \in 0..Launches /\ joined' \in 0..made'
    BY <1>1, <1>2, Bounds
  <2> QED BY <1>0, <1>1, <1>4, <2>1, <2>2 DEF TypeOK, Times
<1>6. Timely' /\ HeardBefore' /\ Port' /\ Waiting'
  BY <1>0, <1>1 DEF Timely, HeardBefore, Port, Waiting
<1>7. Recorded'
  <2>1. Len(table') = (IF made' <= MaxTargets THEN made' ELSE MaxTargets)
    BY <1>0, <1>1, <1>2, <1>3, <1>4, Bounds DEF Recorded
  <2>2. ASSUME NEW i \in DOMAIN table' PROVE table'[i].request = i /\ table'[i].time <= clock
    <3>1. CASE i <= Len(table)
      BY <1>0, <1>3, <1>4, <2>2, <3>1 DEF Recorded
    <3>2. CASE ~(i <= Len(table))
      <4>1. i = Len(table) + 1 /\ Len(table) < MaxTargets
        BY <1>3, <1>4, <2>2, <3>2, Bounds
      <4>2. i = made + 1
        BY <1>0, <1>2, <4>1, Bounds DEF Recorded
      <4> QED BY <1>2, <1>4, <2>2, <3>2, <4>2 DEF entry
    <3> QED BY <3>1, <3>2
  <2> QED BY <1>1, <2>1, <2>2 DEF Recorded
<1>8. SentAfter'
  <2> SUFFICES ASSUME NEW r \in Requests
               PROVE  /\ tpc'[r] # "absent" \/ sentAt[r] > 0 => r <= made'
                      /\ tpc'[r] = "ready" => sentAt[r] = 0
                      /\ sentAt[r] > 0 /\ r <= Len(table') => table'[r].time <= sentAt[r]
    BY <1>1 DEF SentAfter
  <2>1. /\ tpc[r] # "absent" \/ sentAt[r] > 0 => r <= made
        /\ tpc[r] = "ready" => sentAt[r] = 0
        /\ sentAt[r] > 0 /\ r <= Len(table) => table[r].time <= sentAt[r]
        /\ r \in Nat /\ r > 0 /\ sentAt[r] \in Nat
    BY <1>0, Bounds DEF SentAfter, TypeOK, Times
  <2>2. tpc'[r] = tpc[r] \/ (r = made + 1 /\ tpc'[r] = "ready")
    BY <1>0, <1>1 DEF TypeOK
  <2>3. tpc'[r] # "absent" \/ sentAt[r] > 0 => r <= made'
    BY <1>1, <1>2, <2>1, <2>2
  <2>4. tpc'[r] = "ready" => sentAt[r] = 0
    BY <1>1, <1>2, <2>1, <2>2
  <2>5. sentAt[r] > 0 /\ r <= Len(table') => r <= Len(table)
    BY <1>0, <1>2, <1>3, <1>4, <2>1, Bounds DEF Recorded
  <2>6. r <= Len(table) => r \in DOMAIN table' /\ table'[r] = table[r]
    BY <1>3, <1>4, <2>1
  <2> QED BY <2>1, <2>3, <2>4, <2>5, <2>6
<1>9. RttCoversRoundTrip' /\ ListenerKeepsReplies'
  BY <1>0, <1>1 DEF RttCoversRoundTrip, ListenerKeepsReplies
<1> QED BY <1>5, <1>6, <1>7, <1>8, <1>9 DEF BlastInv

\* LaunchedAll, Join and CloseFirer preserve the inductive invariant.
LEMMA JoiningKeeps == ASSUME BlastInv, LaunchedAll \/ Join \/ CloseFirer PROVE BlastInv'
<1>0. /\ TypeOK /\ Timely /\ Recorded /\ SentAfter /\ HeardBefore /\ Port /\ Waiting
      /\ RttCoversRoundTrip /\ ListenerKeepsReplies
  BY DEF BlastInv
<1>1. /\ pc \in {"fire", "join"} /\ pc' \in {"join", "bind", "crashed"}
      /\ owner' = owner \/ owner' = "none"
      /\ joined' = joined \/ (joined' = joined + 1 /\ joined < made)
      /\ UNCHANGED <<made, table, tpc, sentAt, buffer, results, clock, start, heard>>
  BY DEF LaunchedAll, Join, CloseFirer, threads
<1>2. TypeOK'
  <2>1. made \in Nat /\ joined \in Nat /\ joined <= made
    BY <1>0, Bounds DEF TypeOK
  <2>2. joined' \in 0..made' /\ owner' \in {"none", "firer", "listener"}
    BY <1>0, <1>1, <2>1 DEF TypeOK
  <2> QED BY <1>0, <1>1, <2>2 DEF TypeOK, Times
<1>3. Timely' /\ Recorded' /\ SentAfter' /\ HeardBefore' /\ Port' /\ Waiting'
  BY <1>0, <1>1 DEF Timely, Recorded, SentAfter, HeardBefore, Port, Waiting
<1>4. RttCoversRoundTrip' /\ ListenerKeepsReplies'
  BY <1>0, <1>1 DEF RttCoversRoundTrip, ListenerKeepsReplies
<1> QED BY <1>2, <1>3, <1>4 DEF BlastInv

\* OpenListener preserves the inductive invariant.
LEMMA OpenListenerKeeps == ASSUME BlastInv, OpenListener PROVE BlastInv'
<1>0. /\ TypeOK /\ Timely /\ Recorded /\ SentAfter /\ HeardBefore /\ Port /\ Waiting
      /\ RttCoversRoundTrip /\ ListenerKeepsReplies
  BY DEF BlastInv
<1>1. /\ pc = "bind"
      /\ \/ owner' = "listener" /\ pc' = "listen" /\ start' = clock
         \/ pc' = "done" /\ UNCHANGED <<owner, start>>
      /\ UNCHANGED <<made, joined, table, tpc, sentAt, buffer, results, clock, heard>>
  BY DEF OpenListener, threads
<1>2. TypeOK'
  BY <1>0, <1>1 DEF TypeOK, Times
<1>3. clock \in Nat
  BY <1>0, Bounds DEF TypeOK, Times
<1>4. Timely'
  BY <1>0, <1>1, <1>3, Bounds DEF Timely
<1>5. Recorded' /\ SentAfter' /\ HeardBefore' /\ Port' /\ Waiting'
  BY <1>0, <1>1 DEF Recorded, SentAfter, HeardBefore, Port, Waiting
<1>6. RttCoversRoundTrip'
  BY <1>0, <1>1 DEF RttCoversRoundTrip
<1>7. ListenerKeepsReplies'
  BY <1>0, <1>1 DEF ListenerKeepsReplies, Port, Answers
<1> QED BY <1>2, <1>4, <1>5, <1>6, <1>7 DEF BlastInv

\* A thread sends once, after its request was recorded.
LEMMA FireKeeps == ASSUME BlastInv, NEW r \in Requests, Fire(r) PROVE BlastInv'
<1>0. /\ TypeOK /\ Timely /\ Recorded /\ SentAfter /\ HeardBefore /\ Port /\ Waiting
      /\ RttCoversRoundTrip /\ ListenerKeepsReplies
  BY DEF BlastInv
<1>1. /\ tpc[r] = "ready" /\ tpc' = [tpc EXCEPT ![r] = "exited"]
      /\ sentAt' = [sentAt EXCEPT ![r] = clock] \/ sentAt' = sentAt
      /\ UNCHANGED <<pc, made, joined, table, owner, buffer, results, clock, start, heard>>
  BY DEF Fire, main
<1>2. /\ tpc \in [Requests -> {"absent", "ready", "exited"}] /\ sentAt \in [Requests -> Times]
      /\ clock \in Times /\ clock \in Nat
      /\ sentAt[r] = 0
  BY <1>0, <1>1, Bounds DEF TypeOK, Times, SentAfter
<1>3. \A q \in Requests : sentAt'[q] = sentAt[q] \/ (q = r /\ sentAt'[q] = clock)
  BY <1>1, <1>2
<1>4. \A q \in Requests : sentAt[q] > 0 => sentAt'[q] = sentAt[q]
  BY <1>2, <1>3
<1>5. TypeOK'
  <2>1. tpc' \in [Requests -> {"absent", "ready", "exited"}] /\ sentAt' \in [Requests -> Times]
    BY <1>1, <1>2
  <2> QED BY <1>0, <1>1, <2>1 DEF TypeOK, Times
<1>6. Timely' /\ Recorded' /\ Port' /\ Waiting'
  BY <1>0, <1>1 DEF Timely, Recorded, Port, Waiting
<1>7. SentAfter'
  <2> SUFFICES ASSUME NEW q \in Requests
               PROVE  /\ tpc'[q] # "absent" \/ sentAt'[q] > 0 => q <= made
                      /\ tpc'[q] = "ready" => sentAt'[q] = 0
                      /\ sentAt'[q] > 0 /\ q <= Len(table) => table[q].time <= sentAt'[q]
    BY <1>1 DEF SentAfter
  <2>1. r <= made
    BY <1>0, <1>1 DEF SentAfter
  <2>2. CASE q = r
    <3>1. q <= Len(table) => table[q].time <= clock
      <4>1. q <= Len(table) => q \in DOMAIN table
        BY <1>0, Bounds DEF TypeOK
      <4> QED BY <1>0, <4>1 DEF Recorded
    <3>2. tpc'[q] = "exited"
      BY <1>1, <1>2, <2>2
    <3> QED BY <1>2, <1>3, <2>1, <2>2, <3>1, <3>2
  <2>3. CASE q # r
    BY <1>0, <1>1, <1>2, <1>3, <2>3 DEF SentAfter
  <2> QED BY <2>2, <2>3
<1>8. HeardBefore'
  <2>1. ASSUME NEW i \in DOMAIN heard, heard[i].request # Other
        PROVE  heard[i].request \in Requests /\ sentAt'[heard[i].request] > 0
    <3>1. heard[i].request \in Requests /\ sentAt[heard[i].request] > 0
      BY <1>0, <2>1, Entries DEF HeardBefore
    <3> QED BY <1>4, <3>1
  <2> QED BY <1>0, <1>1, <2>1 DEF HeardBefore
<1>9. RttCoversRoundTrip'
  <2>1. ASSUME NEW k \in DOMAIN results PROVE results[k].request \in Requests
    BY <1>0, Entries
  <2>2. \A k \in DOMAIN results : sentAt'[results[k].request] = sentAt[results[k].request]
    BY <1>0, <1>4, <2>1 DEF RttCoversRoundTrip
  <2> QED BY <1>0, <1>1, <2>2 DEF RttCoversRoundTrip
<1>10. ListenerKeepsReplies'
  <2>1. \A q : SendTime(q)' = SendTime(q)
    BY <1>1 DEF SendTime
  <2>2. Answers' = Answers
    BY <1>1 DEF Answers
  <2> QED BY <1>0, <1>1, <2>1, <2>2 DEF ListenerKeepsReplies
<1> QED BY <1>5, <1>6, <1>7, <1>8, <1>9, <1>10 DEF BlastInv

\* What the listener does with the datagram at the head of its buffer.
LEMMA ReceiveKeeps == ASSUME BlastInv, Receive PROVE BlastInv'
<1> DEFINE d == Head(buffer)
           r == heard[d].request
           E == [request : Requests, rtt : Times, datagram : DOMAIN heard]
           kept == r # Other /\ SendTime(r) > 0 /\ Len(results) < MaxTargets
           entry == Reply(r)
<1>0. /\ TypeOK /\ Timely /\ Recorded /\ SentAfter /\ HeardBefore /\ Port /\ Waiting
      /\ RttCoversRoundTrip /\ ListenerKeepsReplies
  BY DEF BlastInv
<1>1. /\ pc = "listen" /\ buffer # <<>> /\ buffer' = Tail(buffer)
      /\ results' = IF kept THEN Append(results, entry) ELSE results
      /\ UNCHANGED <<pc, made, joined, table, owner, tpc, sentAt, clock, start, heard>>
  BY DEF Receive, main, threads
<1>2. /\ d \in DOMAIN heard /\ d = buffer[1] /\ Len(buffer) \in Nat /\ Len(buffer) > 0
      /\ Tail(buffer) \in Seq(DOMAIN heard) /\ DOMAIN buffer = 1..Len(buffer)
      /\ DOMAIN Tail(buffer) = 1..(Len(buffer) - 1)
      /\ \A i \in 1..(Len(buffer) - 1) : Tail(buffer)[i] = buffer[i + 1]
  <2>1. buffer \in Seq(DOMAIN heard)
    BY <1>0 DEF TypeOK
  <2> QED BY <1>1, <2>1, HeadTailProperties
<1>3. /\ heard[d].request \in Requests \union {Other} /\ heard[d].at \in Times
      /\ results \in Seq(E) /\ Len(results) \in Nat /\ DOMAIN results = 1..Len(results)
      /\ heard[d].taken /\ heard[d].at <= clock
      /\ clock \in Nat /\ clock \in Times
      /\ DOMAIN heard \subseteq Nat
  <2>1. d = buffer[1] /\ 1 \in DOMAIN buffer
    BY <1>2
  <2>2. heard[d].taken
    BY <1>0, <1>1, <2>1 DEF Waiting
  <2>3. clock \in Times /\ results \in Seq(E)
    BY <1>0 DEF TypeOK
  <2>4. heard[d].request \in Requests \union {Other} /\ heard[d].at \in Times
    BY <1>0, <1>2, Entries
  <2>5. heard[d].at <= clock
    BY <1>0, <1>2 DEF HeardBefore
  <2>6. DOMAIN heard \subseteq Nat
    BY <1>0, Entries
  <2> HIDE DEF d, E
  <2> QED BY <1>0, <2>2, <2>3, <2>4, <2>5, <2>6, Entries
<1>4. ASSUME kept
      PROVE  /\ r \in Requests /\ r <= Len(table) /\ SendTime(r) = table[r].time
             /\ entry = [request |-> r, rtt |-> clock - table[r].time, datagram |-> d]
             /\ table[r].time \in Nat /\ table[r].time > 0 /\ table[r].time <= clock
             /\ sentAt[r] \in Nat /\ sentAt[r] > 0 /\ table[r].time <= sentAt[r]
  <2>1. r \in Requests
    BY <1>3, <1>4
  <2>2. SendTime(r) = IF r <= Len(table) THEN table[r].time ELSE -1
    BY <1>0, <2>1, SendTimeIs
  <2>3. r <= Len(table)
    BY <1>4, <2>2
  <2>4. r \in DOMAIN table
    <3>1. r \in Nat /\ r > 0
      BY <2>1, Bounds
    <3>2. Len(table) \in Nat /\ DOMAIN table = 1..Len(table)
      BY <1>0, Entries
    <3> HIDE DEF r
    <3> QED BY <2>3, <3>1, <3>2
  <2>5. table[r].time \in Times \ {0}
    BY <1>0, <2>4, Entries
  <2>6. sentAt[r] \in Times /\ sentAt[r] > 0
    BY <1>0, <1>2, <1>4, <2>1 DEF TypeOK, HeardBefore
  <2> QED BY <1>0, <2>1, <2>2, <2>3, <2>4, <2>5, <2>6, Bounds DEF Recorded, SentAfter,
      Times, Reply
<1>5. kept => entry \in E /\ entry.request = r /\ entry.datagram = d
        /\ entry.rtt = clock - table[r].time
  <2> SUFFICES ASSUME kept
               PROVE  entry \in E /\ entry.request = r /\ entry.datagram = d
                        /\ entry.rtt = clock - table[r].time
    OBVIOUS
  <2>1. clock - table[r].time \in Times
    <3> DEFINE x == table[r].time
    <3>1. x \in Nat /\ x > 0 /\ x <= clock /\ clock \in Nat /\ clock \in Times
      BY <1>3, <1>4
    <3> HIDE DEF x
    <3>2. clock - x \in Times
      BY <3>1, Bounds DEF Times
    <3> QED BY <3>2 DEF x
  <2> QED BY <1>2, <1>4, <2>1
<1> HIDE DEF entry, E, kept
<1>6. /\ results' \in Seq(E) /\ Len(results') \in Nat /\ DOMAIN results' = 1..Len(results')
      /\ Len(results') = (IF kept THEN Len(results) + 1 ELSE Len(results))
      /\ \A k \in DOMAIN results' :
            results'[k] = IF kept /\ k = Len(results) + 1 THEN entry ELSE results[k]
  <2>1. CASE kept
    <3>1. results' = Append(results, entry) /\ entry \in E /\ results \in Seq(E)
      BY <1>1, <1>3, <1>5, <2>1
    <3>2. /\ Append(results, entry) \in Seq(E)
          /\ Len(Append(results, entry)) = Len(results) + 1
          /\ \A k \in 1..(Len(results) + 1) :
                Append(results, entry)[k] = IF k = Len(results) + 1 THEN entry ELSE results[k]
      BY <3>1
    <3>3. DOMAIN Append(results, entry) = 1..(Len(results) + 1)
      BY <3>1
    <3> QED BY <1>3, <2>1, <3>1, <3>2, <3>3
  <2>2. CASE ~kept
    BY <1>1, <1>3, <2>2
  <2> QED BY <2>1, <2>2
<1>7. \A k \in DOMAIN results' : ~(kept /\ k = Len(results) + 1) => k \in DOMAIN results
  BY <1>3, <1>6
<1>8. TypeOK'
  <2>1. results' \in Seq([request : Requests, rtt : Times, datagram : DOMAIN heard'])
    BY <1>1, <1>6 DEF E
  <2>2. Len(results') <= MaxTargets
    <3>1. Len(results) <= MaxTargets
      BY <1>0 DEF TypeOK
    <3>2. kept => Len(results) < MaxTargets
      BY DEF kept
    <3> QED BY <1>3, <1>6, <3>1, <3>2, Bounds
  <2>3. buffer' \in Seq(DOMAIN heard')
    BY <1>1, <1>2
  <2> QED BY <1>0, <1>1, <2>1, <2>2, <2>3 DEF TypeOK, Times
<1>9. Timely' /\ Recorded' /\ SentAfter' /\ HeardBefore' /\ Port'
  BY <1>0, <1>1 DEF Timely, Recorded, SentAfter, HeardBefore, Port
<1>10. Waiting'
  <2>1. \A i \in DOMAIN Tail(buffer) : i + 1 \in DOMAIN buffer
          /\ Tail(buffer)[i] = buffer[i + 1]
    BY <1>2
  <2>2. \A j, k \in DOMAIN Tail(buffer) : j < k => j + 1 < k + 1
    BY <1>2
  <2> QED BY <1>0, <1>1, <2>1, <2>2 DEF Waiting
<1>11. RttCoversRoundTrip'
  <2> SUFFICES ASSUME NEW k \in DOMAIN results'
               PROVE  LET q == results'[k].request
                          h == heard[results'[k].datagram]
                      IN  sentAt[q] > 0 /\ h.request = q /\ h.taken
                        /\ results'[k].rtt >= h.at - sentAt[q]
    BY <1>1 DEF RttCoversRoundTrip
  <2>1. CASE kept /\ k = Len(results) + 1
    <3>1. results'[k] = entry
      BY <1>6, <2>1
    <3>2. heard[d].at \in Nat
      BY <1>3, Bounds DEF Times
    <3>3. clock - table[r].time >= heard[d].at - sentAt[r]
      <4> DEFINE x == table[r].time
                 y == sentAt[r]
                 z == heard[d].at
      <4>1. x \in Nat /\ y \in Nat /\ z \in Nat /\ clock \in Nat /\ x <= y /\ z <= clock
        BY <1>3, <1>4, <2>1, <3>2
      <4> HIDE DEF x, y, z
      <4>2. clock - x >= z - y
        BY <4>1
      <4> QED BY <4>2 DEF x, y, z
    <3> HIDE DEF d
    <3> QED BY <1>3, <1>4, <1>5, <2>1, <3>1, <3>3
  <2>2. CASE ~(kept /\ k = Len(results) + 1)
    BY <1>0, <1>6, <1>7, <2>2 DEF RttCoversRoundTrip
  <2> QED BY <2>1, <2>2
<1>12. ListenerKeepsReplies'
  <2>0. /\ \A j, k \in DOMAIN results : j < k => results[j].datagram < results[k].datagram
        /\ \A k \in DOMAIN results, b \in DOMAIN buffer : results[k].datagram < buffer[b]
        /\ \A k \in DOMAIN results : results[k].datagram \in Answers
        /\ Len(results) < MaxTargets =>
              \A i \in Answers : SendTime(heard[i].request) > 0 =>
                  (\E k \in DOMAIN results : results[k].datagram = i) \/ i \in ToSet(buffer)
    BY <1>0, <1>1 DEF ListenerKeepsReplies
  <2>a. 1 \in DOMAIN buffer
    BY <1>2
  <2>1. ASSUME NEW j \in DOMAIN results', NEW k \in DOMAIN results', j < k
        PROVE  results'[j].datagram < results'[k].datagram
    <3>1. j \in DOMAIN results /\ results'[j] = results[j]
      BY <1>3, <1>6, <2>1
    <3>2. CASE kept /\ k = Len(results) + 1
      BY <1>2, <1>5, <1>6, <2>0, <2>a, <3>1, <3>2
    <3>3. CASE ~(kept /\ k = Len(results) + 1)
      BY <1>6, <1>7, <2>0, <2>1, <3>1, <3>3
    <3> QED BY <3>2, <3>3
  <2>2. ASSUME NEW k \in DOMAIN results', NEW b \in DOMAIN Tail(buffer)
        PROVE  results'[k].datagram < Tail(buffer)[b]
    <3>1. b + 1 \in DOMAIN buffer /\ Tail(buffer)[b] = buffer[b + 1] /\ 1 < b + 1
      BY <1>2
    <3>2. CASE kept /\ k = Len(results) + 1
      <4>1. buffer[1] < buffer[b + 1]
        BY <1>0, <1>1, <2>a, <3>1 DEF Waiting
      <4> QED BY <1>2, <1>5, <1>6, <3>1, <3>2, <4>1
    <3>3. CASE ~(kept /\ k = Len(results) + 1)
      BY <1>6, <1>7, <2>0, <3>1, <3>3
    <3> QED BY <3>2, <3>3
  <2>3. ASSUME NEW k \in DOMAIN results' PROVE results'[k].datagram \in Answers
    <3>1. CASE kept /\ k = Len(results) + 1
      <4>1. d \in Answers
        BY <1>2, <1>3, <3>1 DEF Answers, kept
      <4> QED BY <1>5, <1>6, <3>1, <4>1
    <3>2. CASE ~(kept /\ k = Len(results) + 1)
      BY <1>6, <1>7, <2>0, <3>2
    <3> QED BY <3>1, <3>2
  <2>4. ASSUME Len(results') < MaxTargets, NEW i \in Answers, SendTime(heard[i].request) > 0
        PROVE  (\E k \in DOMAIN results' : results'[k].datagram = i)
                 \/ i \in ToSet(Tail(buffer))
    <3>1. Len(results) < MaxTargets
      BY <1>3, <1>6, <2>4, Bounds
    <3>2. CASE \E k \in DOMAIN results : results[k].datagram = i
      <4>1. PICK k \in DOMAIN results : results[k].datagram = i
        BY <3>2
      <4>2. k \in DOMAIN results' /\ results'[k] = results[k]
        BY <1>3, <1>6
      <4> QED BY <4>1, <4>2
    <3>3. CASE i \in ToSet(buffer)
      <4>1. PICK b \in DOMAIN buffer : buffer[b] = i
        BY <3>3 DEF ToSet
      <4>2. CASE b = 1
        <5>1. d = i /\ kept
          BY <1>2, <2>4, <3>1, <4>1, <4>2 DEF kept, Answers
        <5>2. Len(results) + 1 \in DOMAIN results' /\ results'[Len(results) + 1].datagram = d
          BY <1>3, <1>5, <1>6, <5>1
        <5> QED BY <5>1, <5>2
      <4>3. CASE b # 1
        <5>1. b - 1 \in DOMAIN Tail(buffer) /\ Tail(buffer)[b - 1] = buffer[b]
          BY <1>2, <4>3
        <5> QED BY <4>1, <5>1 DEF ToSet
      <4> QED BY <4>2, <4>3
    <3> QED BY <2>0, <2>4, <3>1, <3>2, <3>3
  <2>5. \A q : SendTime(q)' = SendTime(q)
    BY <1>1 DEF SendTime
  <2>6. Answers' = Answers
    BY <1>1 DEF Answers
  <2> HIDE DEF d, r
  <2> QED BY <1>1, <2>1, <2>2, <2>3, <2>4, <2>5, <2>6 DEF ListenerKeepsReplies
<1> QED BY <1>8, <1>9, <1>10, <1>11, <1>12 DEF BlastInv

\* The results are shown in another order.
LEMMA StopListeningKeeps == ASSUME BlastInv, StopListening PROVE BlastInv'
<1> DEFINE E == [request : Requests, rtt : Times, datagram : DOMAIN heard]
<1>0. /\ TypeOK /\ Timely /\ Recorded /\ SentAfter /\ HeardBefore /\ Port /\ Waiting
      /\ RttCoversRoundTrip /\ ListenerKeepsReplies
  BY DEF BlastInv
<1>1. /\ pc = "listen" /\ pc' = "done" /\ owner' = "none"
      /\ \E p \in Bijection(DOMAIN results, DOMAIN results) :
            results' = [k \in DOMAIN results |-> results[p[k]]]
      /\ UNCHANGED <<made, joined, table, tpc, sentAt, buffer, clock, start, heard>>
  BY DEF StopListening, threads
<1>2. PICK p \in [DOMAIN results -> DOMAIN results] : results' = [k \in DOMAIN results |-> results[p[k]]]
  BY <1>1 DEF Bijection, Injection
<1>3. Len(results) \in Nat /\ DOMAIN results = 1..Len(results)
        /\ \A k \in DOMAIN results : results[k] \in E
  <2>1. results \in Seq(E)
    BY <1>0 DEF TypeOK
  <2> HIDE DEF E
  <2> QED BY <2>1, OfSeq, Zenon
<1>4. DOMAIN results' = DOMAIN results
        /\ \A k \in DOMAIN results : p[k] \in DOMAIN results /\ results'[k] = results[p[k]]
  BY <1>2
<1>5. results' \in Seq(E) /\ Len(results') = Len(results)
  <2> HIDE DEF E
  <2>1. results' \in [1..Len(results) -> E]
    BY <1>2, <1>3, <1>4
  <2> QED BY <1>3, <2>1
<1>6. TypeOK'
  BY <1>0, <1>1, <1>5 DEF TypeOK, Times
<1>7. Timely' /\ Recorded' /\ SentAfter' /\ HeardBefore' /\ Port' /\ Waiting'
  BY <1>0, <1>1 DEF Timely, Recorded, SentAfter, HeardBefore, Port, Waiting
<1>8. RttCoversRoundTrip'
  <2> SUFFICES ASSUME NEW k \in DOMAIN results
               PROVE  LET q == results'[k].request
                          h == heard[results'[k].datagram]
                      IN  sentAt[q] > 0 /\ h.request = q /\ h.taken
                        /\ results'[k].rtt >= h.at - sentAt[q]
    BY <1>1, <1>4 DEF RttCoversRoundTrip
  <2>1. p[k] \in DOMAIN results /\ results'[k] = results[p[k]]
    BY <1>4
  <2> QED BY <1>0, <2>1 DEF RttCoversRoundTrip
<1>9. ListenerKeepsReplies'
  BY <1>1 DEF ListenerKeepsReplies
<1> QED BY <1>6, <1>7, <1>8, <1>9 DEF BlastInv

\* A datagram is heard by whoever has the port.
LEMMA ArriveKeeps == ASSUME BlastInv, Arrive PROVE BlastInv'
<1> DEFINE D == [request : Requests \union {Other}, at : Times, taken : BOOLEAN]
           n == Len(heard) + 1
<1>0. /\ TypeOK /\ Timely /\ Recorded /\ SentAfter /\ HeardBefore /\ Port /\ Waiting
      /\ RttCoversRoundTrip /\ ListenerKeepsReplies
  BY DEF BlastInv
<1>1. PICK r \in {Other} \union {q \in Requests : sentAt[q] > 0} :
         /\ heard' = Append(heard, [request |-> r, at |-> clock, taken |-> owner = "listener"])
         /\ buffer' = IF owner = "listener" THEN Append(buffer, Len(heard) + 1) ELSE buffer
  BY DEF Arrive
<1>2. /\ pc \notin {"done", "crashed"}
      /\ UNCHANGED <<pc, made, joined, table, owner, tpc, sentAt, results, clock, start>>
  BY DEF Arrive, main, threads
<1> DEFINE h == [request |-> r, at |-> clock, taken |-> owner = "listener"]
<1>3. h \in D /\ h.request = r /\ h.at = clock /\ (h.taken <=> owner = "listener")
  BY <1>0 DEF TypeOK
<1> HIDE DEF h
<1>4. /\ Len(heard) \in Nat /\ DOMAIN heard = 1..Len(heard)
      /\ heard' \in Seq(D) /\ DOMAIN heard' = 1..n /\ n \in Nat
      /\ \A i \in 1..n : heard'[i] = IF i = n THEN h ELSE heard[i]
  <2>1. heard \in Seq(D) /\ heard' = Append(heard, h)
    BY <1>0, <1>1 DEF TypeOK, h
  <2> HIDE DEF D
  <2> QED BY <1>3, <2>1
<1>5. DOMAIN heard \subseteq DOMAIN heard' /\ n \in DOMAIN heard' /\ n \notin DOMAIN heard
  BY <1>4
<1>6. \A i \in DOMAIN heard : heard'[i] = heard[i]
  BY <1>4
<1>7. heard'[n] = h /\ \A i \in DOMAIN heard' : i = n \/ i \in DOMAIN heard
  BY <1>4
<1>8. /\ Len(buffer) \in Nat /\ DOMAIN buffer = 1..Len(buffer)
      /\ \A b \in DOMAIN buffer : buffer[b] \in DOMAIN heard
      /\ \A k \in DOMAIN results : results[k].datagram \in DOMAIN heard
  BY <1>0, Entries
<1>9. /\ buffer' \in Seq(DOMAIN heard')
      /\ \A b \in DOMAIN buffer' : \/ b \in DOMAIN buffer /\ buffer'[b] = buffer[b]
                                   \/ owner = "listener" /\ b = Len(buffer) + 1
                                     /\ buffer'[b] = n
      /\ owner = "listener" => n \in ToSet(buffer')
      /\ \A x : x \in ToSet(buffer) => x \in ToSet(buffer')
  <2>1. buffer \in Seq(DOMAIN heard')
    <3>1. buffer \in Seq(DOMAIN heard)
      BY <1>0 DEF TypeOK
    <3> QED BY <1>5, <3>1, SeqMonotonic
  <2>2. CASE owner = "listener"
    <3> DEFINE V == DOMAIN heard'
    <3>1. buffer' = Append(buffer, n) /\ n \in V /\ buffer \in Seq(V)
      BY <1>1, <1>5, <2>1, <2>2
    <3> HIDE DEF V, n
    <3>2. /\ Append(buffer, n) \in Seq(V) /\ DOMAIN Append(buffer, n) = 1..(Len(buffer) + 1)
          /\ \A b \in 1..(Len(buffer) + 1) :
                Append(buffer, n)[b] = IF b = Len(buffer) + 1 THEN n ELSE buffer[b]
      BY <3>1
    <3>3. \A b \in 1..(Len(buffer) + 1) : b = Len(buffer) + 1 \/ b \in 1..Len(buffer)
      BY <1>8
    <3>4. Len(buffer) + 1 \in DOMAIN buffer' /\ buffer'[Len(buffer) + 1] = n
      BY <1>8, <3>1, <3>2
    <3>5. \A b \in DOMAIN buffer : b \in DOMAIN buffer' /\ buffer'[b] = buffer[b]
      BY <1>8, <3>1, <3>2
    <3>6. buffer' \in Seq(V)
      BY <3>1, <3>2
    <3>7. \A b \in DOMAIN buffer' : \/ b \in DOMAIN buffer /\ buffer'[b] = buffer[b]
                                    \/ b = Len(buffer) + 1 /\ buffer'[b] = n
      BY <1>8, <3>1, <3>2, <3>3
    <3> QED BY <2>2, <3>4, <3>5, <3>6, <3>7 DEF ToSet, V
  <2>3. CASE owner # "listener"
    BY <1>1, <2>1, <2>3
  <2> QED BY <2>2, <2>3
<1> HIDE DEF n
<1>10. TypeOK'
  <2>1. results' \in Seq([request : Requests, rtt : Times, datagram : DOMAIN heard'])
    <3>1. results \in Seq([request : Requests, rtt : Times, datagram : DOMAIN heard])
      BY <1>0 DEF TypeOK
    <3>2. [request : Requests, rtt : Times, datagram : DOMAIN heard]
             \subseteq [request : Requests, rtt : Times, datagram : DOMAIN heard']
      BY <1>5
    <3> QED BY <1>2, <3>1, <3>2, SeqMonotonic
  <2> QED BY <1>0, <1>2, <1>4, <1>9, <2>1 DEF TypeOK, Times
<1>11. Timely' /\ Recorded' /\ SentAfter'
  BY <1>0, <1>2 DEF Timely, Recorded, SentAfter
<1>12. HeardBefore'
  <2> SUFFICES ASSUME NEW i \in DOMAIN heard'
               PROVE  /\ heard'[i].at <= clock
                      /\ heard'[i].request # Other => sentAt[heard'[i].request] > 0
    BY <1>2 DEF HeardBefore
  <2>1. clock \in Nat
    BY <1>0, Entries
  <2>2. CASE i = n
    BY <1>1, <1>3, <1>7, <2>1, <2>2
  <2>3. CASE i \in DOMAIN heard
    BY <1>0, <1>6, <2>3 DEF HeardBefore
  <2> QED BY <1>7, <2>2, <2>3
<1>13. Port'
  <2>1. pc \notin {"listen", "done"} => buffer' = <<>>
    BY <1>0, <1>1 DEF Port
  <2>2. ASSUME pc \in {"fire", "join", "bind", "crashed"},
               NEW i \in DOMAIN heard' PROVE ~heard'[i].taken
    <3>1. owner # "listener"
      BY <1>0, <2>2 DEF Port
    <3> QED BY <1>0, <1>3, <1>6, <1>7, <2>2, <3>1 DEF Port
  <2> QED BY <1>0, <1>2, <2>1, <2>2 DEF Port
<1>14. Waiting'
  <2> SUFFICES ASSUME pc = "listen"
               PROVE  /\ \A j, k \in DOMAIN buffer' : j < k => buffer'[j] < buffer'[k]
                      /\ \A b \in DOMAIN buffer' : heard'[buffer'[b]].taken
    BY <1>2 DEF Waiting
  <2>1. \A b \in DOMAIN buffer : heard'[buffer[b]].taken /\ buffer[b] < n
    BY <1>0, <1>4, <1>6, <1>8 DEF Waiting, n
  <2>2. ASSUME NEW j \in DOMAIN buffer', NEW k \in DOMAIN buffer',
               j < k PROVE buffer'[j] < buffer'[k]
    BY <1>0, <1>8, <1>9, <2>1, <2>2 DEF Waiting
  <2>3. ASSUME NEW b \in DOMAIN buffer' PROVE heard'[buffer'[b]].taken
    BY <1>3, <1>7, <1>9, <2>1
  <2> QED BY <2>2, <2>3
<1>15. RttCoversRoundTrip'
  BY <1>0, <1>2, <1>6, <1>8 DEF RttCoversRoundTrip
<1>16. ListenerKeepsReplies'
  <2> SUFFICES ASSUME pc = "listen"
               PROVE  ListenerKeepsReplies'
    BY <1>2 DEF ListenerKeepsReplies
  <2>0. /\ \A j, k \in DOMAIN results : j < k => results[j].datagram < results[k].datagram
        /\ \A k \in DOMAIN results, b \in DOMAIN buffer : results[k].datagram < buffer[b]
        /\ \A k \in DOMAIN results : results[k].datagram \in Answers
        /\ Len(results) < MaxTargets =>
              \A i \in Answers : SendTime(heard[i].request) > 0 =>
                  (\E k \in DOMAIN results : results[k].datagram = i) \/ i \in ToSet(buffer)
    BY <1>0 DEF ListenerKeepsReplies
  <2>1. owner = "listener"
    BY <1>0 DEF Port
  <2>2. \A i \in Answers : i \in Answers'
    BY <1>5, <1>6 DEF Answers
  <2>3. \A i \in Answers' : i = n \/ (i \in Answers /\ heard'[i] = heard[i])
    BY <1>6, <1>7 DEF Answers
  <2>4. \A q : SendTime(q)' = SendTime(q)
    BY <1>2 DEF SendTime
  <2>5. \A k \in DOMAIN results, b \in DOMAIN buffer' : results[k].datagram < buffer'[b]
    <3>1. \A k \in DOMAIN results : results[k].datagram < n
      BY <1>4, <1>8 DEF n
    <3> QED BY <1>9, <2>0, <3>1
  <2>6. ASSUME Len(results) < MaxTargets, NEW i \in Answers', SendTime(heard'[i].request) > 0
        PROVE  (\E k \in DOMAIN results : results[k].datagram = i) \/ i \in ToSet(buffer')
    BY <1>9, <2>0, <2>1, <2>3, <2>6
  <2> QED BY <1>2, <2>0, <2>2, <2>4, <2>5, <2>6 DEF ListenerKeepsReplies
<1> QED BY <1>10, <1>11, <1>12, <1>13, <1>14, <1>15, <1>16 DEF BlastInv

\* Time passes.
LEMMA TickKeeps == ASSUME BlastInv, Tick PROVE BlastInv'
<1>0. /\ TypeOK /\ Timely /\ Recorded /\ SentAfter /\ HeardBefore /\ Port /\ Waiting
      /\ RttCoversRoundTrip /\ ListenerKeepsReplies
  BY DEF BlastInv
<1>1. /\ \/ pc \in {"fire", "join", "bind"} /\ clock < start + Slack
         \/ pc = "listen" /\ clock < start + Window + Slack
      /\ clock' = clock + 1
      /\ UNCHANGED <<pc, made, joined, table, owner, tpc, sentAt, buffer, results,
                     start, heard>>
  BY DEF Tick, main, threads
<1>2. clock \in Nat /\ start \in Nat /\ start > 0
  BY <1>0, Bounds DEF TypeOK, Times
<1>3. clock' \in Times \ {0}
  <2>1. clock + 1 <= 1 + 2 * Slack + Window
    BY <1>0, <1>1, <1>2, Bounds DEF Timely
  <2> QED BY <1>1, <1>2, <2>1, Bounds DEF Times
<1>4. TypeOK'
  BY <1>0, <1>1, <1>3 DEF TypeOK, Times
<1>5. Timely'
  BY <1>0, <1>1, <1>2, Bounds DEF Timely
<1>6. Recorded' /\ HeardBefore'
  <2>1. \A i \in DOMAIN table : table[i].time \in Nat
    BY <1>0, Entries
  <2>2. \A i \in DOMAIN heard : heard[i].at \in Nat
    BY <1>0, Entries
  <2>3. \A i \in DOMAIN table : table[i].time <= clock'
    BY <1>0, <1>1, <1>2, <2>1 DEF Recorded
  <2>4. \A i \in DOMAIN heard : heard[i].at <= clock'
    BY <1>0, <1>1, <1>2, <2>2 DEF HeardBefore
  <2> QED BY <1>0, <1>1, <2>3, <2>4 DEF Recorded, HeardBefore
<1>7. SentAfter' /\ Port' /\ Waiting'
  BY <1>0, <1>1 DEF SentAfter, Port, Waiting
<1>8. RttCoversRoundTrip'
  BY <1>0, <1>1 DEF RttCoversRoundTrip
<1>9. ListenerKeepsReplies'
  <2>1. \A q : SendTime(q)' = SendTime(q)
    BY <1>1 DEF SendTime
  <2>2. Answers' = Answers
    BY <1>1 DEF Answers
  <2> QED BY <1>0, <1>1, <2>1, <2>2 DEF ListenerKeepsReplies
<1> QED BY <1>4, <1>5, <1>6, <1>7, <1>8, <1>9 DEF BlastInv

\* BlastInv holds always.
LEMMA BlastInvariance == Spec => []BlastInv
<1>1. BlastInv /\ [Next]_vars => BlastInv'
  <2> SUFFICES ASSUME BlastInv, [Next]_vars PROVE BlastInv'
    OBVIOUS
  <2>1. CASE Main
    BY <2>1, OpenFirerKeeps, LaunchKeeps, JoiningKeeps, OpenListenerKeeps, ReceiveKeeps,
       StopListeningKeeps DEF Main
  <2>2. ASSUME NEW r \in Requests, Fire(r) PROVE BlastInv'
    BY <2>2, FireKeeps
  <2>3. CASE Arrive
    BY <2>3, ArriveKeeps
  <2>4. CASE Tick
    BY <2>4, TickKeeps
  <2>5. CASE UNCHANGED vars
    <3>1. UNCHANGED <<pc, made, joined, table, owner, tpc, sentAt, buffer, results,
                      clock, start, heard>>
      BY <2>5 DEF vars, main, threads
    <3>2. (\A q : SendTime(q)' = SendTime(q)) /\ Answers' = Answers
      BY <3>1 DEF SendTime, Answers
    <3> QED BY <3>1, <3>2 DEF BlastInv, TypeOK, Times, Timely, Recorded, SentAfter,
        HeardBefore,
              Port, Waiting, RttCoversRoundTrip, ListenerKeepsReplies
  <2> QED BY <2>1, <2>2, <2>3, <2>4, <2>5 DEF Next, Ended
<1> QED BY <1>1, BlastInit, PTL DEF Spec

\* Type correctness: the table and the results never outgrow their arrays.
THEOREM BlastTypes == Spec => []TypeOK
<1>1. BlastInv => TypeOK
  BY DEF BlastInv
<1> QED BY <1>1, BlastInvariance, PTL

\* A reported time covers the round trip of the very datagram it was taken from.
THEOREM BlastRttCoversRoundTrip == Spec => []RttCoversRoundTrip
<1>1. BlastInv => RttCoversRoundTrip
  BY DEF BlastInv
<1> QED BY <1>1, BlastInvariance, PTL

\* No answer to a recorded request that reached the listener is lost while there is
\* room, counted twice or overtaken.
THEOREM BlastListenerKeepsReplies == Spec => []ListenerKeepsReplies
<1>1. BlastInv => ListenerKeepsReplies
  BY DEF BlastInv
<1> QED BY <1>1, BlastInvariance, PTL
=============================================================================
