------------------------------ MODULE Nat_proofs ------------------------------
(***************************************************************************)
(* What a host may believe of the NAT in front of it, in two programs.     *)
(* HolePunch: for every number of ports and any slices, every lifetime and *)
(* delay, every interval and duration of the keepers, and every behaviour  *)
(* of the NATs, the network and the clock.  NatAnalyzer: for any number of *)
(* servers, any NAT and any number of datagrams.                           *)
(***************************************************************************)
EXTENDS HolePunch, NatAnalyzer, FiniteSetTheorems, SequenceTheorems, TLAPS

-----------------------------------------------------------------------------
(***************************************************************************)
(* The waves, the listener and the keepers.                                *)
(***************************************************************************)

-----------------------------------------------------------------------------
(* The inductive invariant.                                                *)

\* The flow that a datagram left through is at least as young as the datagram.
SentThrough ==
    MaxDelay < Lifetime =>
        \A d \in net : \E f \in Flows :
            /\ f[2] = d.port
            /\ nat[Peer[d.to]][f].ext = d.from
            /\ nat[Peer[d.to]][f].ttl >= Lifetime - d.age

IInv == HoleTypeOK /\ IsFiniteSet(net) /\ SentThrough

Mapping  == [ext : Ports, ttl : 1..Lifetime]
Datagram == [to : Sides, from : Ports, port : Ports, age : 0..MaxDelay]

-----------------------------------------------------------------------------
(* Lemmas.                                                                 *)

\* Each host is the other one's peer.
LEMMA Peers ==
    /\ Peer \in [Sides -> Sides]
    /\ \A s \in Sides : Peer[s] # s /\ Peer[Peer[s]] = s
    /\ \A s, t \in Sides : s # t => Peer[s] = t
<1>1. \A s \in Sides : \E t \in Sides : t # s
  BY HolePunchAssumption
<1>2. \A s \in Sides : Peer[s] \in Sides /\ Peer[s] # s
  BY <1>1 DEF Peer
<1> QED
  BY <1>2, HolePunchAssumption DEF Peer

\* The ports of a flow are ports, and the wave's flows are flows.
LEMMA FlowPorts ==
    /\ \A f \in Flows : f[2] \in Ports
    /\ \A p \in Ports : <<p, p>> \in Flows
    /\ KeepFlows \subseteq Flows
  BY HolePunchAssumption DEF Flows

\* The slices start at ports, and all but the last end before the last port.
LEMMA Slices ==
    /\ Last \in Workers /\ MaxPort \in Nat \ {0} /\ Ports = 1..MaxPort
    /\ First \in [Workers -> Ports]
    /\ \A w \in Workers : w # Last => w + 1 \in Workers
    /\ \A w \in Workers : EndPort(w) \in Int /\ EndPort(w) <= MaxPort
<1>1. First \in Seq(Ports) /\ First # <<>> /\ MaxPort \in Nat \ {0} /\ Ports = 1..MaxPort
  BY HolePunchAssumption DEF Ports
<1>2. Len(First) \in Nat \ {0} /\ Workers = 1..Len(First) /\ First \in [Workers -> Ports]
  BY <1>1 DEF Workers
<1>3. \A w \in Workers : w \in Nat /\ w <= Last /\ (w # Last => w + 1 \in Workers)
  <2> DEFINE n == Len(First)
  <2>1. n \in Nat \ {0} /\ Workers = 1..n /\ Last = n
    BY <1>2 DEF Last
  <2> HIDE DEF n
  <2> QED
    BY <2>1
<1>4. ASSUME NEW w \in Workers PROVE EndPort(w) \in Int /\ EndPort(w) <= MaxPort
  <2>1. CASE w = Last
    BY <1>1, <2>1 DEF EndPort
  <2>2. CASE w # Last
    <3>1. First[w + 1] \in 1..MaxPort
      BY <1>1, <1>2, <1>3, <2>2
    <3> QED
      BY <1>1, <2>2, <3>1 DEF EndPort
  <2> QED
    BY <2>1, <2>2
<1>5. Last \in Workers
  <2> DEFINE n == Len(First)
  <2>1. n \in Nat \ {0} /\ Workers = 1..n /\ Last = n
    BY <1>2 DEF Last
  <2> HIDE DEF n
  <2> QED
    BY <2>1
<1> QED
  BY <1>1, <1>2, <1>3, <1>4, <1>5

\* A flow lives if it is not closed.
LEMMA LiveFlow ==
    ASSUME HoleTypeOK, NEW s \in Sides, NEW f \in Flows
    PROVE  /\ nat[s][f] \in {Closed} \union Mapping
           /\ Live(s, f) <=> nat[s][f] \in Mapping
           /\ nat[s][f].ttl \in 0..Lifetime
  BY HolePunchAssumption DEF HoleTypeOK, Live, Closed, Mapping

\* A send opens or refreshes one flow, which keeps the external port it has,
\* and adds at most one datagram, which carries that port; or it is dropped.
LEMMA Emission ==
    ASSUME IInv, NEW s \in Sides, NEW f \in Flows, Emit(s, f)
    PROVE  \/ UNCHANGED <<nat, net>>
           \/ \E e \in Ports :
                /\ Live(s, f) => e = nat[s][f].ext
                /\ nat' = [nat EXCEPT ![s][f] = [ext |-> e, ttl |-> Lifetime]]
                /\ net' \in {net, net \union {[to |-> Peer[s], from |-> e, port |-> f[2], age |-> 0]}}
                /\ Cardinality(net') <= MaxFlight
<1>1. Translations(s, f) \subseteq Ports
  BY LiveFlow DEF Translations, Mapping, IInv
<1>2. \A e \in Translations(s, f) : Live(s, f) => e = nat[s][f].ext
  BY DEF Translations
<1> QED
  BY <1>1, <1>2 DEF Emit

\* What a send leaves alone, and what it changes.
LEMMA EmissionKeeps ==
    ASSUME IInv, NEW s \in Sides, NEW f \in Flows, Emit(s, f)
    PROVE  /\ nat' \in [Sides -> [Flows -> {Closed} \union Mapping]]
           /\ net' \subseteq Datagram /\ IsFiniteSet(net') /\ Cardinality(net') <= MaxFlight
           /\ SentThrough'
<1>1. nat \in [Sides -> [Flows -> {Closed} \union Mapping]] /\ net \subseteq Datagram
  BY DEF IInv, HoleTypeOK, Mapping, Datagram
<1>a. CASE UNCHANGED <<nat, net>>
  BY <1>1, <1>a DEF IInv, HoleTypeOK, SentThrough
<1>b. CASE ~UNCHANGED <<nat, net>>
  <2> PICK e \in Ports :
        /\ Live(s, f) => e = nat[s][f].ext
        /\ nat' = [nat EXCEPT ![s][f] = [ext |-> e, ttl |-> Lifetime]]
        /\ net' \in {net, net \union {[to |-> Peer[s], from |-> e, port |-> f[2], age |-> 0]}}
        /\ Cardinality(net') <= MaxFlight
    BY <1>b, Emission
  <2> DEFINE new == [to |-> Peer[s], from |-> e, port |-> f[2], age |-> 0]
  <2>1. [ext |-> e, ttl |-> Lifetime] \in Mapping
    BY HolePunchAssumption DEF Mapping
  <2>2. nat' \in [Sides -> [Flows -> {Closed} \union Mapping]]
    BY <1>1, <2>1
  <2>3. nat'[s][f] = [ext |-> e, ttl |-> Lifetime]
    BY <1>1
  <2>4. new \in Datagram
    BY Peers, FlowPorts, HolePunchAssumption DEF Datagram
  <2>5. net' \subseteq Datagram
    BY <1>1, <2>4
  <2>6. IsFiniteSet(net')
    <3>1. IsFiniteSet(net)
      BY DEF IInv
    <3>2. IsFiniteSet(net \union {new})
      BY <3>1, FS_AddElement
    <3> QED
      BY <3>1, <3>2
  <2>7. \A t \in Sides, g \in Flows :
           Live(t, g) => /\ nat'[t][g].ttl >= nat[t][g].ttl
                         /\ nat'[t][g].ext = nat[t][g].ext
    <3> TAKE t \in Sides, g \in Flows
    <3>1. nat[t][g].ttl \in 0..Lifetime
      BY LiveFlow DEF IInv
    <3>2. CASE t = s /\ g = f
      BY <3>1, <3>2, <2>3, HolePunchAssumption
    <3>3. CASE ~(t = s /\ g = f)
      <4>1. nat'[t][g] = nat[t][g]
        BY <3>3, <1>1
      <4> QED
        BY <3>1, <4>1
    <3> QED
      BY <3>2, <3>3
  <2>8. SentThrough'
    <3> SUFFICES ASSUME MaxDelay < Lifetime, NEW d \in net'
                 PROVE  \E g \in Flows : /\ g[2] = d.port
                                         /\ nat'[Peer[d.to]][g].ext = d.from
                                         /\ nat'[Peer[d.to]][g].ttl >= Lifetime - d.age
      BY DEF SentThrough
    <3>1. CASE d \in net
      <4>1. Peer[d.to] \in Sides /\ d.age \in 0..MaxDelay
        BY <3>1, <1>1, Peers DEF Datagram
      <4>2. PICK g \in Flows : /\ g[2] = d.port
                               /\ nat[Peer[d.to]][g].ext = d.from
                               /\ nat[Peer[d.to]][g].ttl >= Lifetime - d.age
        BY <3>1 DEF IInv, SentThrough
      <4>3. nat[Peer[d.to]][g].ttl \in 0..Lifetime /\ nat'[Peer[d.to]][g].ttl \in 0..Lifetime
        BY <4>1, <2>2, LiveFlow, HolePunchAssumption DEF IInv, Mapping, Closed
      <4>4. Live(Peer[d.to], g)
        <5> DEFINE life == nat[Peer[d.to]][g].ttl
        <5>1. /\ life \in Nat /\ Lifetime \in Nat /\ MaxDelay \in Nat /\ d.age \in Nat
              /\ d.age <= MaxDelay /\ life >= Lifetime - d.age
          BY <4>1, <4>2, <4>3, HolePunchAssumption
        <5>2. life > 0
          <6> HIDE DEF life
          <6> QED
            BY <5>1
        <5> QED
          BY <5>2 DEF Live
      <4>5. /\ nat'[Peer[d.to]][g].ttl >= nat[Peer[d.to]][g].ttl
            /\ nat'[Peer[d.to]][g].ext = d.from
        BY <4>1, <4>2, <4>4, <2>7
      <4>6. nat'[Peer[d.to]][g].ttl >= Lifetime - d.age
        BY <4>1, <4>2, <4>3, <4>5, HolePunchAssumption
      <4> QED
        BY <4>2, <4>5, <4>6
    <3>2. CASE d = new
      <4>1. Peer[d.to] = s /\ d.port = f[2] /\ d.from = e /\ d.age = 0
        BY <3>2, Peers
      <4> QED
        BY <4>1, <2>3, HolePunchAssumption
    <3> QED
      BY <3>1, <3>2
  <2> QED
    BY <2>2, <2>5, <2>6, <2>8
<1> QED
  BY <1>a, <1>b

\* A tick ages every flow and forgets those whose life is over.
LEMMA TickFlows ==
    ASSUME HoleTypeOK, Tick, NEW s \in Sides, NEW f \in Flows
    PROVE  /\ nat'[s][f] \in {Closed} \union Mapping
           /\ nat'[s][f].ttl = IF nat[s][f].ttl = 0 THEN 0 ELSE nat[s][f].ttl - 1
           /\ nat'[s][f].ttl > 0 => nat'[s][f].ext = nat[s][f].ext
<1>1. nat'[s][f] = Aged(nat[s][f])
  BY DEF Tick
<1>2. CASE nat[s][f] = Closed
  BY <1>1, <1>2 DEF Aged, Closed
<1>3. CASE nat[s][f] \in Mapping
  BY <1>1, <1>3, HolePunchAssumption DEF Aged, Closed, Mapping
<1> QED
  BY <1>2, <1>3, LiveFlow

\* A datagram is what its fields are.
LEMMA Fields ==
    ASSUME NEW c \in Datagram
    PROVE  /\ c = [to |-> c.to, from |-> c.from, port |-> c.port, age |-> c.age]
           /\ c.to \in Sides /\ c.from \in Ports /\ c.port \in Ports /\ c.age \in Int
           /\ \A a \in Int : [c EXCEPT !.age = a] =
                               [to |-> c.to, from |-> c.from, port |-> c.port, age |-> a]
  BY HolePunchAssumption DEF Datagram

\* A tick ages the datagrams, and drops those that are too old.
LEMMA TickDatagrams ==
    ASSUME IInv, Tick
    PROVE  /\ net' \subseteq Datagram /\ IsFiniteSet(net') /\ Cardinality(net') <= MaxFlight
           /\ \A d \in net' : [d EXCEPT !.age = @ - 1] \in net
<1> DEFINE younger == [d \in net' |-> [d EXCEPT !.age = @ - 1]]
<1>1. net \subseteq Datagram /\ IsFiniteSet(net) /\ Cardinality(net) <= MaxFlight
  BY DEF IInv, HoleTypeOK, Datagram
<1>2. \A d \in net' : /\ d \in Datagram
                      /\ [d EXCEPT !.age = @ - 1] \in net
                      /\ d.age > 0
  <2> TAKE d \in net'
  <2>1. PICK c \in net : c.age < MaxDelay /\ d = [c EXCEPT !.age = @ + 1]
    BY DEF Tick
  <2>2. c \in Datagram
    BY <1>1, <2>1
  <2>3. d \in Datagram /\ d.age > 0
    BY <2>1, <2>2, HolePunchAssumption DEF Datagram
  <2>4. [d EXCEPT !.age = @ - 1] = c
    <3>1. d = [to |-> c.to, from |-> c.from, port |-> c.port, age |-> c.age + 1]
      BY <2>1, <2>2, Fields
    <3>2. d.age = c.age + 1 /\ c.age \in Int /\ d.age - 1 = c.age
      BY <2>2, <3>1, Fields
    <3>3. [d EXCEPT !.age = @ - 1] = [d EXCEPT !.age = c.age]
      BY <3>2
    <3>4. [d EXCEPT !.age = c.age] = [to |-> d.to, from |-> d.from, port |-> d.port, age |-> c.age]
      BY <2>3, <3>2, Fields
    <3> QED
      BY <2>2, <3>1, <3>3, <3>4, Fields
  <2> QED
    BY <2>1, <2>3, <2>4
<1>3. younger \in [net' -> net]
  BY <1>2
<1>4. \A c, d \in net' : younger[c] = younger[d] => c = d
  <2> SUFFICES ASSUME NEW c \in net', NEW d \in net',
                      [c EXCEPT !.age = @ - 1] = [d EXCEPT !.age = @ - 1]
               PROVE  c = d
    OBVIOUS
  <2>1. c \in Datagram /\ d \in Datagram
    BY <1>2
  <2>2. c.age - 1 \in Int /\ d.age - 1 \in Int
    BY <2>1, Fields
  <2>3. [to |-> c.to, from |-> c.from, port |-> c.port, age |-> c.age - 1] =
        [to |-> d.to, from |-> d.from, port |-> d.port, age |-> d.age - 1]
    BY <2>1, <2>2, Fields
  <2>4. c.to = d.to /\ c.from = d.from /\ c.port = d.port /\ c.age = d.age
    <3>1. c.age - 1 = d.age - 1
      BY <2>3
    <3> QED
      BY <2>1, <2>3, <3>1, Fields
  <2> QED
    BY <2>1, <2>4, Fields
<1>5. younger \in Injection(net', net)
  BY <1>3, <1>4 DEF Injection, IsInjective
<1>6. IsFiniteSet(net') /\ Cardinality(net') <= Cardinality(net)
  BY <1>1, <1>5, FS_Injection
<1>7. Cardinality(net) \in Nat /\ Cardinality(net') \in Nat
  BY <1>1, <1>6, FS_CardinalityType
<1>8. Cardinality(net') <= MaxFlight
  <2>1. MaxFlight \in Nat
    BY HolePunchAssumption
  <2> HIDE DEF younger
  <2> QED
    BY <1>1, <1>6, <1>7, <2>1
<1> QED
  BY <1>2, <1>6, <1>8

-----------------------------------------------------------------------------
(* The invariant is inductive.                                             *)

\* The inductive invariant holds initially.
LEMMA IInvInit == HoleInit => IInv
<1> SUFFICES ASSUME HoleInit PROVE IInv
  OBVIOUS
<1>1. wave = [s \in Sides |-> First] /\ net = {}
      /\ nat = [s \in Sides |-> [f \in Flows |-> Closed]]
      /\ keep = [s \in Sides |-> {}]
  BY DEF HoleInit
<1>2. wave \in [Sides -> [Workers -> 1..(MaxPort + 1)]]
  BY <1>1, Slices
<1>3. \A s \in Sides : wave[s][Last] \in Ports
  BY <1>1, Slices
<1>4. IsFiniteSet(net) /\ Cardinality(net) <= MaxFlight
  BY <1>1, FS_EmptySet, HolePunchAssumption
<1>5. HoleTypeOK
  BY <1>1, <1>2, <1>3, <1>4 DEF HoleTypeOK
<1> QED
  BY <1>1, <1>4, <1>5 DEF IInv, SentThrough

Keepers == [flow : KeepFlows, wait : (-Late)..Interval, left : 0..Duration]

\* What the waves keep of their type.
Waves == /\ wave \in [Sides -> [Workers -> 1..(MaxPort + 1)]]
         /\ \A s \in Sides : wave[s][Last] \in Ports

\* What the keepers keep of their type.
Kept == /\ keep \in [Sides -> SUBSET Keepers]
        /\ \A s \in Sides : \A k, l \in keep[s] : k.flow = l.flow => k = l

\* Every step preserves it.
LEMMA IInvNext == IInv /\ [HoleNext]_holeVars => IInv'
<1> SUFFICES ASSUME IInv, [HoleNext]_holeVars PROVE IInv'
  OBVIOUS
<1>1. /\ Waves /\ Kept
      /\ nat \in [Sides -> [Flows -> {Closed} \union Mapping]]
      /\ net \subseteq Datagram /\ IsFiniteSet(net) /\ Cardinality(net) <= MaxFlight
  BY DEF IInv, HoleTypeOK, Mapping, Datagram, Keepers, Waves, Kept
<1>2. ASSUME Waves', Kept',
             nat' \in [Sides -> [Flows -> {Closed} \union Mapping]],
             net' \subseteq Datagram, IsFiniteSet(net'), Cardinality(net') <= MaxFlight,
             SentThrough'
      PROVE  IInv'
  BY <1>2 DEF IInv, HoleTypeOK, Mapping, Datagram, Keepers, Waves, Kept
<1>3. ASSUME NEW s \in Sides, NEW f \in Flows, Emit(s, f), Waves', Kept'
      PROVE  IInv'
  BY <1>2, <1>3, EmissionKeeps
<1>4. CASE UNCHANGED holeVars
  BY <1>1, <1>2, <1>4 DEF holeVars, IInv, SentThrough, Waves, Kept
<1>5. ASSUME NEW s \in Sides, NEW w \in Workers, WaveSend(s, w)
      PROVE  IInv'
  <2> DEFINE p == wave[s][w]
  <2>1. /\ p <= EndPort(w) /\ keep' = keep
        /\ Emit(s, <<p, p>>) \/ UNCHANGED <<nat, net>>
        /\ wave' = [wave EXCEPT ![s][w] = IF p = MaxPort THEN 1 ELSE p + 1]
    BY <1>1, <1>5 DEF WaveSend, Waves
  <2>2. p \in 1..(MaxPort + 1) /\ EndPort(w) <= MaxPort /\ MaxPort \in Nat \ {0}
    <3>1. wave[s][w] \in 1..(MaxPort + 1)
      BY <1>1 DEF Waves
    <3>2. /\ EndPort(w) \in Int /\ EndPort(w) <= MaxPort
          /\ MaxPort \in Nat \ {0}
      BY Slices
    <3> QED
      BY <3>1, <3>2
  <2>3. EndPort(w) \in Int
    BY Slices
  <2>4. p \in Ports
    BY <2>1, <2>2, <2>3, Slices
  <2>5. <<p, p>> \in Flows
    BY <2>4, FlowPorts
  <2> DEFINE n == IF p = MaxPort THEN 1 ELSE p + 1
  <2>6. n \in 1..MaxPort
    BY <2>2, <2>4, Slices
  <2>7. wave' = [wave EXCEPT ![s][w] = n]
    BY <2>1
  <2> HIDE DEF n, p
  <2>8. Waves'
    <3>1. n \in 1..(MaxPort + 1) /\ n \in Ports
      BY <2>2, <2>6, Slices
    <3>2. wave' \in [Sides -> [Workers -> 1..(MaxPort + 1)]]
      BY <1>1, <2>7, <3>1 DEF Waves
    <3>3. ASSUME NEW t \in Sides PROVE wave'[t][Last] \in Ports
      <4>1. wave'[t][Last] = n \/ wave'[t][Last] = wave[t][Last]
        BY <1>1, <2>7, Slices DEF Waves
      <4> QED
        BY <1>1, <3>1, <4>1 DEF Waves
    <3> QED
      BY <3>2, <3>3 DEF Waves
  <2>9. Kept'
    BY <1>1, <2>1 DEF Kept
  <2>10. CASE Emit(s, <<p, p>>)
    BY <1>3, <2>5, <2>8, <2>9, <2>10
  <2>11. CASE UNCHANGED <<nat, net>>
    BY <1>1, <1>2, <2>8, <2>9, <2>11 DEF IInv, SentThrough
  <2> QED
    BY <2>1, <2>10, <2>11
<1>6. ASSUME NEW s \in Sides, NEW f \in KeepFlows, StartKeeper(s, f)
      PROVE  IInv'
  <2> DEFINE k == [flow |-> f, wait |-> Interval, left |-> Duration]
  <2>1. k \in Keepers
    BY HolePunchAssumption DEF Keepers
  <2>2. /\ keep' = [keep EXCEPT ![s] = @ \union {k}] /\ wave' = wave
        /\ Emit(s, f) /\ \A l \in keep[s] : l.flow # f
    BY <1>6 DEF StartKeeper
  <2>3. Kept'
    BY <1>1, <2>1, <2>2 DEF Kept
  <2>4. f \in Flows /\ Waves'
    BY <1>1, <2>2, FlowPorts DEF Waves
  <2> QED
    BY <1>3, <2>2, <2>3, <2>4
<1>7. ASSUME NEW s \in Sides, NEW c \in keep[s], KeepSend(s, c)
      PROVE  IInv'
  <2> DEFINE k == [c EXCEPT !.wait = Interval]
  <2>1. c \in Keepers /\ c.flow \in Flows
    BY <1>1, FlowPorts DEF Kept, Keepers
  <2>2. k \in Keepers /\ k.flow = c.flow
    BY <2>1, HolePunchAssumption DEF Keepers
  <2>3. keep' = [keep EXCEPT ![s] = (@ \ {c}) \union {k}] /\ wave' = wave /\ Emit(s, c.flow)
    BY <1>7 DEF KeepSend
  <2>4. keep \in [Sides -> SUBSET Keepers]
    BY <1>1 DEF Kept
  <2>5. \A l \in keep[s] \ {c} : l.flow # c.flow
    BY <1>1 DEF Kept
  <2> HIDE DEF k
  <2>6. Kept'
    BY <1>1, <2>2, <2>3, <2>4, <2>5 DEF Kept
  <2>7. Waves'
    BY <1>1, <2>3 DEF Waves
  <2> QED
    BY <1>3, <2>1, <2>3, <2>6, <2>7
<1>8. ASSUME NEW s \in Sides, NEW k \in keep[s], KeepEnd(s, k)
      PROVE  IInv'
  <2>1. keep' = [keep EXCEPT ![s] = @ \ {k}] /\ UNCHANGED <<wave, nat, net>>
    BY <1>8 DEF KeepEnd
  <2>2. Kept' /\ Waves' /\ SentThrough'
    BY <1>1, <2>1 DEF Kept, Waves, IInv, SentThrough
  <2> QED
    BY <1>1, <1>2, <2>1, <2>2
<1>9. ASSUME NEW d \in net, Arrive(d)
      PROVE  IInv'
  <2>1. net' = net \ {d} /\ UNCHANGED <<wave, nat, keep>>
    BY <1>9 DEF Arrive
  <2>2. net' \in SUBSET net
    BY <2>1
  <2>3. IsFiniteSet(net') /\ Cardinality(net') <= Cardinality(net)
    BY <1>1, <2>2, FS_Subset
  <2>4. Cardinality(net) \in Nat /\ Cardinality(net') \in Nat
    BY <1>1, <2>3, FS_CardinalityType
  <2>5. Cardinality(net') <= MaxFlight
    BY <1>1, <2>3, <2>4, HolePunchAssumption
  <2>6. SentThrough' /\ Waves' /\ Kept'
    BY <1>1, <2>1, <2>2 DEF IInv, SentThrough, Waves, Kept
  <2> QED
    BY <1>1, <1>2, <2>1, <2>2, <2>3, <2>5, <2>6
<1>10. CASE Tick
  <2>1. nat' \in [Sides -> [Flows -> {Closed} \union Mapping]]
    <3>1. \A s \in Sides, f \in Flows : nat'[s][f] \in {Closed} \union Mapping
      BY <1>10, TickFlows DEF IInv
    <3>2. nat' = [s \in Sides |-> [f \in Flows |-> Aged(nat[s][f])]]
      BY <1>10 DEF Tick
    <3> QED
      BY <3>1, <3>2
  <2>2. \A s \in Sides : \A k \in keep'[s] :
           \E c \in keep[s] : k = Slept(c)
    BY <1>10 DEF Tick
  <2>3. \A s \in Sides : \A c \in keep[s] : c \in Keepers /\ c.wait > -Late
    BY <1>1, <1>10 DEF Tick, Sleepers, Kept
  <2>4. \A s \in Sides : \A k \in keep'[s] : k \in Keepers
    <3> SUFFICES ASSUME NEW s \in Sides, NEW c \in Keepers, c.wait > -Late
                 PROVE  Slept(c) \in Keepers
      <4> TAKE s \in Sides
      <4> TAKE k \in keep'[s]
      <4>1. PICK c \in keep[s] : k = Slept(c)
        BY <2>2
      <4> QED
        BY <2>3, <4>1
    <3>1. /\ c = [flow |-> c.flow, wait |-> c.wait, left |-> c.left]
          /\ c.flow \in KeepFlows /\ c.wait \in (-Late)..Interval /\ c.left \in 0..Duration
      BY DEF Keepers
    <3>2. c.wait - 1 \in (-Late)..Interval
      BY <3>1, HolePunchAssumption
    <3>3. (IF c.left = 0 THEN 0 ELSE c.left - 1) \in 0..Duration
      BY <3>1, HolePunchAssumption
    <3> QED
      BY <3>1, <3>2, <3>3 DEF Keepers, Slept
  <2>5. keep' \in [Sides -> SUBSET Keepers]
    BY <2>4, <1>10 DEF Tick
  <2>6. \A s \in Sides : \A k, l \in keep'[s] : k.flow = l.flow => k = l
    <3> SUFFICES ASSUME NEW s \in Sides, NEW k \in keep'[s], NEW l \in keep'[s],
                        k.flow = l.flow
                 PROVE  k = l
      OBVIOUS
    <3>1. PICK c \in keep[s] : k = Slept(c)
      BY <2>2
    <3>2. PICK d \in keep[s] : l = Slept(d)
      BY <2>2
    <3>3. c.flow = d.flow
      BY <3>1, <3>2 DEF Slept
    <3>4. c = d
      BY <1>1, <3>3 DEF Kept
    <3> QED
      BY <3>1, <3>2, <3>4
  <2>7. SentThrough'
    <3> SUFFICES ASSUME MaxDelay < Lifetime, NEW d \in net'
                 PROVE  \E f \in Flows : /\ f[2] = d.port
                                         /\ nat'[Peer[d.to]][f].ext = d.from
                                         /\ nat'[Peer[d.to]][f].ttl >= Lifetime - d.age
      BY DEF SentThrough
    <3> DEFINE c == [d EXCEPT !.age = @ - 1]
    <3>1. c \in net /\ d \in Datagram
      BY <1>10, TickDatagrams
    <3>2. c.to = d.to /\ c.port = d.port /\ c.from = d.from /\ c.age = d.age - 1
      BY <3>1 DEF Datagram
    <3>3. Peer[d.to] \in Sides /\ d.age \in 0..MaxDelay
      BY <3>1, Peers DEF Datagram
    <3>4. PICK f \in Flows : /\ f[2] = d.port
                             /\ nat[Peer[d.to]][f].ext = d.from
                             /\ nat[Peer[d.to]][f].ttl >= Lifetime - c.age
      BY <3>1, <3>2 DEF IInv, SentThrough
    <3>5. nat[Peer[d.to]][f].ttl \in 0..Lifetime
      BY <3>3, LiveFlow DEF IInv
    <3>6. /\ nat'[Peer[d.to]][f].ttl =
                IF nat[Peer[d.to]][f].ttl = 0 THEN 0 ELSE nat[Peer[d.to]][f].ttl - 1
          /\ nat'[Peer[d.to]][f].ttl > 0 =>
                nat'[Peer[d.to]][f].ext = nat[Peer[d.to]][f].ext
      BY <1>10, <3>3, TickFlows DEF IInv
    <3> HIDE DEF c
    <3> DEFINE was == nat[Peer[d.to]][f].ttl
               is  == nat'[Peer[d.to]][f].ttl
    <3>7. /\ Lifetime \in Nat /\ MaxDelay \in Nat /\ d.age \in Nat /\ d.age <= MaxDelay
          /\ was \in Nat /\ was >= Lifetime - (d.age - 1)
          /\ is = IF was = 0 THEN 0 ELSE was - 1
      BY <3>2, <3>3, <3>4, <3>5, <3>6, HolePunchAssumption
    <3>8. is >= Lifetime - d.age /\ is > 0
      <4> HIDE DEF was, is
      <4> QED
        BY <3>7
    <3> QED
      BY <3>4, <3>6, <3>8
  <2>8. Waves' /\ Kept'
    BY <1>1, <1>10, <2>5, <2>6 DEF Tick, Waves, Kept
  <2> QED
    BY <1>2, <1>10, <2>1, <2>7, <2>8, TickDatagrams
<1> QED
  BY <1>4, <1>5, <1>6, <1>7, <1>8, <1>9, <1>10 DEF HoleNext, Keeper

\* It is an invariant.
LEMMA Invariance == HoleSpec => []IInv
  BY IInvInit, IInvNext, PTL DEF HoleSpec

-----------------------------------------------------------------------------
(* The theorems.                                                           *)

\* Every variable keeps its type: the waves', the NATs', the datagrams' and the
\* keepers' numbers stay in their ranges, and no wave sends to port 0.
THEOREM TypeCorrect == HoleSpec => []HoleTypeOK
  BY Invariance, PTL DEF IInv

\* Whatever the listener engine of either side prints is a hole open in both
\* directions, in networks that lose a datagram before NATs forget its flow.
THEOREM ReportIsHole == HoleSpec => []ReportMeansHole
<1>1. IInv => ReportMeansHole
  <2> SUFFICES ASSUME IInv, MaxDelay < Lifetime, NEW d \in net, NEW f \in Entry(d)
               PROVE  \E h, g \in Flows : h[2] = d.from /\ Hole(d.to, h, g)
    BY DEF ReportMeansHole, Reported, OpenPort
  <2>1. /\ d.to \in Sides /\ d.age \in 0..MaxDelay /\ Peer[d.to] \in Sides
        /\ f \in Flows /\ Live(d.to, f) /\ nat[d.to][f].ext = d.port /\ f[2] = d.from
    BY Peers DEF IInv, HoleTypeOK, Entry
  <2>2. PICK g \in Flows : /\ g[2] = d.port
                           /\ nat[Peer[d.to]][g].ext = d.from
                           /\ nat[Peer[d.to]][g].ttl >= Lifetime - d.age
    BY DEF IInv, SentThrough
  <2>3. nat[Peer[d.to]][g].ttl \in 0..Lifetime
    BY <2>1, LiveFlow DEF IInv
  <2>4. Live(Peer[d.to], g)
    <3> DEFINE life == nat[Peer[d.to]][g].ttl
    <3>1. /\ life \in Nat /\ Lifetime \in Nat /\ MaxDelay \in Nat /\ d.age \in Nat
          /\ d.age <= MaxDelay /\ life >= Lifetime - d.age
      BY <2>1, <2>2, <2>3, HolePunchAssumption
    <3>2. life > 0
      <4> HIDE DEF life
      <4> QED
        BY <3>1
    <3> QED
      BY <3>2 DEF Live
  <2>5. Hole(d.to, f, g)
    BY <2>1, <2>2, <2>4 DEF Hole
  <2> QED
    BY <2>1, <2>5
<1> QED
  BY <1>1, Invariance, PTL

-----------------------------------------------------------------------------
(***************************************************************************)
(* The archived analyser.                                                  *)
(***************************************************************************)

-----------------------------------------------------------------------------
(* The inductive invariant.                                                *)

\* Each query counts at most once.
Counted == /\ ok <= i
           /\ pc \in {"open", "wait", "verdict", "done"} => ok < i

\* Nobody is asked before the turn, and only who was asked answers.
Asked == /\ \A s \in asked : s <= i
         /\ buffer \in Seq(Datagrams)

\* A result that was read from a server's answer is the address, as printed, that
\* a server saw that was asked by then: this query's or an earlier one's.
Written == \A s \in Servers :
              from[s] # Nobody => /\ from[s] \in 1..s
                                  /\ results[s] = Decoded(ext[from[s]])

\* What is printed was decided from the first two results.
Decided == \/ verdict \in {"none", "unknown"}
           \/ pc = "done" /\ verdict = Class(results[1], results[2])

AnalyzerInv == AnalyzerTypeOK /\ Counted /\ Asked /\ Written /\ Decided

-----------------------------------------------------------------------------
(* It holds initially and is kept.                                         *)

\* What the proofs use of the number of servers.
LEMMA ServersType ==
    /\ NumServers \in Nat /\ NumServers >= 2
    /\ 1 \in Servers /\ 2 \in Servers /\ Servers \subseteq Nat
<1>1. NumServers \in Nat /\ NumServers >= 2
  BY SizesAssumption
<1> QED
  BY <1>1 DEF Servers

\* Different ports are printed differently, and as ports: the digits are found
\* again from the lowest up.
LEMMA PrintedPorts ==
    ASSUME NEW p \in PortNumbers, NEW q \in PortNumbers
    PROVE  /\ PrintedPort(p) \in PortNumbers
           /\ PrintedPort(p) = PrintedPort(q) => p = q
<1>1. p \in Nat /\ p <= 65535 /\ q \in Nat
  BY DEF PortNumbers
<1>2. PrintedPort(p) \in Int /\ PrintedPort(p) >= 0
  BY <1>1, SMTT(20) DEF PrintedPort
<1>3. PrintedPort(p) <= 65535
  BY <1>1, SMTT(20) DEF PrintedPort
<1>4. ASSUME PrintedPort(p) = PrintedPort(q) PROVE p = q
  <2>1. p % 4 = q % 4
    BY <1>1, <1>4, SMTT(20) DEF PrintedPort
  <2>2. p % 16 = q % 16
    BY <1>1, <1>4, <2>1, SMTT(20) DEF PrintedPort
  <2>3. (p \div 16) % 4 = (q \div 16) % 4
    BY <1>1, <1>4, <2>1, <2>2, SMTT(20) DEF PrintedPort
  <2>4. (p \div 256) % 4 = (q \div 256) % 4
    BY <1>1, <1>4, <2>1, <2>3, SMTT(20) DEF PrintedPort
  <2>5. (p \div 4096) % 4 = (q \div 4096) % 4
    BY <1>1, <1>4, <2>1, <2>3, <2>4, SMTT(20) DEF PrintedPort
  <2> QED
    BY <1>1, <1>4, <2>1, <2>3, <2>4, <2>5, SMTT(20) DEF PrintedPort
<1>5. PrintedPort(p) \in PortNumbers
  <2> DEFINE n == PrintedPort(p)
  <2>1. n \in Int /\ 0 <= n /\ n <= 65535
    BY <1>2, <1>3
  <2> HIDE DEF n
  <2>2. n \in PortNumbers
    BY <2>1 DEF PortNumbers
  <2> QED
    BY <2>2 DEF n
<1> QED
  BY <1>4, <1>5

\* What is printed of an endpoint tells it from every other.
LEMMA PrintedEndpoints ==
    /\ Endpoints \subseteq Printed /\ NoAddress \notin Endpoints
    /\ \A e \in Endpoints : Decoded(e) \in Printed
    /\ \A c, e \in Endpoints : /\ Decoded(c).ip = Decoded(e).ip <=> c.ip = e.ip
                               /\ Decoded(c).port = Decoded(e).port <=> c.port = e.port
<1>1. ExtPorts \subseteq PortNumbers
  BY SizesAssumption
<1>2. \A e \in Endpoints : e.ip \in Ips /\ e.port \in PortNumbers
  BY <1>1 DEF Endpoints
<1>3. Endpoints \subseteq Printed
  BY <1>1 DEF Endpoints, Printed
<1>4. NoAddress \notin Endpoints
  <2>1. \A n \in PortNumbers : n >= 0
    BY DEF PortNumbers
  <2>2. \A e \in Endpoints : e.port >= 0
    BY <1>2, <2>1
  <2>3. NoAddress.port = -1 /\ ~(-1 >= 0)
    BY DEF NoAddress
  <2> QED
    BY <2>2, <2>3
<1>5. \A e \in Endpoints : Decoded(e) \in Printed
  BY <1>2, PrintedPorts DEF Decoded, Printed
<1>6. \A c, e \in Endpoints : Decoded(c).port = Decoded(e).port <=> c.port = e.port
  BY <1>2, PrintedPorts DEF Decoded
<1> QED
  BY <1>3, <1>4, <1>5, <1>6 DEF Decoded

\* The verdict on two ports is one of three.
LEMMA ClassType ==
    ASSUME NEW p, NEW q
    PROVE  Class(p, q) \in {"cone", "restricted", "symmetric"}
  BY DEF Class

\* The inductive invariant of NatAnalyzer holds initially.
LEMMA AnalyzerStarts == AnalyzerInit => AnalyzerInv
<1> SUFFICES ASSUME AnalyzerInit PROVE AnalyzerInv
  OBVIOUS
<1>1. AnalyzerTypeOK
  <2>1. 1 \in 1..(NumServers + 1) /\ 0 \in 0..NumServers /\ 0 \in 0..MaxArrivals
    BY ServersType, SizesAssumption
  <2>2. results \in [Servers -> Printed]
    BY PrintedEndpoints DEF AnalyzerInit
  <2> QED
    BY <2>1, <2>2, ServersType DEF AnalyzerInit, AnalyzerTypeOK
<1>2. Counted /\ Written /\ Decided
  BY DEF AnalyzerInit, Counted, Written, Decided, Nobody
<1>3. Asked
  BY DEF AnalyzerInit, Asked
<1> QED
  BY <1>1, <1>2, <1>3 DEF AnalyzerInv

\* Ask preserves it.
LEMMA AskKeeps == AnalyzerInv /\ Ask => AnalyzerInv'
<1> SUFFICES ASSUME AnalyzerInv, Ask PROVE AnalyzerInv'
  OBVIOUS
<1> USE DEF AnalyzerInv
<1>1. /\ pc = "open" /\ pc' = "wait" /\ asked' = asked \union {i} /\ buffer' = <<>>
      /\ UNCHANGED <<i, results, ok, from, verdict, ext, arrivals>>
      /\ i \in Servers /\ i \in Nat
  BY ServersType DEF Ask, found, AnalyzerTypeOK
<1>2. AnalyzerTypeOK'
  BY <1>1 DEF AnalyzerTypeOK
<1>3. Asked'
  BY <1>1 DEF Asked
<1>4. (Counted /\ Written /\ Decided)'
  BY <1>1 DEF Counted, Written, Decided
<1> QED
  BY <1>2, <1>3, <1>4

\* Receive preserves it.
LEMMA ReceiveKeeps == AnalyzerInv /\ Receive => AnalyzerInv'
<1> SUFFICES ASSUME AnalyzerInv, Receive PROVE AnalyzerInv'
  OBVIOUS
<1> USE DEF AnalyzerInv
<1> DEFINE m == Head(buffer)
<1>1. /\ pc = "wait" /\ pc' = "pause" /\ buffer # <<>> /\ buffer' = <<>>
      /\ UNCHANGED <<i, asked, verdict, ext, arrivals>>
      /\ i \in Servers /\ i \in Nat /\ ok \in Nat /\ ok < i
  BY ServersType DEF Receive, AnalyzerTypeOK, Counted
<1>2. m \in Datagrams
  BY <1>1, HeadTailProperties DEF Asked
<1>3. /\ m.server \in asked \union {Nobody} /\ m.addr \in Endpoints \union {NoAddress}
      /\ m.server # Nobody => m.addr = ext[m.server]
  BY <1>2 DEF Datagrams, AnalyzerTypeOK
<1>a. /\ m.server \in Servers \union {Nobody}
      /\ m.server # Nobody => m.server \in 1..i
  <2>1. asked \subseteq Servers /\ \A s \in asked : s <= i
    BY DEF Asked, AnalyzerTypeOK
  <2>2. \A s \in asked : s \in 1..i
    BY <1>1, <2>1 DEF Servers
  <2> QED
    BY <1>3, <2>1, <2>2
<1> HIDE DEF m
<1>4. Asked'
  BY <1>1 DEF Asked
<1>5. Decided'
  BY <1>1 DEF Decided
<1>6. CASE UNCHANGED found
  <2>1. UNCHANGED <<results, ok, from>>
    BY <1>6 DEF found
  <2>2. AnalyzerTypeOK'
    BY <1>1, <2>1 DEF AnalyzerTypeOK
  <2>3. (Counted /\ Written)'
    BY <1>1, <2>1 DEF Counted, Written
  <2> QED
    BY <1>4, <1>5, <2>2, <2>3
<1>7. CASE /\ m.addr # NoAddress
           /\ results' = [results EXCEPT ![i] = Decoded(m.addr)]
           /\ from' = [from EXCEPT ![i] = m.server]
           /\ ok' = ok + 1
  <2>1. Decoded(m.addr) \in Printed
    BY <1>3, <1>7, PrintedEndpoints
  <2>2. ok' \in 0..NumServers /\ ok' <= i'
    BY <1>1, <1>7, ServersType DEF Servers
  <2>3. /\ results' \in [Servers -> Printed]
        /\ from' \in [Servers -> Servers \union {Nobody}]
    BY <1>a, <1>7, <2>1 DEF AnalyzerTypeOK
  <2>4. AnalyzerTypeOK'
    BY <1>1, <2>2, <2>3 DEF AnalyzerTypeOK
  <2>5. Counted'
    BY <1>1, <2>2 DEF Counted
  <2>6. Written'
    <3>1. ASSUME NEW s \in Servers, from'[s] # Nobody
          PROVE  from'[s] \in 1..s /\ results'[s] = Decoded(ext'[from'[s]])
      <4>1. CASE s = i
        <5>1. from'[s] = m.server /\ results'[s] = Decoded(m.addr)
          BY <1>1, <1>7, <4>1 DEF AnalyzerTypeOK
        <5> QED
          BY <1>1, <1>3, <1>a, <3>1, <4>1, <5>1
      <4>2. CASE s # i
        <5>1. from'[s] = from[s] /\ results'[s] = results[s]
          BY <1>7, <4>2 DEF AnalyzerTypeOK
        <5> QED
          BY <1>1, <3>1, <5>1 DEF Written
      <4> QED
        BY <4>1, <4>2
    <3> QED
      BY <3>1 DEF Written
  <2> QED
    BY <1>4, <1>5, <2>4, <2>5, <2>6
<1> QED
  BY <1>6, <1>7 DEF Receive, m

\* Pause preserves it.
LEMMA PauseKeeps == AnalyzerInv /\ Pause => AnalyzerInv'
<1> SUFFICES ASSUME AnalyzerInv, Pause PROVE AnalyzerInv'
  OBVIOUS
<1> USE DEF AnalyzerInv
<1>1. /\ pc = "pause" /\ i' = i + 1
      /\ pc' = IF i < NumServers THEN "open" ELSE "verdict"
      /\ UNCHANGED <<asked, buffer, results, ok, from, verdict, ext, arrivals>>
      /\ i \in Servers /\ ok \in Nat /\ asked \subseteq Servers
  BY DEF Pause, found, AnalyzerTypeOK
<1>2. i \in Nat /\ i <= NumServers /\ i + 1 \in 1..(NumServers + 1)
  BY <1>1, ServersType DEF Servers
<1>3. pc' = "open" => i' \in Servers
  BY <1>1, <1>2, ServersType DEF Servers
<1>4. AnalyzerTypeOK'
  BY <1>1, <1>2, <1>3 DEF AnalyzerTypeOK
<1>5. Counted'
  BY <1>1, <1>2 DEF Counted
<1>6. Asked'
  <2>1. \A s \in asked : s \in Nat /\ s <= i
    BY <1>1, ServersType DEF Asked
  <2>2. Datagrams' = Datagrams
    BY <1>1 DEF Datagrams
  <2> QED
    BY <1>1, <1>2, <2>1, <2>2 DEF Asked
<1>7. (Written /\ Decided)'
  BY <1>1 DEF Written, Decided
<1> QED
  BY <1>4, <1>5, <1>6, <1>7

\* Verdict preserves it.
LEMMA VerdictKeeps == AnalyzerInv /\ Verdict => AnalyzerInv'
<1> SUFFICES ASSUME AnalyzerInv, Verdict PROVE AnalyzerInv'
  OBVIOUS
<1> USE DEF AnalyzerInv
<1>1. /\ pc = "verdict" /\ pc' = "done"
      /\ verdict' = IF ok < Needed THEN "unknown" ELSE Class(results[1], results[2])
      /\ UNCHANGED <<i, asked, buffer, results, ok, from, ext, arrivals>>
  BY DEF Verdict, found
<1>2. AnalyzerTypeOK'
  BY <1>1, ClassType DEF AnalyzerTypeOK
<1>a. Datagrams' = Datagrams
  BY <1>1 DEF Datagrams
<1>3. (Counted /\ Asked)'
  BY <1>1, <1>a DEF Counted, Asked
<1>4. (Written /\ Decided)'
  BY <1>1 DEF Written, Decided
<1> QED
  BY <1>2, <1>3, <1>4

\* Answer preserves it.
LEMMA AnswerKeeps == AnalyzerInv /\ Answer => AnalyzerInv'
<1> SUFFICES ASSUME AnalyzerInv, Answer PROVE AnalyzerInv'
  OBVIOUS
<1> USE DEF AnalyzerInv
<1>1. PICK m \in Datagrams : buffer' = Append(buffer, m)
  BY DEF Answer
<1>2. /\ arrivals < MaxArrivals /\ arrivals' = arrivals + 1
      /\ UNCHANGED <<pc, i, asked, results, ok, from, verdict, ext>>
  BY DEF Answer, found
<1>3. arrivals' \in 0..MaxArrivals
  <2>1. arrivals \in 0..MaxArrivals /\ MaxArrivals \in Nat
    BY SizesAssumption DEF AnalyzerTypeOK
  <2> QED
    BY <1>2, <2>1
<1>a. Datagrams' = Datagrams
  BY <1>2 DEF Datagrams
<1>4. buffer' \in Seq(Datagrams)'
  BY <1>1, <1>a DEF Asked
<1>b. m \in [server : Servers \union {Nobody}, addr : Endpoints \union {NoAddress}]
  BY DEF Datagrams, AnalyzerTypeOK
<1>5. buffer' \in Seq([server : Servers \union {Nobody}, addr : Endpoints \union {NoAddress}])
  BY <1>1, <1>b DEF AnalyzerTypeOK
<1>6. AnalyzerTypeOK'
  BY <1>2, <1>3, <1>5 DEF AnalyzerTypeOK
<1>7. (Counted /\ Asked)'
  BY <1>2, <1>4 DEF Counted, Asked
<1>8. (Written /\ Decided)'
  BY <1>2 DEF Written, Decided
<1> QED
  BY <1>6, <1>7, <1>8

\* A query without a result, and the end.
LEMMA QuietKeeps == AnalyzerInv /\ (OpenFails \/ TimeOut \/ Ended \/ UNCHANGED analyzerVars) => AnalyzerInv'
<1> SUFFICES ASSUME AnalyzerInv, OpenFails \/ TimeOut \/ Ended \/ UNCHANGED analyzerVars PROVE AnalyzerInv'
  OBVIOUS
<1> USE DEF AnalyzerInv
<1>1. /\ \/ pc \in {"open", "wait"} /\ pc' = "pause"
         \/ pc' = pc
      /\ UNCHANGED <<i, asked, buffer, results, ok, from, verdict, ext, arrivals>>
  BY DEF OpenFails, TimeOut, Ended, analyzerVars, query, found
<1>2. AnalyzerTypeOK'
  BY <1>1 DEF AnalyzerTypeOK
<1>a. Datagrams' = Datagrams
  BY <1>1 DEF Datagrams
<1>3. (Counted /\ Asked)'
  BY <1>1, <1>a DEF Counted, Asked
<1>4. (Written /\ Decided)'
  BY <1>1 DEF Written, Decided
<1> QED
  BY <1>2, <1>3, <1>4

\* Every step preserves it.
LEMMA AnalyzerSteps == AnalyzerInv /\ [AnalyzerNext]_analyzerVars => AnalyzerInv'
  BY AskKeeps, ReceiveKeeps, PauseKeeps, VerdictKeeps, AnswerKeeps, QuietKeeps
     DEF AnalyzerNext, Main

\* It is an invariant.
LEMMA AnalyzerInvariance == AnalyzerSpec => []AnalyzerInv
  BY AnalyzerStarts, AnalyzerSteps, PTL DEF AnalyzerSpec

-----------------------------------------------------------------------------
(* The theorems.                                                           *)

\* The state of nat_analyzer.c keeps its type: no result is written beyond
\* the array and no query counts twice.
THEOREM AnalyzerTypes == AnalyzerSpec => []AnalyzerTypeOK
<1>1. AnalyzerInv => AnalyzerTypeOK
  BY DEF AnalyzerInv
<1> QED
  BY <1>1, AnalyzerInvariance, PTL

\* With both compared results read from servers' answers, l.108-118 call no NAT
\* worse than it is, and open without its being so only after a late answer of
\* the first server's.
THEOREM VerdictIsLenient == AnalyzerSpec => []VerdictErrsTowardsOpen
<1>1. ASSUME AnalyzerInv PROVE VerdictErrsTowardsOpen
  <2> SUFFICES ASSUME Compared
               PROVE  /\ verdict # "cone" => ext[1] # ext[2]
                      /\ verdict = "symmetric" => ext[1].ip # ext[2].ip
                      /\ verdict = "cone" => ext[1] = ext[2] \/ from[2] = 1
    BY DEF VerdictErrsTowardsOpen
  <2>1. /\ verdict = Class(results[1], results[2])
        /\ from[1] = 1 /\ from[2] \in {1, 2}
        /\ results[1] = Decoded(ext[1]) /\ results[2] = Decoded(ext[from[2]])
    <3>1. from[1] \in 1..1 /\ from[2] \in 1..2
      BY <1>1, ServersType DEF AnalyzerInv, Written, Compared
    <3> QED
      BY <1>1, <3>1, ServersType DEF AnalyzerInv, Decided, Written, Compared
  <2>2. ext[1] \in Endpoints /\ ext[2] \in Endpoints
    BY <1>1, ServersType DEF AnalyzerInv, AnalyzerTypeOK
  <2>3. ext[1] = ext[2] <=> ext[1].ip = ext[2].ip /\ ext[1].port = ext[2].port
    BY <2>2 DEF Endpoints
  <2>4. CASE from[2] = 1
    BY <2>1, <2>4 DEF Class
  <2>5. CASE from[2] = 2
    <3>1. verdict = Class(Decoded(ext[1]), Decoded(ext[2]))
      BY <2>1, <2>5
    <3> QED
      BY <2>2, <2>3, <3>1, PrintedEndpoints DEF Class
  <2> QED
    BY <2>1, <2>4, <2>5
<1> QED
  BY <1>1, AnalyzerInvariance, PTL
=============================================================================
