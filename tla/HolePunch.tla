------------------------------ MODULE HolePunch ------------------------------
(***************************************************************************)
(* Two hosts behind NATs drill a hole with the programs of this project:   *)
(* on each side the workers of natghost_forge send their wave, from every  *)
(* port p of the host to port p of the peer, without end in the last       *)
(* worker's case; the listener engine prints the source port of what comes *)
(* in from the peer; and core/holekeeper.py sends to keep the NAT open,    *)
(* from a port to another (4444 to 80 unless it is told otherwise).        *)
(*                                                                         *)
(* The NATs are those README.md means to drill: each flow gets an external *)
(* port of its own (symmetric), only the peer's address and port that the  *)
(* flow goes to may answer (port-restricted), and a flow that is idle for  *)
(* Lifetime ticks is forgotten (burst_wawe.c l.5: 1 to 5 s).  A flow to    *)
(* the peer is named by its local port and the port it goes to.            *)
(***************************************************************************)
EXTENDS Integers, Sequences, FiniteSets

CONSTANTS Sides,        \* the two hosts
          MaxPort,      \* the largest port
          First,        \* the first port of each worker's slice
          KeepFlows,    \* the flows keepers are started for
          Lifetime,     \* ticks an idle flow lives in a NAT
          MaxDelay,     \* bound: ticks a datagram may be under way
          MaxFlight,    \* bound: datagrams under way
          Interval,     \* the keeper's interval
          Duration,     \* the keeper's duration
          Late          \* bound: how late a keeper may wake up

Ports   == 1..MaxPort
Workers == DOMAIN First
Last    == Len(First)
Flows   == {<<p, p>> : p \in Ports} \union KeepFlows
Peer    == [s \in Sides |-> CHOOSE t \in Sides : t # s]

ASSUME HolePunchAssumption ==
    /\ \E s, t \in Sides : s # t /\ Sides = {s, t}
    /\ {MaxPort, Lifetime, Interval, Duration} \subseteq Nat \ {0}
    /\ {MaxDelay, MaxFlight, Late} \subseteq Nat
    /\ First \in Seq(Ports) /\ First # <<>>
    /\ KeepFlows \subseteq Ports \X Ports

VARIABLES
    wave,     \* next port of each side's workers
    nat,      \* each side's NAT: external port and remaining life of each flow
    net,      \* datagrams under way, with the addresses they carry
    keep      \* each side's keepers: {[flow, wait, left]}

holeVars == <<wave, nat, net, keep>>

Closed == [ext |-> 0, ttl |-> 0]

HoleInit == /\ wave = [s \in Sides |-> First]
            /\ nat = [s \in Sides |-> [f \in Flows |-> Closed]]
            /\ net = {}
            /\ keep = [s \in Sides |-> {}]

-----------------------------------------------------------------------------
(* The NATs and the network.                                               *)

Live(s, f) == nat[s][f].ttl > 0

\* A flow keeps its external port while it lives; a new one gets any that is
\* free.
Translations(s, f) ==
    IF Live(s, f) THEN {nat[s][f].ext}
    ELSE Ports \ {nat[s][g].ext : g \in {g \in Flows : Live(s, g)}}

\* A datagram of flow f leaves s, and may be lost behind the NAT.  A NAT that has
\* no port left drops it.
Emit(s, f) ==
    \/ \E e \in Translations(s, f) :
          /\ nat' = [nat EXCEPT ![s][f] = [ext |-> e, ttl |-> Lifetime]]
          /\ net' \in {net, net \union {[to |-> Peer[s], from |-> e, port |-> f[2], age |-> 0]}}
          /\ Cardinality(net') <= MaxFlight
    \/ Translations(s, f) = {} /\ UNCHANGED <<nat, net>>

\* The NAT lets d in if it comes from where the flow goes that has the port.
Entry(d) == {f \in Flows : Live(d.to, f) /\ nat[d.to][f].ext = d.port /\ f[2] = d.from}

-----------------------------------------------------------------------------
(* The wave (run_worker).                                                  *)

EndPort(w) == IF w = Last THEN MaxPort ELSE First[w + 1] - 1

\* A defective variant: port 0 is not skipped.
WaveSendZero(s, w) ==
    /\ wave[s][w] <= EndPort(w)
    /\ Emit(s, <<wave[s][w], wave[s][w]>>) \/ UNCHANGED <<nat, net>>
    /\ wave' = [wave EXCEPT ![s][w] = IF @ = MaxPort THEN 0 ELSE @ + 1]
    /\ UNCHANGED keep

\* One turn of the loop; sendto may fail, which is not looked at.  After the
\* largest port, which only the last slice has, the counter wraps to 0, which is
\* skipped.
WaveSend(s, w) ==
    /\ wave[s][w] <= EndPort(w)
    /\ Emit(s, <<wave[s][w], wave[s][w]>>) \/ UNCHANGED <<nat, net>>
    /\ wave' = [wave EXCEPT ![s][w] = IF @ = MaxPort THEN 1 ELSE @ + 1]
    /\ UNCHANGED keep

-----------------------------------------------------------------------------
(* The listener engine.                                                    *)

\* A defective variant: the destination port is printed.
DestinationPort(d) == d.port

\* packet_handler: the source port of the datagram.
OpenPort(d) == d.from

\* What the listener prints if d arrives now: what the NAT lets in comes from the
\* peer and is UDP, as the filter asks.
Reported(d) == IF Entry(d) # {} THEN {OpenPort(d)} ELSE {}

\* A datagram reaches its side's NAT.  Printing changes nothing; a datagram that
\* the network repeats may arrive before, which therefore changes nothing either.
Arrive(d) == /\ net' = net \ {d}
             /\ UNCHANGED <<wave, nat, keep>>

-----------------------------------------------------------------------------
(* The hole keeper.                                                        *)

\* start_holekeeper: the thread starts and makes its first turn.  Bound: one
\* keeper of a flow at a time; what a second one sends, the first one may.
StartKeeper(s, f) ==
    /\ \A k \in keep[s] : k.flow # f
    /\ Emit(s, f)
    /\ keep' = [keep EXCEPT ![s] = @ \union {[flow |-> f, wait |-> Interval, left |-> Duration]}]
    /\ UNCHANGED wave

\* while (time() - start < duration): send, sleep(interval).
KeepSend(s, k) ==
    /\ k.wait <= 0 /\ k.left > 0
    /\ Emit(s, k.flow)
    /\ keep' = [keep EXCEPT ![s] = (@ \ {k}) \union {[k EXCEPT !.wait = Interval]}]
    /\ UNCHANGED wave

\* The duration is over, or send raises an exception.
KeepEnd(s, k) ==
    /\ k.wait <= 0
    /\ keep' = [keep EXCEPT ![s] = @ \ {k}]
    /\ UNCHANGED <<wave, nat, net>>

-----------------------------------------------------------------------------
\* A tick of the clock: flows age and are forgotten, datagrams that are under
\* way too long are lost, keepers sleep.  A sleeper is at most Late ticks late.
Sleepers == UNION {keep[s] : s \in Sides}

Aged(m) == IF m.ttl > 1 THEN [m EXCEPT !.ttl = @ - 1] ELSE Closed

Slept(k) == [flow |-> k.flow, wait |-> k.wait - 1, left |-> IF k.left = 0 THEN 0 ELSE k.left - 1]

Tick == /\ \A k \in Sleepers : k.wait > -Late
        /\ nat' = [s \in Sides |-> [f \in Flows |-> Aged(nat[s][f])]]
        /\ net' = {[d EXCEPT !.age = @ + 1] : d \in {d \in net : d.age < MaxDelay}}
        /\ keep' = [s \in Sides |-> {Slept(k) : k \in keep[s]}]
        /\ UNCHANGED wave

Keeper(s) == \/ \E f \in KeepFlows : StartKeeper(s, f)
             \/ \E k \in keep[s] : KeepSend(s, k) \/ KeepEnd(s, k)

HoleNext == \/ \E s \in Sides : Keeper(s) \/ \E w \in Workers : WaveSend(s, w)
            \/ \E d \in net : Arrive(d)
            \/ Tick

HoleSpec == HoleInit /\ [][HoleNext]_holeVars

-----------------------------------------------------------------------------
(* What must hold.                                                         *)

\* Type invariant.
HoleTypeOK ==
    /\ wave \in [Sides -> [Workers -> 1..(MaxPort + 1)]]
    /\ \A s \in Sides : wave[s][Last] \in Ports
    /\ nat \in [Sides -> [Flows -> {Closed} \union [ext : Ports, ttl : 1..Lifetime]]]
    /\ net \subseteq [to : Sides, from : Ports, port : Ports, age : 0..MaxDelay]
    /\ Cardinality(net) <= MaxFlight
    /\ keep \in [Sides -> SUBSET [flow : KeepFlows, wait : (-Late)..Interval, left : 0..Duration]]
    /\ \A s \in Sides : \A k, l \in keep[s] : k.flow = l.flow => k = l

\* A hole: what s sends in flow f and what its peer sends in flow g pass both
\* NATs.
Hole(s, f, g) == /\ Live(s, f) /\ nat[s][f].ext = g[2]
                 /\ Live(Peer[s], g) /\ nat[Peer[s]][g].ext = f[2]

\* listener_engine/src/main.c l.17-22, "[BASARILI] Ortak delik acildi!": a
\* source port that is printed is the port that a flow of this side goes to, and
\* the flow's hole is open in both directions when it is printed, provided a
\* datagram is never under way longer than a flow lives.  In the wave, from p to
\* p, the number is the local port of the hole as well.
ReportMeansHole ==
    MaxDelay < Lifetime =>
        \A d \in net : \A p \in Reported(d) :
            \E f, g \in Flows : f[2] = p /\ Hole(d.to, f, g)

\* holekeeper.py l.8, "NAT baglantisini acik tutmak icin": while keepers run on
\* both sides of a hole it stays open.
KeepersHoldTheHole ==
    [][\A s \in Sides : \A k \in keep[s], l \in keep[Peer[s]] :
           Hole(s, k.flow, l.flow) => Hole(s, k.flow, l.flow)']_holeVars
=============================================================================
