----------------------------- MODULE NatAnalyzer -----------------------------
(***************************************************************************)
(* kernel/archive/nat_analyzer.c: asks three STUN servers one after the    *)
(* other, each time from a new socket on local port 54321, for the address *)
(* the NAT gave that port, and compares the first two answers.             *)
(*                                                                         *)
(* The program looks neither at the sender of a datagram nor at its        *)
(* transaction ID, so a late answer to an earlier query, or a stranger's   *)
(* datagram, is taken for the answer to the query that is waiting.         *)
(***************************************************************************)
EXTENDS Integers, Sequences

CONSTANTS NumServers,   \* 3
          Needed,       \* answers without which there is no verdict, 2
          Ips, ExtPorts, \* what the NAT may give the port
          MaxArrivals   \* bound: datagrams delivered

PortNumbers == {n \in Nat : n < 65536}

ASSUME SizesAssumption == /\ NumServers \in Nat \ {0, 1}
                          /\ Needed \in Nat
                          /\ ExtPorts \subseteq PortNumbers
                          /\ MaxArrivals \in Nat

Servers   == 1..NumServers
Endpoints == [ip : Ips, port : ExtPorts]
Printed   == [ip : Ips, port : PortNumbers]
NoAddress == [ip |-> "", port |-> -1]     \* no two bytes 00 20 in the datagram
Nobody    == 0

VARIABLES
    pc,        \* "open", "wait", "pause", "verdict" or "done"
    i,         \* the server that is asked
    asked,     \* servers that were sent a request
    buffer,    \* datagrams in the open socket: who answers, and the address
               \* that stands where the program looks for it
    results,   \* results[]
    ok,        \* answers counted
    verdict,   \* what is printed; "none": nothing yet
    ext,       \* the NAT's address for the port towards each server
    from,      \* history: the server whose own answer each result is
    arrivals

query == <<pc, i, asked, buffer>>
found == <<results, ok, from>>
analyzerVars == <<query, found, verdict, ext, arrivals>>

\* results[] is not initialized.  The mappings outlive the run.
AnalyzerInit == /\ pc = "open" /\ i = 1
                /\ asked = {}
                /\ buffer = <<>>
                /\ results \in [Servers -> Endpoints]
                /\ ok = 0
                /\ verdict = "none"
                /\ ext \in [Servers -> Endpoints]
                /\ from = [s \in Servers |-> Nobody]
                /\ arrivals = 0

-----------------------------------------------------------------------------
(* get_mapped_address.                                                     *)

\* The socket, the port or the name cannot be had.
OpenFails == /\ pc = "open"
             /\ pc' = "pause"
             /\ UNCHANGED <<i, asked, buffer, found, verdict, ext, arrivals>>

\* sendto; if it fails no answer comes.
Ask == /\ pc = "open"
       /\ asked' = asked \union {i}
       /\ buffer' = <<>>
       /\ pc' = "wait"
       /\ UNCHANGED <<i, found, verdict, ext, arrivals>>

\* l.65-68: the port is the attribute's, read on a little-endian machine, XOR
\* the upper half of the cookie, which was not brought into network order; so
\* the port XOR 0x2112 XOR 0x1221 comes out: in each hexadecimal digit the two
\* lower bits are inverted.
PrintedPort(p) == p + 13107 - 2 * (p % 4) - 32 * ((p \div 16) % 4)
                    - 512 * ((p \div 256) % 4) - 8192 * ((p \div 4096) % 4)

Decoded(e) == [ip |-> e.ip, port |-> PrintedPort(e.port)]

\* recvfrom returns one datagram, whoever sent it; if the scan finds an
\* attribute that is the result, else the query has failed.  The socket is
\* closed, and what else it holds is gone.
Receive == /\ pc = "wait"
           /\ buffer # <<>>
           /\ LET m == Head(buffer) IN
              \/ /\ m.addr # NoAddress
                 /\ results' = [results EXCEPT ![i] = Decoded(m.addr)]
                 /\ from' = [from EXCEPT ![i] = m.server]
                 /\ ok' = ok + 1
              \/ m.addr = NoAddress /\ UNCHANGED found
           /\ buffer' = <<>>
           /\ pc' = "pause"
           /\ UNCHANGED <<i, asked, verdict, ext, arrivals>>

\* Two seconds without a datagram.
TimeOut == /\ pc = "wait"
           /\ buffer = <<>>
           /\ pc' = "pause"
           /\ UNCHANGED <<i, asked, buffer, found, verdict, ext, arrivals>>

-----------------------------------------------------------------------------
(* analyze_nat_type.                                                       *)

\* A defective variant: one server too many.
PauseOnceMore == /\ pc = "pause"
                 /\ i' = i + 1
                 /\ pc' = IF i <= NumServers THEN "open" ELSE "verdict"
                 /\ UNCHANGED <<asked, buffer, found, verdict, ext, arrivals>>

\* sleep(1), and the next server.
Pause == /\ pc = "pause"
         /\ i' = i + 1
         /\ pc' = IF i < NumServers THEN "open" ELSE "verdict"
         /\ UNCHANGED <<asked, buffer, found, verdict, ext, arrivals>>

\* A defective variant: the ports are not compared.
ClassByIp(a, b) == IF a.ip = b.ip THEN "cone" ELSE "symmetric"

Class(a, b) == CASE a.ip = b.ip /\ a.port = b.port -> "cone"
                 [] a.ip = b.ip /\ a.port # b.port -> "restricted"
                 [] a.ip # b.ip                    -> "symmetric"

Verdict == /\ pc = "verdict"
           /\ verdict' = IF ok < Needed THEN "unknown"
                         ELSE Class(results[1], results[2])
           /\ pc' = "done"
           /\ UNCHANGED <<i, asked, buffer, found, ext, arrivals>>

-----------------------------------------------------------------------------
(* The servers and the network.  Without a socket on the port a datagram   *)
(* is refused.                                                             *)

\* An answer to any request sent so far, late or again, with the address its
\* server saw; and whatever else reaches the port: a stranger's datagram, an
\* error, or an answer in which 00 20 stands elsewhere.
Datagrams == {[server |-> s, addr |-> ext[s]] : s \in asked}
                \union [server : {Nobody}, addr : Endpoints \union {NoAddress}]

Answer == /\ pc = "wait"
          /\ arrivals < MaxArrivals
          /\ \E m \in Datagrams : buffer' = Append(buffer, m)
          /\ arrivals' = arrivals + 1
          /\ UNCHANGED <<pc, i, asked, found, verdict, ext>>

Main == OpenFails \/ Ask \/ Receive \/ TimeOut \/ Pause \/ Verdict

Ended == pc = "done" /\ UNCHANGED analyzerVars

AnalyzerNext == Main \/ Answer \/ Ended

AnalyzerSpec == AnalyzerInit /\ [][AnalyzerNext]_analyzerVars

-----------------------------------------------------------------------------
(* What must hold.                                                         *)

\* Type invariant.
AnalyzerTypeOK == /\ pc \in {"open", "wait", "pause", "verdict", "done"}
                  /\ i \in 1..(NumServers + 1)
                  /\ pc \in {"open", "wait", "pause"} => i \in Servers
                  /\ asked \in SUBSET Servers
                  /\ buffer \in Seq([server : Servers \union {Nobody},
                                     addr : Endpoints \union {NoAddress}])
                  /\ results \in [Servers -> Printed]
                  /\ ok \in 0..NumServers
                  /\ verdict \in {"none", "unknown", "cone", "restricted", "symmetric"}
                  /\ ext \in [Servers -> Endpoints]
                  /\ from \in [Servers -> Servers \union {Nobody}]
                  /\ arrivals \in 0..MaxArrivals

\* The two results that are compared were read from servers' own answers.
Compared == /\ verdict \notin {"none", "unknown"}
            /\ from[1] # Nobody /\ from[2] # Nobody

\* nat_analyzer.c l.59-77 and l.108-118: if the two results that are compared
\* come from servers' answers, in time, late or again, the wrongly decoded ports
\* still tell the NAT's apart: a NAT is not called worse than it is, and it is
\* called open without being so only when the first server's late answer was
\* taken for the second's.  (With a stranger's datagram among the two, or memory
\* that was never written, the verdict may be any.)
VerdictErrsTowardsOpen ==
    Compared => /\ verdict # "cone" => ext[1] # ext[2]
                /\ verdict = "symmetric" => ext[1].ip # ext[2].ip
                /\ verdict = "cone" => ext[1] = ext[2] \/ from[2] = 1

\* nat_analyzer.c l.117: "Symmetric NAT (her sunucuya farkli port/IP)": a NAT
\* with another port or IP for each server is called symmetric, at least when
\* each of the two servers' own answer was taken.
PortPerServerIsSymmetric ==
    (Compared /\ from[2] = 2 /\ ext[1] # ext[2]) => verdict = "symmetric"
=============================================================================
