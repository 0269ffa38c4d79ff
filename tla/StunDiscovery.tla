--------------------------- MODULE StunDiscovery ---------------------------
(***************************************************************************)
(* kernel/memory_pool_optimization.c: the program that asks a table of     *)
(* STUN servers for this host's public address over one non-blocking UDP   *)
(* socket, keeps what each answered, and publishes the address reported by *)
(* the fastest server that reported one.                                   *)
(*                                                                         *)
(* The program is one thread; its environment is the network, which may    *)
(* lose, delay, duplicate and reorder answers, and the clock.  A server is *)
(* its position in the servers[] array.  A transaction id (12 random       *)
(* bytes) is the round it was drawn in: ids of different servers or        *)
(* rounds are different.                                                   *)
(***************************************************************************)
EXTENDS Integers, Sequences, FiniteSets

CONSTANTS NumServers,   \* length of servers[]
          MaxStun,      \* MAX_STUN, the size of stun_list
          BatchSize,    \* BATCH_SIZE, the most datagrams one recvmmsg returns
          TimeLimit,    \* TIME_LIMIT_MS, in clock ticks
          Slack,        \* bound: ticks the scheduler may delay a phase
          MaxArrivals   \* bound: datagrams the network delivers in a run

ASSUME SizesAssumption == /\ NumServers \in Nat
                          /\ MaxStun \in Nat
                          /\ BatchSize \in Nat \ {0}
                          /\ TimeLimit \in Nat \ {0}
                          /\ Slack \in Nat
                          /\ MaxArrivals \in Nat

Hosts  == 1..NumServers
NoHost == 0             \* no server: a datagram that answers no request, an unset result

\* A datagram is shorter than a STUN header, or a full-length one without a
\* usable mapped address (no attribute, or port 0), or one with it.
Kinds == {"short", "bare", "mapped"}
Msgs  == [host : Hosts \union {NoHost}, tid : 0..2, kind : Kinds]

NoRtt == -1             \* rtt_ms of a server that has not answered

VARIABLES
    pc,        \* where main() is
    round,     \* 1: first round, 2: retry round
    loaded,    \* servers with an entry in stun_list
    targets,   \* the targets[] of the round
    todo,      \* targets whose request is not sent yet
    tid,       \* transaction_id of each entry, 0 before the first request
    sendTime,  \* send_time of each entry
    rtt,       \* rtt_ms of each entry
    mapped,    \* is_valid_stun: public_ip and public_port of the entry are set
    clock,     \* CLOCK_MONOTONIC
    start,     \* start of the current phase
    now,       \* the time stamp of the current batch
    sockbuf,   \* datagrams in the socket's receive buffer
    batch,     \* datagrams of the last recvmmsg still to be handled
    order,     \* stun_list after qsort
    shm,       \* server whose answer is in shared memory; NoHost: as it was before
    arrivals,  \* datagrams delivered so far
    heard      \* history: what the first round handled, in order

table    == <<tid, sendTime, rtt, mapped>>
phase    == <<pc, round, loaded, targets, todo>>
times    == <<clock, start, now>>
inbox    == <<sockbuf, batch>>
outcome  == <<order, shm>>
vars     == <<phase, table, times, inbox, outcome, arrivals, heard>>

Init == /\ pc = "load"
        /\ round = 1
        /\ loaded = {} /\ targets = {} /\ todo = {}
        /\ tid = [h \in Hosts |-> 0]
        /\ sendTime = [h \in Hosts |-> 0]
        /\ rtt = [h \in Hosts |-> NoRtt]
        /\ mapped = [h \in Hosts |-> FALSE]
        /\ clock = 0 /\ start = 0 /\ now = 0
        /\ sockbuf = <<>> /\ batch = <<>>
        /\ order = <<>>
        /\ shm = NoHost
        /\ arrivals = 0
        /\ heard = <<>>

-----------------------------------------------------------------------------
(* Loading and sending.                                                    *)

\* The resolved names that still find room in stun_list, in array order.
FirstEntries(resolved) ==
    {h \in resolved : Cardinality({g \in resolved : g < h}) < MaxStun}

\* load_stun_servers, and main up to the first burst_send_all.  Name
\* resolution may fail for any server.
Load == /\ pc = "load"
        /\ \E resolved \in SUBSET Hosts :
              /\ loaded' = FirstEntries(resolved)
              /\ targets' = loaded'
              /\ todo' = loaded'
        /\ pc' = "send"
        /\ UNCHANGED <<round, table, times, inbox, outcome, arrivals, heard>>

\* One iteration of burst_send_all: send_request draws a fresh id and
\* stamps the entry.  The result of sendto is ignored; a request that was
\* not sent is one whose answer never arrives.
SendRequest(h) ==
    /\ pc = "send"
    /\ h \in todo
    /\ \A g \in todo : h <= g
    /\ todo' = todo \ {h}
    /\ tid' = [tid EXCEPT ![h] = round]
    /\ sendTime' = [sendTime EXCEPT ![h] = clock]
    /\ UNCHANGED <<pc, round, loaded, targets, rtt, mapped, times, inbox,
                   outcome, arrivals, heard>>

-----------------------------------------------------------------------------
(* burst_receive.                                                          *)

BeginReceive == /\ pc = "send"
                /\ todo = {}
                /\ pc' = "recv"
                /\ start' = clock
                /\ UNCHANGED <<round, loaded, targets, todo, table, clock, now,
                               inbox, outcome, arrivals, heard>>

BatchLen == IF Len(sockbuf) < BatchSize THEN Len(sockbuf) ELSE BatchSize

\* epoll_wait reports the socket readable; recvmmsg takes what is there, up
\* to BATCH_SIZE datagrams, and the whole batch gets one time stamp.
EpollReady == /\ pc = "recv"
              /\ sockbuf # <<>>
              /\ batch' = SubSeq(sockbuf, 1, BatchLen)
              /\ sockbuf' = SubSeq(sockbuf, BatchLen + 1, Len(sockbuf))
              /\ now' = clock
              /\ pc' = "drain"
              /\ UNCHANGED <<round, loaded, targets, todo, table, clock, start,
                             outcome, arrivals, heard>>

\* A defective variant: an entry that has its answer takes the next one too.
LastAnswerWins(m) == {h \in targets : /\ m.kind # "short"
                                      /\ m.host = h
                                      /\ m.tid = tid[h]}

\* The entries the loop over targets[] would take the answer for.
Owners(m) == {h \in targets : /\ m.kind # "short"
                              /\ rtt[h] = NoRtt
                              /\ m.host = h
                              /\ m.tid = tid[h]}

\* History only: in the first round, remember every full-length datagram
\* that answers a server's request and the time it would give.
Remember(m) ==
    IF round = 1 /\ m.host \in loaded /\ m.kind # "short"
    THEN Append(heard, [host |-> m.host, kind |-> m.kind,
                        ms |-> now - sendTime[m.host]])
    ELSE heard

\* The entry that takes the answer gets its round-trip time, and the mapped
\* address if parse_xor_mapped_address finds one.
Record(h, m) == /\ rtt' = [rtt EXCEPT ![h] = now - sendTime[h]]
                /\ mapped' = [mapped EXCEPT ![h] = @ \/ m.kind = "mapped"]

\* One datagram of the batch: the first target it fits takes it, or none.
HandleMsg ==
    /\ pc = "drain"
    /\ batch # <<>>
    /\ LET m == Head(batch) IN
         /\ \/ \E h \in Owners(m) : /\ \A g \in Owners(m) : h <= g
                                    /\ Record(h, m)
            \/ Owners(m) = {} /\ UNCHANGED <<rtt, mapped>>
         /\ heard' = Remember(m)
    /\ batch' = Tail(batch)
    /\ UNCHANGED <<phase, tid, sendTime, times, sockbuf, outcome, arrivals>>

FinishBatch == /\ pc = "drain"
               /\ batch = <<>>
               /\ pc' = "check"
               /\ UNCHANGED <<round, loaded, targets, todo, table, times, inbox,
                              outcome, arrivals, heard>>

\* elapsed, l.178: the seconds and the nanoseconds are subtracted apart and
\* truncated toward zero, which may give one more than the milliseconds that
\* passed.
Elapsed == {clock - start, clock - start + 1}

\* epoll_wait times out after what is left of the window.
EpollTimeout == /\ pc = "recv"
                /\ sockbuf = <<>>
                /\ \E e \in Elapsed : e >= TimeLimit
                /\ pc' = "check"
                /\ UNCHANGED <<round, loaded, targets, todo, table, times, inbox,
                               outcome, arrivals, heard>>

\* The window is over: leave burst_receive.  Datagrams that are still in
\* the socket's buffer stay there.
LeaveWindow == /\ pc = "check"
               /\ \E e \in Elapsed : e >= TimeLimit
               /\ pc' = IF round = 1 THEN "retry" ELSE "sort"
               /\ UNCHANGED <<round, loaded, targets, todo, table, times, inbox,
                              outcome, arrivals, heard>>

\* A defective variant: the elapsed time is not looked at.
StayForever == /\ pc = "check"
               /\ pc' = "recv"
               /\ UNCHANGED <<round, loaded, targets, todo, table, times, inbox,
                              outcome, arrivals, heard>>

\* The window is not over: wait for what is left of it.
StayInWindow == /\ pc = "check"
                /\ \E e \in Elapsed : e < TimeLimit
                /\ pc' = "recv"
                /\ UNCHANGED <<round, loaded, targets, todo, table, times, inbox,
                               outcome, arrivals, heard>>

-----------------------------------------------------------------------------
(* The rest of main.                                                       *)

\* Defective variants: retry whatever has no address, in the whole array; and
\* retry the servers that did not answer.
RetryWholeArray == {h \in Hosts : ~mapped[h]}
RetrySilent == {h \in loaded : rtt[h] = NoRtt}

\* retry_targets: answered, but without a usable address.
RetryTargets == {h \in loaded : rtt[h] >= 0 /\ ~mapped[h]}

PlanRetry == /\ pc = "retry"
             /\ RetryTargets # {}
             /\ round' = 2
             /\ targets' = RetryTargets
             /\ todo' = RetryTargets
             /\ start' = clock
             /\ pc' = "send"
             /\ UNCHANGED <<loaded, table, clock, now, inbox, outcome, arrivals, heard>>

SkipRetry == /\ pc = "retry"
             /\ RetryTargets = {}
             /\ pc' = "sort"
             /\ UNCHANGED <<round, loaded, targets, todo, table, times, inbox,
                            outcome, arrivals, heard>>

\* A defective variant: slowest first.
SlowestFirst(a, b) == \/ rtt[b] < 0
                      \/ rtt[a] >= 0 /\ rtt[a] >= rtt[b]

\* cmp_rtt(a, b) <= 0: a may stand before b.
MayPrecede(a, b) == \/ rtt[b] < 0
                    \/ rtt[a] >= 0 /\ rtt[a] <= rtt[b]

\* The orders qsort may leave stun_list in; it need not be stable.
SortedOrders ==
    {o \in [1..Cardinality(loaded) -> loaded] :
        /\ \A h \in loaded : \E i \in DOMAIN o : o[i] = h
        /\ \A i, j \in DOMAIN o : i < j => MayPrecede(o[i], o[j])}

Sort == /\ pc = "sort"
        /\ order' \in SortedOrders
        /\ pc' = "publish"
        /\ UNCHANGED <<round, loaded, targets, todo, table, times, inbox, shm,
                       arrivals, heard>>

\* A defective variant: the first entry that answered, with an address or not.
FirstAnswered(i) == /\ rtt[order[i]] >= 0
                    /\ \A j \in DOMAIN order : j < i => rtt[order[j]] < 0

\* The first valid entry of the sorted table.
IsBest(i) == /\ mapped[order[i]]
             /\ \A j \in DOMAIN order : j < i => ~mapped[order[j]]

\* write_shared_memory(best); without a valid entry shared memory is left
\* as it was and only a message is printed.
Publish == /\ pc = "publish"
           /\ \/ \E i \in DOMAIN order : IsBest(i) /\ shm' = order[i]
              \/ (\A i \in DOMAIN order : ~mapped[order[i]]) /\ shm' = shm
           /\ pc' = "done"
           /\ UNCHANGED <<round, loaded, targets, todo, table, times, inbox, order,
                          arrivals, heard>>

-----------------------------------------------------------------------------
(* The environment.                                                        *)

Receiving == pc \in {"recv", "drain", "check"}

\* Time passes while main sends and receives; Slack bounds how long the
\* scheduler may keep main from its next step.
Tick == /\ \/ pc = "send" /\ clock < start + Slack
           \/ Receiving /\ clock < start + TimeLimit + Slack
        /\ clock' = clock + 1
        /\ UNCHANGED <<phase, table, start, now, inbox, outcome, arrivals, heard>>

\* The datagrams the network may deliver now: an answer, of any kind and
\* possibly not the first, to a request that was sent in this or an earlier
\* round, or an unrelated one.  A short datagram has no transaction id.
Deliverable == {m \in Msgs : IF m.host = NoHost THEN m.tid = 0 /\ m.kind # "mapped"
                             ELSE m.tid \in 1..tid[m.host] /\ m.kind # "short"}

Arrive == /\ pc \in {"send", "recv", "drain", "check", "retry"}
          /\ arrivals < MaxArrivals
          /\ \E m \in Deliverable : sockbuf' = Append(sockbuf, m)
          /\ arrivals' = arrivals + 1
          /\ UNCHANGED <<phase, table, times, batch, outcome, heard>>

Done == pc = "done" /\ UNCHANGED vars

Program == \/ Load
           \/ \E h \in Hosts : SendRequest(h)
           \/ BeginReceive
           \/ EpollReady \/ HandleMsg \/ FinishBatch
           \/ EpollTimeout \/ LeaveWindow \/ StayInWindow
           \/ PlanRetry \/ SkipRetry \/ Sort \/ Publish

Next == Program \/ Tick \/ Arrive \/ Done

Spec == Init /\ [][Next]_vars

\* main is scheduled and the clock advances; the network owes nothing.
FairSpec == Spec /\ WF_vars(Program) /\ WF_vars(Tick)

-----------------------------------------------------------------------------
(* What must hold.                                                         *)

\* Type invariant of main's state, of the network's and of the history.
TypeOK ==
    /\ pc \in {"load", "send", "recv", "drain", "check", "retry", "sort",
               "publish", "done"}
    /\ round \in 1..2
    /\ loaded \in SUBSET Hosts /\ targets \in SUBSET loaded /\ todo \in SUBSET targets
    /\ tid \in [Hosts -> 0..2]
    /\ sendTime \in [Hosts -> Nat]
    /\ rtt \in [Hosts -> Nat \union {NoRtt}]
    /\ mapped \in [Hosts -> BOOLEAN]
    /\ clock \in Nat /\ start \in 0..clock /\ now \in 0..clock
    /\ sockbuf \in Seq(Msgs) /\ batch \in Seq(Msgs)
    /\ order \in Seq(loaded)
    /\ shm \in Hosts \union {NoHost}
    /\ arrivals \in Nat
    /\ heard \in Seq([host : Hosts, kind : Kinds \ {"short"}, ms : Int])

\* load_stun_servers, l.61: stun_list never holds more than MAX_STUN entries,
\* whichever names resolve.
TableFits == Cardinality(loaded) <= MaxStun

\* The datagrams of the history that answer server h.
Answers(h) == {i \in DOMAIN heard : heard[i].host = h}

\* burst_receive, l.157-171: however answers are delayed, duplicated, cut
\* into batches or repeated by the retry round, what the table says of a
\* server is what its first full-length answer of the first round said; a
\* server without one has no round-trip time and no address.
FirstAnswerWins ==
    \A h \in loaded :
        /\ Answers(h) = {} => rtt[h] = NoRtt /\ ~mapped[h]
        /\ \A i \in Answers(h) :
              (\A j \in Answers(h) : i <= j) =>
                  /\ rtt[h] = heard[i].ms
                  /\ mapped[h] = (heard[i].kind = "mapped")

\* main, l.215-218: the retry round asks again and listens for a whole
\* window, yet nothing it hears changes the table, because every entry it
\* asks for has a round-trip time already (l.161 against l.212).
RetryIsInert == [][round = 2 => UNCHANGED <<rtt, mapped>>]_vars

\* main, l.220-252: at the end shared memory holds the address reported by a
\* fastest server among those that reported one; without such a server it
\* holds what an earlier run left there.
BestIsFastestValid ==
    LET Valid == {h \in loaded : mapped[h]} IN
    pc = "done" =>
        IF Valid = {} THEN shm = NoHost
        ELSE shm \in Valid /\ \A h \in Valid : rtt[shm] <= rtt[h]

\* main reaches its return, whatever the network does.
Terminates == <>(pc = "done")

\* Servers without a verdict, with an answer, and with an address.
Verdict == [h \in Hosts |-> IF mapped[h] THEN "mapped"
                            ELSE IF rtt[h] = NoRtt THEN "silent" ELSE "bare"]

VoteClosed == round = 2 \/ pc \in {"retry", "sort", "publish", "done"}

Vote == INSTANCE Election WITH Servers <- Hosts, None <- NoHost,
                               verdict <- Verdict, time <- rtt,
                               closed <- VoteClosed, winner <- shm

\* The program implements the election: one final verdict per server, none
\* after the first window, and a fastest mapped server as the only winner.
ImplementsElection == Vote!Spec
=============================================================================
