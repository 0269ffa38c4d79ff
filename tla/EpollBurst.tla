------------------------------ MODULE EpollBurst ------------------------------
(***************************************************************************)
(* kernel/archive/epoll_burst.c, the engine before addresses, ranking and  *)
(* retries: one thread per server sends a request, main joins the threads  *)
(* and only then starts the window in which it listens on their common     *)
(* socket, and lists the first servers whose time is below the limit.      *)
(*                                                                         *)
(* A transaction ID is the server it was drawn for.  An entry whose thread *)
(* was never created has its initial ID, twelve zeros, and the send time   *)
(* 0, the boot of the machine.                                             *)
(***************************************************************************)
EXTENDS Integers, Sequences, FiniteSets

CONSTANTS NumServers,   \* length of servers[]
          MaxStun,      \* MAX_STUN
          BatchSize,    \* BATCH_SIZE
          TimeLimit,    \* TIME_LIMIT_MS
          Shown,        \* entries printed, 5
          Boot,         \* time since boot when the program starts
          Lateness,     \* bound: ticks until all are joined, and main is late
          MaxDatagrams  \* bound: datagrams delivered

ASSUME EngineAssumption == /\ NumServers \in Nat
                           /\ MaxStun \in Nat
                           /\ BatchSize \in Nat \ {0}
                           /\ TimeLimit \in Nat \ {0}
                           /\ Shown \in Nat
                           /\ Boot \in Nat
                           /\ Lateness \in Nat
                           /\ MaxDatagrams \in Nat

\* The machine was not booted within the time of the window.
ASSUME BootAssumption == Boot >= TimeLimit

Hosts == 1..NumServers
Zero  == 0                  \* twelve zeros
Short == NumServers + 1     \* a datagram without room for an ID; one with an
                            \* ID that was not drawn has the same effect

NoRtt == -1

VARIABLES
    mpc,       \* main: "load", "spawn", "join", "recv", "drain", "check",
               \* "list", "done" or "crashed"
    loaded,    \* servers with an entry in stun_list
    left,      \* entries the loop main is in has yet to come to
    spc,       \* sender_thread of each entry: "absent", "ready" or "exited"
    tid,       \* transaction_id
    sendTime,  \* send_time
    rtt,       \* rtt_ms
    time, began, now,  \* the clock, when the window began, the last batch
    sockbuf,   \* datagrams in the socket's receive buffer
    batch,     \* datagrams of the last recvmmsg still to be handled
    listed,    \* the entries that are printed, in the order of the array
    arrived    \* history: the datagrams, when they came, and whether before
               \* listener_loop

mainState  == <<mpc, loaded, left>>
senders    == <<spc, tid, sendTime>>
inbox      == <<sockbuf, batch>>
engineVars == <<mainState, senders, rtt, time, began, now, inbox, listed, arrived>>

EngineInit == /\ mpc = "load"
              /\ loaded = {} /\ left = {}
              /\ spc = [h \in Hosts |-> "absent"]
              /\ tid = [h \in Hosts |-> Zero]
              /\ sendTime = [h \in Hosts |-> 0]
              /\ rtt = [h \in Hosts |-> NoRtt]
              /\ time = Boot /\ began = Boot /\ now = Boot
              /\ sockbuf = <<>> /\ batch = <<>>
              /\ listed = {}
              /\ arrived = <<>>

\* The loops go through the array in order.
IsFirst(h, S) == h \in S /\ \A g \in S : h <= g

\* A loop that stops when it has counted n entries of S.
FirstOf(S, n) == {h \in S : Cardinality({g \in S : g < h}) < n}

-----------------------------------------------------------------------------
(* main and its threads, up to the window.                                 *)

\* load_stun_servers; any of the names may not resolve.
Load == /\ mpc = "load"
        /\ \E resolved \in SUBSET Hosts : loaded' = FirstOf(resolved, MaxStun)
        /\ left' = loaded'
        /\ mpc' = "spawn"
        /\ UNCHANGED <<senders, rtt, time, began, now, inbox, listed, arrived>>

\* pthread_create, whose result is ignored.
Create(h) == /\ mpc = "spawn"
             /\ IsFirst(h, left)
             /\ left' = left \ {h}
             /\ \/ spc' = [spc EXCEPT ![h] = "ready"]
                \/ UNCHANGED spc
             /\ UNCHANGED <<mpc, loaded, tid, sendTime, rtt, time, began, now,
                            inbox, listed, arrived>>

CreatedAll == /\ mpc = "spawn"
              /\ left = {}
              /\ left' = loaded
              /\ mpc' = "join"
              /\ UNCHANGED <<loaded, senders, rtt, time, began, now, inbox,
                             listed, arrived>>

\* sender_thread draws the ID, stamps its entry and sends.  A sendto that
\* fails is one whose answer never comes.
Send(h) == /\ mpc \in {"spawn", "join"}
           /\ spc[h] = "ready"
           /\ spc' = [spc EXCEPT ![h] = "exited"]
           /\ tid' = [tid EXCEPT ![h] = h]
           /\ sendTime' = [sendTime EXCEPT ![h] = time]
           /\ UNCHANGED <<mainState, rtt, time, began, now, inbox, listed, arrived>>

\* pthread_join.  For a thread that was not created it is undefined: it
\* returns or crashes.
JoinSender(h) == /\ mpc = "join"
                 /\ IsFirst(h, left)
                 /\ \/ /\ spc[h] \in {"absent", "exited"}
                       /\ left' = left \ {h}
                       /\ UNCHANGED mpc
                    \/ /\ spc[h] = "absent"
                       /\ mpc' = "crashed"
                       /\ UNCHANGED left
                 /\ UNCHANGED <<loaded, senders, rtt, time, began, now, inbox, listed,
                                arrived>>

-----------------------------------------------------------------------------
(* listener_loop.                                                          *)

Begin == /\ mpc = "join"
         /\ left = {}
         /\ began' = time
         /\ mpc' = "recv"
         /\ UNCHANGED <<loaded, left, senders, rtt, time, now, inbox, listed,
                        arrived>>

BatchLen == IF Len(sockbuf) < BatchSize THEN Len(sockbuf) ELSE BatchSize

\* epoll_wait finds the socket readable; recvmmsg and the time stamp.
Ready == /\ mpc = "recv"
         /\ sockbuf # <<>>
         /\ batch' = SubSeq(sockbuf, 1, BatchLen)
         /\ sockbuf' = SubSeq(sockbuf, BatchLen + 1, Len(sockbuf))
         /\ now' = time
         /\ mpc' = "drain"
         /\ UNCHANGED <<loaded, left, senders, rtt, time, began, listed, arrived>>

\* elapsed: the seconds and the nanoseconds are subtracted apart and truncated
\* toward zero, which may give one more than the milliseconds that passed.
Elapsed == {time - began, time - began + 1}

\* epoll_wait gives up.
TimeOut == /\ mpc = "recv"
           /\ sockbuf = <<>>
           /\ \E e \in Elapsed : e >= TimeLimit
           /\ mpc' = "check"
           /\ UNCHANGED <<loaded, left, senders, rtt, time, began, now, inbox,
                          listed, arrived>>

\* The entries without a time that have the ID of datagram m.
Owners(m) == {h \in loaded : m # Short /\ rtt[h] = NoRtt /\ tid[h] = m}

\* A defective variant: a datagram that is too short ends the batch.
ShortEndsBatch ==
    /\ mpc = "drain"
    /\ batch # <<>>
    /\ LET m == Head(batch) IN
         /\ rtt' = [h \in Hosts |-> IF IsFirst(h, Owners(m)) THEN now - sendTime[h]
                                    ELSE rtt[h]]
         /\ batch' = IF m = Short THEN <<>> ELSE Tail(batch)
    /\ UNCHANGED <<mainState, senders, time, began, now, sockbuf, listed, arrived>>

\* One datagram of the batch: the first of its owners takes it.
Handle == /\ mpc = "drain"
          /\ batch # <<>>
          /\ rtt' = [h \in Hosts |->
                       IF IsFirst(h, Owners(Head(batch))) THEN now - sendTime[h]
                       ELSE rtt[h]]
          /\ batch' = Tail(batch)
          /\ UNCHANGED <<mainState, senders, time, began, now, sockbuf, listed, arrived>>

Handled == /\ mpc = "drain"
           /\ batch = <<>>
           /\ mpc' = "check"
           /\ UNCHANGED <<loaded, left, senders, rtt, time, began, now, inbox,
                          listed, arrived>>

CheckElapsed == /\ mpc = "check"
                /\ \E e \in Elapsed : mpc' = IF e >= TimeLimit THEN "list" ELSE "recv"
                /\ UNCHANGED <<loaded, left, senders, rtt, time, began, now,
                               inbox, listed, arrived>>

-----------------------------------------------------------------------------
(* The list.                                                               *)

\* A defective variant: every entry with a time is listed.
HasTime(h) == rtt[h] >= 0

InTime(h) == rtt[h] >= 0 /\ rtt[h] < TimeLimit

EntriesInTime == {h \in loaded : InTime(h)}

\* A defective variant: the entries printed are not counted.
ListAll == /\ mpc = "list"
           /\ listed' = EntriesInTime
           /\ mpc' = "done"
           /\ UNCHANGED <<loaded, left, senders, rtt, time, began, now, inbox, arrived>>

\* The first entries in time.
List == /\ mpc = "list"
        /\ listed' = FirstOf(EntriesInTime, Shown)
        /\ mpc' = "done"
        /\ UNCHANGED <<loaded, left, senders, rtt, time, began, now, inbox, arrived>>

-----------------------------------------------------------------------------
(* The environment.                                                        *)

Deliverable == {Zero, Short} \union {h \in Hosts : spc[h] = "exited"}

Deliver == /\ mpc \in {"spawn", "join", "recv", "drain", "check"}
           /\ Len(arrived) < MaxDatagrams
           /\ \E m \in Deliverable :
                 /\ sockbuf' = Append(sockbuf, m)
                 /\ arrived' = Append(arrived, [id |-> m, at |-> time,
                                                early |-> mpc \in {"spawn", "join"}])
           /\ UNCHANGED <<mainState, senders, rtt, time, began, now, batch, listed>>

ClockTick == /\ \/ mpc \in {"spawn", "join"} /\ time < Boot + Lateness
                \/ mpc \in {"recv", "drain", "check"} /\ time < began + TimeLimit + Lateness
             /\ time' = time + 1
             /\ UNCHANGED <<mainState, senders, rtt, began, now, inbox, listed, arrived>>

EngineMain == \/ Load \/ CreatedAll \/ Begin
              \/ \E h \in Hosts : Create(h) \/ JoinSender(h)
              \/ Ready \/ TimeOut \/ Handle \/ Handled \/ CheckElapsed \/ List

EngineEnded == mpc \in {"done", "crashed"} /\ UNCHANGED engineVars

EngineNext == EngineMain \/ (\E h \in Hosts : Send(h)) \/ Deliver \/ ClockTick \/ EngineEnded

EngineSpec == EngineInit /\ [][EngineNext]_engineVars

-----------------------------------------------------------------------------
(* What must hold.                                                         *)

Ids == Hosts \union {Zero, Short}

\* Type invariant.
EngineTypeOK == /\ mpc \in {"load", "spawn", "join", "recv", "drain", "check", "list",
                           "done", "crashed"}
                /\ loaded \in SUBSET Hosts /\ Cardinality(loaded) <= MaxStun
                /\ left \in SUBSET loaded
                /\ spc \in [Hosts -> {"absent", "ready", "exited"}]
                /\ tid \in [Hosts -> Hosts \union {Zero}]
                /\ sendTime \in [Hosts -> 0..time]
                /\ rtt \in [Hosts -> {NoRtt} \union 0..time]
                /\ time \in Nat /\ began \in 0..time /\ now \in 0..time
                /\ sockbuf \in Seq(Ids) /\ batch \in Seq(Ids) /\ Len(batch) <= BatchSize
                /\ listed \in SUBSET loaded /\ Cardinality(listed) <= Shown
                /\ arrived \in Seq([id : Ids, at : Nat, early : BOOLEAN])

\* epoll_burst.c l.114 and l.161: a stranger's datagram with twelve zeros for
\* an ID is taken for the answer of an entry that never asked; yet whatever is
\* listed asked, was answered, and the time shown covers the round trip of an
\* answer to its own request.
ListedWereAnswered ==
    \A h \in listed :
        /\ spc[h] = "exited"
        /\ \E i \in DOMAIN arrived : /\ arrived[i].id = h
                                     /\ rtt[h] >= arrived[i].at - sendTime[h]

\* epoll_burst.c l.152-155: main listens only when all threads have sent.  An
\* answer that came meanwhile, among as many datagrams as the first recvmmsg
\* takes, is not lost, whatever surrounds it: its server has a time that counts
\* up to the first batch.
EarlyAnswersCounted ==
    mpc \in {"list", "done"} =>
        \A i \in DOMAIN arrived :
            (i <= BatchSize /\ arrived[i].early /\ arrived[i].id \in Hosts) =>
                LET h == arrived[i].id IN
                /\ rtt[h] # NoRtt
                /\ rtt[h] >= began - sendTime[h]
=============================================================================
