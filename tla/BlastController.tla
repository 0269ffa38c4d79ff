--------------------------- MODULE BlastController ---------------------------
(***************************************************************************)
(* The archived discovery engine: main of kernel/archive/blast_controller.c*)
(* with fire_stun_to_all (raw_socket_firer_threads.c), whose threads send  *)
(* one request each from UDP port 54321, and listen_for_stun_responses     *)
(* (listener.c), which binds the same port again to hear the answers.      *)
(*                                                                         *)
(* A request is named by its target, an address and a port; transaction    *)
(* IDs, which the threads put into the packets, are taken to be distinct.  *)
(***************************************************************************)
EXTENDS Integers, SequencesExt

CONSTANTS NumTargets,   \* requests asked for: addresses times stun_ports
          MaxThreads,   \* MAX_THREADS
          MaxTargets,   \* MAX_TARGETS: entries of send_table, and max_results
          Window,       \* RESPONSE_TIMEOUT_SEC
          Slack,        \* bound: ticks firing takes, and the listener is late
          MaxArrivals   \* bound: datagrams that reach port 54321

ASSUME SizesAssumption == /\ NumTargets \in Nat
                          /\ MaxThreads \in Nat \ {0}
                          /\ MaxTargets \in Nat
                          /\ Window \in Nat \ {0}
                          /\ Slack \in Nat
                          /\ MaxArrivals \in Nat

\* The break in the loops of fire_stun_to_all.
Launches == IF NumTargets < MaxThreads THEN NumTargets ELSE MaxThreads
Requests == 1..Launches
Other    == 0             \* a datagram that answers no request

VARIABLES
    pc,        \* main: "fire", "join", "bind", "listen", "done" or "crashed"
    made,      \* thread_index
    joined,    \* threads joined
    tpc,       \* each fire_thread: "absent", "ready" or "exited"
    sentAt,    \* when its request left; 0: not sent
    table,     \* send_table: the recorded time of each request
    owner,     \* who has port 54321: "none", "firer" or "listener"
    buffer,    \* datagrams in the listener's socket: their places in heard
    results,   \* the replies: request, rtt_ms and (history) which datagram it was
    clock,     \* the monotonic clock, from 1
    start,     \* when the phase began, for the listener its start
    heard      \* history: datagrams that reached the port, when, and whether
               \* the listener's socket took them

main    == <<pc, made, joined, table, owner>>
threads == <<tpc, sentAt>>
vars    == <<main, threads, buffer, results, clock, start, heard>>

Init == /\ pc = "fire" /\ made = 0 /\ joined = 0
        /\ tpc = [r \in Requests |-> "absent"]
        /\ sentAt = [r \in Requests |-> 0]
        /\ table = <<>>
        /\ owner = "none"
        /\ buffer = <<>> /\ results = <<>>
        /\ clock = 1 /\ start = 1
        /\ heard = <<>>

-----------------------------------------------------------------------------
(* fire_stun_to_all.                                                       *)

\* socket, setsockopt and bind; if one fails nothing is fired, and main goes
\* on to listen all the same.
OpenFirer == /\ pc = "fire"
             /\ owner = "none"
             /\ \/ owner' = "firer" /\ UNCHANGED pc
                \/ pc' = "bind" /\ UNCHANGED owner
             /\ UNCHANGED <<made, joined, table, threads, buffer, results,
                            clock, start, heard>>

\* record_send, which ignores what does not fit, and pthread_create, whose
\* result is ignored.
Launch == /\ pc = "fire"
          /\ owner = "firer"
          /\ made < Launches
          /\ table' = IF Len(table) < MaxTargets
                      THEN Append(table, [request |-> made + 1, time |-> clock])
                      ELSE table
          /\ \/ tpc' = [tpc EXCEPT ![made + 1] = "ready"]
             \/ UNCHANGED tpc
          /\ made' = made + 1
          /\ UNCHANGED <<pc, joined, owner, sentAt, buffer, results, clock,
                         start, heard>>

LaunchedAll == /\ pc = "fire"
               /\ owner = "firer"
               /\ made = Launches
               /\ pc' = "join"
               /\ UNCHANGED <<made, joined, table, owner, threads, buffer,
                              results, clock, start, heard>>

\* fire_thread: sendto, which may fail.
Fire(r) == /\ pc \notin {"done", "crashed"}
           /\ tpc[r] = "ready"
           /\ tpc' = [tpc EXCEPT ![r] = "exited"]
           /\ \/ sentAt' = [sentAt EXCEPT ![r] = clock]
              \/ UNCHANGED sentAt
           /\ UNCHANGED <<main, buffer, results, clock, start, heard>>

\* pthread_join.  A thread that was not created left its pthread_t unset, and
\* joining that is undefined: it returns or crashes.
Join == /\ pc = "join"
        /\ joined < made
        /\ \/ /\ tpc[joined + 1] \in {"absent", "exited"}
              /\ joined' = joined + 1
              /\ UNCHANGED pc
           \/ /\ tpc[joined + 1] = "absent"
              /\ pc' = "crashed"
              /\ UNCHANGED joined
        /\ UNCHANGED <<made, table, owner, threads, buffer, results, clock,
                       start, heard>>

\* close(sockfd): what its buffer holds is gone.
CloseFirer == /\ pc = "join"
              /\ joined = made
              /\ owner' = "none"
              /\ pc' = "bind"
              /\ UNCHANGED <<made, joined, table, threads, buffer, results,
                             clock, start, heard>>

-----------------------------------------------------------------------------
(* listen_for_stun_responses.                                              *)

\* socket and bind, or -1, which main's loops take for no results.
OpenListener == /\ pc = "bind"
                /\ \/ /\ owner' = "listener"
                      /\ pc' = "listen"
                      /\ start' = clock
                   \/ /\ pc' = "done"
                      /\ UNCHANGED <<owner, start>>
                /\ UNCHANGED <<made, joined, table, threads, buffer, results,
                               clock, heard>>

\* A defective variant: the time of the entry after the one that matches.
NextSendTime(r) ==
    LET found == {i \in DOMAIN table : table[i].request = r}
    IN  IF found = {} THEN -1
        ELSE LET i == CHOOSE i \in found : \A j \in found : i <= j
             IN  table[IF i < Len(table) THEN i + 1 ELSE i].time

\* get_send_time: the first entry with the ID, or -1.
SendTime(r) ==
    LET found == {i \in DOMAIN table : table[i].request = r}
    IN  IF found = {} THEN -1
        ELSE table[CHOOSE i \in found : \A j \in found : i <= j].time

Reply(r) == [request |-> r, rtt |-> clock - SendTime(r), datagram |-> Head(buffer)]

\* A defective variant: an unexpected datagram costs the one behind it.
ReceiveTwo == /\ pc = "listen"
              /\ clock - start < Window
              /\ buffer # <<>>
              /\ LET r == heard[Head(buffer)].request IN
                 /\ results' = IF r # Other /\ SendTime(r) > 0 /\ Len(results) < MaxTargets
                               THEN Append(results, Reply(r))
                               ELSE results
                 /\ buffer' = IF r = Other /\ Len(buffer) > 1 THEN SubSeq(buffer, 3, Len(buffer))
                              ELSE Tail(buffer)
              /\ UNCHANGED <<main, threads, clock, start, heard>>

\* A defective variant: the replies are not counted against max_results.
ReceiveAll == /\ pc = "listen"
              /\ clock - start < Window
              /\ buffer # <<>>
              /\ LET r == heard[Head(buffer)].request IN
                 results' = IF r # Other /\ SendTime(r) > 0
                            THEN Append(results, Reply(r))
                            ELSE results
              /\ buffer' = Tail(buffer)
              /\ UNCHANGED <<main, threads, clock, start, heard>>

\* One turn of the loop that finds a datagram; a short one, one that is no
\* Binding Response and one with an unknown ID are passed over.
Receive == /\ pc = "listen"
           /\ clock - start < Window
           /\ buffer # <<>>
           /\ LET r == heard[Head(buffer)].request IN
              results' = IF r # Other /\ SendTime(r) > 0 /\ Len(results) < MaxTargets
                         THEN Append(results, Reply(r))
                         ELSE results
           /\ buffer' = Tail(buffer)
           /\ UNCHANGED <<main, threads, clock, start, heard>>

\* The time is up: close, sort, show and return.  The exchange sort, checked for
\* itself in Ranking, gives the results in some order of their times.
StopListening == /\ pc = "listen"
                 /\ clock - start >= Window
                 /\ owner' = "none"
                 /\ pc' = "done"
                 /\ \E p \in Bijection(DOMAIN results, DOMAIN results) :
                       results' = [k \in DOMAIN results |-> results[p[k]]]
                 /\ \A j, k \in DOMAIN results : j < k => results'[j].rtt <= results'[k].rtt
                 /\ UNCHANGED <<made, joined, table, threads, buffer, clock,
                                start, heard>>

-----------------------------------------------------------------------------
(* The network and the clock.                                              *)

\* A datagram for port 54321: an answer to a request that was sent, any
\* number of times, or another one.  Only the listener's socket counts.
Arrive == /\ Len(heard) < MaxArrivals
          /\ pc \notin {"done", "crashed"}
          /\ \E r \in {Other} \union {q \in Requests : sentAt[q] > 0} :
                /\ heard' = Append(heard, [request |-> r, at |-> clock,
                                           taken |-> owner = "listener"])
                /\ buffer' = IF owner = "listener" THEN Append(buffer, Len(heard) + 1) ELSE buffer
          /\ UNCHANGED <<main, threads, results, clock, start>>

Tick == /\ \/ pc \in {"fire", "join", "bind"} /\ clock < start + Slack
           \/ pc = "listen" /\ clock < start + Window + Slack
        /\ clock' = clock + 1
        /\ UNCHANGED <<main, threads, buffer, results, start, heard>>

-----------------------------------------------------------------------------
Main == \/ OpenFirer \/ Launch \/ LaunchedAll \/ Join \/ CloseFirer
        \/ OpenListener \/ Receive \/ StopListening

Ended == pc \in {"done", "crashed"} /\ UNCHANGED vars

Next == Main \/ (\E r \in Requests : Fire(r)) \/ Arrive \/ Tick \/ Ended

Spec == Init /\ [][Next]_vars

-----------------------------------------------------------------------------
(* What must hold.                                                         *)

Times == 0..(1 + 2 * Slack + Window)

\* Type invariant.
TypeOK == /\ pc \in {"fire", "join", "bind", "listen", "done", "crashed"}
          /\ made \in 0..Launches /\ joined \in 0..made
          /\ tpc \in [Requests -> {"absent", "ready", "exited"}]
          /\ sentAt \in [Requests -> Times]
          /\ table \in Seq([request : Requests, time : Times \ {0}])
          /\ Len(table) <= MaxTargets
          /\ owner \in {"none", "firer", "listener"}
          /\ buffer \in Seq(DOMAIN heard)
          /\ results \in Seq([request : Requests, rtt : Times, datagram : DOMAIN heard])
          /\ Len(results) <= MaxTargets
          /\ clock \in Times \ {0} /\ start \in Times \ {0}
          /\ heard \in Seq([request : Requests \union {Other}, at : Times,
                            taken : BOOLEAN])

\* raw_socket_firer_threads.c l.97 and listener.c l.64-68: the request was
\* recorded before its thread could send it, so a reported time never falls
\* short of the round trip of an answer to that very request.
RttCoversRoundTrip ==
    \A k \in DOMAIN results :
        LET r == results[k].request
            h == heard[results[k].datagram]
        IN  /\ sentAt[r] > 0
            /\ h.request = r /\ h.taken
            /\ results[k].rtt >= h.at - sentAt[r]

Answers == {i \in DOMAIN heard : heard[i].taken /\ heard[i].request # Other}

\* listener.c l.48-85: of the answers that reach the listener's socket, once or
\* again, those to recorded requests are kept while there is room, none is counted
\* twice and none overtaken, whatever else arrives; those that came earlier, while
\* the firer held the port or nobody did, are in no result.
ListenerKeepsReplies ==
    pc = "listen" =>
        /\ \A j, k \in DOMAIN results : j < k => results[j].datagram < results[k].datagram
        /\ \A k \in DOMAIN results, b \in DOMAIN buffer : results[k].datagram < buffer[b]
        /\ \A k \in DOMAIN results : results[k].datagram \in Answers
        /\ Len(results) < MaxTargets =>
              \A i \in Answers : SendTime(heard[i].request) > 0 =>
                  (\E k \in DOMAIN results : results[k].datagram = i) \/ i \in ToSet(buffer)
=============================================================================
