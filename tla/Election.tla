------------------------------ MODULE Election ------------------------------
(***************************************************************************)
(* What STUN discovery promises, without packets, timers or sockets.       *)
(*                                                                         *)
(* Every server that is asked gets at most one verdict: it answered with a *)
(* usable mapped address, or it answered without one.  A verdict is final. *)
(* When the vote closes, servers without a verdict stay silent for good.   *)
(* The winner is a fastest server among those with a mapped address; with  *)
(* no such server there is no winner.                                      *)
(***************************************************************************)
EXTENDS Integers

CONSTANTS Servers,      \* the servers that may be asked
          None          \* no winner; not one of the servers

VARIABLES verdict,      \* [Servers -> {"silent", "bare", "mapped"}]
          time,         \* [Servers -> Int]: round-trip time, -1 while silent
          closed,       \* the vote is over
          winner        \* the elected server

vars == <<verdict, time, closed, winner>>

Init == /\ verdict = [s \in Servers |-> "silent"]
        /\ time = [s \in Servers |-> -1]
        /\ closed = FALSE
        /\ winner = None

\* A silent server gets its one verdict, with the time it took.
Decide(s) == /\ ~closed
             /\ verdict[s] = "silent"
             /\ \E v \in {"bare", "mapped"} : verdict' = [verdict EXCEPT ![s] = v]
             /\ time'[s] \in Nat
             /\ time' = [time EXCEPT ![s] = time'[s]]
             /\ UNCHANGED <<closed, winner>>

Close == /\ ~closed
         /\ closed' = TRUE
         /\ UNCHANGED <<verdict, time, winner>>

Mapped == {s \in Servers : verdict[s] = "mapped"}

Elect(s) == /\ closed
            /\ winner = None
            /\ s \in Mapped
            /\ \A r \in Mapped : time[s] <= time[r]
            /\ winner' = s
            /\ UNCHANGED <<verdict, time, closed>>

Next == \/ Close
        \/ \E s \in Servers : Decide(s) \/ Elect(s)

Spec == Init /\ [][Next]_vars
=============================================================================
