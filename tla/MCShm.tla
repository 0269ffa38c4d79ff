------------------------------- MODULE MCShm -------------------------------
(***************************************************************************)
(* The two shared memory segments and those who use them.  /shrmem is      *)
(* written by memory_map.c, read by map_reader.c (TaskPool) and mapped by  *)
(* burst_wawe.c before it sends its wave (BurstWave); the wave may start   *)
(* at any moment of the writer and finds the segment as it is then.  It    *)
(* never reads it, so while it runs the pool stands still here.            *)
(* /natghost_shm holds the engine's address (ShmPublish).  Nobody uses     *)
(* both segments: in a behaviour one of them is used.                      *)
(*                                                                         *)
(* The addresses have different lengths: a read that mixes them can hold   *)
(* two colons, a long port, or one address's IP with the other's port.     *)
(***************************************************************************)
EXTENDS TaskPool, BurstWave, ShmPublish

MCAddrs  == {"short", "long"}
MCText   == [a \in MCAddrs |-> IF a = "short" THEN <<"1", ":", "7">>
                               ELSE <<"2", "3", ":", "8", "9">>]
MCDigits == {"1", "2", "3", "7", "8", "9"}

\* What main of burst_wawe.c finds of the pool's segment (l.91-110).
Found(words) == CASE words < 0 -> "absent" [] words = 0 -> "empty" [] words > 0 -> "sized"

ShmInit == PoolInit /\ Init /\ segment = Found(size) /\ PublishInit

PoolSteps == /\ mpc = "start"
             /\ PoolNext
             /\ segment' = Found(size')
             /\ UNCHANGED <<archived, main, thread>>

\* The wave starts before any reader has opened the segment.
WaveSteps(A) == rpc = "idle" /\ A /\ UNCHANGED poolVars

ShrmemSteps == PoolSteps \/ WaveSteps(Next)

\* While nobody has touched the other segment.
Alone(A) == runs = 0 /\ rdpc = "idle" /\ outcome = Empty /\ A /\ UNCHANGED publishVars

PublishSteps == /\ mpc = "start" /\ size < 0 /\ ~archived
                /\ PublishNext
                /\ UNCHANGED <<poolVars, vars>>

ShmNext == Alone(ShrmemSteps) \/ PublishSteps

shmVars == <<poolVars, vars, publishVars>>

ShmSpec ==
    /\ ShmInit /\ [][ShmNext]_shmVars
    /\ WF_shmVars(Alone(WaveSteps(Main)))
    /\ \A t \in ThreadIds : WF_shmVars(Alone(WaveSteps(Thread(t))))
=============================================================================
