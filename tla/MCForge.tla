------------------------------ MODULE MCForge ------------------------------
(***************************************************************************)
(* Three small models side by side: the wave of natghost_forge             *)
(* (ForgeWave), the pure algorithms, among them the checksum of the wave's *)
(* datagrams (MCAlgorithms), and the programs that probe servers in        *)
(* parallel and sort what they find with one of the algorithms             *)
(* (ParallelProbes).  They share no state, and a behaviour is one of the   *)
(* probing programs first and then, after the one end that is picked here, *)
(* a wave or a growing input.                                              *)
(***************************************************************************)
EXTENDS ForgeWave, MCAlgorithms, ParallelProbes

ForgeInit == Init /\ NoInput /\ ProbeInit

Unforged == mpc = "spawn" /\ next = 0

\* The scanner that found nothing has ended.
ProbesOver == program = "scanner" /\ stage = "listed" /\ resolved = {}

\* An action of each of the three.
Probing(A) == Unforged /\ A /\ UNCHANGED <<vars, data>>
Forging(A) == ProbesOver /\ NoInput /\ A /\ UNCHANGED <<data, probeVars>>
Growing    == ProbesOver /\ Unforged /\ Extend /\ UNCHANGED <<vars, probeVars>>

ForgeNext == Probing(ProbeNext) \/ Forging(Next) \/ Growing

forgeVars == <<vars, data, probeVars>>

ForgeSpec ==
    /\ ForgeInit /\ [][ForgeNext]_forgeVars
    /\ \A t \in Probers : WF_forgeVars(Probing(Probe(t)))
    /\ WF_forgeVars(Probing(Show)) /\ WF_forgeVars(Probing(Millisecond))
    /\ WF_forgeVars(Forging(Master))
    /\ \A w \in Workers : WF_forgeVars(Forging(Worker(w)))
=============================================================================
