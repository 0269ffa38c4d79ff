------------------------------- MODULE MCNat -------------------------------
(***************************************************************************)
(* What programs learn about NATs: two hosts that drill a hole through     *)
(* theirs (HolePunch), and the archived analyser of a host's own NAT       *)
(* (NatAnalyzer).  They share nothing: in a behaviour either the hosts     *)
(* drill, or the analyser runs.                                            *)
(***************************************************************************)
EXTENDS HolePunch, NatAnalyzer, TLC

CONSTANTS a, b

\* The two hosts may be exchanged.
HostSymmetry == Permutations({a, b})

\* Two workers with one port each.
TwoSlices == <<1, 2>>

\* A keeper from 1 to 2, as the program's caller does from 4444 to 80.
OneKeeper == {<<1, 2>>}

NatInit == HoleInit /\ AnalyzerInit

\* While the hosts drill, the analyser is in one of its initial states only.
Resting == /\ pc = "open" /\ i = 1
           /\ \A s \in Servers : ext[s] = ext[1] /\ results[s] = ext[1]
           /\ ext[1] = CHOOSE e \in Endpoints : TRUE

HostsDrill   == Resting /\ HoleNext /\ UNCHANGED analyzerVars
AnalyzerRuns == /\ \A s \in Sides : nat[s] = [f \in Flows |-> Closed] /\ keep[s] = {}
                /\ net = {} /\ wave = [s \in Sides |-> First]
                /\ AnalyzerNext /\ UNCHANGED holeVars

NatNext == HostsDrill \/ AnalyzerRuns

NatSpec == NatInit /\ [][NatNext]_<<holeVars, analyzerVars>>
=============================================================================
