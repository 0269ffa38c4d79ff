---------------------------- MODULE MCHolePunch ----------------------------
(* HolePunch for TLC: the two hosts are model values that may be exchanged. *)
EXTENDS HolePunch, TLC

CONSTANTS a, b

HostSymmetry == Permutations({a, b})

\* Two workers with one port each.
TwoSlices == <<1, 2>>

\* A keeper from 1 to 2, as the program's caller does from 4444 to 80.
OneKeeper == {<<1, 2>>}
=============================================================================
