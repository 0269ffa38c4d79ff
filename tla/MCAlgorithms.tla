---------------------------- MODULE MCAlgorithms ----------------------------
(* The pure algorithms on all inputs of bounded length: `data` is taken as  *)
(* the bytes of a datagram, as the times of a list of servers, and as the   *)
(* ports of a packet log.                                                   *)
EXTENDS Checksum, Ranking, PortAnalysis

CONSTANTS Values,       \* bound: values of the input
          MaxLen        \* bound: length of the input

\* Each value is an octet and a port, and the length of a datagram fits in a
\* word.
ASSUME InputsAssumption == /\ Values \subseteq 0..(Byte - 1)
                           /\ Values \subseteq 0..(2^PortBits - 1)
                           /\ MaxLen \in Nat /\ MaxLen < Word

VARIABLE data

NoInput == data = <<>>

Extend == /\ Len(data) < MaxLen
          /\ \E v \in Values : data' = Append(data, v)

Inputs == NoInput /\ [][Extend]_data

-----------------------------------------------------------------------------
(* The properties of Checksum, Ranking and PortAnalysis for data.          *)

\* net.c l.20-22 and checksum.c l.17-20 compute the one's complement sum.
\* net.c l.69-70 and network_core.c l.41: forged datagrams are accepted, those
\* of net.c with a checksum; the forge sends none where net.c sends all ones, or
\* when malloc fails (checksum.c l.40-44), and the same field in all other cases.
\* The first byte stands for the pseudo-header.
ChecksumsCorrect ==
    /\ ChecksumCorrect(data)
    /\ data # <<>> => /\ NetDatagramChecked(Head(data), Tail(data))
                      /\ ForgeDatagramAccepted(Head(data), Tail(data))

\* burst_blaster.c l.109-128 and blast_controller.c l.76-91: the lists are in
\* order of the times, and burst_blaster.c lists the fastest that answered.
RankingCorrect == BlasterListsFastest(data) /\ ControllerSorts(data)

\* full_spectrum_randomness_analyzer.cpp: berlekamp_massey (l.331-356) returns
\* the linear complexity, and predicted bits are made into ports (l.718-726).
\* The log is not empty: main returns if it is.
RegistersCorrect ==
    data # <<>> => LinearComplexityCorrect(data) /\ PortsOfInverts(data)

\* full_spectrum_randomness_analyzer.cpp: runs (l.246-262), repetition
\* distances and cycles (l.101-108, l.162-172), differences (l.37-40) and
\* transitions (l.185-189), and remainders (l.68-81).
LogStatisticsCorrect ==
    data # <<>> => /\ RunsCorrect(data)
                   /\ RepeatsCorrect(data)
                   /\ DeltasAreTransitions(data)
                   /\ ShortLogIsBiased(data)

-----------------------------------------------------------------------------
(* What full_spectrum_randomness_analyzer.cpp says of itself.              *)

\* L.128: the suggested ports are the top ones.
TopSuggested == data # <<>> => SuggestionsAreTop(data)

\* L.376: lfsr_predictor obtains the coefficients.
CoefficientsObtained == data # <<>> => PredictorObtainsTaps(data)
=============================================================================
