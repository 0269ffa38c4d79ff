---------------------------- MODULE PortAnalysis ----------------------------
(***************************************************************************)
(* The integer algorithms of kernel/full_spectrum_randomness_analyzer.cpp  *)
(* on the ports of a packet log, in the order of the log, and the ranking  *)
(* of kernel/archive/port_histogram.cpp.  The functions that only compute  *)
(* floating-point statistics are left out.                                 *)
(***************************************************************************)
EXTENDS Integers, SequencesExt

CONSTANTS PortBits,     \* width of a port, 16
          TopN,         \* ports in a list of suggestions, 10
          ModBase,      \* remainders that are counted, 256
          MaxCycle      \* cycles are shorter than that, 1024

ASSUME AnalysisAssumption == /\ {PortBits, ModBase} \subseteq Nat \ {0}
                             /\ {TopN, MaxCycle} \subseteq Nat

\* for (i = 15; i >= 0; --i) push_back((port >> i) & 1): the most significant
\* bit first.
BitsOf(port) == [k \in 1..PortBits |-> (port \div 2^(PortBits - k)) % 2]
Bitstream(ports) ==
    [k \in 1..(PortBits * Len(ports)) |->
        BitsOf(ports[((k - 1) \div PortBits) + 1])[((k - 1) % PortBits) + 1]]

\* main: the bits are taken PortBits at a time, and what is left over is not.
PortsOf(bits) ==
    [i \in 1..(Len(bits) \div PortBits) |->
        FoldLeft(LAMBDA port, bit : 2 * port + bit, 0,
                 SubSeq(bits, (i - 1) * PortBits + 1, i * PortBits))]

-----------------------------------------------------------------------------
(* Histograms.                                                             *)

\* delta_port_analysis: how often each difference of neighbours occurs.
Delta(ports, i) == ports[i] - ports[i - 1]

DeltaHistogram(ports) ==
    LET deltas == {Delta(ports, i) : i \in 2..Len(ports)}
    IN  [d \in deltas |-> Cardinality({i \in 2..Len(ports) : Delta(ports, i) = d})]

\* markov_predictor: transitions[prev][curr].
Transitions(ports) ==
    [pc \in {<<ports[i - 1], ports[i]>> : i \in 2..Len(ports)} |->
        Cardinality({i \in 2..Len(ports) : <<ports[i - 1], ports[i]>> = pc})]

\* last_seen[p] = i, first_seen[p] = i: what a map holds of the other ports stays.
SetAt(map, p, i) == [q \in DOMAIN map \cup {p} |-> IF q = p THEN i ELSE map[q]]

\* repetition_distance_analysis: the distances between a port and its last
\* occurrence, in the order of the log.
RepeatDistances(ports) ==
    FoldLeftDomain(
        LAMBDA st, i :
            [seen  |-> SetAt(st.seen, ports[i], i),
             found |-> IF ports[i] \in DOMAIN st.seen
                       THEN Append(st.found, i - st.seen[ports[i]])
                       ELSE st.found],
        [seen |-> <<>>, found |-> <<>>], ports).found

\* cycle_detector: the bag of cycle lengths; first_seen is set at every
\* occurrence.
CycleLengths(ports) ==
    FoldLeftDomain(
        LAMBDA st, i :
            [first |-> SetAt(st.first, ports[i], i),
             bag   |-> IF ports[i] \in DOMAIN st.first
                          /\ 1 < i - st.first[ports[i]] /\ i - st.first[ports[i]] < MaxCycle
                       THEN st.bag (+) SetToBag({i - st.first[ports[i]]})
                       ELSE st.bag],
        [first |-> <<>>, bag |-> EmptyBag], ports).bag

\* modular_bias_analysis, in integers as in the code.
WithRemainder(ports, k) == Cardinality({i \in DOMAIN ports : ports[i] % ModBase = k})

BiasDetected(ports) ==
    LET counts == {WithRemainder(ports, k) : k \in 0..(ModBase - 1)}
    IN  Max(counts) - Min(counts) > Len(ports) \div (ModBase * 10)

\* The first n of the ports, sorted by a comparison of their hits; std::sort
\* leaves equal ones in any order.
Hits(ports, p) == Cardinality({i \in DOMAIN ports : ports[i] = p})

FirstPorts(ports, n, Before(_, _)) ==
    {SubSeq(q, 1, Min({n, Len(q)})) :
        q \in {q \in SetToSeqs(ToSet(ports)) :
                  \A i, j \in DOMAIN q : i < j => ~Before(Hits(ports, q[j]), Hits(ports, q[i]))}}

\* predictive_hint_generator: b.second > a.second.
HintLists(ports, n) == FirstPorts(ports, n, LAMBDA a, b : b > a)

\* port_histogram.cpp: b.second < a.second.
HotLists(ports, n) == FirstPorts(ports, n, LAMBDA a, b : b < a)

-----------------------------------------------------------------------------
(* nist_rng_scorecard.                                                     *)

\* The runs test.
RunsTest(bits) == 1 + Cardinality({i \in 2..Len(bits) : bits[i] # bits[i - 1]})

\* A defective variant: the current run is not reset by a 0.
LongestWithoutReset(bits) ==
    FoldLeft(LAMBDA st, c :
                 LET curr == IF c = 1 THEN st.curr + 1 ELSE st.curr
                 IN  [curr |-> curr, max |-> IF curr > st.max THEN curr ELSE st.max],
             [curr |-> 0, max |-> 0], bits).max

\* The longest run of ones.
LongestRunOfOnes(bits) ==
    FoldLeft(LAMBDA st, c :
                 LET curr == IF c = 1 THEN st.curr + 1 ELSE 0
                 IN  [curr |-> curr, max |-> IF curr > st.max THEN curr ELSE st.max],
             [curr |-> 0, max |-> 0], bits).max

-----------------------------------------------------------------------------
(* berlekamp_massey, over the field with two elements.  Sequences are      *)
(* indexed from 1 here: s[i + 1] is the code's s[i].                       *)

\* d of one turn: what the register with taps c predicts wrongly.
Discrepancy(s, c, l, i) ==
    (s[i + 1] + SumFunction([j \in 1..l |-> c[j] * s[i - j + 1]])) % 2

\* c[j + shift] ^= b[j] for j < n - shift.
Combine(n, c, b, shift) ==
    [k \in 0..(n - 1) |->
        IF k >= shift /\ b[k - shift] = 1 THEN 1 - c[k] ELSE c[k]]

\* A defective variant: the length is raised in every turn that fails.
TurnAlwaysRaises(s, st, i) ==
    LET n == Len(s) IN
    IF Discrepancy(s, st.c, st.l, i) = 0 THEN st
    ELSE [c |-> Combine(n, st.c, st.b, i - st.m),
          b |-> st.c, l |-> IF i + 1 - st.l > 0 THEN i + 1 - st.l ELSE 0, m |-> i]

\* One turn of the loop over i.
Turn(s, st, i) ==
    LET n == Len(s)
        c == Combine(n, st.c, st.b, i - st.m)
    IN  IF Discrepancy(s, st.c, st.l, i) = 0 THEN st
        ELSE IF 2 * st.l <= i THEN [c |-> c, b |-> st.c, l |-> i + 1 - st.l, m |-> i]
        ELSE [st EXCEPT !.c = c]

BerlekampMassey(s) ==
    LET one == [k \in 0..(Len(s) - 1) |-> IF k = 0 THEN 1 ELSE 0]
    IN  FoldLeft(LAMBDA st, i : Turn(s, st, i),
                 [c |-> one, b |-> one, l |-> 0, m |-> -1],
                 [i \in 1..Len(s) |-> i - 1])

-----------------------------------------------------------------------------
(* lfsr_predictor: berlekamp_massey again, which starts with its result l  *)
(* and has arrays c and b of l + 1 entries.  `outside` says that c was      *)
(* written past its end, or a bit before the first was read and counted;    *)
(* what follows is undefined, and the state stays as it is.                 *)

PredictorTurn(l0, s, st, i) ==
    LET before == {j \in 1..st.l : j > i /\ st.c[j] = 1}
        d      == (s[i + 1] + SumFunction([j \in 1..Min({st.l, i}) |->
                                              st.c[j] * s[i - j + 1]])) % 2
        flip   == {j + i - st.m : j \in {j \in 0..(st.l - 1) : st.b[j] = 1}}
        grow   == 2 * st.l <= i
    IN  IF st.outside THEN st
        ELSE IF before # {} THEN [st EXCEPT !.outside = TRUE]
        ELSE IF d = 0 THEN st
        ELSE IF ~(flip \subseteq 0..l0) THEN [st EXCEPT !.outside = TRUE]
        ELSE [c |-> [k \in 0..l0 |-> IF k \in flip THEN 1 - st.c[k] ELSE st.c[k]],
              b |-> IF grow THEN st.c ELSE st.b,
              l |-> IF grow THEN i + 1 - st.l ELSE st.l,
              m |-> IF grow THEN i ELSE st.m,
              outside |-> FALSE]

Predictor(s, l) ==
    LET one == [k \in 0..l |-> IF k = 0 THEN 1 ELSE 0]
    IN  FoldLeft(LAMBDA st, i : PredictorTurn(l, s, st, i),
                 [c |-> one, b |-> one, l |-> l, m |-> -1, outside |-> FALSE],
                 [i \in 1..Len(s) |-> i - 1])

-----------------------------------------------------------------------------
(* What must hold of every log.                                            *)

\* The register of length l with taps t generates s from its first l bits.
Generates(s, l, t) ==
    \A i \in l..(Len(s) - 1) :
        s[i + 1] = SumFunction([j \in 1..l |-> t[j] * s[i - j + 1]]) % 2

\* berlekamp_massey, l.331-356: the length it returns is the least of a
\* register that generates the bits, its own taps generate them, and no others of
\* that length do if it is at most half the number of bits.
LinearComplexityCorrect(ports) ==
    LET s == Bitstream(ports)
        r == BerlekampMassey(s)
    IN  /\ r.l <= Len(s)
        /\ Generates(s, r.l, r.c)
        /\ \A l \in 0..(r.l - 1) : \A t \in [1..l -> {0, 1}] : ~Generates(s, l, t)
        /\ 2 * r.l <= Len(s) =>
              \A t \in [1..(r.l) -> {0, 1}] :
                  Generates(s, r.l, t) => \A j \in 1..(r.l) : t[j] = r.c[j]

\* nist_rng_scorecard, l.246-262: the number of runs is that of the maximal
\* blocks of equal bits, and the longest run of ones is the longest such block.
Blocks(s) == {ij \in (DOMAIN s) \X (DOMAIN s) :
                /\ ij[1] <= ij[2]
                /\ \A k \in ij[1]..ij[2] : s[k] = s[ij[1]]
                /\ ij[1] = 1 \/ s[ij[1] - 1] # s[ij[1]]
                /\ ij[2] = Len(s) \/ s[ij[2] + 1] # s[ij[1]]}

RunsCorrect(ports) ==
    LET s    == Bitstream(ports)
        ones == {ij[2] - ij[1] + 1 : ij \in {b \in Blocks(s) : s[b[1]] = 1}}
    IN  /\ RunsTest(s) = Cardinality(Blocks(s))
        /\ LongestRunOfOnes(s) = (IF ones = {} THEN 0 ELSE Max(ones))

\* repetition_distance_analysis, l.101-108, and cycle_detector, l.162-172: both
\* count pairs of neighbouring occurrences of a port by their distance, the
\* second one those between 1 and MaxCycle.  Its first_seen is not the first.
RepeatsCorrect(ports) ==
    LET pairs(d) == {i \in DOMAIN ports :
                        /\ i + d \in DOMAIN ports
                        /\ ports[i + d] = ports[i]
                        /\ \A k \in (i + 1)..(i + d - 1) : ports[k] # ports[i]}
        found  == RepeatDistances(ports)
        cycles == CycleLengths(ports)
    IN  /\ \A d \in 1..Len(ports) :
              Cardinality({k \in DOMAIN found : found[k] = d}) = Cardinality(pairs(d))
        /\ BagToSet(cycles) =
              {d \in 1..Len(ports) : 1 < d /\ d < MaxCycle /\ pairs(d) # {}}
        /\ \A d \in BagToSet(cycles) : cycles[d] = Cardinality(pairs(d))

\* modular_bias_analysis, l.77: the threshold is an integer quotient, 0 for a
\* log of fewer than 10 * ModBase packets, which is therefore called biased
\* unless every remainder occurs equally often.
ShortLogIsBiased(ports) ==
    Len(ports) < 10 * ModBase =>
        (BiasDetected(ports) <=>
            \E k \in 0..(ModBase - 1) :
                ModBase * WithRemainder(ports, k) # Len(ports))

\* predictive_hint_generator, l.128, calls what it prints the top suggestions: so
\* the ports are those with the most hits, as in the list of port_histogram.cpp,
\* l.39-52.  The comparison of l.124 puts the ports with the fewest hits first.
SuggestionsAreTop(ports) ==
    \A list \in HintLists(ports, TopN) :
        \E top \in HotLists(ports, TopN) : ToSet(list) = ToSet(top)

\* lfsr_predictor, l.376, says that this Berlekamp-Massey obtains the coefficients
\* as well: so it stays inside its arrays, and its taps generate the log.
PredictorObtainsTaps(ports) ==
    LET s == Bitstream(ports)
        r == Predictor(s, BerlekampMassey(s).l)
    IN  ~r.outside /\ Generates(s, r.l, r.c)

\* main, l.718-726: the ports made of bits are those the bits were made of, and a
\* port without all its bits is left out.
PortsOfInverts(ports) ==
    LET s == Bitstream(ports)
    IN  /\ PortsOf(s) = ports
        /\ PortsOf(Front(s)) = Front(ports)

\* delta_port_analysis, l.37-40, and markov_predictor, l.185-189: both count
\* every pair of neighbours once, so a difference occurs as often as the
\* transitions that have it together, and the differences lead from the first
\* port to the last.
DeltasAreTransitions(ports) ==
    LET delta == DeltaHistogram(ports)
        trans == Transitions(ports)
    IN  /\ \A d \in DOMAIN delta :
              delta[d] = SumFunctionOnSet(trans, {pc \in DOMAIN trans : pc[2] - pc[1] = d})
        /\ SumFunction([d \in DOMAIN delta |-> d * delta[d]]) = Last(ports) - Head(ports)
=============================================================================
