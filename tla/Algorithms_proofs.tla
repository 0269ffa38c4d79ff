------------------------- MODULE Algorithms_proofs -------------------------
(***************************************************************************)
(* Proofs about the algorithms of Checksum, Ranking and PortAnalysis, for  *)
(* inputs of MCAlgorithms of every length, and about ParallelProbes, which *)
(* ranks.  In this order: folds, checksums, rankings, sums, registers      *)
(* (Massey's theorem), logs of ports, the predictor, suggestions, counts,  *)
(* runs, repetitions, the theorems about all inputs, parallel probes.      *)
(*                                                                         *)
(* A fold is replaced by the function of its running values, whose         *)
(* existence and value at every place are proved once; what a fold         *)
(* computes then follows by induction over a set of places.  The sum of a  *)
(* function, which takes the elements in an order that is not known, is    *)
(* replaced likewise by what it is on every subset.                        *)
(***************************************************************************)
EXTENDS ParallelProbes, MCAlgorithms, SequenceTheorems, FunctionTheorems,
        FiniteSetTheorems, WellFoundedInduction, TLAPS

-----------------------------------------------------------------------------
(* Sets of numbers, and folds as their running values.                     *)

\* Induction over the natural numbers, for a set.
LEMMA SetInduction ==
    ASSUME NEW S, 0 \in S, \A n \in Nat : n \in S => n + 1 \in S
    PROVE  \A n \in Nat : n \in S
<1> DEFINE T == Nat \ S
<1>1. SUFFICES ASSUME T # {} PROVE FALSE
  OBVIOUS
<1> DEFINE R == OpToRel(<, Nat)
<1>2. IsWellFoundedOn(R, Nat)
  BY NatLessThanWellFounded
<1>3. PICK x \in T : \A y \in T : ~(<<y, x>> \in R)
  <2>1. T \subseteq Nat
    OBVIOUS
  <2> HIDE DEF R, T
  <2> QED BY WFMin, <1>1, <1>2, <2>1
<1>4. x \in Nat /\ x \notin S /\ x # 0
  OBVIOUS
<1>5. x - 1 \in Nat /\ x - 1 \notin S
  BY <1>4, (x - 1) + 1 = x
<1>6. <<x - 1, x>> \in R
  BY <1>4, <1>5 DEF OpToRel
<1> QED BY <1>3, <1>5, <1>6

\* Induction up to n, for a set.
LEMMA UpTo ==
    ASSUME NEW n \in Nat, NEW S, 0 \in S, \A k \in 1..n : k - 1 \in S => k \in S
    PROVE  \A k \in 0..n : k \in S
<1> DEFINE T == {k \in Nat : k <= n => k \in S}
<1>1. 0 \in T
  OBVIOUS
<1>2. ASSUME NEW k \in Nat, k \in T PROVE k + 1 \in T
  <2> SUFFICES ASSUME k + 1 <= n PROVE k + 1 \in S
    OBVIOUS
  <2>1. k \in S /\ k + 1 \in 1..n /\ (k + 1) - 1 = k
    BY <1>2
  <2> QED BY <2>1
<1>3. \A k \in Nat : k \in T
  <2> HIDE DEF T
  <2> QED BY <1>1, <1>2, SetInduction
<1> QED BY <1>3

\* A set that running values do not leave.
LEMMA RunsStay ==
    ASSUME NEW n \in Nat, NEW V, NEW g, g[0] \in V,
           \A k \in 1..n : g[k - 1] \in V => g[k] \in V
    PROVE  \A k \in 0..n : g[k] \in V
<1> DEFINE S == {k \in 0..n : g[k] \in V}
<1>1. 0 \in S
  OBVIOUS
<1>2. \A k \in 1..n : k - 1 \in S => k \in S
  OBVIOUS
<1>3. \A k \in 0..n : k \in S
  <2> HIDE DEF S
  <2> QED BY <1>1, <1>2, UpTo
<1> QED BY <1>3

\* The maximum that FoldFunctionOnSet takes out is the only one.
LEMMA MaxIsUnique ==
    ASSUME NEW s \in SUBSET Nat, NEW m \in s, \A x \in s : x <= m
    PROVE  Max(s) = m
<1>1. \A x \in s : m >= x
  OBVIOUS
<1>2. \A y \in s : (\A x \in s : y >= x) => y = m
  OBVIOUS
<1> QED BY <1>1, <1>2 DEF Max

\* A non-empty set of places has its maximum.
LEMMA MaxInRange ==
    ASSUME NEW n \in Nat, NEW s \in SUBSET (1..n), s # {}
    PROVE  Max(s) \in s /\ \A x \in s : x <= Max(s)
<1> DEFINE Has(m) == \A t \in SUBSET (1..m) : t # {} => \E x \in t : \A y \in t : x >= y
           Good == {m \in Nat : Has(m)}
<1>1. Has(0)
  <2>1. 1..0 = {}
    OBVIOUS
  <2> QED BY <2>1
<1>2. ASSUME NEW m \in Nat, Has(m) PROVE Has(m + 1)
  <2> SUFFICES ASSUME NEW t \in SUBSET (1..(m + 1)), t # {}
               PROVE  \E x \in t : \A y \in t : x >= y
    OBVIOUS
  <2>1. CASE m + 1 \in t
    BY <2>1
  <2>2. CASE m + 1 \notin t
    <3>1. t \in SUBSET (1..m)
      BY <2>2
    <3> QED BY <1>2, <3>1
  <2> QED BY <2>1, <2>2
<1>3. n \in Good
  <2> HIDE DEF Has
  <2>1. 0 \in Good /\ \A m \in Nat : m \in Good => m + 1 \in Good
    BY <1>1, <1>2
  <2> HIDE DEF Good
  <2> QED BY <2>1, SetInduction
<1>4. \E x \in s : \A y \in s : x >= y
  BY <1>3
<1>5. Max(s) \in s /\ \A y \in s : Max(s) >= y
  BY <1>4 DEF Max
<1> QED BY <1>5

IsFold(h, n, base, step) ==
    \A s \in SUBSET (1..n) :
       h[s] = IF s = {} THEN base ELSE step[<<Max(s), h[s \ {Max(s)}]>>]

\* The recursive function over sets of places that defines a fold exists.
LEMMA FoldExists ==
    ASSUME NEW n \in Nat, NEW V, NEW base \in V, NEW step \in [(1..n) \X V -> V]
    PROVE  \E h \in [SUBSET (1..n) -> V] : IsFold(h, n, base, step)
<1> USE DEF IsFold
<1> DEFINE Folds(h, m) == IsFold(h, m, base, step)
           Exists(m) == m <= n => \E h \in [SUBSET (1..m) -> V] : Folds(h, m)
           Good == {m \in Nat : Exists(m)}
<1>1. Exists(0)
  <2> DEFINE h == [s \in SUBSET (1..0) |-> base]
  <2>1. 1..0 = {}
    OBVIOUS
  <2>2. h \in [SUBSET (1..0) -> V] /\ Folds(h, 0)
    BY <2>1
  <2> QED BY <2>2
<1>2. ASSUME NEW m \in Nat, Exists(m) PROVE Exists(m + 1)
  <2> SUFFICES ASSUME m + 1 <= n
               PROVE  \E h \in [SUBSET (1..(m + 1)) -> V] : Folds(h, m + 1)
    OBVIOUS
  <2>1. PICK h \in [SUBSET (1..m) -> V] : Folds(h, m)
    <3>1. m <= n
      OBVIOUS
    <3> QED BY <1>2, <3>1, Zenon
  <2> DEFINE next == [s \in SUBSET (1..(m + 1)) |->
                        IF m + 1 \in s THEN step[<<m + 1, h[s \ {m + 1}]>>] ELSE h[s]]
  <2>2. \A s \in SUBSET (1..(m + 1)) : /\ s \ {m + 1} \in SUBSET (1..m)
                                       /\ m + 1 \notin s => s \in SUBSET (1..m)
    OBVIOUS
  <2>3. next \in [SUBSET (1..(m + 1)) -> V]
    BY <2>1, <2>2
  <2>4. ASSUME NEW s \in SUBSET (1..(m + 1))
        PROVE  next[s] = IF s = {} THEN base ELSE step[<<Max(s), next[s \ {Max(s)}]>>]
    <3>1. CASE m + 1 \in s
      <4>1. Max(s) = m + 1
        BY <3>1, MaxIsUnique
      <4>2. next[s \ {m + 1}] = h[s \ {m + 1}]
        BY <2>2
      <4> QED BY <3>1, <4>1, <4>2
    <3>2. CASE m + 1 \notin s
      <4>1. next[s] = h[s] /\ s \in SUBSET (1..m)
        BY <3>2, <2>2
      <4>2. h[s] = IF s = {} THEN base ELSE step[<<Max(s), h[s \ {Max(s)}]>>]
        BY <2>1, <4>1
      <4>3. next[s \ {Max(s)}] = h[s \ {Max(s)}]
        BY <3>2, <4>1
      <4> QED BY <4>1, <4>2, <4>3
    <3> QED BY <3>1, <3>2
  <2> HIDE DEF next
  <2> QED BY <2>3, <2>4
<1>3. Exists(n)
  <2> HIDE DEF Exists
  <2>1. 0 \in Good /\ \A m \in Nat : m \in Good => m + 1 \in Good
    BY <1>1, <1>2
  <2>2. n \in Good
    <3> HIDE DEF Good
    <3> QED BY <2>1, SetInduction
  <2> QED BY <2>2
<1>4. n <= n
  OBVIOUS
<1> QED BY <1>3, <1>4, Zenon

\* The running values of a fold.
IsRun(g, n, V, base, step) ==
    /\ g \in [0..n -> V]
    /\ g[0] = base
    /\ \A k \in 1..n : g[k] = step[<<k, g[k - 1]>>]

IsEnd(x, n, V, base, step) == \E g : IsRun(g, n, V, base, step) /\ x = g[n]

\* What an iteration over the sets 1..k does as long as it stays in V.
Steps(iter, n, V, base, step) ==
    /\ iter[{}] = base
    /\ \A k \in 1..n : iter[1..(k - 1)] \in V => iter[1..k] = step[<<k, iter[1..(k - 1)]>>]

\* The sets of places a fold goes through are the intervals from 1.
LEMMA Intervals ==
    ASSUME NEW n \in Nat, NEW k \in 1..n
    PROVE  /\ 1..k \in SUBSET (1..n) /\ 1..k # {}
           /\ Max(1..k) = k /\ (1..k) \ {Max(1..k)} = 1..(k - 1)
<1>1. Max(1..k) = k
  BY MaxIsUnique
<1> QED BY <1>1

\* A function given by the equation of a fold holds, at 1..n, the last of the
\* running values.
LEMMA RunningValues ==
    ASSUME NEW n \in Nat, NEW V, NEW base \in V, NEW step \in [(1..n) \X V -> V],
           NEW iter, Steps(iter, n, V, base, step)
    PROVE  IsEnd(iter[1..n], n, V, base, step)
<1> DEFINE g == [k \in 0..n |-> iter[1..k]]
<1>1. g[0] = base
  <2>1. 1..0 = {}
    OBVIOUS
  <2>2. g[0] = iter[{}]
    BY <2>1
  <2> QED BY <2>2 DEF Steps
<1>2. ASSUME NEW k \in 1..n, g[k - 1] \in V PROVE g[k] = step[<<k, g[k - 1]>>]
  <2>1. g[k] = iter[1..k] /\ g[k - 1] = iter[1..(k - 1)]
    OBVIOUS
  <2> HIDE DEF g
  <2> QED BY <1>2, <2>1 DEF Steps
<1>3. g = [k \in 0..n |-> g[k]] /\ g[n] = iter[1..n]
  OBVIOUS
<1> HIDE DEF g
<1>4. \A k \in 0..n : g[k] \in V
  <2>1. g[0] \in V
    BY <1>1
  <2>2. \A k \in 1..n : g[k - 1] \in V => g[k] \in V
    BY <1>2
  <2> QED BY <2>1, <2>2, RunsStay, Zenon
<1>5. g \in [0..n -> V]
  BY <1>3, <1>4
<1>6. \A k \in 1..n : g[k] = step[<<k, g[k - 1]>>]
  BY <1>2, <1>4
<1> QED BY <1>1, <1>3, <1>5, <1>6 DEF IsEnd, IsRun

-----------------------------------------------------------------------------
(* Checksums: bytes, words and the division of sums.                       *)

Octets     == 0..(Byte - 1)
WordValues == 0..(Word - 1)

\* What the proofs use of the numbers of bytes, words and values of uint32_t.
LEMMA Sizes == /\ Byte \in Nat /\ Byte >= 2
               /\ Word \in Nat /\ Word >= 4 /\ Word >= 2 * Byte
               /\ Wide \in Nat /\ Wide = Word * Word
<1>1. Byte \in Nat /\ Byte >= 2
  BY ByteAssumption
<1>2. Byte * Byte \in Nat /\ Byte * Byte >= 2 * Byte
  BY <1>1
<1>3. Word \in Nat /\ Word >= 4 /\ Word >= 2 * Byte
  BY <1>1, <1>2 DEF Word
<1>4. Word * Word \in Nat
  BY <1>3
<1> QED BY <1>1, <1>3, <1>4 DEF Wide

\* Quotient and remainder.
LEMMA Division ==
    ASSUME NEW n \in Nat, NEW d \in Nat \ {0}
    PROVE  /\ n \div d \in Nat /\ n % d \in 0..(d - 1)
           /\ n = d * (n \div d) + (n % d)
  OBVIOUS

\* No other quotient and remainder give the same number.
LEMMA DivisionIsUnique ==
    ASSUME NEW d \in Nat \ {0}, NEW q \in Nat, NEW r \in 0..(d - 1)
    PROVE  (d * q + r) \div d = q /\ (d * q + r) % d = r
  OBVIOUS

\* Products with larger numbers are larger.
LEMMA Product ==
    ASSUME NEW a \in Nat, NEW c \in Nat, NEW d \in Nat, c <= d
    PROVE  a * c \in Nat /\ a * c <= a * d
  OBVIOUS

\* Two octets make a word.
LEMMA WordOf ==
    ASSUME NEW lo \in Octets, NEW hi \in Octets
    PROVE  /\ Byte * hi \in Nat
           /\ lo + Byte * hi \in 0..(Word - 1)
<1>1. Byte * hi \in Nat /\ Byte * hi <= Byte * (Byte - 1)
  <2>1. hi \in Nat /\ Byte - 1 \in Nat /\ hi <= Byte - 1
    BY Sizes DEF Octets
  <2> HIDE DEF Octets
  <2> QED BY <2>1, Sizes, Product
<1>2. Byte * (Byte - 1) = Word - Byte
  BY Sizes DEF Word
<1> QED BY <1>1, <1>2, Sizes DEF Octets

\* The words of octets are words.
LEMMA WordsType ==
    ASSUME NEW b \in Seq(Octets)
    PROVE  /\ Words(b) \in Seq(WordValues)
           /\ Len(Words(b)) = (Len(b) + 1) \div 2
<1> USE Sizes
<1> DEFINE n == (Len(b) + 1) \div 2
<1>1. n \in Nat /\ 2 * n <= Len(b) + 1
  OBVIOUS
<1>2. ASSUME NEW i \in 1..n
      PROVE  b[2 * i - 1] + (IF 2 * i <= Len(b) THEN Byte * b[2 * i] ELSE 0) \in 0..(Word - 1)
  <2>1. 2 * i - 1 \in 1..Len(b) /\ b[2 * i - 1] \in Octets
    BY <1>1
  <2>2. CASE 2 * i <= Len(b)
    <3>1. b[2 * i] \in Octets
      BY <2>2
    <3> QED BY <2>1, <2>2, <3>1, WordOf
  <2>3. CASE ~(2 * i <= Len(b))
    BY <2>1, <2>3 DEF Octets
  <2> QED BY <2>2, <2>3
<1> HIDE DEF n
<1>3. Words(b) = [i \in 1..n |-> b[2 * i - 1] + (IF 2 * i <= Len(b) THEN Byte * b[2 * i] ELSE 0)]
  BY DEF Words, n
<1>4. Words(b) \in [1..n -> WordValues]
  BY <1>2, <1>3 DEF WordValues
<1> QED BY <1>1, <1>4 DEF n
SumStep(w) == [p \in (1..Len(w)) \X Nat |-> p[2] + w[p[1]]]

\* The sum of w, by its running sums.
LEMMA SumRuns ==
    ASSUME NEW w \in Seq(Nat)
    PROVE  IsEnd(FoldLeft(LAMBDA s, x : s + x, 0, w), Len(w), Nat, 0, SumStep(w))
<1> DEFINE n == Len(w)
           Iter(f) == f = [s \in SUBSET DOMAIN w |->
                             IF s = {} THEN 0
                             ELSE LET x == Max(s) IN f[s \ {x}] + w[x]]
           iter == CHOOSE f : Iter(f)
<1>1. n \in Nat /\ DOMAIN w = 1..n /\ \A k \in 1..n : w[k] \in Nat
  OBVIOUS
<1>2. 0 \in Nat /\ SumStep(w) \in [(1..n) \X Nat -> Nat]
  BY <1>1 DEF SumStep
<1>3. \A s \in SUBSET (1..n) : s # {} => Max(s) \in 1..n
  BY MaxInRange, <1>1
<1>4. PICK h \in [SUBSET (1..n) -> Nat] : IsFold(h, n, 0, SumStep(w))
  <2> HIDE DEF n
  <2> QED BY <1>1, <1>2, FoldExists, Zenon
<1>5. Iter(h)
  BY <1>1, <1>3, <1>4 DEF IsFold, SumStep
<1>6. Iter(iter)
  <2> HIDE DEF Iter
  <2> QED BY <1>5
<1>7. FoldLeft(LAMBDA s, x : s + x, 0, w) = iter[1..n]
  BY <1>1 DEF FoldLeft, MapThenFoldSet
<1> HIDE DEF iter
<1>8. Steps(iter, n, Nat, 0, SumStep(w))
  <2>1. iter[{}] = 0
    BY <1>6
  <2>2. ASSUME NEW k \in 1..n, iter[1..(k - 1)] \in Nat
        PROVE  iter[1..k] = SumStep(w)[<<k, iter[1..(k - 1)]>>]
    <3>1. iter[1..k] = iter[1..(k - 1)] + w[k]
      BY <1>1, <1>6, Intervals, ZenonT(60)
    <3> QED BY <1>1, <2>2, <3>1 DEF SumStep
  <2> QED BY <2>1, <2>2 DEF Steps
<1>9. IsEnd(iter[1..n], n, Nat, 0, SumStep(w))
  <2> HIDE DEF n, Iter
  <2> QED BY <1>1, <1>2, <1>8, RunningValues
<1> QED BY <1>7, <1>9

WrappedStep(w, M) == [p \in (1..Len(w)) \X Nat |-> (p[2] + w[p[1]]) % M]

\* The sum of w in an integer of M values, by its running sums.
LEMMA WrappedSumRuns ==
    ASSUME NEW w \in Seq(Nat), NEW M \in Nat \ {0}
    PROVE  IsEnd(FoldLeft(LAMBDA s, x : (s + x) % M, 0, w), Len(w), Nat, 0, WrappedStep(w, M))
<1> DEFINE n == Len(w)
           Iter(f) == f = [s \in SUBSET DOMAIN w |->
                             IF s = {} THEN 0
                             ELSE LET x == Max(s) IN (f[s \ {x}] + w[x]) % M]
           iter == CHOOSE f : Iter(f)
<1>1. n \in Nat /\ DOMAIN w = 1..n /\ \A k \in 1..n : w[k] \in Nat
  OBVIOUS
<1>2. 0 \in Nat /\ WrappedStep(w, M) \in [(1..n) \X Nat -> Nat]
  BY <1>1 DEF WrappedStep
<1>3. \A s \in SUBSET (1..n) : s # {} => Max(s) \in 1..n
  BY MaxInRange, <1>1
<1>4. PICK h \in [SUBSET (1..n) -> Nat] : IsFold(h, n, 0, WrappedStep(w, M))
  <2> HIDE DEF n
  <2> QED BY <1>1, <1>2, FoldExists, Zenon
<1>5. Iter(h)
  BY <1>1, <1>3, <1>4 DEF IsFold, WrappedStep
<1>6. Iter(iter)
  <2> HIDE DEF Iter
  <2> QED BY <1>5
<1>7. FoldLeft(LAMBDA s, x : (s + x) % M, 0, w) = iter[1..n]
  BY <1>1 DEF FoldLeft, MapThenFoldSet
<1> HIDE DEF iter
<1>8. Steps(iter, n, Nat, 0, WrappedStep(w, M))
  <2>1. iter[{}] = 0
    BY <1>6
  <2>2. ASSUME NEW k \in 1..n, iter[1..(k - 1)] \in Nat
        PROVE  iter[1..k] = WrappedStep(w, M)[<<k, iter[1..(k - 1)]>>]
    <3>1. iter[1..k] = (iter[1..(k - 1)] + w[k]) % M
      BY <1>1, <1>6, Intervals, ZenonT(60)
    <3> QED BY <1>1, <2>2, <3>1 DEF WrappedStep
  <2> QED BY <2>1, <2>2 DEF Steps
<1>9. IsEnd(iter[1..n], n, Nat, 0, WrappedStep(w, M))
  <2> HIDE DEF n, Iter
  <2> QED BY <1>1, <1>2, <1>8, RunningValues
<1> QED BY <1>7, <1>9

-----------------------------------------------------------------------------
(* The one's complement sum and the two ways to fold.                      *)

\* The representative of x.
LEMMA Representative ==
    ASSUME NEW x \in Nat, NEW q \in Nat, NEW r \in 1..(Word - 1), x = (Word - 1) * q + r
    PROVE  OnesComplement(x) = r
<1>1. Word - 1 \in Nat \ {0} /\ r - 1 \in 0..((Word - 1) - 1)
  BY Sizes
<1>2. (Word - 1) * q \in Nat
  BY <1>1
<1>3. ((Word - 1) * q + (r - 1)) % (Word - 1) = r - 1
  BY <1>1, DivisionIsUnique
<1>4. x # 0 /\ x - 1 = (Word - 1) * q + (r - 1)
  BY <1>2, <1>1
<1>5. OnesComplement(x) = 1 + ((x - 1) % (Word - 1))
  BY <1>4 DEF OnesComplement
<1> QED BY <1>3, <1>4, <1>5, <1>1

\* OnesComplement takes a non-zero number to one that differs from it by a
\* multiple of Word - 1.
LEMMA HasRepresentative ==
    ASSUME NEW x \in Nat, x # 0
    PROVE  \E q \in Nat : /\ OnesComplement(x) \in 1..(Word - 1)
                          /\ x = (Word - 1) * q + OnesComplement(x)
<1>1. Word - 1 \in Nat \ {0} /\ x - 1 \in Nat
  BY Sizes
<1> DEFINE q == (x - 1) \div (Word - 1)
           r == (x - 1) % (Word - 1)
<1>2. q \in Nat /\ r \in 0..((Word - 1) - 1) /\ x - 1 = (Word - 1) * q + r
  BY <1>1, Division
<1>3. OnesComplement(x) = 1 + r
  BY DEF OnesComplement
<1> HIDE DEF q, r
<1>4. (Word - 1) * q \in Nat
  BY <1>1, <1>2
<1>5. OnesComplement(x) \in 1..(Word - 1) /\ x = (Word - 1) * q + OnesComplement(x)
  BY <1>1, <1>2, <1>3, <1>4, Sizes
<1> QED BY <1>2, <1>5

\* It is a word.
LEMMA OnesComplementType ==
    ASSUME NEW x \in Nat
    PROVE  OnesComplement(x) \in 0..(Word - 1)
<1>1. CASE x = 0
  BY <1>1, Sizes DEF OnesComplement
<1>2. CASE x # 0
  BY <1>2, HasRepresentative, Sizes
<1> QED BY <1>1, <1>2

\* One fold.
LEMMA FoldOnce ==
    ASSUME NEW s \in 0..(Wide - 1)
    PROVE  /\ High(s) \in 0..(Word - 1) /\ Low(s) \in 0..(Word - 1)
           /\ s = (Word - 1) * High(s) + (High(s) + Low(s))
<1>1. s \in Nat /\ Word \in Nat \ {0} /\ s < Word * Word
  BY Sizes
<1>2. High(s) \in Nat /\ Low(s) \in 0..(Word - 1) /\ s = Word * High(s) + Low(s)
  BY <1>1, Division DEF High, Low
<1>3. High(s) < Word
  <2>1. SUFFICES ASSUME Word <= High(s) PROVE FALSE
    BY <1>1, <1>2
  <2>2. Word * Word <= Word * High(s) /\ Word * High(s) \in Nat
    BY <2>1, <1>1, <1>2, Product
  <2> QED BY <1>1, <1>2, <2>2
<1>4. Word * High(s) = (Word - 1) * High(s) + High(s)
  BY <1>1, <1>2
<1>5. Word * High(s) \in Nat /\ (Word - 1) * High(s) \in Nat
  BY <1>1, <1>2
<1> QED BY <1>1, <1>2, <1>3, <1>4, <1>5

\* High and Low of a number below 2 * Word.
LEMMA SmallParts ==
    ASSUME NEW t \in Nat
    PROVE  /\ t < Word => High(t) = 0 /\ Low(t) = t
           /\ t \in Word..(2 * Word - 1) => High(t) = 1 /\ Low(t) = t - Word
<1>1. Word \in Nat \ {0}
  BY Sizes
<1>2. CASE t < Word
  <2>1. (Word * 0 + t) \div Word = 0 /\ (Word * 0 + t) % Word = t
    BY <1>1, <1>2, DivisionIsUnique
  <2> QED BY <1>1, <1>2, <2>1 DEF High, Low
<1>3. CASE t \in Word..(2 * Word - 1)
  <2>1. (Word * 1 + (t - Word)) \div Word = 1 /\ (Word * 1 + (t - Word)) % Word = t - Word
    BY <1>1, <1>3, DivisionIsUnique
  <2>2. Word * 1 + (t - Word) = t
    BY <1>1
  <2> QED BY <1>1, <1>3, <2>1, <2>2 DEF High, Low
<1> QED BY <1>1, <1>2, <1>3

\* Two folds are enough, for every uint32_t.
LEMMA TwoFolds ==
    ASSUME NEW s \in 0..(Wide - 1)
    PROVE  FoldTwice(s) = OnesComplement(s)
<1> DEFINE t == High(s) + Low(s)
<1>1. /\ High(s) \in 0..(Word - 1) /\ Low(s) \in 0..(Word - 1)
      /\ s = (Word - 1) * High(s) + (High(s) + Low(s))
  BY FoldOnce
<1>2. t \in Nat /\ t <= 2 * Word - 2 /\ s = (Word - 1) * High(s) + t
  BY <1>1, Sizes
<1>3. s \in Nat /\ (Word - 1) * High(s) \in Nat
  BY <1>1, Sizes
<1>4. FoldTwice(s) = (t + High(t)) % Word
  BY DEF FoldTwice
<1> HIDE DEF t
<1>5. CASE t = 0
  <2>1. High(s) = 0 /\ s = 0
    BY <1>1, <1>5, Sizes DEF t
  <2>2. High(t) = 0
    BY <1>5, SmallParts, Sizes
  <2>3. 0 % Word = 0
    BY Sizes
  <2> QED BY <1>4, <1>5, <2>1, <2>2, <2>3 DEF OnesComplement
<1>6. CASE t \in 1..(Word - 1)
  <2>1. High(t) = 0 /\ Low(t) = t
    BY <1>6, SmallParts, Sizes
  <2>2. OnesComplement(s) = t
    BY <1>1, <1>2, <1>3, <1>6, Representative
  <2>3. (t + High(t)) % Word = t
    BY <1>2, <2>1 DEF Low
  <2> QED BY <1>4, <2>2, <2>3
<1>7. CASE t \in Word..(2 * Word - 2)
  <2>1. High(t) = 1 /\ t + 1 \in Word..(2 * Word - 1)
    BY <1>7, SmallParts, Sizes
  <2>2. (t + 1) % Word = (t + 1) - Word
    BY <2>1, SmallParts, Sizes DEF Low
  <2>3. OnesComplement(s) = (t + 1) - Word
    <3>1. High(s) + 1 \in Nat /\ (t + 1) - Word \in 1..(Word - 1)
      BY <1>1, <1>7, Sizes
    <3>2. (Word - 1) * (High(s) + 1) = (Word - 1) * High(s) + (Word - 1)
      BY <1>1, Sizes
    <3>3. s = (Word - 1) * (High(s) + 1) + ((t + 1) - Word)
      BY <1>2, <1>3, <3>1, <3>2, Sizes
    <3> QED BY <1>3, <3>1, <3>3, Representative
  <2> QED BY <1>4, <2>1, <2>2, <2>3
<1> QED BY <1>2, <1>5, <1>6, <1>7, Sizes

\* A word stands for itself.
LEMMA SmallOnesComplement ==
    ASSUME NEW s \in 0..(Word - 1)
    PROVE  OnesComplement(s) = s
<1>1. CASE s = 0
  BY <1>1 DEF OnesComplement
<1>2. CASE s # 0
  <2>1. s \in Nat /\ s \in 1..(Word - 1) /\ 0 \in Nat /\ s = (Word - 1) * 0 + s
    BY <1>2, Sizes
  <2> QED BY <2>1, Representative
<1> QED BY <1>1, <1>2

\* A fold keeps the representative.
LEMMA FoldKeeps ==
    ASSUME NEW s \in 0..(Wide - 1)
    PROVE  /\ Low(s) + High(s) \in 0..(2 * Word - 2)
           /\ OnesComplement(Low(s) + High(s)) = OnesComplement(s)
<1> DEFINE t == Low(s) + High(s)
<1>1. /\ High(s) \in 0..(Word - 1) /\ Low(s) \in 0..(Word - 1)
      /\ s = (Word - 1) * High(s) + (High(s) + Low(s))
  BY FoldOnce
<1>2. t \in 0..(2 * Word - 2) /\ s = (Word - 1) * High(s) + t /\ s \in Nat
  BY <1>1, Sizes
<1>3. t = 0 => s = 0
  BY <1>1, Sizes
<1> HIDE DEF t
<1>4. CASE t = 0
  BY <1>2, <1>3, <1>4 DEF t
<1>5. CASE t # 0
  <2>1. PICK q \in Nat : /\ OnesComplement(t) \in 1..(Word - 1)
                         /\ t = (Word - 1) * q + OnesComplement(t)
    BY <1>2, <1>5, HasRepresentative
  <2>2. /\ High(s) + q \in Nat
        /\ (Word - 1) * (High(s) + q) = (Word - 1) * High(s) + (Word - 1) * q
        /\ (Word - 1) * High(s) \in Nat /\ (Word - 1) * q \in Nat
    BY <1>1, Sizes
  <2>3. s = (Word - 1) * (High(s) + q) + OnesComplement(t)
    BY <1>2, <2>1, <2>2
  <2>4. OnesComplement(s) = OnesComplement(t)
    BY <1>2, <2>1, <2>2, <2>3, Representative
  <2> QED BY <1>2, <2>4 DEF t
<1> QED BY <1>2, <1>4, <1>5 DEF t

\* The loop of folds ends with the same word, for every uint32_t.
LEMMA LoopOfFolds ==
    ASSUME NEW s \in 0..(Wide - 1)
    PROVE  FoldLoop[s] = OnesComplement(s)
<1> DEFINE Loop(f) == f = [x \in 0..(Wide - 1) |->
                             IF High(x) = 0 THEN x ELSE f[Low(x) + High(x)]]
           g == [x \in 0..(Wide - 1) |-> OnesComplement(x)]
<1>1. 2 * Word - 2 <= Wide - 1 /\ Wide \in Nat /\ Word \in Nat /\ Word >= 4
  <2>1. Word * 4 <= Word * Word
    BY Sizes, Product
  <2> QED BY <2>1, Sizes
<1>2. ASSUME NEW x \in 0..(Wide - 1), High(x) = 0
      PROVE  x \in 0..(Word - 1) /\ OnesComplement(x) = x
  <2>1. x = Low(x) /\ Low(x) \in 0..(Word - 1)
    BY <1>2, FoldOnce, Sizes
  <2> QED BY <2>1, SmallOnesComplement
<1>3. Loop(g)
  <2>1. \A x \in 0..(Wide - 1) :
           OnesComplement(x) = IF High(x) = 0 THEN x ELSE g[Low(x) + High(x)]
    BY <1>1, <1>2, FoldKeeps
  <2> QED BY <2>1
<1>4. Loop(FoldLoop)
  <2>1. FoldLoop = CHOOSE f : Loop(f)
    BY DEF FoldLoop
  <2> HIDE DEF Loop, g
  <2> QED BY <1>3, <2>1
<1>5. \A x \in 0..(Wide - 1) :
         FoldLoop[x] = IF High(x) = 0 THEN x ELSE FoldLoop[Low(x) + High(x)]
  BY <1>4
<1>6. ASSUME NEW x \in 0..(Word - 1) PROVE FoldLoop[x] = OnesComplement(x)
  <2>1. High(x) = 0 /\ x \in 0..(Wide - 1)
    BY <1>1, SmallParts
  <2> QED BY <1>5, <2>1, SmallOnesComplement
<1>7. ASSUME NEW x \in 0..(2 * Word - 2) PROVE FoldLoop[x] = OnesComplement(x)
  <2>1. CASE x \in Word..(2 * Word - 2)
    <3>1. High(x) = 1 /\ Low(x) + High(x) \in 0..(Word - 1) /\ x \in 0..(Wide - 1)
      BY <1>1, <2>1, SmallParts
    <3>2. FoldLoop[x] = FoldLoop[Low(x) + High(x)]
      BY <1>5, <3>1
    <3> QED BY <1>6, <3>1, <3>2, FoldKeeps
  <2> QED BY <1>1, <1>6, <2>1
<1>8. CASE High(s) = 0
  BY <1>2, <1>6, <1>8
<1>9. CASE High(s) # 0
  BY <1>5, <1>7, <1>9, FoldKeeps
<1> QED BY <1>8, <1>9

\* Adding the inverted representative gives all ones.
LEMMA Cancels ==
    ASSUME NEW x \in Nat, NEW y \in Nat,
           \/ y = Inverted(OnesComplement(x))
           \/ y = Word - 1 /\ OnesComplement(x) = Word - 1,
           x + y # 0
    PROVE  OnesComplement(x + y) = Word - 1
<1>1. Word \in Nat /\ Word >= 4 /\ Word - 1 \in 1..(Word - 1)
  BY Sizes
<1>2. CASE x = 0
  <2>1. OnesComplement(x) = 0
    BY <1>2 DEF OnesComplement
  <2>2. y = Word - 1
    BY <1>1, <2>1 DEF Inverted
  <2>3. x + y = Word - 1
    BY <1>1, <1>2, <2>2
  <2> QED BY <1>1, <2>3, SmallOnesComplement
<1>3. CASE x # 0
  <2> DEFINE r == OnesComplement(x)
  <2>1. PICK q \in Nat : r \in 1..(Word - 1) /\ x = (Word - 1) * q + r
    BY <1>3, HasRepresentative
  <2>2. y = Inverted(r) \/ (y = Word - 1 /\ r = Word - 1)
    OBVIOUS
  <2> HIDE DEF r
  <2>3. (Word - 1) * q \in Nat /\ (Word - 1) * (q + 1) = (Word - 1) * q + (Word - 1)
    BY <1>1
  <2>4. CASE y = Inverted(r)
    <3>1. x + y \in Nat /\ x + y = (Word - 1) * q + (Word - 1)
      BY <1>1, <2>1, <2>3, <2>4 DEF Inverted
    <3> QED BY <1>1, <3>1, Representative
  <2>5. CASE y = Word - 1 /\ r = Word - 1
    <3>1. x + y \in Nat /\ q + 1 \in Nat /\ x + y = (Word - 1) * (q + 1) + (Word - 1)
      BY <1>1, <2>1, <2>3, <2>5
    <3> QED BY <1>1, <3>1, Representative
  <2> QED BY <2>2, <2>4, <2>5
<1> QED BY <1>2, <1>3

-----------------------------------------------------------------------------
(* The sum of the words.                                                   *)

\* The running sums of w.
IsSum(g, w) == /\ g \in [0..Len(w) -> Nat]
               /\ g[0] = 0
               /\ \A k \in 1..Len(w) : g[k] = g[k - 1] + w[k]

\* The total of w is the last of its running sums.
LEMMA TotalOf ==
    ASSUME NEW w \in Seq(Nat)
    PROVE  \E g : IsSum(g, w) /\ FoldLeft(LAMBDA s, x : s + x, 0, w) = g[Len(w)]
<1>1. \A k \in 1..Len(w) : w[k] \in Nat
  OBVIOUS
<1>2. PICK g : /\ IsRun(g, Len(w), Nat, 0, SumStep(w))
               /\ FoldLeft(LAMBDA s, x : s + x, 0, w) = g[Len(w)]
  BY SumRuns DEF IsEnd
<1>3. ASSUME NEW k \in 1..Len(w) PROVE g[k] = g[k - 1] + w[k]
  <2>1. g[k] = SumStep(w)[<<k, g[k - 1]>>]
    BY <1>2 DEF IsRun
  <2>2. k - 1 \in 0..Len(w)
    OBVIOUS
  <2>4. g \in [0..Len(w) -> Nat]
    BY <1>2 DEF IsRun
  <2>3. g[k - 1] \in Nat
    BY <2>2, <2>4
  <2> QED BY <2>1, <2>3 DEF SumStep
<1> QED BY <1>2, <1>3 DEF IsRun, IsSum

\* The same in an integer of M values.
LEMMA WrappedOf ==
    ASSUME NEW w \in Seq(Nat), NEW M \in Nat \ {0}
    PROVE  \E h \in [0..Len(w) -> Nat] :
              /\ h[0] = 0
              /\ \A k \in 1..Len(w) : h[k] = (h[k - 1] + w[k]) % M
              /\ FoldLeft(LAMBDA s, x : (s + x) % M, 0, w) = h[Len(w)]
<1>1. PICK h : /\ IsRun(h, Len(w), Nat, 0, WrappedStep(w, M))
               /\ FoldLeft(LAMBDA s, x : (s + x) % M, 0, w) = h[Len(w)]
  BY WrappedSumRuns DEF IsEnd
<1>2. ASSUME NEW k \in 1..Len(w) PROVE h[k] = (h[k - 1] + w[k]) % M
  <2>1. h[k] = WrappedStep(w, M)[<<k, h[k - 1]>>]
    BY <1>1 DEF IsRun
  <2>2. k - 1 \in 0..Len(w)
    OBVIOUS
  <2>4. h \in [0..Len(w) -> Nat]
    BY <1>1 DEF IsRun
  <2>3. h[k - 1] \in Nat
    BY <2>2, <2>4
  <2> QED BY <2>1, <2>3 DEF WrappedStep
<1> QED BY <1>1, <1>2 DEF IsRun

\* One more word does not make a sum wrap that is small enough.
LEMMA SumStaysBelow ==
    ASSUME NEW x \in Nat, NEW y \in Nat, NEW B \in Nat, NEW C \in Nat, NEW W \in Nat,
           NEW M \in Nat, x <= B, y <= W - 1, C = B + (W - 1), C < M
    PROVE  x + y <= C /\ x + y < M /\ (x + y) % M = x + y
  OBVIOUS

\* The bound on the sum of k words.
LEMMA Multiples ==
    ASSUME NEW W \in Nat \ {0}, NEW k \in Nat, k <= W
    PROVE  /\ (W - 1) * k \in Nat /\ (W - 1) * W \in Nat
           /\ (W - 1) * k <= (W - 1) * W
           /\ (W - 1) * k = (W - 1) * (k - 1) + (W - 1)
  OBVIOUS

\* At most Word words: their sum does not wrap.
LEMMA NoWrap ==
    ASSUME NEW w \in Seq(WordValues), Len(w) <= Word,
           NEW g, IsSum(g, w),
           NEW h \in [0..Len(w) -> Nat], h[0] = 0,
           \A k \in 1..Len(w) : h[k] = (h[k - 1] + w[k]) % Wide
    PROVE  g[Len(w)] \in 0..(Wide - 1) /\ h[Len(w)] = g[Len(w)]
<1> DEFINE n == Len(w)
           B(k) == (Word - 1) * k
           S == {k \in 0..n : g[k] <= B(k) /\ h[k] = g[k]}
<1>1. n \in Nat /\ n <= Word /\ \A k \in 1..n : w[k] \in Nat /\ w[k] <= Word - 1
  BY Sizes DEF WordValues
<1>2. (Word - 1) * Word \in Nat /\ (Word - 1) * Word < Wide /\ Wide \in Nat
  <2>1. (Word - 1) * Word = Word * Word - Word /\ Word * Word \in Nat
    BY Sizes
  <2> QED BY <2>1, Sizes
<1>3. \A k \in 0..n : B(k) \in Nat /\ B(k) < Wide /\ B(k) = B(k - 1) + (Word - 1)
  <2> SUFFICES ASSUME NEW k \in 0..n
               PROVE  B(k) \in Nat /\ B(k) < Wide /\ B(k) = B(k - 1) + (Word - 1)
    OBVIOUS
  <2>1. k \in Nat /\ k <= Word /\ Word \in Nat \ {0}
    BY <1>1, Sizes
  <2>2. /\ (Word - 1) * k \in Nat /\ (Word - 1) * k <= (Word - 1) * Word
        /\ (Word - 1) * k = (Word - 1) * (k - 1) + (Word - 1)
    BY <2>1, Multiples
  <2> HIDE DEF n
  <2> QED BY <1>2, <2>2
<1>4. B(0) = 0
  BY Sizes
<1> HIDE DEF B
<1>5. g[0] = 0 /\ \A k \in 0..n : g[k] \in Nat
  BY DEF IsSum
<1>6. \A k \in 1..n : g[k] = g[k - 1] + w[k] /\ h[k] = (h[k - 1] + w[k]) % Wide
  BY DEF IsSum
<1> HIDE DEF n
<1>7. 0 \in S
  BY <1>1, <1>4, <1>5
<1>8. ASSUME NEW k \in 1..n, k - 1 \in S PROVE k \in S
  <2>1. k - 1 \in 0..n /\ k \in 0..n /\ g[k - 1] <= B(k - 1) /\ h[k - 1] = g[k - 1]
    BY <1>1, <1>8
  <2> HIDE DEF S
  <2>2. g[k - 1] \in Nat /\ w[k] \in Nat /\ w[k] <= Word - 1
    BY <1>1, <1>5, <2>1
  <2>3. B(k) \in Nat /\ B(k) < Wide /\ B(k - 1) \in Nat /\ B(k) = B(k - 1) + (Word - 1)
    BY <1>3, <2>1
  <2>4. g[k - 1] + w[k] <= B(k) /\ (g[k - 1] + w[k]) % Wide = g[k - 1] + w[k]
    <3> DEFINE x == g[k - 1]
               y == w[k]
               C == B(k)
               D == B(k - 1)
    <3>1. /\ x \in Nat /\ y \in Nat /\ D \in Nat /\ C \in Nat /\ Word \in Nat /\ Wide \in Nat
          /\ x <= D /\ y <= Word - 1 /\ C = D + (Word - 1) /\ C < Wide
      BY <1>2, <2>1, <2>2, <2>3, Sizes
    <3> HIDE DEF x, y, C, D
    <3>2. x + y <= C /\ (x + y) % Wide = x + y
      BY <3>1, SumStaysBelow
    <3> QED BY <3>2 DEF x, y, C
  <2>5. g[k] = g[k - 1] + w[k] /\ h[k] = (g[k - 1] + w[k]) % Wide
    BY <1>6, <2>1
  <2> QED BY <2>1, <2>4, <2>5 DEF S
<1>9. n \in S
  <2> HIDE DEF S
  <2>1. \A k \in 0..n : k \in S
    BY <1>1, <1>7, <1>8, UpTo
  <2> QED BY <1>1, <2>1
<1>10. g[n] <= B(n) /\ h[n] = g[n]
  BY <1>9
<1>11. n \in 0..n
  BY <1>1
<1> QED BY <1>2, <1>3, <1>5, <1>10, <1>11 DEF n

\* A sum of at most Word words does not wrap.
LEMMA SumIsTotal ==
    ASSUME NEW b \in Seq(Octets), Len(b) <= 2 * Word
    PROVE  Total(b) \in 0..(Wide - 1) /\ Sum32(b) = Total(b)
<1> DEFINE w == Words(b)
<1>1. w \in Seq(WordValues) /\ Len(w) <= Word
  <2>1. w \in Seq(WordValues) /\ Len(w) = (Len(b) + 1) \div 2
    BY WordsType
  <2>2. (Len(b) + 1) \div 2 \in Nat /\ (Len(b) + 1) \div 2 <= Word
    BY Sizes
  <2> HIDE DEF w
  <2> QED BY <2>1, <2>2
<1> HIDE DEF w
<1>2. w \in Seq(Nat)
  <2>1. WordValues \subseteq Nat
    BY Sizes DEF WordValues
  <2> QED BY <1>1, <2>1, SeqMonotonic
<1>3. PICK g : IsSum(g, w) /\ FoldLeft(LAMBDA s, x : s + x, 0, w) = g[Len(w)]
  BY <1>2, TotalOf
<1>4. Wide \in Nat \ {0}
  <2>1. Word * 1 <= Word * Word
    BY Sizes, Product
  <2> QED BY <2>1, Sizes
<1>5. PICK h \in [0..Len(w) -> Nat] :
              /\ h[0] = 0
              /\ \A k \in 1..Len(w) : h[k] = (h[k - 1] + w[k]) % Wide
              /\ FoldLeft(LAMBDA s, x : (s + x) % Wide, 0, w) = h[Len(w)]
  BY <1>2, <1>4, WrappedOf
<1>6. g[Len(w)] \in 0..(Wide - 1) /\ h[Len(w)] = g[Len(w)]
  BY <1>1, <1>3, <1>5, NoWrap
<1> QED BY <1>3, <1>5, <1>6 DEF Total, Sum32, w

-----------------------------------------------------------------------------
(* The words of a forged datagram.                                         *)

\* A word is made of its two bytes.
LEMMA BytesOf ==
    ASSUME NEW x \in WordValues
    PROVE  /\ x % Byte \in Octets /\ x \div Byte \in Octets
           /\ x = (x % Byte) + Byte * (x \div Byte)
<1>1. x \in Nat /\ Byte \in Nat \ {0} /\ x < Byte * Byte
  BY Sizes DEF WordValues, Word
<1> DEFINE q == x \div Byte
           r == x % Byte
<1>2. q \in Nat /\ r \in 0..(Byte - 1) /\ x = Byte * q + r
  BY <1>1, Division
<1> HIDE DEF q, r
<1>3. Byte * q \in Nat
  BY <1>1, <1>2
<1>4. q < Byte
  <2>1. SUFFICES ASSUME Byte <= q PROVE FALSE
    BY <1>1, <1>2
  <2>2. Byte * Byte <= Byte * q
    BY <2>1, <1>1, <1>2, Product
  <2>3. Byte * Byte \in Nat
    BY <1>1
  <2> QED BY <1>1, <1>2, <1>3, <2>2, <2>3
<1>5. q \in Octets /\ r \in Octets /\ x = r + Byte * q
  BY <1>1, <1>2, <1>3, <1>4 DEF Octets
<1> QED BY <1>5 DEF q, r

\* The word i of b.
WordAt(b, i) == b[2 * i - 1] + (IF 2 * i <= Len(b) THEN Byte * b[2 * i] ELSE 0)

\* Words, place by place.
LEMMA WordsAre ==
    ASSUME NEW b \in Seq(Octets)
    PROVE  \A i \in 1..((Len(b) + 1) \div 2) : Words(b)[i] = WordAt(b, i)
  BY DEF Words, WordAt

\* What the checksum covers: two words, then the payload.
LEMMA CoveredIs ==
    ASSUME NEW p \in WordValues, NEW f \in WordValues, NEW payload \in Seq(Octets)
    PROVE  /\ Covered(p, f, payload) \in Seq(Octets)
           /\ Len(Covered(p, f, payload)) = Len(payload) + 4
           /\ Covered(p, f, payload)[1] = p % Byte
           /\ Covered(p, f, payload)[2] = p \div Byte
           /\ Covered(p, f, payload)[3] = f % Byte
           /\ Covered(p, f, payload)[4] = f \div Byte
           /\ \A i \in 1..Len(payload) : Covered(p, f, payload)[i + 4] = payload[i]
<1> DEFINE a == Bytes(p)
           b == Bytes(f)
           c == Covered(p, f, payload)
<1>1. /\ a \in Seq(Octets) /\ Len(a) = 2 /\ a[1] = p % Byte /\ a[2] = p \div Byte
      /\ b \in Seq(Octets) /\ Len(b) = 2 /\ b[1] = f % Byte /\ b[2] = f \div Byte
  BY BytesOf DEF Bytes
<1>2. c = (a \o b) \o payload
  BY DEF Covered
<1> HIDE DEF a, b, c
<1>3. /\ a \o b \in Seq(Octets) /\ Len(a \o b) = 4
      /\ (a \o b)[1] = a[1] /\ (a \o b)[2] = a[2] /\ (a \o b)[3] = b[1] /\ (a \o b)[4] = b[2]
  <2>1. /\ a \o b \in Seq(Octets) /\ Len(a \o b) = Len(a) + Len(b)
        /\ \A i \in 1..(Len(a) + Len(b)) :
              (a \o b)[i] = IF i <= Len(a) THEN a[i] ELSE b[i - Len(a)]
    BY <1>1, ConcatProperties, Zenon
  <2> HIDE DEF Octets
  <2> QED BY <1>1, <2>1
<1> DEFINE d == a \o b
<1> HIDE DEF d
<1>4. /\ d \in Seq(Octets) /\ Len(d) = 4 /\ c = d \o payload
      /\ d[1] = p % Byte /\ d[2] = p \div Byte /\ d[3] = f % Byte /\ d[4] = f \div Byte
  BY <1>1, <1>2, <1>3 DEF d
<1>5. c \in Seq(Octets) /\ Len(c) = Len(payload) + 4
  <2>1. d \o payload \in Seq(Octets) /\ Len(d \o payload) = Len(d) + Len(payload)
    BY <1>4, ConcatProperties, Zenon
  <2>2. Len(payload) \in Nat
    OBVIOUS
  <2> QED BY <1>4, <2>1, <2>2
<1>6. /\ c[1] = d[1] /\ c[2] = d[2] /\ c[3] = d[3] /\ c[4] = d[4]
      /\ \A i \in 1..Len(payload) : c[i + 4] = payload[i]
  <2>1. \A i \in 1..(Len(d) + Len(payload)) :
           c[i] = IF i <= Len(d) THEN d[i] ELSE payload[i - Len(d)]
    BY <1>4, ConcatProperties, Zenon
  <2>2. Len(payload) \in Nat
    OBVIOUS
  <2>3. ASSUME NEW i \in 1..Len(payload) PROVE c[i + 4] = payload[i]
    <3>1. i + 4 \in 1..(Len(d) + Len(payload)) /\ ~(i + 4 <= Len(d)) /\ (i + 4) - Len(d) = i
      BY <1>4, <2>2
    <3> QED BY <2>1, <3>1
  <2>4. c[1] = d[1] /\ c[2] = d[2] /\ c[3] = d[3] /\ c[4] = d[4]
    BY <1>4, <2>1, <2>2
  <2> QED BY <2>3, <2>4
<1> QED BY <1>4, <1>5, <1>6 DEF c

\* Four more bytes are two more words.
LEMMA HalfOfMore ==
    ASSUME NEW n \in Nat
    PROVE  ((n + 4) + 1) \div 2 = ((n + 1) \div 2) + 2
  OBVIOUS

\* The words of what the checksum covers.
LEMMA CoveredWords ==
    ASSUME NEW p \in WordValues, NEW f \in WordValues, NEW payload \in Seq(Octets)
    PROVE  LET w == Words(Covered(p, f, payload)) IN
           /\ Len(w) = Len(Words(payload)) + 2
           /\ w[1] = p /\ w[2] = f
           /\ \A k \in 1..Len(Words(payload)) : w[k + 2] = Words(payload)[k]
<1> DEFINE c == Covered(p, f, payload)
           n == Len(payload)
           m == (n + 1) \div 2
<1>1. /\ c \in Seq(Octets) /\ Len(c) = n + 4
      /\ c[1] = p % Byte /\ c[2] = p \div Byte /\ c[3] = f % Byte /\ c[4] = f \div Byte
      /\ \A i \in 1..n : c[i + 4] = payload[i]
  BY CoveredIs
<1>2. /\ n \in Nat /\ m \in Nat /\ 2 * m <= n + 1
      /\ Len(Words(payload)) = m /\ Len(Words(c)) = (Len(c) + 1) \div 2
  <2>1. n \in Nat /\ m \in Nat /\ 2 * m <= n + 1
    OBVIOUS
  <2> HIDE DEF c
  <2> QED BY <1>1, <2>1, WordsType
<1> HIDE DEF c
<1>3. (Len(c) + 1) \div 2 = m + 2
  BY <1>1, <1>2, HalfOfMore
<1> HIDE DEF n, m
<1>4. \A i \in 1..(m + 2) : Words(c)[i] = WordAt(c, i)
  BY <1>1, <1>3, WordsAre
<1>5. WordAt(c, 1) = p
  <2>1. WordAt(c, 1) = c[1] + Byte * c[2]
    BY <1>1, <1>2 DEF WordAt
  <2> QED BY <1>1, <2>1, BytesOf
<1>6. WordAt(c, 2) = f
  <2>1. WordAt(c, 2) = c[3] + Byte * c[4]
    BY <1>1, <1>2 DEF WordAt
  <2> QED BY <1>1, <2>1, BytesOf
<1>7. ASSUME NEW k \in 1..m PROVE WordAt(c, k + 2) = Words(payload)[k]
  <2>1. Words(payload)[k] = WordAt(payload, k)
    BY WordsAre DEF n, m
  <2>2. 2 * k - 1 \in 1..n /\ 2 * (k + 2) - 1 = (2 * k - 1) + 4
    BY <1>2
  <2>3. 2 * (k + 2) = 2 * k + 4 /\ (2 * (k + 2) <= n + 4 <=> 2 * k <= n)
    BY <1>2
  <2>4. c[2 * (k + 2) - 1] = payload[2 * k - 1]
    BY <1>1, <2>2
  <2>5. 2 * k <= n => c[2 * (k + 2)] = payload[2 * k]
    BY <1>1, <1>2, <2>3
  <2>6. Len(c) = n + 4 /\ Len(payload) = n
    BY <1>1 DEF n
  <2> QED BY <2>1, <2>3, <2>4, <2>5, <2>6 DEF WordAt
<1>8. /\ Len(Words(c)) = m + 2 /\ Words(c)[1] = p /\ Words(c)[2] = f
      /\ \A k \in 1..m : Words(c)[k + 2] = Words(payload)[k]
  BY <1>2, <1>3, <1>4, <1>5, <1>6, <1>7
<1> QED BY <1>2, <1>8 DEF c

\* IsSum, unfolded.
LEMMA SumOf ==
    ASSUME NEW w \in Seq(Nat), NEW g, IsSum(g, w)
    PROVE  /\ Len(w) \in Nat /\ g[0] = 0
           /\ \A k \in 0..Len(w) : g[k] \in Nat
           /\ \A k \in 1..Len(w) : w[k] \in Nat /\ g[k] = g[k - 1] + w[k]
<1>1. Len(w) \in Nat /\ \A k \in 1..Len(w) : w[k] \in Nat
  OBVIOUS
<1> QED BY <1>1 DEF IsSum

\* The total of what is covered.
LEMMA CoveredTotal ==
    ASSUME NEW p \in WordValues, NEW f \in WordValues, NEW payload \in Seq(Octets)
    PROVE  /\ Total(payload) \in Nat
           /\ Total(Covered(p, f, payload)) = (p + f) + Total(payload)
<1> DEFINE c == Covered(p, f, payload)
           w == Words(c)
           v == Words(payload)
<1>1. w \in Seq(Nat) /\ v \in Seq(Nat)
  <2>1. w \in Seq(WordValues) /\ v \in Seq(WordValues)
    BY CoveredIs, WordsType
  <2>2. WordValues \subseteq Nat
    BY Sizes DEF WordValues
  <2> HIDE DEF w, v
  <2> QED BY <2>1, <2>2, SeqMonotonic
<1>2. /\ Len(w) = Len(v) + 2 /\ w[1] = p /\ w[2] = f
      /\ \A k \in 1..Len(v) : w[k + 2] = v[k]
  BY CoveredWords
<1>3. p \in Nat /\ f \in Nat
  BY Sizes DEF WordValues
<1> HIDE DEF w, v
<1>4. PICK g : IsSum(g, w) /\ FoldLeft(LAMBDA s, x : s + x, 0, w) = g[Len(w)]
  BY <1>1, TotalOf
<1>5. PICK h : IsSum(h, v) /\ FoldLeft(LAMBDA s, x : s + x, 0, v) = h[Len(v)]
  BY <1>1, TotalOf
<1> DEFINE n == Len(v)
           S == {k \in 0..n : g[k + 2] = (p + f) + h[k]}
<1>6. n \in Nat
  BY <1>1
<1>7. 0 \in S
  <2>1. /\ g[0] = 0 /\ h[0] = 0
        /\ \A k \in 1..Len(w) : g[k] = g[k - 1] + w[k]
    BY <1>1, <1>4, <1>5, SumOf
  <2>2. 1 \in 1..Len(w) /\ 2 \in 1..Len(w)
    BY <1>2, <1>6
  <2>3. g[1] = g[0] + p /\ g[2] = g[1] + f
    BY <1>2, <2>1, <2>2
  <2> QED BY <1>3, <1>6, <2>1, <2>3
<1>8. ASSUME NEW k \in 1..n, k - 1 \in S PROVE k \in S
  <2>1. g[k + 1] = (p + f) + h[k - 1]
    BY <1>6, <1>8
  <2>2. h[k] = h[k - 1] + v[k] /\ h[k - 1] \in Nat /\ v[k] \in Nat
    <3>1. /\ \A i \in 0..Len(v) : h[i] \in Nat
          /\ \A i \in 1..Len(v) : v[i] \in Nat /\ h[i] = h[i - 1] + v[i]
      BY <1>1, <1>5, SumOf
    <3>2. k - 1 \in 0..Len(v) /\ k \in 1..Len(v)
      BY <1>6
    <3> QED BY <3>1, <3>2
  <2>3. k + 2 \in 1..Len(w) /\ (k + 2) - 1 = k + 1
    BY <1>2, <1>6
  <2>4. g[k + 2] = g[k + 1] + v[k]
    BY <1>2, <1>4, <2>3 DEF IsSum
  <2> QED BY <1>3, <1>6, <2>1, <2>2, <2>4
<1>9. n \in S
  <2> HIDE DEF S, n
  <2>1. \A k \in 0..n : k \in S
    BY <1>6, <1>7, <1>8, UpTo
  <2> QED BY <1>6, <2>1
<1>10. g[Len(w)] = (p + f) + h[Len(v)]
  BY <1>2, <1>9
<1>11. h[Len(v)] \in Nat
  <2>1. Len(v) \in Nat /\ \A k \in 0..Len(v) : h[k] \in Nat
    BY <1>1, <1>5, SumOf
  <2> QED BY <2>1
<1>12. Total(c) = g[Len(w)] /\ Total(payload) = h[Len(v)]
  BY <1>4, <1>5 DEF Total, w, v
<1> QED BY <1>10, <1>11, <1>12

-----------------------------------------------------------------------------
(* The checksums are correct.                                              *)

\* net.c l.20-22 and checksum.c l.17-20: both programs compute the one's
\* complement sum of every datagram that fits.
LEMMA ChecksumsAgree ==
    ASSUME NEW b \in Seq(Octets), Len(b) <= 2 * Word
    PROVE  ChecksumCorrect(b)
<1>1. Total(b) \in 0..(Wide - 1) /\ Sum32(b) = Total(b)
  BY SumIsTotal
<1>2. FoldTwice(Sum32(b)) = Reference(b) /\ FoldLoop[Sum32(b)] = Reference(b)
  BY <1>1, TwoFolds, LoopOfFolds DEF Reference
<1> QED BY <1>2 DEF ChecksumCorrect, checksum, ip_checksum

\* net.c l.69-70, network_core.c l.41: the datagrams of both are accepted.
LEMMA FieldsAreAccepted ==
    ASSUME NEW p \in WordValues, NEW payload \in Seq(Octets), Len(payload) + 4 <= 2 * Word
    PROVE  NetDatagramChecked(p, payload) /\ ForgeDatagramAccepted(p, payload)
<1> DEFINE x == p + Total(payload)
           u == Inverted(OnesComplement(x))
<1>1. 0 \in WordValues /\ Word \in Nat /\ Word >= 4 /\ WordValues \subseteq Nat
  BY Sizes DEF WordValues
<1>2. /\ Total(payload) \in Nat
      /\ \A f \in WordValues : Total(Covered(p, f, payload)) = (p + f) + Total(payload)
  BY <1>1, CoveredTotal
<1>3. p \in Nat /\ x \in Nat
  BY <1>1, <1>2
<1>4. ChecksumCorrect(Covered(p, 0, payload))
        /\ Reference(Covered(p, 0, payload)) = OnesComplement(x)
  <2>1. Covered(p, 0, payload) \in Seq(Octets) /\ Len(Covered(p, 0, payload)) <= 2 * Word
    BY <1>1, CoveredIs
  <2>2. ChecksumCorrect(Covered(p, 0, payload))
    BY <2>1, ChecksumsAgree
  <2>3. Total(Covered(p, 0, payload)) = x
    BY <1>1, <1>2, <1>3
  <2> QED BY <2>2, <2>3 DEF Reference
<1>5. \A f \in WordValues : Reference(Covered(p, f, payload)) = OnesComplement(x + f)
  <2> SUFFICES ASSUME NEW f \in WordValues
               PROVE  Reference(Covered(p, f, payload)) = OnesComplement(x + f)
    OBVIOUS
  <2>1. Total(Covered(p, f, payload)) = x + f
    BY <1>1, <1>2, <1>3
  <2> QED BY <2>1 DEF Reference
<1> HIDE DEF x
<1>6. OnesComplement(x) \in 0..(Word - 1)
  BY <1>3, OnesComplementType
<1>7. u \in WordValues /\ Word - 1 \in WordValues /\ (u = 0 => OnesComplement(x) = Word - 1)
  BY <1>1, <1>6 DEF Inverted, WordValues
<1>8. /\ NetField(p, payload) = (IF u = 0 THEN Word - 1 ELSE u)
      /\ ForgeField(TRUE, p, payload) = u /\ ForgeField(FALSE, p, payload) = 0
  BY <1>4 DEF NetField, ForgeField, ChecksumCorrect
<1>9. u # 0 => OnesComplement(x + u) = Word - 1
  <2>1. u \in Nat /\ (u # 0 => x + u # 0)
    <3> HIDE DEF u
    <3> QED BY <1>1, <1>3, <1>7
  <2> QED BY <1>3, <2>1, Cancels
<1>10. u = 0 => OnesComplement(x + (Word - 1)) = Word - 1
  <2>1. Word - 1 \in Nat /\ x + (Word - 1) # 0
    BY <1>1, <1>3
  <2> QED BY <1>3, <1>7, <2>1, Cancels
<1> HIDE DEF u
<1>11. NetDatagramChecked(p, payload)
  BY <1>1, <1>5, <1>7, <1>8, <1>9, <1>10 DEF NetDatagramChecked, Accepted
<1>12. Accepted(p, u, payload) /\ Accepted(p, 0, payload)
  BY <1>1, <1>5, <1>7, <1>9 DEF Accepted
<1>13. ForgeDatagramAccepted(p, payload)
  <2> SUFFICES ASSUME NEW memory \in BOOLEAN
               PROVE  /\ Accepted(p, ForgeField(memory, p, payload), payload)
                      /\ ~memory => ForgeField(memory, p, payload) = 0
                                      /\ NetField(p, payload) # 0
                      /\ memory => IF ForgeField(memory, p, payload) = 0
                                   THEN NetField(p, payload) = Word - 1
                                   ELSE NetField(p, payload) = ForgeField(memory, p, payload)
    BY DEF ForgeDatagramAccepted
  <2>1. CASE memory = TRUE
    BY <1>8, <1>12, <2>1
  <2>2. CASE memory = FALSE
    BY <1>8, <1>11, <1>12, <2>2 DEF NetDatagramChecked
  <2> QED BY <2>1, <2>2
<1> QED BY <1>11, <1>13

-----------------------------------------------------------------------------
(* Rankings: an exchange and a pass.                                       *)

PassStep(before, n, S, i) ==
    [p \in (1..(n - i)) \X [1..n -> S] |-> Exchange(before, p[2], i, i + p[1])]

\* An exchange yields a list as long.
LEMMA ExchangeType ==
    ASSUME NEW n \in Nat, NEW S, NEW before, NEW u \in [1..n -> S], NEW i \in 1..n,
           NEW j \in 1..n
    PROVE  Exchange(before, u, i, j) \in [1..n -> S]
  BY DEF Exchange

\* A pass, by its running lists.
LEMMA PassRuns ==
    ASSUME NEW n \in Nat, NEW S, NEW before, NEW t \in [1..n -> S], NEW i \in 1..n
    PROVE  IsEnd(Pass(before, t, i), n - i, [1..n -> S], t, PassStep(before, n, S, i))
<1> DEFINE m == n - i
           V == [1..n -> S]
           step == PassStep(before, n, S, i)
           places == [k \in 1..(Len(t) - i) |-> i + k]
           Iter(f) == f = [s \in SUBSET DOMAIN places |->
                             IF s = {} THEN t
                             ELSE LET x == Max(s) IN Exchange(before, f[s \ {x}], i, places[x])]
           iter == CHOOSE f : Iter(f)
<1>1. m \in Nat /\ DOMAIN places = 1..m /\ \A k \in 1..m : places[k] = i + k /\ i + k \in 1..n
  OBVIOUS
<1>2. t \in V /\ step \in [(1..m) \X V -> V]
  <2>1. \A k \in 1..m, u \in V : Exchange(before, u, i, i + k) \in V
    BY <1>1, ExchangeType
  <2> QED BY <2>1 DEF PassStep
<1> HIDE DEF m
<1>3. \A s \in SUBSET (1..m) : s # {} => Max(s) \in 1..m
  BY <1>1, MaxInRange
<1>4. PICK h \in [SUBSET (1..m) -> V] : IsFold(h, m, t, step)
  <2> HIDE DEF V, step
  <2> QED BY <1>1, <1>2, FoldExists, Zenon
<1>5. Iter(h)
  <2> HIDE DEF places
  <2>1. ASSUME NEW s \in SUBSET (1..m), s # {}
        PROVE  h[s] = Exchange(before, h[s \ {Max(s)}], i, places[Max(s)])
    <3>1. h[s] = step[<<Max(s), h[s \ {Max(s)}]>>]
      BY <1>4, <2>1 DEF IsFold
    <3>2. Max(s) \in 1..m /\ h[s \ {Max(s)}] \in V
      BY <1>3, <2>1
    <3> QED BY <1>1, <3>1, <3>2 DEF PassStep, m
  <2>2. h[{}] = t
    BY <1>4 DEF IsFold
  <2> QED BY <1>1, <2>1, <2>2
<1>6. Iter(iter)
  <2> HIDE DEF Iter
  <2> QED BY <1>5
<1>7. Pass(before, t, i) = iter[1..m]
  BY <1>1 DEF Pass, FoldLeft, MapThenFoldSet
<1> HIDE DEF iter, places
<1>8. Steps(iter, m, V, t, step)
  <2>1. iter[{}] = t
    BY <1>6
  <2>2. ASSUME NEW k \in 1..m, iter[1..(k - 1)] \in V
        PROVE  iter[1..k] = step[<<k, iter[1..(k - 1)]>>]
    <3>1. /\ 1..k \in SUBSET (1..m) /\ 1..k # {}
          /\ Max(1..k) = k /\ (1..k) \ {Max(1..k)} = 1..(k - 1)
      BY <1>1, Intervals
    <3>2. iter[1..k] = Exchange(before, iter[1..(k - 1)], i, places[k])
      BY <1>1, <1>6, <3>1
    <3> QED BY <1>1, <2>2, <3>2 DEF PassStep, m
  <2> QED BY <2>1, <2>2 DEF Steps
<1>9. IsEnd(iter[1..m], m, V, t, step)
  <2> HIDE DEF V, step, Iter
  <2> QED BY <1>1, <1>2, <1>8, RunningValues
<1> QED BY <1>7, <1>9 DEF m

-----------------------------------------------------------------------------
(* What a pass does to the order.                                          *)

\* before is a strict partial order of S.
IsOrder(before, S) ==
    /\ \A a, b \in S : <<a, b>> \in before => <<b, a>> \notin before
    /\ \A a, b, c \in S : <<a, b>> \in before /\ <<b, c>> \in before => <<a, c>> \in before

\* u is t rearranged by q.
Rearranged(u, t, q, n) == /\ q \in Bijection(1..n, 1..n)
                          /\ u = [a \in 1..n |-> t[q[a]]]

\* A list is a rearrangement of itself.
LEMMA Identity ==
    ASSUME NEW n \in Nat, NEW S, NEW t \in [1..n -> S]
    PROVE  Rearranged(t, t, [a \in 1..n |-> a], n)
<1>1. [a \in 1..n |-> a] \in Bijection(1..n, 1..n)
  BY Fun_IsBij
<1> QED BY <1>1 DEF Rearranged

\* Exchanging two entries of a rearrangement yields a rearrangement.
LEMMA Swap ==
    ASSUME NEW n \in Nat, NEW S, NEW t \in [1..n -> S], NEW u \in [1..n -> S],
           NEW q, Rearranged(u, t, q, n), NEW i \in 1..n, NEW j \in 1..n, i # j
    PROVE  Rearranged([u EXCEPT ![i] = u[j], ![j] = u[i]], t,
                      [q EXCEPT ![i] = q[j], ![j] = q[i]], n)
<1> DEFINE v == [u EXCEPT ![i] = u[j], ![j] = u[i]]
           r == [q EXCEPT ![i] = q[j], ![j] = q[i]]
<1>1. /\ q \in [1..n -> 1..n]
      /\ \A a, b \in 1..n : q[a] = q[b] => a = b
      /\ \A b \in 1..n : \E a \in 1..n : q[a] = b
  <2>1. q \in Bijection(1..n, 1..n)
    BY DEF Rearranged
  <2> QED BY <2>1 DEF Bijection, Injection, Surjection, IsInjective
<1>2. r \in [1..n -> 1..n]
  BY <1>1
<1>3. \A a, b \in 1..n : r[a] = r[b] => a = b
  <2>1. \A a \in 1..n : r[a] = IF a = j THEN q[i] ELSE IF a = i THEN q[j] ELSE q[a]
    BY <1>1
  <2> HIDE DEF r
  <2> QED BY <1>1, <2>1, ZenonT(60)
<1>4. \A b \in 1..n : \E a \in 1..n : r[a] = b
  <2> SUFFICES ASSUME NEW b \in 1..n PROVE \E a \in 1..n : r[a] = b
    OBVIOUS
  <2>1. PICK a \in 1..n : q[a] = b
    BY <1>1
  <2>2. CASE a = i
    <3>1. r[j] = b
      BY <1>1, <2>1, <2>2
    <3> QED BY <3>1
  <2>3. CASE a = j
    <3>1. r[i] = b
      BY <1>1, <2>1, <2>3
    <3> QED BY <3>1
  <2>4. CASE a # i /\ a # j
    <3>1. r[a] = b
      BY <1>1, <2>1, <2>4
    <3> QED BY <3>1
  <2> QED BY <2>2, <2>3, <2>4
<1>5. r \in Bijection(1..n, 1..n)
  <2> HIDE DEF r
  <2> QED BY <1>2, <1>3, <1>4, Fun_IsBij
<1>6. v = [a \in 1..n |-> t[r[a]]]
  BY <1>1 DEF Rearranged
<1> QED BY <1>5, <1>6 DEF Rearranged

\* A rearrangement of a rearrangement is one.
LEMMA RearrangedTwice ==
    ASSUME NEW n \in Nat, NEW S, NEW s \in [1..n -> S],
           NEW t, NEW q, Rearranged(t, s, q, n), NEW u, NEW r, Rearranged(u, t, r, n)
    PROVE  Rearranged(u, s, [a \in 1..n |-> q[r[a]]], n)
<1>1. q \in Bijection(1..n, 1..n) /\ r \in Bijection(1..n, 1..n)
  BY DEF Rearranged
<1>2. [a \in 1..n |-> q[r[a]]] \in Bijection(1..n, 1..n)
  BY <1>1, Fun_BijTransitive, ZenonT(60)
<1>3. r \in [1..n -> 1..n]
  BY <1>1, Fun_BijectionProperties
<1>4. t = [a \in 1..n |-> s[q[a]]] /\ u = [a \in 1..n |-> t[r[a]]]
  BY DEF Rearranged
<1>5. u = [a \in 1..n |-> s[q[r[a]]]]
  BY <1>3, <1>4
<1> QED BY <1>2, <1>5 DEF Rearranged

\* What the first turns of pass i have done, up to that with entry k.
Passed(u, t, before, n, i, k) ==
    /\ \E q : Rearranged(u, t, q, n) /\ \A a \in 1..(i - 1) : q[a] = a
    /\ \A j \in (i + 1)..k : <<u[j], u[i]>> \notin before

\* One exchange of a pass: no entry up to k belongs before that of place i.
LEMMA OneExchange ==
    ASSUME NEW n \in Nat, NEW S, NEW before, IsOrder(before, S),
           NEW t \in [1..n -> S], NEW u \in [1..n -> S], NEW i \in 1..n, NEW k \in (i + 1)..n,
           Passed(u, t, before, n, i, k - 1)
    PROVE  Passed(Exchange(before, u, i, k), t, before, n, i, k)
<1>1. PICK q : Rearranged(u, t, q, n) /\ \A a \in 1..(i - 1) : q[a] = a
  BY DEF Passed
<1>2. \A j \in (i + 1)..(k - 1) : <<u[j], u[i]>> \notin before
  BY DEF Passed
<1>3. CASE <<u[k], u[i]>> \in before
  <2> DEFINE v == [u EXCEPT ![i] = u[k], ![k] = u[i]]
             r == [q EXCEPT ![i] = q[k], ![k] = q[i]]
  <2>1. Exchange(before, u, i, k) = v
    BY <1>3 DEF Exchange
  <2>2. Rearranged(v, t, r, n)
    <3>1. i # k /\ k \in 1..n
      OBVIOUS
    <3> QED BY <1>1, <3>1, Swap, Zenon
  <2>3. q \in [1..n -> 1..n]
    BY <1>1, Fun_BijectionProperties DEF Rearranged
  <2>4. \A a \in 1..(i - 1) : r[a] = a
    <3> SUFFICES ASSUME NEW a \in 1..(i - 1) PROVE r[a] = a
      OBVIOUS
    <3>1. a \in 1..n /\ a # i /\ a # k /\ q[a] = a
      BY <1>1
    <3> QED BY <2>3, <3>1
  <2>5. ASSUME NEW j \in (i + 1)..k PROVE <<v[j], v[i]>> \notin before
    <3>1. v[i] = u[k] /\ v[k] = u[i] /\ u[i] \in S /\ u[k] \in S
      OBVIOUS
    <3>2. CASE j = k
      BY <1>3, <3>1, <3>2 DEF IsOrder
    <3>3. CASE j # k
      <4>1. j \in (i + 1)..(k - 1) /\ j \in 1..n /\ v[j] = u[j] /\ u[j] \in S
        BY <3>3
      <4>2. <<u[j], u[i]>> \notin before
        BY <1>2, <4>1
      <4> QED BY <1>3, <3>1, <4>1, <4>2 DEF IsOrder
    <3> QED BY <3>2, <3>3
  <2> HIDE DEF v, r
  <2> QED BY <2>1, <2>2, <2>4, <2>5 DEF Passed
<1>4. CASE <<u[k], u[i]>> \notin before
  <2>1. Exchange(before, u, i, k) = u
    BY <1>4 DEF Exchange
  <2>2. ASSUME NEW j \in (i + 1)..k PROVE <<u[j], u[i]>> \notin before
    BY <1>2, <1>4
  <2> QED BY <1>1, <2>1, <2>2 DEF Passed
<1> QED BY <1>3, <1>4

\* A whole pass: no later entry belongs before that of place i.
LEMMA PassDoes ==
    ASSUME NEW n \in Nat, NEW S, NEW before, IsOrder(before, S),
           NEW t \in [1..n -> S], NEW i \in 1..n
    PROVE  /\ Pass(before, t, i) \in [1..n -> S]
           /\ Passed(Pass(before, t, i), t, before, n, i, n)
<1> DEFINE V == [1..n -> S]
           m == n - i
<1>1. PICK g : IsRun(g, m, V, t, PassStep(before, n, S, i)) /\ Pass(before, t, i) = g[m]
  BY PassRuns DEF IsEnd
<1>2. m \in Nat /\ g \in [0..m -> V] /\ g[0] = t
  BY <1>1 DEF IsRun
<1>3. ASSUME NEW k \in 1..m PROVE g[k - 1] \in V /\ g[k] = Exchange(before, g[k - 1], i, i + k)
  <2>1. g[k] = PassStep(before, n, S, i)[<<k, g[k - 1]>>]
    BY <1>1 DEF IsRun
  <2>2. k - 1 \in 0..m
    OBVIOUS
  <2>3. g[k - 1] \in V
    BY <1>2, <2>2
  <2> QED BY <2>1, <2>3 DEF PassStep
<1> DEFINE T == {k \in 0..m : Passed(g[k], t, before, n, i, i + k)}
<1>4. 0 \in T
  <2>1. Rearranged(t, t, [a \in 1..n |-> a], n)
    BY Identity
  <2>2. \A a \in 1..(i - 1) : [b \in 1..n |-> b][a] = a
    OBVIOUS
  <2>3. (i + 1)..(i + 0) = {}
    OBVIOUS
  <2> QED BY <1>2, <2>1, <2>2, <2>3 DEF Passed
<1>5. ASSUME NEW k \in 1..m, k - 1 \in T PROVE k \in T
  <2>1. Passed(g[k - 1], t, before, n, i, i + (k - 1))
    BY <1>5
  <2>2. Passed(g[k], t, before, n, i, i + k)
    <3>1. g[k - 1] \in [1..n -> S] /\ g[k] = Exchange(before, g[k - 1], i, i + k)
      BY <1>3
    <3>2. i + k \in (i + 1)..n /\ i + (k - 1) = (i + k) - 1
      OBVIOUS
    <3> HIDE DEF T, m
    <3> QED BY <2>1, <3>1, <3>2, OneExchange, ZenonT(60)
  <2> QED BY <2>2
<1>6. \A k \in 0..m : k \in T
  <2> HIDE DEF T, m
  <2> QED BY <1>2, <1>4, <1>5, UpTo
<1>7. m \in 0..m /\ i + m = n
  OBVIOUS
<1>8. Passed(g[m], t, before, n, i, n)
  <2>1. Passed(g[m], t, before, n, i, i + m)
    BY <1>6, <1>7
  <2> QED BY <1>7, <2>1
<1> QED BY <1>1, <1>2, <1>7, <1>8

-----------------------------------------------------------------------------
(* The whole sort.                                                         *)

SortStep(before, n, S) == [p \in (1..n) \X [1..n -> S] |-> Pass(before, p[2], p[1])]

\* The sort, by the lists after each pass.
LEMMA SortRuns ==
    ASSUME NEW n \in Nat, NEW S, NEW before, IsOrder(before, S), NEW s \in [1..n -> S]
    PROVE  IsEnd(ExchangeSort(before, s), n, [1..n -> S], s, SortStep(before, n, S))
<1> DEFINE V == [1..n -> S]
           step == SortStep(before, n, S)
           places == [k \in DOMAIN s |-> k]
           Iter(f) == f = [r \in SUBSET DOMAIN places |->
                             IF r = {} THEN s
                             ELSE LET x == Max(r) IN Pass(before, f[r \ {x}], places[x])]
           iter == CHOOSE f : Iter(f)
<1>1. DOMAIN places = 1..n /\ \A k \in 1..n : places[k] = k
  OBVIOUS
<1>2. s \in V /\ step \in [(1..n) \X V -> V]
  BY PassDoes DEF SortStep
<1>3. \A r \in SUBSET (1..n) : r # {} => Max(r) \in 1..n
  BY MaxInRange
<1>4. PICK h \in [SUBSET (1..n) -> V] : IsFold(h, n, s, step)
  <2> HIDE DEF V, step
  <2> QED BY <1>2, FoldExists, Zenon
<1>5. Iter(h)
  <2> HIDE DEF places
  <2>1. ASSUME NEW r \in SUBSET (1..n), r # {}
        PROVE  h[r] = Pass(before, h[r \ {Max(r)}], places[Max(r)])
    <3>1. h[r] = step[<<Max(r), h[r \ {Max(r)}]>>]
      BY <1>4, <2>1 DEF IsFold
    <3>2. Max(r) \in 1..n /\ h[r \ {Max(r)}] \in V
      BY <1>3, <2>1
    <3> QED BY <1>1, <3>1, <3>2 DEF SortStep
  <2>2. h[{}] = s
    BY <1>4 DEF IsFold
  <2> QED BY <1>1, <2>1, <2>2
<1>6. Iter(iter)
  <2> HIDE DEF Iter
  <2> QED BY <1>5
<1>7. ExchangeSort(before, s) = iter[1..n]
  BY <1>1 DEF ExchangeSort, FoldLeftDomain, FoldLeft, MapThenFoldSet
<1> HIDE DEF iter, places
<1>8. Steps(iter, n, V, s, step)
  <2>1. iter[{}] = s
    BY <1>6
  <2>2. ASSUME NEW k \in 1..n, iter[1..(k - 1)] \in V
        PROVE  iter[1..k] = step[<<k, iter[1..(k - 1)]>>]
    <3>1. /\ 1..k \in SUBSET (1..n) /\ 1..k # {}
          /\ Max(1..k) = k /\ (1..k) \ {Max(1..k)} = 1..(k - 1)
      BY Intervals
    <3>2. iter[1..k] = Pass(before, iter[1..(k - 1)], places[k])
      BY <1>1, <1>6, <3>1, ZenonT(60)
    <3> QED BY <1>1, <2>2, <3>2 DEF SortStep
  <2> QED BY <2>1, <2>2 DEF Steps
<1>9. IsEnd(iter[1..n], n, V, s, step)
  <2> HIDE DEF V, step, Iter
  <2> QED BY <1>2, <1>8, RunningValues
<1> QED BY <1>7, <1>9

\* What the first i passes have done.
Ordered(t, s, before, n, i) ==
    /\ \E q : Rearranged(t, s, q, n)
    /\ \A a \in 1..i : \A b \in (a + 1)..n : <<t[b], t[a]>> \notin before

\* A pass extends the sorted part by one place.
LEMMA OnePass ==
    ASSUME NEW n \in Nat, NEW S, NEW before, IsOrder(before, S),
           NEW s \in [1..n -> S], NEW t \in [1..n -> S], NEW i \in 1..n,
           Ordered(t, s, before, n, i - 1)
    PROVE  Ordered(Pass(before, t, i), s, before, n, i)
<1> DEFINE u == Pass(before, t, i)
<1>1. PICK q : Rearranged(t, s, q, n)
  BY DEF Ordered
<1>2. Passed(u, t, before, n, i, n)
  BY PassDoes
<1> HIDE DEF u
<1>3. PICK r : Rearranged(u, t, r, n) /\ \A a \in 1..(i - 1) : r[a] = a
  BY <1>2 DEF Passed
<1>4. \E p : Rearranged(u, s, p, n)
  <2>1. Rearranged(u, s, [a \in 1..n |-> q[r[a]]], n)
    BY <1>1, <1>3, RearrangedTwice
  <2> QED BY <2>1
<1>5. /\ r \in [1..n -> 1..n]
      /\ \A a, b \in 1..n : r[a] = r[b] => a = b
      /\ \A a \in 1..n : u[a] = t[r[a]]
  BY <1>3 DEF Rearranged, Bijection, Injection, IsInjective
<1>6. ASSUME NEW a \in 1..i, NEW b \in (a + 1)..n PROVE <<u[b], u[a]>> \notin before
  <2>1. CASE a = i
    BY <1>2, <2>1 DEF Passed
  <2>2. CASE a # i
    <3>1. a \in 1..(i - 1) /\ a \in 1..n /\ b \in 1..n /\ u[a] = t[a] /\ u[b] = t[r[b]]
      BY <1>3, <1>5, <2>2
    <3>2. r[b] \in 1..n /\ r[b] > a
      <4>1. r[b] \in 1..n
        BY <1>5, <3>1
      <4>2. CASE r[b] <= i - 1
        <5>1. r[b] \in 1..(i - 1)
          BY <4>1, <4>2
        <5>2. r[r[b]] = r[b]
          BY <1>3, <5>1
        <5>3. r[b] = b
          BY <1>5, <3>1, <4>1, <5>2
        <5> QED BY <4>1, <5>3
      <4>3. CASE r[b] > i - 1
        BY <2>2, <4>1, <4>3
      <4> QED BY <4>1, <4>2, <4>3
    <3>3. r[b] \in (a + 1)..n
      BY <3>2
    <3> QED BY <3>1, <3>3 DEF Ordered
  <2> QED BY <2>1, <2>2
<1> QED BY <1>4, <1>6 DEF Ordered, u

\* The exchange sort sorts, whatever the order.
LEMMA ExchangeSortSorts ==
    ASSUME NEW n \in Nat, NEW S, NEW before, IsOrder(before, S), NEW s \in [1..n -> S]
    PROVE  /\ ExchangeSort(before, s) \in [1..n -> S]
           /\ Ordered(ExchangeSort(before, s), s, before, n, n)
<1> DEFINE V == [1..n -> S]
<1>1. PICK g : IsRun(g, n, V, s, SortStep(before, n, S)) /\ ExchangeSort(before, s) = g[n]
  BY SortRuns DEF IsEnd
<1>2. g \in [0..n -> V] /\ g[0] = s
  BY <1>1 DEF IsRun
<1>3. ASSUME NEW k \in 1..n PROVE g[k - 1] \in V /\ g[k] = Pass(before, g[k - 1], k)
  <2>1. g[k] = SortStep(before, n, S)[<<k, g[k - 1]>>]
    BY <1>1 DEF IsRun
  <2>2. k - 1 \in 0..n
    OBVIOUS
  <2>3. g[k - 1] \in V
    BY <1>2, <2>2
  <2> QED BY <2>1, <2>3 DEF SortStep
<1> DEFINE T == {k \in 0..n : Ordered(g[k], s, before, n, k)}
<1>4. 0 \in T
  <2>1. Rearranged(s, s, [a \in 1..n |-> a], n)
    BY Identity
  <2>2. 1..0 = {}
    OBVIOUS
  <2> QED BY <1>2, <2>1, <2>2 DEF Ordered
<1>5. ASSUME NEW k \in 1..n, k - 1 \in T PROVE k \in T
  <2>1. Ordered(g[k - 1], s, before, n, k - 1)
    BY <1>5
  <2>2. Ordered(g[k], s, before, n, k)
    <3> HIDE DEF T
    <3>1. g[k - 1] \in [1..n -> S] /\ g[k] = Pass(before, g[k - 1], k)
      BY <1>3
    <3> QED BY <2>1, <3>1, OnePass, Zenon
  <2> QED BY <2>2
<1>6. \A k \in 0..n : k \in T
  <2> HIDE DEF T
  <2> QED BY <1>4, <1>5, UpTo
<1>7. n \in 0..n
  OBVIOUS
<1> QED BY <1>1, <1>2, <1>6, <1>7

-----------------------------------------------------------------------------
(* The entries that are printed.                                           *)

OnlyStep(t, n, X, S) ==
    [p \in (1..n) \X Seq(X) |-> IF t[p[1]] \in S THEN Append(p[2], t[p[1]]) ELSE p[2]]

\* Only, by its running lists.
LEMMA OnlyRuns ==
    ASSUME NEW n \in Nat, NEW X, NEW t \in [1..n -> X], NEW S
    PROVE  IsEnd(Only(t, S), n, Seq(X), <<>>, OnlyStep(t, n, X, S))
<1> DEFINE V == Seq(X)
           step == OnlyStep(t, n, X, S)
           Iter(f) == f = [r \in SUBSET DOMAIN t |->
                             IF r = {} THEN <<>>
                             ELSE LET x == Max(r)
                                  IN  IF t[x] \in S THEN Append(f[r \ {x}], t[x]) ELSE f[r \ {x}]]
           iter == CHOOSE f : Iter(f)
<1>1. DOMAIN t = 1..n
  OBVIOUS
<1>2. <<>> \in V /\ step \in [(1..n) \X V -> V]
  BY DEF OnlyStep
<1>3. \A r \in SUBSET (1..n) : r # {} => Max(r) \in 1..n
  BY MaxInRange
<1>4. PICK h \in [SUBSET (1..n) -> V] : IsFold(h, n, <<>>, step)
  <2> HIDE DEF V, step
  <2> QED BY <1>2, FoldExists, Zenon
<1>5. Iter(h)
  <2>1. ASSUME NEW r \in SUBSET (1..n), r # {}
        PROVE  h[r] = IF t[Max(r)] \in S THEN Append(h[r \ {Max(r)}], t[Max(r)])
                                         ELSE h[r \ {Max(r)}]
    <3>1. h[r] = step[<<Max(r), h[r \ {Max(r)}]>>]
      BY <1>4, <2>1 DEF IsFold
    <3>2. Max(r) \in 1..n /\ h[r \ {Max(r)}] \in V
      BY <1>3, <2>1
    <3> QED BY <3>1, <3>2 DEF OnlyStep
  <2>2. h[{}] = <<>>
    BY <1>4 DEF IsFold
  <2> QED BY <1>1, <2>1, <2>2
<1>6. Iter(iter)
  <2> HIDE DEF Iter
  <2> QED BY <1>5
<1>7. Only(t, S) = iter[1..n]
  BY <1>1 DEF Only, FoldLeft, MapThenFoldSet
<1> HIDE DEF iter
<1>8. Steps(iter, n, V, <<>>, step)
  <2>1. iter[{}] = <<>>
    BY <1>6
  <2>2. ASSUME NEW k \in 1..n, iter[1..(k - 1)] \in V
        PROVE  iter[1..k] = step[<<k, iter[1..(k - 1)]>>]
    <3>1. /\ 1..k \in SUBSET (1..n) /\ 1..k # {}
          /\ Max(1..k) = k /\ (1..k) \ {Max(1..k)} = 1..(k - 1)
      BY Intervals
    <3>2. iter[1..k] = IF t[k] \in S THEN Append(iter[1..(k - 1)], t[k]) ELSE iter[1..(k - 1)]
      BY <1>1, <1>6, <3>1
    <3> QED BY <1>1, <2>2, <3>2 DEF OnlyStep
  <2> QED BY <2>1, <2>2 DEF Steps
<1>9. IsEnd(iter[1..n], n, V, <<>>, step)
  <2> HIDE DEF V, step, Iter
  <2> QED BY <1>2, <1>8, RunningValues
<1> QED BY <1>7, <1>9

\* The first k entries of t, without those behind the members of S.
IsFiltered(u, t, S, k) == /\ Len(u) \in 0..k
                          /\ \A a \in 1..Len(u) : u[a] = t[a] /\ t[a] \in S
                          /\ Len(u) < k => t[Len(u) + 1] \notin S

\* In a list that has the members of S in front, these are what is selected.
LEMMA OnlyTakesPrefix ==
    ASSUME NEW n \in Nat, NEW X, NEW t \in [1..n -> X], NEW S,
           \A b \in 1..n : \A a \in 1..b : t[b] \in S => t[a] \in S
    PROVE  /\ Only(t, S) \in Seq(X) /\ Len(Only(t, S)) \in 0..n
           /\ \A a \in 1..Len(Only(t, S)) : Only(t, S)[a] = t[a]
           /\ \A a \in 1..n : t[a] \in S <=> a <= Len(Only(t, S))
<1> DEFINE V == Seq(X)
<1>1. PICK g : IsRun(g, n, V, <<>>, OnlyStep(t, n, X, S)) /\ Only(t, S) = g[n]
  BY OnlyRuns DEF IsEnd
<1>2. g \in [0..n -> V] /\ g[0] = <<>>
  BY <1>1 DEF IsRun
<1>3. ASSUME NEW k \in 1..n
      PROVE  /\ g[k - 1] \in V
             /\ g[k] = IF t[k] \in S THEN Append(g[k - 1], t[k]) ELSE g[k - 1]
  <2>1. g[k] = OnlyStep(t, n, X, S)[<<k, g[k - 1]>>]
    BY <1>1 DEF IsRun
  <2>2. k - 1 \in 0..n
    OBVIOUS
  <2>3. g[k - 1] \in V
    BY <1>2, <2>2
  <2> QED BY <2>1, <2>3 DEF OnlyStep
<1> DEFINE T == {k \in 0..n : IsFiltered(g[k], t, S, k)}
<1>4. 0 \in T
  BY <1>2 DEF IsFiltered
<1>5. ASSUME NEW k \in 1..n, k - 1 \in T PROVE k \in T
  <2> DEFINE u == g[k - 1]
  <2>1. IsFiltered(u, t, S, k - 1) /\ u \in Seq(X)
    BY <1>3, <1>5
  <2>2. g[k] = IF t[k] \in S THEN Append(u, t[k]) ELSE u
    BY <1>3
  <2> HIDE DEF u, T
  <2>3. Len(u) \in 0..(k - 1) /\ \A a \in 1..Len(u) : u[a] = t[a] /\ t[a] \in S
    BY <2>1 DEF IsFiltered
  <2>4. CASE t[k] \in S
    <3>1. Len(u) = k - 1
      <4> SUFFICES ASSUME Len(u) < k - 1 PROVE FALSE
        BY <2>3
      <4>1. t[Len(u) + 1] \notin S
        BY <2>1 DEF IsFiltered
      <4>2. Len(u) + 1 \in 1..k
        BY <2>3
      <4> QED BY <2>4, <4>1, <4>2
    <3>2. /\ Len(Append(u, t[k])) = k
          /\ \A a \in 1..k : Append(u, t[k])[a] = t[a] /\ t[a] \in S
      BY <2>1, <2>3, <2>4, <3>1
    <3>3. IsFiltered(Append(u, t[k]), t, S, k)
      BY <3>2 DEF IsFiltered
    <3>4. g[k] = Append(u, t[k])
      BY <2>2, <2>4
    <3>5. IsFiltered(g[k], t, S, k)
      BY <3>3, <3>4, Zenon
    <3> QED BY <3>5 DEF T
  <2>5. CASE t[k] \notin S
    <3>1. t[Len(u) + 1] \notin S
      <4>1. CASE Len(u) = k - 1
        BY <2>5, <4>1
      <4>2. CASE Len(u) < k - 1
        BY <2>1, <4>2 DEF IsFiltered
      <4> QED BY <2>3, <4>1, <4>2
    <3>2. IsFiltered(u, t, S, k)
      BY <2>3, <3>1 DEF IsFiltered
    <3>3. g[k] = u
      BY <2>2, <2>5
    <3> QED BY <3>2, <3>3 DEF T
  <2> QED BY <2>4, <2>5
<1>6. n \in T
  <2> HIDE DEF T
  <2>1. \A k \in 0..n : k \in T
    BY <1>4, <1>5, UpTo
  <2> QED BY <2>1
<1> DEFINE o == Only(t, S)
<1>7. IsFiltered(o, t, S, n) /\ o \in Seq(X)
  BY <1>1, <1>2, <1>6
<1> HIDE DEF o
<1>8. ASSUME NEW a \in 1..n, a > Len(o) PROVE t[a] \notin S
  <2>1. Len(o) + 1 \in 1..a /\ t[Len(o) + 1] \notin S
    BY <1>7, <1>8 DEF IsFiltered
  <2> QED BY <2>1
<1>9. /\ o \in Seq(X) /\ Len(o) \in 0..n
      /\ \A a \in 1..Len(o) : o[a] = t[a]
      /\ \A a \in 1..n : t[a] \in S <=> a <= Len(o)
  BY <1>7, <1>8 DEF IsFiltered
<1> QED BY <1>9 DEF o

\* The places of t with a value in U.
Where(t, n, U) == {a \in 1..n : t[a] \in U}

\* The places of a list are finitely many.
LEMMA WhereIsFinite ==
    ASSUME NEW n \in Nat, NEW t, NEW U
    PROVE  IsFiniteSet(Where(t, n, U)) /\ Cardinality(Where(t, n, U)) \in Nat
<1>1. IsFiniteSet(1..n) /\ Where(t, n, U) \in SUBSET (1..n)
  BY FS_Interval DEF Where
<1> QED BY <1>1, FS_Subset, FS_CardinalityType

\* A rearrangement has as many places with a value in U.
LEMMA SameCount ==
    ASSUME NEW n \in Nat, NEW s, NEW t, NEW q, Rearranged(t, s, q, n), NEW U
    PROVE  Cardinality(Where(s, n, U)) = Cardinality(Where(t, n, U))
<1> DEFINE A == {a \in 1..n : t[a] \in U}
           K == {k \in 1..n : s[k] \in U}
           f == [a \in A |-> q[a]]
<1>1. A = Where(t, n, U) /\ K = Where(s, n, U)
  BY DEF Where
<1>2. IsFiniteSet(A) /\ IsFiniteSet(K)
  BY <1>1, WhereIsFinite
<1>3. /\ q \in [1..n -> 1..n]
      /\ \A a, b \in 1..n : q[a] = q[b] => a = b
      /\ \A b \in 1..n : \E a \in 1..n : q[a] = b
      /\ \A a \in 1..n : t[a] = s[q[a]]
  BY DEF Rearranged, Bijection, Injection, Surjection, IsInjective
<1>4. f \in [A -> K]
  BY <1>3
<1>5. \A a, b \in A : f[a] = f[b] => a = b
  BY <1>3
<1>6. \A k \in K : \E a \in A : f[a] = k
  <2> SUFFICES ASSUME NEW k \in K PROVE \E a \in A : f[a] = k
    OBVIOUS
  <2>1. PICK a \in 1..n : q[a] = k
    BY <1>3
  <2>2. a \in A /\ f[a] = k
    BY <1>3, <2>1
  <2> QED BY <2>2
<1>7. f \in Bijection(A, K)
  <2> HIDE DEF A, K, f
  <2> QED BY <1>4, <1>5, <1>6, Fun_IsBij
<1>8. Cardinality(A) = Cardinality(K)
  <2> HIDE DEF A, K, f
  <2>1. ExistsBijection(A, K)
    BY <1>7 DEF ExistsBijection
  <2> QED BY <1>2, <2>1, FS_Bijection
<1> QED BY <1>1, <1>8

-----------------------------------------------------------------------------
(* The rankings are correct.                                               *)

\* The comparisons of both programs are strict orders, also with 0 as the last.
LEMMA Orders ==
    IsOrder(Pairs(Nat, BlasterBefore), Nat) /\ IsOrder(Pairs(Nat, ControllerBefore), Nat)
  BY DEF IsOrder, Pairs, BlasterBefore, ControllerBefore

\* What ExchangeSort does to a list of times, in the terms of SortOf.
LEMMA SortsAre ==
    ASSUME NEW n \in Nat, NEW s \in [1..n -> Nat], NEW before, IsOrder(before, Nat)
    PROVE  LET t == ExchangeSort(before, s) IN
           /\ Len(t) = Len(s) /\ DOMAIN t = 1..n
           /\ \A x : Occurrences(t, x) = Occurrences(s, x)
           /\ \A i, j \in 1..n : i < j => <<t[j], t[i]>> \notin before
<1> DEFINE t == ExchangeSort(before, s)
<1>1. t \in [1..n -> Nat] /\ Ordered(t, s, before, n, n)
  BY ExchangeSortSorts
<1> HIDE DEF t
<1>2. PICK q : Rearranged(t, s, q, n)
  BY <1>1 DEF Ordered
<1>3. Len(t) = n /\ Len(s) = n
  BY <1>1
<1>4. ASSUME NEW x PROVE Occurrences(t, x) = Occurrences(s, x)
  <2>1. Cardinality(Where(s, n, {x})) = Cardinality(Where(t, n, {x}))
    BY <1>2, SameCount
  <2>2. /\ Where(s, n, {x}) = {i \in DOMAIN s : s[i] = x}
        /\ Where(t, n, {x}) = {i \in DOMAIN t : t[i] = x}
    BY <1>1 DEF Where
  <2> QED BY <2>1, <2>2 DEF Occurrences
<1>5. \A i, j \in 1..n : i < j => <<t[j], t[i]>> \notin before
  BY <1>1 DEF Ordered
<1> QED BY <1>1, <1>3, <1>4, <1>5 DEF t

\* blast_controller.c l.76-85 sorts.
LEMMA ControllerIsSorted ==
    ASSUME NEW n \in Nat, NEW s \in [1..n -> Nat]
    PROVE  ControllerSorts(s)
<1> DEFINE t == ControllerSort(s)
           before == Pairs(Nat, ControllerBefore)
<1>1. /\ Len(t) = Len(s) /\ DOMAIN t = 1..n
      /\ \A x : Occurrences(t, x) = Occurrences(s, x)
      /\ \A i, j \in 1..n : i < j => <<t[j], t[i]>> \notin before
  BY Orders, SortsAre DEF ControllerSort
<1>2. t \in [1..n -> Nat]
  BY Orders, ExchangeSortSorts DEF ControllerSort
<1> HIDE DEF t
<1>3. \A i, j \in DOMAIN t : i < j => ~(t[j] < t[i])
  BY <1>1, <1>2 DEF Pairs, ControllerBefore
<1> QED BY <1>1, <1>3 DEF ControllerSorts, SortOf, t

\* blast_controller.c l.76-85, on whole replies: for any list of entries with a
\* time, the exchange sort gives what StopListening of BlastController allows, a
\* rearrangement in the order of the times.
THEOREM ControllerSortsReplies ==
    ASSUME NEW R, \A e \in R : e.rtt \in Nat, NEW s \in Seq(R)
    PROVE  LET t == ExchangeSort({p \in R \X R : ControllerBefore(p[1].rtt, p[2].rtt)}, s)
           IN  /\ \E q \in Bijection(DOMAIN s, DOMAIN s) : t = [k \in DOMAIN s |-> s[q[k]]]
               /\ \A j, k \in DOMAIN s : j < k => t[j].rtt <= t[k].rtt
<1> DEFINE n == Len(s)
           before == {p \in R \X R : ControllerBefore(p[1].rtt, p[2].rtt)}
           t == ExchangeSort(before, s)
<1>1. n \in Nat /\ DOMAIN s = 1..n /\ s \in [1..n -> R]
  OBVIOUS
<1>2. IsOrder(before, R)
  BY DEF IsOrder, ControllerBefore
<1>3. t \in [1..n -> R] /\ Ordered(t, s, before, n, n)
  <2> HIDE DEF before, n
  <2> QED BY <1>1, <1>2, ExchangeSortSorts
<1>4. \E q \in Bijection(1..n, 1..n) : t = [k \in 1..n |-> s[q[k]]]
  BY <1>3 DEF Ordered, Rearranged
<1>5. ASSUME NEW j \in 1..n, NEW k \in 1..n, j < k PROVE t[j].rtt <= t[k].rtt
  <2>1. t[j] \in R /\ t[k] \in R /\ t[j].rtt \in Nat /\ t[k].rtt \in Nat
    BY <1>3, <1>5
  <2>2. j \in 1..n /\ k \in (j + 1)..n
    BY <1>1, <1>5
  <2>3. <<t[k], t[j]>> \notin before
    <3> HIDE DEF t, before
    <3> QED BY <1>3, <2>2 DEF Ordered
  <2>4. ~(t[k].rtt < t[j].rtt)
    <3> HIDE DEF t
    <3> QED BY <2>1, <2>3 DEF ControllerBefore
  <2> HIDE DEF t
  <2> QED BY <2>1, <2>4
<1> QED BY <1>1, <1>4, <1>5

\* What the blaster's sort leaves: the positive times first and in order.
LEMMA BlasterIsSorted ==
    ASSUME NEW n \in Nat, NEW s \in [1..n -> Nat]
    PROVE  LET t == BlasterSort(s) IN
           /\ t \in [1..n -> Nat]
           /\ \E q : Rearranged(t, s, q, n)
           /\ SortOf(t, s, LAMBDA a, b : a > 0 /\ (b = 0 \/ a < b))
           /\ \A i, j \in 1..n : i <= j /\ t[j] > 0 => t[i] > 0 /\ t[i] <= t[j]
<1> DEFINE t == BlasterSort(s)
           before == Pairs(Nat, BlasterBefore)
<1>1. /\ Len(t) = Len(s) /\ DOMAIN t = 1..n
      /\ \A x : Occurrences(t, x) = Occurrences(s, x)
      /\ \A i, j \in 1..n : i < j => <<t[j], t[i]>> \notin before
  BY Orders, SortsAre DEF BlasterSort
<1>2. t \in [1..n -> Nat] /\ Ordered(t, s, before, n, n)
  BY Orders, ExchangeSortSorts DEF BlasterSort
<1> HIDE DEF t
<1>3. \A i, j \in DOMAIN t : i < j => ~(t[j] > 0 /\ (t[i] = 0 \/ t[j] < t[i]))
  BY <1>1, <1>2 DEF Pairs, BlasterBefore
<1>4. SortOf(t, s, LAMBDA a, b : a > 0 /\ (b = 0 \/ a < b))
  BY <1>1, <1>3 DEF SortOf
<1>5. \A i, j \in 1..n : i <= j /\ t[j] > 0 => t[i] > 0 /\ t[i] <= t[j]
  BY <1>1, <1>2, <1>3
<1> QED BY <1>2, <1>4, <1>5 DEF t, Ordered

\* burst_blaster.c l.121-128: what is listed is the beginning of the sorted
\* list, and the entries of that with an answer come first.
LEMMA BlasterListIs ==
    ASSUME NEW n \in Nat, NEW s \in [1..n -> Nat]
    PROVE  LET t == BlasterSort(s)
               shown == BlasterList(s)
           IN  \E m \in 0..n : /\ \A a \in 1..n : t[a] > 0 <=> a <= m
                               /\ Len(shown) = (IF m < Shown THEN m ELSE Shown)
                               /\ DOMAIN shown = 1..Len(shown)
                               /\ \A i \in 1..Len(shown) : shown[i] = t[i]
<1> DEFINE t == BlasterSort(s)
           o == Only(t, Positive)
           shown == FirstShown(o)
<1>1. /\ t \in [1..n -> Nat]
      /\ \A i, j \in 1..n : i <= j /\ t[j] > 0 => t[i] > 0
  BY BlasterIsSorted
<1>2. shown = BlasterList(s)
  BY DEF BlasterList
<1> HIDE DEF t
<1>3. \A b \in 1..n : \A a \in 1..b : t[b] \in Positive => t[a] \in Positive
  BY <1>1 DEF Positive
<1>4. /\ o \in Seq(Nat) /\ Len(o) \in 0..n
      /\ \A a \in 1..Len(o) : o[a] = t[a]
      /\ \A a \in 1..n : t[a] \in Positive <=> a <= Len(o)
  BY <1>1, <1>3, OnlyTakesPrefix
<1> HIDE DEF o
<1> DEFINE k == IF Len(o) < Shown THEN Len(o) ELSE Shown
<1>5. k \in 0..Len(o)
  BY <1>4, ShownAssumption
<1>6. /\ Len(shown) = k /\ DOMAIN shown = 1..k
      /\ \A i \in 1..k : shown[i] = o[i]
  <2>1. shown = SubSeq(o, 1, k)
    BY DEF FirstShown
  <2> HIDE DEF k, shown
  <2> QED BY <1>4, <1>5, <2>1
<1> HIDE DEF shown
<1>7. \A a \in 1..n : t[a] > 0 <=> a <= Len(o)
  BY <1>1, <1>4 DEF Positive
<1>8. \A i \in 1..k : shown[i] = t[i]
  BY <1>4, <1>5, <1>6
<1> QED BY <1>2, <1>4, <1>6, <1>7, <1>8 DEF t

\* burst_blaster.c l.110-128 sorts, and lists the fastest.
LEMMA BlasterListIsFastest ==
    ASSUME NEW n \in Nat, NEW s \in [1..n -> Nat]
    PROVE  BlasterListsFastest(s)
<1> DEFINE t == BlasterSort(s)
           shown == BlasterList(s)
           places == {k \in DOMAIN s : s[k] \in Positive}
<1>0. SortOf(t, s, LAMBDA a, b : a > 0 /\ (b = 0 \/ a < b))
  BY BlasterIsSorted
<1>1. /\ t \in [1..n -> Nat]
      /\ \E q : Rearranged(t, s, q, n)
      /\ \A i, j \in 1..n : i <= j /\ t[j] > 0 => t[i] > 0 /\ t[i] <= t[j]
  BY BlasterIsSorted
<1>2. PICK m \in 0..n : /\ \A a \in 1..n : t[a] > 0 <=> a <= m
                        /\ Len(shown) = (IF m < Shown THEN m ELSE Shown)
                        /\ DOMAIN shown = 1..Len(shown)
                        /\ \A i \in 1..Len(shown) : shown[i] = t[i]
  BY BlasterListIs
<1> HIDE DEF t, shown
<1>3. PICK q : Rearranged(t, s, q, n)
  BY <1>1
<1>4. Cardinality(places) = m
  <2>1. Cardinality(Where(s, n, Positive)) = Cardinality(Where(t, n, Positive))
    BY <1>3, SameCount
  <2>2. Where(s, n, Positive) = places
    BY DEF Where
  <2>4. Where(t, n, Positive) = 1..m
    <3>1. \A a \in 1..n : t[a] \in Positive <=> a <= m
      BY <1>1, <1>2 DEF Positive
    <3> QED BY <3>1 DEF Where
  <2>3. Cardinality(1..m) = m
    BY FS_Interval
  <2> QED BY <2>1, <2>2, <2>3, <2>4
<1>5. ASSUME NEW i \in DOMAIN shown
      PROVE  /\ Cardinality({k \in places : s[k] < shown[i]}) < i
             /\ Cardinality({k \in places : s[k] <= shown[i]}) >= i
  <2>1. i \in 1..m /\ i \in 1..n /\ shown[i] = t[i] /\ t[i] \in Nat /\ t[i] > 0
    <3>1. i \in 1..Len(shown) /\ Len(shown) <= m /\ Len(shown) \in Nat
      BY <1>2, <1>5, ShownAssumption
    <3>2. i \in 1..m /\ i \in 1..n /\ shown[i] = t[i]
      BY <1>2, <3>1
    <3> QED BY <1>1, <1>2, <3>2
  <2> DEFINE Less == {x \in Positive : x < t[i]}
             Most == {x \in Positive : x <= t[i]}
  <2>2. /\ Cardinality(Where(s, n, Less)) = Cardinality(Where(t, n, Less))
        /\ Cardinality(Where(s, n, Most)) = Cardinality(Where(t, n, Most))
    <3> HIDE DEF Less, Most
    <3> QED BY <1>3, SameCount
  <2>3. /\ Where(s, n, Less) = {k \in places : s[k] < shown[i]}
        /\ Where(s, n, Most) = {k \in places : s[k] <= shown[i]}
    BY <2>1 DEF Where
  <2>4. Cardinality(Where(t, n, Less)) <= i - 1
    <3>1. Where(t, n, Less) \in SUBSET (1..(i - 1))
      <4> SUFFICES ASSUME NEW a \in 1..n, t[a] \in Less, ~(a <= i - 1) PROVE FALSE
        BY DEF Where
      <4>0. t[a] \in Positive /\ t[a] < t[i]
        OBVIOUS
      <4>1. i <= a /\ t[a] > 0 /\ t[a] < t[i] /\ t[a] \in Nat
        BY <2>1, <4>0 DEF Positive
      <4>2. t[i] <= t[a]
        BY <1>1, <2>1, <4>1
      <4> QED BY <2>1, <4>1, <4>2
    <3>2. IsFiniteSet(1..(i - 1)) /\ Cardinality(1..(i - 1)) = i - 1
      <4>1. 1 \in Int /\ i - 1 \in Int /\ (i - 1) - 1 + 1 = i - 1 /\ (1 > i - 1 => i - 1 = 0)
        BY <2>1
      <4> QED BY <4>1, FS_Interval
    <3> HIDE DEF Less
    <3>3. Cardinality(Where(t, n, Less)) <= Cardinality(1..(i - 1))
      BY <3>1, <3>2, FS_Subset, Zenon
    <3> QED BY <3>2, <3>3
  <2>5. Cardinality(Where(t, n, Most)) >= i
    <3>1. 1..i \in SUBSET Where(t, n, Most)
      <4> SUFFICES ASSUME NEW a \in 1..i PROVE a \in 1..n /\ t[a] \in Most
        BY DEF Where
      <4>1. a \in 1..n /\ a <= i
        BY <2>1
      <4>2. t[a] > 0 /\ t[a] <= t[i] /\ t[a] \in Nat
        BY <1>1, <2>1, <4>1
      <4> QED BY <4>1, <4>2 DEF Positive
    <3>2. Cardinality(1..i) = i
      BY <2>1, FS_Interval
    <3>3. IsFiniteSet(Where(t, n, Most))
      BY WhereIsFinite
    <3> HIDE DEF Most
    <3>4. Cardinality(1..i) <= Cardinality(Where(t, n, Most))
      BY <3>1, <3>3, FS_Subset
    <3> QED BY <3>2, <3>4
  <2>6. Cardinality(Where(t, n, Less)) \in Nat
    BY WhereIsFinite
  <2> HIDE DEF Less, Most
  <2> QED BY <2>1, <2>2, <2>3, <2>4, <2>5, <2>6
<1>6. SmallestOf(shown, s, Positive)
  BY <1>2, <1>4, <1>5 DEF SmallestOf
<1> QED BY <1>0, <1>6 DEF BlasterListsFastest, t, shown

-----------------------------------------------------------------------------
(* Sums.                                                                   *)

\* Some element of a set.
SomeOf(s) == CHOOSE x \in s : TRUE

\* h[s] is the sum of f over s, for each subset s of D.
SumsOver(h, f, D) ==
    h = [s \in SUBSET D |-> IF s = {} THEN 0 ELSE f[SomeOf(s)] + h[s \ {SomeOf(s)}]]

\* The equation for the subsets of at most n elements.
SumsUpTo(h, f, D, n) ==
    /\ h \in [SUBSET D -> Int]
    /\ \A s \in SUBSET D : Cardinality(s) <= n =>
          h[s] = IF s = {} THEN 0 ELSE f[SomeOf(s)] + h[s \ {SomeOf(s)}]

\* One element less.
LEMMA OneLess ==
    ASSUME NEW D, IsFiniteSet(D), NEW s \in SUBSET D
    PROVE  /\ IsFiniteSet(s) /\ Cardinality(s) \in Nat /\ Cardinality(s) <= Cardinality(D)
           /\ s = {} <=> Cardinality(s) = 0
           /\ \A x \in s : Cardinality(s \ {x}) = Cardinality(s) - 1
           /\ s # {} => SomeOf(s) \in s
<1>1. IsFiniteSet(s) /\ Cardinality(s) <= Cardinality(D)
  BY FS_Subset
<1>2. Cardinality(s) \in Nat /\ (s = {} <=> Cardinality(s) = 0)
  BY <1>1, FS_CardinalityType, FS_EmptySet
<1>3. \A x \in s : Cardinality(s \ {x}) = Cardinality(s) - 1
  BY <1>1, FS_RemoveElement
<1> QED BY <1>1, <1>2, <1>3 DEF SomeOf

\* The recursive function that sums f over the subsets of a finite set exists.
LEMMA SumExists ==
    ASSUME NEW D, IsFiniteSet(D), NEW f, \A x \in D : f[x] \in Int
    PROVE  \E h \in [SUBSET D -> Int] : SumsOver(h, f, D)
<1> DEFINE Good == {n \in Nat : \E h : SumsUpTo(h, f, D, n)}
<1>1. 0 \in Good
  <2> DEFINE h == [s \in SUBSET D |-> 0]
  <2>1. SumsUpTo(h, f, D, 0)
    BY OneLess DEF SumsUpTo
  <2> HIDE DEF h
  <2> QED BY <2>1
<1>2. ASSUME NEW n \in Nat, n \in Good PROVE n + 1 \in Good
  <2>1. PICK h : SumsUpTo(h, f, D, n)
    BY <1>2
  <2> DEFINE g == [s \in SUBSET D |->
                     IF Cardinality(s) <= n THEN h[s]
                     ELSE f[SomeOf(s)] + h[s \ {SomeOf(s)}]]
  <2>2. g \in [SUBSET D -> Int]
    <3> SUFFICES ASSUME NEW s \in SUBSET D PROVE g[s] \in Int
      OBVIOUS
    <3>1. CASE Cardinality(s) <= n
      BY <2>1, <3>1 DEF SumsUpTo
    <3>2. CASE ~(Cardinality(s) <= n)
      <4>1. s # {} /\ SomeOf(s) \in D
        BY <3>2, OneLess
      <4>2. f[SomeOf(s)] \in Int /\ h[s \ {SomeOf(s)}] \in Int
        BY <2>1, <4>1 DEF SumsUpTo
      <4> QED BY <3>2, <4>2
    <3> QED BY <3>1, <3>2
  <2>3. ASSUME NEW s \in SUBSET D, Cardinality(s) <= n + 1
        PROVE  g[s] = IF s = {} THEN 0 ELSE f[SomeOf(s)] + g[s \ {SomeOf(s)}]
    <3>1. CASE s = {}
      <4>1. Cardinality(s) = 0
        BY <3>1, OneLess
      <4>2. g[s] = h[s] /\ h[s] = 0
        BY <2>1, <3>1, <4>1 DEF SumsUpTo
      <4> QED BY <3>1, <4>2
    <3>2. CASE s # {}
      <4>1. /\ SomeOf(s) \in s /\ Cardinality(s) \in Nat /\ Cardinality(s) >= 1
            /\ Cardinality(s \ {SomeOf(s)}) = Cardinality(s) - 1
        BY <3>2, OneLess
      <4>2. Cardinality(s \ {SomeOf(s)}) <= n
        BY <2>3, <4>1
      <4>3. g[s \ {SomeOf(s)}] = h[s \ {SomeOf(s)}]
        BY <4>2
      <4>4. g[s] = f[SomeOf(s)] + h[s \ {SomeOf(s)}]
        BY <2>1, <3>2, <4>1 DEF SumsUpTo
      <4> QED BY <3>2, <4>3, <4>4
    <3> QED BY <3>1, <3>2
  <2>4. SumsUpTo(g, f, D, n + 1)
    <3> HIDE DEF g
    <3> QED BY <2>2, <2>3 DEF SumsUpTo
  <2> HIDE DEF g
  <2> QED BY <2>4
<1>3. Cardinality(D) \in Good
  <2>1. Cardinality(D) \in Nat
    BY FS_CardinalityType
  <2> HIDE DEF Good
  <2> QED BY <1>1, <1>2, <2>1, SetInduction
<1>4. PICK h : SumsUpTo(h, f, D, Cardinality(D))
  BY <1>3
<1>5. \A s \in SUBSET D : Cardinality(s) <= Cardinality(D)
  BY OneLess
<1>6. SumsOver(h, f, D)
  BY <1>4, <1>5 DEF SumsOver, SumsUpTo
<1> QED BY <1>4, <1>6 DEF SumsUpTo

\* The sum over S is the last value of such a function.
LEMMA SumIsValue ==
    ASSUME NEW S, IsFiniteSet(S), NEW f, \A x \in S : f[x] \in Int
    PROVE  \E h \in [SUBSET S -> Int] : SumsOver(h, f, S) /\ SumFunctionOnSet(f, S) = h[S]
<1> DEFINE iter == CHOOSE h : SumsOver(h, f, S)
<1>1. SumFunctionOnSet(f, S) = iter[S]
  BY DEF SumFunctionOnSet, FoldFunctionOnSet, MapThenFoldSet, SumsOver, SomeOf
<1>2. SumsOver(iter, f, S)
  BY SumExists
<1> HIDE DEF iter
<1>3. \A s \in SUBSET S : iter[s] \in Int
  <2>1. PICK h \in [SUBSET S -> Int] : SumsOver(h, f, S)
    BY SumExists
  <2> DEFINE Good == {n \in Nat : \A s \in SUBSET S : Cardinality(s) = n => iter[s] = h[s]}
  <2>2. 0 \in Good
    BY <1>2, <2>1, OneLess DEF SumsOver
  <2>3. ASSUME NEW n \in Nat, n \in Good PROVE n + 1 \in Good
    <3> SUFFICES ASSUME NEW s \in SUBSET S, Cardinality(s) = n + 1 PROVE iter[s] = h[s]
      OBVIOUS
    <3>1. s # {} /\ SomeOf(s) \in s /\ Cardinality(s \ {SomeOf(s)}) = n
      BY OneLess
    <3>2. iter[s \ {SomeOf(s)}] = h[s \ {SomeOf(s)}]
      BY <2>3, <3>1
    <3> QED BY <1>2, <2>1, <3>1, <3>2 DEF SumsOver
  <2>4. \A n \in Nat : n \in Good
    <3> HIDE DEF Good
    <3> QED BY <2>2, <2>3, SetInduction
  <2> SUFFICES ASSUME NEW s \in SUBSET S PROVE iter[s] \in Int
    OBVIOUS
  <2>5. Cardinality(s) \in Nat
    BY OneLess
  <2> QED BY <2>1, <2>4, <2>5
<1>4. iter \in [SUBSET S -> Int]
  BY <1>2, <1>3 DEF SumsOver
<1> QED BY <1>1, <1>2, <1>4

\* Any element may be taken out first.
Peels(h, f, D) == \A s \in SUBSET D : \A y \in s : h[s] = f[y] + h[s \ {y}]

\* h lets any element be taken out first.
LEMMA AnyOrder ==
    ASSUME NEW D, IsFiniteSet(D), NEW f, \A x \in D : f[x] \in Int,
           NEW h \in [SUBSET D -> Int], SumsOver(h, f, D)
    PROVE  Peels(h, f, D)
<1> DEFINE Good == {n \in Nat : \A s \in SUBSET D : Cardinality(s) = n =>
                                  \A y \in s : h[s] = f[y] + h[s \ {y}]}
<1>1. 0 \in Good
  BY OneLess
<1>2. ASSUME NEW n \in Nat, n \in Good PROVE n + 1 \in Good
  <2> SUFFICES ASSUME NEW s \in SUBSET D, Cardinality(s) = n + 1, NEW y \in s
               PROVE  h[s] = f[y] + h[s \ {y}]
    OBVIOUS
  <2> DEFINE x == SomeOf(s)
             t == s \ {x, y}
  <2>1. s # {} /\ x \in s /\ Cardinality(s \ {x}) = n /\ Cardinality(s \ {y}) = n
    BY OneLess
  <2>2. h[s] = f[x] + h[s \ {x}]
    BY <2>1 DEF SumsOver
  <2>3. CASE x = y
    BY <2>2, <2>3
  <2>4. CASE x # y
    <3>1. y \in s \ {x} /\ (s \ {x}) \ {y} = t /\ x \in s \ {y} /\ (s \ {y}) \ {x} = t
      BY <2>1, <2>4
    <3> HIDE DEF x, t
    <3>2. h[s \ {x}] = f[y] + h[(s \ {x}) \ {y}]
      BY <1>2, <2>1, <3>1
    <3>3. h[s \ {y}] = f[x] + h[(s \ {y}) \ {x}]
      BY <1>2, <2>1, <3>1
    <3>4. f[x] \in Int /\ f[y] \in Int /\ h[t] \in Int
      BY <2>1 DEF t
    <3>5. h[s \ {x}] = f[y] + h[t] /\ h[s \ {y}] = f[x] + h[t]
      BY <3>1, <3>2, <3>3
    <3> QED BY <2>2, <3>4, <3>5
  <2> QED BY <2>3, <2>4
<1>3. \A n \in Nat : n \in Good
  <2> HIDE DEF Good
  <2> QED BY <1>1, <1>2, SetInduction
<1> SUFFICES ASSUME NEW s \in SUBSET D, NEW y \in s PROVE h[s] = f[y] + h[s \ {y}]
  BY DEF Peels
<1>4. Cardinality(s) \in Nat
  BY OneLess
<1> QED BY <1>3, <1>4

\* In which set the sums are made does not matter.
LEMMA SumsAgree ==
    ASSUME NEW D, IsFiniteSet(D), NEW s \in SUBSET D, NEW f, \A x \in D : f[x] \in Int,
           NEW h \in [SUBSET D -> Int], SumsOver(h, f, D)
    PROVE  SumFunctionOnSet(f, s) = h[s]
<1>1. IsFiniteSet(s) /\ \A x \in s : f[x] \in Int
  BY OneLess
<1>2. PICK g \in [SUBSET s -> Int] : SumsOver(g, f, s) /\ SumFunctionOnSet(f, s) = g[s]
  BY <1>1, SumIsValue
<1> DEFINE Good == {n \in Nat : \A t \in SUBSET s : Cardinality(t) = n => g[t] = h[t]}
<1>3. 0 \in Good
  <2>1. \A t \in SUBSET s : Cardinality(t) = 0 => t = {}
    BY OneLess
  <2> QED BY <1>2, <2>1 DEF SumsOver
<1>4. ASSUME NEW n \in Nat, n \in Good PROVE n + 1 \in Good
  <2> SUFFICES ASSUME NEW t \in SUBSET s, Cardinality(t) = n + 1 PROVE g[t] = h[t]
    OBVIOUS
  <2>1. t # {} /\ SomeOf(t) \in t /\ Cardinality(t \ {SomeOf(t)}) = n
    BY OneLess
  <2>2. g[t \ {SomeOf(t)}] = h[t \ {SomeOf(t)}]
    BY <1>4, <2>1
  <2>3. g[t] = f[SomeOf(t)] + g[t \ {SomeOf(t)}]
    BY <1>2, <2>1 DEF SumsOver
  <2>4. h[t] = f[SomeOf(t)] + h[t \ {SomeOf(t)}]
    BY <2>1 DEF SumsOver
  <2> QED BY <2>2, <2>3, <2>4
<1>5. \A n \in Nat : n \in Good
  <2> HIDE DEF Good
  <2> QED BY <1>3, <1>4, SetInduction
<1>6. Cardinality(s) \in Nat
  BY OneLess
<1> QED BY <1>2, <1>5, <1>6

\* The sum over no place.
LEMMA SumEmpty ==
    ASSUME NEW f
    PROVE  SumFunctionOnSet(f, {}) = 0
<1>1. PICK h \in [SUBSET {} -> Int] : SumsOver(h, f, {}) /\ SumFunctionOnSet(f, {}) = h[{}]
  BY SumIsValue, FS_EmptySet
<1> QED BY <1>1 DEF SumsOver

\* A sum with one place taken out.
LEMMA SumTakes ==
    ASSUME NEW D, IsFiniteSet(D), NEW f, \A x \in D : f[x] \in Int
    PROVE  /\ SumFunctionOnSet(f, D) \in Int
           /\ \A x \in D : SumFunctionOnSet(f, D) = f[x] + SumFunctionOnSet(f, D \ {x})
<1>1. PICK h \in [SUBSET D -> Int] : SumsOver(h, f, D)
  BY SumExists
<1>2. \A s \in SUBSET D : SumFunctionOnSet(f, s) = h[s]
  BY <1>1, SumsAgree
<1>3. Peels(h, f, D)
  BY <1>1, AnyOrder
<1>4. D \in SUBSET D /\ \A x \in D : D \ {x} \in SUBSET D
  OBVIOUS
<1> QED BY <1>1, <1>2, <1>3, <1>4 DEF Peels

\* The sum over one place more.
LEMMA SumAdds ==
    ASSUME NEW S, IsFiniteSet(S), NEW x, x \notin S, NEW f,
           f[x] \in Int, \A y \in S : f[y] \in Int
    PROVE  /\ SumFunctionOnSet(f, S) \in Int
           /\ SumFunctionOnSet(f, S \cup {x}) = f[x] + SumFunctionOnSet(f, S)
<1>1. IsFiniteSet(S \cup {x}) /\ \A y \in S \cup {x} : f[y] \in Int
  BY FS_AddElement
<1>2. x \in S \cup {x} /\ (S \cup {x}) \ {x} = S
  OBVIOUS
<1>3. \A y \in S \cup {x} : SumFunctionOnSet(f, S \cup {x})
                             = f[y] + SumFunctionOnSet(f, (S \cup {x}) \ {y})
  BY <1>1, SumTakes
<1>4. SumFunctionOnSet(f, S) \in Int
  BY SumTakes
<1> QED BY <1>2, <1>3, <1>4

\* Induction over the subsets of a finite set, for a set of sets.
LEMMA SubsetInduction ==
    ASSUME NEW S, IsFiniteSet(S), NEW G, {} \in G,
           \A T \in SUBSET S : \A x \in T : T \ {x} \in G => T \in G
    PROVE  S \in G
<1> DEFINE Good == {n \in Nat : \A T \in SUBSET S : Cardinality(T) = n => T \in G}
<1>1. 0 \in Good
  BY OneLess
<1>2. ASSUME NEW n \in Nat, n \in Good PROVE n + 1 \in Good
  <2> SUFFICES ASSUME NEW T \in SUBSET S, Cardinality(T) = n + 1 PROVE T \in G
    OBVIOUS
  <2>1. T # {} /\ SomeOf(T) \in T /\ Cardinality(T \ {SomeOf(T)}) = n
    BY OneLess
  <2>2. T \ {SomeOf(T)} \in G
    BY <1>2, <2>1
  <2> QED BY <2>1, <2>2
<1>3. \A n \in Nat : n \in Good
  <2> HIDE DEF Good
  <2> QED BY <1>1, <1>2, SetInduction
<1>4. Cardinality(S) \in Nat
  BY OneLess
<1> QED BY <1>3, <1>4

\* On S, h is f and a times g.
Combines(h, f, a, g, S) ==
    \A x \in S : f[x] \in Int /\ g[x] \in Int /\ h[x] = f[x] + a * g[x]

\* Sums of added and of multiplied values.
LEMMA SumsOf ==
    ASSUME NEW S, IsFiniteSet(S), NEW f, NEW g, NEW h, NEW a \in Int, Combines(h, f, a, g, S)
    PROVE  /\ SumFunctionOnSet(f, S) \in Int /\ SumFunctionOnSet(g, S) \in Int
           /\ SumFunctionOnSet(h, S) = SumFunctionOnSet(f, S) + a * SumFunctionOnSet(g, S)
<1> DEFINE Holds(T) == /\ SumFunctionOnSet(f, T) \in Int /\ SumFunctionOnSet(g, T) \in Int
                       /\ SumFunctionOnSet(h, T)
                            = SumFunctionOnSet(f, T) + a * SumFunctionOnSet(g, T)
           G == {T \in SUBSET S : Holds(T)}
<1>1. {} \in G
  <2>1. SumFunctionOnSet(f, {}) = 0 /\ SumFunctionOnSet(g, {}) = 0 /\ SumFunctionOnSet(h, {}) = 0
    BY SumEmpty
  <2> QED BY <2>1
<1>2. ASSUME NEW T \in SUBSET S, NEW x \in T, T \ {x} \in G PROVE T \in G
  <2>1. IsFiniteSet(T) /\ f[x] \in Int /\ g[x] \in Int
    BY FS_Subset DEF Combines
  <2>2. /\ \A y \in T : f[y] \in Int
        /\ \A y \in T : g[y] \in Int
        /\ \A y \in T : h[y] \in Int
    BY DEF Combines
  <2>3. /\ SumFunctionOnSet(f, T) = f[x] + SumFunctionOnSet(f, T \ {x})
        /\ SumFunctionOnSet(g, T) = g[x] + SumFunctionOnSet(g, T \ {x})
        /\ SumFunctionOnSet(h, T) = h[x] + SumFunctionOnSet(h, T \ {x})
    BY <2>1, <2>2, SumTakes
  <2>4. h[x] = f[x] + a * g[x]
    BY DEF Combines
  <2>5. Holds(T \ {x})
    BY <1>2
  <2>6. \A p \in Int, q \in Int : a * (p + q) = a * p + a * q /\ a * p \in Int
    OBVIOUS
  <2>7. a * (g[x] + SumFunctionOnSet(g, T \ {x})) = a * g[x] + a * SumFunctionOnSet(g, T \ {x})
    BY <2>1, <2>5, <2>6
  <2>8. a * g[x] \in Int /\ a * SumFunctionOnSet(g, T \ {x}) \in Int
    BY <2>1, <2>5, <2>6
  <2>9. Holds(T)
    BY <2>1, <2>3, <2>4, <2>5, <2>7, <2>8
  <2> HIDE DEF Holds
  <2> QED BY <2>9
<1>3. S \in G
  <2> HIDE DEF G
  <2> QED BY <1>1, <1>2, SubsetInduction
<1> QED BY <1>3

\* A sum of zeros.
LEMMA SumOfZeros ==
    ASSUME NEW S, IsFiniteSet(S), NEW f, \A x \in S : f[x] = 0
    PROVE  SumFunctionOnSet(f, S) = 0
<1> PICK a \in Int : a = -1
  OBVIOUS
<1>1. Combines(f, f, a, f, S)
  BY DEF Combines
<1>2. /\ SumFunctionOnSet(f, S) \in Int
      /\ SumFunctionOnSet(f, S) = SumFunctionOnSet(f, S) + a * SumFunctionOnSet(f, S)
  BY <1>1, SumsOf
<1> QED BY <1>2

\* Sums of the same values.
LEMMA SameSums ==
    ASSUME NEW S, IsFiniteSet(S), NEW f, NEW g, \A x \in S : f[x] \in Int /\ g[x] = f[x]
    PROVE  SumFunctionOnSet(f, S) \in Int /\ SumFunctionOnSet(g, S) = SumFunctionOnSet(f, S)
<1> PICK zero : \A x \in S : zero[x] = 0
  <2> WITNESS [x \in S |-> 0]
  <2> QED OBVIOUS
<1> PICK a \in Int : a = 1
  OBVIOUS
<1>1. Combines(g, f, a, zero, S)
  BY DEF Combines
<1>2. SumFunctionOnSet(zero, S) = 0
  BY SumOfZeros
<1>3. /\ SumFunctionOnSet(f, S) \in Int
      /\ SumFunctionOnSet(g, S) = SumFunctionOnSet(f, S) + a * SumFunctionOnSet(zero, S)
  BY <1>1, SumsOf
<1> QED BY <1>2, <1>3

\* Sums of even values are even, and so values that differ by even ones have
\* sums that do.
LEMMA EvenSums ==
    ASSUME NEW S, IsFiniteSet(S), NEW f, \A x \in S : f[x] \in Int /\ f[x] % 2 = 0
    PROVE  SumFunctionOnSet(f, S) \in Int /\ SumFunctionOnSet(f, S) % 2 = 0
<1> PICK zero : \A x \in S : zero[x] = 0
  <2> WITNESS [x \in S |-> 0]
  <2> QED OBVIOUS
<1> PICK half : \A x \in S : half[x] = f[x] \div 2
  <2> WITNESS [x \in S |-> f[x] \div 2]
  <2> QED OBVIOUS
<1> PICK a \in Int : a = 2
  OBVIOUS
<1>1. Combines(f, zero, a, half, S)
  BY DEF Combines
<1>3. SumFunctionOnSet(zero, S) = 0
  BY SumOfZeros
<1>4. /\ SumFunctionOnSet(half, S) \in Int
      /\ SumFunctionOnSet(f, S) = SumFunctionOnSet(zero, S) + a * SumFunctionOnSet(half, S)
  BY <1>1, SumsOf
<1> QED BY <1>3, <1>4

\* A sum over two sets, one of which may hold the zeros.
LEMMA SumOfParts ==
    ASSUME NEW S, IsFiniteSet(S), NEW T \in SUBSET S, NEW f, \A x \in S : f[x] \in Int
    PROVE  /\ SumFunctionOnSet(f, T) \in Int /\ SumFunctionOnSet(f, S \ T) \in Int
           /\ SumFunctionOnSet(f, S) = SumFunctionOnSet(f, T) + SumFunctionOnSet(f, S \ T)
           /\ (\A x \in S \ T : f[x] = 0) => SumFunctionOnSet(f, S) = SumFunctionOnSet(f, T)
<1> DEFINE Holds(R) == SumFunctionOnSet(f, T \cup R)
                         = SumFunctionOnSet(f, T) + SumFunctionOnSet(f, R)
           G == {R \in SUBSET (S \ T) : Holds(R)}
<1>1. IsFiniteSet(S \ T) /\ IsFiniteSet(T) /\ \A R \in SUBSET S : IsFiniteSet(R)
  BY FS_Subset
<1>2. \A R \in SUBSET S : SumFunctionOnSet(f, R) \in Int
  <2> SUFFICES ASSUME NEW R \in SUBSET S PROVE SumFunctionOnSet(f, R) \in Int
    OBVIOUS
  <2> QED BY <1>1, SumTakes
<1>3. {} \in G
  <2>1. SumFunctionOnSet(f, {}) = 0 /\ T \cup {} = T
    BY SumEmpty
  <2>2. SumFunctionOnSet(f, T) \in Int
    BY <1>2
  <2> QED BY <2>1, <2>2
<1>4. ASSUME NEW R \in SUBSET (S \ T), NEW x \in R, R \ {x} \in G PROVE R \in G
  <2>1. R \in SUBSET S /\ T \cup R \in SUBSET S /\ R \ {x} \in SUBSET S
    OBVIOUS
  <2>2. /\ IsFiniteSet(T \cup R) /\ IsFiniteSet(R)
        /\ \A y \in T \cup R : f[y] \in Int
        /\ \A y \in R : f[y] \in Int
    BY <1>1, <2>1
  <2>3. SumFunctionOnSet(f, T \cup R) = f[x] + SumFunctionOnSet(f, (T \cup R) \ {x})
    <3>1. x \in T \cup R
      OBVIOUS
    <3> QED BY <2>2, <3>1, SumTakes
  <2>4. SumFunctionOnSet(f, R) = f[x] + SumFunctionOnSet(f, R \ {x})
    BY <2>2, SumTakes
  <2>5. (T \cup R) \ {x} = T \cup (R \ {x})
    OBVIOUS
  <2>6. SumFunctionOnSet(f, (T \cup R) \ {x})
          = SumFunctionOnSet(f, T) + SumFunctionOnSet(f, R \ {x})
    BY <1>4, <2>5
  <2>7. /\ f[x] \in Int /\ SumFunctionOnSet(f, T) \in Int
        /\ SumFunctionOnSet(f, R \ {x}) \in Int
    BY <1>2, <2>1, <2>2
  <2>8. Holds(R)
    BY <2>3, <2>4, <2>6, <2>7
  <2> HIDE DEF Holds
  <2> QED BY <2>8
<1>5. S \ T \in G
  <2> HIDE DEF G
  <2> QED BY <1>1, <1>3, <1>4, SubsetInduction
<1>6. T \cup (S \ T) = S
  OBVIOUS
<1>7. SumFunctionOnSet(f, T) \in Int /\ SumFunctionOnSet(f, S \ T) \in Int
  BY <1>2
<1>8. SumFunctionOnSet(f, S) = SumFunctionOnSet(f, T) + SumFunctionOnSet(f, S \ T)
  BY <1>5, <1>6
<1>9. (\A x \in S \ T : f[x] = 0) => SumFunctionOnSet(f, S \ T) = 0
  BY <1>1, SumOfZeros
<1> QED BY <1>7, <1>8, <1>9

\* g is f at other places: b takes T to S, no two places to the same one.
Reindexes(g, T, b, f, S) ==
    /\ \A t \in T : b[t] \in S /\ g[t] = f[b[t]]
    /\ \A t, u \in T : b[t] = b[u] => t = u
    /\ \A x \in S : \E t \in T : b[t] = x

\* Places may be renamed.
LEMMA SumReindexed ==
    ASSUME NEW S, IsFiniteSet(S), NEW T, IsFiniteSet(T), NEW f, \A x \in S : f[x] \in Int,
           NEW g, NEW b, Reindexes(g, T, b, f, S)
    PROVE  SumFunctionOnSet(g, T) = SumFunctionOnSet(f, S)
<1> DEFINE To(R) == {b[t] : t \in R}
           Holds(R) == SumFunctionOnSet(g, R) = SumFunctionOnSet(f, To(R))
           G == {R \in SUBSET T : Holds(R)}
<1>1. {} \in G
  <2>1. To({}) = {}
    OBVIOUS
  <2>2. SumFunctionOnSet(g, {}) = 0 /\ SumFunctionOnSet(f, {}) = 0
    BY SumEmpty
  <2>3. Holds({})
    BY <2>1, <2>2
  <2> HIDE DEF Holds
  <2> QED BY <2>3
<1>2. ASSUME NEW R \in SUBSET T, NEW t \in R, R \ {t} \in G PROVE R \in G
  <2>1. IsFiniteSet(R) /\ To(R) \in SUBSET S /\ b[t] \in To(R)
    BY FS_Subset DEF Reindexes
  <2>2. To(R) \ {b[t]} = To(R \ {t})
    BY DEF Reindexes
  <2>3. IsFiniteSet(To(R))
    <3> HIDE DEF To
    <3> QED BY <2>1, FS_Subset
  <2>4. \A x \in R : g[x] \in Int
    BY DEF Reindexes
  <2>5. \A x \in To(R) : f[x] \in Int
    BY <2>1
  <2>6. SumFunctionOnSet(g, R \ {t}) = SumFunctionOnSet(f, To(R) \ {b[t]})
    BY <1>2, <2>2
  <2>7. g[t] = f[b[t]]
    BY DEF Reindexes
  <2>8. SumFunctionOnSet(g, R) = g[t] + SumFunctionOnSet(g, R \ {t})
    BY <2>1, <2>4, SumTakes
  <2>9. SumFunctionOnSet(f, To(R)) = f[b[t]] + SumFunctionOnSet(f, To(R) \ {b[t]})
    <3> HIDE DEF To
    <3> QED BY <2>1, <2>3, <2>5, SumTakes
  <2>10. Holds(R)
    BY <2>6, <2>7, <2>8, <2>9
  <2> HIDE DEF Holds
  <2> QED BY <2>10
<1>3. T \in G
  <2> HIDE DEF G
  <2> QED BY <1>1, <1>2, SubsetInduction
<1>4. To(T) = S
  BY DEF Reindexes
<1> QED BY <1>3, <1>4

\* r holds the sums of the rows of F, c those of the columns.
RowsOf(r, F, S, T) == \A x \in S : r[x] = SumFunctionOnSet(F[x], T)
ColumnsOf(c, F, S, T) == \A y \in T : c[y] = SumFunctionOnSet([x \in S |-> F[x][y]], S)

\* A table has one sum, by rows and by columns.
LEMMA SumExchanged ==
    ASSUME NEW S, IsFiniteSet(S), NEW T, IsFiniteSet(T), NEW F,
           \A x \in S : \A y \in T : F[x][y] \in Int,
           NEW r, RowsOf(r, F, S, T), NEW c, ColumnsOf(c, F, S, T)
    PROVE  SumFunctionOnSet(r, S) = SumFunctionOnSet(c, T)
<1> DEFINE col(y) == [x \in S |-> F[x][y]]
           part(R) == [y \in T |-> SumFunctionOnSet(col(y), R)]
           Holds(R) == SumFunctionOnSet(r, R) = SumFunctionOnSet(part(R), T)
           G == {R \in SUBSET S : Holds(R)}
<1>1. {} \in G
  <2>1. \A y \in T : SumFunctionOnSet(col(y), {}) = 0
    BY SumEmpty
  <2>2. \A y \in T : part({})[y] = 0
    BY <2>1
  <2>3. SumFunctionOnSet(part({}), T) = 0
    <3> HIDE DEF part
    <3> QED BY <2>2, SumOfZeros
  <2>4. SumFunctionOnSet(r, {}) = 0
    BY SumEmpty
  <2>5. Holds({})
    BY <2>3, <2>4
  <2> HIDE DEF Holds
  <2> QED BY <2>5
<1>2. \A x \in S : r[x] \in Int
  <2> SUFFICES ASSUME NEW x \in S PROVE r[x] \in Int
    OBVIOUS
  <2>1. \A y \in T : F[x][y] \in Int
    OBVIOUS
  <2>2. SumFunctionOnSet(F[x], T) \in Int
    BY <2>1, SumTakes
  <2> QED BY <2>2 DEF RowsOf
<1>3. ASSUME NEW R \in SUBSET S, NEW y \in T
      PROVE  /\ SumFunctionOnSet(col(y), R) \in Int
             /\ \A x \in R : SumFunctionOnSet(col(y), R)
                               = F[x][y] + SumFunctionOnSet(col(y), R \ {x})
  <2>1. IsFiniteSet(R) /\ \A x \in R : col(y)[x] = F[x][y] /\ col(y)[x] \in Int
    BY FS_Subset
  <2> HIDE DEF col
  <2>2. /\ SumFunctionOnSet(col(y), R) \in Int
        /\ \A x \in R : SumFunctionOnSet(col(y), R)
                          = col(y)[x] + SumFunctionOnSet(col(y), R \ {x})
    BY <2>1, SumTakes
  <2> QED BY <2>1, <2>2
<1>4. ASSUME NEW R \in SUBSET S, NEW x \in R, R \ {x} \in G PROVE R \in G
  <2> PICK a \in Int : a = 1
    OBVIOUS
  <2>1. R \ {x} \in SUBSET S
    OBVIOUS
  <2>2. /\ \A y \in T : part(R \ {x})[y] \in Int
        /\ \A y \in T : part(R)[y] = F[x][y] + part(R \ {x})[y]
        /\ \A y \in T : F[x][y] \in Int
    <3> HIDE DEF col
    <3> QED BY <1>3, <2>1
  <2>3. Combines(part(R), part(R \ {x}), a, F[x], T)
    <3>1. \A z \in Int : a * z = z
      OBVIOUS
    <3>2. \A y \in T : a * F[x][y] = F[x][y]
      BY <2>2, <3>1
    <3>3. \A y \in T : part(R)[y] = part(R \ {x})[y] + a * F[x][y]
      <4> SUFFICES ASSUME NEW y \in T PROVE part(R)[y] = part(R \ {x})[y] + a * F[x][y]
        OBVIOUS
      <4>1. a * F[x][y] = F[x][y]
        BY <3>2
      <4>2. F[x][y] \in Int /\ part(R \ {x})[y] \in Int
        BY <2>2
      <4>3. part(R)[y] = F[x][y] + part(R \ {x})[y]
        BY <2>2
      <4> HIDE DEF part
      <4> QED BY <4>1, <4>2, <4>3
    <3> HIDE DEF part
    <3> QED BY <2>2, <3>3 DEF Combines
  <2>4. /\ SumFunctionOnSet(part(R \ {x}), T) \in Int /\ SumFunctionOnSet(F[x], T) \in Int
        /\ SumFunctionOnSet(part(R), T)
             = SumFunctionOnSet(part(R \ {x}), T) + a * SumFunctionOnSet(F[x], T)
    <3> HIDE DEF part
    <3> QED BY <2>3, SumsOf
  <2>5. SumFunctionOnSet(r, R) = r[x] + SumFunctionOnSet(r, R \ {x})
    <3>1. IsFiniteSet(R) /\ \A z \in R : r[z] \in Int
      BY <1>2, FS_Subset
    <3> QED BY <3>1, SumTakes
  <2>6. r[x] = SumFunctionOnSet(F[x], T)
    BY DEF RowsOf
  <2>7. SumFunctionOnSet(r, R \ {x}) = SumFunctionOnSet(part(R \ {x}), T)
    BY <1>4
  <2>8. Holds(R)
    <3> HIDE DEF part
    <3> QED BY <2>4, <2>5, <2>6, <2>7
  <2> HIDE DEF Holds
  <2> QED BY <2>8
<1>5. S \in G
  <2> HIDE DEF G
  <2> QED BY <1>1, <1>4, SubsetInduction
<1>6. \A y \in T : part(S)[y] \in Int /\ c[y] = part(S)[y]
  BY <1>3 DEF ColumnsOf
<1>7. SumFunctionOnSet(c, T) = SumFunctionOnSet(part(S), T)
  <2> HIDE DEF part
  <2> QED BY <1>6, SameSums
<1> QED BY <1>5, <1>7

\* A sum of multiples.
LEMMA SumScaled ==
    ASSUME NEW S, IsFiniteSet(S), NEW f, NEW g, NEW a \in Int,
           \A x \in S : f[x] \in Int /\ g[x] = a * f[x]
    PROVE  /\ SumFunctionOnSet(f, S) \in Int
           /\ SumFunctionOnSet(g, S) = a * SumFunctionOnSet(f, S)
<1> PICK zero : \A x \in S : zero[x] = 0
  <2> WITNESS [x \in S |-> 0]
  <2> QED OBVIOUS
<1>1. Combines(g, zero, a, f, S)
  BY DEF Combines
<1>2. SumFunctionOnSet(zero, S) = 0
  BY SumOfZeros
<1>3. /\ SumFunctionOnSet(f, S) \in Int
      /\ SumFunctionOnSet(g, S) = SumFunctionOnSet(zero, S) + a * SumFunctionOnSet(f, S)
  BY <1>1, SumsOf
<1> QED BY <1>2, <1>3

-----------------------------------------------------------------------------
(* Registers.                                                              *)

Bits == {0, 1}

\* Taps of a register of length L, with the one of the bit itself.
TapsOf(L) == {t \in [0..L -> Bits] : t[0] = 1}

\* The sum that is even if the register predicts bit k from those before it.
Terms(s, t, L, k) == [j \in 0..L |-> t[j] * s[k - j + 1]]
Check(s, t, L, k) == SumFunctionOnSet(Terms(s, t, L, k), 0..L)
Predicts(s, t, L, k) == Check(s, t, L, k) % 2 = 0

\* The terms are numbers.
LEMMA TermsType ==
    ASSUME NEW s \in Seq(Bits), NEW L \in Nat, NEW t, NEW k \in L..(Len(s) - 1),
           \A j \in 0..L : t[j] \in Bits
    PROVE  /\ \A j \in 0..L : s[k - j + 1] \in Bits
           /\ \A j \in 0..L : Terms(s, t, L, k)[j] \in Int
           /\ Check(s, t, L, k) \in Int /\ IsFiniteSet(0..L)
<1>1. \A j \in 0..L : k - j + 1 \in 1..Len(s)
  OBVIOUS
<1>2. \A j \in 0..L : s[k - j + 1] \in Bits
  BY <1>1
<1>3. \A p, q \in Bits : p * q \in Int
  BY DEF Bits
<1>4. \A j \in 0..L : Terms(s, t, L, k)[j] \in Int
  BY <1>2, <1>3 DEF Terms
<1>5. IsFiniteSet(0..L)
  BY FS_Interval
<1> QED BY <1>2, <1>4, <1>5, SumTakes DEF Check

\* Two registers, of which one fails first at bit q and the other one does not,
\* have lengths of more than q together (Massey).
LEMMA Massey ==
    ASSUME NEW s \in Seq(Bits), NEW q \in 0..(Len(s) - 1),
           NEW L \in Nat, NEW t \in TapsOf(L), NEW M \in Nat, NEW u \in TapsOf(M),
           \A k \in L..(q - 1) : Predicts(s, t, L, k), ~Predicts(s, t, L, q),
           \A k \in M..q : Predicts(s, u, M, k)
    PROVE  L + M > q
<1> SUFFICES ASSUME L + M <= q PROVE FALSE
  OBVIOUS
<1> DEFINE S == 0..L
           T == 0..M
           F == [x \in S |-> [y \in T |-> t[x] * (u[y] * s[q - x - y + 1])]]
           r == [x \in S |-> t[x] * Check(s, u, M, q - x)]
           c == [y \in T |-> u[y] * Check(s, t, L, q - y)]
<1>1. IsFiniteSet(S) /\ IsFiniteSet(T) /\ IsFiniteSet(T \ {0})
  <2>1. IsFiniteSet(S) /\ IsFiniteSet(T)
    BY FS_Interval
  <2>2. T \ {0} \in SUBSET T
    OBVIOUS
  <2> HIDE DEF S, T
  <2> QED BY <2>1, <2>2, FS_Subset
<1>2. /\ \A x \in S : t[x] \in Bits /\ q - x \in M..(Len(s) - 1) /\ q - x \in M..q
      /\ \A y \in T : u[y] \in Bits /\ q - y \in L..(Len(s) - 1) /\ q - y \in L..q
      /\ t[0] = 1 /\ u[0] = 1
  BY DEF TapsOf
<1>3. \A x \in S : \A y \in T : s[q - x - y + 1] \in Bits
  <2> SUFFICES ASSUME NEW x \in S, NEW y \in T PROVE s[q - x - y + 1] \in Bits
    OBVIOUS
  <2>1. q - x - y + 1 \in 1..Len(s)
    OBVIOUS
  <2> QED BY <2>1
<1>4. \A x \in S : \A y \in T : F[x][y] \in Int
  <2>1. \A p, o, w \in Bits : p * (o * w) \in Int
    BY DEF Bits
  <2> QED BY <1>2, <1>3, <2>1
<1>5. \A x \in S : SumFunctionOnSet(F[x], T) = r[x] /\ r[x] \in Int /\ r[x] % 2 = 0
  <2> SUFFICES ASSUME NEW x \in S
               PROVE  SumFunctionOnSet(F[x], T) = r[x] /\ r[x] \in Int /\ r[x] % 2 = 0
    OBVIOUS
  <2>1. \A y \in T : Terms(s, u, M, q - x)[y] \in Int
    BY <1>2, TermsType
  <2>2. \A y \in T : F[x][y] = t[x] * Terms(s, u, M, q - x)[y]
    BY DEF Terms
  <2>3. t[x] \in Int
    BY <1>2 DEF Bits
  <2>4. SumFunctionOnSet(F[x], T) = t[x] * SumFunctionOnSet(Terms(s, u, M, q - x), T)
    <3> HIDE DEF F
    <3> QED BY <1>1, <2>1, <2>2, <2>3, SumScaled, SMTT(40)
  <2>5. Check(s, u, M, q - x) \in Int /\ Check(s, u, M, q - x) % 2 = 0
    BY <1>2, TermsType DEF Predicts
  <2>6. r[x] = 0 \/ r[x] = Check(s, u, M, q - x)
    BY <1>2, <2>5, SMTT(40) DEF Bits
  <2> QED BY <2>4, <2>5, <2>6 DEF Check
<1>6. \A y \in T : c[y] \in Int /\ (y # 0 => c[y] % 2 = 0) /\ (y = 0 => c[y] % 2 = 1)
  <2> SUFFICES ASSUME NEW y \in T
               PROVE  c[y] \in Int /\ (y # 0 => c[y] % 2 = 0) /\ (y = 0 => c[y] % 2 = 1)
    OBVIOUS
  <2>1. Check(s, t, L, q - y) \in Int
    BY <1>2, TermsType
  <2>2. c[y] = 0 \/ c[y] = Check(s, t, L, q - y)
    BY <1>2, <2>1 DEF Bits
  <2>3. y # 0 => Check(s, t, L, q - y) % 2 = 0
    <3> SUFFICES ASSUME y # 0 PROVE Predicts(s, t, L, q - y)
      BY DEF Predicts
    <3>1. q - y \in L..(q - 1)
      BY <1>2
    <3> QED BY <3>1
  <2>4. y = 0 => c[y] = Check(s, t, L, q) /\ Check(s, t, L, q) % 2 = 1
    <3> SUFFICES ASSUME y = 0 PROVE c[y] = Check(s, t, L, q) /\ Check(s, t, L, q) % 2 = 1
      OBVIOUS
    <3>1. q - 0 = q
      OBVIOUS
    <3>2. c[y] = Check(s, t, L, q) /\ Check(s, t, L, q) \in Int
      BY <1>2, <2>1, <3>1
    <3>3. Check(s, t, L, q) % 2 # 0
      BY DEF Predicts
    <3> QED BY <3>2, <3>3
  <2> HIDE DEF c
  <2> QED BY <2>1, <2>2, <2>3, <2>4
<1>7. \A y \in T : c[y] = SumFunctionOnSet([x \in S |-> F[x][y]], S)
  <2> SUFFICES ASSUME NEW y \in T PROVE c[y] = SumFunctionOnSet([x \in S |-> F[x][y]], S)
    OBVIOUS
  <2> DEFINE col == [x \in S |-> F[x][y]]
  <2>1. \A x \in S : Terms(s, t, L, q - y)[x] \in Int
    BY <1>2, TermsType
  <2>2. u[y] \in Int
    BY <1>2 DEF Bits
  <2>3. \A x \in S : col[x] = u[y] * Terms(s, t, L, q - y)[x]
    <3> SUFFICES ASSUME NEW x \in S PROVE col[x] = u[y] * Terms(s, t, L, q - y)[x]
      OBVIOUS
    <3>1. q - y - x = q - x - y
      OBVIOUS
    <3>2. Terms(s, t, L, q - y)[x] = t[x] * s[q - x - y + 1]
      BY <3>1 DEF Terms
    <3>3. \A p, o, w \in Bits : p * (o * w) = o * (p * w)
      BY DEF Bits
    <3> QED BY <1>2, <1>3, <3>2, <3>3, SMTT(40)
  <2> HIDE DEF col
  <2>4. SumFunctionOnSet(col, S) = u[y] * SumFunctionOnSet(Terms(s, t, L, q - y), S)
    BY <1>1, <2>1, <2>2, <2>3, SumScaled
  <2> QED BY <2>4 DEF col, Check
<1>8. SumFunctionOnSet(r, S) = SumFunctionOnSet(c, T)
  <2>1. RowsOf(r, F, S, T)
    BY <1>5 DEF RowsOf
  <2>2. ColumnsOf(c, F, S, T)
    BY <1>7 DEF ColumnsOf
  <2> HIDE DEF r, c, F, S, T
  <2> QED BY <1>1, <1>4, <2>1, <2>2, SumExchanged
<1>9. SumFunctionOnSet(r, S) % 2 = 0
  <2> HIDE DEF r, S
  <2> QED BY <1>1, <1>5, EvenSums
<1>10. SumFunctionOnSet(c, T) = c[0] + SumFunctionOnSet(c, T \ {0})
  <2>1. 0 \in T
    OBVIOUS
  <2> HIDE DEF c, T
  <2> QED BY <1>1, <1>6, <2>1, SumTakes
<1>11. SumFunctionOnSet(c, T \ {0}) \in Int /\ SumFunctionOnSet(c, T \ {0}) % 2 = 0
  <2> HIDE DEF c, T
  <2>1. \A y \in T \ {0} : c[y] \in Int /\ c[y] % 2 = 0
    BY <1>6
  <2> QED BY <1>1, <2>1, EvenSums
<1>12. c[0] \in Int /\ c[0] % 2 = 1
  BY <1>6
<1> HIDE DEF c, r, S, T
<1> QED BY <1>8, <1>9, <1>10, <1>11, <1>12

\* The taps up to L are bits and the same.
SameUpTo(t, u, L) == \A j \in 0..L : t[j] \in Bits /\ u[j] = t[j]

\* Only the taps up to L matter.
LEMMA SameTaps ==
    ASSUME NEW s \in Seq(Bits), NEW L \in Nat, NEW t, NEW u, NEW k \in L..(Len(s) - 1),
           SameUpTo(t, u, L)
    PROVE  Check(s, u, L, k) = Check(s, t, L, k) /\ Check(s, t, L, k) \in Int
<1> USE DEF SameUpTo
<1>1. \A j \in 0..L : Terms(s, t, L, k)[j] \in Int
  BY TermsType
<1>2. \A j \in 0..L : Terms(s, u, L, k)[j] = Terms(s, t, L, k)[j]
  BY DEF Terms
<1>3. IsFiniteSet(0..L)
  BY FS_Interval
<1>4. SumFunctionOnSet(Terms(s, u, L, k), 0..L) = SumFunctionOnSet(Terms(s, t, L, k), 0..L)
  BY <1>1, <1>2, <1>3, SameSums
<1> QED BY <1>4, TermsType DEF Check

\* The coefficient that a register of any length up to k checks.
Coef(s, t, k) == Check(s, t, k, k)

\* Taps of 0 do not matter.
LEMMA CoefOf ==
    ASSUME NEW s \in Seq(Bits), NEW L \in Nat, NEW t, NEW k \in L..(Len(s) - 1),
           \A j \in 0..k : t[j] \in Bits /\ (j > L => t[j] = 0)
    PROVE  Check(s, t, L, k) = Coef(s, t, k) /\ Coef(s, t, k) \in Int
<1>1. k \in Nat /\ k \in k..(Len(s) - 1) /\ 0..L \in SUBSET (0..k)
  OBVIOUS
<1>2. /\ \A j \in 0..k : s[k - j + 1] \in Bits /\ Terms(s, t, k, k)[j] \in Int
      /\ IsFiniteSet(0..k) /\ IsFiniteSet(0..L) /\ Check(s, t, k, k) \in Int
  <2>1. \A j \in 0..k : t[j] \in Bits
    OBVIOUS
  <2>2. IsFiniteSet(0..L)
    BY FS_Interval
  <2> QED BY <1>1, <2>1, <2>2, TermsType
<1>3. \A j \in (0..k) \ (0..L) : Terms(s, t, k, k)[j] = 0
  <2>1. \A x \in Bits : 0 * x = 0
    BY DEF Bits
  <2>2. \A j \in (0..k) \ (0..L) : t[j] = 0 /\ j \in 0..k
    OBVIOUS
  <2>3. \A j \in (0..k) \ (0..L) : Terms(s, t, k, k)[j] = t[j] * s[k - j + 1]
    BY DEF Terms
  <2> QED BY <1>2, <2>1, <2>2, <2>3
<1>4. SumFunctionOnSet(Terms(s, t, k, k), 0..k) = SumFunctionOnSet(Terms(s, t, k, k), 0..L)
  BY <1>1, <1>2, <1>3, SumOfParts, ZenonT(60)
<1>5. \A j \in 0..L : /\ Terms(s, t, k, k)[j] \in Int
                      /\ Terms(s, t, L, k)[j] = Terms(s, t, k, k)[j]
  BY <1>1, <1>2 DEF Terms
<1>6. SumFunctionOnSet(Terms(s, t, L, k), 0..L) = SumFunctionOnSet(Terms(s, t, k, k), 0..L)
  BY <1>2, <1>5, SameSums
<1> QED BY <1>2, <1>4, <1>6 DEF Check, Coef

\* What a turn computes is the coefficient.
LEMMA DiscrepancyIs ==
    ASSUME NEW s \in Seq(Bits), NEW L \in Nat, NEW t, NEW k \in L..(Len(s) - 1),
           t[0] = 1, \A j \in 1..L : t[j] \in Bits
    PROVE  /\ Discrepancy(s, t, L, k) = Check(s, t, L, k) % 2
           /\ SumFunction([j \in 1..L |-> t[j] * s[k - j + 1]]) \in Int
           /\ Check(s, t, L, k)
                = s[k + 1] + SumFunction([j \in 1..L |-> t[j] * s[k - j + 1]])
<1> DEFINE w == [j \in 1..L |-> t[j] * s[k - j + 1]]
<1>1. \A j \in 0..L : t[j] \in Bits
  BY DEF Bits
<1>2. /\ \A j \in 0..L : Terms(s, t, L, k)[j] \in Int
      /\ IsFiniteSet(0..L) /\ s[k - 0 + 1] \in Bits
  BY <1>1, TermsType
<1>3. Check(s, t, L, k) = Terms(s, t, L, k)[0]
                            + SumFunctionOnSet(Terms(s, t, L, k), (0..L) \ {0})
  <2>1. 0 \in 0..L
    OBVIOUS
  <2> QED BY <1>2, <2>1, SumTakes DEF Check
<1>4. (0..L) \ {0} = 1..L
  OBVIOUS
<1>5. Terms(s, t, L, k)[0] = s[k + 1]
  <2>1. k - 0 + 1 = k + 1 /\ 0 \in 0..L /\ \A x \in Bits : 1 * x = x
    BY DEF Bits
  <2> QED BY <1>2, <2>1 DEF Terms
<1>6. \A j \in 1..L : Terms(s, t, L, k)[j] \in Int /\ w[j] = Terms(s, t, L, k)[j]
  BY <1>2 DEF Terms
<1>7. /\ SumFunctionOnSet(Terms(s, t, L, k), 1..L) \in Int
      /\ SumFunctionOnSet(w, 1..L) = SumFunctionOnSet(Terms(s, t, L, k), 1..L)
  <2>1. IsFiniteSet(1..L)
    BY FS_Interval
  <2> HIDE DEF w
  <2> QED BY <1>6, <2>1, SameSums
<1>8. SumFunction(w) = SumFunctionOnSet(w, 1..L)
  BY DEF SumFunction
<1> HIDE DEF w
<1>9. Check(s, t, L, k) = s[k + 1] + SumFunction(w)
  BY <1>3, <1>4, <1>5, <1>7, <1>8
<1> QED BY <1>7, <1>8, <1>9 DEF w, Discrepancy

\* The two sums, at the places of the shifted taps.
LEMMA ShiftedSum ==
    ASSUME NEW s \in Seq(Bits), NEW b, NEW shift \in Nat, NEW k \in shift..(Len(s) - 1),
           \A j \in 0..(k - shift) : b[j] \in Bits, NEW e,
           \A j \in 0..k : e[j] = IF j >= shift THEN b[j - shift] * s[k - j + 1] ELSE 0
    PROVE  SumFunctionOnSet(e, 0..k) = Coef(s, b, k - shift)
<1> DEFINE m == k - shift
           back == [j \in shift..k |-> j - shift]
<1>1. m \in Nat /\ m \in m..(Len(s) - 1) /\ shift..k \in SUBSET (0..k)
  OBVIOUS
<1>2. /\ \A j \in 0..m : Terms(s, b, m, m)[j] \in Int /\ s[m - j + 1] \in Bits
      /\ IsFiniteSet(0..m)
  <2> HIDE DEF m
  <2>1. \A j \in 0..m : b[j] \in Bits
    BY DEF m
  <2> QED BY <1>1, <2>1, TermsType
<1>3. IsFiniteSet(0..k) /\ IsFiniteSet(shift..k)
  BY FS_Interval
<1>4. \A j \in shift..k : /\ j - shift \in 0..m /\ m - (j - shift) + 1 = k - j + 1
                          /\ e[j] = b[j - shift] * s[k - j + 1]
  OBVIOUS
<1>5. Reindexes(e, shift..k, back, Terms(s, b, m, m), 0..m)
  <2>1. \A j \in shift..k : back[j] \in 0..m /\ e[j] = Terms(s, b, m, m)[back[j]]
    <3> SUFFICES ASSUME NEW j \in shift..k
                 PROVE  back[j] \in 0..m /\ e[j] = Terms(s, b, m, m)[back[j]]
      OBVIOUS
    <3>1. back[j] = j - shift
      OBVIOUS
    <3>2. Terms(s, b, m, m)[j - shift] = b[j - shift] * s[m - (j - shift) + 1]
      BY <1>4 DEF Terms
    <3> QED BY <1>4, <3>1, <3>2
  <2>2. \A j, i \in shift..k : back[j] = back[i] => j = i
    OBVIOUS
  <2>3. \A x \in 0..m : \E j \in shift..k : back[j] = x
    <3> SUFFICES ASSUME NEW x \in 0..m PROVE \E j \in shift..k : back[j] = x
      OBVIOUS
    <3>1. x + shift \in shift..k /\ back[x + shift] = x
      OBVIOUS
    <3> QED BY <3>1
  <2> HIDE DEF back, m
  <2> QED BY <2>1, <2>2, <2>3 DEF Reindexes
<1>6. SumFunctionOnSet(e, shift..k) = SumFunctionOnSet(Terms(s, b, m, m), 0..m)
  <2> HIDE DEF back, m
  <2> QED BY <1>2, <1>3, <1>5, SumReindexed
<1>7. \A j \in 0..k : e[j] \in Int
  <2> SUFFICES ASSUME NEW j \in 0..k PROVE e[j] \in Int
    OBVIOUS
  <2>1. CASE j >= shift
    <3>1. b[j - shift] \in Bits /\ s[k - j + 1] \in Bits /\ e[j] = b[j - shift] * s[k - j + 1]
      BY <1>2, <1>4, <2>1
    <3> QED BY <3>1 DEF Bits
  <2>2. CASE ~(j >= shift)
    BY <2>2
  <2> QED BY <2>1, <2>2
<1>8. \A j \in (0..k) \ (shift..k) : e[j] = 0
  OBVIOUS
<1>9. SumFunctionOnSet(e, 0..k) = SumFunctionOnSet(e, shift..k)
  <2> HIDE DEF m
  <2> QED BY <1>1, <1>3, <1>7, <1>8, SumOfParts
<1> HIDE DEF m
<1> QED BY <1>6, <1>9 DEF Coef, Check, m

\* d is c with, modulo 2, the shifted b added.
Combined(d, n, c, b, shift) ==
    /\ d \in [0..(n - 1) -> Bits]
    /\ \A j \in 0..(n - 1) :
          /\ j < shift => d[j] = c[j]
          /\ j >= shift => /\ j - shift \in 0..(n - 1)
                           /\ d[j] = c[j] + b[j - shift] - 2 * (c[j] * b[j - shift])

\* Combine adds, modulo 2, the shifted taps.
LEMMA CombineType ==
    ASSUME NEW n \in Nat, NEW c \in [0..(n - 1) -> Bits], NEW b \in [0..(n - 1) -> Bits],
           NEW shift \in Nat
    PROVE  Combined(Combine(n, c, b, shift), n, c, b, shift)
<1>1. \A j \in 0..(n - 1) : c[j] \in Bits
  OBVIOUS
<1>2. \A j \in 0..(n - 1) : j >= shift => j - shift \in 0..(n - 1) /\ b[j - shift] \in Bits
  OBVIOUS
<1>3. \A x, y \in Bits : /\ 1 - x \in Bits
                         /\ (IF y = 1 THEN 1 - x ELSE x) = x + y - 2 * (x * y)
  BY DEF Bits
<1>4. \A j \in 0..(n - 1) : j >= shift =>
         Combine(n, c, b, shift)[j] = (IF b[j - shift] = 1 THEN 1 - c[j] ELSE c[j])
  BY DEF Combine
<1>5. \A j \in 0..(n - 1) : j < shift => Combine(n, c, b, shift)[j] = c[j]
  BY DEF Combine
<1>6. \A j \in 0..(n - 1) : j >= shift =>
         Combine(n, c, b, shift)[j] = c[j] + b[j - shift] - 2 * (c[j] * b[j - shift])
  BY <1>1, <1>2, <1>3, <1>4
<1>7. \A j \in 0..(n - 1) :
         (IF j >= shift /\ b[j - shift] = 1 THEN 1 - c[j] ELSE c[j]) \in Bits
  BY <1>1, <1>3
<1>8. Combine(n, c, b, shift) \in [0..(n - 1) -> Bits]
  BY <1>7 DEF Combine
<1> QED BY <1>2, <1>5, <1>6, <1>8 DEF Combined

\* Two numbers that are both even or both odd have an even sum.
LEMMA EqualParity ==
    ASSUME NEW x \in Int, NEW y \in Int, x % 2 = y % 2
    PROVE  (x + y) % 2 = 0
  OBVIOUS

\* The coefficient of d is, modulo 2, the sum of the two.
AddsUp(s, d, c, b, shift, k) ==
    /\ Coef(s, c, k) \in Int
    /\ k < shift => Coef(s, d, k) = Coef(s, c, k)
    /\ k >= shift => /\ Coef(s, b, k - shift) \in Int
                     /\ Coef(s, d, k) % 2 = (Coef(s, c, k) + Coef(s, b, k - shift)) % 2

\* What the combined taps check is the sum of what the two check.
LEMMA CombinedCoef ==
    ASSUME NEW s \in Seq(Bits), NEW c \in [0..(Len(s) - 1) -> Bits],
           NEW b \in [0..(Len(s) - 1) -> Bits], NEW shift \in Nat,
           NEW d, Combined(d, Len(s), c, b, shift), NEW k \in 0..(Len(s) - 1)
    PROVE  AddsUp(s, d, c, b, shift, k)
<1> PICK n \in Nat : n = Len(s)
  OBVIOUS
<1>1. Combined(d, n, c, b, shift)
  OBVIOUS
<1>2. k \in Nat /\ k \in k..(Len(s) - 1) /\ \A j \in 0..k : j \in 0..(n - 1)
  OBVIOUS
<1>3. \A j \in 0..k : c[j] \in Bits /\ d[j] \in Bits
  BY <1>1, <1>2 DEF Combined
<1>4. /\ \A j \in 0..k : s[k - j + 1] \in Bits
      /\ \A j \in 0..k : Terms(s, c, k, k)[j] \in Int
      /\ \A j \in 0..k : Terms(s, d, k, k)[j] \in Int
      /\ Check(s, c, k, k) \in Int /\ Check(s, d, k, k) \in Int /\ IsFiniteSet(0..k)
  BY <1>2, <1>3, TermsType
<1>5. ASSUME k < shift PROVE Coef(s, d, k) = Coef(s, c, k)
  <2>1. SameUpTo(c, d, k)
    BY <1>1, <1>2, <1>3, <1>5 DEF Combined, SameUpTo
  <2>2. Check(s, d, k, k) = Check(s, c, k, k)
    BY <1>2, <2>1, SameTaps
  <2> QED BY <2>2 DEF Coef
<1>6. ASSUME k >= shift
      PROVE  /\ Coef(s, b, k - shift) \in Int
             /\ Coef(s, d, k) % 2 = (Coef(s, c, k) + Coef(s, b, k - shift)) % 2
  <2> DEFINE f == Terms(s, c, k, k)
             g == Terms(s, d, k, k)
  <2>10. PICK e : \A j \in 0..k : e[j] = IF j >= shift THEN b[j - shift] * s[k - j + 1] ELSE 0
    <3> WITNESS [j \in 0..k |-> IF j >= shift THEN b[j - shift] * s[k - j + 1] ELSE 0]
    <3> QED OBVIOUS
  <2>11. PICK w : \A j \in 0..k : w[j] = IF j >= shift
                                      THEN c[j] * b[j - shift] * s[k - j + 1] ELSE 0
    <3> WITNESS [j \in 0..k |-> IF j >= shift THEN c[j] * b[j - shift] * s[k - j + 1] ELSE 0]
    <3> QED OBVIOUS
  <2>12. PICK v : \A j \in 0..k : v[j] = f[j] + e[j]
    <3> WITNESS [j \in 0..k |-> f[j] + e[j]]
    <3> QED OBVIOUS
  <2>13. PICK one \in Int : one = 1
    OBVIOUS
  <2>14. PICK two \in Int : two = 0 - 2
    OBVIOUS
  <2>1. ASSUME NEW j \in 0..k
        PROVE  /\ f[j] \in Int /\ g[j] \in Int /\ e[j] \in Int /\ w[j] \in Int
               /\ g[j] = f[j] + e[j] + two * w[j]
    <3>1. /\ c[j] \in Bits /\ s[k - j + 1] \in Bits
          /\ f[j] = c[j] * s[k - j + 1] /\ g[j] = d[j] * s[k - j + 1]
      BY <1>3, <1>4 DEF Terms
    <3>2. f[j] \in Int /\ g[j] \in Int
      BY <1>4
    <3>3. CASE j < shift
      <4>1. d[j] = c[j] /\ e[j] = 0 /\ w[j] = 0
        BY <1>1, <1>2, <2>10, <2>11, <3>3 DEF Combined
      <4> QED BY <3>1, <3>2, <4>1
    <3>4. CASE j >= shift
      <4>1. /\ b[j - shift] \in Bits /\ e[j] = b[j - shift] * s[k - j + 1]
            /\ w[j] = c[j] * b[j - shift] * s[k - j + 1]
            /\ d[j] = c[j] + b[j - shift] - 2 * (c[j] * b[j - shift])
        BY <1>1, <1>2, <2>10, <2>11, <3>4 DEF Combined
      <4>2. \A x, y, z \in Bits : /\ x * y * z \in Int /\ y * z \in Int
                                  /\ (x + y - 2 * (x * y)) * z = x * z + y * z - 2 * (x * y * z)
        BY DEF Bits
      <4>3. /\ (c[j] + b[j - shift] - 2 * (c[j] * b[j - shift])) * s[k - j + 1]
               = c[j] * s[k - j + 1] + b[j - shift] * s[k - j + 1]
                   - 2 * (c[j] * b[j - shift] * s[k - j + 1])
            /\ c[j] * b[j - shift] * s[k - j + 1] \in Int /\ b[j - shift] * s[k - j + 1] \in Int
        BY <3>1, <4>1, <4>2
      <4>4. g[j] = f[j] + e[j] - 2 * w[j]
        BY <3>1, <4>1, <4>3
      <4>5. e[j] \in Int /\ w[j] \in Int
        BY <4>1, <4>3
      <4> HIDE DEF f, g
      <4>6. PICK p \in Int, q \in Int, r \in Int : p = f[j] /\ q = e[j] /\ r = w[j]
        BY <3>2, <4>5
      <4>7. g[j] = p + q - 2 * r
        BY <4>4, <4>6
      <4>8. p + q - 2 * r = p + q + two * r
        BY <2>14
      <4>9. g[j] = p + q + two * r
        BY <4>7, <4>8, Zenon
      <4>10. g[j] = f[j] + e[j] + two * w[j]
        BY <4>6, <4>9, Zenon
      <4> QED BY <3>2, <4>5, <4>10
    <3> QED BY <3>3, <3>4
  <2> HIDE DEF f, g
  <2>2. Combines(v, f, one, e, 0..k)
    BY <2>1, <2>12, <2>13 DEF Combines
  <2>3. Combines(g, v, two, w, 0..k)
    <3>1. \A j \in 0..k : v[j] \in Int /\ w[j] \in Int /\ g[j] = v[j] + two * w[j]
      <4> SUFFICES ASSUME NEW j \in 0..k
                   PROVE  v[j] \in Int /\ w[j] \in Int /\ g[j] = v[j] + two * w[j]
        OBVIOUS
      <4>1. /\ f[j] \in Int /\ g[j] \in Int /\ e[j] \in Int /\ w[j] \in Int
            /\ g[j] = f[j] + e[j] + two * w[j]
        BY <2>1
      <4>2. v[j] = f[j] + e[j]
        BY <2>12
      <4> QED BY <4>1, <4>2
    <3> QED BY <3>1 DEF Combines
  <2>4. /\ SumFunctionOnSet(f, 0..k) \in Int /\ SumFunctionOnSet(e, 0..k) \in Int
        /\ SumFunctionOnSet(v, 0..k)
             = SumFunctionOnSet(f, 0..k) + one * SumFunctionOnSet(e, 0..k)
    BY <1>4, <2>2, SumsOf
  <2>5. /\ SumFunctionOnSet(w, 0..k) \in Int
        /\ SumFunctionOnSet(g, 0..k)
             = SumFunctionOnSet(v, 0..k) + two * SumFunctionOnSet(w, 0..k)
    BY <1>4, <2>3, SumsOf
  <2>6. SumFunctionOnSet(e, 0..k) = Coef(s, b, k - shift)
    <3>1. \A j \in 0..(k - shift) : b[j] \in Bits
      <4>1. \A j \in 0..(k - shift) : j \in 0..(n - 1)
        OBVIOUS
      <4> QED BY <4>1
    <3>2. k \in shift..(Len(s) - 1)
      BY <1>6
    <3> QED BY <2>10, <3>1, <3>2, ShiftedSum
  <2>7. Coef(s, c, k) = SumFunctionOnSet(f, 0..k) /\ Coef(s, d, k) = SumFunctionOnSet(g, 0..k)
    BY DEF Coef, Check, f, g
  <2> QED BY <2>4, <2>5, <2>6, <2>7, <2>13, <2>14
<1> QED BY <1>4, <1>5, <1>6 DEF Coef, AddsUp

\* Before bit i: c generates the bits before it with length l, and b failed first
\* at bit m, when the length was m + 1 - l.
Connections(s, i, c, l) ==
    /\ c \in [0..(Len(s) - 1) -> Bits]
    /\ l \in 0..i
    /\ c[0] = 1
    /\ \A j \in 0..(Len(s) - 1) : j > l => c[j] = 0
    /\ \A k \in l..(i - 1) : Coef(s, c, k) % 2 = 0

LastFailure(s, i, b, l, m) ==
    /\ b \in [0..(Len(s) - 1) -> Bits]
    /\ l \in 0..i
    /\ m \in -1..(i - 1)
    /\ m + 1 - l >= 0
    /\ b[0] = 1
    /\ \A j \in 0..(Len(s) - 1) : j > m + 1 - l => b[j] = 0
    /\ \A k \in (m + 1 - l)..(m - 1) : Coef(s, b, k) % 2 = 0
    /\ m = -1 => l = 0
    /\ m # -1 => l >= 1 /\ Coef(s, b, m) % 2 = 1

\* No register shorter than L generates the first i bits.
Least(s, i, L) ==
    \A M \in 0..(L - 1) : \A u \in TapsOf(M) : \E k \in M..(i - 1) : ~Predicts(s, u, M, k)

\* A turn at a bit that is predicted wrongly corrects the taps.
LEMMA Corrected ==
    ASSUME NEW s \in Seq(Bits), NEW i \in 0..(Len(s) - 1), NEW c, NEW b, NEW l, NEW m,
           Connections(s, i, c, l), LastFailure(s, i, b, l, m), Coef(s, c, i) % 2 # 0,
           NEW L \in 0..(i + 1), L >= l, L >= i + 1 - l
    PROVE  Connections(s, i + 1, Combine(Len(s), c, b, i - m), L)
<1> DEFINE n == Len(s)
<1>1. /\ i - m \in Nat /\ i - m >= 1 /\ i \in 0..(n - 1)
      /\ c \in [0..(n - 1) -> Bits] /\ b \in [0..(n - 1) -> Bits]
      /\ l \in 0..i /\ m \in -1..(i - 1) /\ m + 1 - l >= 0
  BY DEF Connections, LastFailure
<1> PICK z \in Nat : z = i - m
  BY <1>1
<1> PICK d : d = Combine(n, c, b, z)
  OBVIOUS
<1>2. Combined(d, n, c, b, z)
  <2>1. n \in Nat /\ c \in [0..(n - 1) -> Bits] /\ b \in [0..(n - 1) -> Bits]
    BY <1>1
  <2> QED BY <2>1, CombineType
<1>3. d \in [0..(n - 1) -> Bits]
  BY <1>2 DEF Combined
<1>4. d[0] = 1
  <2>1. 0 \in 0..(n - 1) /\ 0 < z /\ c[0] = 1
    BY <1>1 DEF Connections
  <2> QED BY <1>2, <2>1 DEF Combined
<1>5. ASSUME NEW j \in 0..(n - 1), j > L PROVE d[j] = 0
  <2>1. c[j] = 0
    <3>1. j > l
      BY <1>1, <1>5
    <3> QED BY <3>1 DEF Connections
  <2>2. CASE j < z
    BY <1>2, <2>1, <2>2 DEF Combined
  <2>3. CASE ~(j < z)
    <3>1. j >= z
      BY <1>1, <2>3
    <3>2. /\ j - z \in 0..(n - 1)
          /\ d[j] = c[j] + b[j - z] - 2 * (c[j] * b[j - z])
      BY <1>2, <3>1 DEF Combined
    <3>3. j - z > m + 1 - l
      BY <1>1, <1>5
    <3>4. b[j - z] = 0
      BY <3>2, <3>3 DEF LastFailure
    <3> QED BY <2>1, <3>2, <3>4
  <2> QED BY <2>2, <2>3
<1>6. ASSUME NEW k \in L..i PROVE Coef(s, d, k) % 2 = 0
  <2>1. m # -1 /\ k \in l..i /\ k >= z
    BY <1>1, <1>6, SMTT(40) DEF LastFailure
  <2>2. k \in 0..(n - 1)
    BY <1>1, <2>1
  <2>3. /\ Coef(s, c, k) \in Int /\ Coef(s, b, k - z) \in Int
        /\ Coef(s, d, k) % 2 = (Coef(s, c, k) + Coef(s, b, k - z)) % 2
    <3>1. AddsUp(s, d, c, b, z, k)
      BY <1>1, <1>2, <2>2, CombinedCoef
    <3> QED BY <2>1, <3>1 DEF AddsUp
  <2>4. CASE k = i
    <3>1. k - z = m
      BY <1>1, <2>4
    <3>2. Coef(s, b, m) % 2 = 1
      BY <2>1 DEF LastFailure
    <3>3. Coef(s, c, k) % 2 = 1
      BY <2>3, <2>4
    <3>4. Coef(s, b, k - z) % 2 = 1
      BY <3>1, <3>2
    <3> QED BY <2>3, <3>3, <3>4, EqualParity
  <2>5. CASE k # i
    <3>1. k \in l..(i - 1) /\ k - z \in (m + 1 - l)..(m - 1)
      BY <1>1, <1>6, <2>1, <2>5
    <3>2. Coef(s, c, k) % 2 = 0
      BY <3>1 DEF Connections
    <3>3. Coef(s, b, k - z) % 2 = 0
      BY <3>1 DEF LastFailure
    <3> QED BY <2>3, <3>2, <3>3, EqualParity
  <2> QED BY <2>4, <2>5
<1>7. \A k \in L..((i + 1) - 1) : Coef(s, d, k) % 2 = 0
  <2>1. (i + 1) - 1 = i
    OBVIOUS
  <2> QED BY <1>6, <2>1
<1>8. Connections(s, i + 1, d, L)
  BY <1>3, <1>4, <1>5, <1>7 DEF Connections
<1> QED BY <1>8

\* The taps of c up to l are those of a register.
LEMMA ConnectionTaps ==
    ASSUME NEW s \in Seq(Bits), NEW i \in 0..Len(s), NEW c, NEW l,
           Connections(s, i, c, l), l < Len(s)
    PROVE  \E t \in TapsOf(l) :
              \A k \in l..(Len(s) - 1) : /\ Coef(s, c, k) \in Int
                                         /\ Check(s, c, l, k) = Coef(s, c, k)
                                         /\ Check(s, t, l, k) = Coef(s, c, k)
<1>1. l \in Nat /\ c \in [0..(Len(s) - 1) -> Bits] /\ c[0] = 1
  BY DEF Connections
<1> DEFINE t == [j \in 0..l |-> c[j]]
<1>2. t \in TapsOf(l)
  BY <1>1 DEF TapsOf
<1>3. SameUpTo(c, t, l)
  BY <1>1 DEF SameUpTo
<1> HIDE DEF t
<1>4. ASSUME NEW k \in l..(Len(s) - 1)
      PROVE  /\ Coef(s, c, k) \in Int
             /\ Check(s, c, l, k) = Coef(s, c, k)
             /\ Check(s, t, l, k) = Coef(s, c, k)
  <2>1. \A j \in 0..k : c[j] \in Bits /\ (j > l => c[j] = 0)
    BY <1>1 DEF Connections
  <2>2. Check(s, c, l, k) = Coef(s, c, k) /\ Coef(s, c, k) \in Int
    BY <1>1, <2>1, CoefOf
  <2>3. Check(s, t, l, k) = Check(s, c, l, k)
    BY <1>1, <1>3, SameTaps
  <2> QED BY <2>2, <2>3
<1> QED BY <1>2, <1>4

\* No shorter register generates the bits up to i either.
LEMMA LeastGrows ==
    ASSUME NEW s \in Seq(Bits), NEW i \in 0..(Len(s) - 1), NEW c, NEW l,
           Connections(s, i, c, l), Least(s, i, l)
    PROVE  /\ Least(s, i + 1, l)
           /\ Coef(s, c, i) % 2 # 0 => Least(s, i + 1, i + 1 - l)
<1>1. l \in 0..i
  BY DEF Connections
<1>2. ASSUME NEW M \in 0..(l - 1), NEW u \in TapsOf(M)
      PROVE  \E k \in M..((i + 1) - 1) : ~Predicts(s, u, M, k)
  <2>1. PICK k \in M..(i - 1) : ~Predicts(s, u, M, k)
    BY DEF Least
  <2>2. k \in M..((i + 1) - 1)
    OBVIOUS
  <2> QED BY <2>1, <2>2
<1>3. ASSUME Coef(s, c, i) % 2 # 0, NEW M \in 0..((i + 1 - l) - 1), NEW u \in TapsOf(M),
             \A k \in M..((i + 1) - 1) : Predicts(s, u, M, k)
      PROVE  FALSE
  <2>1. PICK t \in TapsOf(l) :
           \A k \in l..(Len(s) - 1) : /\ Coef(s, c, k) \in Int
                                      /\ Check(s, c, l, k) = Coef(s, c, k)
                                      /\ Check(s, t, l, k) = Coef(s, c, k)
    BY <1>1, ConnectionTaps
  <2>2. \A k \in l..(i - 1) : Predicts(s, t, l, k)
    <3> SUFFICES ASSUME NEW k \in l..(i - 1) PROVE Predicts(s, t, l, k)
      OBVIOUS
    <3>1. Coef(s, c, k) % 2 = 0 /\ k \in l..(Len(s) - 1)
      BY <1>1 DEF Connections
    <3> QED BY <2>1, <3>1 DEF Predicts
  <2>3. ~Predicts(s, t, l, i)
    <3>1. i \in l..(Len(s) - 1)
      BY <1>1
    <3> QED BY <1>3, <2>1, <3>1 DEF Predicts
  <2>4. \A k \in M..i : Predicts(s, u, M, k)
    BY <1>3
  <2>5. l \in Nat /\ M \in Nat
    BY <1>1
  <2>6. l + M > i
    BY <2>2, <2>3, <2>4, <2>5, Massey
  <2> QED BY <1>1, <2>6
<1> QED BY <1>2, <1>3 DEF Least

\* What holds before bit i of the loop of berlekamp_massey.
RegisterInv(s, i, st) == /\ Connections(s, i, st.c, st.l)
                         /\ LastFailure(s, i, st.b, st.l, st.m)
                         /\ Least(s, i, st.l)

\* The states of the loop.
Registers(n) == [c : [0..(n - 1) -> Bits], b : [0..(n - 1) -> Bits], l : 0..n, m : -1..(n - 1)]

\* The bit that a turn tests is the coefficient.
LEMMA TurnTests ==
    ASSUME NEW s \in Seq(Bits), NEW i \in 0..(Len(s) - 1), NEW c, NEW l, Connections(s, i, c, l)
    PROVE  /\ Coef(s, c, i) \in Int
           /\ Discrepancy(s, c, l, i) = Coef(s, c, i) % 2
<1>1. l \in Nat /\ i \in l..(Len(s) - 1) /\ c[0] = 1 /\ \A j \in 1..l : c[j] \in Bits
  BY DEF Connections
<1>2. Check(s, c, l, i) = Coef(s, c, i) /\ Coef(s, c, i) \in Int
  BY <1>1, ConnectionTaps
<1>3. Discrepancy(s, c, l, i) = Check(s, c, l, i) % 2
  BY <1>1, DiscrepancyIs
<1> QED BY <1>2, <1>3

\* Every turn keeps the invariant.
LEMMA TurnKeeps ==
    ASSUME NEW s \in Seq(Bits), NEW i \in 0..(Len(s) - 1), NEW st \in Registers(Len(s)),
           RegisterInv(s, i, st)
    PROVE  RegisterInv(s, i + 1, Turn(s, st, i))
<1>1. /\ Connections(s, i, st.c, st.l) /\ LastFailure(s, i, st.b, st.l, st.m)
      /\ Least(s, i, st.l)
  BY DEF RegisterInv
<1>2. PICK c : c = st.c
  OBVIOUS
<1>3. PICK b : b = st.b
  OBVIOUS
<1>4. PICK l : l = st.l
  OBVIOUS
<1>5. PICK m : m = st.m
  OBVIOUS
<1>6. Connections(s, i, c, l) /\ LastFailure(s, i, b, l, m) /\ Least(s, i, l)
  BY <1>1, <1>2, <1>3, <1>4, <1>5
<1>7. Coef(s, c, i) \in Int /\ Discrepancy(s, c, l, i) = Coef(s, c, i) % 2
  BY <1>6, TurnTests
<1>8. Least(s, i + 1, l) /\ (Coef(s, c, i) % 2 # 0 => Least(s, i + 1, i + 1 - l))
  BY <1>6, LeastGrows
<1>9. /\ l \in 0..i /\ m \in -1..(i - 1) /\ m + 1 - l >= 0
      /\ c \in [0..(Len(s) - 1) -> Bits] /\ b \in [0..(Len(s) - 1) -> Bits]
  BY <1>6 DEF Connections, LastFailure
<1>10. LastFailure(s, i + 1, b, l, m)
  BY <1>6 DEF LastFailure
<1>11. CASE Coef(s, c, i) % 2 = 0
  <2>1. Turn(s, st, i) = st
    BY <1>2, <1>4, <1>7, <1>11 DEF Turn
  <2>2. Connections(s, i + 1, c, l)
    <3>1. \A k \in l..((i + 1) - 1) : Coef(s, c, k) % 2 = 0
      <4>1. \A k \in l..((i + 1) - 1) : k = i \/ k \in l..(i - 1)
        BY <1>9
      <4>2. \A k \in l..(i - 1) : Coef(s, c, k) % 2 = 0
        BY <1>6 DEF Connections
      <4> QED BY <1>11, <4>1, <4>2
    <3> QED BY <1>6, <3>1 DEF Connections
  <2> QED BY <1>2, <1>3, <1>4, <1>5, <1>8, <1>10, <2>1, <2>2 DEF RegisterInv
<1>12. CASE Coef(s, c, i) % 2 # 0 /\ 2 * l <= i
  <2>1. PICK L \in 0..(i + 1) : L = i + 1 - l
    BY <1>9
  <2>2. L >= l /\ L >= i + 1 - l
    BY <1>9, <1>12, <2>1
  <2>3. Connections(s, i + 1, Combine(Len(s), c, b, i - m), L)
    BY <1>6, <1>12, <2>2, Corrected
  <2>4. LastFailure(s, i + 1, c, L, i)
    <3>1. i + 1 - L = l /\ L >= 1 /\ i # -1 /\ L \in 0..(i + 1)
      BY <1>9, <1>12, <2>1
    <3>2. Coef(s, c, i) % 2 = 1
      BY <1>7, <1>12
    <3>3. \A k \in l..(i - 1) : Coef(s, c, k) % 2 = 0
      BY <1>6 DEF Connections
    <3>4. \A j \in 0..(Len(s) - 1) : j > l => c[j] = 0
      BY <1>6 DEF Connections
    <3>5. c[0] = 1 /\ i \in -1..((i + 1) - 1)
      BY <1>6 DEF Connections
    <3> QED BY <1>9, <3>1, <3>2, <3>3, <3>4, <3>5 DEF LastFailure
  <2>5. Turn(s, st, i) = [c |-> Combine(Len(s), c, b, i - m), b |-> c, l |-> L, m |-> i]
    BY <1>2, <1>3, <1>4, <1>5, <1>7, <1>12, <2>1 DEF Turn
  <2> QED BY <1>8, <1>12, <2>1, <2>3, <2>4, <2>5 DEF RegisterInv
<1>13. CASE Coef(s, c, i) % 2 # 0 /\ ~(2 * l <= i)
  <2>1. l \in 0..(i + 1) /\ l >= l /\ l >= i + 1 - l
    BY <1>9, <1>13
  <2>2. Connections(s, i + 1, Combine(Len(s), c, b, i - m), l)
    BY <1>6, <1>13, <2>1, Corrected
  <2>3. Turn(s, st, i) = [st EXCEPT !.c = Combine(Len(s), c, b, i - m)]
    BY <1>2, <1>3, <1>4, <1>5, <1>7, <1>13 DEF Turn
  <2>4. /\ Turn(s, st, i).c = Combine(Len(s), c, b, i - m) /\ Turn(s, st, i).b = b
        /\ Turn(s, st, i).l = l /\ Turn(s, st, i).m = m
    BY <1>3, <1>4, <1>5, <2>3 DEF Registers
  <2> QED BY <1>8, <1>10, <2>2, <2>4 DEF RegisterInv
<1> QED BY <1>11, <1>12, <1>13

\* Every turn takes a state to a state.
LEMMA TurnType ==
    ASSUME NEW s \in Seq(Bits), NEW i \in 0..(Len(s) - 1), NEW st \in Registers(Len(s))
    PROVE  Turn(s, st, i) \in Registers(Len(s))
<1> DEFINE n == Len(s)
           d == Combine(n, st.c, st.b, i - st.m)
<1>1. /\ st.c \in [0..(n - 1) -> Bits] /\ st.b \in [0..(n - 1) -> Bits]
      /\ st.l \in 0..n /\ st.m \in -1..(n - 1)
  BY DEF Registers
<1>2. d \in [0..(n - 1) -> Bits]
  <2>1. \A x \in Bits : 1 - x \in Bits
    BY DEF Bits
  <2> QED BY <1>1, <2>1 DEF Combine
<1> HIDE DEF d
<1>3. 2 * st.l <= i => i + 1 - st.l \in 0..n
  BY <1>1, SMTT(40)
<1>4. i \in -1..(n - 1)
  OBVIOUS
<1>5. Turn(s, st, i) = IF Discrepancy(s, st.c, st.l, i) = 0 THEN st
                       ELSE IF 2 * st.l <= i
                            THEN [c |-> d, b |-> st.c, l |-> i + 1 - st.l, m |-> i]
                            ELSE [st EXCEPT !.c = d]
  BY DEF Turn, d
<1>6. [st EXCEPT !.c = d] \in Registers(n)
  BY <1>2 DEF Registers
<1>7. 2 * st.l <= i => [c |-> d, b |-> st.c, l |-> i + 1 - st.l, m |-> i] \in Registers(n)
  BY <1>1, <1>2, <1>3, <1>4 DEF Registers
<1> QED BY <1>5, <1>6, <1>7

\* The taps before the first bit.
OneTap(n) == [k \in 0..(n - 1) |-> IF k = 0 THEN 1 ELSE 0]
FirstRegister(n) == [c |-> OneTap(n), b |-> OneTap(n), l |-> 0, m |-> -1]

TurnStep(s) == [p \in (1..Len(s)) \X Registers(Len(s)) |-> Turn(s, p[2], p[1] - 1)]

\* berlekamp_massey, by the states of its loop.
LEMMA TurnRuns ==
    ASSUME NEW s \in Seq(Bits)
    PROVE  IsEnd(BerlekampMassey(s), Len(s), Registers(Len(s)), FirstRegister(Len(s)),
                 TurnStep(s))
<1> DEFINE n == Len(s)
           w == [i \in 1..n |-> i - 1]
           Iter(f) == f = [t \in SUBSET DOMAIN w |->
                             IF t = {} THEN FirstRegister(n)
                             ELSE LET x == Max(t) IN Turn(s, f[t \ {x}], w[x])]
           iter == CHOOSE f : Iter(f)
<1>1. n \in Nat /\ DOMAIN w = 1..n /\ \A k \in 1..n : w[k] = k - 1
  OBVIOUS
<1>2. FirstRegister(n) \in Registers(n)
  BY <1>1 DEF FirstRegister, Registers, OneTap, Bits
<1>3. TurnStep(s) \in [(1..n) \X Registers(n) -> Registers(n)]
  <2>1. \A p \in (1..n) \X Registers(n) : p[1] - 1 \in 0..(Len(s) - 1) /\ p[2] \in Registers(n)
    BY <1>1
  <2>2. \A p \in (1..n) \X Registers(n) : Turn(s, p[2], p[1] - 1) \in Registers(n)
    BY <2>1, TurnType
  <2> QED BY <2>2 DEF TurnStep
<1>4. \A t \in SUBSET (1..n) : t # {} => Max(t) \in 1..n
  BY MaxInRange, <1>1
<1>5. PICK h \in [SUBSET (1..n) -> Registers(n)] : IsFold(h, n, FirstRegister(n), TurnStep(s))
  <2> HIDE DEF n
  <2> QED BY <1>1, <1>2, <1>3, FoldExists, Zenon
<1>6. Iter(h)
  BY <1>1, <1>4, <1>5 DEF IsFold, TurnStep
<1>7. Iter(iter)
  <2> HIDE DEF Iter
  <2> QED BY <1>6
<1>8. BerlekampMassey(s) = iter[1..n]
  BY <1>1 DEF FoldLeft, MapThenFoldSet, BerlekampMassey, FirstRegister, OneTap
<1> HIDE DEF iter
<1>9. Steps(iter, n, Registers(n), FirstRegister(n), TurnStep(s))
  <2>1. iter[{}] = FirstRegister(n)
    BY <1>7
  <2>2. ASSUME NEW k \in 1..n, iter[1..(k - 1)] \in Registers(n)
        PROVE  iter[1..k] = TurnStep(s)[<<k, iter[1..(k - 1)]>>]
    <3>1. iter[1..k] = Turn(s, iter[1..(k - 1)], k - 1)
      <4>1. /\ 1..k \in SUBSET (1..n) /\ 1..k # {}
            /\ Max(1..k) = k /\ (1..k) \ {Max(1..k)} = 1..(k - 1)
        BY <1>1, Intervals
      <4>2. iter[1..k] = Turn(s, iter[(1..k) \ {Max(1..k)}], w[Max(1..k)])
        BY <1>1, <1>7, <4>1
      <4> QED BY <1>1, <4>1, <4>2
    <3> QED BY <1>1, <2>2, <3>1 DEF TurnStep
  <2> QED BY <2>1, <2>2 DEF Steps
<1>10. IsEnd(iter[1..n], n, Registers(n), FirstRegister(n), TurnStep(s))
  <2> HIDE DEF n, Iter
  <2> QED BY <1>1, <1>2, <1>3, <1>9, RunningValues
<1> QED BY <1>8, <1>10

\* The invariant holds at the end.
LEMMA RegisterIs ==
    ASSUME NEW s \in Seq(Bits), Len(s) > 0
    PROVE  /\ BerlekampMassey(s) \in Registers(Len(s))
           /\ RegisterInv(s, Len(s), BerlekampMassey(s))
<1> DEFINE n == Len(s)
<1>1. PICK g : /\ IsRun(g, n, Registers(n), FirstRegister(n), TurnStep(s))
               /\ BerlekampMassey(s) = g[n]
  BY TurnRuns DEF IsEnd
<1> DEFINE S == {i \in 0..n : RegisterInv(s, i, g[i])}
<1>2. 0 \in S
  <2>1. g[0] = FirstRegister(n) /\ n \in Nat
    BY <1>1 DEF IsRun
  <2>2. Connections(s, 0, OneTap(n), 0)
    BY DEF Connections, OneTap, Bits
  <2>3. LastFailure(s, 0, OneTap(n), 0, -1)
    BY DEF LastFailure, OneTap, Bits
  <2>4. Least(s, 0, 0)
    BY DEF Least
  <2> QED BY <2>1, <2>2, <2>3, <2>4 DEF RegisterInv, FirstRegister
<1>3. ASSUME NEW k \in 1..n, k - 1 \in S PROVE k \in S
  <2>1. /\ g[k - 1] \in Registers(n) /\ g[k] = TurnStep(s)[<<k, g[k - 1]>>]
        /\ k - 1 \in 0..(Len(s) - 1) /\ (k - 1) + 1 = k
    BY <1>1 DEF IsRun
  <2>2. g[k] = Turn(s, g[k - 1], k - 1)
    BY <2>1 DEF TurnStep
  <2>3. RegisterInv(s, k - 1, g[k - 1])
    BY <1>3
  <2>4. RegisterInv(s, (k - 1) + 1, Turn(s, g[k - 1], k - 1))
    BY <2>1, <2>3, TurnKeeps
  <2> QED BY <2>1, <2>2, <2>4
<1>4. n \in S
  <2>1. n \in Nat /\ n \in 0..n
    OBVIOUS
  <2> HIDE DEF S, n
  <2>2. \A k \in 0..n : k \in S
    BY <1>2, <1>3, <2>1, UpTo
  <2> QED BY <2>1, <2>2
<1>5. g[n] \in Registers(n)
  BY <1>1 DEF IsRun
<1> QED BY <1>1, <1>4, <1>5

-----------------------------------------------------------------------------
(* Logs of ports, and the linear complexity of their bits.                 *)

\* The powers of two.
LEMMA Powers ==
    /\ 2^0 = 1
    /\ \A n \in Nat : 2^n \in Nat /\ 2^n # 0 /\ 2^(n + 1) = 2 * 2^n
<1>1. ASSUME NEW n \in Nat
      PROVE  Cardinality(SUBSET (1..n)) = 2^n /\ IsFiniteSet(SUBSET (1..n))
  <2>1. IsFiniteSet(1..n) /\ Cardinality(1..n) = n
    BY FS_Interval
  <2> QED BY <2>1, FS_SUBSET
<1>2. ASSUME NEW n \in Nat PROVE 2^n \in Nat
  BY <1>1, FS_CardinalityType
<1>3. ASSUME NEW n \in Nat PROVE 2^(n + 1) = 2 * 2^n
  <2> PICK A : A = SUBSET (1..n)
    OBVIOUS
  <2> PICK B : B = {T \cup {n + 1} : T \in A}
    OBVIOUS
  <2> PICK f : f = [T \in A |-> T \cup {n + 1}]
    OBVIOUS
  <2>1. f \in Bijection(A, B)
    <3>1. f \in [A -> B]
      OBVIOUS
    <3>2. \A T, U \in A : f[T] = f[U] => T = U
      <4> SUFFICES ASSUME NEW T \in A, NEW U \in A, f[T] = f[U] PROVE T = U
        OBVIOUS
      <4>1. T \cup {n + 1} = U \cup {n + 1} /\ n + 1 \notin T /\ n + 1 \notin U
        OBVIOUS
      <4>2. T = (T \cup {n + 1}) \ {n + 1} /\ U = (U \cup {n + 1}) \ {n + 1}
        BY <4>1
      <4> QED BY <4>1, <4>2
    <3>3. \A x \in B : \E T \in A : f[T] = x
      OBVIOUS
    <3> QED BY <3>1, <3>2, <3>3, ZenonT(60) DEF Bijection, Injection, Surjection, IsInjective
  <2>2. IsFiniteSet(A) /\ Cardinality(A) = 2^n
    BY <1>1
  <2>3. IsFiniteSet(B) /\ Cardinality(B) = 2^n
    <3>1. ExistsBijection(A, B)
      BY <2>1 DEF ExistsBijection
    <3> QED BY <2>2, <3>1, FS_Bijection
  <2>4. A \cap B = {}
    <3>1. \A T \in A : n + 1 \notin T
      OBVIOUS
    <3>2. \A T \in B : n + 1 \in T
      OBVIOUS
    <3> QED BY <3>1, <3>2
  <2>5. A \cup B = SUBSET (1..(n + 1))
    <3>1. ASSUME NEW T \in SUBSET (1..(n + 1)) PROVE T \in A \cup B
      <4>1. CASE n + 1 \in T
        <5>1. T \ {n + 1} \in A /\ (T \ {n + 1}) \cup {n + 1} = T
          BY <4>1
        <5> QED BY <5>1
      <4>2. CASE n + 1 \notin T
        BY <4>2
      <4> QED BY <4>1, <4>2
    <3>2. \A T \in A : T \in SUBSET (1..(n + 1)) /\ T \cup {n + 1} \in SUBSET (1..(n + 1))
      OBVIOUS
    <3>3. \A T \in B : T \in SUBSET (1..(n + 1))
      <4> SUFFICES ASSUME NEW U \in B PROVE U \in SUBSET (1..(n + 1))
        OBVIOUS
      <4>1. PICK T \in A : U = T \cup {n + 1}
        OBVIOUS
      <4> QED BY <3>2, <4>1
    <3>4. \A T \in A : T \in SUBSET (1..(n + 1))
      BY <3>2
    <3> QED BY <3>1, <3>3, <3>4
  <2>6. Cardinality(A \cup B) = 2^n + 2^n
    <3>1. Cardinality(A \cap B) = 0
      BY <2>4, FS_EmptySet
    <3>2. Cardinality(A \cup B) = Cardinality(A) + Cardinality(B) - Cardinality(A \cap B)
      BY <2>2, <2>3, FS_Union, ZenonT(60)
    <3> QED BY <1>2, <2>2, <2>3, <3>1, <3>2
  <2>7. n + 1 \in Nat
    OBVIOUS
  <2>8. Cardinality(SUBSET (1..(n + 1))) = 2^(n + 1)
    BY <1>1, <2>7
  <2>9. 2^(n + 1) = 2^n + 2^n
    BY <2>5, <2>6, <2>8
  <2> PICK x \in Nat : x = 2^n
    BY <1>2
  <2>10. x + x = 2 * x
    OBVIOUS
  <2> QED BY <2>9, <2>10
<1>4. 2^0 = 1
  OBVIOUS
<1>5. \A n \in Nat : n \in {k \in Nat : 2^k # 0}
  <2> DEFINE S == {k \in Nat : 2^k # 0}
  <2>1. 0 \in S
    BY <1>4
  <2>2. \A n \in Nat : n \in S => n + 1 \in S
    BY <1>2, <1>3
  <2>3. \A n \in Nat : n \in S
    <3> HIDE DEF S
    <3> QED BY <2>1, <2>2, SetInduction
  <2> QED BY <2>3
<1> QED BY <1>2, <1>3, <1>4, <1>5

PortNumbers == 0..(2^PortBits - 1)

\* A log of ports is a stream of bits.
LEMMA BitstreamType ==
    ASSUME NEW ports \in Seq(PortNumbers)
    PROVE  /\ PortBits \in Nat /\ PortBits > 0
           /\ Bitstream(ports) \in Seq(Bits)
           /\ Len(Bitstream(ports)) = PortBits * Len(ports)
           /\ \A p \in PortNumbers : BitsOf(p) \in [1..PortBits -> Bits]
<1>1. PortBits \in Nat /\ PortBits > 0
  BY AnalysisAssumption
<1>2. ASSUME NEW p \in PortNumbers PROVE BitsOf(p) \in [1..PortBits -> Bits]
  <2>1. p \in Nat
    BY <1>1, Powers DEF PortNumbers
  <2>2. ASSUME NEW k \in 1..PortBits PROVE (p \div 2^(PortBits - k)) % 2 \in Bits
    <3>1. PortBits - k \in Nat
      BY <1>1
    <3>2. 2^(PortBits - k) \in Nat \ {0}
      BY <3>1, Powers
    <3>3. p \div 2^(PortBits - k) \in Nat
      BY <2>1, <3>2, Division
    <3> QED BY <3>3 DEF Bits
  <2> QED BY <2>2 DEF BitsOf
<1>3. PortBits * Len(ports) \in Nat
  BY <1>1
<1>4. ASSUME NEW k \in 1..(PortBits * Len(ports))
      PROVE  /\ ((k - 1) \div PortBits) + 1 \in 1..Len(ports)
             /\ ((k - 1) % PortBits) + 1 \in 1..PortBits
  <2>1. k - 1 \in Nat /\ k - 1 < PortBits * Len(ports)
    BY <1>3
  <2> PICK x \in Nat : x = k - 1
    BY <2>1
  <2> DEFINE q == x \div PortBits
             r == x % PortBits
  <2>2. q \in Nat /\ r \in 0..(PortBits - 1) /\ x = PortBits * q + r
    <3>1. PortBits \in Nat \ {0}
      BY <1>1
    <3> QED BY <3>1, Division, Zenon
  <2>3. q < Len(ports)
    <3> SUFFICES ASSUME Len(ports) <= q PROVE FALSE
      BY <2>2
    <3>1. PortBits * Len(ports) <= PortBits * q
      <4> HIDE DEF q
      <4> QED BY <1>1, <2>2, Product
    <3> HIDE DEF q, r
    <3>2. PortBits * q \in Nat
      BY <1>1, <2>2
    <3> QED BY <1>3, <2>1, <2>2, <3>1, <3>2
  <2> HIDE DEF q, r
  <2>4. q + 1 \in 1..Len(ports) /\ r + 1 \in 1..PortBits
    BY <1>1, <2>2, <2>3
  <2> QED BY <2>4 DEF q, r
<1>5. ASSUME NEW k \in 1..(PortBits * Len(ports))
      PROVE  BitsOf(ports[((k - 1) \div PortBits) + 1])[((k - 1) % PortBits) + 1] \in Bits
  <2> PICK i \in 1..Len(ports) : i = ((k - 1) \div PortBits) + 1
    BY <1>4
  <2> PICK j \in 1..PortBits : j = ((k - 1) % PortBits) + 1
    BY <1>4
  <2>1. ports[i] \in PortNumbers
    OBVIOUS
  <2>2. BitsOf(ports[i])[j] \in Bits
    BY <1>2, <2>1
  <2> QED BY <2>2
<1>6. Bitstream(ports) \in [1..(PortBits * Len(ports)) -> Bits]
  BY <1>5 DEF Bitstream
<1>7. \A m \in Nat : \A w \in [1..m -> Bits] : w \in Seq(Bits) /\ Len(w) = m
  OBVIOUS
<1>8. Bitstream(ports) \in Seq(Bits) /\ Len(Bitstream(ports)) = PortBits * Len(ports)
  BY <1>3, <1>6, <1>7
<1> QED BY <1>1, <1>2, <1>8

\* A register generates bits if none of its checks fails.
LEMMA GeneratesIs ==
    ASSUME NEW s \in Seq(Bits), NEW L \in Nat, NEW t, NEW u, u[0] = 1,
           \A j \in 1..L : t[j] \in Bits /\ u[j] = t[j]
    PROVE  Generates(s, L, t) <=> \A k \in L..(Len(s) - 1) : Predicts(s, u, L, k)
<1> SUFFICES ASSUME NEW k \in L..(Len(s) - 1)
             PROVE  s[k + 1] = SumFunction([j \in 1..L |-> t[j] * s[k - j + 1]]) % 2
                      <=> Predicts(s, u, L, k)
  BY DEF Generates
<1>1. \A j \in 1..L : u[j] \in Bits
  OBVIOUS
<1>2. /\ SumFunction([j \in 1..L |-> u[j] * s[k - j + 1]]) \in Int
      /\ Check(s, u, L, k) = s[k + 1] + SumFunction([j \in 1..L |-> u[j] * s[k - j + 1]])
  BY <1>1, DiscrepancyIs
<1>3. [j \in 1..L |-> t[j] * s[k - j + 1]] = [j \in 1..L |-> u[j] * s[k - j + 1]]
  OBVIOUS
<1>4. s[k + 1] \in Bits
  OBVIOUS
<1>5. \A y \in Int : (0 = y % 2 <=> (0 + y) % 2 = 0) /\ (1 = y % 2 <=> (1 + y) % 2 = 0)
  OBVIOUS
<1>6. \A x \in Bits, y \in Int : x = y % 2 <=> (x + y) % 2 = 0
  BY <1>5 DEF Bits
<1> PICK z \in Int : z = SumFunction([j \in 1..L |-> u[j] * s[k - j + 1]])
  BY <1>2
<1>7. SumFunction([j \in 1..L |-> t[j] * s[k - j + 1]]) = z
  BY <1>3
<1>8. Check(s, u, L, k) = s[k + 1] + z
  BY <1>2
<1> QED BY <1>4, <1>6, <1>7, <1>8 DEF Predicts


-----------------------------------------------------------------------------
(* Taps that predict the same.                                             *)

\* An even number is twice its half.
LEMMA Halves ==
    ASSUME NEW x \in Int
    PROVE  /\ x \div 2 \in Int
           /\ x % 2 = 0 => x = 2 * (x \div 2)
  OBVIOUS

\* What is added to even numbers and yields an even number is even.
LEMMA EvenRest ==
    ASSUME NEW x \in Int, NEW y \in Int, NEW z \in Int,
           x % 2 = 0, y % 2 = 0, ((x + y) + z) % 2 = 0
    PROVE  z % 2 = 0
<1> PICK a \in Int : a = x + y
  OBVIOUS
<1> PICK b \in Int : b = a + z
  OBVIOUS
<1>1. a % 2 = 0 /\ b % 2 = 0
  BY EqualParity
<1> PICK g \in Int : g = a \div 2
  BY Halves
<1> PICK h \in Int : h = b \div 2
  BY Halves
<1>2. a = 2 * g /\ b = 2 * h
  BY <1>1, Halves
<1>3. h - g \in Int /\ z = (h - g) + (h - g)
  BY <1>2
<1> QED BY <1>3, EqualParity

\* Two bits have a sum without a remainder if they are equal.
LEMMA TwoBits ==
    ASSUME NEW p \in Bits, NEW q \in Bits, NEW y \in Bits, y % 2 = (p + q) % 2
    PROVE  \/ y = 0 /\ p = q
           \/ y = 1 /\ p = 0 /\ q = 1
           \/ y = 1 /\ p = 1 /\ q = 0
<1>1. (0 + 0) % 2 = 0 /\ (0 + 1) % 2 = 1 /\ (1 + 0) % 2 = 1 /\ (1 + 1) % 2 = 0
  OBVIOUS
<1>2. 0 % 2 = 0 /\ 1 % 2 = 1
  OBVIOUS
<1>3. y % 2 = y
  BY <1>2 DEF Bits
<1>4. (p = 0 \/ p = 1) /\ (q = 0 \/ q = 1)
  BY DEF Bits
<1>5. (p + q) % 2 = IF p = q THEN 0 ELSE 1
  <2>1. CASE p = 0 /\ q = 0
    BY <1>1, <2>1
  <2>2. CASE p = 0 /\ q = 1
    BY <1>1, <2>2
  <2>3. CASE p = 1 /\ q = 0
    BY <1>1, <2>3
  <2>4. CASE p = 1 /\ q = 1
    BY <1>1, <2>4
  <2> QED BY <1>4, <2>1, <2>2, <2>3, <2>4
<1> QED BY <1>3, <1>4, <1>5

\* The terms of two taps and of their sum.
ThreeTerms(p, q, y, x) == (p * x + q * x) + y * x

\* y is the sum of p and q modulo 2.
IsSumOfTaps(y, p, q) == y % 2 = (p + q) % 2

\* The three terms are together even.
LEMMA EvenTerms ==
    ASSUME NEW p \in Bits, NEW q \in Bits, NEW y \in Bits, IsSumOfTaps(y, p, q),
           NEW x \in Bits
    PROVE  /\ ThreeTerms(p, q, y, x) \in Int
           /\ (ThreeTerms(p, q, y, x)) % 2 = 0
<1>1. x \in Int /\ x + x \in Int /\ (x + x) % 2 = 0 /\ (0 + 0) % 2 = 0
  <2>1. x \in Int /\ 0 \in Int
    BY DEF Bits
  <2> QED BY <2>1, EqualParity
<1>2. 0 * x = 0 /\ 1 * x = x
  BY <1>1
<1>3. CASE y = 0 /\ p = q
  <2>1. p * x = 0 \/ p * x = x
    BY <1>2 DEF Bits
  <2>2. ThreeTerms(p, q, y, x) \in {0 + 0, x + x}
    BY <1>1, <1>2, <1>3, <2>1 DEF ThreeTerms
  <2> QED BY <1>1, <2>2
<1>4. CASE y = 1 /\ p = 0 /\ q = 1
  <2>1. ThreeTerms(p, q, y, x) = x + x
    BY <1>1, <1>2, <1>4 DEF ThreeTerms
  <2> QED BY <1>1, <2>1
<1>5. CASE y = 1 /\ p = 1 /\ q = 0
  <2>1. ThreeTerms(p, q, y, x) = x + x
    BY <1>1, <1>2, <1>5 DEF ThreeTerms
  <2> QED BY <1>1, <2>1
<1> QED BY <1>3, <1>4, <1>5, TwoBits DEF IsSumOfTaps

\* f is 0 outside T.
ZeroOutside(f, T, S) == \A x \in S : f[x] \in Int /\ (x \in T \/ f[x] = 0)

\* Zeros may be left out of a sum.
LEMMA WithoutZeros ==
    ASSUME NEW S, IsFiniteSet(S), NEW T \in SUBSET S, NEW f, ZeroOutside(f, T, S)
    PROVE  SumFunctionOnSet(f, S) = SumFunctionOnSet(f, T)
<1>1. \A x \in S : f[x] \in Int
  BY DEF ZeroOutside
<1>2. \A x \in S \ T : f[x] = 0
  BY DEF ZeroOutside
<1> QED BY <1>1, <1>2, SumOfParts

\* The length L is M and a together.
Together(L, M, a) == L = M + a

\* v is a sequence of taps up to M.
AreTaps(v, M) == \A j \in 0..M : v[j] \in Bits

\* The terms of taps that are shifted by a.
ShiftedTerms(e, s, v, a, L, k) ==
    \A j \in 0..L : e[j] = IF j >= a THEN v[j - a] * s[k - j + 1] ELSE 0

\* Taps that are shifted check an earlier bit.
LEMMA ShiftedCheck ==
    ASSUME NEW s \in Seq(Bits), NEW M \in Nat, NEW a \in Nat, NEW L \in Nat, Together(L, M, a),
           NEW k \in L..(Len(s) - 1), NEW v, AreTaps(v, M), NEW e,
           ShiftedTerms(e, s, v, a, L, k)
    PROVE  /\ SumFunctionOnSet(e, 0..L) = Check(s, v, M, k - a)
           /\ \A j \in 0..L : e[j] \in Int
<1> DEFINE back == [j \in a..L |-> j - a]
<1>1. L \in Nat /\ k - a \in M..(Len(s) - 1) /\ a..L \in SUBSET (0..L) /\ k \in Nat /\ L = M + a
  BY DEF Together
<1> PICK f : f = Terms(s, v, M, k - a)
  OBVIOUS
<1>2. /\ \A j \in 0..M : f[j] \in Int /\ s[(k - a) - j + 1] \in Bits
      /\ IsFiniteSet(0..M)
  BY <1>1, TermsType DEF AreTaps
<1>3. IsFiniteSet(0..L) /\ IsFiniteSet(a..L)
  BY <1>1, FS_Interval
<1>4. \A j \in a..L : /\ j - a \in 0..M /\ (k - a) - (j - a) + 1 = k - j + 1
                      /\ e[j] = v[j - a] * s[k - j + 1]
  BY <1>1 DEF ShiftedTerms
<1>5. Reindexes(e, a..L, back, f, 0..M)
  <2>1. \A j \in a..L : back[j] \in 0..M /\ e[j] = f[back[j]]
    <3> SUFFICES ASSUME NEW j \in a..L PROVE back[j] \in 0..M /\ e[j] = f[back[j]]
      OBVIOUS
    <3>1. back[j] = j - a
      OBVIOUS
    <3>2. f[j - a] = v[j - a] * s[(k - a) - (j - a) + 1]
      BY <1>4 DEF Terms
    <3> QED BY <1>4, <3>1, <3>2
  <2>2. \A j, i \in a..L : back[j] = back[i] => j = i
    BY <1>1
  <2>3. \A x \in 0..M : \E j \in a..L : back[j] = x
    <3> SUFFICES ASSUME NEW x \in 0..M PROVE \E j \in a..L : back[j] = x
      OBVIOUS
    <3>1. x + a \in a..L
      BY <1>1
    <3>2. back[x + a] = x
      BY <3>1
    <3> QED BY <3>1, <3>2
  <2> HIDE DEF back
  <2> QED BY <2>1, <2>2, <2>3 DEF Reindexes
<1>6. SumFunctionOnSet(e, a..L) = SumFunctionOnSet(f, 0..M)
  <2> HIDE DEF back
  <2> QED BY <1>2, <1>3, <1>5, SumReindexed
<1>7. \A j \in 0..L : e[j] \in Int
  <2> SUFFICES ASSUME NEW j \in 0..L PROVE e[j] \in Int
    OBVIOUS
  <2>1. CASE j >= a
    <3>1. j \in a..L
      BY <1>1, <2>1
    <3>2. /\ v[j - a] \in Bits /\ s[k - j + 1] \in Bits /\ e[j] = v[j - a] * s[k - j + 1]
      BY <1>2, <1>4, <3>1 DEF AreTaps
    <3> QED BY <3>2 DEF Bits
  <2>2. CASE ~(j >= a)
    BY <2>2 DEF ShiftedTerms
  <2> QED BY <2>1, <2>2
<1>8. \A j \in (0..L) \ (a..L) : e[j] = 0
  BY <1>1 DEF ShiftedTerms
<1>9. SumFunctionOnSet(e, 0..L) = SumFunctionOnSet(e, a..L)
  <2>1. ZeroOutside(e, a..L, 0..L)
    BY <1>7, <1>8 DEF ZeroOutside
  <2> QED BY <1>1, <1>3, <2>1, WithoutZeros
<1> QED BY <1>6, <1>7, <1>9 DEF Check

\* The least of a set of numbers.
LEMMA Smallest ==
    ASSUME NEW n \in Nat, NEW S \in SUBSET (0..n), S # {}
    PROVE  \E x \in S : \A y \in S : x <= y
<1> SUFFICES ASSUME \A x \in S : \E y \in S : y < x PROVE FALSE
  <2>1. \A x, y \in S : ~(x <= y) => y < x
    OBVIOUS
  <2> QED BY <2>1
<1> DEFINE T == {m \in Nat : \A y \in 0..m : y \notin S}
<1>1. 0 \in T
  <2>1. \A y \in S : ~(y < 0)
    OBVIOUS
  <2>2. 0 \notin S
    BY <2>1
  <2> QED BY <2>2
<1>2. ASSUME NEW m \in Nat, m \in T PROVE m + 1 \in T
  <2>1. \A y \in S : ~(y < m + 1)
    <3> SUFFICES ASSUME NEW y \in S, y < m + 1 PROVE FALSE
      OBVIOUS
    <3>1. y \in 0..m
      OBVIOUS
    <3> QED BY <1>2, <3>1
  <2>2. m + 1 \notin S
    BY <2>1
  <2>3. \A y \in 0..(m + 1) : y \in 0..m \/ y = m + 1
    OBVIOUS
  <2> QED BY <1>2, <2>2, <2>3
<1>3. n \in T
  <2> HIDE DEF T
  <2> QED BY <1>1, <1>2, SetInduction
<1> QED BY <1>3

\* Two registers of least length, at most half that of the bits, are the same.
LEMMA OnlyTaps ==
    ASSUME NEW s \in Seq(Bits), NEW L \in Nat, 2 * L <= Len(s), Least(s, Len(s), L),
           NEW t \in TapsOf(L), \A k \in L..(Len(s) - 1) : Predicts(s, t, L, k),
           NEW u \in TapsOf(L), \A k \in L..(Len(s) - 1) : Predicts(s, u, L, k)
    PROVE  \A j \in 0..L : u[j] = t[j]
<1> DEFINE D == {j \in 0..L : u[j] # t[j]}
<1> SUFFICES ASSUME D # {} PROVE FALSE
  OBVIOUS
<1>1. PICK a \in D : \A j \in D : a <= j
  <2>1. D \in SUBSET (0..L)
    OBVIOUS
  <2> HIDE DEF D
  <2> QED BY <2>1, Smallest
<1>2. /\ a \in 1..L /\ u[a] # t[a] /\ \A j \in 0..L : j < a => u[j] = t[j]
      /\ \A j \in 0..L : t[j] \in Bits /\ u[j] \in Bits
  <2>1. a \in 0..L /\ u[a] # t[a] /\ t[0] = 1 /\ u[0] = 1
    BY DEF TapsOf
  <2>2. \A j \in 0..L : j < a => u[j] = t[j]
    BY <1>1, <2>1
  <2> QED BY <2>1, <2>2 DEF TapsOf
<1> HIDE DEF D
<1> PICK M \in Nat : M = L - a
  BY <1>2
<1> DEFINE v == [j \in 0..M |-> (t[j + a] + u[j + a]) % 2]
<1>3. v \in TapsOf(M) /\ M \in 0..(L - 1) /\ L = M + a
  <2>1. \A j \in 0..M : j + a \in 0..L
    BY <1>2
  <2>2. \A x, y \in Bits : (x + y) % 2 \in Bits /\ (x # y => (x + y) % 2 = 1)
    BY DEF Bits
  <2>3. v \in [0..M -> Bits]
    BY <1>2, <2>1, <2>2
  <2>4. v[0] = 1
    <3>1. 0 + a = a /\ 0 \in 0..M /\ a \in 0..L
      BY <1>2
    <3>2. (t[a] + u[a]) % 2 = 1
      BY <1>2, <2>2, <3>1
    <3> QED BY <3>1, <3>2
  <2> HIDE DEF v
  <2> QED BY <1>2, <2>3, <2>4 DEF TapsOf
<1>4. \A j \in 0..M : v[j] \in Bits /\ v[j] % 2 = (t[j + a] + u[j + a]) % 2
  <2>1. \A x, y \in Bits : ((x + y) % 2) % 2 = (x + y) % 2
    BY DEF Bits
  <2>2. \A j \in 0..M : j + a \in 0..L
    BY <1>2
  <2> QED BY <1>2, <1>3, <2>1, <2>2 DEF TapsOf
<1> HIDE DEF v
<1>5. ASSUME NEW k \in L..(Len(s) - 1) PROVE Predicts(s, v, M, k - a)
  <2>1. /\ \A j \in 0..L : s[k - j + 1] \in Bits
        /\ \A j \in 0..L : Terms(s, t, L, k)[j] \in Int /\ Terms(s, u, L, k)[j] \in Int
        /\ Check(s, t, L, k) \in Int /\ Check(s, u, L, k) \in Int /\ IsFiniteSet(0..L)
    BY <1>2, TermsType
  <2> PICK e : e = [j \in 0..L |-> IF j >= a THEN v[j - a] * s[k - j + 1] ELSE 0]
    OBVIOUS
  <2>2. /\ SumFunctionOnSet(e, 0..L) = Check(s, v, M, k - a)
        /\ \A j \in 0..L : e[j] \in Int
    <3>1. ShiftedTerms(e, s, v, a, L, k)
      BY DEF ShiftedTerms
    <3>2. a \in Nat /\ Together(L, M, a)
      BY <1>2, <1>3 DEF Together
    <3>3. AreTaps(v, M)
      BY <1>4 DEF AreTaps
    <3>4. SumFunctionOnSet(e, 0..L) = Check(s, v, M, k - a)
      BY <3>1, <3>2, <3>3, ShiftedCheck
    <3>5. \A j \in 0..L : e[j] \in Int
      BY <3>1, <3>2, <3>3, ShiftedCheck
    <3> QED BY <3>4, <3>5
  <2> PICK one \in Int : one = 1
    OBVIOUS
  <2> PICK f : f = [j \in 0..L |-> Terms(s, t, L, k)[j] + one * Terms(s, u, L, k)[j]]
    OBVIOUS
  <2>3. Combines(f, Terms(s, t, L, k), one, Terms(s, u, L, k), 0..L)
    BY <2>1 DEF Combines
  <2>4. SumFunctionOnSet(f, 0..L) = Check(s, t, L, k) + one * Check(s, u, L, k)
    BY <2>1, <2>3, SumsOf DEF Check
  <2> PICK h : h = [j \in 0..L |-> f[j] + one * e[j]]
    OBVIOUS
  <2>5. Combines(h, f, one, e, 0..L)
    BY <2>1, <2>2 DEF Combines
  <2>6. SumFunctionOnSet(h, 0..L) = SumFunctionOnSet(f, 0..L) + one * SumFunctionOnSet(e, 0..L)
    BY <2>1, <2>5, SumsOf
  <2>7. \A j \in 0..L : h[j] \in Int /\ h[j] % 2 = 0
    <3> SUFFICES ASSUME NEW j \in 0..L PROVE h[j] \in Int /\ h[j] % 2 = 0
      OBVIOUS
    <3>1. /\ Terms(s, t, L, k)[j] = t[j] * s[k - j + 1]
          /\ Terms(s, u, L, k)[j] = u[j] * s[k - j + 1]
      BY DEF Terms
    <3>2. h[j] = (t[j] * s[k - j + 1] + u[j] * s[k - j + 1]) + e[j]
      BY <2>1, <2>2, <3>1
    <3>3. PICK x \in Bits : x = s[k - j + 1]
      BY <2>1
    <3>4. PICK p \in Bits : p = t[j]
      BY <1>2
    <3>5. PICK q \in Bits : q = u[j]
      BY <1>2
    <3>6. x \in Int /\ p \in Int /\ q \in Int
      BY DEF Bits
    <3>7. PICK y \in Bits : IsSumOfTaps(y, p, q) /\ e[j] = y * x
      <4>1. CASE j < a
        <5>1. p = q /\ e[j] = 0 * x
          BY <1>2, <3>4, <3>5, <3>6, <4>1
        <5>2. (p + p) % 2 = 0 /\ 0 \in Bits
          BY <3>6, EqualParity DEF Bits
        <5>3. 0 % 2 = 0
          OBVIOUS
        <5>4. IsSumOfTaps(0, p, q)
          BY <5>1, <5>2, <5>3 DEF IsSumOfTaps
        <5> QED BY <5>1, <5>2, <5>4
      <4>2. CASE ~(j < a)
        <5>1. j - a \in 0..M /\ (j - a) + a = j
          BY <1>2, <1>3, <4>2
        <5>2. v[j - a] \in Bits /\ v[j - a] % 2 = (t[j] + u[j]) % 2
          BY <1>4, <5>1
        <5>3. IsSumOfTaps(v[j - a], p, q)
          BY <3>4, <3>5, <5>2 DEF IsSumOfTaps
        <5>4. e[j] = v[j - a] * x
          BY <1>2, <3>3, <4>2
        <5> QED BY <5>2, <5>3, <5>4
      <4> QED BY <4>1, <4>2
    <3>8. h[j] = ThreeTerms(p, q, y, x)
      BY <3>2, <3>3, <3>4, <3>5, <3>7 DEF ThreeTerms
    <3>9. ThreeTerms(p, q, y, x) \in Int /\ ThreeTerms(p, q, y, x) % 2 = 0
      BY <3>7, EvenTerms
    <3> QED BY <3>8, <3>9
  <2>8. SumFunctionOnSet(h, 0..L) % 2 = 0
    BY <2>1, <2>7, EvenSums
  <2>9. Check(s, t, L, k) % 2 = 0 /\ Check(s, u, L, k) % 2 = 0
    BY DEF Predicts
  <2> PICK z \in Int : z = Check(s, v, M, k - a)
    <3>1. k - a \in M..(Len(s) - 1)
      BY <1>2, <1>3
    <3> QED BY <1>4, <3>1, TermsType
  <2>10. ((Check(s, t, L, k) + Check(s, u, L, k)) + z) % 2 = 0
    BY <2>1, <2>2, <2>4, <2>6, <2>8
  <2>15. z % 2 = 0
    BY <2>1, <2>9, <2>10, EvenRest, ZenonT(60)
  <2> QED BY <2>15 DEF Predicts
<1> DEFINE Q == {k \in M..(Len(s) - 1) : ~Predicts(s, v, M, k)}
<1>6. Q # {} /\ Q \in SUBSET (0..Len(s))
  BY <1>3 DEF Least
<1>7. PICK q \in Q : \A k \in Q : q <= k
  <2> HIDE DEF Q
  <2>1. Len(s) \in Nat
    OBVIOUS
  <2> QED BY <1>6, <2>1, Smallest
<1>8. q >= Len(s) - a
  <2> SUFFICES ASSUME q < Len(s) - a PROVE FALSE
    BY <1>2
  <2>1. q + a \in L..(Len(s) - 1) /\ (q + a) - a = q
    BY <1>2, <1>3
  <2> QED BY <1>5, <2>1
<1>9. \A k \in M..(q - 1) : Predicts(s, v, M, k)
  BY <1>7
<1>10. q \in 0..(Len(s) - 1) /\ ~Predicts(s, v, M, q) /\ \A k \in L..q : Predicts(s, t, L, k)
  OBVIOUS
<1> HIDE DEF Q
<1>11. M + L > q
  BY <1>3, <1>9, <1>10, Massey
<1> QED BY <1>2, <1>3, <1>8, <1>10, <1>11

\* For every log of ports, of any length and any width of the ports, the length
\* that berlekamp_massey (l.331-356) returns is the least of a register that
\* generates the bits, its own taps generate them, and no others of that length do
\* if it is at most half the number of bits.
THEOREM LinearComplexityIs ==
    ASSUME NEW ports \in Seq(PortNumbers), ports # <<>>
    PROVE  LinearComplexityCorrect(ports)
<1> DEFINE s == Bitstream(ports)
           n == Len(s)
           r == BerlekampMassey(s)
<1>1. s \in Seq(Bits) /\ n > 0 /\ n \in Nat
  <2>1. Len(ports) \in Nat /\ Len(ports) > 0
    OBVIOUS
  <2>2. PortBits \in Nat /\ PortBits > 0 /\ s \in Seq(Bits) /\ n = PortBits * Len(ports)
    BY BitstreamType
  <2> QED BY <2>1, <2>2
<1>2. r \in Registers(n) /\ RegisterInv(s, n, r)
  <2> HIDE DEF s
  <2> QED BY <1>1, RegisterIs
<1>3. r.l \in 0..n
  BY <1>2 DEF Registers
<1>4. Connections(s, n, r.c, r.l) /\ Least(s, n, r.l)
  BY <1>2 DEF RegisterInv
<1>5. Generates(s, r.l, r.c)
  <2> HIDE DEF s, r
  <2>1. r.l \in Nat /\ r.c[0] = 1 /\ r.c \in [0..(n - 1) -> Bits]
    BY <1>1, <1>3, <1>4 DEF Connections
  <2>2. CASE r.l = n
    BY <1>1, <2>2 DEF Generates
  <2>3. CASE r.l < n
    <3>1. \A j \in 1..r.l : r.c[j] \in Bits /\ r.c[j] = r.c[j]
      BY <1>1, <1>3, <2>1, <2>3
    <3>2. ASSUME NEW k \in r.l..(n - 1) PROVE Predicts(s, r.c, r.l, k)
      <4>1. Coef(s, r.c, k) % 2 = 0
        BY <1>4 DEF Connections
      <4>2. Check(s, r.c, r.l, k) = Coef(s, r.c, k)
        <5>1. n \in 0..Len(s) /\ r.l < Len(s) /\ k \in r.l..(Len(s) - 1)
          BY <1>1, <2>3
        <5> HIDE DEF n
        <5> QED BY <1>1, <1>4, <5>1, ConnectionTaps
      <4> QED BY <4>1, <4>2 DEF Predicts
    <3> QED BY <1>1, <2>1, <3>1, <3>2, GeneratesIs
  <2> QED BY <1>3, <2>2, <2>3
<1>6. ASSUME NEW L \in 0..(r.l - 1), NEW t \in [1..L -> {0, 1}] PROVE ~Generates(s, L, t)
  <2> HIDE DEF s, r
  <2> DEFINE u == [j \in 0..L |-> IF j = 0 THEN 1 ELSE t[j]]
  <2>1. L \in Nat /\ u \in TapsOf(L)
    BY <1>3 DEF TapsOf, Bits
  <2>2. u[0] = 1 /\ \A j \in 1..L : t[j] \in Bits /\ u[j] = t[j]
    BY <2>1 DEF Bits
  <2> HIDE DEF u
  <2>3. \E k \in L..(n - 1) : ~Predicts(s, u, L, k)
    BY <1>4, <2>1 DEF Least
  <2> QED BY <1>1, <2>1, <2>2, <2>3, GeneratesIs
<1>7. ASSUME 2 * r.l <= n, NEW t \in [1..(r.l) -> {0, 1}], Generates(s, r.l, t)
      PROVE  \A j \in 1..(r.l) : t[j] = r.c[j]
  <2> HIDE DEF s, r
  <2> PICK l \in 0..n : l = r.l
    BY <1>3
  <2>1. l < n /\ n \in 0..n /\ l \in Nat /\ 2 * l <= n
    BY <1>1, <1>7
  <2>2. r.c \in [0..(n - 1) -> Bits] /\ r.c[0] = 1 /\ Connections(s, n, r.c, l)
    BY <1>4 DEF Connections
  <2> DEFINE u == [j \in 0..l |-> IF j = 0 THEN 1 ELSE t[j]]
             v == [j \in 0..l |-> r.c[j]]
  <2>3. u \in TapsOf(l)
    BY <2>1, <1>7 DEF TapsOf, Bits
  <2>4. v \in TapsOf(l)
    BY <1>1, <2>1, <2>2 DEF TapsOf
  <2>5. u[0] = 1 /\ \A j \in 1..l : t[j] \in Bits /\ u[j] = t[j]
    BY <1>7, <2>1 DEF Bits
  <2>6. SameUpTo(r.c, v, l)
    <3>1. \A j \in 0..l : v[j] = r.c[j]
      OBVIOUS
    <3>2. \A j \in 0..l : j \in 0..(n - 1)
      BY <1>1, <2>1
    <3> QED BY <2>2, <3>1, <3>2 DEF SameUpTo
  <2> HIDE DEF u
  <2>7. \A k \in l..(n - 1) : Predicts(s, u, l, k)
    BY <1>1, <1>7, <2>1, <2>5, GeneratesIs
  <2>8. ASSUME NEW k \in l..(n - 1) PROVE Predicts(s, v, l, k)
    <3> HIDE DEF v
    <3>1. Coef(s, r.c, k) % 2 = 0
      BY <2>2, <2>8 DEF Connections
    <3>2. Check(s, r.c, l, k) = Coef(s, r.c, k)
      BY <1>1, <2>1, <2>2, ConnectionTaps
    <3>3. Check(s, v, l, k) = Check(s, r.c, l, k)
      BY <1>1, <2>1, <2>6, SameTaps
    <3> QED BY <3>1, <3>2, <3>3 DEF Predicts
  <2>9. Least(s, n, l)
    BY <1>4
  <2>10. \A j \in 0..l : u[j] = v[j]
    <3> HIDE DEF v
    <3> QED BY <1>1, <2>1, <2>3, <2>4, <2>7, <2>8, <2>9, OnlyTaps
  <2>11. ASSUME NEW j \in 1..l PROVE t[j] = r.c[j]
    <3>1. j \in 0..l
      BY <2>1
    <3>2. v[j] = r.c[j]
      BY <3>1
    <3> HIDE DEF v
    <3> QED BY <2>5, <2>10, <3>1, <3>2
  <2> HIDE DEF v
  <2>12. 1..(r.l) = 1..l
    OBVIOUS
  <2> QED BY <2>11, <2>12
<1> QED BY <1>3, <1>5, <1>6, <1>7 DEF LinearComplexityCorrect

-----------------------------------------------------------------------------
(* Ports made of bits.                                                     *)

\* Half of a quotient.
LEMMA HalfOfQuotient ==
    ASSUME NEW p \in Nat, NEW d \in Nat \ {0}
    PROVE  /\ p \div d \in Nat /\ p \div (2 * d) \in Nat
           /\ p \div d = 2 * (p \div (2 * d)) + ((p \div d) % 2)
<1>1. PICK q \in Nat : q = p \div d
  BY Division
<1>2. PICK r \in 0..(d - 1) : p = d * q + r
  BY <1>1, Division
<1>3. PICK h \in Nat : h = q \div 2
  BY Division
<1>4. PICK e \in 0..1 : q = 2 * h + e /\ e = q % 2
  BY <1>3, Division
<1>5. d * e + r \in 0..(2 * d - 1)
  <2>1. e = 0 \/ e = 1
    OBVIOUS
  <2>2. d * 0 = 0 /\ d * 1 = d
    OBVIOUS
  <2> QED BY <2>1, <2>2
<1>6. p = (2 * d) * h + (d * e + r)
  <2>1. d * q = d * (2 * h) + d * e
    BY <1>4
  <2>2. d * (2 * h) = (2 * d) * h
    OBVIOUS
  <2> QED BY <1>2, <2>1, <2>2
<1>7. p \div (2 * d) = h
  <2>1. PICK D \in Nat \ {0} : D = 2 * d
    OBVIOUS
  <2>2. PICK x \in 0..(D - 1) : x = d * e + r
    BY <1>5, <2>1
  <2>3. (D * h + x) \div D = h
    BY DivisionIsUnique
  <2> QED BY <1>6, <2>1, <2>2, <2>3
<1> QED BY <1>1, <1>4, <1>7

\* A port made of bits, one by one.
MadeOf(w) == FoldLeft(LAMBDA port, bit : 2 * port + bit, 0, w)
MakeStep(w) == [p \in (1..Len(w)) \X Nat |-> 2 * p[2] + w[p[1]]]

\* The port, by what is made of the first bits.
LEMMA MakeRuns ==
    ASSUME NEW w \in Seq(Nat)
    PROVE  IsEnd(MadeOf(w), Len(w), Nat, 0, MakeStep(w))
<1> DEFINE n == Len(w)
           Iter(f) == f = [t \in SUBSET DOMAIN w |->
                             IF t = {} THEN 0
                             ELSE LET x == Max(t) IN 2 * f[t \ {x}] + w[x]]
           iter == CHOOSE f : Iter(f)
<1>1. n \in Nat /\ DOMAIN w = 1..n /\ \A k \in 1..n : w[k] \in Nat
  OBVIOUS
<1>2. MakeStep(w) \in [(1..n) \X Nat -> Nat]
  <2>1. \A p \in (1..n) \X Nat : 2 * p[2] + w[p[1]] \in Nat
    BY <1>1
  <2> QED BY <2>1 DEF MakeStep
<1>3. \A t \in SUBSET (1..n) : t # {} => Max(t) \in 1..n
  BY MaxInRange, <1>1
<1>4. PICK h \in [SUBSET (1..n) -> Nat] : IsFold(h, n, 0, MakeStep(w))
  <2> HIDE DEF n
  <2> QED BY <1>1, <1>2, FoldExists, Zenon
<1>5. Iter(h)
  BY <1>1, <1>3, <1>4 DEF IsFold, MakeStep
<1>6. Iter(iter)
  <2> HIDE DEF Iter
  <2> QED BY <1>5
<1>7. MadeOf(w) = iter[1..n]
  BY <1>1 DEF FoldLeft, MapThenFoldSet, MadeOf
<1> HIDE DEF iter
<1>8. Steps(iter, n, Nat, 0, MakeStep(w))
  <2>1. iter[{}] = 0
    BY <1>6
  <2>2. ASSUME NEW k \in 1..n, iter[1..(k - 1)] \in Nat
        PROVE  iter[1..k] = MakeStep(w)[<<k, iter[1..(k - 1)]>>]
    <3>1. iter[1..k] = 2 * iter[1..(k - 1)] + w[k]
      <4>1. /\ 1..k \in SUBSET (1..n) /\ 1..k # {}
            /\ Max(1..k) = k /\ (1..k) \ {Max(1..k)} = 1..(k - 1)
        BY <1>1, Intervals
      <4> QED BY <1>1, <1>6, <4>1
    <3> QED BY <1>1, <2>2, <3>1 DEF MakeStep
  <2> QED BY <2>1, <2>2 DEF Steps
<1>9. IsEnd(iter[1..n], n, Nat, 0, MakeStep(w))
  <2> HIDE DEF n, Iter
  <2>1. 0 \in Nat
    OBVIOUS
  <2> QED BY <1>1, <1>2, <1>8, <2>1, RunningValues
<1> QED BY <1>7, <1>9

\* A port is made of its bits.
LEMMA MadeOfBits ==
    ASSUME NEW p \in PortNumbers
    PROVE  MadeOf(BitsOf(p)) = p
<1>1. PortBits \in Nat /\ PortBits > 0
  BY AnalysisAssumption
<1>2. PICK w : w = BitsOf(p)
  OBVIOUS
<1>3. /\ w \in [1..PortBits -> Bits] /\ w \in Seq(Nat) /\ Len(w) = PortBits
      /\ \A k \in 1..PortBits : w[k] = (p \div 2^(PortBits - k)) % 2
  <2>1. BitsOf(p) \in [1..PortBits -> Bits]
    <3>1. <<>> \in Seq(PortNumbers)
      OBVIOUS
    <3> QED BY <3>1, BitstreamType
  <2>2. \A k \in 1..PortBits : w[k] \in Nat
    BY <1>2, <2>1 DEF Bits
  <2>3. w \in [1..PortBits -> Nat]
    BY <1>2, <2>1, <2>2
  <2>4. w \in Seq(Nat) /\ Len(w) = PortBits
    BY <1>1, <2>3
  <2>5. \A k \in 1..PortBits : w[k] = (p \div 2^(PortBits - k)) % 2
    BY <1>2 DEF BitsOf
  <2> QED BY <1>2, <2>1, <2>4, <2>5
<1>4. p \in Nat /\ p < 2^PortBits /\ 2^PortBits \in Nat \ {0}
  BY <1>1, Powers DEF PortNumbers
<1>5. PICK g : /\ IsRun(g, PortBits, Nat, 0, MakeStep(w)) /\ MadeOf(w) = g[PortBits]
  BY <1>3, MakeRuns DEF IsEnd
<1> DEFINE S == {k \in 0..PortBits : g[k] = p \div 2^(PortBits - k)}
<1>6. 0 \in S
  <2>1. g[0] = 0 /\ 0 \in 0..PortBits /\ PortBits - 0 = PortBits
    BY <1>1, <1>5 DEF IsRun
  <2>2. PICK d \in Nat \ {0} : d = 2^PortBits
    BY <1>4
  <2>3. p \div d = 0
    <3>1. p \in 0..(d - 1) /\ p = d * 0 + p
      BY <1>4, <2>2
    <3>2. (d * 0 + p) \div d = 0
      BY <3>1, DivisionIsUnique
    <3> QED BY <3>1, <3>2
  <2> QED BY <2>1, <2>2, <2>3
<1>7. ASSUME NEW k \in 1..PortBits, k - 1 \in S PROVE k \in S
  <2>1. /\ g[k - 1] \in Nat /\ g[k] = MakeStep(w)[<<k, g[k - 1]>>]
    BY <1>1, <1>5 DEF IsRun
  <2>2. g[k] = 2 * g[k - 1] + w[k]
    BY <1>3, <2>1 DEF MakeStep
  <2>3. PICK a \in Nat : a = PortBits - k
    BY <1>1
  <2>4. PICK d \in Nat \ {0} : d = 2^a
    BY <2>3, Powers
  <2>5. 2^(a + 1) = 2 * d
    BY <2>4, Powers
  <2>6. PortBits - (k - 1) = a + 1
    BY <1>1, <2>3
  <2>7. g[k - 1] = p \div (2 * d)
    BY <1>7, <2>5, <2>6
  <2>8. w[k] = (p \div d) % 2
    BY <1>3, <2>3, <2>4
  <2>9. p \div d = 2 * (p \div (2 * d)) + ((p \div d) % 2)
    BY <1>4, <2>4, HalfOfQuotient
  <2>10. g[k] = p \div d
    BY <2>2, <2>7, <2>8, <2>9
  <2>11. g[k] = p \div 2^(PortBits - k) /\ k \in 0..PortBits
    BY <2>3, <2>4, <2>10
  <2> QED BY <2>11
<1>8. g[PortBits] = p \div 2^(PortBits - PortBits)
  <2>1. PortBits \in 0..PortBits
    BY <1>1
  <2> HIDE DEF S
  <2>2. \A k \in 0..PortBits : k \in S
    BY <1>1, <1>6, <1>7, UpTo
  <2> QED BY <2>1, <2>2 DEF S
<1>9. PortBits - PortBits = 0 /\ 2^0 = 1 /\ p \div 1 = p
  BY <1>1, <1>4, Powers
<1> QED BY <1>2, <1>5, <1>8, <1>9

\* The bits of a port in the stream.
LEMMA PlaceInStream ==
    ASSUME NEW ports \in Seq(PortNumbers), NEW i \in 1..Len(ports), NEW j \in 1..PortBits
    PROVE  /\ (i - 1) * PortBits + j \in 1..(PortBits * i)
           /\ PortBits * i <= PortBits * Len(ports)
           /\ Bitstream(ports)[(i - 1) * PortBits + j] = BitsOf(ports[i])[j]
<1>1. PortBits \in Nat \ {0}
  BY AnalysisAssumption
<1>2. PICK q \in Nat : q = i - 1
  OBVIOUS
<1>3. PICK r \in 0..(PortBits - 1) : r = j - 1
  BY <1>1
<1>4. (PortBits * q + r) \div PortBits = q /\ (PortBits * q + r) % PortBits = r
  BY <1>1, DivisionIsUnique
<1>5. PICK k : k = (i - 1) * PortBits + j
  OBVIOUS
<1>6. k - 1 = PortBits * q + r
  BY <1>1, <1>2, <1>3, <1>5
<1>7. PortBits * i = PortBits * q + PortBits /\ PortBits * q \in Nat
  BY <1>1, <1>2
<1>8. k \in 1..(PortBits * i)
  BY <1>1, <1>2, <1>3, <1>5, <1>7
<1>9. PortBits * i <= PortBits * Len(ports) /\ PortBits * Len(ports) \in Nat
  <2>1. i \in Nat /\ Len(ports) \in Nat /\ i <= Len(ports)
    OBVIOUS
  <2> QED BY <1>1, <2>1, Product
<1>10. k \in 1..(PortBits * Len(ports))
  <2>1. PICK x \in Nat : x = PortBits * i
    <3>1. PortBits * i \in Nat
      BY <1>1
    <3> QED BY <3>1
  <2>2. PICK y \in Nat : y = PortBits * Len(ports)
    BY <1>9
  <2>3. k \in 1..x /\ x <= y
    BY <1>8, <1>9, <2>1, <2>2
  <2>4. k \in 1..y
    BY <2>3
  <2> QED BY <2>2, <2>4
<1>11. Bitstream(ports)[k]
         = BitsOf(ports[((k - 1) \div PortBits) + 1])[((k - 1) % PortBits) + 1]
  BY <1>10 DEF Bitstream
<1>12. q + 1 = i /\ r + 1 = j
  BY <1>2, <1>3
<1> QED BY <1>4, <1>5, <1>6, <1>8, <1>9, <1>11, <1>12

\* The ports are made of the bits of a stream.
LEMMA PortsOfStream ==
    ASSUME NEW ports \in Seq(PortNumbers), NEW m \in 0..Len(ports), NEW u \in Seq(Bits),
           Len(u) \div PortBits = m, PortBits * m <= Len(u),
           \A k \in 1..(PortBits * m) : u[k] = Bitstream(ports)[k]
    PROVE  PortsOf(u) = [i \in 1..m |-> ports[i]]
<1>1. PortBits \in Nat \ {0}
  BY AnalysisAssumption
<1>2. ASSUME NEW i \in 1..m
      PROVE  FoldLeft(LAMBDA port, bit : 2 * port + bit, 0,
                      SubSeq(u, (i - 1) * PortBits + 1, i * PortBits)) = ports[i]
  <2>1. PICK a \in Nat : a = (i - 1) * PortBits
    BY <1>1
  <2>2. i * PortBits = a + PortBits /\ a + PortBits <= PortBits * m /\ PortBits * m \in Nat
    <3>1. i \in Nat /\ m \in Nat /\ i <= m
      OBVIOUS
    <3>2. PortBits * i <= PortBits * m /\ PortBits * m \in Nat
      BY <1>1, <3>1, Product
    <3>3. i * PortBits = PortBits * i /\ i * PortBits = a + PortBits
      BY <1>1, <2>1, <3>1
    <3> QED BY <3>2, <3>3
  <2>3. PICK v : v = SubSeq(u, a + 1, a + PortBits)
    OBVIOUS
  <2>4. v = BitsOf(ports[i])
    <3>1. ports[i] \in PortNumbers /\ i \in 1..Len(ports)
      OBVIOUS
    <3>2. BitsOf(ports[i]) \in [1..PortBits -> Bits]
      BY <3>1, BitstreamType
    <3>3. v = [j \in 1..PortBits |-> u[a + j]]
      BY <1>1, <2>2, <2>3
    <3>4. ASSUME NEW j \in 1..PortBits PROVE u[a + j] = BitsOf(ports[i])[j]
      <4>1. a + j \in 1..(PortBits * m)
        BY <1>1, <2>2
      <4>2. Bitstream(ports)[a + j] = BitsOf(ports[i])[j]
        BY <2>1, <3>1, PlaceInStream
      <4> QED BY <4>1, <4>2
    <3> QED BY <3>2, <3>3, <3>4
  <2>5. MadeOf(v) = ports[i]
    BY <2>4, MadeOfBits
  <2>6. v = SubSeq(u, (i - 1) * PortBits + 1, i * PortBits)
    BY <2>1, <2>2, <2>3
  <2> QED BY <2>5, <2>6 DEF MadeOf
<1> QED BY <1>2 DEF PortsOf

\* The ports made of the bits of a log are those of the log.
LEMMA PortsOfInvert ==
    ASSUME NEW ports \in Seq(PortNumbers), ports # <<>>
    PROVE  PortsOfInverts(ports)
<1>1. PortBits \in Nat \ {0}
  BY AnalysisAssumption
<1>2. PICK n \in Nat : n = Len(ports) /\ n > 0
  OBVIOUS
<1>3. PICK s : s = Bitstream(ports)
  OBVIOUS
<1>4. s \in Seq(Bits) /\ Len(s) = PortBits * n /\ PortBits * n \in Nat
  BY <1>1, <1>2, <1>3, BitstreamType
<1>5. PortsOf(s) = ports
  <2>1. Len(s) \div PortBits = n
    <3>1. 0 \in 0..(PortBits - 1) /\ PortBits * n = PortBits * n + 0
      BY <1>1, <1>4
    <3>2. (PortBits * n + 0) \div PortBits = n
      BY <1>1, <3>1, DivisionIsUnique
    <3> QED BY <1>4, <3>1, <3>2
  <2>2. n \in 0..Len(ports) /\ PortBits * n <= Len(s)
    BY <1>2, <1>4
  <2>3. \A k \in 1..(PortBits * n) : s[k] = Bitstream(ports)[k]
    BY <1>3
  <2>4. PortsOf(s) = [i \in 1..n |-> ports[i]]
    BY <1>4, <2>1, <2>2, <2>3, PortsOfStream
  <2> QED BY <1>2, <2>4
<1>6. PortsOf(Front(s)) = Front(ports)
  <2>1. PICK m \in Nat : m = n - 1
    BY <1>2
  <2>2. PortBits * n = PortBits * m + PortBits /\ PortBits * m \in Nat
    BY <1>1, <2>1
  <2>3. PICK u : u = Front(s)
    OBVIOUS
  <2>4. /\ u \in Seq(Bits) /\ Len(u) = PortBits * m + (PortBits - 1)
        /\ \A k \in 1..Len(u) : u[k] = s[k]
    BY <1>1, <1>4, <2>2, <2>3 DEF Front
  <2>5. Len(u) \div PortBits = m
    <3>1. PortBits - 1 \in 0..(PortBits - 1)
      BY <1>1
    <3>2. PICK e \in 0..(PortBits - 1) : e = PortBits - 1
      BY <3>1
    <3>3. (PortBits * m + e) \div PortBits = m
      BY <1>1, DivisionIsUnique
    <3> QED BY <2>4, <3>2, <3>3
  <2>6. m \in 0..Len(ports) /\ PortBits * m <= Len(u)
    BY <1>1, <1>2, <2>1, <2>2, <2>4
  <2>7. \A k \in 1..(PortBits * m) : u[k] = Bitstream(ports)[k]
    BY <1>1, <1>3, <2>2, <2>4
  <2>8. PortsOf(u) = [i \in 1..m |-> ports[i]]
    BY <2>4, <2>5, <2>6, <2>7, PortsOfStream
  <2>9. Front(ports) = [i \in 1..m |-> ports[i]]
    BY <1>2, <2>1 DEF Front
  <2> QED BY <2>3, <2>8, <2>9
<1> QED BY <1>3, <1>5, <1>6 DEF PortsOfInverts

-----------------------------------------------------------------------------
(* Counts as sums: remainders, differences and transitions.                *)

\* The sum over one place.
LEMMA SumOfOne ==
    ASSUME NEW f, NEW x, f[x] \in Int
    PROVE  SumFunctionOnSet(f, {x}) = f[x]
<1>1. IsFiniteSet({}) /\ x \notin {} /\ \A y \in {} : f[y] \in Int
  BY FS_EmptySet
<1>2. SumFunctionOnSet(f, {} \cup {x}) = f[x] + SumFunctionOnSet(f, {})
  BY <1>1, SumAdds
<1>3. SumFunctionOnSet(f, {}) = 0
  BY SumEmpty
<1>4. {} \cup {x} = {x}
  OBVIOUS
<1> QED BY <1>2, <1>3, <1>4

\* ind tells the elements of A from the others of T.
Indicates(ind, A, T) == \A x \in T : ind[x] = IF x \in A THEN 1 ELSE 0

\* Elements are counted by adding ones.
LEMMA CountIsSum ==
    ASSUME NEW T, IsFiniteSet(T), NEW A \in SUBSET T, NEW ind, Indicates(ind, A, T)
    PROVE  /\ SumFunctionOnSet(ind, T) = Cardinality(A)
           /\ Cardinality(A) \in Nat
<1>1. IsFiniteSet(A) /\ Cardinality(A) \in Nat
  BY FS_Subset, FS_CardinalityType
<1>2. ZeroOutside(ind, A, T)
  BY DEF ZeroOutside, Indicates
<1>3. SumFunctionOnSet(ind, T) = SumFunctionOnSet(ind, A)
  BY <1>2, WithoutZeros
<1> DEFINE G == {R \in SUBSET A : SumFunctionOnSet(ind, R) = Cardinality(R)}
<1>4. {} \in G
  BY SumEmpty, FS_EmptySet
<1>5. ASSUME NEW R \in SUBSET A, NEW x \in R, R \ {x} \in G PROVE R \in G
  <2>1. PICK Q : Q = R \ {x}
    OBVIOUS
  <2>2. IsFiniteSet(Q) /\ x \notin Q /\ Q \cup {x} = R
    BY <1>1, <2>1, FS_Subset
  <2>3. ind[x] = 1 /\ \A y \in Q : ind[y] \in Int
    BY <2>1 DEF Indicates
  <2>4. SumFunctionOnSet(ind, Q \cup {x}) = ind[x] + SumFunctionOnSet(ind, Q)
    BY <2>2, <2>3, SumAdds
  <2>5. Cardinality(Q \cup {x}) = Cardinality(Q) + 1
    BY <2>2, FS_AddElement
  <2>6. SumFunctionOnSet(ind, Q) = Cardinality(Q) /\ Cardinality(Q) \in Nat
    BY <1>5, <2>1, <2>2, FS_CardinalityType
  <2>7. PICK c \in Nat : c = Cardinality(Q)
    BY <2>6
  <2>8. SumFunctionOnSet(ind, R) = 1 + c /\ Cardinality(R) = c + 1
    BY <2>2, <2>3, <2>4, <2>5, <2>6, <2>7
  <2>9. SumFunctionOnSet(ind, R) = Cardinality(R)
    BY <2>8
  <2> QED BY <2>9
<1>6. A \in G
  <2> HIDE DEF G
  <2> QED BY <1>1, <1>4, <1>5, SubsetInduction
<1> QED BY <1>1, <1>3, <1>6

\* f is a everywhere in S.
IsConstant(f, S, a) == \A x \in S : f[x] = a

\* The sum of equal values is a product.
LEMMA SumOfSame ==
    ASSUME NEW S, IsFiniteSet(S), NEW a \in Int, NEW f, IsConstant(f, S, a)
    PROVE  /\ SumFunctionOnSet(f, S) = a * Cardinality(S)
           /\ Cardinality(S) \in Nat
<1>1. PICK one : one = [x \in S |-> 1]
  OBVIOUS
<1>2. Indicates(one, S, S) /\ S \in SUBSET S
  BY <1>1 DEF Indicates
<1>3. SumFunctionOnSet(one, S) = Cardinality(S) /\ Cardinality(S) \in Nat
  BY <1>2, CountIsSum
<1>4. \A x \in S : one[x] \in Int /\ f[x] = a * one[x]
  BY <1>1 DEF IsConstant
<1>5. SumFunctionOnSet(f, S) = a * SumFunctionOnSet(one, S)
  BY <1>4, SumScaled
<1> QED BY <1>3, <1>5

\* The elements of I that have the key k.
WithKey(key, I, k) == {i \in I : key[i] = k}

\* prod[k] is the weight of the key k times how many have it.
Weighed(prod, key, wt, I, K) ==
    \A k \in K : wt[k] \in Int /\ prod[k] = wt[k] * Cardinality(WithKey(key, I, k))

\* val[i] is the weight of the key of i, which is in K.
WeightOf(val, key, wt, I, K) == \A i \in I : key[i] \in K /\ val[i] = wt[key[i]]

\* Weights may be added key by key.
LEMMA WeightsByKey ==
    ASSUME NEW I, IsFiniteSet(I), NEW K, IsFiniteSet(K), NEW key, NEW wt,
           NEW prod, Weighed(prod, key, wt, I, K), NEW val, WeightOf(val, key, wt, I, K)
    PROVE  SumFunctionOnSet(prod, K) = SumFunctionOnSet(val, I)
<1>1. PICK F : F = [k \in K |-> [i \in I |-> IF key[i] = k THEN wt[k] ELSE 0]]
  OBVIOUS
<1>2. \A k \in K : \A i \in I : F[k][i] = (IF key[i] = k THEN wt[k] ELSE 0)
  BY <1>1
<1>3. \A k \in K : \A i \in I : F[k][i] \in Int
  BY <1>2 DEF Weighed
<1>4. RowsOf(prod, F, K, I)
  <2> SUFFICES ASSUME NEW k \in K PROVE prod[k] = SumFunctionOnSet(F[k], I)
    BY DEF RowsOf
  <2>1. PICK ind : ind = [i \in I |-> IF key[i] = k THEN 1 ELSE 0]
    OBVIOUS
  <2>2. Indicates(ind, WithKey(key, I, k), I) /\ WithKey(key, I, k) \in SUBSET I
    BY <2>1 DEF Indicates, WithKey
  <2>3. SumFunctionOnSet(ind, I) = Cardinality(WithKey(key, I, k))
    BY <2>2, CountIsSum
  <2>4. PICK w \in Int : w = wt[k]
    BY DEF Weighed
  <2>5. PICK f : f = F[k]
    OBVIOUS
  <2>6. \A i \in I : ind[i] \in Int /\ f[i] = w * ind[i]
    BY <1>2, <2>1, <2>4, <2>5
  <2>7. SumFunctionOnSet(f, I) = w * SumFunctionOnSet(ind, I)
    BY <2>6, SumScaled
  <2> QED BY <2>3, <2>4, <2>5, <2>7 DEF Weighed
<1>5. ColumnsOf(val, F, K, I)
  <2> SUFFICES ASSUME NEW i \in I
               PROVE  val[i] = SumFunctionOnSet([k \in K |-> F[k][i]], K)
    BY DEF ColumnsOf
  <2>1. PICK f : f = [k \in K |-> F[k][i]]
    OBVIOUS
  <2>2. PICK x \in K : x = key[i]
    BY DEF WeightOf
  <2>3. f[x] = wt[x] /\ wt[x] \in Int
    BY <1>2, <2>1, <2>2 DEF Weighed
  <2>4. ZeroOutside(f, {x}, K)
    <3>1. \A k \in K : f[k] = (IF x = k THEN wt[k] ELSE 0)
      BY <1>2, <2>1, <2>2
    <3> QED BY <2>3, <3>1 DEF ZeroOutside
  <2>5. SumFunctionOnSet(f, K) = SumFunctionOnSet(f, {x})
    BY <2>4, WithoutZeros
  <2>6. SumFunctionOnSet(f, {x}) = f[x]
    BY <2>3, SumOfOne
  <2> QED BY <2>1, <2>2, <2>3, <2>5, <2>6 DEF WeightOf
<1> QED BY <1>3, <1>4, <1>5, SumExchanged

\* A set of numbers has a least and a greatest one.
LEMMA Extremes ==
    ASSUME NEW n \in Nat, NEW C \in SUBSET (0..n), C # {}
    PROVE  /\ Min(C) \in C /\ \A x \in C : Min(C) <= x
           /\ Max(C) \in C /\ \A x \in C : x <= Max(C)
<1>1. \E x \in C : \A y \in C : x <= y
  BY Smallest
<1>2. Min(C) \in C /\ \A x \in C : Min(C) <= x
  BY <1>1 DEF Min
<1>3. \E x \in C : \A y \in C : x >= y
  <2> DEFINE D == {n - x : x \in C}
  <2>1. D \in SUBSET (0..n) /\ D # {}
    <3>1. \A x \in C : n - x \in 0..n
      OBVIOUS
    <3>2. \A d \in D : d \in 0..n
      BY <3>1
    <3>3. PICK x \in C : TRUE
      OBVIOUS
    <3>4. n - x \in D
      OBVIOUS
    <3> HIDE DEF D
    <3> QED BY <3>2, <3>4
  <2>2. PICK d \in D : \A y \in D : d <= y
    <3> HIDE DEF D
    <3> QED BY <2>1, Smallest
  <2>3. PICK x \in C : d = n - x
    OBVIOUS
  <2>4. ASSUME NEW y \in C PROVE x >= y
    <3>1. n - y \in D
      OBVIOUS
    <3>2. d <= n - y
      BY <2>2, <3>1
    <3> QED BY <2>3, <3>2
  <2> QED BY <2>4
<1>4. Max(C) \in C /\ \A x \in C : Max(C) >= x
  BY <1>3 DEF Max
<1>5. \A x, y \in C : x >= y => y <= x
  OBVIOUS
<1> QED BY <1>2, <1>4, <1>5

\* Every port has one remainder.
LEMMA RemaindersAddUp ==
    ASSUME NEW ports \in Seq(PortNumbers), NEW prod,
           prod = [k \in 0..(ModBase - 1) |-> WithRemainder(ports, k)]
    PROVE  /\ \A k \in 0..(ModBase - 1) : WithRemainder(ports, k) \in 0..Len(ports)
           /\ SumFunctionOnSet(prod, 0..(ModBase - 1)) = Len(ports)
<1>1. ModBase \in Nat \ {0}
  BY AnalysisAssumption
<1>2. PICK n \in Nat : n = Len(ports)
  OBVIOUS
<1>3. PICK I : I = 1..n
  OBVIOUS
<1>4. PICK K : K = 0..(ModBase - 1)
  OBVIOUS
<1>5. IsFiniteSet(I) /\ IsFiniteSet(K) /\ Cardinality(I) = n /\ DOMAIN ports = I
  <2>1. IsFiniteSet(1..n) /\ Cardinality(1..n) = IF 1 > n THEN 0 ELSE n - 1 + 1
    BY FS_Interval
  <2>2. Cardinality(1..n) = n
    BY <2>1
  <2>3. IsFiniteSet(K)
    BY <1>1, <1>4, FS_Interval
  <2>4. DOMAIN ports = 1..n
    BY <1>2
  <2> QED BY <1>3, <2>1, <2>2, <2>3, <2>4
<1>6. PICK key : key = [i \in I |-> ports[i] % ModBase]
  OBVIOUS
<1>7. PICK wt : wt = [k \in K |-> 1]
  OBVIOUS
<1>8. PICK val : val = [i \in I |-> 1]
  OBVIOUS
<1>9. \A i \in I : key[i] \in K
  <2>1. \A i \in I : ports[i] \in Nat
    <3>1. \A p \in PortNumbers : p \in Nat
      BY Powers, AnalysisAssumption DEF PortNumbers
    <3> QED BY <1>2, <1>3, <3>1
  <2>2. \A p \in Nat : p % ModBase \in K
    BY <1>1, <1>4, Division
  <2> QED BY <1>6, <2>1, <2>2
<1>10. \A k \in K : WithRemainder(ports, k) = Cardinality(WithKey(key, I, k))
  <2> SUFFICES ASSUME NEW k \in K
               PROVE  WithRemainder(ports, k) = Cardinality(WithKey(key, I, k))
    OBVIOUS
  <2>1. {i \in DOMAIN ports : ports[i] % ModBase = k} = WithKey(key, I, k)
    BY <1>5, <1>6 DEF WithKey
  <2> QED BY <2>1 DEF WithRemainder
<1>11. \A k \in K : WithRemainder(ports, k) \in 0..n
  <2> SUFFICES ASSUME NEW k \in K PROVE WithRemainder(ports, k) \in 0..n
    OBVIOUS
  <2>1. WithKey(key, I, k) \in SUBSET I
    BY DEF WithKey
  <2>2. /\ IsFiniteSet(WithKey(key, I, k))
        /\ Cardinality(WithKey(key, I, k)) <= Cardinality(I)
    BY <1>5, <2>1, FS_Subset
  <2>3. Cardinality(WithKey(key, I, k)) \in Nat
    BY <2>2, FS_CardinalityType
  <2> QED BY <1>5, <1>10, <2>2, <2>3
<1>12. Weighed(prod, key, wt, I, K)
  <2>1. \A k \in K : wt[k] = 1 /\ prod[k] = WithRemainder(ports, k)
    BY <1>4, <1>7
  <2>2. ASSUME NEW k \in K
        PROVE  wt[k] \in Int /\ prod[k] = wt[k] * Cardinality(WithKey(key, I, k))
    <3>1. PICK x \in 0..n : x = WithRemainder(ports, k)
      BY <1>11
    <3>2. Cardinality(WithKey(key, I, k)) = x /\ wt[k] = 1 /\ prod[k] = x
      BY <1>10, <2>1, <3>1
    <3>3. x = 1 * x
      OBVIOUS
    <3> QED BY <3>2, <3>3
  <2> QED BY <2>2 DEF Weighed
<1>13. WeightOf(val, key, wt, I, K)
  BY <1>7, <1>8, <1>9 DEF WeightOf
<1>14. SumFunctionOnSet(prod, K) = SumFunctionOnSet(val, I)
  BY <1>5, <1>12, <1>13, WeightsByKey
<1>15. SumFunctionOnSet(val, I) = 1 * Cardinality(I)
  <2>1. IsConstant(val, I, 1)
    BY <1>8 DEF IsConstant
  <2>2. 1 \in Int
    OBVIOUS
  <2> QED BY <1>5, <2>1, <2>2, SumOfSame
<1>16. SumFunctionOnSet(prod, K) = n
  BY <1>5, <1>14, <1>15
<1> QED BY <1>2, <1>4, <1>11, <1>16

\* A short log is called biased unless every remainder occurs equally often.
LEMMA ShortLogsAreBiased ==
    ASSUME NEW ports \in Seq(PortNumbers)
    PROVE  ShortLogIsBiased(ports)
<1>1. ModBase \in Nat \ {0}
  BY AnalysisAssumption
<1>2. PICK n \in Nat : n = Len(ports)
  OBVIOUS
<1>3. PICK K : K = 0..(ModBase - 1)
  OBVIOUS
<1>4. PICK prod : prod = [k \in K |-> WithRemainder(ports, k)]
  OBVIOUS
<1>5. /\ \A k \in K : WithRemainder(ports, k) \in 0..n
      /\ SumFunctionOnSet(prod, K) = n
  BY <1>2, <1>3, <1>4, RemaindersAddUp
<1>6. IsFiniteSet(K) /\ Cardinality(K) = ModBase /\ 0 \in K
  <2>1. 0 <= ModBase - 1 /\ 0 \in Int /\ ModBase - 1 \in Int /\ (ModBase - 1) - 0 + 1 = ModBase
    BY <1>1
  <2> QED BY <1>3, <2>1, FS_Interval
<1>7. PICK C : C = {WithRemainder(ports, k) : k \in K}
  OBVIOUS
<1>8. C \in SUBSET (0..n) /\ C # {} /\ \A k \in K : WithRemainder(ports, k) \in C
  BY <1>5, <1>6, <1>7
<1>9. /\ Min(C) \in C /\ \A x \in C : Min(C) <= x
      /\ Max(C) \in C /\ \A x \in C : x <= Max(C)
  BY <1>8, Extremes
<1> SUFFICES ASSUME n < 10 * ModBase
             PROVE  BiasDetected(ports) <=> \E k \in K : ModBase * WithRemainder(ports, k) # n
  BY <1>2, <1>3 DEF ShortLogIsBiased
<1>10. n \div (ModBase * 10) = 0
  <2>1. PICK d \in Nat \ {0} : d = ModBase * 10
    BY <1>1
  <2>2. n \in 0..(d - 1) /\ n = d * 0 + n
    BY <1>1, <2>1
  <2>3. (d * 0 + n) \div d = 0
    BY <2>2, DivisionIsUnique
  <2> QED BY <2>1, <2>2, <2>3
<1>11. BiasDetected(ports) <=> Max(C) - Min(C) > 0
  BY <1>2, <1>3, <1>7, <1>10 DEF BiasDetected
<1>12. PICK lo \in 0..n : lo = Min(C)
  BY <1>8, <1>9
<1>13. PICK hi \in 0..n : hi = Max(C)
  BY <1>8, <1>9
<1>14. BiasDetected(ports) <=> lo < hi
  BY <1>11, <1>12, <1>13
<1>15. ASSUME NEW k \in K, ModBase * WithRemainder(ports, k) # n PROVE lo < hi
  <2> SUFFICES ASSUME ~(lo < hi) PROVE FALSE
    OBVIOUS
  <2>1. ASSUME NEW j \in K PROVE WithRemainder(ports, j) = lo
    <3>1. PICK x \in 0..n : x = WithRemainder(ports, j)
      BY <1>5
    <3>2. lo <= x /\ x <= hi
      BY <1>8, <1>9, <1>12, <1>13, <3>1
    <3> QED BY <3>1, <3>2
  <2>2. IsConstant(prod, K, lo) /\ lo \in Int
    BY <1>4, <2>1 DEF IsConstant
  <2>3. SumFunctionOnSet(prod, K) = lo * Cardinality(K)
    BY <1>6, <2>2, SumOfSame
  <2>4. n = lo * ModBase
    BY <1>5, <1>6, <2>3
  <2>5. lo * ModBase = ModBase * lo
    BY <1>1
  <2> QED BY <1>15, <2>1, <2>4, <2>5
<1>16. ASSUME lo < hi PROVE \E k \in K : ModBase * WithRemainder(ports, k) # n
  <2> SUFFICES ASSUME \A k \in K : ModBase * WithRemainder(ports, k) = n PROVE FALSE
    OBVIOUS
  <2>1. ModBase * lo = n /\ ModBase * hi = n
    <3>1. \A x \in C : ModBase * x = n
      BY <1>7
    <3> QED BY <1>9, <1>12, <1>13, <3>1
  <2>2. ModBase * (lo + 1) <= ModBase * hi
    <3>1. lo + 1 \in Nat /\ hi \in Nat /\ lo + 1 <= hi
      BY <1>16
    <3> QED BY <1>1, <3>1, Product
  <2>3. ModBase * (lo + 1) = ModBase * lo + ModBase
    BY <1>1
  <2> QED BY <1>1, <2>1, <2>2, <2>3
<1> QED BY <1>14, <1>15, <1>16

\* The image of a finite set is finite.
LEMMA ImageIsFinite ==
    ASSUME NEW I, IsFiniteSet(I), NEW f, NEW S, S = {f[i] : i \in I}
    PROVE  IsFiniteSet(S)
<1>1. PICK g : g = [i \in I |-> f[i]]
  OBVIOUS
<1>2. g \in Surjection(I, S)
  BY <1>1 DEF Surjection
<1> QED BY <1>2, FS_Surjection

\* The places of a log that have a neighbour before them.
LEMMA Neighbours ==
    ASSUME NEW ports \in Seq(PortNumbers), NEW n, n = Len(ports), NEW I, I = 2..n
    PROVE  /\ n \in Nat /\ IsFiniteSet(I)
           /\ \A i \in 1..n : ports[i] \in Int
           /\ \A i \in I : i \in 1..n /\ i - 1 \in 1..n /\ Delta(ports, i) \in Int
<1>1. \A p \in PortNumbers : p \in Int
  BY Powers, AnalysisAssumption DEF PortNumbers
<1>2. n \in Nat /\ IsFiniteSet(2..n)
  BY FS_Interval
<1>3. \A i \in 1..n : ports[i] \in Int
  BY <1>1
<1>4. \A i \in I : i \in 1..n /\ i - 1 \in 1..n
  BY <1>2
<1> QED BY <1>2, <1>3, <1>4 DEF Delta

\* The differences of neighbours lead from the first port to the last.
LEMMA DifferencesAddUp ==
    ASSUME NEW ports \in Seq(PortNumbers), ports # <<>>, NEW val,
           val = [i \in 2..Len(ports) |-> Delta(ports, i)]
    PROVE  SumFunctionOnSet(val, 2..Len(ports)) = Last(ports) - Head(ports)
<1>1. PICK n \in Nat : n = Len(ports) /\ n >= 1
  OBVIOUS
<1>2. PICK I : I = 2..n
  OBVIOUS
<1>3. /\ IsFiniteSet(I) /\ \A i \in 1..n : ports[i] \in Int
      /\ \A i \in I : i \in 1..n /\ i - 1 \in 1..n /\ Delta(ports, i) \in Int
  BY <1>1, <1>2, Neighbours
<1> DEFINE S == {k \in 0..n : k >= 1 => SumFunctionOnSet(val, 2..k) = ports[k] - ports[1]}
<1>4. 0 \in S
  OBVIOUS
<1>5. ASSUME NEW k \in 1..n, k - 1 \in S PROVE k \in S
  <2>1. CASE k = 1
    <3>1. 2..1 = {} /\ 1 \in 0..n /\ 1 \in 1..n
      BY <1>1
    <3>2. SumFunctionOnSet(val, 2..1) = 0
      BY <3>1, SumEmpty
    <3>3. ports[1] - ports[1] = 0
      BY <1>3, <3>1
    <3>4. SumFunctionOnSet(val, 2..k) = ports[k] - ports[1]
      BY <2>1, <3>2, <3>3
    <3> QED BY <3>4
  <2>2. CASE k # 1
    <3>1. k - 1 >= 1 /\ k - 1 \in 1..n /\ k \in I /\ k \in 0..n
      BY <1>2, <2>2
    <3>2. SumFunctionOnSet(val, 2..(k - 1)) = ports[k - 1] - ports[1]
      BY <1>5, <3>1
    <3>3. PICK T : T = 2..(k - 1)
      OBVIOUS
    <3>4. IsFiniteSet(T) /\ k \notin T /\ T \cup {k} = 2..k
      <4>1. 2 \in Int /\ k - 1 \in Int
        BY <3>1
      <4>2. IsFiniteSet(T)
        BY <3>3, <4>1, FS_Interval
      <4>3. \A x : x \in T \cup {k} <=> x \in 2..k
        BY <3>1, <3>3
      <4>4. k \notin T
        BY <3>1, <3>3
      <4> QED BY <4>2, <4>3, <4>4
    <3>5. \A i \in T : i \in I
      BY <1>2, <3>1, <3>3
    <3>6. \A i \in I : val[i] = Delta(ports, i)
      BY <1>1, <1>2
    <3>7. val[k] \in Int /\ \A i \in T : val[i] \in Int
      BY <1>3, <3>1, <3>5, <3>6
    <3>8. SumFunctionOnSet(val, T \cup {k}) = val[k] + SumFunctionOnSet(val, T)
      BY <3>4, <3>7, SumAdds
    <3>9. val[k] = ports[k] - ports[k - 1]
      BY <3>1, <3>6 DEF Delta
    <3>10. ports[k] \in Int /\ ports[k - 1] \in Int /\ ports[1] \in Int
      BY <1>1, <1>3, <3>1
    <3>11. SumFunctionOnSet(val, 2..k) = ports[k] - ports[1]
      <4>1. PICK x \in Int, y \in Int, z \in Int : x = ports[k] /\ y = ports[k - 1] /\ z = ports[1]
        BY <3>10
      <4>2. SumFunctionOnSet(val, T) = y - z
        BY <3>2, <3>3, <4>1
      <4>3. val[k] = x - y
        BY <3>9, <4>1
      <4>4. SumFunctionOnSet(val, T \cup {k}) = (x - y) + (y - z)
        BY <3>8, <4>2, <4>3
      <4>5. (x - y) + (y - z) = x - z
        OBVIOUS
      <4>6. SumFunctionOnSet(val, 2..k) = x - z
        BY <3>4, <4>4, <4>5
      <4> QED BY <4>1, <4>6
    <3> QED BY <3>1, <3>11
  <2> QED BY <2>1, <2>2
<1>6. n \in S
  <2>1. n \in 0..n
    BY <1>1
  <2> HIDE DEF S
  <2>2. \A k \in 0..n : k \in S
    BY <1>4, <1>5, UpTo
  <2> QED BY <2>1, <2>2
<1>7. SumFunctionOnSet(val, 2..n) = ports[n] - ports[1]
  BY <1>1, <1>6
<1>8. Last(ports) = ports[n]
  BY <1>1 DEF Last
<1>9. Head(ports) = ports[1]
  OBVIOUS
<1> QED BY <1>1, <1>7, <1>8, <1>9

\* A difference occurs as often as the transitions that have it together.
LEMMA TransitionsOfDelta ==
    ASSUME NEW ports \in Seq(PortNumbers), NEW d
    PROVE  SumFunctionOnSet(Transitions(ports),
                            {tr \in DOMAIN Transitions(ports) : tr[2] - tr[1] = d})
             = Cardinality({i \in 2..Len(ports) : Delta(ports, i) = d})
<1>1. PICK I : I = 2..Len(ports)
  OBVIOUS
<1>19. PICK trans : trans = Transitions(ports)
  OBVIOUS
<1>2. IsFiniteSet(I)
  BY <1>1, Neighbours
<1>3. PICK J : J = {i \in I : Delta(ports, i) = d}
  OBVIOUS
<1>4. PICK key : key = [i \in I |-> <<ports[i - 1], ports[i]>>]
  OBVIOUS
<1>5. PICK D : D = {key[i] : i \in I}
  OBVIOUS
<1>6. PICK K : K = {tr \in D : tr[2] - tr[1] = d}
  OBVIOUS
<1>7. IsFiniteSet(J) /\ IsFiniteSet(K)
  <2>1. IsFiniteSet(D)
    BY <1>2, <1>5, ImageIsFinite
  <2> QED BY <1>2, <1>3, <1>6, <2>1, FS_Subset
<1>8. /\ DOMAIN trans = D
      /\ \A tr \in D : trans[tr] = Cardinality({i \in I : key[i] = tr})
  <2>1. {<<ports[i - 1], ports[i]>> : i \in I} = D
    BY <1>4, <1>5
  <2>2. \A tr : {i \in I : <<ports[i - 1], ports[i]>> = tr} = {i \in I : key[i] = tr}
    BY <1>4
  <2>3. trans = [tr \in D |-> Cardinality({i \in I : <<ports[i - 1], ports[i]>> = tr})]
    BY <1>1, <1>19, <2>1 DEF Transitions
  <2> QED BY <2>2, <2>3
<1>9. \A i \in I : key[i][2] - key[i][1] = Delta(ports, i) /\ key[i] \in D
  BY <1>4, <1>5 DEF Delta
<1>10. \A tr \in K : WithKey(key, J, tr) = {i \in I : key[i] = tr}
  BY <1>3, <1>6, <1>9 DEF WithKey
<1>11. PICK one \in Int : one = 1
  OBVIOUS
<1>12. PICK wt : wt = [tr \in K |-> one]
  OBVIOUS
<1>13. PICK val : val = [i \in J |-> one]
  OBVIOUS
<1>14. Weighed(trans, key, wt, J, K)
  <2> SUFFICES ASSUME NEW tr \in K
               PROVE  wt[tr] \in Int /\ trans[tr] = wt[tr] * Cardinality(WithKey(key, J, tr))
    BY DEF Weighed
  <2>1. trans[tr] = Cardinality(WithKey(key, J, tr)) /\ wt[tr] = one
    BY <1>6, <1>8, <1>10, <1>12
  <2>2. Cardinality(WithKey(key, J, tr)) \in Nat
    <3>1. WithKey(key, J, tr) \in SUBSET J
      BY DEF WithKey
    <3> QED BY <1>7, <3>1, FS_Subset, FS_CardinalityType
  <2>3. PICK x \in Nat : x = Cardinality(WithKey(key, J, tr))
    BY <2>2
  <2>4. x = one * x
    BY <1>11
  <2> QED BY <2>1, <2>3, <2>4
<1>15. WeightOf(val, key, wt, J, K)
  <2>1. \A i \in J : key[i] \in K
    BY <1>3, <1>6, <1>9
  <2> QED BY <1>12, <1>13, <2>1 DEF WeightOf
<1>16. SumFunctionOnSet(trans, K) = SumFunctionOnSet(val, J)
  BY <1>7, <1>14, <1>15, WeightsByKey
<1>17. SumFunctionOnSet(val, J) = one * Cardinality(J) /\ Cardinality(J) \in Nat
  <2>1. IsConstant(val, J, one)
    BY <1>13 DEF IsConstant
  <2> QED BY <1>7, <2>1, SumOfSame
<1>18. SumFunctionOnSet(trans, K) = Cardinality(J)
  BY <1>11, <1>16, <1>17
<1> QED BY <1>1, <1>3, <1>6, <1>8, <1>18, <1>19

\* The histogram of differences counts every pair of neighbours once, and so do the
\* transitions.
LEMMA DeltasAreTheTransitions ==
    ASSUME NEW ports \in Seq(PortNumbers), ports # <<>>
    PROVE  DeltasAreTransitions(ports)
<1>1. PICK I : I = 2..Len(ports)
  OBVIOUS
<1>2. IsFiniteSet(I) /\ \A i \in I : Delta(ports, i) \in Int
  BY <1>1, Neighbours
<1>3. PICK key : key = [i \in I |-> Delta(ports, i)]
  OBVIOUS
<1>4. PICK D : D = {key[i] : i \in I}
  OBVIOUS
<1>5. IsFiniteSet(D) /\ \A d \in D : d \in Int
  <2>1. IsFiniteSet(D)
    BY <1>2, <1>4, ImageIsFinite
  <2> QED BY <1>2, <1>3, <1>4, <2>1
<1>6. PICK delta : delta = DeltaHistogram(ports)
  OBVIOUS
<1>7. /\ DOMAIN delta = D
      /\ \A d \in D : delta[d] = Cardinality({i \in I : Delta(ports, i) = d})
  <2>1. {Delta(ports, i) : i \in I} = D
    BY <1>3, <1>4
  <2>2. delta = [d \in D |-> Cardinality({i \in I : Delta(ports, i) = d})]
    BY <1>1, <1>6, <2>1 DEF DeltaHistogram
  <2> QED BY <2>2
<1>8. PICK trans : trans = Transitions(ports)
  OBVIOUS
<1>9. \A d \in D : delta[d] = SumFunctionOnSet(trans, {tr \in DOMAIN trans : tr[2] - tr[1] = d})
  <2> SUFFICES ASSUME NEW d \in D
               PROVE  delta[d] = SumFunctionOnSet(trans, {tr \in DOMAIN trans : tr[2] - tr[1] = d})
    OBVIOUS
  <2>1. SumFunctionOnSet(Transitions(ports),
                         {tr \in DOMAIN Transitions(ports) : tr[2] - tr[1] = d})
          = Cardinality({i \in 2..Len(ports) : Delta(ports, i) = d})
    BY TransitionsOfDelta
  <2> QED BY <1>1, <1>7, <1>8, <2>1
<1>10. PICK prod : prod = [d \in D |-> d * delta[d]]
  OBVIOUS
<1>11. PICK wt : wt = [d \in D |-> d]
  OBVIOUS
<1>12. Weighed(prod, key, wt, I, D)
  <2> SUFFICES ASSUME NEW d \in D
               PROVE  wt[d] \in Int /\ prod[d] = wt[d] * Cardinality(WithKey(key, I, d))
    BY DEF Weighed
  <2>1. WithKey(key, I, d) = {i \in I : Delta(ports, i) = d}
    BY <1>3 DEF WithKey
  <2> QED BY <1>5, <1>7, <1>10, <1>11, <2>1
<1>13. WeightOf(key, key, wt, I, D)
  BY <1>4, <1>11 DEF WeightOf
<1>14. SumFunctionOnSet(prod, D) = SumFunctionOnSet(key, I)
  BY <1>2, <1>5, <1>12, <1>13, WeightsByKey
<1>15. SumFunctionOnSet(key, I) = Last(ports) - Head(ports)
  BY <1>1, <1>3, DifferencesAddUp
<1>16. SumFunction(prod) = Last(ports) - Head(ports)
  BY <1>10, <1>14, <1>15 DEF SumFunction
<1> QED BY <1>6, <1>7, <1>8, <1>9, <1>10, <1>16 DEF DeltasAreTransitions

-----------------------------------------------------------------------------
(* Blocks and the longest run of ones.                                     *)

\* All bits from i to j are x.
AllAre(s, i, j, x) == \A k \in i..j : s[k] = x

\* The block that starts at i goes on to some j.
LEMMA BlockHasEnd ==
    ASSUME NEW s \in Seq(Bits), NEW i \in 1..Len(s)
    PROVE  \E j \in i..Len(s) : /\ AllAre(s, i, j, s[i])
                                /\ j = Len(s) \/ s[j + 1] # s[i]
<1>1. PICK n \in Nat : n = Len(s)
  OBVIOUS
<1> DEFINE S == {j \in 0..n : j >= i /\ (j = n \/ s[j + 1] # s[i])}
<1>2. S \in SUBSET (0..n) /\ n \in S
  BY <1>1
<1>3. PICK j \in S : \A y \in S : j <= y
  <2> HIDE DEF S
  <2> QED BY <1>2, Smallest
<1>4. j \in i..n /\ (j = n \/ s[j + 1] # s[i])
  BY <1>1, <1>3
<1>5. ASSUME NEW k \in i..j PROVE s[k] = s[i]
  <2>1. CASE k = i
    BY <2>1
  <2>2. CASE k # i
    <3>1. k - 1 \in 0..n /\ k - 1 >= i /\ k - 1 # n /\ ~(j <= k - 1) /\ (k - 1) + 1 = k
      BY <1>1, <1>4, <2>2
    <3>2. k - 1 \notin S
      BY <1>3, <3>1
    <3> QED BY <3>1, <3>2
  <2> QED BY <2>1, <2>2
<1> QED BY <1>1, <1>4, <1>5 DEF AllAre

\* The places at which a block starts.
Starts(s) == {1} \cup {i \in 2..Len(s) : s[i] # s[i - 1]}

\* What a block is.
LEMMA BlockIs ==
    ASSUME NEW s \in Seq(Bits), NEW n, n = Len(s)
    PROVE  \A b \in Blocks(s) :
              /\ b[1] \in 1..n /\ b[2] \in 1..n /\ b[1] <= b[2] /\ b = <<b[1], b[2]>>
              /\ AllAre(s, b[1], b[2], s[b[1]])
              /\ b[1] = 1 \/ s[b[1] - 1] # s[b[1]]
              /\ b[2] = n \/ s[b[2] + 1] # s[b[1]]
  BY DEF Blocks, AllAre

\* The runs test counts the blocks.
LEMMA RunsAreBlocks ==
    ASSUME NEW s \in Seq(Bits), s # <<>>
    PROVE  RunsTest(s) = Cardinality(Blocks(s))
<1>1. PICK n \in Nat : n = Len(s) /\ n >= 1
  OBVIOUS
<1>2. PICK C : C = {i \in 2..n : s[i] # s[i - 1]}
  OBVIOUS
<1>3. Starts(s) = {1} \cup C
  BY <1>1, <1>2 DEF Starts
<1>4. IsFiniteSet(C) /\ 1 \notin C
  <2>1. IsFiniteSet(2..n) /\ C \in SUBSET (2..n)
    BY <1>2, FS_Interval
  <2>2. IsFiniteSet(C)
    BY <2>1, FS_Subset
  <2>3. 1 \notin C
    BY <1>2
  <2> QED BY <2>2, <2>3
<1>5. IsFiniteSet(Starts(s)) /\ Cardinality(Starts(s)) = 1 + Cardinality(C)
  <2>1. C \cup {1} = Starts(s)
    BY <1>3
  <2>2. IsFiniteSet(C \cup {1}) /\ Cardinality(C \cup {1}) = Cardinality(C) + 1
    BY <1>4, FS_AddElement
  <2>3. Cardinality(C) \in Nat
    BY <1>4, FS_CardinalityType
  <2>4. PICK x \in Nat : x = Cardinality(C)
    BY <2>3
  <2>5. Cardinality(C) + 1 = 1 + Cardinality(C)
    BY <2>4
  <2> QED BY <2>1, <2>2, <2>5
<1>6. PICK f : f = [b \in Blocks(s) |-> b[1]]
  OBVIOUS
<1>7. \A b \in Blocks(s) : f[b] \in Starts(s)
  <2> SUFFICES ASSUME NEW b \in Blocks(s) PROVE b[1] \in Starts(s)
    BY <1>6
  <2>1. b[1] \in 1..n /\ (b[1] = 1 \/ s[b[1] - 1] # s[b[1]])
    BY <1>1, BlockIs
  <2>2. b[1] # 1 => b[1] \in 2..n
    BY <1>1, <2>1
  <2> QED BY <1>2, <1>3, <2>1, <2>2
<1>8. ASSUME NEW b \in Blocks(s), NEW c \in Blocks(s), b[1] = c[1], b[2] < c[2] PROVE FALSE
  <2>1. /\ b[1] \in 1..n /\ b[2] \in 1..n /\ b[1] <= b[2] /\ (b[2] = n \/ s[b[2] + 1] # s[b[1]])
        /\ c[2] \in 1..n /\ AllAre(s, c[1], c[2], s[c[1]])
    BY <1>1, BlockIs
  <2>2. b[2] # n /\ b[2] + 1 \in c[1]..c[2]
    BY <1>1, <1>8, <2>1
  <2>3. s[b[2] + 1] = s[c[1]]
    BY <2>1, <2>2 DEF AllAre
  <2> QED BY <1>8, <2>1, <2>2, <2>3
<1>9. \A b, c \in Blocks(s) : f[b] = f[c] => b = c
  <2> SUFFICES ASSUME NEW b \in Blocks(s), NEW c \in Blocks(s), b[1] = c[1] PROVE b = c
    BY <1>6
  <2>1. b[2] \in Nat /\ c[2] \in Nat /\ b = <<b[1], b[2]>> /\ c = <<c[1], c[2]>>
    BY <1>1, BlockIs
  <2>2. ~(b[2] < c[2]) /\ ~(c[2] < b[2])
    BY <1>8
  <2>3. b[2] = c[2]
    BY <2>1, <2>2
  <2> QED BY <2>1, <2>3
<1>10. \A i \in Starts(s) : \E b \in Blocks(s) : f[b] = i
  <2> SUFFICES ASSUME NEW i \in Starts(s) PROVE \E b \in Blocks(s) : b[1] = i
    BY <1>6
  <2>1. i \in 1..n /\ (i = 1 \/ s[i - 1] # s[i])
    BY <1>1, <1>2, <1>3
  <2>2. PICK j \in i..n : AllAre(s, i, j, s[i]) /\ (j = n \/ s[j + 1] # s[i])
    BY <1>1, <2>1, BlockHasEnd
  <2>3. j \in 1..n /\ i <= j
    BY <1>1, <2>1
  <2>4. <<i, j>> \in (DOMAIN s) \X (DOMAIN s)
    BY <1>1, <2>1, <2>3
  <2>5. <<i, j>> \in Blocks(s)
    BY <1>1, <2>1, <2>2, <2>3, <2>4 DEF Blocks, AllAre
  <2> QED BY <2>5
<1>11. f \in Injection(Blocks(s), Starts(s))
  BY <1>6, <1>7, <1>9 DEF Injection, IsInjective
<1>12. f \in Surjection(Blocks(s), Starts(s))
  BY <1>6, <1>7, <1>10 DEF Surjection
<1>13. Cardinality(Blocks(s)) = Cardinality(Starts(s))
  BY <1>5, <1>11, <1>12, FS_Injection
<1> QED BY <1>1, <1>2, <1>5, <1>13 DEF RunsTest

\* The current and the longest run of ones, bit by bit.
RunStates == [curr : Nat, max : Nat]
CurrAfter(c, st) == IF c = 1 THEN st.curr + 1 ELSE 0
RunAfter(c, st) == [curr |-> CurrAfter(c, st),
                    max  |-> IF CurrAfter(c, st) > st.max THEN CurrAfter(c, st) ELSE st.max]
NoRun == [curr |-> 0, max |-> 0]
RunStep(s) == [p \in (1..Len(s)) \X RunStates |-> RunAfter(s[p[1]], p[2])]

\* A run stays one.
LEMMA RunAfterType ==
    ASSUME NEW c, NEW st \in RunStates
    PROVE  RunAfter(c, st) \in RunStates
<1>1. CurrAfter(c, st) \in Nat /\ st.max \in Nat
  BY DEF CurrAfter, RunStates
<1> QED BY <1>1 DEF RunAfter, RunStates

\* The fold that looks for the longest run of ones.
LongestRuns(s) ==
    FoldLeft(LAMBDA st, c :
                 LET curr == IF c = 1 THEN st.curr + 1 ELSE 0
                 IN  [curr |-> curr, max |-> IF curr > st.max THEN curr ELSE st.max],
             [curr |-> 0, max |-> 0], s)

\* It goes through the bits one by one.
LEMMA LongestRunsRun ==
    ASSUME NEW w \in Seq(Bits)
    PROVE  IsEnd(LongestRuns(w), Len(w), RunStates, NoRun, RunStep(w))
<1> DEFINE n == Len(w)
           Iter(f) == f = [t \in SUBSET DOMAIN w |->
                             IF t = {} THEN [curr |-> 0, max |-> 0]
                             ELSE LET x == Max(t)
                                      curr == IF w[x] = 1 THEN f[t \ {x}].curr + 1 ELSE 0
                                  IN  [curr |-> curr, max |-> IF curr > f[t \ {x}].max THEN curr
                                                                ELSE f[t \ {x}].max]]
           iter == CHOOSE f : Iter(f)
<1>1. n \in Nat /\ DOMAIN w = 1..n /\ \A k \in 1..n : w[k] \in Bits
  OBVIOUS
<1>2. RunStep(w) \in [(1..n) \X RunStates -> RunStates]
  <2>1. \A p \in (1..n) \X RunStates : RunAfter(w[p[1]], p[2]) \in RunStates
    BY RunAfterType
  <2> QED BY <2>1 DEF RunStep
<1>0. NoRun \in RunStates
  BY DEF NoRun, RunStates
<1>3. \A t \in SUBSET (1..n) : t # {} => Max(t) \in 1..n
  BY MaxInRange, <1>1
<1>4. PICK h \in [SUBSET (1..n) -> RunStates] : IsFold(h, n, NoRun, RunStep(w))
  <2> HIDE DEF n
  <2> QED BY <1>0, <1>1, <1>2, FoldExists, Zenon
<1>5. Iter(h)
  <2>1. ASSUME NEW t \in SUBSET (1..n), t # {}
        PROVE  h[t] = RunAfter(w[Max(t)], h[t \ {Max(t)}])
    <3>1. Max(t) \in 1..n /\ h[t \ {Max(t)}] \in RunStates
      BY <1>3, <1>4, <2>1
    <3>2. h[t] = RunStep(w)[<<Max(t), h[t \ {Max(t)}]>>]
      BY <1>4, <2>1 DEF IsFold
    <3> QED BY <3>1, <3>2 DEF RunStep
  <2>2. h[{}] = [curr |-> 0, max |-> 0]
    BY <1>4 DEF IsFold, NoRun
  <2>3. h = [t \in SUBSET DOMAIN w |->
               IF t = {} THEN [curr |-> 0, max |-> 0] ELSE RunAfter(w[Max(t)], h[t \ {Max(t)}])]
    BY <1>1, <1>4, <2>1, <2>2
  <2> QED BY <2>3 DEF RunAfter, CurrAfter
<1>6. Iter(iter)
  <2> HIDE DEF Iter
  <2> QED BY <1>5
<1>7. LongestRuns(w) = iter[1..n]
  BY <1>1 DEF FoldLeft, MapThenFoldSet, LongestRuns
<1> HIDE DEF iter
<1>8. Steps(iter, n, RunStates, NoRun, RunStep(w))
  <2>1. iter[{}] = NoRun
    BY <1>6 DEF NoRun
  <2>2. ASSUME NEW k \in 1..n, iter[1..(k - 1)] \in RunStates
        PROVE  iter[1..k] = RunStep(w)[<<k, iter[1..(k - 1)]>>]
    <3>1. iter[1..k] = RunAfter(w[k], iter[1..(k - 1)])
      <4>1. /\ 1..k \in SUBSET (1..n) /\ 1..k # {}
            /\ Max(1..k) = k /\ (1..k) \ {Max(1..k)} = 1..(k - 1)
        BY <1>1, Intervals
      <4> QED BY <1>1, <1>6, <4>1 DEF RunAfter, CurrAfter
    <3> QED BY <1>1, <2>2, <3>1, SMTT(40) DEF RunStep
  <2> QED BY <2>1, <2>2 DEF Steps
<1>9. IsEnd(iter[1..n], n, RunStates, NoRun, RunStep(w))
  <2> HIDE DEF n, Iter
  <2> QED BY <1>0, <1>1, <1>2, <1>8, RunningValues
<1> QED BY <1>7, <1>9

\* What is known of the runs of ones after k bits: the current one is the longest
\* that ends there, and no run so far is longer than the longest.
IsCurrent(s, k, r) == /\ r \in 0..k /\ AllAre(s, k - r + 1, k, 1)
                      /\ r = k \/ s[k - r] # 1
NoneLonger(s, k, r) == \A i, j \in 1..k : i <= j /\ AllAre(s, i, j, 1) => j - i + 1 <= r
IsReached(s, k, r) == r > 0 => \E i \in 1..k : i + r - 1 <= k /\ AllAre(s, i, i + r - 1, 1)
LongestSoFar(s, k, st) == /\ IsCurrent(s, k, st.curr) /\ st.curr <= st.max
                          /\ NoneLonger(s, k, st.max) /\ IsReached(s, k, st.max)

\* One more bit.
LEMMA CurrentStays ==
    ASSUME NEW s \in Seq(Bits), NEW k \in 1..Len(s), NEW st \in RunStates,
           IsCurrent(s, k - 1, st.curr)
    PROVE  IsCurrent(s, k, CurrAfter(s[k], st))
<1>1. PICK r \in Nat : r = st.curr
  BY DEF RunStates
<1>2. r <= k - 1 /\ AllAre(s, (k - 1) - r + 1, k - 1, 1) /\ (r = k - 1 \/ s[(k - 1) - r] # 1)
  BY <1>1 DEF IsCurrent
<1>3. CASE s[k] = 1
  <2>1. CurrAfter(s[k], st) = r + 1
    BY <1>1, <1>3 DEF CurrAfter
  <2>2. ASSUME NEW m \in (k - (r + 1) + 1)..k PROVE s[m] = 1
    <3>1. m = k \/ m \in ((k - 1) - r + 1)..(k - 1)
      OBVIOUS
    <3> QED BY <1>2, <1>3, <3>1 DEF AllAre
  <2>3. r + 1 \in 0..k /\ (r + 1 = k \/ s[k - (r + 1)] # 1)
    <3>1. k - (r + 1) = (k - 1) - r
      OBVIOUS
    <3> QED BY <1>2, <3>1
  <2> QED BY <2>1, <2>2, <2>3 DEF IsCurrent, AllAre
<1>4. CASE s[k] # 1
  <2>1. CurrAfter(s[k], st) = 0
    BY <1>4 DEF CurrAfter
  <2>2. \A m \in (k - 0 + 1)..k : s[m] = 1
    OBVIOUS
  <2>3. k - 0 = k /\ 0 \in 0..k
    OBVIOUS
  <2> QED BY <1>4, <2>1, <2>2, <2>3 DEF IsCurrent, AllAre
<1> QED BY <1>3, <1>4

\* A run that ends at the bit is no longer than the current one.
LEMMA CurrentIsLongest ==
    ASSUME NEW s \in Seq(Bits), NEW k \in 1..Len(s), NEW r \in Nat, IsCurrent(s, k, r),
           NEW i \in 1..k, AllAre(s, i, k, 1)
    PROVE  k - i + 1 <= r
<1> SUFFICES ASSUME ~(k - i + 1 <= r) PROVE FALSE
  OBVIOUS
<1>1. r # k /\ k - r \in i..k
  OBVIOUS
<1>2. s[k - r] = 1
  BY <1>1 DEF AllAre
<1> QED BY <1>1, <1>2 DEF IsCurrent

\* What is known stays known.
LEMMA LongestStays ==
    ASSUME NEW s \in Seq(Bits), NEW k \in 1..Len(s), NEW st \in RunStates,
           LongestSoFar(s, k - 1, st)
    PROVE  LongestSoFar(s, k, RunAfter(s[k], st))
<1>1. PICK curr \in Nat : curr = CurrAfter(s[k], st)
  BY DEF CurrAfter, RunStates
<1>2. PICK m \in Nat : m = st.max
  BY DEF RunStates
<1>3. PICK n \in Nat : n = RunAfter(s[k], st).max /\ n = IF curr > m THEN curr ELSE m
  BY <1>1, <1>2 DEF RunAfter
<1>4. RunAfter(s[k], st).curr = curr
  BY <1>1 DEF RunAfter
<1>5. IsCurrent(s, k, curr) /\ curr <= n /\ m <= n
  <2>1. IsCurrent(s, k - 1, st.curr)
    BY DEF LongestSoFar
  <2>2. IsCurrent(s, k, curr)
    BY <1>1, <2>1, CurrentStays
  <2> QED BY <1>3, <2>2
<1>6. ASSUME NEW i \in 1..k, NEW j \in 1..k, i <= j, AllAre(s, i, j, 1)
      PROVE  j - i + 1 <= n
  <2>1. CASE j = k
    <3>1. k - i + 1 <= curr
      BY <1>5, <1>6, <2>1, CurrentIsLongest
    <3> QED BY <1>5, <2>1, <3>1
  <2>2. CASE j # k
    <3>1. i \in 1..(k - 1) /\ j \in 1..(k - 1)
      BY <1>6, <2>2
    <3>2. j - i + 1 <= m
      BY <1>2, <1>6, <3>1 DEF LongestSoFar, NoneLonger
    <3> QED BY <1>5, <3>2
  <2> QED BY <2>1, <2>2
<1>7. ASSUME n > 0 PROVE \E i \in 1..k : i + n - 1 <= k /\ AllAre(s, i, i + n - 1, 1)
  <2>1. CASE n = curr
    <3>1. curr \in 0..k /\ AllAre(s, k - curr + 1, k, 1)
      BY <1>5 DEF IsCurrent
    <3>2. PICK i \in 1..k : i = k - curr + 1
      BY <1>7, <2>1, <3>1
    <3>3. i + n - 1 = k
      BY <2>1, <3>2
    <3> QED BY <3>1, <3>2, <3>3
  <2>2. CASE n # curr
    <3>1. n = m
      BY <1>3, <2>2
    <3>2. PICK i \in 1..(k - 1) : i + m - 1 <= k - 1 /\ AllAre(s, i, i + m - 1, 1)
      BY <1>2, <1>7, <3>1 DEF LongestSoFar, IsReached
    <3>3. i \in 1..k /\ i + n - 1 <= k
      BY <3>1, <3>2
    <3> QED BY <3>1, <3>2, <3>3
  <2> QED BY <2>1, <2>2
<1>8. NoneLonger(s, k, n)
  BY <1>6 DEF NoneLonger
<1>9. IsReached(s, k, n)
  BY <1>7 DEF IsReached
<1> QED BY <1>3, <1>4, <1>5, <1>8, <1>9 DEF LongestSoFar

\* The longest run is known after the last bit.
LEMMA LongestIsFound ==
    ASSUME NEW s \in Seq(Bits)
    PROVE  /\ LongestRunOfOnes(s) \in Nat
           /\ NoneLonger(s, Len(s), LongestRunOfOnes(s))
           /\ IsReached(s, Len(s), LongestRunOfOnes(s))
<1>1. PICK n \in Nat : n = Len(s)
  OBVIOUS
<1>2. PICK g : IsRun(g, n, RunStates, NoRun, RunStep(s)) /\ LongestRuns(s) = g[n]
  BY <1>1, LongestRunsRun DEF IsEnd
<1> DEFINE S == {k \in 0..n : LongestSoFar(s, k, g[k])}
<1>3. 0 \in S
  <2>1. g[0] = NoRun
    BY <1>2 DEF IsRun
  <2>2. LongestSoFar(s, 0, NoRun)
    BY DEF LongestSoFar, NoRun, IsCurrent, NoneLonger, IsReached, AllAre
  <2> QED BY <2>1, <2>2
<1>4. ASSUME NEW k \in 1..n, k - 1 \in S PROVE k \in S
  <2>1. g[k - 1] \in RunStates /\ g[k] = RunStep(s)[<<k, g[k - 1]>>]
    BY <1>2 DEF IsRun
  <2>2. g[k] = RunAfter(s[k], g[k - 1])
    BY <1>1, <2>1 DEF RunStep
  <2>3. LongestSoFar(s, k - 1, g[k - 1])
    BY <1>4
  <2>4. LongestSoFar(s, k, g[k])
    BY <1>1, <2>1, <2>2, <2>3, LongestStays
  <2> QED BY <2>4
<1>5. n \in S
  <2> HIDE DEF S
  <2>1. n \in 0..n
    OBVIOUS
  <2>2. \A k \in 0..n : k \in S
    BY <1>3, <1>4, UpTo
  <2> QED BY <2>1, <2>2
<1>6. LongestSoFar(s, n, g[n]) /\ g[n] \in RunStates
  <2>1. n \in 0..n
    OBVIOUS
  <2> QED BY <1>2, <1>5, <2>1 DEF IsRun
<1>7. LongestRunOfOnes(s) = LongestRuns(s).max
  BY DEF LongestRunOfOnes, LongestRuns
<1>8. LongestRunOfOnes(s) = g[n].max
  BY <1>2, <1>7
<1> QED BY <1>1, <1>6, <1>8 DEF LongestSoFar, RunStates

\* The lengths of the blocks of ones.
OnesOf(s) == {ij[2] - ij[1] + 1 : ij \in {b \in Blocks(s) : s[b[1]] = 1}}

\* The longest run of ones is the longest block of ones.
LEMMA LongestIsABlock ==
    ASSUME NEW s \in Seq(Bits)
    PROVE  LongestRunOfOnes(s) = IF OnesOf(s) = {} THEN 0 ELSE Max(OnesOf(s))
<1>1. PICK n \in Nat : n = Len(s)
  OBVIOUS
<1>2. PICK m \in Nat : m = LongestRunOfOnes(s)
  BY LongestIsFound
<1>3. NoneLonger(s, n, m) /\ IsReached(s, n, m)
  BY <1>1, <1>2, LongestIsFound
<1>4. PICK C : C = OnesOf(s)
  OBVIOUS
<1>5. ASSUME NEW x \in C PROVE x \in 0..n /\ x <= m /\ x >= 1
  <2>1. PICK b \in Blocks(s) : s[b[1]] = 1 /\ x = b[2] - b[1] + 1
    BY <1>4, <1>5 DEF OnesOf
  <2>2. /\ b[1] \in 1..n /\ b[2] \in 1..n /\ b[1] <= b[2]
        /\ AllAre(s, b[1], b[2], 1)
    BY <1>1, <2>1, BlockIs
  <2>3. x <= m
    BY <1>3, <2>1, <2>2 DEF NoneLonger
  <2> QED BY <2>1, <2>2, <2>3
<1>6. ASSUME m > 0 PROVE m \in C
  <2>1. PICK i \in 1..n : i + m - 1 <= n /\ AllAre(s, i, i + m - 1, 1)
    BY <1>3, <1>6 DEF IsReached
  <2>2. PICK j \in 1..n : j = i + m - 1 /\ i <= j /\ j - i + 1 = m
    BY <1>6, <2>1
  <2>3. AllAre(s, i, j, 1) /\ s[i] = 1
    BY <2>1, <2>2 DEF AllAre
  <2>4. i = 1 \/ s[i - 1] # s[i]
    <3> SUFFICES ASSUME i # 1, s[i - 1] = s[i] PROVE FALSE
      OBVIOUS
    <3>1. \A k \in (i - 1)..j : k = i - 1 \/ k \in i..j
      BY <2>2
    <3>2. AllAre(s, i - 1, j, 1)
      BY <2>3, <3>1 DEF AllAre
    <3>3. i - 1 \in 1..n /\ i - 1 <= j
      BY <2>2
    <3>4. j - (i - 1) + 1 <= m
      BY <1>3, <3>2, <3>3 DEF NoneLonger
    <3> QED BY <2>2, <3>4
  <2>5. j = n \/ s[j + 1] # s[i]
    <3> SUFFICES ASSUME j # n, s[j + 1] = s[i] PROVE FALSE
      OBVIOUS
    <3>1. \A k \in i..(j + 1) : k = j + 1 \/ k \in i..j
      BY <2>2
    <3>2. AllAre(s, i, j + 1, 1)
      BY <2>3, <3>1 DEF AllAre
    <3>3. j + 1 \in 1..n /\ i <= j + 1
      BY <2>2
    <3>4. (j + 1) - i + 1 <= m
      BY <1>3, <3>2, <3>3 DEF NoneLonger
    <3> QED BY <2>2, <3>4
  <2>6. <<i, j>> \in Blocks(s)
    <3>1. <<i, j>> \in (DOMAIN s) \X (DOMAIN s)
      BY <1>1
    <3> QED BY <1>1, <2>2, <2>3, <2>4, <2>5, <3>1 DEF Blocks, AllAre
  <2> QED BY <1>4, <2>2, <2>3, <2>6 DEF OnesOf
<1>7. CASE C = {}
  <2>1. ~(m > 0)
    BY <1>6, <1>7
  <2> QED BY <1>2, <1>4, <1>7, <2>1
<1>8. CASE C # {}
  <2>1. C \in SUBSET (0..n)
    BY <1>5
  <2>2. Max(C) \in C /\ \A x \in C : x <= Max(C)
    BY <1>8, <2>1, Extremes
  <2>3. Max(C) <= m /\ Max(C) >= 1 /\ Max(C) \in Nat
    BY <1>5, <2>2
  <2>4. m > 0
    BY <2>3
  <2>5. m <= Max(C)
    BY <1>6, <2>2, <2>4
  <2>6. m = Max(C)
    BY <2>3, <2>5
  <2> QED BY <1>2, <1>4, <1>8, <2>6
<1> QED BY <1>7, <1>8

\* The runs of a log are counted, and the longest of ones is found.
LEMMA RunsAreCorrect ==
    ASSUME NEW ports \in Seq(PortNumbers), ports # <<>>
    PROVE  RunsCorrect(ports)
<1>1. PICK s : s = Bitstream(ports)
  OBVIOUS
<1>2. s \in Seq(Bits) /\ Len(s) = PortBits * Len(ports) /\ PortBits \in Nat /\ PortBits > 0
  BY <1>1, BitstreamType
<1>3. s # <<>>
  <2>1. PICK n \in Nat : n = Len(ports) /\ n >= 1
    OBVIOUS
  <2>2. PortBits * n >= 1
    BY <1>2, <2>1
  <2>3. Len(s) # 0
    BY <1>2, <2>1, <2>2
  <2> QED BY <2>3
<1>4. RunsTest(s) = Cardinality(Blocks(s))
  BY <1>2, <1>3, RunsAreBlocks
<1>5. LongestRunOfOnes(s) = IF OnesOf(s) = {} THEN 0 ELSE Max(OnesOf(s))
  BY <1>2, LongestIsABlock
<1> QED BY <1>1, <1>4, <1>5 DEF RunsCorrect, OnesOf

-----------------------------------------------------------------------------
(* Repetition distances and cycles.                                        *)

\* What the maps of the last occurrences can be: to each port seen, a place.
Maps == UNION {[T -> Nat] : T \in SUBSET PortNumbers}

\* The map with the place of one more port.
LEMMA SetAtType ==
    ASSUME NEW seen \in Maps, NEW p \in PortNumbers, NEW i \in Nat
    PROVE  /\ SetAt(seen, p, i) \in Maps
           /\ \A q \in DOMAIN seen : seen[q] \in Nat
<1>1. PICK T \in SUBSET PortNumbers : seen \in [T -> Nat]
  BY DEF Maps
<1>2. SetAt(seen, p, i) \in [T \cup {p} -> Nat]
  BY <1>1 DEF SetAt
<1>3. T \cup {p} \in SUBSET PortNumbers
  BY <1>1
<1> QED BY <1>1, <1>2, <1>3 DEF Maps

\* The places of a log, one after the other.
Places(ports) == [i \in DOMAIN ports |-> i]

\* The distances between repeated ports, packet by packet.
RepeatStates == [seen : Maps, found : Seq(Int)]
RepeatAfter(ports, i, st) ==
    [seen  |-> SetAt(st.seen, ports[i], i),
     found |-> IF ports[i] \in DOMAIN st.seen
               THEN Append(st.found, i - st.seen[ports[i]])
               ELSE st.found]
NoRepeats == [seen |-> <<>>, found |-> <<>>]
RepeatStep(ports) ==
    [p \in (1..Len(ports)) \X RepeatStates |-> RepeatAfter(ports, p[1], p[2])]

\* A packet takes a state to a state.
LEMMA RepeatAfterType ==
    ASSUME NEW ports \in Seq(PortNumbers), NEW i \in 1..Len(ports), NEW st \in RepeatStates
    PROVE  RepeatAfter(ports, i, st) \in RepeatStates
<1>1. PICK p \in PortNumbers : p = ports[i]
  OBVIOUS
<1>2. st.seen \in Maps /\ st.found \in Seq(Int)
  BY DEF RepeatStates
<1>3. SetAt(st.seen, p, i) \in Maps /\ \A q \in DOMAIN st.seen : st.seen[q] \in Nat
  BY <1>2, SetAtType
<1>4. ASSUME p \in DOMAIN st.seen PROVE Append(st.found, i - st.seen[p]) \in Seq(Int)
  <2>1. i - st.seen[p] \in Int
    BY <1>3, <1>4
  <2> QED BY <1>2, <2>1
<1> QED BY <1>1, <1>2, <1>3, <1>4 DEF RepeatAfter, RepeatStates

\* The fold that finds them.
Repeats(ports) ==
    FoldLeft(LAMBDA st, i : RepeatAfter(ports, i, st), NoRepeats, Places(ports))

\* The fold is the one of the code.
LEMMA RepeatsAreDistances ==
    ASSUME NEW ports
    PROVE  RepeatDistances(ports) = Repeats(ports).found
  BY DEF RepeatDistances, FoldLeftDomain, FoldLeft, MapThenFoldSet, Repeats, RepeatAfter,
         NoRepeats, Places

\* It goes through the packets one by one.
LEMMA RepeatsRun ==
    ASSUME NEW w \in Seq(PortNumbers)
    PROVE  IsEnd(Repeats(w), Len(w), RepeatStates, NoRepeats, RepeatStep(w))
<1> DEFINE n == Len(w)
           Iter(f) == f = [t \in SUBSET DOMAIN Places(w) |->
                             IF t = {} THEN NoRepeats
                             ELSE LET x == Max(t)
                                  IN  RepeatAfter(w, Places(w)[x], f[t \ {x}])]
           iter == CHOOSE f : Iter(f)
<1>1. /\ n \in Nat /\ DOMAIN w = 1..n /\ DOMAIN Places(w) = 1..n
      /\ \A k \in 1..n : Places(w)[k] = k
  BY DEF Places
<1>2. RepeatStep(w) \in [(1..n) \X RepeatStates -> RepeatStates]
  <2>1. \A p \in (1..n) \X RepeatStates : RepeatAfter(w, p[1], p[2]) \in RepeatStates
    BY RepeatAfterType
  <2> QED BY <2>1 DEF RepeatStep
<1>0. NoRepeats \in RepeatStates
  <2>1. <<>> \in [{} -> Nat] /\ {} \in SUBSET PortNumbers
    OBVIOUS
  <2>2. <<>> \in Maps
    BY <2>1 DEF Maps
  <2> QED BY <2>2 DEF NoRepeats, RepeatStates
<1>3. \A t \in SUBSET (1..n) : t # {} => Max(t) \in 1..n
  BY MaxInRange, <1>1
<1>4. PICK h \in [SUBSET (1..n) -> RepeatStates] : IsFold(h, n, NoRepeats, RepeatStep(w))
  <2> HIDE DEF n
  <2> QED BY <1>0, <1>1, <1>2, FoldExists, Zenon
<1>5. Iter(h)
  <2>1. ASSUME NEW t \in SUBSET (1..n), t # {}
        PROVE  h[t] = RepeatAfter(w, Max(t), h[t \ {Max(t)}])
    <3>1. Max(t) \in 1..n /\ h[t \ {Max(t)}] \in RepeatStates
      BY <1>3, <1>4, <2>1
    <3>2. h[t] = RepeatStep(w)[<<Max(t), h[t \ {Max(t)}]>>]
      BY <1>4, <2>1 DEF IsFold
    <3> QED BY <3>1, <3>2 DEF RepeatStep
  <2>2. h[{}] = NoRepeats
    BY <1>4 DEF IsFold
  <2>3. \A t \in SUBSET (1..n) : t # {} => Places(w)[Max(t)] = Max(t)
    BY <1>1, <1>3
  <2> QED BY <1>1, <1>4, <2>1, <2>2, <2>3
<1>6. Iter(iter)
  <2> HIDE DEF Iter
  <2> QED BY <1>5
<1>7. Repeats(w) = iter[1..n]
  BY <1>1 DEF FoldLeft, MapThenFoldSet, Repeats
<1> HIDE DEF iter
<1>8. Steps(iter, n, RepeatStates, NoRepeats, RepeatStep(w))
  <2>1. iter[{}] = NoRepeats
    BY <1>1, <1>6
  <2>2. ASSUME NEW k \in 1..n, iter[1..(k - 1)] \in RepeatStates
        PROVE  iter[1..k] = RepeatStep(w)[<<k, iter[1..(k - 1)]>>]
    <3>1. iter[1..k] = RepeatAfter(w, k, iter[1..(k - 1)])
      <4>1. /\ 1..k \in SUBSET (1..n) /\ 1..k # {}
            /\ Max(1..k) = k /\ (1..k) \ {Max(1..k)} = 1..(k - 1)
        BY <1>1, Intervals
      <4>2. \A t \in SUBSET (1..n) : t # {} =>
               iter[t] = RepeatAfter(w, Places(w)[Max(t)], iter[t \ {Max(t)}])
        BY <1>1, <1>6
      <4>3. iter[1..k] = RepeatAfter(w, Places(w)[Max(1..k)], iter[(1..k) \ {Max(1..k)}])
        BY <4>1, <4>2
      <4>4. Places(w)[Max(1..k)] = k /\ iter[(1..k) \ {Max(1..k)}] = iter[1..(k - 1)]
        BY <1>1, <4>1
      <4> QED BY <4>3, <4>4
    <3> QED BY <1>1, <2>2, <3>1 DEF RepeatStep
  <2> QED BY <2>1, <2>2 DEF Steps
<1>9. IsEnd(iter[1..n], n, RepeatStates, NoRepeats, RepeatStep(w))
  <2> HIDE DEF n, Iter
  <2> QED BY <1>0, <1>1, <1>2, <1>8, RunningValues
<1> QED BY <1>7, <1>9

\* What the bags of cycle lengths can be.
CountBags == UNION {[T -> Nat] : T \in SUBSET Int}

\* The bag with one more d.
OneMoreOf(bag, d) ==
    [x \in DOMAIN bag \cup {d} |->
        (IF x \in DOMAIN bag THEN bag[x] ELSE 0) + (IF x = d THEN 1 ELSE 0)]

\* That is what is put together in the code.
LEMMA OneMoreIs ==
    ASSUME NEW bag \in CountBags, NEW d \in Int
    PROVE  bag (+) SetToBag({d}) = OneMoreOf(bag, d) /\ OneMoreOf(bag, d) \in CountBags
<1>1. PICK T \in SUBSET Int : bag \in [T -> Nat]
  BY DEF CountBags
<1>2. DOMAIN SetToBag({d}) = {d} /\ SetToBag({d})[d] = 1
  BY DEF SetToBag
<1>3. \A x : (IF x \in DOMAIN SetToBag({d}) THEN SetToBag({d})[x] ELSE 0) = IF x = d THEN 1 ELSE 0
  BY <1>2
<1>4. bag (+) SetToBag({d}) = OneMoreOf(bag, d)
  BY <1>2, <1>3 DEF (+), OneMoreOf
<1>5. OneMoreOf(bag, d) \in [T \cup {d} -> Nat] /\ T \cup {d} \in SUBSET Int
  BY <1>1 DEF OneMoreOf
<1> QED BY <1>4, <1>5 DEF CountBags

\* The cycle lengths, packet by packet.
CycleStates == [first : Maps, bag : CountBags]
CycleAfter(ports, i, st) ==
    [first |-> SetAt(st.first, ports[i], i),
     bag   |-> IF ports[i] \in DOMAIN st.first
                  /\ 1 < i - st.first[ports[i]] /\ i - st.first[ports[i]] < MaxCycle
               THEN st.bag (+) SetToBag({i - st.first[ports[i]]})
               ELSE st.bag]
NoCycles == [first |-> <<>>, bag |-> EmptyBag]
CycleStep(ports) ==
    [p \in (1..Len(ports)) \X CycleStates |-> CycleAfter(ports, p[1], p[2])]

\* A packet takes a state to a state.
LEMMA CycleAfterType ==
    ASSUME NEW ports \in Seq(PortNumbers), NEW i \in 1..Len(ports), NEW st \in CycleStates
    PROVE  CycleAfter(ports, i, st) \in CycleStates
<1>1. PICK p \in PortNumbers : p = ports[i]
  OBVIOUS
<1>2. st.first \in Maps /\ st.bag \in CountBags
  BY DEF CycleStates
<1>3. SetAt(st.first, p, i) \in Maps /\ \A q \in DOMAIN st.first : st.first[q] \in Nat
  BY <1>2, SetAtType
<1>4. ASSUME p \in DOMAIN st.first PROVE st.bag (+) SetToBag({i - st.first[p]}) \in CountBags
  <2>1. i - st.first[p] \in Int
    BY <1>3, <1>4
  <2>2. PICK d \in Int : d = i - st.first[p]
    BY <2>1
  <2>3. st.bag (+) SetToBag({d}) \in CountBags
    <3>1. PICK bag \in CountBags : bag = st.bag
      BY <1>2
    <3>2. bag (+) SetToBag({d}) = OneMoreOf(bag, d) /\ OneMoreOf(bag, d) \in CountBags
      BY OneMoreIs
    <3> QED BY <3>1, <3>2
  <2> QED BY <2>2, <2>3
<1> QED BY <1>1, <1>2, <1>3, <1>4 DEF CycleAfter, CycleStates

\* The fold that finds them.
Cycles(ports) ==
    FoldLeft(LAMBDA st, i : CycleAfter(ports, i, st), NoCycles, Places(ports))

\* The fold is the one of the code.
LEMMA CyclesAreLengths ==
    ASSUME NEW ports
    PROVE  CycleLengths(ports) = Cycles(ports).bag
  BY DEF CycleLengths, FoldLeftDomain, FoldLeft, MapThenFoldSet, Cycles, CycleAfter,
         NoCycles, Places

\* It goes through the packets one by one.
LEMMA CyclesRun ==
    ASSUME NEW w \in Seq(PortNumbers)
    PROVE  IsEnd(Cycles(w), Len(w), CycleStates, NoCycles, CycleStep(w))
<1> DEFINE n == Len(w)
           Iter(f) == f = [t \in SUBSET DOMAIN Places(w) |->
                             IF t = {} THEN NoCycles
                             ELSE LET x == Max(t)
                                  IN  CycleAfter(w, Places(w)[x], f[t \ {x}])]
           iter == CHOOSE f : Iter(f)
<1>1. /\ n \in Nat /\ DOMAIN w = 1..n /\ DOMAIN Places(w) = 1..n
      /\ \A k \in 1..n : Places(w)[k] = k
  BY DEF Places
<1>2. CycleStep(w) \in [(1..n) \X CycleStates -> CycleStates]
  <2>1. \A p \in (1..n) \X CycleStates : CycleAfter(w, p[1], p[2]) \in CycleStates
    BY CycleAfterType
  <2> QED BY <2>1 DEF CycleStep
<1>0. NoCycles \in CycleStates
  <2>1. <<>> \in [{} -> Nat] /\ {} \in SUBSET PortNumbers
    OBVIOUS
  <2>2. <<>> \in Maps
    BY <2>1 DEF Maps
  <2>3. EmptyBag \in CountBags
    <3>1. EmptyBag \in [{} -> Nat] /\ {} \in SUBSET Int
      BY DEF EmptyBag, SetToBag
    <3> QED BY <3>1 DEF CountBags
  <2> QED BY <2>2, <2>3 DEF NoCycles, CycleStates
<1>3. \A t \in SUBSET (1..n) : t # {} => Max(t) \in 1..n
  BY MaxInRange, <1>1
<1>4. PICK h \in [SUBSET (1..n) -> CycleStates] : IsFold(h, n, NoCycles, CycleStep(w))
  <2> HIDE DEF n
  <2> QED BY <1>0, <1>1, <1>2, FoldExists, Zenon
<1>5. Iter(h)
  <2>1. ASSUME NEW t \in SUBSET (1..n), t # {}
        PROVE  h[t] = CycleAfter(w, Max(t), h[t \ {Max(t)}])
    <3>1. Max(t) \in 1..n /\ h[t \ {Max(t)}] \in CycleStates
      BY <1>3, <1>4, <2>1
    <3>2. h[t] = CycleStep(w)[<<Max(t), h[t \ {Max(t)}]>>]
      BY <1>4, <2>1 DEF IsFold
    <3> QED BY <3>1, <3>2 DEF CycleStep
  <2>2. h[{}] = NoCycles
    BY <1>4 DEF IsFold
  <2>3. \A t \in SUBSET (1..n) : t # {} => Places(w)[Max(t)] = Max(t)
    BY <1>1, <1>3
  <2> QED BY <1>1, <1>4, <2>1, <2>2, <2>3
<1>6. Iter(iter)
  <2> HIDE DEF Iter
  <2> QED BY <1>5
<1>7. Cycles(w) = iter[1..n]
  BY <1>1 DEF FoldLeft, MapThenFoldSet, Cycles
<1> HIDE DEF iter
<1>8. Steps(iter, n, CycleStates, NoCycles, CycleStep(w))
  <2>1. iter[{}] = NoCycles
    BY <1>1, <1>6
  <2>2. ASSUME NEW k \in 1..n, iter[1..(k - 1)] \in CycleStates
        PROVE  iter[1..k] = CycleStep(w)[<<k, iter[1..(k - 1)]>>]
    <3>1. iter[1..k] = CycleAfter(w, k, iter[1..(k - 1)])
      <4>1. /\ 1..k \in SUBSET (1..n) /\ 1..k # {}
            /\ Max(1..k) = k /\ (1..k) \ {Max(1..k)} = 1..(k - 1)
        BY <1>1, Intervals
      <4>2. \A t \in SUBSET (1..n) : t # {} =>
               iter[t] = CycleAfter(w, Places(w)[Max(t)], iter[t \ {Max(t)}])
        BY <1>1, <1>6
      <4>3. iter[1..k] = CycleAfter(w, Places(w)[Max(1..k)], iter[(1..k) \ {Max(1..k)}])
        BY <4>1, <4>2
      <4>4. Places(w)[Max(1..k)] = k /\ iter[(1..k) \ {Max(1..k)}] = iter[1..(k - 1)]
        BY <1>1, <4>1
      <4> QED BY <4>3, <4>4
    <3> QED BY <1>1, <2>2, <3>1 DEF CycleStep
  <2> QED BY <2>1, <2>2 DEF Steps
<1>9. IsEnd(iter[1..n], n, CycleStates, NoCycles, CycleStep(w))
  <2> HIDE DEF n, Iter
  <2> QED BY <1>0, <1>1, <1>2, <1>8, RunningValues
<1> QED BY <1>7, <1>9

\* The pairs of neighbouring occurrences of a port, d apart, in the first k packets.
PairsTo(ports, k, d) ==
    {i \in 1..k : /\ i + d \in 1..k
                  /\ ports[i + d] = ports[i]
                  /\ \A m \in (i + 1)..(i + d - 1) : ports[m] # ports[i]}

\* The map holds the last place of each port among the first k.
IsLast(ports, k, p, i) == /\ i \in 1..k /\ ports[i] = p
                          /\ \A m \in (i + 1)..k : ports[m] # p
IsSeen(ports, k, seen) == /\ \A p \in DOMAIN seen : IsLast(ports, k, p, seen[p])
                          /\ \A i \in 1..k : ports[i] \in DOMAIN seen

\* It does so after one more packet.
LEMMA SeenStays ==
    ASSUME NEW ports \in Seq(PortNumbers), NEW k \in 1..Len(ports), NEW seen \in Maps,
           IsSeen(ports, k - 1, seen)
    PROVE  IsSeen(ports, k, SetAt(seen, ports[k], k))
<1>1. PICK p : p = ports[k]
  OBVIOUS
<1>2. PICK next : next = SetAt(seen, p, k)
  OBVIOUS
<1>3. /\ DOMAIN next = DOMAIN seen \cup {p}
      /\ next[p] = k /\ \A q \in DOMAIN seen : q # p => next[q] = seen[q]
  BY <1>2 DEF SetAt
<1>4. ASSUME NEW q \in DOMAIN next PROVE IsLast(ports, k, q, next[q])
  <2>1. CASE q = p
    <3>1. k \in 1..k /\ \A m \in (k + 1)..k : FALSE
      OBVIOUS
    <3> QED BY <1>1, <1>3, <2>1, <3>1 DEF IsLast
  <2>2. CASE q # p
    <3>1. q \in DOMAIN seen /\ next[q] = seen[q]
      BY <1>3, <2>2
    <3>2. IsLast(ports, k - 1, q, seen[q])
      BY <3>1 DEF IsSeen
    <3>3. \A m \in (seen[q] + 1)..k : m = k \/ m \in (seen[q] + 1)..(k - 1)
      BY <3>2 DEF IsLast
    <3>4. ports[k] # q
      BY <1>1, <2>2
    <3> QED BY <3>1, <3>2, <3>3, <3>4 DEF IsLast
  <2> QED BY <2>1, <2>2
<1>5. ASSUME NEW i \in 1..k PROVE ports[i] \in DOMAIN next
  <2>1. i = k \/ i \in 1..(k - 1)
    OBVIOUS
  <2> QED BY <1>1, <1>3, <2>1 DEF IsSeen
<1> QED BY <1>1, <1>2, <1>4, <1>5 DEF IsSeen

\* A packet repeats its port at distance d.
RepeatsAt(ports, k, seen, d) == ports[k] \in DOMAIN seen /\ d = k - seen[ports[k]]

\* It adds one pair, and no other packet does.
LEMMA PairsGrow ==
    ASSUME NEW ports \in Seq(PortNumbers), NEW k \in 1..Len(ports), NEW seen \in Maps,
           IsSeen(ports, k - 1, seen), NEW d \in Nat \ {0}
    PROVE  /\ IsFiniteSet(PairsTo(ports, k - 1, d)) /\ k - d \notin PairsTo(ports, k - 1, d)
           /\ PairsTo(ports, k, d) = IF RepeatsAt(ports, k, seen, d)
                                     THEN PairsTo(ports, k - 1, d) \cup {k - d}
                                     ELSE PairsTo(ports, k - 1, d)
<1>1. IsFiniteSet(PairsTo(ports, k - 1, d))
  <2>1. PairsTo(ports, k - 1, d) \in SUBSET (1..(k - 1))
    BY DEF PairsTo
  <2>2. IsFiniteSet(1..(k - 1))
    BY FS_Interval
  <2> QED BY <2>1, <2>2, FS_Subset
<1>2. k - d \notin PairsTo(ports, k - 1, d)
  BY DEF PairsTo
<1>3. \A i : i \in PairsTo(ports, k - 1, d) => i \in PairsTo(ports, k, d)
  BY DEF PairsTo
<1>4. ASSUME NEW i \in PairsTo(ports, k, d), i \notin PairsTo(ports, k - 1, d)
      PROVE  i = k - d /\ RepeatsAt(ports, k, seen, d)
  <2>1. /\ i \in 1..k /\ i + d \in 1..k /\ ports[i + d] = ports[i]
        /\ \A m \in (i + 1)..(i + d - 1) : ports[m] # ports[i]
    BY <1>4 DEF PairsTo
  <2>2. i + d = k
    <3> SUFFICES ASSUME i + d # k PROVE FALSE
      OBVIOUS
    <3>1. i \in 1..(k - 1) /\ i + d \in 1..(k - 1)
      BY <2>1
    <3> QED BY <1>4, <2>1, <3>1 DEF PairsTo
  <2>3. PICK p : p = ports[k]
    OBVIOUS
  <2>4. i \in 1..(k - 1) /\ ports[i] = p
    BY <2>1, <2>2, <2>3
  <2>5. p \in DOMAIN seen
    BY <2>4 DEF IsSeen
  <2>6. IsLast(ports, k - 1, p, seen[p])
    BY <2>5 DEF IsSeen
  <2>7. PICK l \in 1..(k - 1) : l = seen[p]
    BY <2>6 DEF IsLast
  <2>8. ports[l] = p /\ \A m \in (l + 1)..(k - 1) : ports[m] # p
    BY <2>6, <2>7 DEF IsLast
  <2>9. ~(l < i)
    BY <2>4, <2>8
  <2>10. ~(i < l)
    BY <2>1, <2>2, <2>4, <2>8
  <2>11. l = i
    BY <2>4, <2>9, <2>10
  <2> QED BY <2>2, <2>3, <2>4, <2>5, <2>7, <2>11 DEF RepeatsAt
<1>5. ASSUME RepeatsAt(ports, k, seen, d) PROVE k - d \in PairsTo(ports, k, d)
  <2>1. PICK p : p = ports[k]
    OBVIOUS
  <2>2. p \in DOMAIN seen /\ IsLast(ports, k - 1, p, seen[p])
    BY <1>5, <2>1 DEF RepeatsAt, IsSeen
  <2>3. PICK l \in 1..(k - 1) : l = seen[p]
    BY <2>2 DEF IsLast
  <2>4. ports[l] = p /\ \A m \in (l + 1)..(k - 1) : ports[m] # p
    BY <2>2, <2>3 DEF IsLast
  <2>5. d = k - l
    BY <1>5, <2>1, <2>3 DEF RepeatsAt
  <2>6. k - d = l /\ l + d = k
    BY <2>5
  <2>7. l \in PairsTo(ports, k, d)
    <3>1. l \in 1..k /\ l + d \in 1..k /\ ports[l + d] = ports[l]
      BY <2>1, <2>4, <2>6
    <3>2. \A m \in (l + 1)..(l + d - 1) : ports[m] # ports[l]
      BY <2>4, <2>6
    <3> QED BY <3>1, <3>2 DEF PairsTo
  <2> QED BY <2>6, <2>7
<1>6. CASE RepeatsAt(ports, k, seen, d)
  <2>1. \A i : i \in PairsTo(ports, k, d) <=> i \in PairsTo(ports, k - 1, d) \cup {k - d}
    BY <1>3, <1>4, <1>5, <1>6
  <2> QED BY <1>1, <1>2, <1>6, <2>1
<1>7. CASE ~RepeatsAt(ports, k, seen, d)
  <2>1. \A i : i \in PairsTo(ports, k, d) <=> i \in PairsTo(ports, k - 1, d)
    BY <1>3, <1>4, <1>7
  <2> QED BY <1>1, <1>2, <1>7, <2>1
<1> QED BY <1>6, <1>7

\* Counted: one pair more, or none.
LEMMA OnePairMore ==
    ASSUME NEW ports \in Seq(PortNumbers), NEW k \in 1..Len(ports), NEW seen \in Maps,
           IsSeen(ports, k - 1, seen), NEW d \in Nat \ {0}
    PROVE  /\ Cardinality(PairsTo(ports, k - 1, d)) \in Nat
           /\ PairsTo(ports, k - 1, d) = {} => Cardinality(PairsTo(ports, k - 1, d)) = 0
           /\ RepeatsAt(ports, k, seen, d) =>
                 /\ PairsTo(ports, k, d) # {}
                 /\ Cardinality(PairsTo(ports, k, d)) = Cardinality(PairsTo(ports, k - 1, d)) + 1
           /\ ~RepeatsAt(ports, k, seen, d) => PairsTo(ports, k, d) = PairsTo(ports, k - 1, d)
<1>1. PICK A : A = PairsTo(ports, k - 1, d)
  OBVIOUS
<1>2. PICK B : B = PairsTo(ports, k, d)
  OBVIOUS
<1>3. /\ IsFiniteSet(A) /\ k - d \notin A
      /\ B = IF RepeatsAt(ports, k, seen, d) THEN A \cup {k - d} ELSE A
  BY <1>1, <1>2, PairsGrow
<1>4. Cardinality(A) \in Nat
  BY <1>3, FS_CardinalityType
<1>5. A = {} => Cardinality(A) = 0
  BY FS_EmptySet
<1>6. Cardinality(A \cup {k - d}) = Cardinality(A) + 1
  BY <1>3, FS_AddElement
<1> QED BY <1>1, <1>2, <1>3, <1>4, <1>5, <1>6

\* The places of d in a sequence.
PlacesOf(dists, d) == {j \in DOMAIN dists : dists[j] = d}

\* One element more.
LEMMA OnePlaceMore ==
    ASSUME NEW dists \in Seq(Int), NEW e \in Int, NEW d \in Int
    PROVE  Cardinality(PlacesOf(Append(dists, e), d)) =
              IF e = d THEN Cardinality(PlacesOf(dists, d)) + 1
              ELSE Cardinality(PlacesOf(dists, d))
<1>1. PICK n \in Nat : n = Len(dists)
  OBVIOUS
<1>2. PICK A : A = PlacesOf(dists, d)
  OBVIOUS
<1>3. A \in SUBSET (1..n) /\ IsFiniteSet(1..n)
  BY <1>1, <1>2, FS_Interval DEF PlacesOf
<1>4. IsFiniteSet(A) /\ n + 1 \notin A
  <2>1. IsFiniteSet(A)
    BY <1>3, FS_Subset
  <2>2. n + 1 \notin A
    BY <1>3
  <2> QED BY <2>1, <2>2
<1>5. PICK B : B = PlacesOf(Append(dists, e), d)
  OBVIOUS
<1>6. PICK more : more = Append(dists, e)
  OBVIOUS
<1>7. DOMAIN more = 1..(n + 1) /\ more[n + 1] = e /\ \A j \in 1..n : more[j] = dists[j]
  BY <1>1, <1>6
<1>8. CASE e = d
  <2>1. \A j : j \in B <=> j \in A \cup {n + 1}
    <3>1. \A j : j \in 1..(n + 1) <=> j \in 1..n \/ j = n + 1
      OBVIOUS
    <3> QED BY <1>1, <1>2, <1>5, <1>6, <1>7, <1>8, <3>1 DEF PlacesOf
  <2>2. B = A \cup {n + 1}
    BY <2>1
  <2>3. Cardinality(A \cup {n + 1}) = Cardinality(A) + 1
    BY <1>4, FS_AddElement
  <2> QED BY <1>2, <1>5, <1>8, <2>2, <2>3
<1>9. CASE e # d
  <2>1. \A j : j \in B <=> j \in A
    <3>1. \A j : j \in 1..(n + 1) <=> j \in 1..n \/ j = n + 1
      OBVIOUS
    <3> QED BY <1>1, <1>2, <1>5, <1>6, <1>7, <1>9, <3>1 DEF PlacesOf
  <2>2. B = A
    BY <2>1
  <2> QED BY <1>2, <1>5, <1>9, <2>2
<1> QED BY <1>8, <1>9

\* After k packets each distance is found as often as there are pairs.
AreFound(ports, k, dists) ==
    \A d \in 1..Len(ports) :
        Cardinality(PlacesOf(dists, d)) = Cardinality(PairsTo(ports, k, d))
RepeatsUpTo(ports, k, st) == IsSeen(ports, k, st.seen) /\ AreFound(ports, k, st.found)

\* It is so after one more packet.
LEMMA FoundStays ==
    ASSUME NEW ports \in Seq(PortNumbers), NEW k \in 1..Len(ports), NEW st \in RepeatStates,
           RepeatsUpTo(ports, k - 1, st)
    PROVE  RepeatsUpTo(ports, k, RepeatAfter(ports, k, st))
<1>1. PICK seen \in Maps : seen = st.seen
  BY DEF RepeatStates
<1>2. PICK dists \in Seq(Int) : dists = st.found
  BY DEF RepeatStates
<1>3. IsSeen(ports, k - 1, seen) /\ AreFound(ports, k - 1, dists)
  BY <1>1, <1>2 DEF RepeatsUpTo
<1>4. PICK p : p = ports[k]
  OBVIOUS
<1>5. RepeatAfter(ports, k, st).seen = SetAt(seen, ports[k], k)
  BY <1>1 DEF RepeatAfter
<1>6. PICK next : next = RepeatAfter(ports, k, st).found
  OBVIOUS
<1>7. next = IF p \in DOMAIN seen THEN Append(dists, k - seen[p]) ELSE dists
  BY <1>1, <1>2, <1>4, <1>6 DEF RepeatAfter
<1>8. ASSUME NEW d \in 1..Len(ports)
      PROVE  Cardinality(PlacesOf(next, d)) = Cardinality(PairsTo(ports, k, d))
  <2>1. Cardinality(PlacesOf(dists, d)) = Cardinality(PairsTo(ports, k - 1, d))
    BY <1>3 DEF AreFound
  <2>2. /\ RepeatsAt(ports, k, seen, d) =>
              Cardinality(PairsTo(ports, k, d)) = Cardinality(PairsTo(ports, k - 1, d)) + 1
        /\ ~RepeatsAt(ports, k, seen, d) => PairsTo(ports, k, d) = PairsTo(ports, k - 1, d)
    BY <1>3, OnePairMore
  <2>3. CASE p \in DOMAIN seen
    <3>1. PICK e \in Int : e = k - seen[p]
      BY <2>3, SetAtType
    <3>2. next = Append(dists, e)
      BY <1>7, <2>3, <3>1
    <3>3. RepeatsAt(ports, k, seen, d) <=> e = d
      BY <1>4, <2>3, <3>1 DEF RepeatsAt
    <3>4. Cardinality(PlacesOf(next, d)) = IF e = d THEN Cardinality(PlacesOf(dists, d)) + 1
                                           ELSE Cardinality(PlacesOf(dists, d))
      BY <3>2, OnePlaceMore
    <3> QED BY <2>1, <2>2, <3>3, <3>4
  <2>4. CASE p \notin DOMAIN seen
    <3>1. next = dists /\ ~RepeatsAt(ports, k, seen, d)
      BY <1>4, <1>7, <2>4 DEF RepeatsAt
    <3> QED BY <2>1, <2>2, <3>1
  <2> QED BY <2>3, <2>4
<1>9. AreFound(ports, k, next)
  BY <1>8 DEF AreFound
<1>10. IsSeen(ports, k, RepeatAfter(ports, k, st).seen)
  BY <1>3, <1>5, SeenStays
<1> QED BY <1>6, <1>9, <1>10 DEF RepeatsUpTo

\* No packet, no pair.
LEMMA NoPairs ==
    ASSUME NEW ports
    PROVE  \A d : PairsTo(ports, 0, d) = {} /\ IsSeen(ports, 0, <<>>)
  BY DEF PairsTo, IsSeen

\* After the last packet all distances are found.
LEMMA DistancesAreFound ==
    ASSUME NEW ports \in Seq(PortNumbers)
    PROVE  AreFound(ports, Len(ports), RepeatDistances(ports))
<1>1. PICK n \in Nat : n = Len(ports)
  OBVIOUS
<1>2. PICK g : IsRun(g, n, RepeatStates, NoRepeats, RepeatStep(ports)) /\ Repeats(ports) = g[n]
  BY <1>1, RepeatsRun DEF IsEnd
<1> DEFINE S == {k \in 0..n : RepeatsUpTo(ports, k, g[k])}
<1>3. 0 \in S
  <2>1. g[0] = NoRepeats
    BY <1>2 DEF IsRun
  <2>2. AreFound(ports, 0, <<>>)
    <3>1. \A d : PlacesOf(<<>>, d) = {}
      BY DEF PlacesOf
    <3>2. \A d : PairsTo(ports, 0, d) = {}
      BY NoPairs
    <3> QED BY <3>1, <3>2 DEF AreFound
  <2>3. RepeatsUpTo(ports, 0, NoRepeats)
    BY <2>2, NoPairs DEF RepeatsUpTo, NoRepeats
  <2> QED BY <2>1, <2>3
<1>4. ASSUME NEW k \in 1..n, k - 1 \in S PROVE k \in S
  <2>1. g[k - 1] \in RepeatStates /\ g[k] = RepeatStep(ports)[<<k, g[k - 1]>>]
    <3>1. k - 1 \in 0..n
      BY <1>1
    <3>2. g \in [0..n -> RepeatStates]
      BY <1>2 DEF IsRun
    <3>3. g[k] = RepeatStep(ports)[<<k, g[k - 1]>>]
      BY <1>2 DEF IsRun
    <3> QED BY <3>1, <3>2, <3>3
  <2>2. g[k] = RepeatAfter(ports, k, g[k - 1])
    BY <1>1, <2>1 DEF RepeatStep
  <2>3. RepeatsUpTo(ports, k - 1, g[k - 1])
    BY <1>4
  <2>4. RepeatsUpTo(ports, k, g[k])
    BY <1>1, <2>1, <2>2, <2>3, FoundStays
  <2> QED BY <2>4
<1>5. n \in S
  <2> HIDE DEF S
  <2>1. n \in 0..n
    OBVIOUS
  <2>2. \A k \in 0..n : k \in S
    BY <1>3, <1>4, UpTo
  <2> QED BY <2>1, <2>2
<1>6. RepeatDistances(ports) = g[n].found
  BY <1>2, RepeatsAreDistances
<1> QED BY <1>1, <1>5, <1>6 DEF RepeatsUpTo

\* After k packets the bag holds the short distances, as often as there are pairs.
IsShort(ports, k, d) == 1 < d /\ d < MaxCycle /\ PairsTo(ports, k, d) # {}
AreCounted(ports, k, bag) ==
    /\ \A d : d \in DOMAIN bag <=> d \in 1..Len(ports) /\ IsShort(ports, k, d)
    /\ \A d \in DOMAIN bag : bag[d] = Cardinality(PairsTo(ports, k, d))
CyclesUpTo(ports, k, st) == IsSeen(ports, k, st.first) /\ AreCounted(ports, k, st.bag)

\* It is so after one more packet.
LEMMA CountedStays ==
    ASSUME NEW ports \in Seq(PortNumbers), NEW k \in 1..Len(ports), NEW st \in CycleStates,
           CyclesUpTo(ports, k - 1, st)
    PROVE  CyclesUpTo(ports, k, CycleAfter(ports, k, st))
<1>1. PICK seen \in Maps : seen = st.first
  BY DEF CycleStates
<1>2. PICK bag \in CountBags : bag = st.bag
  BY DEF CycleStates
<1>3. IsSeen(ports, k - 1, seen) /\ AreCounted(ports, k - 1, bag)
  BY <1>1, <1>2 DEF CyclesUpTo
<1>4. PICK p : p = ports[k]
  OBVIOUS
<1>5. CycleAfter(ports, k, st).first = SetAt(seen, ports[k], k)
  BY <1>1 DEF CycleAfter
<1>6. PICK next : next = CycleAfter(ports, k, st).bag
  OBVIOUS
<1>7. MaxCycle \in Nat
  BY AnalysisAssumption
<1>8. next = IF p \in DOMAIN seen /\ 1 < k - seen[p] /\ k - seen[p] < MaxCycle
             THEN bag (+) SetToBag({k - seen[p]}) ELSE bag
  BY <1>1, <1>2, <1>4, <1>6 DEF CycleAfter
<1>9. ASSUME NEW d \in 1..Len(ports)
      PROVE  /\ Cardinality(PairsTo(ports, k - 1, d)) \in Nat
             /\ PairsTo(ports, k - 1, d) = {} => Cardinality(PairsTo(ports, k - 1, d)) = 0
             /\ RepeatsAt(ports, k, seen, d) =>
                   /\ PairsTo(ports, k, d) # {}
                   /\ Cardinality(PairsTo(ports, k, d)) =
                         Cardinality(PairsTo(ports, k - 1, d)) + 1
             /\ ~RepeatsAt(ports, k, seen, d) => PairsTo(ports, k, d) = PairsTo(ports, k - 1, d)
  BY <1>3, OnePairMore
<1>10. CASE p \in DOMAIN seen /\ 1 < k - seen[p] /\ k - seen[p] < MaxCycle
  <2>1. PICK l \in 1..(k - 1) : l = seen[p]
    BY <1>3, <1>10 DEF IsSeen, IsLast
  <2>2. PICK e \in 1..Len(ports) : e = k - seen[p] /\ 1 < e /\ e < MaxCycle
    BY <1>10, <2>1
  <2>3. next = OneMoreOf(bag, e)
    <3>1. e \in Int /\ next = bag (+) SetToBag({e})
      BY <1>8, <1>10, <2>2
    <3> QED BY <3>1, OneMoreIs
  <2>4. \A d : RepeatsAt(ports, k, seen, d) <=> d = e
    BY <1>4, <1>10, <2>2 DEF RepeatsAt
  <2>5. DOMAIN next = DOMAIN bag \cup {e}
    BY <2>3 DEF OneMoreOf
  <2>6. ASSUME NEW d PROVE d \in DOMAIN next <=> d \in 1..Len(ports) /\ IsShort(ports, k, d)
    <3>1. CASE d = e
      BY <1>9, <2>2, <2>4, <2>5, <3>1 DEF IsShort
    <3>2. CASE d # e
      <4>1. d \in DOMAIN next <=> d \in 1..Len(ports) /\ IsShort(ports, k - 1, d)
        BY <1>3, <2>5, <3>2 DEF AreCounted
      <4> QED BY <1>9, <2>4, <3>2, <4>1 DEF IsShort
    <3> QED BY <3>1, <3>2
  <2>7. ASSUME NEW d \in DOMAIN next PROVE next[d] = Cardinality(PairsTo(ports, k, d))
    <3>1. d \in 1..Len(ports)
      BY <2>6
    <3>2. next[d] = (IF d \in DOMAIN bag THEN bag[d] ELSE 0) + (IF d = e THEN 1 ELSE 0)
      BY <2>3, <2>5 DEF OneMoreOf
    <3>3. PICK c \in Nat : c = Cardinality(PairsTo(ports, k - 1, d))
      BY <1>9, <3>1
    <3>4. d \in DOMAIN bag => bag[d] = c
      BY <1>3, <3>3 DEF AreCounted
    <3>5. CASE d = e
      <4>1. Cardinality(PairsTo(ports, k, d)) = c + 1
        BY <1>9, <2>4, <3>1, <3>3, <3>5
      <4>2. d \notin DOMAIN bag => c = 0
        <5>1. d \notin DOMAIN bag => PairsTo(ports, k - 1, d) = {}
          BY <1>3, <2>2, <3>5 DEF AreCounted, IsShort
        <5> QED BY <1>9, <3>1, <3>3, <5>1
      <4>3. next[d] = c + 1
        BY <3>2, <3>4, <3>5, <4>2
      <4> QED BY <4>1, <4>3
    <3>6. CASE d # e
      <4>1. d \in DOMAIN bag
        BY <2>5, <3>6
      <4>2. next[d] = c + 0
        BY <3>2, <3>4, <3>6, <4>1
      <4>3. PairsTo(ports, k, d) = PairsTo(ports, k - 1, d)
        BY <1>9, <2>4, <3>1, <3>6
      <4> QED BY <3>3, <4>2, <4>3
    <3> QED BY <3>5, <3>6
  <2> QED BY <1>3, <1>5, <1>6, <2>6, <2>7, SeenStays DEF CyclesUpTo, AreCounted
<1>11. CASE ~(p \in DOMAIN seen /\ 1 < k - seen[p] /\ k - seen[p] < MaxCycle)
  <2>1. next = bag
    BY <1>8, <1>11
  <2>2. \A d \in 1..Len(ports) : 1 < d /\ d < MaxCycle =>
                                    PairsTo(ports, k, d) = PairsTo(ports, k - 1, d)
    BY <1>4, <1>9, <1>11 DEF RepeatsAt
  <2>3. \A d \in 1..Len(ports) : IsShort(ports, k, d) <=> IsShort(ports, k - 1, d)
    BY <2>2 DEF IsShort
  <2>4. AreCounted(ports, k, next)
    <3>1. \A d : d \in DOMAIN next <=> d \in 1..Len(ports) /\ IsShort(ports, k, d)
      BY <1>3, <2>1, <2>3 DEF AreCounted
    <3>2. \A d \in DOMAIN next : next[d] = Cardinality(PairsTo(ports, k - 1, d))
      BY <1>3, <2>1 DEF AreCounted
    <3>3. \A d \in DOMAIN next : PairsTo(ports, k, d) = PairsTo(ports, k - 1, d)
      BY <2>2, <3>1 DEF IsShort
    <3> QED BY <3>1, <3>2, <3>3 DEF AreCounted
  <2> QED BY <1>3, <1>5, <1>6, <2>4, SeenStays DEF CyclesUpTo
<1> QED BY <1>10, <1>11

\* After the last packet all cycles are counted.
LEMMA CyclesAreCounted ==
    ASSUME NEW ports \in Seq(PortNumbers)
    PROVE  AreCounted(ports, Len(ports), CycleLengths(ports))
<1>1. PICK n \in Nat : n = Len(ports)
  OBVIOUS
<1>2. PICK g : IsRun(g, n, CycleStates, NoCycles, CycleStep(ports)) /\ Cycles(ports) = g[n]
  BY <1>1, CyclesRun DEF IsEnd
<1> DEFINE S == {k \in 0..n : CyclesUpTo(ports, k, g[k])}
<1>3. 0 \in S
  <2>1. g[0] = NoCycles
    BY <1>2 DEF IsRun
  <2>2. AreCounted(ports, 0, EmptyBag)
    <3>1. DOMAIN EmptyBag = {}
      BY DEF EmptyBag, SetToBag
    <3>2. \A d : ~IsShort(ports, 0, d)
      BY NoPairs DEF IsShort
    <3> QED BY <3>1, <3>2 DEF AreCounted
  <2>3. CyclesUpTo(ports, 0, NoCycles)
    BY <2>2, NoPairs DEF CyclesUpTo, NoCycles
  <2> QED BY <2>1, <2>3
<1>4. ASSUME NEW k \in 1..n, k - 1 \in S PROVE k \in S
  <2>1. g[k - 1] \in CycleStates /\ g[k] = CycleStep(ports)[<<k, g[k - 1]>>]
    <3>1. k - 1 \in 0..n
      BY <1>1
    <3>2. g \in [0..n -> CycleStates]
      BY <1>2 DEF IsRun
    <3>3. g[k] = CycleStep(ports)[<<k, g[k - 1]>>]
      BY <1>2 DEF IsRun
    <3> QED BY <3>1, <3>2, <3>3
  <2>2. g[k] = CycleAfter(ports, k, g[k - 1])
    BY <1>1, <2>1 DEF CycleStep
  <2>3. CyclesUpTo(ports, k - 1, g[k - 1])
    BY <1>4
  <2>4. CyclesUpTo(ports, k, g[k])
    BY <1>1, <2>1, <2>2, <2>3, CountedStays
  <2> QED BY <2>4
<1>5. n \in S
  <2> HIDE DEF S
  <2>1. n \in 0..n
    OBVIOUS
  <2>2. \A k \in 0..n : k \in S
    BY <1>3, <1>4, UpTo
  <2> QED BY <2>1, <2>2
<1>6. CycleLengths(ports) = g[n].bag
  BY <1>2, CyclesAreLengths
<1> QED BY <1>1, <1>5, <1>6 DEF CyclesUpTo

\* Repetition distances and cycles count the pairs of neighbouring occurrences.
LEMMA RepeatsAreCorrect ==
    ASSUME NEW ports \in Seq(PortNumbers)
    PROVE  RepeatsCorrect(ports)
<1>1. PICK n \in Nat : n = Len(ports) /\ DOMAIN ports = 1..n
  OBVIOUS
<1> DEFINE pairs(d) == {i \in DOMAIN ports :
                        /\ i + d \in DOMAIN ports
                        /\ ports[i + d] = ports[i]
                        /\ \A k \in (i + 1)..(i + d - 1) : ports[k] # ports[i]}
<1>2. \A d : pairs(d) = PairsTo(ports, n, d)
  BY <1>1 DEF PairsTo
<1>3. PICK dists : dists = RepeatDistances(ports)
  OBVIOUS
<1>4. PICK cycles : cycles = CycleLengths(ports)
  OBVIOUS
<1> HIDE DEF pairs
<1>5. \A d \in 1..Len(ports) :
         Cardinality({k \in DOMAIN dists : dists[k] = d}) = Cardinality(pairs(d))
  BY <1>1, <1>2, <1>3, DistancesAreFound DEF AreFound, PlacesOf
<1>6. AreCounted(ports, n, cycles)
  BY <1>1, <1>4, CyclesAreCounted
<1>7. BagToSet(cycles) = {d \in 1..Len(ports) : 1 < d /\ d < MaxCycle /\ pairs(d) # {}}
  BY <1>2, <1>6 DEF AreCounted, IsShort, BagToSet
<1>8. \A d \in BagToSet(cycles) : cycles[d] = Cardinality(pairs(d))
  BY <1>2, <1>6 DEF AreCounted, BagToSet
<1> USE DEF pairs
<1> QED BY <1>3, <1>4, <1>5, <1>7, <1>8, ZenonT(60) DEF RepeatsCorrect

-----------------------------------------------------------------------------
(* The behaviour of the inputs.                                            *)

\* Inputs are octets, and not too many.
InputsInv == data \in Seq(Values) /\ Len(data) <= MaxLen

\* InputsInv holds of all inputs.
LEMMA InputsInvariance == Inputs => []InputsInv
<1>1. NoInput => InputsInv
  BY InputsAssumption DEF NoInput, InputsInv
<1>2. InputsInv /\ [Extend]_data => InputsInv'
  <2> SUFFICES ASSUME InputsInv, [Extend]_data PROVE InputsInv'
    OBVIOUS
  <2>1. CASE Extend
    BY <2>1, InputsAssumption DEF Extend, InputsInv
  <2>2. CASE data' = data
    BY <2>2 DEF InputsInv
  <2> QED BY <2>1, <2>2
<1> QED BY <1>1, <1>2, PTL DEF Inputs

\* Inputs are logs of ports.
LEMMA InputsArePorts ==
    ASSUME InputsInv
    PROVE  data \in Seq(PortNumbers)
<1>1. Values \subseteq PortNumbers
  BY InputsAssumption DEF PortNumbers
<1> QED BY <1>1, SeqMonotonic DEF InputsInv

\* For every number of values of a byte above one and all datagrams shorter than
\* Word bytes, net.c l.9-23 and checksum.c l.7-21 compute the one's complement
\* sum, and a receiver accepts what both versions of forge_udp_packet make of it,
\* also when malloc fails in checksum.c (l.40-44) and no checksum is sent.
THEOREM ChecksumsAreCorrect == Inputs => []ChecksumsCorrect
<1>1. InputsInv => ChecksumsCorrect
  <2> SUFFICES ASSUME InputsInv PROVE ChecksumsCorrect
    OBVIOUS
  <2>1. Values \subseteq Octets /\ Octets \subseteq WordValues
    BY InputsAssumption, Sizes DEF Octets, WordValues
  <2>2. data \in Seq(Octets) /\ Len(data) \in Nat /\ Len(data) < Word
    <3>1. data \in Seq(Octets)
      BY <2>1, SeqMonotonic DEF InputsInv
    <3> QED BY <3>1, InputsAssumption, Sizes DEF InputsInv
  <2>3. ChecksumCorrect(data)
    BY <2>2, Sizes, ChecksumsAgree
  <2>4. ASSUME data # <<>>
        PROVE  /\ NetDatagramChecked(Head(data), Tail(data))
               /\ ForgeDatagramAccepted(Head(data), Tail(data))
    <3>1. /\ Head(data) \in Octets /\ Tail(data) \in Seq(Octets)
          /\ Len(Tail(data)) = Len(data) - 1
      BY <2>2, <2>4, HeadTailProperties
    <3>2. Len(Tail(data)) + 4 <= 2 * Word
      BY <2>2, <3>1, Sizes
    <3> QED BY <2>1, <3>1, <3>2, FieldsAreAccepted
  <2> QED BY <2>3, <2>4 DEF ChecksumsCorrect
<1> QED BY <1>1, InputsInvariance, PTL

\* For all lists of times of any length, the exchange sorts of burst_blaster.c
\* (l.109-128) and blast_controller.c (l.76-85) sort, and burst_blaster.c lists
\* the fastest servers that answered.
THEOREM RankingIsCorrect == Inputs => []RankingCorrect
<1>1. InputsInv => RankingCorrect
  <2> SUFFICES ASSUME InputsInv PROVE RankingCorrect
    OBVIOUS
  <2>1. Values \subseteq Nat
    BY InputsAssumption, Sizes
  <2>2. data \in Seq(Nat)
    BY <2>1, SeqMonotonic DEF InputsInv
  <2>3. Len(data) \in Nat /\ data \in [1..Len(data) -> Nat]
    BY <2>2
  <2> QED BY <2>3, BlasterListIsFastest, ControllerIsSorted DEF RankingCorrect
<1> QED BY <1>1, InputsInvariance, PTL

\* For every width of the ports and all logs of any length: berlekamp_massey
\* (l.331-356) returns the linear complexity of the bits and taps that generate
\* them; and the ports made of bits are the right ones (l.718-726).
THEOREM RegistersAreCorrect == Inputs => []RegistersCorrect
<1>1. InputsInv => RegistersCorrect
  <2> SUFFICES ASSUME InputsInv, data # <<>>
               PROVE  /\ LinearComplexityCorrect(data)
                      /\ PortsOfInverts(data)
    BY DEF RegistersCorrect
  <2>1. data \in Seq(PortNumbers)
    BY InputsArePorts
  <2> QED BY <2>1, LinearComplexityIs, PortsOfInvert
<1> QED BY <1>1, InputsInvariance, PTL

\* For all logs of any length, every ModBase and MaxCycle: the counts of runs
\* (l.246-262), repetition distances and cycles (l.101-108, l.162-172),
\* differences (l.37-40), transitions (l.185-189) and remainders (l.68-81) are
\* those of the log.
THEOREM LogStatisticsAreCorrect == Inputs => []LogStatisticsCorrect
<1>1. InputsInv => LogStatisticsCorrect
  <2> SUFFICES ASSUME InputsInv, data # <<>>
               PROVE  /\ RunsCorrect(data)
                      /\ RepeatsCorrect(data)
                      /\ DeltasAreTransitions(data)
                      /\ ShortLogIsBiased(data)
    BY DEF LogStatisticsCorrect
  <2>1. data \in Seq(PortNumbers)
    BY InputsArePorts
  <2>2. RunsCorrect(data) /\ RepeatsCorrect(data)
    BY <2>1, RunsAreCorrect, RepeatsAreCorrect
  <2>3. DeltasAreTransitions(data) /\ ShortLogIsBiased(data)
    BY <2>1, DeltasAreTheTransitions, ShortLogsAreBiased
  <2> QED BY <2>2, <2>3
<1> QED BY <1>1, InputsInvariance, PTL

-----------------------------------------------------------------------------
(* ParallelProbes: the constants and the work of a thread.                 *)

\* What the proofs use of the constants.
LEMMA SomeServers ==
    /\ N \in Nat /\ N > 0 /\ Timeout \in Nat /\ Timeout > 0 /\ Delay \in Nat
    /\ Servers \subseteq Probers /\ \A t \in 1..5 : t \in Probers
    /\ Servers \subseteq Nat /\ Probers \subseteq Nat
    /\ All \in Seq(Servers) /\ All \in [1..N -> Servers] /\ Len(All) = N
    /\ \A i \in Servers : All[i] = i
<1>1. N \in Nat /\ N > 0 /\ Timeout \in Nat /\ Timeout > 0 /\ Delay \in Nat
  BY ProbesAssumption
<1> QED BY <1>1 DEF Servers, Probers, All

\* A part of the list of servers.
LEMMA PartOfAll ==
    ASSUME NEW m \in 1..(N + 1), NEW n \in 0..N
    PROVE  SubSeq(All, m, n) \in Seq(Servers)
<1>1. N \in Nat /\ Servers = 1..N /\ Len(All) = N /\ All \in Seq(Servers)
        /\ \A i \in Servers : All[i] = i
  BY SomeServers DEF Servers
<1>2. \A i \in m..n : i \in 1..Len(All)
  BY <1>1
<1> QED BY <1>1, <1>2, SubSeqProperties


\* The parts of the list that the threads of P1 get.
LEMMA RangesAre == \A t \in 1..4 : Ranges[t] \in Seq(Servers)
<1>1. N \in Nat /\ N > 0 /\ Servers = 1..N /\ Len(All) = N /\ All \in Seq(Servers)
        /\ \A i \in Servers : All[i] = i
  BY SomeServers DEF Servers
<1>2. /\ N \div 2 \in 0..N /\ N \div 2 + 1 \in 1..(N + 1)
      /\ N \div 4 + 1 \in 1..(N + 1) /\ (3 * N) \div 4 \in 0..N /\ 1 \in 1..(N + 1) /\ N \in 0..N
  BY <1>1
<1>3. /\ Ranges[1] = SubSeq(All, 1, N \div 2) /\ Ranges[2] = SubSeq(All, N \div 2 + 1, N)
      /\ Ranges[3] = Reverse(All) /\ Ranges[4] = SubSeq(All, N \div 4 + 1, (3 * N) \div 4)
  BY DEF Ranges
<1>4. Reverse(All) \in Seq(Servers)
  <2>1. Reverse(All) = [i \in 1..N |-> All[(N - i) + 1]]
    BY <1>1 DEF Reverse
  <2>2. \A i \in 1..N : (N - i) + 1 \in 1..N /\ All[(N - i) + 1] = N - i + 1
    BY <1>1
  <2>3. Reverse(All) \in [1..N -> Servers]
    BY <1>1, <2>1, <2>2
  <2> DEFINE r == Reverse(All)
  <2>4. N \in Nat /\ r \in [1..N -> Servers]
    BY <1>1, <2>3
  <2> HIDE DEF r
  <2>5. r \in Seq(Servers)
    BY <2>4
  <2> QED BY <2>5 DEF r
<1>5. /\ Ranges[1] \in Seq(Servers) /\ Ranges[2] \in Seq(Servers)
      /\ Ranges[3] \in Seq(Servers) /\ Ranges[4] \in Seq(Servers)
  <2>1. SubSeq(All, 1, N \div 2) \in Seq(Servers)
    BY <1>2, PartOfAll, Zenon
  <2>2. SubSeq(All, N \div 2 + 1, N) \in Seq(Servers)
    BY <1>2, PartOfAll, Zenon
  <2>3. SubSeq(All, N \div 4 + 1, (3 * N) \div 4) \in Seq(Servers)
    BY <1>2, PartOfAll, Zenon
  <2> QED BY <1>3, <1>4, <2>1, <2>2, <2>3, Zenon
<1>6. \A t \in 1..4 : t = 1 \/ t = 2 \/ t = 3 \/ t = 4
  OBVIOUS
<1> QED BY <1>5, <1>6

\* The work of a thread is a list of servers.
LEMMA WorkIs ==
    ASSUME NEW p \in Programs, NEW t \in Probers
    PROVE  Work(p, t) \in Seq(Servers)
<1>1. t \in Nat /\ t > 0
  BY SomeServers DEF Probers
<1>2. \A s \in Servers : <<s>> \in Seq(Servers) 
  OBVIOUS
<1>3. <<>> \in Seq(Servers) /\ All \in Seq(Servers)
  BY SomeServers
<1>4. t <= 4 => t \in 1..4
  BY <1>1
<1> QED BY <1>2, <1>3, <1>4, RangesAre DEF Work

\* What CHOOSE takes is a list of the set.
LEMMA SetToSeqIs ==
    ASSUME NEW S, IsFiniteSet(S)
    PROVE  SetToSeq(S) \in Seq(S) /\ ToSet(SetToSeq(S)) = S /\ Len(SetToSeq(S)) = Cardinality(S)
<1> DEFINE n == Cardinality(S)
           f == SetToSeq(S)
<1>1. n \in Nat /\ ExistsBijection(1..n, S)
  BY FS_CardinalityType
<1>2. \E g \in [1..n -> S] : IsInjective(g)
  <2>1. PICK g : g \in Bijection(1..n, S)
    BY <1>1 DEF ExistsBijection
  <2> QED BY <2>1 DEF Bijection, Injection, IsInjective
<1>3. f \in [1..n -> S] /\ IsInjective(f)
  BY <1>2 DEF SetToSeq
<1> HIDE DEF f
<1>4. f \in Injection(1..n, S)
  BY <1>3 DEF Injection, IsInjective
<1>5. IsFiniteSet(1..n) /\ Cardinality(1..n) = n
  BY <1>1, FS_Interval
<1>6. f \in Surjection(1..n, S)
  BY <1>4, <1>5, FS_Injection
<1>7. ToSet(f) = S
  BY <1>3, <1>6 DEF Surjection, ToSet
<1>8. f \in Seq(S)
  BY <1>1, <1>3
<1>9. Len(f) = n
  BY <1>1, <1>3
<1> QED BY <1>7, <1>8, <1>9 DEF f

-----------------------------------------------------------------------------
(* The inductive invariant.                                                *)

\* A thread waits for the server it has next, and no longer than it may.
Waits == \A t \in Probers :
            /\ wpc[t] = "waiting" => todo[t] # <<>>
            /\ ans[t] \in 0..Timeout => wait[t] <= ans[t] + Delay

\* A time without an answer is at least the time-out, one with an answer is little
\* more than the answer took.
Stored == \A s \in Servers :
             /\ reply[s] = -1 => rtt_ms[s] = 0 \/ rtt_ms[s] >= Timeout
             /\ reply[s] \in 0..Timeout => rtt_ms[s] <= reply[s] + Delay

\* The blaster lists positive times in their order.
InOrder == /\ stage # "listed" => printed = <<>>
           /\ program = "blaster" =>
                \A i, j \in DOMAIN printed :
                    i < j => 0 < rtt_ms[printed[i]] /\ rtt_ms[printed[i]] <= rtt_ms[printed[j]]

Shared == program = "scanner" => found["main"] = resolved

ProbesInv == ProbeTypeOK /\ Waits /\ Stored /\ InOrder /\ Shared /\ ScannerListsWhatIsFound

\* Taking the first server off the work of a thread.
LEMMA NextToDo ==
    ASSUME NEW s \in Seq(Servers), s # <<>>
    PROVE  Head(s) \in Servers /\ Tail(s) \in Seq(Servers)
BY HeadTailProperties

\* The inductive invariant holds initially.
LEMMA ProbesInit == ProbeInit => ProbesInv
<1> SUFFICES ASSUME ProbeInit PROVE ProbesInv
  OBVIOUS
<1> USE SomeServers DEF ProbeInit
<1>1. ProbeTypeOK
  <2>1. todo \in [Probers -> Seq(Servers)]
    BY WorkIs
  <2>2. <<>> \in Seq(Servers)
    OBVIOUS
  <2> QED BY <2>1, <2>2 DEF ProbeTypeOK, Memories, Ticks
<1>2. Waits /\ Stored /\ InOrder
  BY DEF Waits, Stored, InOrder
<1>3. Shared /\ ScannerListsWhatIsFound
  BY DEF Shared, ScannerListsWhatIsFound, Memories
<1> QED BY <1>1, <1>2, <1>3 DEF ProbesInv

\* A step before main has listed anything needs to keep only these.
Working == ProbeTypeOK /\ Waits /\ Stored /\ Shared

\* While threads run, nothing is listed.
LEMMA StillJoining ==
    ASSUME ProbesInv, stage = "join", stage' \in {"join", "crashed"}, printed' = printed, Working'
    PROVE  ProbesInv'
<1>1. stage' # "listed" /\ printed' = <<>>
  BY DEF ProbesInv, InOrder
<1>2. InOrder' /\ ScannerListsWhatIsFound'
  BY <1>1 DEF InOrder, ScannerListsWhatIsFound
<1> QED BY <1>2 DEF ProbesInv, Working

-----------------------------------------------------------------------------
(* The steps.                                                              *)

\* Start preserves the inductive invariant.
LEMMA StartKeeps == ASSUME ProbesInv, NEW t \in Probers, Start(t) PROVE ProbesInv'
<1>0. ProbeTypeOK /\ Waits /\ Stored /\ Shared
  BY DEF ProbesInv
<1>1. /\ stage = "join" /\ stage' \in {"join", "crashed"}
      /\ UNCHANGED <<program, todo, wait, ans, rtt_ms, measured, found, printed, reply, resolved>>
  BY DEF Start, Running, probes, records, history
<1>2. /\ wpc' \in [Probers -> {"new", "ready", "waiting", "absent"}]
      /\ \A u \in Probers : wpc'[u] = "waiting" => wpc[u] = "waiting"
  <2>1. wpc \in [Probers -> {"new", "ready", "waiting", "absent"}]
    BY <1>0 DEF ProbeTypeOK
  <2>2. \/ wpc' = [wpc EXCEPT ![t] = "ready"]
        \/ wpc' = [wpc EXCEPT ![t] = "absent"]
        \/ wpc' = [u \in Probers |-> IF u \in t..4 THEN "absent" ELSE wpc[u]]
        \/ wpc' = wpc
    BY DEF Start
  <2> QED BY <2>1, <2>2
<1>3. ProbeTypeOK'
  BY <1>0, <1>1, <1>2 DEF ProbeTypeOK, Ticks
<1>4. Waits' /\ Stored' /\ Shared'
  BY <1>0, <1>1, <1>2 DEF Waits, Stored, Shared
<1> QED BY <1>1, <1>3, <1>4, StillJoining DEF Working

\* Ask preserves it.
LEMMA AskKeeps == ASSUME ProbesInv, NEW t \in Probers, Ask(t) PROVE ProbesInv'
<1>0. ProbeTypeOK /\ Waits /\ Stored /\ Shared
  BY DEF ProbesInv
<1>1. Tail(todo[t]) \in Seq(Servers)
  <2>1. todo[t] \in Seq(Servers) /\ todo[t] # <<>>
    BY <1>0 DEF ProbeTypeOK, Ask, HasWork
  <2> QED BY <2>1, NextToDo
<1>2. /\ stage = "join" /\ wpc[t] = "ready" /\ todo[t] # <<>>
      /\ \/ wpc' = wpc /\ todo' = [todo EXCEPT ![t] = Tail(@)]
         \/ wpc' = [wpc EXCEPT ![t] = "waiting"] /\ todo' = todo
      /\ UNCHANGED <<program, wait, ans, rtt_ms, measured, found, stage, printed, reply, resolved>>
  BY DEF Pop, Ask, HasWork, Running, probes, records, output, history
<1>3. ProbeTypeOK'
  <2>1. todo' \in [Probers -> Seq(Servers)]
          /\ wpc' \in [Probers -> {"new", "ready", "waiting", "absent"}]
    BY <1>0, <1>1, <1>2 DEF ProbeTypeOK
  <2> QED BY <1>0, <1>2, <2>1 DEF ProbeTypeOK, Ticks
<1>4. Waits'
  BY <1>0, <1>2 DEF Waits, ProbeTypeOK
<1>5. Stored' /\ Shared'
  BY <1>0, <1>2 DEF Stored, Shared
<1> QED BY <1>2, <1>3, <1>4, <1>5, StillJoining DEF Working

\* GetAnswer and TimesOut preserve it.
LEMMA StoreKeeps ==
    ASSUME ProbesInv, NEW t \in Probers, GetAnswer(t) \/ TimesOut(t) PROVE ProbesInv'
<1> DEFINE h == Head(todo[t])
<1>0. ProbeTypeOK /\ Waits /\ Stored /\ Shared
  BY DEF ProbesInv
<1>1. /\ stage = "join" /\ wpc[t] = "waiting" /\ Store(t)
      /\ ans[t] >= 0 \/ (ans[t] = -1 /\ wait[t] >= Timeout)
  BY DEF GetAnswer, TimesOut, Running, Waiting
<1>2. h \in Servers /\ Tail(todo[t]) \in Seq(Servers)
  <2>1. todo[t] \in Seq(Servers) /\ todo[t] # <<>>
    BY <1>0, <1>1 DEF ProbeTypeOK, Waits
  <2> QED BY <2>1, NextToDo
<1>3. /\ todo' = [todo EXCEPT ![t] = Tail(@)]
      /\ rtt_ms' = [rtt_ms EXCEPT ![h] = wait[t]]
      /\ reply' = [reply EXCEPT ![h] = ans[t]]
      /\ wait' = [wait EXCEPT ![t] = 0]
      /\ ans' = [ans EXCEPT ![t] = -1]
      /\ wpc' = [wpc EXCEPT ![t] = "ready"]
      /\ program = "blaster"
      /\ UNCHANGED <<program, measured, found, stage, printed, resolved>>
  BY <1>1 DEF Store, Pop, output
<1> HIDE DEF h
<1>4. wait[t] \in 0..(Timeout + Delay) /\ ans[t] \in Ticks
  BY <1>0 DEF ProbeTypeOK
<1>5. ProbeTypeOK'
  <2>1. todo' \in [Probers -> Seq(Servers)]
          /\ wpc' \in [Probers -> {"new", "ready", "waiting", "absent"}]
    BY <1>0, <1>2, <1>3 DEF ProbeTypeOK
  <2>2. /\ rtt_ms' \in [Servers -> 0..(Timeout + Delay)] /\ reply' \in [Servers -> Ticks]
        /\ wait' \in [Probers -> 0..(Timeout + Delay)] /\ ans' \in [Probers -> Ticks]
    <3>1. 0 \in 0..(Timeout + Delay) /\ -1 \in Ticks
      BY SomeServers DEF Ticks
    <3> QED BY <1>0, <1>2, <1>3, <1>4, <3>1 DEF ProbeTypeOK
  <2> QED BY <1>0, <1>3, <2>1, <2>2 DEF ProbeTypeOK, Ticks
<1>6. Waits'
  BY <1>0, <1>3, SomeServers DEF Waits, ProbeTypeOK
<1>7. Stored'
  <2>1. /\ ans[t] = -1 => wait[t] >= Timeout
        /\ ans[t] \in 0..Timeout => wait[t] <= ans[t] + Delay
    BY <1>0, <1>1, <1>4, SomeServers DEF Waits, Ticks
  <2>2. \A s \in Servers : /\ rtt_ms'[s] = IF s = h THEN wait[t] ELSE rtt_ms[s]
                           /\ reply'[s] = IF s = h THEN ans[t] ELSE reply[s]
    BY <1>0, <1>3 DEF ProbeTypeOK
  <2> QED BY <1>0, <2>1, <2>2 DEF Stored
<1>8. Shared'
  BY <1>0, <1>3 DEF Shared
<1> QED BY <1>1, <1>3, <1>5, <1>6, <1>7, <1>8, StillJoining DEF Working

\* Probed preserves it.
LEMMA ProbedKeeps == ASSUME ProbesInv, NEW t \in Probers, Probed(t) PROVE ProbesInv'
<1> DEFINE h == Head(todo[t])
           m == Memory(program, t)
<1>0. ProbeTypeOK /\ Waits /\ Stored /\ Shared
  BY DEF ProbesInv
<1>1. h \in Servers /\ Tail(todo[t]) \in Seq(Servers)
  <2>1. todo[t] \in Seq(Servers) /\ todo[t] # <<>>
    BY <1>0 DEF ProbeTypeOK, Waits, Probed, Waiting
  <2> QED BY <2>1, NextToDo
<1>2. /\ stage = "join" /\ wpc[t] = "waiting"
      /\ todo' = [todo EXCEPT ![t] = Tail(@)] /\ wpc' = [wpc EXCEPT ![t] = "ready"]
      /\ measured' = measured \/ measured' = [measured EXCEPT ![m] = @ \union {h}]
      /\ UNCHANGED <<program, wait, ans, rtt_ms, found, stage, printed, reply, resolved>>
  BY DEF Pop, Probed, Waiting, Running, probes, output, history
<1>3. m \in Memories
  BY DEF Memory, Memories
<1> HIDE DEF h, m
<1>5. ProbeTypeOK'
  <2>1. todo' \in [Probers -> Seq(Servers)]
          /\ wpc' \in [Probers -> {"new", "ready", "waiting", "absent"}]
    BY <1>0, <1>1, <1>2 DEF ProbeTypeOK
  <2>2. measured' \in [Memories -> SUBSET Servers]
    <3>1. measured \in [Memories -> SUBSET Servers] /\ h \in Servers /\ m \in Memories
      BY <1>0, <1>1, <1>3 DEF ProbeTypeOK
    <3>2. measured[m] \union {h} \in SUBSET Servers
      BY <3>1
    <3> QED BY <1>2, <3>1, <3>2
  <2> QED BY <1>0, <1>2, <2>1, <2>2 DEF ProbeTypeOK, Ticks
<1>6. Waits'
  BY <1>0, <1>2 DEF Waits, ProbeTypeOK
<1>7. Stored' /\ Shared'
  BY <1>0, <1>2 DEF Stored, Shared
<1> QED BY <1>2, <1>5, <1>6, <1>7, StillJoining DEF Working

\* Resolve preserves it.
LEMMA ResolveKeeps == ASSUME ProbesInv, NEW t \in Probers, Resolve(t) PROVE ProbesInv'
<1> DEFINE h == Head(todo[t])
           m == Memory(program, t)
<1>0. ProbeTypeOK /\ Waits /\ Stored /\ Shared
  BY DEF ProbesInv
<1>1. h \in Servers /\ Tail(todo[t]) \in Seq(Servers)
  <2>1. todo[t] \in Seq(Servers) /\ todo[t] # <<>>
    BY <1>0 DEF ProbeTypeOK, Resolve, HasWork
  <2> QED BY <2>1, NextToDo
<1>2. /\ stage = "join" /\ wpc[t] = "ready" /\ ~Asks(program, t)
      /\ todo' = [todo EXCEPT ![t] = Tail(@)]
      /\ \/ found' = found /\ resolved' = resolved
         \/ found' = [found EXCEPT ![m] = @ \union {h}] /\ resolved' = resolved \union {h}
      /\ UNCHANGED <<program, wpc, wait, ans, rtt_ms, measured, stage, printed, reply>>
  BY DEF Pop, Resolve, HasWork, Running, probes, records, output
<1>3. m \in Memories /\ (program = "scanner" => m = "main")
  BY <1>2 DEF Memory, Memories
<1> HIDE DEF h, m
<1>5. ProbeTypeOK'
  <2>1. todo' \in [Probers -> Seq(Servers)]
    BY <1>0, <1>1, <1>2 DEF ProbeTypeOK
  <2>2. found' \in [Memories -> SUBSET Servers] /\ resolved' \subseteq Servers
    BY <1>0, <1>1, <1>2, <1>3 DEF ProbeTypeOK
  <2> QED BY <1>0, <1>2, <2>1, <2>2 DEF ProbeTypeOK, Ticks
<1>6. Waits'
  BY <1>0, <1>2 DEF Waits, ProbeTypeOK
<1>7. Stored' /\ Shared'
  BY <1>0, <1>2, <1>3 DEF Stored, Shared, ProbeTypeOK, Memories
<1> QED BY <1>2, <1>5, <1>6, <1>7, StillJoining DEF Working

\* Answer preserves it.
LEMMA AnswerKeeps == ASSUME ProbesInv, NEW t \in Probers, Answer(t) PROVE ProbesInv'
<1>0. ProbeTypeOK /\ Waits /\ Stored /\ Shared
  BY DEF ProbesInv
<1>1. /\ stage = "join" /\ ans' = [ans EXCEPT ![t] = wait[t]]
      /\ UNCHANGED <<program, wpc, todo, wait, rtt_ms, measured, found, stage, printed,
                     reply, resolved>>
  BY DEF Answer, Waiting, Running, records, output, history
<1>2. wait[t] \in Ticks /\ wait[t] \in Int
  <2>1. wait[t] \in 0..(Timeout + Delay)
    BY <1>0 DEF ProbeTypeOK
  <2>2. Timeout \in Nat /\ Delay \in Nat
    BY SomeServers
  <2> QED BY <2>1, <2>2 DEF Ticks
<1>3. ProbeTypeOK'
  <2>1. ans' \in [Probers -> Ticks]
    BY <1>0, <1>1, <1>2 DEF ProbeTypeOK
  <2> QED BY <1>0, <1>1, <2>1 DEF ProbeTypeOK, Ticks
<1>4. Waits'
  <2>1. ans \in [Probers -> Ticks] /\ Delay \in Nat
    BY <1>0, SomeServers DEF ProbeTypeOK
  <2>2. ASSUME NEW p \in Probers
        PROVE  /\ wpc[p] = "waiting" => todo[p] # <<>>
               /\ ans'[p] \in 0..Timeout => wait[p] <= ans'[p] + Delay
    <3>1. /\ wpc[p] = "waiting" => todo[p] # <<>>
          /\ ans[p] \in 0..Timeout => wait[p] <= ans[p] + Delay
      BY <1>0 DEF Waits
    <3>2. ans'[p] = IF p = t THEN wait[t] ELSE ans[p]
      BY <1>1, <2>1
    <3>3. CASE p = t
      BY <1>2, <2>1, <3>1, <3>2, <3>3
    <3>4. CASE p # t
      BY <3>1, <3>2, <3>4
    <3> QED BY <3>3, <3>4
  <2> QED BY <1>1, <2>2 DEF Waits
<1>5. Stored' /\ Shared'
  BY <1>0, <1>1 DEF Stored, Shared
<1> QED BY <1>1, <1>3, <1>4, <1>5, StillJoining DEF Working

\* Millisecond preserves it.
LEMMA MillisecondKeeps == ASSUME ProbesInv, Millisecond PROVE ProbesInv'
<1>0. ProbeTypeOK /\ Waits /\ Stored /\ Shared
  BY DEF ProbesInv
<1>1. /\ stage = "join"
      /\ UNCHANGED <<program, wpc, todo, ans, rtt_ms, measured, found, stage, printed,
                     reply, resolved>>
  BY DEF Millisecond, Waiting, Running, records, output, history
<1>2. ASSUME NEW t \in Probers
      PROVE  /\ wait'[t] \in 0..(Timeout + Delay)
             /\ ans[t] \in 0..Timeout => wait'[t] <= ans[t] + Delay
  <2>1. wait[t] \in 0..(Timeout + Delay) /\ ans[t] \in Ticks
    BY <1>0 DEF ProbeTypeOK
  <2>2. CASE Waiting(t)
    <3>1. /\ wait'[t] = wait[t] + 1
          /\ wait[t] < Delay + (IF ans[t] \in 0..Timeout THEN ans[t] ELSE Timeout)
      BY <2>2 DEF Millisecond
    <3>2. Timeout \in Nat /\ Delay \in Nat
      BY SomeServers
    <3>3. wait[t] \in Nat /\ ans[t] \in Int
      BY <2>1, <3>2 DEF Ticks
    <3> HIDE DEF Millisecond, Waiting
    <3>4. CASE ans[t] \in 0..Timeout
      BY <3>1, <3>2, <3>3, <3>4
    <3>5. CASE ans[t] \notin 0..Timeout
      BY <3>1, <3>2, <3>3, <3>5
    <3> QED BY <3>4, <3>5
  <2>3. CASE ~Waiting(t)
    BY <1>0, <2>1, <2>3 DEF Waits, Millisecond
  <2> QED BY <2>2, <2>3
<1>3. ProbeTypeOK'
  <2>1. wait' \in [Probers -> 0..(Timeout + Delay)]
    BY <1>2 DEF Millisecond
  <2> QED BY <1>0, <1>1, <2>1 DEF ProbeTypeOK, Ticks
<1>4. Waits'
  BY <1>0, <1>1, <1>2 DEF Waits
<1>5. Stored' /\ Shared'
  BY <1>0, <1>1 DEF Stored, Shared
<1> QED BY <1>1, <1>3, <1>4, <1>5, StillJoining DEF Working

-----------------------------------------------------------------------------
(* What the main thread lists.                                             *)

\* FirstShown is a beginning of the list.
LEMMA FirstShownIs ==
    ASSUME NEW S, NEW s \in Seq(S)
    PROVE  /\ FirstShown(s) \in Seq(S)
           /\ DOMAIN FirstShown(s) \subseteq 1..Len(s)
           /\ \A i \in DOMAIN FirstShown(s) : FirstShown(s)[i] = s[i]
<1> DEFINE n == IF Len(s) < Shown THEN Len(s) ELSE Shown
<1>1. n \in Nat /\ n <= Len(s) /\ Len(s) \in Nat
  BY ShownAssumption
<1> HIDE DEF n
<1>2. FirstShown(s) = SubSeq(s, 1, n)
  BY DEF FirstShown, n
<1>3. /\ SubSeq(s, 1, n) \in Seq(S)
      /\ Len(SubSeq(s, 1, n)) = (IF 1 <= n THEN n - 1 + 1 ELSE 0)
      /\ \A i \in 1..(n - 1 + 1) : SubSeq(s, 1, n)[i] = s[1 + i - 1]
  <2>1. \A i \in 1..n : i \in 1..Len(s)
    BY <1>1
  <2> QED BY <1>1, <2>1, SubSeqProperties
<1>4. Len(SubSeq(s, 1, n)) = n
  BY <1>1, <1>3
<1>5. DOMAIN SubSeq(s, 1, n) = 1..n
  BY <1>3, <1>4
<1>6. \A i \in 1..n : SubSeq(s, 1, n)[i] = s[i]
  BY <1>1, <1>3
<1>7. 1..n \subseteq 1..Len(s)
  BY <1>1
<1> QED BY <1>2, <1>3, <1>5, <1>6, <1>7

\* The order of the blaster's sort.
Faster == {p \in Servers \X Servers : BlasterBefore(rtt_ms[p[1]], rtt_ms[p[2]])}

\* The comparison of parallel_burst_blaster.cpp is a strict order.
LEMMA FasterIsOrder ==
    ASSUME rtt_ms \in [Servers -> 0..(Timeout + Delay)]
    PROVE  IsOrder(Faster, Servers)
<1>1. ASSUME NEW x \in Servers PROVE rtt_ms[x] \in Nat
  BY SomeServers
<1> QED BY <1>1 DEF IsOrder, Faster, BlasterBefore

\* What parallel_burst_blaster prints has answered, the fastest first.
LEMMA BlasterPrintsFastest ==
    ASSUME rtt_ms \in [Servers -> 0..(Timeout + Delay)]
    PROVE  /\ BlasterPrints \in Seq(Servers)
           /\ \A i, j \in DOMAIN BlasterPrints :
                 i < j => /\ 0 < rtt_ms[BlasterPrints[i]]
                          /\ rtt_ms[BlasterPrints[i]] <= rtt_ms[BlasterPrints[j]]
<1> DEFINE t == ExchangeSort(Faster, All)
           S == {s \in Servers : rtt_ms[s] > 0}
           o == Only(t, S)
<1>1. BlasterPrints = FirstShown(o)
  BY DEF BlasterPrints, Pairs, Faster
<1>2. N \in Nat /\ All \in [1..N -> Servers]
  BY SomeServers
<1>3. t \in [1..N -> Servers] /\ Ordered(t, All, Faster, N, N)
  <2>1. IsOrder(Faster, Servers)
    BY FasterIsOrder
  <2> QED BY <1>2, <2>1, ExchangeSortSorts, Zenon
<1>4. ASSUME NEW a \in 1..N, NEW b \in 1..N, a < b, rtt_ms[t[b]] > 0
      PROVE  rtt_ms[t[a]] > 0 /\ rtt_ms[t[a]] <= rtt_ms[t[b]]
  <2>1. b \in (a + 1)..N
    BY <1>2, <1>4
  <2>2. <<t[b], t[a]>> \notin Faster
    BY <1>3, <2>1 DEF Ordered
  <2>3. t[a] \in Servers /\ t[b] \in Servers
    BY <1>3
  <2>4. rtt_ms[t[a]] \in Nat /\ rtt_ms[t[b]] \in Nat
    <3>1. \A x \in Servers : rtt_ms[x] \in Nat
      BY SomeServers
    <3> QED BY <2>3, <3>1
  <2> HIDE DEF t
  <2>5. ~BlasterBefore(rtt_ms[t[b]], rtt_ms[t[a]])
    BY <2>2, <2>3 DEF Faster
  <2> QED BY <1>4, <2>4, <2>5 DEF BlasterBefore
<1> HIDE DEF t
<1>5. \A b \in 1..N : \A a \in 1..b : t[b] \in S => t[a] \in S
  <2> SUFFICES ASSUME NEW b \in 1..N, NEW a \in 1..b, t[b] \in S PROVE t[a] \in S
    OBVIOUS
  <2>1. a \in 1..N /\ (a < b \/ a = b)
    BY <1>2
  <2>2. t[a] \in Servers
    BY <1>3, <2>1
  <2> QED BY <1>4, <2>1, <2>2
<1>6. /\ o \in Seq(Servers) /\ Len(o) \in 0..N
      /\ \A a \in 1..Len(o) : o[a] = t[a]
      /\ \A a \in 1..N : t[a] \in S <=> a <= Len(o)
  <2> HIDE DEF S
  <2> QED BY <1>2, <1>3, <1>5, OnlyTakesPrefix, Zenon
<1> HIDE DEF o
<1>7. /\ FirstShown(o) \in Seq(Servers)
      /\ DOMAIN FirstShown(o) \subseteq 1..Len(o)
      /\ \A i \in DOMAIN FirstShown(o) : FirstShown(o)[i] = o[i]
  BY <1>6, FirstShownIs, Zenon
<1>8. ASSUME NEW i \in DOMAIN FirstShown(o), NEW j \in DOMAIN FirstShown(o), i < j
      PROVE  0 < rtt_ms[FirstShown(o)[i]] /\ rtt_ms[FirstShown(o)[i]] <= rtt_ms[FirstShown(o)[j]]
  <2>1. i \in 1..Len(o) /\ j \in 1..Len(o)
    BY <1>7
  <2>2. i \in 1..N /\ j \in 1..N /\ j <= Len(o)
    BY <1>2, <1>6, <2>1
  <2>3. FirstShown(o)[i] = t[i] /\ FirstShown(o)[j] = t[j]
    BY <1>6, <1>7, <2>1
  <2>4. rtt_ms[t[j]] > 0
    BY <1>6, <2>2
  <2> QED BY <1>4, <1>8, <2>2, <2>3, <2>4
<1> QED BY <1>1, <1>7, <1>8

\* Show preserves the inductive invariant.
LEMMA ShowKeeps == ASSUME ProbesInv, Show PROVE ProbesInv'
<1>0. ProbeTypeOK /\ Waits /\ Stored /\ Shared
  BY DEF ProbesInv
<1>1. /\ stage = "join" /\ printed = <<>> /\ \A t \in Probers : Finished(t)
      /\ UNCHANGED <<program, wpc, todo, wait, ans, rtt_ms, measured, found, reply, resolved>>
  BY DEF Show, Running, probes, records, history, ProbesInv, InOrder
<1>2. \/ /\ stage' = "listed"
         /\ program = "blaster" => printed' = BlasterPrints
         /\ program = "discoverer" => printed' = DiscovererPrints
         /\ program = "scanner" => printed' = ScannerReturns
      \/ stage' = "crashed" /\ printed' = printed
  BY <1>0 DEF Show, ProbeTypeOK, Programs
<1>3. DiscovererPrints \in Seq(Servers)
  <2> DEFINE listed == measured["main"] \ found["main"]
  <2>1. listed \subseteq Servers
    BY <1>0 DEF ProbeTypeOK, Memories
  <2> HIDE DEF listed
  <2>2. IsFiniteSet(listed)
    <3>1. IsFiniteSet(Servers)
      BY SomeServers, FS_Interval DEF Servers
    <3> QED BY <2>1, <3>1, FS_Subset
  <2>3. SetToSeq(listed) \in Seq(Servers)
    BY <2>1, <2>2, SetToSeqIs, SeqMonotonic
  <2>4. FirstShown(SetToSeq(listed)) \in Seq(Servers)
    BY <2>3, FirstShownIs, Zenon
  <2> QED BY <2>4 DEF DiscovererPrints, listed
<1>4. /\ ScannerReturns \in Seq(Servers)
      /\ ToSet(ScannerReturns) = found["main"]
      /\ Len(ScannerReturns) = Cardinality(found["main"])
  <2>1. found["main"] \subseteq Servers
    BY <1>0 DEF ProbeTypeOK, Memories
  <2>2. IsFiniteSet(Servers)
    BY SomeServers, FS_Interval DEF Servers
  <2>3. IsFiniteSet(found["main"])
    BY <2>1, <2>2, FS_Subset
  <2>4. /\ ScannerReturns \in Seq(found["main"]) /\ ToSet(ScannerReturns) = found["main"]
        /\ Len(ScannerReturns) = Cardinality(found["main"])
    BY <2>3, SetToSeqIs DEF ScannerReturns
  <2> QED BY <2>1, <2>4, SeqMonotonic
<1>5. rtt_ms \in [Servers -> 0..(Timeout + Delay)]
  BY <1>0 DEF ProbeTypeOK
<1>6. ProbeTypeOK'
  <2>1. printed' \in Seq(Servers)
    <3>1. <<>> \in Seq(Servers)
      OBVIOUS
    <3>2. BlasterPrints \in Seq(Servers)
      BY <1>5, BlasterPrintsFastest
    <3>3. program \in {"blaster", "discoverer", "scanner"}
      BY <1>0 DEF ProbeTypeOK, Programs
    <3> QED BY <1>1, <1>2, <1>3, <1>4, <3>1, <3>2, <3>3
  <2>2. stage' \in {"join", "listed", "crashed"}
    BY <1>2
  <2> QED BY <1>0, <1>1, <2>1, <2>2 DEF ProbeTypeOK, Ticks
<1>7. Waits' /\ Stored' /\ Shared'
  BY <1>0, <1>1 DEF Waits, Stored, Shared
<1>8. InOrder'
  <2>1. stage' # "listed" => printed' = <<>>
    BY <1>1, <1>2
  <2>2. ASSUME program = "blaster", NEW i \in DOMAIN printed', NEW j \in DOMAIN printed', i < j
        PROVE  0 < rtt_ms[printed'[i]] /\ rtt_ms[printed'[i]] <= rtt_ms[printed'[j]]
    <3>1. CASE stage' = "listed"
      BY <1>2, <1>5, <2>2, <3>1, BlasterPrintsFastest
    <3>2. CASE stage' # "listed"
      <4>1. DOMAIN printed' = {}
        BY <2>1, <3>2
      <4> QED BY <4>1
    <3> QED BY <3>1, <3>2
  <2> QED BY <1>1, <2>1, <2>2 DEF InOrder
<1>9. ScannerListsWhatIsFound'
  <2> SUFFICES ASSUME program = "scanner", stage' = "listed"
               PROVE  ToSet(printed') = resolved /\ Len(printed') = Cardinality(resolved)
    BY <1>1 DEF ScannerListsWhatIsFound
  <2>1. printed' = ScannerReturns /\ found["main"] = resolved
    BY <1>0, <1>2 DEF Shared
  <2> QED BY <1>4, <2>1
<1> QED BY <1>6, <1>7, <1>8, <1>9 DEF ProbesInv

\* ProbesInv is an invariant.
LEMMA ProbesInvariance == ProbeSpec => []ProbesInv
<1>1. ProbesInv /\ [ProbeNext]_probeVars => ProbesInv'
  <2> SUFFICES ASSUME ProbesInv, [ProbeNext]_probeVars PROVE ProbesInv'
    OBVIOUS
  <2>1. ASSUME NEW t \in Probers, Probe(t) \/ Answer(t) PROVE ProbesInv'
    BY <2>1, StartKeeps, AskKeeps, StoreKeeps, ProbedKeeps, ResolveKeeps,
       AnswerKeeps DEF Probe
  <2>2. CASE Millisecond
    BY <2>2, MillisecondKeeps
  <2>3. CASE Show
    BY <2>3, ShowKeeps
  <2>4. CASE UNCHANGED probeVars
    BY <2>4 DEF probeVars, probes, records, output, history, ProbesInv, ProbeTypeOK, Ticks,
       Waits, Stored,
       InOrder, Shared, ScannerListsWhatIsFound
  <2> QED BY <2>1, <2>2, <2>3, <2>4 DEF ProbeNext, Over
<1> QED BY <1>1, ProbesInit, PTL DEF ProbeSpec

\* For every number of servers and every time-out, the variables of the programs
\* that probe in parallel keep to their types: no thread waits longer than the
\* time-out and the delay of its scheduling, and no round trip is longer.
THEOREM ProbesTypes == ProbeSpec => []ProbeTypeOK
<1>1. ProbesInv => ProbeTypeOK
  BY DEF ProbesInv
<1> QED BY <1>1, ProbesInvariance, PTL

\* burst_blaster.c l.81-94, l.109-128: a server that was asked and stayed silent
\* is listed before one that answered only if that one's answer took as long as
\* the time-out, up to such a delay.
THEOREM ProbesSilentNeverAhead == ProbeSpec => []SilentNeverAhead
<1>1. ProbesInv => SilentNeverAhead
  <2> SUFFICES ASSUME ProbesInv, program = "blaster",
                      NEW i \in DOMAIN printed, NEW j \in DOMAIN printed, i < j,
                      reply[printed[i]] = -1, reply[printed[j]] >= 0
               PROVE  reply[printed[j]] >= Timeout - Delay
    BY DEF SilentNeverAhead
  <2>1. printed[i] \in Servers /\ printed[j] \in Servers
    BY DEF ProbesInv, ProbeTypeOK
  <2>2. 0 < rtt_ms[printed[i]] /\ rtt_ms[printed[i]] <= rtt_ms[printed[j]]
    BY DEF ProbesInv, InOrder
  <2>3. /\ rtt_ms[printed[i]] = 0 \/ rtt_ms[printed[i]] >= Timeout
        /\ reply[printed[j]] \in 0..Timeout => rtt_ms[printed[j]] <= reply[printed[j]] + Delay
    BY <2>1 DEF ProbesInv, Stored
  <2>4. /\ rtt_ms[printed[i]] \in 0..(Timeout + Delay) /\ rtt_ms[printed[j]] \in 0..(Timeout + Delay)
        /\ reply[printed[j]] \in Ticks
    BY <2>1 DEF ProbesInv, ProbeTypeOK
  <2>5. Timeout \in Nat /\ Delay \in Nat /\ Timeout > 0
    BY SomeServers
  <2>6. rtt_ms[printed[i]] \in Nat /\ rtt_ms[printed[j]] \in Nat /\ reply[printed[j]] \in Int
    BY <2>4, <2>5 DEF Ticks
  <2>7. rtt_ms[printed[j]] >= Timeout
    BY <2>2, <2>3, <2>5, <2>6
  <2>8. CASE reply[printed[j]] \in 0..Timeout
    BY <2>3, <2>5, <2>6, <2>7, <2>8
  <2>9. CASE reply[printed[j]] \notin 0..Timeout
    BY <2>5, <2>6, <2>9
  <2> QED BY <2>8, <2>9
<1> QED BY <1>1, ProbesInvariance, PTL

\* DynamicStunScanner.py l.26, l.61-74: however many domains there are, in whatever
\* order their processes run and whichever of them fail, the list that run_all
\* returns has every name that one of them found, once, and no other.
THEOREM ProbesScannerListsWhatIsFound == ProbeSpec => []ScannerListsWhatIsFound
<1>1. ProbesInv => ScannerListsWhatIsFound
  BY DEF ProbesInv
<1> QED BY <1>1, ProbesInvariance, PTL

=============================================================================
