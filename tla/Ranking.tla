------------------------------- MODULE Ranking -------------------------------
(***************************************************************************)
(* How the archived programs order the round-trip times they measured:     *)
(* the exchange sorts of kernel/archive/burst_blaster.c, where 0 stands    *)
(* for no answer, and kernel/archive/blast_controller.c.  A list of        *)
(* servers is a sequence of their times; that exchanges move whole entries *)
(* is left out.                                                            *)
(*                                                                         *)
(* The order of a sort is a set of pairs: <<b, a>> is in it if b belongs   *)
(* before a.                                                               *)
(***************************************************************************)
EXTENDS Integers, SequencesExt

CONSTANT Shown          \* entries a program prints, 5

ASSUME ShownAssumption == Shown \in Nat

\* The pairs of members of S that Before holds of.
Pairs(S, Before(_, _)) == {p \in S \X S : Before(p[1], p[2])}

\* The body of for (i = 0; ...) for (j = i + 1; ...), with indices from 1.
Exchange(before, t, i, j) ==
    IF <<t[j], t[i]>> \in before THEN [t EXCEPT ![i] = t[j], ![j] = t[i]] ELSE t

\* The inner loop and the outer one.
Pass(before, t, i) ==
    FoldLeft(LAMBDA u, j : Exchange(before, u, i, j), t, [k \in 1..(Len(t) - i) |-> i + k])
ExchangeSort(before, s) == FoldLeftDomain(LAMBDA t, i : Pass(before, t, i), s, s)

\* SelectSeq, as a fold: the entries of s that are in S.
Only(s, S) == FoldLeft(LAMBDA t, x : IF x \in S THEN Append(t, x) ELSE t, <<>>, s)

FirstShown(s) == SubSeq(s, 1, IF Len(s) < Shown THEN Len(s) ELSE Shown)

-----------------------------------------------------------------------------
(* burst_blaster.c.                                                        *)

\* A defective variant: 0 is taken for a time.
ZeroIsATime(a, b) == a < b

\* l.112-113.
BlasterBefore(a, b) == a > 0 /\ (b = 0 \/ a < b)

Positive == Nat \ {0}

BlasterSort(s) == ExchangeSort(Pairs(Nat, BlasterBefore), s)

\* l.121-128: the first entries with a positive time.
BlasterList(s) == FirstShown(Only(BlasterSort(s), Positive))

-----------------------------------------------------------------------------
(* blast_controller.c.                                                     *)

\* l.79.
ControllerBefore(a, b) == a < b

\* l.76-85.
ControllerSort(s) == ExchangeSort(Pairs(Nat, ControllerBefore), s)

-----------------------------------------------------------------------------
(* What must hold of every list s of times.                                *)

Occurrences(s, x) == Cardinality({i \in DOMAIN s : s[i] = x})

\* s is a rearrangement of t in which a later entry never belongs before an
\* earlier one.
SortOf(s, t, Before(_, _)) ==
    /\ Len(s) = Len(t)
    /\ \A x \in ToSet(t) : Occurrences(s, x) = Occurrences(t, x)
    /\ \A i, j \in DOMAIN s : i < j => ~Before(s[j], s[i])

\* shown are the smallest of the times in s that are in S.
SmallestOf(shown, s, S) ==
    LET places == {k \in DOMAIN s : s[k] \in S} IN
    /\ Len(shown) = (IF Cardinality(places) < Shown THEN Cardinality(places) ELSE Shown)
    /\ \A i \in DOMAIN shown :
          \* as many times are at most shown[i] as its place says
          /\ Cardinality({k \in places : s[k] < shown[i]}) < i
          /\ Cardinality({k \in places : s[k] <= shown[i]}) >= i

\* burst_blaster.c l.110-128: the exchange sort puts the answers first and in
\* order although 0 stands for no answer, and the five fastest are listed.
BlasterListsFastest(s) ==
    /\ SortOf(BlasterSort(s), s, LAMBDA a, b : a > 0 /\ (b = 0 \/ a < b))
    /\ SmallestOf(BlasterList(s), s, Positive)

\* blast_controller.c l.76-91: the replies are in order of their times.
ControllerSorts(s) == SortOf(ControllerSort(s), s, LAMBDA a, b : a < b)
=============================================================================
