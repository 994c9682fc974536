------------------------------- MODULE Lists -------------------------------
(***************************************************************************)
(* What the code does with Python's lists: it adds up, counts, picks by a  *)
(* condition, sorts stably, and rounds.                                    *)
(***************************************************************************)
EXTENDS Integers, Sequences, FiniteSets, SequencesExt

SumOf(s, f(_)) == SumFunction([i \in DOMAIN s |-> f(s[i])])
CountOf(s, P(_)) == Cardinality({i \in DOMAIN s : P(s[i])})

\* Python's round: to the nearest, a half to the even neighbour.
Round(n, d) ==
    LET q == n \div d
        twice == 2 * (n % d)
    IN  IF twice > d \/ (twice = d /\ q % 2 = 1) THEN q + 1 ELSE q

\* Python's [x for x in s if P(x)].
Those(s, P(_)) == FlattenSeq([i \in DOMAIN s |-> IF P(s[i]) THEN << s[i] >> ELSE << >>])

\* The members of S one after the other; before holds the pairs <<x, y>> with x
\* ahead of y.
InOrder(S, before) ==
    CHOOSE order \in [1 .. Cardinality(S) -> S] :
        \A i, j \in 1 .. Cardinality(S) : i < j => <<order[i], order[j]>> \in before

\* Python's sort: stable, Before(x, y) when x must come first.
SortedBy(s, Before(_, _)) ==
    LET items == {[place |-> i, item |-> s[i]] : i \in DOMAIN s}
        ahead == {p \in items \X items :
                    \/ Before(p[1].item, p[2].item)
                    \/ p[1].place < p[2].place /\ ~ Before(p[2].item, p[1].item)}
        order == InOrder(items, ahead)
    IN  [i \in DOMAIN s |-> order[i].item]
=============================================================================
