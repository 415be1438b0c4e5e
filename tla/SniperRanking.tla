---------------------------- MODULE SniperRanking ----------------------------
(***************************************************************************)
(* rank_sniper_candidates of sniper.py: the candidates of a discovery scan    *)
(* that pass the hard gates with an A+ score, the best of them first.  A      *)
(* piece of evidence is its score in hundredths, as the weighted sum gives    *)
(* it before the deduction for an extended move, and the reasons against it. *)
(* Taking off ten points and rounding to hundredths may be done in either     *)
(* order.  A candidate with a component out of range ends the call in a      *)
(* ValueError (sniper.py:53-54) before there is any list, so none is among    *)
(* the evidence.                                                            *)
(***************************************************************************)
EXTENDS Integers, Sequences, Functions, FiniteSets

CONSTANTS
    Evidence,      \* records [sum, extended, reasons]
    APlusMin,      \* a_plus_min in hundredths
    Limit,         \* limit
    MaxCandidates  \* bound: the candidates of a scan

\* A score from 0 to 100, rounded to two places.
Scores == 0 .. 10000

ASSUME RankingAssumption ==
    /\ \A e \in Evidence : e.sum \in Scores /\ e.extended \in BOOLEAN
    /\ APlusMin \in Nat /\ Limit \in Nat \ {0} /\ MaxCandidates \in Nat

\* The deduction of ten points stays within 0 and 100.
SniperScore(e) ==
    IF ~ e.extended THEN e.sum ELSE IF e.sum < 1000 THEN 0 ELSE e.sum - 1000

\* sniper_gate and the floor: without reasons, and A+.
Qualifies(e) == e.reasons = {} /\ SniperScore(e) >= APlusMin

\* (mutant: equals are listed in the reverse order of arrival)
Before_LastFirst(cs, i, j) ==
    \/ SniperScore(cs[i]) > SniperScore(cs[j])
    \/ SniperScore(cs[i]) = SniperScore(cs[j]) /\ i > j

\* The stable sort: positions in order of score, equals in order of arrival.
Before(cs, i, j) ==
    \/ SniperScore(cs[i]) > SniperScore(cs[j])
    \/ SniperScore(cs[i]) = SniperScore(cs[j]) /\ i < j

\* The positions of the candidates that go into the list, and the place that
\* the sort gives each.
Qualified(cs) == {i \in DOMAIN cs : Qualifies(cs[i])}
Place(cs, i) == 1 + Cardinality({j \in Qualified(cs) : Before(cs, j, i)})

Rank(cs) ==
    LET n == Cardinality(Qualified(cs))
    IN  [p \in 1 .. IF n < Limit THEN n ELSE Limit |->
            CHOOSE i \in Qualified(cs) : Place(cs, i) = p]

-----------------------------------------------------------------------------

VARIABLE candidates

RankingInit == candidates = <<>>

Discover ==
    /\ Len(candidates) < MaxCandidates
    /\ \E e \in Evidence : candidates' = Append(candidates, e)

RankingSpec == RankingInit /\ [][Discover]_candidates

-----------------------------------------------------------------------------
(* Properties                                                              *)

Listed(cs) == Range(Rank(cs))

\* Of the candidates that qualify the list keeps those found first among equals:
\* a newcomer takes a place only if one is free or its score is higher than that
\* of the one it displaces, nobody else leaves the list, and an empty place is
\* never filled with one that does not qualify (sniper.py:98-112).
NewcomersMustBeBetter ==
    [][LET new == Len(candidates')
           left == Listed(candidates) \ Listed(candidates')
       IN  candidates' # candidates =>
           /\ \A i \in left : /\ new \in Listed(candidates')
                             /\ SniperScore(candidates'[new]) > SniperScore(candidates[i])
           /\ Cardinality(left) <= 1
           /\ left # {} => Len(Rank(candidates)) = Limit
           /\ \A i \in Listed(candidates') : Qualifies(candidates'[i])
           /\ Qualifies(candidates'[new]) /\ new \notin Listed(candidates') =>
                Len(Rank(candidates)) = Limit]_candidates

=============================================================================
