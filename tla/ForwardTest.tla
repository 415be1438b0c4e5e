----------------------------- MODULE ForwardTest -----------------------------
(***************************************************************************)
(* evaluate_path of forward_test.py: what became of a long trade, from the    *)
(* closing prices seen so far.  It is asked again as prices come in, each     *)
(* time over the whole path.  R values are fractions over the risk of one     *)
(* share; they are kept as their numerators.  Prices are finite: what the     *)
(* extremes of a path with a NaN in it are depends on where it stands.       *)
(***************************************************************************)
EXTENDS Integers, Sequences, FiniteSets

CONSTANTS
    Prices,     \* the prices that may be observed
    Trades,     \* the trades asked about: [entry, stop, target]
    MaxLength   \* bound: the length of the path

ASSUME PriceAssumption ==
    /\ Prices \subseteq Int /\ MaxLength \in Nat
    /\ \A t \in Trades : {t.entry, t.stop, t.target} \subseteq Int

\* The ValueErrors.
Refused(t, path) ==
    \/ t.entry <= 0 \/ t.stop <= 0 \/ t.target <= 0
    \/ t.entry <= t.stop \/ t.target <= t.entry
    \/ path = <<>> \/ \E i \in DOMAIN path : path[i] <= 0

Gain(t, price) == price - t.entry
Gains(t, path) == {Gain(t, path[i]) : i \in DOMAIN path}

Verdict(kind, r) == [result |-> kind, outcome |-> r]

\* (mutant: the extremes of the path are compared, the target first)
Walk_ByExtremes(t, path) ==
    IF \E i \in DOMAIN path : path[i] >= t.target THEN Verdict("TARGET", Gain(t, t.target))
    ELSE IF \E i \in DOMAIN path : path[i] <= t.stop THEN Verdict("STOPPED", Gain(t, t.stop))
    ELSE Verdict("OPEN", Gain(t, path[Len(path)]))

\* The loop over the observations, from the i-th on.
Walk(t, path) ==
    LET from[i \in 1 .. Len(path) + 1] ==
            IF i > Len(path) THEN Verdict("OPEN", Gain(t, path[Len(path)]))
            ELSE IF path[i] <= t.stop THEN Verdict("STOPPED", Gain(t, t.stop))
            ELSE IF path[i] >= t.target THEN Verdict("TARGET", Gain(t, t.target))
            ELSE from[i + 1]
    IN  from[1]

EvaluatePath(t, path) ==
    LET g == Gains(t, path)
    IN  [verdict |-> Walk(t, path),
         mae |-> CHOOSE x \in g : \A y \in g : x <= y,
         mfe |-> CHOOSE x \in g : \A y \in g : y <= x]

-----------------------------------------------------------------------------

VARIABLES
    trade,      \* the trade
    path        \* the prices observed

pathVars == <<trade, path>>

PathInit == trade \in Trades /\ path = <<>>

Observe ==
    /\ Len(path) < MaxLength
    /\ \E x \in Prices : path' = Append(path, x)
    /\ UNCHANGED trade

PathSpec == PathInit /\ [][Observe]_pathVars

-----------------------------------------------------------------------------
(* Properties                                                              *)

\* However the path goes on after a stop or a target, the same trade asked
\* about again has the same verdict and the same R, and its excursions only
\* widen: two records of one trade evaluated on different days never disagree
\* about how it ended (forward_test.py:42-52).
VerdictStands ==
    [][LET before == EvaluatePath(trade, path)
           after == EvaluatePath(trade, path')
       IN  ~ Refused(trade, path) /\ ~ Refused(trade, path') =>
            /\ before.verdict.result # "OPEN" => after.verdict = before.verdict
            /\ after.mae <= before.mae /\ before.mfe <= after.mfe]_pathVars

=============================================================================
