-------------------------- MODULE MCQualification --------------------------
(***************************************************************************)
(* Instances of Qualification for TLC: two symbols, one of them spelled in    *)
(* two ways, and plans with repetitions and blanks.  A payload is complete    *)
(* or has one field of one quality changed; fields that are treated alike     *)
(* are represented by one of them.                                          *)
(***************************************************************************)
EXTENDS Qualification, TLC

CONSTANTS A, a, B, space, none

MCSpellings == {A, a, B, space}
MCNormal == (A :> A) @@ (a :> A) @@ (B :> B) @@ (space :> none)
MCPlans == {<<>>, <<space>>, <<a, B, A>>, <<B, space, a>>, <<A, a>>}

MCGood == [f \in Fields |-> "ok"]
MCPayloads ==
    {MCGood}
    \union {[MCGood EXCEPT !["last_price"] = q] : q \in {"none", "nan", "low"}}
    \union {[MCGood EXCEPT !["adv_shares"] = q] : q \in {"none", "nan", "low"}}
    \union {[MCGood EXCEPT !["relative_strength"] = "low"],
            [MCGood EXCEPT !["latency_ms"] = "none"], [MCGood EXCEPT !["latency_ms"] = "low"]}

=============================================================================
