------------------------------- MODULE Floats -------------------------------
(***************************************************************************)
(* Python's floats, as far as the gates can tell them apart: a finite number *)
(* is an integer count of a small unit, beside it are the two infinities and *)
(* NaN.  Every comparison with NaN is false.  Rounding and overflow of finite *)
(* numbers are left out.                                                    *)
(***************************************************************************)
EXTENDS Integers

CONSTANTS NaN, PosInf, NegInf

ASSUME FloatAssumption ==
    /\ NaN \notin Int /\ PosInf \notin Int /\ NegInf \notin Int
    /\ NaN # PosInf /\ NaN # NegInf /\ PosInf # NegInf

Float == Int \union {NaN, PosInf, NegInf}

\* a < b
Less(a, b) ==
    /\ NaN \notin {a, b} /\ a # b
    /\ a = NegInf \/ b = PosInf \/ (a \in Int /\ b \in Int /\ a < b)

\* a <= b
AtMost(a, b) == Less(a, b) \/ (a = b /\ a # NaN)

\* a - b
Minus(a, b) ==
    IF a \in Int /\ b \in Int THEN a - b
    ELSE IF NaN \in {a, b} \/ a = b THEN NaN
    ELSE IF a = PosInf \/ b = NegInf THEN PosInf
    ELSE NegInf

\* k * a, for a positive integer k
Times(k, a) == IF a \in Int THEN k * a ELSE a

\* min(a, b) and max(a, b): the first argument, unless the second compares better.
PyMin(a, b) == IF Less(b, a) THEN b ELSE a
PyMax(a, b) == IF Less(a, b) THEN b ELSE a

=============================================================================
