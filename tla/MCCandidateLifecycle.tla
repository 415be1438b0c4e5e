------------------------ MODULE MCCandidateLifecycle ------------------------
(***************************************************************************)
(* Instances of CandidateLifecycle for TLC.  Scores are one per band, the     *)
(* smallest that is in it; the levels put the stop, the trigger, the last     *)
(* price and the target in every order around the gates; one number after   *)
(* another is infinite or NaN.                                              *)
(***************************************************************************)
EXTENDS CandidateLifecycle, TLC

MCScan == [score |-> 90, trigger |-> TRUE, entry |-> 10, stop |-> 7, target |-> 16,
           last |-> 10, verified |-> TRUE, liquid |-> TRUE]
MCAccount == [equity |-> 300, heat |-> 0, loss |-> 0, exceptional |-> FALSE]

\* Every band with and without trigger, and a good scan with one thing changed:
\* a level missing or at its gate, the last price, the data or the liquidity.
MCScans ==
    {[MCScan EXCEPT !.score = n, !.trigger = t] : n \in {0, 65, 74, 82, 90}, t \in BOOLEAN}
    \union {[MCScan EXCEPT !.entry = p] : p \in {None, 2}}
    \union {[MCScan EXCEPT !.stop = p] : p \in {None, 0, 10}}
    \union {[MCScan EXCEPT !.target = p] : p \in {None, 9, 15}}
    \union {[MCScan EXCEPT !.last = p] : p \in {None, 11}}
    \union {[MCScan EXCEPT !.verified = FALSE], [MCScan EXCEPT !.liquid = FALSE],
             [MCScan EXCEPT !.entry = 20, !.stop = 17, !.target = 27]}

\* The good scan with a number in it that is none, or with a score out of range.
MCOddScans ==
    {[MCScan EXCEPT !.score = n] : n \in {None, NaN}}
    \union {[MCScan EXCEPT !.entry = p, !.target = NaN] : p \in {NaN, PosInf}}
    \union {[MCScan EXCEPT !.stop = p] : p \in {NaN, NegInf}}
    \union {[MCScan EXCEPT !.target = p] : p \in {NaN, PosInf}}
    \union {[MCScan EXCEPT !.last = p] : p \in {NaN, PosInf}}
    \union {[MCScan EXCEPT !.last = NaN, !.verified = FALSE]}

MCAllScans == MCScans \union MCOddScans

\* Around every limit: 3 is the distance of the stop; 1% of 300 buys one share.
MCRoundAccounts ==
    [equity : {0, 299, 300}, heat : {0}, loss : {0, 9}, exceptional : {FALSE}]
    \union [equity : {300, 700}, heat : {12, 13}, loss : {8}, exceptional : BOOLEAN]

MCOddAccounts ==
    {[MCAccount EXCEPT !.equity = e] : e \in {NaN, PosInf, NegInf}}
    \union {[MCAccount EXCEPT !.equity = PosInf, !.heat = PosInf]}
    \union {[MCAccount EXCEPT !.heat = h] : h \in {NaN, NegInf}}
    \union {[MCAccount EXCEPT !.loss = NaN]}

MCAccounts == MCRoundAccounts \union MCOddAccounts

\* One scan for each end of process, with columns that differ from each other.
MCFewScans == {
    MCScan, [MCScan EXCEPT !.verified = FALSE], [MCScan EXCEPT !.entry = 9],
    [MCScan EXCEPT !.entry = 20, !.stop = 17, !.target = 27],
    [MCScan EXCEPT !.score = 60, !.trigger = FALSE], [MCScan EXCEPT !.score = 65],
    [MCScan EXCEPT !.score = 82, !.trigger = FALSE, !.entry = None]}
MCOneAccount == {MCAccount}
MCSymmetry == Permutations(Requests)

\* What the worker evaluates beside a request: two scans that end TRADE_READY, one
\* that stays DISCOVERED, one with a NaN level from the plan, and one whose quote was
\* not verified for a NaN in it.
MCScanInputs == {
    MCScan, [MCScan EXCEPT !.entry = 20, !.stop = 17, !.target = 27],
    [MCScan EXCEPT !.score = 65, !.trigger = FALSE],
    [MCScan EXCEPT !.target = NaN],
    [MCScan EXCEPT !.last = NaN, !.verified = FALSE]}

=============================================================================
