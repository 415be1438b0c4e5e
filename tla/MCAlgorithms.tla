---------------------------- MODULE MCAlgorithms ----------------------------
(***************************************************************************)
(* The three pure parts in one run: a behaviour lets a year go by and asks   *)
(* the calendar at every tick, or lets a price path grow and asks for its     *)
(* verdict at every price, or lets a scan find one candidate after another   *)
(* and ranks them.                                                          *)
(*                                                                         *)
(* The years are the first in which the exchange has all ten holidays and     *)
(* more than a full cycle of week-days after them, the century without a      *)
(* leap day included.                                                       *)
(***************************************************************************)
EXTENDS MarketCalendar, ForwardTest, SniperRanking, TLC

CONSTANTS daily, midday

MCYears == 2022 .. 2052 \union 2098 .. 2104
MCScans == {daily, midday}
MCTimes == (daily :> 1) @@ (midday :> 2)

\* Two trades and every way to write one that is refused.
MCTrades ==
    {[entry |-> 4, stop |-> 3, target |-> 6], [entry |-> 4, stop |-> 2, target |-> 5],
     [entry |-> 4, stop |-> 4, target |-> 6], [entry |-> 4, stop |-> 3, target |-> 4]}

\* Around the A+ floor, with and without the deduction, and one refused.
MCEvidence ==
    {[sum |-> n, extended |-> FALSE, reasons |-> {}] : n \in {8499, 8500, 9000}}
    \union {[sum |-> n, extended |-> TRUE, reasons |-> {}] : n \in {9000, 9500, 10000}}
    \union {[sum |-> 10000, extended |-> FALSE, reasons |-> {"DATA_NOT_VERIFIED"}]}

VARIABLE part

Init ==
    /\ CalendarInit /\ PathInit /\ RankingInit
    /\ part \in {"calendar", "path", "ranking"}
    \* A part that rests has one value.
    /\ part # "calendar" => year = 2022 /\ enabled = {}
    /\ part # "path" => trade = [entry |-> 4, stop |-> 3, target |-> 6]

Next ==
    \/ part = "calendar" /\ CalendarTick /\ UNCHANGED <<part, pathVars, candidates>>
    \/ part = "path" /\ Observe /\ UNCHANGED <<part, calendarVars, candidates>>
    \/ part = "ranking" /\ Discover /\ UNCHANGED <<part, calendarVars, pathVars>>

Spec == Init /\ [][Next]_<<part, calendarVars, pathVars, candidates>>

=============================================================================
