---------------------- MODULE CandidateLifecycleProofs ----------------------
(***************************************************************************)
(* Theorems about CandidateLifecycle, for every policy whose bands are in     *)
(* order, every scan, every account and any number of callers.              *)
(***************************************************************************)
EXTENDS CandidateLifecycle, SequenceTheorems, FiniteSetTheorems, TLAPS

-----------------------------------------------------------------------------
(* Comparisons of floats                                                   *)

\* Among finite numbers they are those of the integers.
LEMMA FiniteOrder ==
    ASSUME NEW a \in Int, NEW b \in Int
    PROVE  (Less(a, b) <=> a < b) /\ (AtMost(a, b) <=> a <= b)
BY FloatAssumption DEF Less, AtMost

\* Two floats that are numbers, infinite or not, are in order.
LEMMA TotalOrder ==
    ASSUME NEW a \in Float \ {NaN}, NEW b \in Float \ {NaN}
    PROVE  (~ AtMost(a, b) => Less(b, a)) /\ (~ Less(a, b) => AtMost(b, a))
BY FloatAssumption DEF Float, Less, AtMost

LEMMA AtMostWeaken ==
    ASSUME NEW h, NEW b \in Int, NEW c \in Int, b <= c, AtMost(h, b)
    PROVE  AtMost(h, c)
BY FloatAssumption DEF Less, AtMost

\* A finite difference is one of finite numbers.
LEMMA FiniteMinus ==
    ASSUME NEW a, NEW b, Minus(a, b) \in Int
    PROVE  a \in Int /\ b \in Int /\ Minus(a, b) = a - b
BY FloatAssumption DEF Minus

\* A score is a number, or it is in no band.
LEMMA Bands ==
    ASSUME NEW s \in Input
    PROVE  /\ Scored(s, ArmedMin) => Scored(s, WatchMin) /\ s.score \in Nat
           /\ Scored(s, WatchMin) => ~ Less(s.score, DiscoveryMin)
<1>1. /\ {DiscoveryMin, WatchMin, ArmedMin} \subseteq Nat
      /\ DiscoveryMin <= WatchMin /\ WatchMin <= ArmedMin
  BY PolicyAssumption
<1>2. CASE s.score \in Nat
  BY <1>1, <1>2, FiniteOrder DEF Scored
<1>3. CASE s.score \notin Nat
  <2>1. s.score = NaN \/ s.score = None
    BY <1>3 DEF Input, Score
  <2>2. None \notin Int /\ None # PosInf /\ None # NegInf /\ None # NaN
    BY CallerAssumption DEF Float
  <2> QED BY <1>1, <2>1, <2>2, FloatAssumption DEF Scored, AtMost, Less
<1> QED BY <1>2, <1>3

-----------------------------------------------------------------------------
(* process asks only for moves the state machine allows                    *)

\* Two sequences end to end, element by element.
LEMMA OneAndOne ==
    ASSUME NEW a, NEW b
    PROVE  <<a>> \o <<b>> = <<a, b>>
<1> DEFINE S == {a, b}
           k == <<a>>
           m == <<b>>
           n == <<a, b>>
           z == k \o m
<1>1. k \in Seq(S) /\ Len(k) = 1 /\ k[1] = a
  OBVIOUS
<1>2. m \in Seq(S) /\ Len(m) = 1 /\ m[1] = b
  OBVIOUS
<1>3. n \in Seq(S) /\ Len(n) = 2 /\ n[1] = a /\ n[2] = b
  OBVIOUS
<1> HIDE DEF S, k, m, n
<1>4. /\ z \in Seq(S) /\ Len(z) = Len(k) + Len(m)
      /\ \A i \in 1 .. Len(k) + Len(m) : z[i] = IF i <= Len(k) THEN k[i] ELSE m[i - Len(k)]
  BY <1>1, <1>2, ConcatProperties
<1> HIDE DEF z
<1>5. Len(z) = 2
  BY <1>1, <1>2, <1>4
<1>6. z[1] = n[1] /\ z[2] = n[2]
  BY <1>1, <1>2, <1>3, <1>4
<1>7. \A i \in 1 .. 2 : i = 1 \/ i = 2
  OBVIOUS
<1>8. \A i \in 1 .. 2 : z[i] = n[i]
  BY <1>6, <1>7
<1>9. z = n
  BY <1>3, <1>4, <1>5, <1>8, SeqEqual
<1> QED BY <1>9 DEF k, m, n, z

LEMMA OneAndThree ==
    ASSUME NEW a, NEW b, NEW c, NEW d
    PROVE  <<a>> \o <<b, c, d>> = <<a, b, c, d>>
<1> DEFINE S == {a, b, c, d}
           k == <<a>>
           m == <<b, c, d>>
           n == <<a, b, c, d>>
           z == k \o m
<1>1. k \in Seq(S) /\ Len(k) = 1 /\ k[1] = a
  OBVIOUS
<1>2. m \in Seq(S) /\ Len(m) = 3 /\ m[1] = b /\ m[2] = c /\ m[3] = d
  OBVIOUS
<1>3. n \in Seq(S) /\ Len(n) = 4 /\ n[1] = a /\ n[2] = b /\ n[3] = c /\ n[4] = d
  OBVIOUS
<1> HIDE DEF S, k, m, n
<1>4. /\ z \in Seq(S) /\ Len(z) = Len(k) + Len(m)
      /\ \A i \in 1 .. Len(k) + Len(m) : z[i] = IF i <= Len(k) THEN k[i] ELSE m[i - Len(k)]
  BY <1>1, <1>2, ConcatProperties
<1> HIDE DEF z
<1>5. Len(z) = 4
  BY <1>1, <1>2, <1>4
<1>6. z[1] = n[1] /\ z[2] = n[2] /\ z[3] = n[3] /\ z[4] = n[4]
  BY <1>1, <1>2, <1>3, <1>4
<1>7. \A i \in 1 .. 4 : i = 1 \/ i = 2 \/ i = 3 \/ i = 4
  OBVIOUS
<1>8. \A i \in 1 .. 4 : z[i] = n[i]
  BY <1>6, <1>7
<1>9. z = n
  BY <1>3, <1>4, <1>5, <1>8, SeqEqual
<1> QED BY <1>9 DEF k, m, n, z

\* The ends of process: rejected, armed and triggered, or neither.
LEMMA MovesBy ==
    ASSUME NEW s \in Input, NEW a \in Account
    PROVE  /\ Less(s.score, DiscoveryMin) => ~ Armed(s) /\ Moves(s, a) = <<"REJECTED">>
           /\ ~ Less(s.score, DiscoveryMin) /\ ~ Armed(s) =>
                Moves(s, a) \in {<<>>, <<"WATCH">>, <<"WATCH", "NEAR_TRIGGER">>}
           /\ Armed(s) =>
                Moves(s, a) =
                  <<"WATCH", "ARMED", "TRIGGERED",
                    IF GateReasons(s, a) # {} THEN "INVALIDATED" ELSE "TRADE_READY">>
<1> DEFINE g == IF GateReasons(s, a) # {} THEN "INVALIDATED" ELSE "TRADE_READY"
           low == Less(s.score, DiscoveryMin)
           watch == Scored(s, WatchMin)
           top == Scored(s, ArmedMin)
<1>1. (top => watch) /\ (watch => ~ low) /\ (Armed(s) <=> top /\ s.trigger)
  BY Bands DEF Armed
<1>2. Moves(s, a) =
        IF low THEN <<"REJECTED">>
        ELSE (IF watch THEN <<"WATCH">> ELSE <<>>)
             \o (IF top /\ ~ s.trigger THEN <<"NEAR_TRIGGER">> ELSE <<>>)
             \o (IF ~ Armed(s) THEN <<>> ELSE <<"ARMED", "TRIGGERED", g>>)
  BY DEF Moves
<1>3. <<>> \o <<>> \o <<>> = <<>> /\ <<"WATCH">> \o <<>> = <<"WATCH">>
  OBVIOUS
<1>4. <<"WATCH">> \o <<"NEAR_TRIGGER">> = <<"WATCH", "NEAR_TRIGGER">>
      /\ <<"WATCH", "NEAR_TRIGGER">> \o <<>> = <<"WATCH", "NEAR_TRIGGER">>
  BY OneAndOne
<1>5. <<"WATCH">> \o <<"ARMED", "TRIGGERED", g>> = <<"WATCH", "ARMED", "TRIGGERED", g>>
  BY OneAndThree
<1> HIDE DEF g, low, watch, top
<1>6. low => ~ Armed(s) /\ Moves(s, a) = <<"REJECTED">>
  BY <1>1, <1>2, Zenon
<1>7. ~ low /\ ~ watch => ~ Armed(s) /\ Moves(s, a) = <<>>
  BY <1>1, <1>2, <1>3, Zenon
<1>8. watch /\ ~ top => ~ Armed(s) /\ Moves(s, a) = <<"WATCH">>
  BY <1>1, <1>2, <1>3, Zenon
<1>9. top /\ ~ s.trigger => ~ Armed(s) /\ Moves(s, a) = <<"WATCH", "NEAR_TRIGGER">>
  BY <1>1, <1>2, <1>4, Zenon
<1>10. Armed(s) => Moves(s, a) = <<"WATCH", "ARMED", "TRIGGERED", g>>
  BY <1>1, <1>2, <1>3, <1>5, Zenon
<1> QED BY <1>1, <1>6, <1>7, <1>8, <1>9, <1>10, Zenon DEF g, low, watch, top

LEMMA MovesAre ==
    ASSUME NEW s \in Input, NEW a \in Account
    PROVE  Moves(s, a) \in
            {<<>>, <<"REJECTED">>, <<"WATCH">>, <<"WATCH", "NEAR_TRIGGER">>,
             <<"WATCH", "ARMED", "TRIGGERED",
               IF GateReasons(s, a) # {} THEN "INVALIDATED" ELSE "TRADE_READY">>}
BY MovesBy, Zenon

\* The ends of a scan that a gate refuses.
LEMMA MovesAreRefused ==
    ASSUME NEW s \in Input, NEW a \in Account, GateReasons(s, a) # {}
    PROVE  Moves(s, a) \in
            {<<>>, <<"REJECTED">>, <<"WATCH">>, <<"WATCH", "NEAR_TRIGGER">>,
             <<"WATCH", "ARMED", "TRIGGERED", "INVALIDATED">>}
BY MovesAre

LEMMA MovesAreLegal ==
    ASSUME NEW s \in Input, NEW a \in Account
    PROVE  LegalMoves(Moves(s, a))
<1>1. /\ can_transition("DISCOVERED", "REJECTED") /\ can_transition("DISCOVERED", "WATCH")
      /\ can_transition("WATCH", "NEAR_TRIGGER") /\ can_transition("WATCH", "ARMED")
      /\ can_transition("ARMED", "TRIGGERED") /\ can_transition("TRIGGERED", "INVALIDATED")
      /\ can_transition("TRIGGERED", "TRADE_READY")
  BY DEF can_transition, ALLOWED_TRANSITIONS
<1>2. LegalMoves(<<>>) /\ LegalMoves(<<"REJECTED">>) /\ LegalMoves(<<"WATCH">>)
  BY <1>1 DEF LegalMoves, Before
<1>3. LegalMoves(<<"WATCH", "NEAR_TRIGGER">>)
  BY <1>1 DEF LegalMoves, Before
<1>4. ASSUME NEW g \in {"INVALIDATED", "TRADE_READY"}
      PROVE  LegalMoves(<<"WATCH", "ARMED", "TRIGGERED", g>>)
  <2> DEFINE m == <<"WATCH", "ARMED", "TRIGGERED", g>>
  <2>1. DOMAIN m = 1..4 /\ m[1] = "WATCH" /\ m[2] = "ARMED" /\ m[3] = "TRIGGERED" /\ m[4] = g
    OBVIOUS
  <2> HIDE DEF m
  <2>2. \A i \in DOMAIN m : i = 1 \/ i = 2 \/ i = 3 \/ i = 4
    BY <2>1
  <2>3. LegalMoves(m)
    BY <1>1, <1>4, <2>1, <2>2 DEF LegalMoves, Before
  <2> QED BY <2>3 DEF m
<1> QED BY <1>2, <1>3, <1>4, MovesAre

-----------------------------------------------------------------------------
(* A sizing stays within the limits of the account                         *)

LEMMA QuotientBound ==
    ASSUME NEW b \in Int, NEW k \in Nat \ {0}
    PROVE  b \div k \in Int /\ k * (b \div k) <= b
OBVIOUS

\* What is left of the heat limit, no less than nothing.
Room(a) == PyMax(0, Minus(Times(MaxHeatPct, a.equity), Times(100, a.heat)))

\* The budget of a finite equity is finite, and what of it can be spent leaves the
\* heat within its limit.
LEMMA FiniteBudget ==
    ASSUME NEW a \in Account, a.equity \in Int
    PROVE  /\ Budget(a) \in Int
           /\ Budget(a) <= RiskPct(a) * a.equity
           /\ Budget(a) >= 1 => AtMost(Times(100, a.heat), MaxHeatPct * a.equity - Budget(a))
<1> DEFINE x == RiskPct(a) * a.equity
           y == MaxHeatPct * a.equity
           h == Times(100, a.heat)
<1>1. x \in Int /\ y \in Int
  BY PolicyAssumption DEF RiskPct
<1>2. h \in Float
  BY DEF Account, Float, Times
<1>3. Room(a) = PyMax(0, Minus(y, h)) /\ Budget(a) = PyMin(x, Room(a))
  BY DEF Room, Budget, Times
<1> HIDE DEF x, y, h
<1>4. CASE h \in Int
  <2>1. Minus(y, h) = y - h /\ y - h \in Int
    BY <1>1, <1>4 DEF Minus
  <2>2. Room(a) = IF 0 < y - h THEN y - h ELSE 0
    BY <1>3, <2>1, FiniteOrder DEF PyMax
  <2>3. Room(a) \in Int
    BY <2>1, <2>2
  <2>4. Budget(a) = IF Room(a) < x THEN Room(a) ELSE x
    BY <1>1, <1>3, <2>3, FiniteOrder DEF PyMin
  <2>5. Budget(a) \in Int /\ Budget(a) <= x /\ (Budget(a) >= 1 => h <= y - Budget(a))
    BY <1>1, <1>4, <2>2, <2>3, <2>4
  <2>6. Budget(a) >= 1 => AtMost(h, y - Budget(a))
    BY <1>1, <1>4, <2>5, FiniteOrder
  <2> QED BY <2>5, <2>6 DEF x, y, h
<1>5. CASE h = NaN \/ h = PosInf
  <2>1. Minus(y, h) \in {NaN, NegInf}
    BY <1>1, <1>5, FloatAssumption DEF Minus
  <2>2. Room(a) = 0
    BY <1>3, <2>1, FloatAssumption DEF PyMax, Less
  <2>3. Budget(a) = IF 0 < x THEN 0 ELSE x
    BY <1>1, <1>3, <2>2, FiniteOrder DEF PyMin
  <2> QED BY <1>1, <2>3 DEF x, y, h
<1>6. CASE h = NegInf
  <2>1. Minus(y, h) = PosInf
    BY <1>1, <1>6, FloatAssumption DEF Minus
  <2>2. Room(a) = PosInf
    BY <1>3, <2>1, FloatAssumption DEF PyMax, Less
  <2>3. Budget(a) = x
    BY <1>1, <1>3, <2>2, FloatAssumption DEF PyMin, Less
  <2>4. AtMost(h, y - x)
    BY <1>1, <1>6, FloatAssumption DEF AtMost, Less
  <2> QED BY <1>1, <2>3, <2>4 DEF x, y, h
<1> QED BY <1>2, <1>4, <1>5, <1>6 DEF Float

\* No share is bought from the budget of an equity that is no finite number.
LEMMA OddBudget ==
    ASSUME NEW a \in Account, a.equity \notin Int
    PROVE  Budget(a) \notin Int \/ Budget(a) = 0
<1>1. Times(RiskPct(a), a.equity) = a.equity /\ Times(MaxHeatPct, a.equity) = a.equity
  BY DEF Times
<1>2. Budget(a) = PyMin(a.equity, Room(a))
  BY <1>1 DEF Budget, Room
<1>3. a.equity \in {NaN, PosInf, NegInf} /\ Times(100, a.heat) \in Float
  BY DEF Account, Float, Times
<1>4. CASE a.equity = NaN \/ a.equity = NegInf
  BY <1>2, <1>4, FloatAssumption DEF PyMin, Less
<1>5. CASE a.equity = PosInf
  <2>1. Minus(PosInf, Times(100, a.heat)) \in {NaN, PosInf}
    BY <1>3, FloatAssumption DEF Minus, Float
  <2>2. Room(a) = PyMax(0, Minus(PosInf, Times(100, a.heat)))
    BY <1>1, <1>5, Zenon DEF Room
  <2>3. Room(a) \in {0, PosInf}
    BY <2>1, <2>2 DEF PyMax, Less
  <2> QED BY <1>2, <1>5, <2>3, FloatAssumption DEF PyMin, Less
<1> QED BY <1>3, <1>4, <1>5

\* Without a finite equity and a finite distance to the stop nothing is bought.
LEMMA SharesTyped ==
    ASSUME NEW s \in Input, NEW a \in Account
    PROVE  /\ Shares(s, a) \in Int
           /\ Shares(s, a) >= 1 =>
                /\ a.equity \in Int /\ Risk(s) \in Nat \ {0}
                /\ (100 * Risk(s)) * Shares(s, a) <= Budget(a)
<1>1. CASE Risk(s) \in Int /\ 0 < Risk(s) /\ Budget(a) \in Int
  <2>1. Shares(s, a) = Budget(a) \div (100 * Risk(s)) /\ 100 * Risk(s) \in Nat \ {0}
    BY <1>1 DEF Shares
  <2>2. Shares(s, a) \in Int /\ (100 * Risk(s)) * Shares(s, a) <= Budget(a)
    BY <1>1, <2>1, QuotientBound
  <2>3. a.equity \notin Int => Shares(s, a) = 0
    <3> SUFFICES ASSUME a.equity \notin Int PROVE Shares(s, a) = 0
      OBVIOUS
    <3>1. Budget(a) = 0
      BY <1>1, OddBudget
    <3> QED BY <2>1, <3>1
  <2> QED BY <1>1, <2>2, <2>3
<1>2. CASE ~ (Risk(s) \in Int /\ 0 < Risk(s) /\ Budget(a) \in Int)
  <2>1. Shares(s, a) = 0
    BY <1>2, Zenon DEF Shares
  <2> QED BY <2>1
<1> QED BY <1>1, <1>2

\* floor(budget / stop distance) shares risk no more than the budget.
LEMMA SizeBound ==
    ASSUME NEW s \in Input, NEW a \in Account, RiskReasons(s, a) = {}
    PROVE  /\ Shares(s, a) \in Int /\ Shares(s, a) * Risk(s) \in Int
           /\ Sized([event |-> "TRADE_READY", from |-> "TRADE_READY", to |-> "TRADE_READY",
                     shares |-> Shares(s, a), risk |-> Shares(s, a) * Risk(s)], a)
<1> DEFINE d == Risk(s)
           n == Shares(s, a)
           x == RiskPct(a) * a.equity
           y == MaxHeatPct * a.equity
           h == Times(100, a.heat)
<1>1. ~ (n < 1) /\ ~ AtMost(Times(DailyLossPct, a.equity), Times(100, a.loss))
  BY DEF RiskReasons
<1>2. n \in Int /\ n >= 1 /\ a.equity \in Int /\ d \in Nat \ {0} /\ (100 * d) * n <= Budget(a)
  BY <1>1, SharesTyped
<1>3. x \in Int /\ y \in Int /\ DailyLossPct * a.equity \in Int
  BY <1>2, PolicyAssumption DEF RiskPct
<1>4. /\ Budget(a) \in Int /\ Budget(a) <= x
      /\ Budget(a) >= 1 => AtMost(h, y - Budget(a))
  BY <1>2, FiniteBudget
<1>5. a.loss # NaN => Less(Times(100, a.loss), DailyLossPct * a.equity)
  <2> SUFFICES ASSUME a.loss # NaN PROVE Less(Times(100, a.loss), DailyLossPct * a.equity)
    OBVIOUS
  <2>1. Times(100, a.loss) \in Float \ {NaN}
    BY FloatAssumption DEF Account, Float, Times
  <2>2. Times(DailyLossPct, a.equity) = DailyLossPct * a.equity
    BY <1>2 DEF Times
  <2>3. DailyLossPct * a.equity \in Float \ {NaN}
    BY <1>3, FloatAssumption DEF Float
  <2> QED BY <1>1, <2>1, <2>2, <2>3, TotalOrder
<1> HIDE DEF d, n, x, y, h
<1>6. n * d \in Int /\ 100 * (n * d) <= Budget(a) /\ n * d >= 1
  <2>1. n * d \in Int /\ (100 * d) * n = 100 * (n * d)
    BY <1>2
  <2>2. n * d >= 1
    BY <1>2
  <2> QED BY <1>2, <2>1, <2>2
<1>7. 100 * (n * d) <= x
  BY <1>3, <1>4, <1>6
<1>8. AtMost(h, y - 100 * (n * d))
  <2>1. AtMost(h, y - Budget(a))
    BY <1>4, <1>6
  <2>2. /\ y - Budget(a) \in Int /\ y - 100 * (n * d) \in Int
        /\ y - Budget(a) <= y - 100 * (n * d)
    BY <1>3, <1>4, <1>6
  <2> QED BY <2>1, <2>2, AtMostWeaken
<1> QED BY <1>2, <1>5, <1>6, <1>7, <1>8 DEF Sized, d, n, x, y, h

\* An evaluation ends TRADE_READY only when both gates had nothing to say.
LEMMA ReadyPassedGates ==
    ASSUME NEW s \in Input, NEW a \in Account, Final(Moves(s, a)) = "TRADE_READY"
    PROVE  ExecutionReasons(s) = {} /\ RiskReasons(s, a) = {}
<1> SUFFICES ASSUME GateReasons(s, a) # {} PROVE FALSE
  BY DEF GateReasons
<1>1. Moves(s, a) \in
        {<<>>, <<"REJECTED">>, <<"WATCH">>, <<"WATCH", "NEAR_TRIGGER">>,
         <<"WATCH", "ARMED", "TRIGGERED", "INVALIDATED">>}
  BY MovesAreRefused
<1>2. /\ Final(<<>>) = "DISCOVERED" /\ Final(<<"REJECTED">>) = "REJECTED"
      /\ Final(<<"WATCH">>) = "WATCH"
  BY DEF Final, Before
<1>3. Final(<<"WATCH", "NEAR_TRIGGER">>) = "NEAR_TRIGGER"
  BY DEF Final, Before
<1>4. Final(<<"WATCH", "ARMED", "TRIGGERED", "INVALIDATED">>) = "INVALIDATED"
  BY DEF Final, Before
<1> QED BY <1>1, <1>2, <1>3, <1>4

EventRows ==
    [event : {"STATE_TRANSITION", "TRADE_READY", "CANDIDATE_QUALIFIED"},
     from : States, to : States, shares : Int, risk : Int]
SizedRows(a) == {row \in EventRows : Sized(row, a)}

LEMMA MovesAreStates ==
    ASSUME NEW s \in Input, NEW a \in Account
    PROVE  /\ Moves(s, a) \in Seq(States)
           /\ \A i \in 1 .. Len(Moves(s, a)) + 1 : Before(Moves(s, a), i) \in States
<1>1. {"DISCOVERED", "REJECTED", "WATCH", "NEAR_TRIGGER", "ARMED", "TRIGGERED", "INVALIDATED",
       "TRADE_READY"} \subseteq States
  BY DEF States, ALLOWED_TRANSITIONS
<1> DEFINE m == Moves(s, a)
<1>2. m \in Seq(States)
  <2>1. <<>> \in Seq(States) /\ <<"REJECTED">> \in Seq(States) /\ <<"WATCH">> \in Seq(States)
    BY <1>1
  <2>2. <<"WATCH", "NEAR_TRIGGER">> \in Seq(States)
    BY <1>1
  <2>3. ASSUME NEW g \in {"INVALIDATED", "TRADE_READY"}
        PROVE  <<"WATCH", "ARMED", "TRIGGERED", g>> \in Seq(States)
    BY <1>1, <2>3
  <2> QED BY <2>1, <2>2, <2>3, MovesAre
<1> HIDE DEF m
<1>3. \A i \in 1 .. Len(m) + 1 : Before(m, i) \in States
  BY <1>1, <1>2 DEF Before
<1> QED BY <1>2, <1>3 DEF m

LEMMA LedgerIsSized ==
    ASSUME NEW s \in Input, NEW a \in Account
    PROVE  LedgerOf(s, a) \in Seq(SizedRows(a)) /\ Qualified(s, a) \in Seq(SizedRows(a))
<1> DEFINE moves == Moves(s, a)
           size == Shares(s, a)
           f == [i \in DOMAIN moves |->
                    [event |-> "STATE_TRANSITION", from |-> Before(moves, i), to |-> moves[i],
                     shares |-> 0, risk |-> 0]]
           ready == [event |-> "TRADE_READY", from |-> "TRADE_READY", to |-> "TRADE_READY",
                     shares |-> size, risk |-> size * Risk(s)]
           row == [event |-> "CANDIDATE_QUALIFIED", from |-> Final(moves), to |-> Final(moves),
                   shares |-> 0, risk |-> 0]
<1>1. moves \in Seq(States) /\ \A i \in 1 .. Len(moves) + 1 : Before(moves, i) \in States
  BY MovesAreStates
<1>2. f \in Seq(SizedRows(a))
  <2> HIDE DEF moves
  <2>1. \A i \in 1 .. Len(moves) : f[i] \in SizedRows(a)
    BY <1>1 DEF SizedRows, EventRows, Sized
  <2>2. f \in [1 .. Len(moves) -> SizedRows(a)] /\ Len(moves) \in Nat
    <3>1. DOMAIN moves = 1 .. Len(moves) /\ Len(moves) \in Nat
      BY <1>1
    <3>2. f = [i \in 1 .. Len(moves) |-> f[i]]
      BY <3>1
    <3> HIDE DEF f
    <3> QED BY <2>1, <3>1, <3>2
  <2> HIDE DEF f
  <2> QED BY <2>2, SeqDef
<1>3. ASSUME Final(moves) = "TRADE_READY" PROVE ready \in SizedRows(a)
  <2>1. RiskReasons(s, a) = {}
    BY <1>3, ReadyPassedGates
  <2>2. Sized(ready, a)
    BY <2>1, SizeBound
  <2>3. size \in Int /\ size * Risk(s) \in Int
    BY <2>1, SizeBound
  <2>4. "TRADE_READY" \in States
    BY DEF States, ALLOWED_TRANSITIONS
  <2>5. ready \in EventRows
    BY <2>3, <2>4 DEF EventRows
  <2> QED BY <2>2, <2>5 DEF SizedRows
<1>4. LedgerOf(s, a) = f \o (IF Final(moves) = "TRADE_READY" THEN <<ready>> ELSE <<>>)
  BY DEF LedgerOf
<1>5. LedgerOf(s, a) \in Seq(SizedRows(a))
  <2> HIDE DEF f, ready, moves
  <2>1. CASE Final(moves) = "TRADE_READY"
    BY <1>2, <1>3, <1>4, <2>1
  <2>2. CASE Final(moves) # "TRADE_READY"
    BY <1>2, <1>4, <2>2
  <2> QED BY <2>1, <2>2
<1>6. Qualified(s, a) \in Seq(SizedRows(a))
  <2>1. Final(moves) \in States
    BY <1>1 DEF Final
  <2>2. row \in SizedRows(a)
    BY <2>1 DEF SizedRows, EventRows, Sized
  <2>3. Qualified(s, a) = <<row>>
    BY DEF Qualified
  <2> QED BY <2>2, <2>3
<1> QED BY <1>5, <1>6

-----------------------------------------------------------------------------
(* The invariant: what is pending or audited was sized for the caller's own   *)
(* account, which does not change once the caller has started.               *)

LedgerInv ==
    /\ pc \in [Callers -> {"idle", "raised", "load", "flush", "append", "done"}]
    /\ input \in [Callers -> [scan : Inputs \union {None},
                              account : Accounts \union {WorkerAccount, None}]]
    /\ pending \in [Callers -> Seq(EventRows)]
    /\ \A c \in Callers : pending[c] \in Seq(SizedRows(input[c].account))
    /\ \A r \in audit :
        /\ r.by \in Callers /\ pc[r.by] # "idle"
        /\ r.row \in SizedRows(input[r.by].account)

LEMMA LedgerInit == Init => LedgerInv
<1> SUFFICES ASSUME Init PROVE LedgerInv
  OBVIOUS
<1>1. NoInput \in [scan : Inputs \union {None}, account : Accounts \union {WorkerAccount, None}]
  BY DEF NoInput
<1> QED BY <1>1 DEF Init, LedgerInv

LEMMA LedgerStep == LedgerInv /\ [Next]_vars => LedgerInv'
<1> SUFFICES ASSUME LedgerInv, [Next]_vars PROVE LedgerInv'
  OBVIOUS
<1>1. CASE UNCHANGED vars
  BY <1>1 DEF vars, LedgerInv
<1>2. ASSUME NEW c \in Callers, Evaluate(c) PROVE LedgerInv'
  <2>1. PICK s \in Inputs, a \in IF c \in Scans THEN {WorkerAccount} ELSE Accounts :
          /\ input' = [input EXCEPT ![c] = [scan |-> s, account |-> a]]
          /\ pc' = [pc EXCEPT ![c] = IF Raises(s, a) \/ ~ LegalMoves(Moves(s, a))
                                     THEN "raised" ELSE "load"]
          /\ pending' = [pending EXCEPT ![c] =
                          IF c \in Scans THEN Qualified(s, a) ELSE LedgerOf(s, a)]
    BY <1>2, ScanInputAssumption DEF Evaluate
  <2>2. s \in Input /\ a \in Account /\ a \in Accounts \union {WorkerAccount, None}
    BY CallerAssumption
  <2>3. \E p \in {"load", "raised"} : pc' = [pc EXCEPT ![c] = p]
    BY <2>1
  <2> DEFINE q == IF c \in Scans THEN Qualified(s, a) ELSE LedgerOf(s, a)
  <2>4. q \in Seq(SizedRows(a)) /\ q \in Seq(EventRows)
    <3>1. q \in Seq(SizedRows(a))
      BY <2>2, LedgerIsSized
    <3>2. SizedRows(a) \subseteq EventRows
      BY DEF SizedRows
    <3> HIDE DEF q
    <3> QED BY <3>1, <3>2
  <2>5. pending' = [pending EXCEPT ![c] = q]
    BY <2>1
  <2> HIDE DEF q
  <2>6. audit' = audit /\ pc[c] = "idle"
    BY <1>2 DEF Evaluate, MayStart
  <2>7. /\ pc' \in [Callers -> {"idle", "raised", "load", "flush", "append", "done"}]
        /\ input' \in [Callers -> [scan : Inputs \union {None},
                                   account : Accounts \union {WorkerAccount, None}]]
        /\ pending' \in [Callers -> Seq(EventRows)]
    BY <2>1, <2>2, <2>3, <2>4, <2>5 DEF LedgerInv
  <2>8. \A d \in Callers : pending'[d] \in Seq(SizedRows(input'[d].account))
    BY <2>1, <2>4, <2>5 DEF LedgerInv
  <2>9. \A r \in audit' : /\ r.by \in Callers /\ pc'[r.by] # "idle"
                          /\ r.row \in SizedRows(input'[r.by].account)
    BY <2>1, <2>3, <2>6 DEF LedgerInv
  <2> QED BY <2>7, <2>8, <2>9 DEF LedgerInv
<1>3. ASSUME NEW c \in Callers,
             Load(c) \/ Update(c) \/ Insert(c) \/ InsertRefused(c) \/ Finish(c) \/ Abort(c)
      PROVE  LedgerInv'
  <2>1. input' = input /\ pending' = pending /\ audit' = audit
    BY <1>3 DEF Load, Update, Insert, InsertRefused, Finish, Abort
  <2>2. \E p \in {"flush", "append", "done"} : pc' = [pc EXCEPT ![c] = p]
    BY <1>3 DEF Load, Update, Insert, InsertRefused, Finish, Abort
  <2> QED BY <2>1, <2>2 DEF LedgerInv
<1>4. ASSUME NEW c \in Callers, AppendRow(c) PROVE LedgerInv'
  <2> DEFINE S == SizedRows(input[c].account)
             r1 == [by |-> c, place |-> Cardinality({r \in audit : r.by = c}) + 1,
                    symbol |-> symbol[c], row |-> NextRow(c)]
  <2>1. /\ input' = input /\ pc' = pc /\ audit' = audit \union {r1} /\ pc[c] = "append"
        /\ pending' = [pending EXCEPT ![c] = Tail(pending[c])] /\ pending[c] # <<>>
    BY <1>4 DEF AppendRow
  <2>2. pending[c] \in Seq(S) /\ pending[c] \in Seq(EventRows)
    BY DEF LedgerInv
  <2> HIDE DEF S
  <2>3. Head(pending[c]) \in S /\ Tail(pending[c]) \in Seq(S) /\ Tail(pending[c]) \in Seq(EventRows)
    BY <2>1, <2>2
  <2>4. r1.by = c /\ r1.row \in S
    BY <2>3 DEF NextRow
  <2> HIDE DEF r1
  <2>5. \A r \in audit' : /\ r.by \in Callers /\ pc'[r.by] # "idle"
                          /\ r.row \in SizedRows(input'[r.by].account)
    BY <2>1, <2>4 DEF LedgerInv, S
  <2>6. pending' \in [Callers -> Seq(EventRows)]
        /\ \A d \in Callers : pending'[d] \in Seq(SizedRows(input'[d].account))
    BY <2>1, <2>3 DEF LedgerInv, S
  <2> QED BY <2>1, <2>5, <2>6 DEF LedgerInv
<1> QED BY <1>1, <1>2, <1>3, <1>4 DEF Next

\* Every sizing the API audits respects the risk per trade, the portfolio heat,
\* the daily loss limit and the share minimum of its account, for every policy.
THEOREM SizedWithinLimitsHolds == Spec => []SizedWithinLimits
<1>1. LedgerInv => SizedWithinLimits
  BY DEF LedgerInv, SizedWithinLimits, SizedRows
<1> QED BY <1>1, LedgerInit, LedgerStep, PTL DEF Spec

-----------------------------------------------------------------------------
(* When an evaluation ends in an exception                                 *)

LEMMA BadInput ==
    ASSUME NEW s \in Input, NEW a \in Account, Raises(s, a) \/ ~ LegalMoves(Moves(s, a))
    PROVE  s.score = None \/ a.equity \notin Int
<1>1. Raises(s, a)
  BY MovesAreLegal
<1>2. s.score = None \/ Budget(a) \notin Int
  BY <1>1 DEF Raises, SizingRaises
<1> QED BY <1>2, FiniteBudget

\* For every policy with its bands in order: an evaluation never ends in the
\* ValueError of state_machine.py:31, and whatever levels, heat and daily loss a
\* caller sends, infinite and NaN included, only a score component out of range or
\* an equity that is no finite number ends one in the errors of scoring.py:22 and
\* risk.py:63.
THEOREM OnlyBadInputRaisesHolds == Spec => []OnlyBadInputRaises
<1>1. Init => OnlyBadInputRaises
  BY DEF Init, OnlyBadInputRaises
<1>2. LedgerInv /\ OnlyBadInputRaises /\ [Next]_vars => OnlyBadInputRaises'
  <2> SUFFICES ASSUME LedgerInv, OnlyBadInputRaises, [Next]_vars PROVE OnlyBadInputRaises'
    OBVIOUS
  <2>1. CASE UNCHANGED vars
    BY <2>1 DEF vars, OnlyBadInputRaises
  <2>2. ASSUME NEW c \in Callers, Evaluate(c) PROVE OnlyBadInputRaises'
    <3>1. PICK s \in Inputs, a \in IF c \in Scans THEN {WorkerAccount} ELSE Accounts :
            /\ input' = [input EXCEPT ![c] = [scan |-> s, account |-> a]]
            /\ pc' = [pc EXCEPT ![c] = IF Raises(s, a) \/ ~ LegalMoves(Moves(s, a))
                                       THEN "raised" ELSE "load"]
      <4>1. PICK sym \in Symbols, s \in IF c \in Scans THEN ScanInputs ELSE Inputs,
                  a \in IF c \in Scans THEN {WorkerAccount} ELSE Accounts :
              /\ input' = [input EXCEPT ![c] = [scan |-> s, account |-> a]]
              /\ pc' = [pc EXCEPT ![c] = IF Raises(s, a) \/ ~ LegalMoves(Moves(s, a))
                                         THEN "raised" ELSE "load"]
        BY <2>2 DEF Evaluate
      <4>2. s \in Inputs
        BY ScanInputAssumption
      <4> QED BY <4>1, <4>2
    <3>2. s \in Input /\ a \in Account
      BY CallerAssumption
    <3>3. input'[c].scan = s /\ input'[c].account = a
      BY <3>1 DEF LedgerInv
    <3>4. pc'[c] = "raised" => Raises(s, a) \/ ~ LegalMoves(Moves(s, a))
      BY <3>1 DEF LedgerInv
    <3>5. pc'[c] = "raised" => s.score = None \/ a.equity \notin Int
      BY <3>2, <3>4, BadInput
    <3>6. \A d \in Callers : d # c => pc'[d] = pc[d] /\ input'[d] = input[d]
      BY <3>1 DEF LedgerInv
    <3> QED BY <3>3, <3>5, <3>6 DEF OnlyBadInputRaises
  <2>3. ASSUME NEW c \in Callers,
               \/ Load(c) \/ Update(c) \/ Insert(c) \/ InsertRefused(c)
               \/ AppendRow(c) \/ Finish(c) \/ Abort(c)
        PROVE  OnlyBadInputRaises'
    <3>1. input' = input /\ \E p \in {pc[c], "flush", "append", "done"} :
                              pc' = [pc EXCEPT ![c] = p]
      BY <2>3 DEF Load, Update, Insert, InsertRefused, AppendRow, Finish, Abort, LedgerInv
    <3> QED BY <3>1 DEF OnlyBadInputRaises, LedgerInv
  <2> QED BY <2>1, <2>2, <2>3 DEF Next
<1> QED BY <1>1, <1>2, LedgerInit, LedgerStep, PTL DEF Spec

-----------------------------------------------------------------------------
(* What process makes of a scan                                            *)

LEMMA ReasonsTyped ==
    ASSUME NEW s, NEW a
    PROVE  RejectionReasons(s, a) \in SUBSET Reasons
<1>1. ExecutionReasons(s) \subseteq Reasons
  BY DEF ExecutionReasons, Reasons
<1>2. RiskReasons(s, a) \subseteq Reasons
  BY DEF RiskReasons, Reasons
<1>3. GateReasons(s, a) \in SUBSET Reasons
  BY <1>1, <1>2 DEF GateReasons
<1>4. {} \in SUBSET Reasons /\ {"SCORE_BELOW_DISCOVERY"} \in SUBSET Reasons
      /\ {"TRIGGER_REQUIRES_ARMED"} \in SUBSET Reasons
  BY DEF Reasons
<1> QED BY <1>3, <1>4, Zenon DEF RejectionReasons

LEMMA CandidateTyped ==
    ASSUME NEW s \in Input, NEW a \in Account, s.score # None
    PROVE  CandidateOf(s, a) \in Cells
<1>1. Final(Moves(s, a)) \in States
  BY MovesAreStates DEF Final
<1>2. RejectionReasons(s, a) \in SUBSET Reasons
  BY ReasonsTyped
<1>3. /\ s.score \in Score /\ s.entry \in Price /\ s.stop \in Price /\ s.target \in Price
      /\ s.last \in Price /\ s.verified \in BOOLEAN
  BY DEF Input
<1> QED BY <1>1, <1>2, <1>3 DEF CandidateOf, Cells

\* An UPDATE writes columns of either row, so that it leaves a row.
LEMMA WrittenTyped ==
    ASSUME NEW row \in Cells, NEW old \in Cells, NEW new \in Cells
    PROVE  Written(row, old, new) \in Cells
<1> DEFINE w == Written(row, old, new)
<1>1. w = [k \in Columns |-> IF new[k] # old[k] \/ new[k] = NaN THEN new[k] ELSE row[k]]
  BY DEF Written
<1>2. \A k \in Columns : w[k] = new[k] \/ w[k] = row[k]
  BY <1>1
<1>3. w = [k \in Columns |-> w[k]]
  BY <1>1
<1> HIDE DEF w
<1>4. w = [state |-> w.state, score |-> w.score, entry |-> w.entry, stop |-> w.stop,
           target |-> w.target, last |-> w.last, verified |-> w.verified,
           reasons |-> w.reasons]
  BY <1>3 DEF Columns
<1>5. /\ w.state \in States /\ w.score \in Score /\ w.entry \in Price /\ w.stop \in Price
      /\ w.target \in Price /\ w.last \in Price /\ w.verified \in BOOLEAN
      /\ w.reasons \in SUBSET Reasons
  BY <1>2 DEF Columns, Cells
<1> QED BY <1>4, <1>5 DEF Cells, w

\* An UPDATE of the row it was computed from leaves the new row.
LEMMA WrittenIsNew ==
    ASSUME NEW row, NEW s, NEW a
    PROVE  Written(row, row, CandidateOf(s, a)) = CandidateOf(s, a)
<1> DEFINE new == CandidateOf(s, a)
<1>1. Written(row, row, new) = [k \in Columns |-> new[k]]
  BY DEF Written
<1>2. new = [k \in Columns |-> new[k]]
  BY DEF CandidateOf, Columns
<1> QED BY <1>1, <1>2

LEMMA EndsOfMoves ==
    /\ Final(<<>>) = "DISCOVERED" /\ Final(<<"REJECTED">>) = "REJECTED"
    /\ Final(<<"WATCH">>) = "WATCH" /\ Final(<<"WATCH", "NEAR_TRIGGER">>) = "NEAR_TRIGGER"
    /\ \A g : Final(<<"WATCH", "ARMED", "TRIGGERED", g>>) = g
BY DEF Final, Before

\* A candidate that ends TRADE_READY carries no reason and meets every gate that
\* the stored row shows, as far as its numbers are numbers.
LEMMA ReadyIsExecutable ==
    ASSUME NEW s \in Input, NEW a \in Account, CandidateOf(s, a).state = "TRADE_READY"
    PROVE  LET row == CandidateOf(s, a) IN
           /\ LevelsInOrder(row) /\ row.reasons = {}
           /\ row.target # NaN => EnoughReward(row)
           /\ row.last # NaN => NotChased(row)
<1>1. Final(Moves(s, a)) = "TRADE_READY"
  BY DEF CandidateOf
<1>2. ExecutionReasons(s) = {} /\ RiskReasons(s, a) = {}
  BY <1>1, ReadyPassedGates
<1>3. Armed(s) /\ ~ Less(s.score, DiscoveryMin)
  <2>1. ~ Less(s.score, DiscoveryMin)
    BY <1>1, MovesBy, EndsOfMoves
  <2>2. Armed(s)
    BY <1>1, <2>1, MovesBy, EndsOfMoves
  <2> QED BY <2>1, <2>2
<1>4. RejectionReasons(s, a) = {}
  BY <1>2, <1>3 DEF RejectionReasons, GateReasons
<1>5. /\ s.verified /\ ~ Less(s.score, APlusMin) /\ None \notin Levels(s)
      /\ None \notin {s.last, s.entry} => ~ Less(s.entry, s.last)
  BY <1>2 DEF ExecutionReasons
<1>6. AtMost(APlusMin, s.score)
  <2>1. s.score \in Nat /\ APlusMin \in Nat
    BY <1>3, Bands, PolicyAssumption DEF Armed
  <2> QED BY <1>5, <2>1, FiniteOrder
<1>7. /\ ~ AtMost(s.stop, 0) /\ ~ AtMost(s.target, s.entry) /\ ~ Less(s.entry, MinPrice)
      /\ ~ Thin(s, MinRewardRisk) /\ ~ (Shares(s, a) < 1)
  BY <1>2 DEF RiskReasons, Levels
<1>8. ~ Thin(s, GateRewardRisk)
  BY <1>2, <1>5 DEF ExecutionReasons
<1>9. Risk(s) \in Nat \ {0}
  BY <1>7, SharesTyped
<1>10. s.entry \in Int /\ s.stop \in Int /\ Risk(s) = s.entry - s.stop
  BY <1>9, FiniteMinus DEF Risk
<1>11. 0 < s.stop /\ s.stop < s.entry /\ MinPrice <= s.entry
  BY <1>7, <1>9, <1>10, FiniteOrder, PolicyAssumption
<1>12. s.target \in Float
  BY <1>5 DEF Input, Price, Levels
<1>13. ASSUME s.target # NaN, NEW k \in {GateRewardRisk, MinRewardRisk}
       PROVE  AtMost(s.entry + k * (s.entry - s.stop), s.target)
  <2> DEFINE v == k * Risk(s)
  <2>1. v \in Int /\ v = k * (s.entry - s.stop)
    BY <1>9, <1>10, PolicyAssumption
  <2>2. ~ Less(Reward(s), v)
    BY <1>7, <1>8, <1>9, <1>13 DEF Thin
  <2> HIDE DEF v
  <2>3. CASE s.target \in Int
    <3>1. Reward(s) = s.target - s.entry /\ Reward(s) \in Int
      BY <1>10, <2>3 DEF Reward, Minus
    <3>2. ~ (Reward(s) < v)
      BY <2>1, <2>2, <3>1, FiniteOrder
    <3>3. s.entry + v <= s.target
      BY <1>10, <2>1, <2>3, <3>1, <3>2
    <3> QED BY <1>10, <2>1, <2>3, <3>3, FiniteOrder
  <2>4. CASE s.target = PosInf
    BY <1>10, <2>1, <2>4, FloatAssumption DEF AtMost, Less
  <2>5. s.target # NegInf
    BY <1>7, <1>10, FloatAssumption DEF AtMost, Less
  <2> QED BY <1>12, <1>13, <2>3, <2>4, <2>5 DEF Float
<1>14. ASSUME s.last # NaN, s.last # None PROVE AtMost(s.last, s.entry)
  <2>1. s.last \in Float \ {NaN} /\ s.entry \in Float \ {NaN} /\ s.entry # None
    BY <1>10, <1>14, FloatAssumption, CallerAssumption DEF Input, Price, Float
  <2> QED BY <1>5, <1>14, <2>1, TotalOrder
<1> DEFINE row == CandidateOf(s, a)
<1>15. /\ row.verified = s.verified /\ row.score = s.score /\ row.entry = s.entry
       /\ row.stop = s.stop /\ row.target = s.target /\ row.last = s.last
       /\ row.reasons = RejectionReasons(s, a)
  BY DEF CandidateOf
<1> HIDE DEF row
<1>16. LevelsInOrder(row)
  BY <1>5, <1>6, <1>10, <1>11, <1>15 DEF LevelsInOrder
<1>17. row.target # NaN => EnoughReward(row)
  BY <1>13, <1>15 DEF EnoughReward
<1>18. row.last # NaN => NotChased(row)
  BY <1>14, <1>15 DEF NotChased
<1> QED BY <1>4, <1>15, <1>16, <1>17, <1>18 DEF row

\* A candidate that process refuses says why.
LEMMA RefusedSaysWhy ==
    ASSUME NEW s \in Input, NEW a \in Account,
           CandidateOf(s, a).state \in {"REJECTED", "INVALIDATED"}
    PROVE  CandidateOf(s, a).reasons # {}
<1>1. Final(Moves(s, a)) \in {"REJECTED", "INVALIDATED"}
  BY DEF CandidateOf
<1>2. CASE Less(s.score, DiscoveryMin)
  BY <1>2 DEF CandidateOf, RejectionReasons
<1>3. CASE ~ Less(s.score, DiscoveryMin)
  <2>1. Armed(s)
    BY <1>1, <1>3, MovesBy, EndsOfMoves
  <2>2. GateReasons(s, a) # {}
    BY <1>1, <2>1, MovesBy, EndsOfMoves
  <2> QED BY <1>3, <2>1, <2>2 DEF CandidateOf, RejectionReasons
<1> QED BY <1>2, <1>3

-----------------------------------------------------------------------------
(* Type correctness                                                        *)

\* No row is ever deleted: what a caller's upsert found is still there.
FoundInv ==
    /\ loaded \in [Callers -> Cells \union {None}]
    /\ \A c \in Callers : pc[c] = "flush" /\ loaded[c] # None => rows[symbol[c]] # None

TypeInv == LedgerInv /\ TypeOK /\ FoundInv

LEMMA InFlightInput ==
    ASSUME TypeInv, NEW c \in Callers, InFlight(c)
    PROVE  /\ symbol[c] \in Symbols
           /\ input[c].scan \in Inputs /\ input[c].account \in Accounts \union {WorkerAccount}
           /\ input[c].scan \in Input /\ input[c].account \in Account
           /\ Result(c) \in Cells /\ Result(c) # None
<1>1. /\ symbol[c] \in Symbols
      /\ input[c].scan \in Inputs /\ input[c].account \in Accounts \union {WorkerAccount}
  BY DEF TypeInv, TypeOK
<1>2. input[c].scan \in Input /\ input[c].account \in Account
  BY <1>1, CallerAssumption
<1>3. Result(c) \in Cells
  <2>1. input[c].scan.score # None
    BY DEF TypeInv, TypeOK
  <2> QED BY <1>2, <2>1, CandidateTyped DEF Result
<1> QED BY <1>1, <1>2, <1>3, NoRowAssumption

LEMMA TypeInit == Init => TypeInv
<1> SUFFICES ASSUME Init PROVE TypeInv
  OBVIOUS
<1>1. LedgerInv
  BY LedgerInit
<1>2. TypeOK
  BY DEF Init, TypeOK, InFlight
<1>3. FoundInv
  BY DEF Init, FoundInv
<1> QED BY <1>1, <1>2, <1>3 DEF TypeInv

\* A write of a caller leaves a row in the table.
LEMMA RowsStep ==
    ASSUME TypeInv, NEW c \in Callers, Update(c) \/ Insert(c)
    PROVE  /\ rows' \in [Symbols -> Cells \union {None}]
           /\ rows'[symbol[c]] # None
           /\ \A s \in Symbols : s # symbol[c] => rows'[s] = rows[s]
<1>1. InFlight(c)
  BY DEF Update, Insert, InFlight
<1>2. symbol[c] \in Symbols /\ Result(c) \in Cells /\ Result(c) # None
  BY <1>1, InFlightInput
<1>3. rows \in [Symbols -> Cells \union {None}] /\ loaded[c] \in Cells \union {None}
  BY DEF TypeInv, TypeOK, FoundInv
<1>4. CASE Insert(c)
  <2>1. rows' = [rows EXCEPT ![symbol[c]] = Result(c)]
    BY <1>4 DEF Insert
  <2> QED BY <1>2, <1>3, <2>1
<1>5. CASE Update(c)
  <2> DEFINE w == Written(rows[symbol[c]], loaded[c], Result(c))
  <2>1. rows' = [rows EXCEPT ![symbol[c]] = w] /\ loaded[c] # None
    BY <1>5 DEF Update
  <2>2. rows[symbol[c]] # None
    BY <1>5 DEF TypeInv, FoundInv, Update
  <2>3. w \in Cells /\ w # None
    <3>1. w \in Cells
      BY <1>2, <1>3, <2>1, <2>2, WrittenTyped
    <3> QED BY <3>1, NoRowAssumption
  <2> QED BY <1>2, <1>3, <2>1, <2>3
<1> QED BY <1>4, <1>5

LEMMA TypeStep == TypeInv /\ [Next]_vars => TypeInv'
<1> SUFFICES ASSUME TypeInv, [Next]_vars PROVE TypeInv'
  OBVIOUS
<1>1. LedgerInv'
  BY LedgerStep DEF TypeInv
<1>2. CASE UNCHANGED vars
  BY <1>1, <1>2 DEF vars, TypeInv, TypeOK, FoundInv, InFlight
<1>3. ASSUME NEW c \in Callers, Evaluate(c) PROVE TypeInv'
  <2>1. PICK sym \in Symbols, s \in Inputs, a \in Accounts \union {WorkerAccount} :
          /\ symbol' = [symbol EXCEPT ![c] = sym]
          /\ input' = [input EXCEPT ![c] = [scan |-> s, account |-> a]]
          /\ contended' = IF OthersAt(sym) THEN contended \union {sym} ELSE contended
          /\ pc' = [pc EXCEPT ![c] = IF Raises(s, a) \/ ~ LegalMoves(Moves(s, a))
                                     THEN "raised" ELSE "load"]
    BY <1>3, ScanInputAssumption DEF Evaluate
  <2>2. /\ \E p \in {"load", "raised"} : pc' = [pc EXCEPT ![c] = p]
        /\ InFlight(c)' => s.score # None
    BY <2>1 DEF Raises, InFlight, TypeInv, TypeOK
  <2>3. rows' = rows /\ loaded' = loaded
    BY <1>3 DEF Evaluate
  <2>4. /\ input'[c].scan = s /\ input'[c].account = a
        /\ \A d \in Callers : d # c => input'[d] = input[d]
    BY <2>1 DEF TypeInv, LedgerInv
  <2>5. TypeOK' /\ FoundInv'
    BY <2>1, <2>2, <2>3, <2>4 DEF TypeInv, TypeOK, FoundInv, InFlight
  <2> QED BY <1>1, <2>3, <2>5 DEF TypeInv
<1>4. ASSUME NEW c \in Callers, Load(c) PROVE TypeInv'
  BY <1>1, <1>4 DEF Load, TypeInv, TypeOK, FoundInv, InFlight
<1>5. ASSUME NEW c \in Callers, Update(c) \/ Insert(c) PROVE TypeInv'
  <2>1. /\ pc' = [pc EXCEPT ![c] = "append"] /\ pc[c] = "flush"
        /\ UNCHANGED <<symbol, input, loaded, contended>>
    BY <1>5 DEF Update, Insert
  <2>2. /\ rows' \in [Symbols -> Cells \union {None}]
        /\ rows'[symbol[c]] # None
        /\ \A s \in Symbols : s # symbol[c] => rows'[s] = rows[s]
    BY <1>5, RowsStep
  <2>3. TypeOK' /\ FoundInv'
    BY <2>1, <2>2 DEF TypeInv, TypeOK, FoundInv, InFlight
  <2> QED BY <1>1, <2>1, <2>3 DEF TypeInv
<1>6. ASSUME NEW c \in Callers, InsertRefused(c) \/ Finish(c) \/ Abort(c) PROVE TypeInv'
  <2>1. pc' = [pc EXCEPT ![c] = "done"] /\ UNCHANGED <<rows, symbol, input, loaded, contended>>
    BY <1>6 DEF InsertRefused, Finish, Abort
  <2> QED BY <1>1, <2>1 DEF TypeInv, TypeOK, FoundInv, InFlight
<1>7. ASSUME NEW c \in Callers, AppendRow(c) PROVE TypeInv'
  BY <1>1, <1>7 DEF AppendRow, TypeInv, TypeOK, FoundInv, InFlight
<1> QED BY <1>2, <1>3, <1>4, <1>5, <1>6, <1>7 DEF Next

\* Every variable stays in its domain: what the candidate table holds is a whole
\* row, also of a symbol that callers write at the same time, and a caller that
\* appends audit rows (persistence.py:57-66) has its candidate in the table.
THEOREM TypeCorrect == Spec => []TypeOK
<1>1. TypeInv => TypeOK
  BY DEF TypeInv
<1> QED BY <1>1, TypeInit, TypeStep, PTL DEF Spec

-----------------------------------------------------------------------------
(* The row of a symbol that is not contended is what one evaluation made of it *)

Recorded(row) == \E s \in Inputs, a \in Accounts \union {WorkerAccount} : row = CandidateOf(s, a)

\* Nothing happens to the row of a symbol that is not contended between a
\* caller's load and its write, so the row is what one evaluation made of it.
SerialInv ==
    /\ \A c, d \in Callers :
        /\ InFlight(c) /\ InFlight(d)
        /\ symbol[c] = symbol[d] /\ symbol[c] \notin contended
        => c = d
    /\ \A c \in Callers : pc[c] = "flush" /\ symbol[c] \notin contended =>
        loaded[c] = rows[symbol[c]]
    /\ \A s \in Symbols \ contended : rows[s] # None => Recorded(rows[s])

IInv == TypeInv /\ SerialInv

LEMMA SerialInit == Init => SerialInv
BY DEF Init, SerialInv, InFlight

\* A write of the only caller at a symbol leaves what process made of its scan.
LEMMA RowsRecorded ==
    ASSUME IInv, NEW c \in Callers, Update(c) \/ Insert(c), symbol[c] \notin contended
    PROVE  Recorded(rows'[symbol[c]])
<1>1. InFlight(c) /\ pc[c] = "flush"
  BY DEF Update, Insert, InFlight
<1>2. /\ symbol[c] \in Symbols
      /\ input[c].scan \in Inputs /\ input[c].account \in Accounts \union {WorkerAccount}
  BY <1>1, InFlightInput DEF IInv
<1>3. Recorded(Result(c))
  BY <1>2 DEF Recorded, Result
<1>4. rows \in [Symbols -> Cells \union {None}]
  BY DEF IInv, TypeInv, TypeOK
<1>5. CASE Insert(c)
  BY <1>2, <1>3, <1>4, <1>5 DEF Insert
<1>6. CASE Update(c)
  <2>1. loaded[c] = rows[symbol[c]]
    BY <1>1 DEF IInv, SerialInv
  <2>2. rows'[symbol[c]] = Written(rows[symbol[c]], rows[symbol[c]], Result(c))
    BY <1>2, <1>4, <1>6, <2>1 DEF Update
  <2>3. rows'[symbol[c]] = Result(c)
    BY <2>2, WrittenIsNew DEF Result
  <2> QED BY <1>3, <2>3
<1> QED BY <1>5, <1>6

LEMMA SerialStep == IInv /\ [Next]_vars => SerialInv'
<1> SUFFICES ASSUME IInv, [Next]_vars PROVE SerialInv'
  OBVIOUS
<1> USE DEF IInv
<1>1. CASE UNCHANGED vars
  BY <1>1 DEF vars, SerialInv, InFlight
<1>2. ASSUME NEW c \in Callers, Evaluate(c) PROVE SerialInv'
  <2>1. PICK sym \in Symbols :
          /\ symbol' = [symbol EXCEPT ![c] = sym]
          /\ contended' = IF OthersAt(sym) THEN contended \union {sym} ELSE contended
    BY <1>2 DEF Evaluate
  <2>2. /\ pc[c] = "idle" /\ \E p \in {"load", "raised"} : pc' = [pc EXCEPT ![c] = p]
        /\ rows' = rows /\ loaded' = loaded
    BY <1>2 DEF Evaluate, MayStart
  <2>3. contended \subseteq contended'
    BY <2>1
  <2>4. ASSUME NEW d \in Callers, d # c
        PROVE  symbol'[d] = symbol[d] /\ pc'[d] = pc[d]
    BY <2>1, <2>2, <2>4 DEF TypeInv, TypeOK
  <2>5. symbol'[c] = sym /\ pc'[c] # "flush" /\ ~ InFlight(c)
    BY <2>1, <2>2 DEF TypeInv, TypeOK, FoundInv, InFlight
  <2>6. ASSUME NEW d \in Callers, NEW e \in Callers, d # e, InFlight(d)', InFlight(e)',
               symbol'[d] = symbol'[e]
        PROVE  symbol'[d] \in contended'
    <3>1. CASE d # c /\ e # c
      BY <2>3, <2>4, <2>6, <3>1 DEF SerialInv, InFlight
    <3>2. CASE d = c
      <4>1. InFlight(e) /\ symbol[e] = sym
        BY <2>4, <2>5, <2>6, <3>2 DEF InFlight
      <4> QED BY <2>1, <2>5, <3>2, <4>1 DEF OthersAt
    <3>3. CASE e = c
      <4>1. InFlight(d) /\ symbol[d] = sym
        BY <2>4, <2>5, <2>6, <3>3 DEF InFlight
      <4> QED BY <2>1, <2>5, <2>6, <3>3, <4>1 DEF OthersAt
    <3> QED BY <3>1, <3>2, <3>3
  <2>7. \A d \in Callers : pc'[d] = "flush" /\ symbol'[d] \notin contended' =>
            loaded'[d] = rows'[symbol'[d]]
    BY <2>2, <2>3, <2>4, <2>5 DEF SerialInv
  <2>8. \A s \in Symbols \ contended' : rows'[s] # None => Recorded(rows'[s])
    BY <2>2, <2>3 DEF SerialInv
  <2> QED BY <2>6, <2>7, <2>8 DEF SerialInv
<1>3. ASSUME NEW c \in Callers, Load(c) PROVE SerialInv'
  BY <1>3 DEF Load, SerialInv, InFlight, TypeInv, TypeOK, FoundInv
<1>4. ASSUME NEW c \in Callers, Update(c) \/ Insert(c) PROVE SerialInv'
  <2>1. /\ pc' = [pc EXCEPT ![c] = "append"] /\ pc[c] = "flush"
        /\ UNCHANGED <<symbol, input, loaded, contended>>
    BY <1>4 DEF Update, Insert
  <2>2. \A s \in Symbols : s # symbol[c] => rows'[s] = rows[s]
    BY <1>4, RowsStep
  <2>3. ASSUME NEW d \in Callers, InFlight(d)' PROVE InFlight(d)
    BY <2>1, <2>3 DEF InFlight, TypeInv, TypeOK
  <2>4. \A d, e \in Callers : /\ InFlight(d)' /\ InFlight(e)'
                              /\ symbol'[d] = symbol'[e] /\ symbol'[d] \notin contended'
                              => d = e
    BY <2>1, <2>3 DEF SerialInv
  <2>5. ASSUME NEW d \in Callers, pc'[d] = "flush", symbol'[d] \notin contended'
        PROVE  loaded'[d] = rows'[symbol'[d]]
    <3>1. d # c /\ pc[d] = "flush"
      BY <2>1, <2>5 DEF TypeInv, TypeOK
    <3>2. InFlight(d) /\ InFlight(c)
      BY <2>1, <3>1 DEF InFlight
    <3>3. symbol[d] # symbol[c] /\ symbol[d] \in Symbols
      BY <2>1, <2>5, <3>1, <3>2, InFlightInput DEF SerialInv
    <3> QED BY <2>1, <2>2, <2>5, <3>1, <3>3 DEF SerialInv
  <2>6. \A s \in Symbols \ contended' : rows'[s] # None => Recorded(rows'[s])
    BY <1>4, <2>1, <2>2, RowsRecorded DEF SerialInv
  <2> QED BY <2>4, <2>5, <2>6 DEF SerialInv
<1>5. ASSUME NEW c \in Callers, InsertRefused(c) \/ AppendRow(c) \/ Finish(c) \/ Abort(c)
      PROVE  SerialInv'
  <2>1. UNCHANGED <<rows, symbol, loaded, contended>>
    BY <1>5 DEF InsertRefused, AppendRow, Finish, Abort
  <2>2. pc' = pc \/ pc' = [pc EXCEPT ![c] = "done"]
    BY <1>5 DEF InsertRefused, AppendRow, Finish, Abort
  <2> QED BY <2>1, <2>2 DEF SerialInv, InFlight, TypeInv, TypeOK
<1> QED BY <1>1, <1>2, <1>3, <1>4, <1>5 DEF Next

\* A stored row that says TRADE_READY shows verified data, a top score and a finite
\* stop below a finite entry, and, where target and last price are not NaN, enough
\* reward and no chased price (docs/STATE_MACHINE.md): for any policy, callers and
\* numbers, infinite and NaN included, of a symbol that no two callers evaluated at
\* the same time.
THEOREM TradeReadyRowIsExecutableHolds == Spec => []TradeReadyRowIsExecutable
<1>1. IInv => TradeReadyRowIsExecutable
  <2> SUFFICES ASSUME IInv, NEW s \in Symbols \ contended, IsTradeReady(s)
               PROVE  /\ LevelsInOrder(rows[s])
                      /\ rows[s].target # NaN => EnoughReward(rows[s])
                      /\ rows[s].last # NaN => NotChased(rows[s])
    BY DEF TradeReadyRowIsExecutable
  <2>1. PICK i \in Inputs, a \in Accounts \union {WorkerAccount} : rows[s] = CandidateOf(i, a)
    BY DEF IInv, SerialInv, IsTradeReady, Recorded
  <2>2. i \in Input /\ a \in Account
    BY CallerAssumption
  <2> QED BY <2>1, <2>2, ReadyIsExecutable DEF IsTradeReady
<1> QED BY <1>1, TypeInit, TypeStep, SerialInit, SerialStep, PTL DEF Spec, IInv

\* A refused candidate says why in its row, and one that passed carries no reason
\* of an evaluation before ("Rejection reason is mandatory", docs/STATE_MACHINE.md).
THEOREM RefusalHasReasonHolds == Spec => []RefusalHasReason
<1>1. IInv => RefusalHasReason
  <2> SUFFICES ASSUME IInv, NEW s \in Symbols \ contended, rows[s] # None
               PROVE  /\ rows[s].state \in {"REJECTED", "INVALIDATED"} => rows[s].reasons # {}
                      /\ rows[s].state = "TRADE_READY" => rows[s].reasons = {}
    BY DEF RefusalHasReason
  <2>1. PICK i \in Inputs, a \in Accounts \union {WorkerAccount} : rows[s] = CandidateOf(i, a)
    BY DEF IInv, SerialInv, Recorded
  <2>2. i \in Input /\ a \in Account
    BY CallerAssumption
  <2> QED BY <2>1, <2>2, ReadyIsExecutable, RefusedSaysWhy
<1> QED BY <1>1, TypeInit, TypeStep, SerialInit, SerialStep, PTL DEF Spec, IInv

-----------------------------------------------------------------------------
(* The audit rows of one evaluation are a walk of the state machine           *)

IsPath(ledger) ==
    \A i \in DOMAIN ledger :
        /\ ledger[i].event = "STATE_TRANSITION" => can_transition(ledger[i].from, ledger[i].to)
        /\ ledger[i].event # "CANDIDATE_QUALIFIED" =>
            IF i = 1 THEN ledger[i].from = "DISCOVERED"
            ELSE /\ ledger[i - 1].event = "STATE_TRANSITION"
                 /\ ledger[i - 1].to = ledger[i].from

\* The moves of process, and its sizing after the move to TRADE_READY.
LEMMA LedgerIsPath ==
    ASSUME NEW s \in Input, NEW a \in Account
    PROVE  IsPath(LedgerOf(s, a)) /\ IsPath(Qualified(s, a))
<1> DEFINE m == Moves(s, a)
           n == Len(m)
           size == Shares(s, a)
           f == [i \in DOMAIN m |->
                    [event |-> "STATE_TRANSITION", from |-> Before(m, i), to |-> m[i],
                     shares |-> 0, risk |-> 0]]
           ready == [event |-> "TRADE_READY", from |-> "TRADE_READY", to |-> "TRADE_READY",
                     shares |-> size, risk |-> size * Risk(s)]
           L == LedgerOf(s, a)
<1>1. m \in Seq(States) /\ LegalMoves(m)
  BY MovesAreStates, MovesAreLegal
<1>2. L = f \o (IF Final(m) = "TRADE_READY" THEN <<ready>> ELSE <<>>)
  BY DEF LedgerOf
<1>3. \A i \in DOMAIN m : /\ f[i].event = "STATE_TRANSITION"
                          /\ f[i].from = Before(m, i) /\ f[i].to = m[i]
  OBVIOUS
<1>4. ready.event = "TRADE_READY" /\ ready.from = "TRADE_READY"
  OBVIOUS
<1>5. f \in Seq({f[i] : i \in DOMAIN m}) /\ Len(f) = n /\ DOMAIN f = 1 .. n /\ n \in Nat
  <2> HIDE DEF m
  <2>1. n \in Nat /\ DOMAIN m = 1 .. n
    BY <1>1
  <2> DEFINE S == {f[i] : i \in DOMAIN m}
  <2>2. f = [i \in 1 .. n |-> f[i]] /\ \A i \in 1 .. n : f[i] \in S
    BY <2>1
  <2> HIDE DEF f, n
  <2>3. f \in [1 .. n -> S]
    BY <2>2
  <2>4. f \in Seq(S) /\ DOMAIN f = 1 .. n
    BY <2>1, <2>3, SeqDef
  <2> QED BY <2>1, <2>4
<1> HIDE DEF f, ready, m
<1>6. /\ \A i \in 1 .. n : L[i] = f[i]
      /\ DOMAIN L = 1 .. IF Final(m) = "TRADE_READY" THEN n + 1 ELSE n
      /\ Final(m) = "TRADE_READY" => L[n + 1] = ready
  <2> HIDE DEF L, n
  <2>1. CASE Final(m) = "TRADE_READY"
    <3>1. L = Append(f, ready)
      BY <1>2, <1>5, <2>1
    <3> QED BY <1>5, <2>1, <3>1
  <2>2. CASE Final(m) # "TRADE_READY"
    <3>1. L = f
      BY <1>2, <1>5, <2>2
    <3> QED BY <1>5, <2>2, <3>1
  <2> QED BY <2>1, <2>2
<1> HIDE DEF L
<1>7. ASSUME NEW i \in 1 .. n
      PROVE  /\ L[i].event = "STATE_TRANSITION" /\ can_transition(L[i].from, L[i].to)
             /\ L[i].to = m[i]
             /\ IF i = 1 THEN L[i].from = "DISCOVERED"
                ELSE /\ i - 1 \in 1 .. n /\ L[i - 1].event = "STATE_TRANSITION"
                     /\ L[i - 1].to = L[i].from
  <2>1. DOMAIN m = 1 .. n
    BY <1>1
  <2>2. /\ L[i].event = "STATE_TRANSITION" /\ L[i].from = Before(m, i) /\ L[i].to = m[i]
    BY <1>3, <1>6, <2>1
  <2>3. can_transition(L[i].from, L[i].to)
    BY <1>1, <2>1, <2>2 DEF LegalMoves
  <2>4. i # 1 => /\ i - 1 \in 1 .. n /\ L[i - 1].event = "STATE_TRANSITION"
                 /\ L[i - 1].to = L[i].from
    <3> SUFFICES ASSUME i # 1
                 PROVE  /\ i - 1 \in 1 .. n /\ L[i - 1].event = "STATE_TRANSITION"
                        /\ L[i - 1].to = L[i].from
      OBVIOUS
    <3>1. i - 1 \in 1 .. n
      BY <1>5
    <3>2. L[i - 1].event = "STATE_TRANSITION" /\ L[i - 1].to = m[i - 1]
      BY <1>3, <1>6, <2>1, <3>1
    <3> QED BY <2>2, <3>1, <3>2 DEF Before
  <2> QED BY <2>2, <2>3, <2>4 DEF Before
<1>8. ASSUME Final(m) = "TRADE_READY"
      PROVE  n # 0 /\ L[n].event = "STATE_TRANSITION" /\ L[n].to = "TRADE_READY"
  <2>1. n # 0 /\ m[n] = "TRADE_READY"
    BY <1>5, <1>8 DEF Final, Before
  <2> QED BY <1>5, <1>7, <2>1
<1>9. IsPath(L)
  <2>1. ASSUME NEW i \in DOMAIN L, i \notin 1 .. n
        PROVE  /\ L[i].event = "TRADE_READY" /\ i # 1
               /\ L[i - 1].event = "STATE_TRANSITION" /\ L[i - 1].to = L[i].from
    <3>1. Final(m) = "TRADE_READY" /\ i = n + 1
      BY <1>5, <1>6, <2>1
    <3> QED BY <1>4, <1>5, <1>6, <1>8, <3>1
  <2> QED BY <1>7, <2>1 DEF IsPath
<1>10. IsPath(Qualified(s, a))
  <2> DEFINE q == [event |-> "CANDIDATE_QUALIFIED", from |-> Final(m), to |-> Final(m),
                   shares |-> 0, risk |-> 0]
  <2>1. Qualified(s, a) = <<q>> /\ q.event = "CANDIDATE_QUALIFIED"
    BY DEF Qualified, m
  <2> HIDE DEF q
  <2> QED BY <2>1 DEF IsPath
<1> QED BY <1>9, <1>10 DEF L

RowsOf(c) == {r \in audit : r.by = c}
Ledger(c) ==
    IF c \in Scans THEN Qualified(input[c].scan, input[c].account)
    ELSE LedgerOf(input[c].scan, input[c].account)

\* The rows a caller appended and those it has yet to append make up its ledger:
\* one row for each place, up to the place it is at.
Placed(c) ==
    LET k == Cardinality(RowsOf(c)) IN
    /\ Len(Ledger(c)) = k + Len(pending[c])
    /\ \A i \in 1 .. Len(pending[c]) : pending[c][i] = Ledger(c)[k + i]
    /\ \A r \in RowsOf(c) : r.place \in 1 .. k /\ r.row = Ledger(c)[r.place]
    /\ \A p \in 1 .. k : \E r \in RowsOf(c) : r.place = p

PlacesInv ==
    \A c \in Callers :
        /\ IsFiniteSet(RowsOf(c))
        /\ IF pc[c] = "idle" THEN RowsOf(c) = {} ELSE Placed(c)

LEMMA CallersLedger ==
    ASSUME NEW c \in Callers, input[c].scan \in Inputs,
           input[c].account \in Accounts \union {WorkerAccount}
    PROVE  Ledger(c) \in Seq(EventRows) /\ IsPath(Ledger(c))
<1>1. input[c].scan \in Input /\ input[c].account \in Account
  BY CallerAssumption
<1>2. IsPath(Ledger(c))
  BY <1>1, LedgerIsPath DEF Ledger
<1> DEFINE S == SizedRows(input[c].account)
<1>3. Ledger(c) \in Seq(S) /\ S \subseteq EventRows
  BY <1>1, LedgerIsSized DEF Ledger, SizedRows
<1> HIDE DEF S
<1> QED BY <1>2, <1>3

Started ==
    \A c \in Callers : pc[c] # "idle" =>
        input[c].scan \in Inputs /\ input[c].account \in Accounts \union {WorkerAccount}

WalkInv == TypeInv /\ Started /\ PlacesInv

LEMMA WalkInit == Init => Started /\ PlacesInv
<1> SUFFICES ASSUME Init PROVE Started /\ PlacesInv
  OBVIOUS
<1>1. \A c \in Callers : pc[c] = "idle" /\ RowsOf(c) = {}
  BY DEF Init, RowsOf
<1>2. IsFiniteSet({})
  BY FS_EmptySet
<1> QED BY <1>1, <1>2 DEF Started, PlacesInv

\* What a caller is at, where it neither starts nor appends.
LEMMA PlacedKept ==
    ASSUME WalkInv, NEW c \in Callers,
           RowsOf(c)' = RowsOf(c), pending'[c] = pending[c], input'[c] = input[c],
           pc'[c] = "idle" <=> pc[c] = "idle"
    PROVE  /\ IsFiniteSet(RowsOf(c)')
           /\ IF pc'[c] = "idle" THEN RowsOf(c)' = {} ELSE Placed(c)'
<1>1. Ledger(c)' = Ledger(c)
  BY DEF Ledger
<1>2. /\ IsFiniteSet(RowsOf(c))
      /\ IF pc[c] = "idle" THEN RowsOf(c) = {} ELSE Placed(c)
  BY DEF WalkInv, PlacesInv
<1>3. Placed(c) => Placed(c)'
  BY <1>1 DEF Placed
<1> QED BY <1>2, <1>3

\* Appending takes the row for the next place.
LEMMA PlacedAppended ==
    ASSUME WalkInv, NEW c \in Callers, AppendRow(c)
    PROVE  IsFiniteSet(RowsOf(c)') /\ Placed(c)'
<1> DEFINE R == RowsOf(c)
           k == Cardinality(R)
           q == pending[c]
           L == Ledger(c)
           r1 == [by |-> c, place |-> k + 1, symbol |-> symbol[c], row |-> NextRow(c)]
<1>1. /\ pc[c] = "append" /\ q # <<>> /\ input' = input
      /\ audit' = audit \union {r1}
      /\ pending' = [pending EXCEPT ![c] = Tail(q)]
  BY DEF AppendRow, RowsOf
<1>2. /\ r1.by = c /\ r1.place = k + 1 /\ r1.row = Head(q)
  BY DEF NextRow
<1>3. /\ IsFiniteSet(R) /\ Placed(c)
  BY <1>1 DEF WalkInv, PlacesInv
<1>4. k \in Nat
  BY <1>3, FS_CardinalityType
<1>5. /\ Len(L) = k + Len(q)
      /\ \A i \in 1 .. Len(q) : q[i] = L[k + i]
      /\ \A r \in R : r.place \in 1 .. k /\ r.row = L[r.place]
      /\ \A p \in 1 .. k : \E r \in R : r.place = p
  BY <1>3 DEF Placed
<1>6. q \in Seq(EventRows) /\ pending \in [Callers -> Seq(EventRows)]
  BY DEF WalkInv, TypeInv, LedgerInv
<1>7. RowsOf(c)' = R \union {r1}
  <2> HIDE DEF r1
  <2> QED BY <1>1, <1>2 DEF RowsOf
<1>8. Ledger(c)' = L
  BY <1>1 DEF Ledger
<1>9. pending'[c] = Tail(q)
  BY <1>1, <1>6
<1> HIDE DEF R, q, L, r1
<1>10. r1 \notin R
  BY <1>2, <1>4, <1>5
<1>11. IsFiniteSet(R \union {r1}) /\ Cardinality(R \union {r1}) = k + 1
  BY <1>3, <1>10, FS_AddElement
<1> HIDE DEF k
<1>12. /\ Len(q) \in Nat \ {0} /\ Len(Tail(q)) = Len(q) - 1 /\ Head(q) = q[1]
       /\ \A i \in 1 .. Len(q) - 1 : Tail(q)[i] = q[i + 1]
  BY <1>1, <1>6
<1>13. Len(L) = (k + 1) + Len(Tail(q))
  BY <1>4, <1>5, <1>12
<1>14. \A i \in 1 .. Len(Tail(q)) : Tail(q)[i] = L[(k + 1) + i]
  <2> TAKE i \in 1 .. Len(Tail(q))
  <2>1. i \in 1 .. Len(q) - 1 /\ i + 1 \in 1 .. Len(q) /\ k + (i + 1) = (k + 1) + i
    BY <1>4, <1>12
  <2> QED BY <1>5, <1>12, <2>1
<1>15. r1.row = L[k + 1]
  BY <1>2, <1>5, <1>12
<1>16. \A r \in R \union {r1} : r.place \in 1 .. k + 1 /\ r.row = L[r.place]
  BY <1>2, <1>4, <1>5, <1>15
<1>17. \A p \in 1 .. k + 1 : \E r \in R \union {r1} : r.place = p
  <2> TAKE p \in 1 .. k + 1
  <2>1. p \in 1 .. k \/ p = k + 1
    BY <1>4
  <2> QED BY <1>2, <1>5, <2>1
<1> QED BY <1>7, <1>8, <1>9, <1>11, <1>13, <1>14, <1>16, <1>17 DEF Placed

LEMMA WalkStep == WalkInv /\ [Next]_vars => Started' /\ PlacesInv'
<1> SUFFICES ASSUME WalkInv, [Next]_vars PROVE Started' /\ PlacesInv'
  OBVIOUS
<1> USE DEF WalkInv
<1>1. CASE UNCHANGED vars
  <2>1. Started'
    BY <1>1 DEF vars, Started
  <2>2. PlacesInv'
    BY <1>1, PlacedKept DEF vars, PlacesInv, RowsOf
  <2> QED BY <2>1, <2>2
<1>2. ASSUME NEW c \in Callers, Evaluate(c) PROVE Started' /\ PlacesInv'
  <2>1. PICK s \in Inputs, a \in Accounts \union {WorkerAccount} :
          /\ input' = [input EXCEPT ![c] = [scan |-> s, account |-> a]]
          /\ pc' = [pc EXCEPT ![c] = IF Raises(s, a) \/ ~ LegalMoves(Moves(s, a))
                                     THEN "raised" ELSE "load"]
          /\ pending' = [pending EXCEPT ![c] =
                          IF c \in Scans THEN Qualified(s, a) ELSE LedgerOf(s, a)]
    BY <1>2, ScanInputAssumption DEF Evaluate
  <2>2. pc[c] = "idle" /\ audit' = audit
    BY <1>2 DEF Evaluate, MayStart
  <2>3. \A d \in Callers : RowsOf(d)' = RowsOf(d)
    BY <2>2 DEF RowsOf
  <2>4. /\ input'[c].scan = s /\ input'[c].account = a /\ pc'[c] # "idle"
        /\ pending'[c] = IF c \in Scans THEN Qualified(s, a) ELSE LedgerOf(s, a)
        /\ \A d \in Callers : d # c =>
              input'[d] = input[d] /\ pending'[d] = pending[d] /\ pc'[d] = pc[d]
    BY <2>1 DEF TypeInv, LedgerInv
  <2>5. Started'
    BY <2>4 DEF Started
  <2>6. IsFiniteSet(RowsOf(c)') /\ Placed(c)'
    <3>1. RowsOf(c)' = {} /\ IsFiniteSet({}) /\ Cardinality({}) = 0
      BY <2>2, <2>3, FS_EmptySet DEF PlacesInv
    <3>2. pending'[c] = Ledger(c)'
      BY <2>4 DEF Ledger
    <3>3. Ledger(c)' \in Seq(EventRows)
      <4>1. pending'[c] \in Seq(EventRows)
        BY LedgerStep DEF TypeInv, LedgerInv
      <4> QED BY <3>2, <4>1
    <3> DEFINE L == Ledger(c)'
    <3>4. Len(L) \in Nat /\ Len(L) = 0 + Len(L) /\ \A i \in 1 .. Len(L) : L[i] = L[0 + i]
      BY <3>3
    <3> QED BY <3>1, <3>2, <3>4 DEF Placed
  <2>7. \A d \in Callers : d # c =>
          /\ IsFiniteSet(RowsOf(d)')
          /\ IF pc'[d] = "idle" THEN RowsOf(d)' = {} ELSE Placed(d)'
    BY <2>3, <2>4, PlacedKept
  <2> QED BY <2>4, <2>5, <2>6, <2>7 DEF PlacesInv
<1>3. ASSUME NEW c \in Callers,
             Load(c) \/ Update(c) \/ Insert(c) \/ InsertRefused(c) \/ Finish(c) \/ Abort(c)
      PROVE  Started' /\ PlacesInv'
  <2>1. input' = input /\ pending' = pending /\ audit' = audit
    BY <1>3 DEF Load, Update, Insert, InsertRefused, Finish, Abort
  <2>2. pc[c] # "idle" /\ \E p \in {"flush", "append", "done"} : pc' = [pc EXCEPT ![c] = p]
    BY <1>3 DEF Load, Update, Insert, InsertRefused, Finish, Abort, InFlight
  <2>3. \A d \in Callers : pc'[d] = "idle" <=> pc[d] = "idle"
    BY <2>2 DEF TypeInv, LedgerInv
  <2>4. \A d \in Callers : RowsOf(d)' = RowsOf(d)
    BY <2>1 DEF RowsOf
  <2>5. Started'
    BY <2>1, <2>3 DEF Started
  <2>6. PlacesInv'
    BY <2>1, <2>3, <2>4, PlacedKept DEF PlacesInv
  <2> QED BY <2>5, <2>6
<1>4. ASSUME NEW c \in Callers, AppendRow(c) PROVE Started' /\ PlacesInv'
  <2>1. /\ input' = input /\ pc' = pc /\ pc[c] = "append"
        /\ pending' = [pending EXCEPT ![c] = Tail(pending[c])]
    BY <1>4 DEF AppendRow
  <2>2. ASSUME NEW d \in Callers, d # c PROVE RowsOf(d)' = RowsOf(d)
    BY <1>4, <2>2 DEF AppendRow, RowsOf
  <2>3. \A d \in Callers : d # c =>
          /\ IsFiniteSet(RowsOf(d)')
          /\ IF pc'[d] = "idle" THEN RowsOf(d)' = {} ELSE Placed(d)'
    BY <2>1, <2>2, PlacedKept DEF TypeInv, LedgerInv
  <2>4. Started'
    BY <2>1 DEF Started
  <2>5. PlacesInv'
    BY <1>4, <2>1, <2>3, PlacedAppended DEF PlacesInv
  <2> QED BY <2>4, <2>5
<1> QED BY <1>1, <1>2, <1>3, <1>4 DEF Next

\* Whatever callers overlap, fail or die halfway: the rows that one evaluation
\* left in the audit table walk the state machine from DISCOVERED without gaps,
\* and a sizing comes after the move to TRADE_READY.
THEOREM AuditIsPathHolds == Spec => []AuditIsPath
<1>1. WalkInv => AuditIsPath
  <2> SUFFICES ASSUME WalkInv, NEW r \in audit
               PROVE  /\ r.row.event = "STATE_TRANSITION" => can_transition(r.row.from, r.row.to)
                      /\ r.row.event # "CANDIDATE_QUALIFIED" =>
                          IF r.place = 1 THEN r.row.from = "DISCOVERED"
                          ELSE \E b \in audit : b.by = r.by /\ b.place = r.place - 1
                                                /\ b.row.event = "STATE_TRANSITION"
                                                /\ b.row.to = r.row.from
    BY DEF AuditIsPath
  <2> DEFINE c == r.by
             k == Cardinality(RowsOf(c))
             L == Ledger(c)
  <2>1. c \in Callers /\ pc[c] # "idle" /\ r \in RowsOf(c)
    BY DEF WalkInv, TypeInv, LedgerInv, RowsOf
  <2>2. IsPath(L) /\ L \in Seq(EventRows)
    BY <2>1, CallersLedger DEF WalkInv, Started
  <2>3. IsFiniteSet(RowsOf(c)) /\ Placed(c)
    BY <2>1 DEF WalkInv, PlacesInv
  <2>4. /\ k \in Nat /\ Len(L) = k + Len(pending[c])
        /\ \A b \in RowsOf(c) : b.place \in 1 .. k /\ b.row = L[b.place]
        /\ \A p \in 1 .. k : \E b \in RowsOf(c) : b.place = p
    BY <2>3, FS_CardinalityType DEF Placed
  <2>5. Len(pending[c]) \in Nat
    BY <2>1 DEF WalkInv, TypeInv, LedgerInv
  <2>6. \A b \in RowsOf(c) : b \in audit /\ b.by = c
    BY DEF RowsOf
  <2> HIDE DEF c, k, L
  <2>7. r.place \in DOMAIN L /\ r.row = L[r.place] /\ r.place \in 1 .. k
    BY <2>1, <2>2, <2>4, <2>5
  <2>8. ASSUME r.place # 1
        PROVE  \E b \in audit : b.by = c /\ b.place = r.place - 1 /\ b.row = L[r.place - 1]
    <3>1. r.place - 1 \in 1 .. k
      BY <2>4, <2>7, <2>8
    <3>2. PICK b \in RowsOf(c) : b.place = r.place - 1
      BY <2>4, <3>1
    <3> QED BY <2>4, <2>6, <3>2
  <2> QED BY <2>2, <2>7, <2>8 DEF IsPath, c
<1> QED BY <1>1, TypeInit, TypeStep, WalkInit, WalkStep, PTL DEF Spec, WalkInv

=============================================================================
