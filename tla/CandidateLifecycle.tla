------------------------- MODULE CandidateLifecycle -------------------------
(***************************************************************************)
(* What one scan makes of a symbol, and how the candidate table remembers     *)
(* it.  ScanOrchestrator.process (orchestration.py:91-183) walks a fresh      *)
(* candidate through the state machine: score bands, trigger, execution      *)
(* gate, risk gate.  The caller, a request of the HTTP API or the worker,     *)
(* writes the result over the symbol's row and appends audit rows, each      *)
(* write a transaction of its own.                                          *)
(*                                                                         *)
(* Requests are parsed without bounds on their numbers: prices, in ticks, and *)
(* money, in units of one tick, may be infinite or NaN.  The quotients of the *)
(* code are compared by cross-multiplication.                               *)
(***************************************************************************)
EXTENDS Floats, FiniteSets, Sequences

CONSTANTS
    Symbols,
    Requests,        \* POST /api/v1/scans/process requests
    Scans,           \* evaluations by the worker, one at a time
    Inputs,          \* scans: what the requests hand to process
    ScanInputs,      \* what the worker hands to it
    Accounts,        \* what the requests say of the account
    WorkerAccount,   \* what the worker is configured with
    None,
    DiscoveryMin, WatchMin, ArmedMin, APlusMin,
    GateRewardRisk,  \* min_reward_risk of the score policy
    MinRewardRisk,   \* min_reward_risk of the risk policy
    MinPrice, NormalRiskPct, ExceptionalRiskPct, MaxHeatPct, DailyLossPct

Callers == Requests \union Scans

Price == Float \union {None}

\* composite_score of the four components: a component outside 0 .. 100 has none,
\* a NaN among them makes it NaN.
Score == Nat \union {NaN}
Input == [score : Score \union {None}, trigger : BOOLEAN, entry : Price, stop : Price,
          target : Price, last : Price, verified : BOOLEAN, liquid : BOOLEAN]
Account == [equity : Float, heat : Float, loss : Float, exceptional : BOOLEAN]

ASSUME CallerAssumption ==
    /\ Requests \intersect Scans = {}
    /\ Inputs \subseteq Input /\ Accounts \subseteq Account /\ WorkerAccount \in Account
    /\ None \notin Float /\ None \notin Symbols

\* The worker's data is verified only with a last price that is a number
\* (market_data.py:56-82); its levels come from the plan, unchecked.
ASSUME ScanInputAssumption ==
    ScanInputs \subseteq Inputs /\ \A s \in ScanInputs : s.verified => s.last \in Int

\* The default policies keep the bands in order; ScorePolicy does not check it.
ASSUME PolicyAssumption ==
    /\ {DiscoveryMin, WatchMin, ArmedMin, APlusMin} \subseteq Nat
    /\ DiscoveryMin <= WatchMin /\ WatchMin <= ArmedMin /\ ArmedMin <= APlusMin
    /\ {GateRewardRisk, MinRewardRisk, MinPrice, NormalRiskPct, ExceptionalRiskPct,
        MaxHeatPct, DailyLossPct} \subseteq Nat \ {0}

-----------------------------------------------------------------------------
(* The state machine                                                       *)

ALLOWED_TRANSITIONS == [
    DISCOVERED |-> {"WATCH", "NEAR_TRIGGER", "REJECTED", "EXPIRED"},
    WATCH |-> {"NEAR_TRIGGER", "ARMED", "INVALIDATED", "REJECTED", "EXPIRED"},
    NEAR_TRIGGER |-> {"ARMED", "TRADE_READY_UNDERLYING", "INVALIDATED", "REJECTED", "EXPIRED"},
    ARMED |-> {"TRIGGERED", "TRADE_READY_UNDERLYING", "INVALIDATED", "REJECTED", "EXPIRED"},
    TRADE_READY_UNDERLYING |-> {"OPTION_VALIDATION_PENDING", "TRIGGERED",
                                "EXECUTION_BLOCKED", "INVALIDATED", "EXPIRED"},
    OPTION_VALIDATION_PENDING |-> {"TRADE_READY", "EXECUTION_BLOCKED", "INVALIDATED", "EXPIRED"},
    EXECUTION_BLOCKED |-> {"NEAR_TRIGGER", "TRADE_READY_UNDERLYING",
                           "OPTION_VALIDATION_PENDING", "INVALIDATED", "EXPIRED"},
    TRIGGERED |-> {"TRADE_READY", "OPTION_VALIDATION_PENDING", "EXECUTION_BLOCKED",
                   "INVALIDATED", "REJECTED", "EXPIRED"},
    TRADE_READY |-> {"ENTERED", "INVALIDATED", "REJECTED", "EXPIRED"},
    ENTERED |-> {"MANAGE", "EXITED"},
    MANAGE |-> {"EXITED"},
    EXITED |-> {}, INVALIDATED |-> {}, REJECTED |-> {}, EXPIRED |-> {}]

States == DOMAIN ALLOWED_TRANSITIONS

can_transition(current, target) == target \in ALLOWED_TRANSITIONS[current]

-----------------------------------------------------------------------------
(* The hard gates                                                          *)

Risk(s) == Minus(s.entry, s.stop)
Reward(s) == Minus(s.target, s.entry)

\* reward / risk < k, for a positive risk.  A finite reward over an infinite risk
\* is zero, an infinite one NaN.
Thin(s, k) ==
    \/ Risk(s) \in Int /\ Less(Reward(s), k * Risk(s))
    \/ Risk(s) = PosInf /\ Reward(s) \in Int

Levels(s) == {s.entry, s.stop, s.target}

\* (mutant: a price above the trigger is not chased away)
ExecutionReasons_NoChaseGuard(s) ==
    {r \in {"DATA_NOT_VERIFIED", "SCORE_BELOW_A_PLUS", "NO_LEVEL"} :
        \/ r = "DATA_NOT_VERIFIED" /\ ~ s.verified
        \/ r = "SCORE_BELOW_A_PLUS" /\ Less(s.score, APlusMin)
        \/ r = "NO_LEVEL" /\ None \in Levels(s)}
    \union
    {r \in {"INVALID_STOP", "INVALID_TARGET", "REWARD_RISK_GATE"} :
        /\ None \notin Levels(s)
        /\ \/ r = "INVALID_STOP" /\ AtMost(s.entry, s.stop)
           \/ r = "INVALID_TARGET" /\ AtMost(s.target, s.entry)
           \/ r = "REWARD_RISK_GATE" /\ (AtMost(Risk(s), 0) \/ Thin(s, GateRewardRisk))}

\* execution_gate.  NO_LEVEL stands for a missing entry, stop or target; the
\* comparisons that two of the three levels allow can only add to it.
ExecutionReasons(s) ==
    {r \in {"DATA_NOT_VERIFIED", "SCORE_BELOW_A_PLUS", "NO_LEVEL", "CHASE_GUARD"} :
        \/ r = "DATA_NOT_VERIFIED" /\ ~ s.verified
        \/ r = "SCORE_BELOW_A_PLUS" /\ Less(s.score, APlusMin)
        \/ r = "NO_LEVEL" /\ None \in Levels(s)
        \/ r = "CHASE_GUARD" /\ None \notin {s.last, s.entry} /\ Less(s.entry, s.last)}
    \union
    {r \in {"INVALID_STOP", "INVALID_TARGET", "REWARD_RISK_GATE"} :
        /\ None \notin Levels(s)
        /\ \/ r = "INVALID_STOP" /\ AtMost(s.entry, s.stop)
           \/ r = "INVALID_TARGET" /\ AtMost(s.target, s.entry)
           \/ r = "REWARD_RISK_GATE" /\ (AtMost(Risk(s), 0) \/ Thin(s, GateRewardRisk))}

RiskPct(a) == IF a.exceptional THEN ExceptionalRiskPct ELSE NormalRiskPct

\* (mutant: the heat already on is forgotten)
Budget_IgnoresHeat(a) == PyMin(Times(RiskPct(a), a.equity), Times(MaxHeatPct, a.equity))

\* risk_budget, in hundredths: what one trade may risk, and what heat is left.
Budget(a) ==
    PyMin(Times(RiskPct(a), a.equity),
          PyMax(0, Minus(Times(MaxHeatPct, a.equity), Times(100, a.heat))))

\* int(risk_budget // per_share_risk), where it is a number.
Shares(s, a) ==
    IF Risk(s) \in Int /\ 0 < Risk(s) /\ Budget(a) \in Int
    THEN Budget(a) \div (100 * Risk(s)) ELSE 0

\* The floor quotient of an infinite budget is NaN, and int() of it raises.
SizingRaises(s, a) == Less(0, Risk(s)) /\ Budget(a) \notin Int

\* evaluate_trade's reasons to refuse, for a scan that has its three levels.
RiskReasons(s, a) ==
    {r \in {"INVALID_EQUITY", "INVALID_PRICES", "STOP_NOT_BELOW_ENTRY",
            "TARGET_NOT_ABOVE_ENTRY", "DATA_NOT_VERIFIED", "PRICE_BELOW_GATE",
            "LIQUIDITY_GATE", "DAILY_LOSS_LIMIT", "REWARD_RISK_GATE",
            "NO_VALID_POSITION_SIZE"} :
        \/ r = "INVALID_EQUITY" /\ AtMost(a.equity, 0)
        \/ r = "INVALID_PRICES" /\ \E p \in Levels(s) : AtMost(p, 0)
        \/ r = "STOP_NOT_BELOW_ENTRY" /\ AtMost(s.entry, s.stop)
        \/ r = "TARGET_NOT_ABOVE_ENTRY" /\ AtMost(s.target, s.entry)
        \/ r = "DATA_NOT_VERIFIED" /\ ~ s.verified
        \/ r = "PRICE_BELOW_GATE" /\ Less(s.entry, MinPrice)
        \/ r = "LIQUIDITY_GATE" /\ ~ s.liquid
        \/ r = "DAILY_LOSS_LIMIT" /\ AtMost(Times(DailyLossPct, a.equity), Times(100, a.loss))
        \/ r = "REWARD_RISK_GATE" /\ (~ Less(0, Risk(s)) \/ Thin(s, MinRewardRisk))
        \/ r = "NO_VALID_POSITION_SIZE" /\ Shares(s, a) < 1}

-----------------------------------------------------------------------------
(* ScanOrchestrator.process                                                *)

Scored(s, min) == AtMost(min, s.score)
Armed(s) == Scored(s, ArmedMin) /\ s.trigger

GateReasons(s, a) ==
    IF ExecutionReasons(s) # {} THEN ExecutionReasons(s) ELSE RiskReasons(s, a)

\* (mutant: a score that meets ARMED moves there without passing WATCH)
Moves_StraightToArmed(s, a) ==
    IF Less(s.score, DiscoveryMin) THEN <<"REJECTED">>
    ELSE (IF Scored(s, WatchMin) /\ ~ Armed(s) THEN <<"WATCH">> ELSE <<>>)
         \o (IF Scored(s, ArmedMin) /\ ~ s.trigger THEN <<"NEAR_TRIGGER">> ELSE <<>>)
         \o (IF ~ Armed(s) THEN <<>>
             ELSE <<"ARMED", "TRIGGERED",
                    IF GateReasons(s, a) # {} THEN "INVALIDATED" ELSE "TRADE_READY">>)

\* The states lifecycle.move is asked for, in order.
Moves(s, a) ==
    IF Less(s.score, DiscoveryMin) THEN <<"REJECTED">>
    ELSE (IF Scored(s, WatchMin) THEN <<"WATCH">> ELSE <<>>)
         \o (IF Scored(s, ArmedMin) /\ ~ s.trigger THEN <<"NEAR_TRIGGER">> ELSE <<>>)
         \o (IF ~ Armed(s) THEN <<>>
             ELSE <<"ARMED", "TRIGGERED",
                    IF GateReasons(s, a) # {} THEN "INVALIDATED" ELSE "TRADE_READY">>)

\* process ends in an exception: composite_score refuses a component, or
\* evaluate_trade gets a quotient that is no number.
Raises(s, a) ==
    s.score = None \/ (Armed(s) /\ ExecutionReasons(s) = {} /\ SizingRaises(s, a))

\* The state before the i-th move.
Before(moves, i) == IF i = 1 THEN "DISCOVERED" ELSE moves[i - 1]
LegalMoves(moves) == \A i \in DOMAIN moves : can_transition(Before(moves, i), moves[i])
Final(moves) == Before(moves, Len(moves) + 1)

\* (mutant: a score below discovery is rejected without a reason)
RejectionReasons_OnlyGates(s, a) ==
    IF s.trigger /\ ~ Armed(s) THEN {"TRIGGER_REQUIRES_ARMED"}
    ELSE IF Armed(s) THEN GateReasons(s, a) ELSE {}

RejectionReasons(s, a) ==
    IF Less(s.score, DiscoveryMin) THEN {"SCORE_BELOW_DISCOVERY"}
    ELSE IF s.trigger /\ ~ Armed(s) THEN {"TRIGGER_REQUIRES_ARMED"}
    ELSE IF Armed(s) THEN GateReasons(s, a) ELSE {}

\* The columns of the candidate table, as process leaves the candidate.
CandidateOf(s, a) ==
    [state |-> Final(Moves(s, a)), score |-> s.score, entry |-> s.entry, stop |-> s.stop,
     target |-> s.target, last |-> s.last, verified |-> s.verified,
     reasons |-> RejectionReasons(s, a)]

Columns == {"state", "score", "entry", "stop", "target", "last", "verified", "reasons"}

\* The rows a request appends: its ledger, one row per move and one for the sizing.
LedgerOf(s, a) ==
    LET moves == Moves(s, a)
        size == Shares(s, a)
    IN  [i \in DOMAIN moves |->
            [event |-> "STATE_TRANSITION", from |-> Before(moves, i), to |-> moves[i],
             shares |-> 0, risk |-> 0]]
        \o (IF Final(moves) = "TRADE_READY"
            THEN <<[event |-> "TRADE_READY", from |-> "TRADE_READY", to |-> "TRADE_READY",
                    shares |-> size, risk |-> size * Risk(s)]>>
            ELSE <<>>)

\* What the worker appends: its orchestrator's ledger stays in memory.
Qualified(s, a) ==
    <<[event |-> "CANDIDATE_QUALIFIED", from |-> Final(Moves(s, a)),
       to |-> Final(Moves(s, a)), shares |-> 0, risk |-> 0]>>

-----------------------------------------------------------------------------
(* Callers and stores                                                      *)

VARIABLES
    rows,       \* candidate table: a row per symbol, or None
    audit,      \* audit rows: who appended them, in which place, and the row
    pc,         \* the caller's next step
    symbol,     \* the symbol it evaluates
    input,      \* the scan and the account it evaluates it with
    loaded,     \* the row its upsert found
    pending,    \* audit rows it has yet to append
    contended   \* history: symbols that two callers evaluated at a time

vars == <<rows, audit, pc, symbol, input, loaded, pending, contended>>

NoInput == [scan |-> None, account |-> None]
Result(c) == CandidateOf(input[c].scan, input[c].account)
InFlight(c) == pc[c] \in {"load", "flush", "append"}

Init ==
    /\ rows = [s \in Symbols |-> None]
    /\ audit = {}
    /\ pc = [c \in Callers |-> "idle"]
    /\ symbol = [c \in Callers |-> None]
    /\ input = [c \in Callers |-> NoInput]
    /\ loaded = [c \in Callers |-> None]
    /\ pending = [c \in Callers |-> <<>>]
    /\ contended = {}

\* Requests come at any time; the worker evaluates one symbol after the other.
MayStart(c) == pc[c] = "idle" /\ (c \in Scans => \A d \in Scans : ~ InFlight(d))

OthersAt(sym) == \E d \in Callers : InFlight(d) /\ symbol[d] = sym

\* process() runs on its caller's own objects: when it raises, halfway through
\* its moves or before them, nothing of it is stored.
Evaluate(c) ==
    /\ MayStart(c)
    /\ \E sym \in Symbols, s \in IF c \in Scans THEN ScanInputs ELSE Inputs,
          a \in IF c \in Scans THEN {WorkerAccount} ELSE Accounts :
        /\ symbol' = [symbol EXCEPT ![c] = sym]
        /\ input' = [input EXCEPT ![c] = [scan |-> s, account |-> a]]
        /\ pc' = [pc EXCEPT ![c] = IF Raises(s, a) \/ ~ LegalMoves(Moves(s, a))
                                   THEN "raised" ELSE "load"]
        /\ pending' = [pending EXCEPT ![c] =
                        IF c \in Scans THEN Qualified(s, a) ELSE LedgerOf(s, a)]
        /\ contended' = IF OthersAt(sym) THEN contended \union {sym} ELSE contended
    /\ UNCHANGED <<rows, audit, loaded>>

\* upsert(): session.get ...
Load(c) ==
    /\ pc[c] = "load"
    /\ loaded' = [loaded EXCEPT ![c] = rows[symbol[c]]]
    /\ pc' = [pc EXCEPT ![c] = "flush"]
    /\ UNCHANGED <<rows, audit, symbol, input, pending, contended>>

\* (mutant: columns that did not change are written as NULL)
Written_Nulls(row, old, new) ==
    [k \in Columns |-> IF new[k] # old[k] THEN new[k] ELSE None]

\* ... every column assigned, and an UPDATE of the columns that differ; a NaN
\* differs from itself ...
Written(row, old, new) ==
    [k \in Columns |-> IF new[k] # old[k] \/ new[k] = NaN THEN new[k] ELSE row[k]]

Update(c) ==
    /\ pc[c] = "flush" /\ loaded[c] # None
    /\ rows' = [rows EXCEPT ![symbol[c]] = Written(@, loaded[c], Result(c))]
    /\ pc' = [pc EXCEPT ![c] = "append"]
    /\ UNCHANGED <<audit, symbol, input, loaded, pending, contended>>

\* ... or an INSERT, which the primary key refuses when another came first.
Insert(c) ==
    /\ pc[c] = "flush" /\ loaded[c] = None /\ rows[symbol[c]] = None
    /\ rows' = [rows EXCEPT ![symbol[c]] = Result(c)]
    /\ pc' = [pc EXCEPT ![c] = "append"]
    /\ UNCHANGED <<audit, symbol, input, loaded, pending, contended>>

InsertRefused(c) ==
    /\ pc[c] = "flush" /\ loaded[c] = None /\ rows[symbol[c]] # None
    /\ pc' = [pc EXCEPT ![c] = "done"]
    /\ UNCHANGED <<rows, audit, symbol, input, loaded, pending, contended>>

\* (mutant: the newest row of the ledger is appended first)
NextRow_Last(c) == pending[c][Len(pending[c])]

\* The row of the ledger to append next.
NextRow(c) == Head(pending[c])

AppendRow(c) ==
    /\ pc[c] = "append" /\ pending[c] # <<>>
    /\ audit' = audit \union
        {[by |-> c, place |-> Cardinality({r \in audit : r.by = c}) + 1,
          symbol |-> symbol[c], row |-> NextRow(c)]}
    /\ pending' = [pending EXCEPT ![c] = Tail(@)]
    /\ UNCHANGED <<rows, pc, symbol, input, loaded, contended>>

Finish(c) ==
    /\ pc[c] = "append" /\ pending[c] = <<>>
    /\ pc' = [pc EXCEPT ![c] = "done"]
    /\ UNCHANGED <<rows, audit, symbol, input, loaded, pending, contended>>

\* A database error, or the end of the caller's process, between two commits.
Abort(c) ==
    /\ InFlight(c)
    /\ pc' = [pc EXCEPT ![c] = "done"]
    /\ UNCHANGED <<rows, audit, symbol, input, loaded, pending, contended>>

Next == \E c \in Callers :
    \/ Evaluate(c) \/ Load(c) \/ Update(c) \/ Insert(c) \/ InsertRefused(c)
    \/ AppendRow(c) \/ Finish(c) \/ Abort(c)

Spec == Init /\ [][Next]_vars

-----------------------------------------------------------------------------
(* Properties                                                              *)

Reasons == {
    "SCORE_BELOW_DISCOVERY", "TRIGGER_REQUIRES_ARMED", "DATA_NOT_VERIFIED",
    "SCORE_BELOW_A_PLUS", "NO_LEVEL", "CHASE_GUARD", "INVALID_STOP", "INVALID_TARGET",
    "REWARD_RISK_GATE", "INVALID_EQUITY", "INVALID_PRICES", "STOP_NOT_BELOW_ENTRY",
    "TARGET_NOT_ABOVE_ENTRY", "PRICE_BELOW_GATE", "LIQUIDITY_GATE", "DAILY_LOSS_LIMIT",
    "NO_VALID_POSITION_SIZE"}
Cells == [state : States, score : Score, entry : Price, stop : Price, target : Price,
          last : Price, verified : BOOLEAN, reasons : SUBSET Reasons]

\* No row is the absence of one.
ASSUME NoRowAssumption == None \notin Cells

TypeOK ==
    /\ rows \in [Symbols -> Cells \union {None}]
    /\ pc \in [Callers -> {"idle", "raised", "load", "flush", "append", "done"}]
    /\ symbol \in [Callers -> Symbols \union {None}]
    /\ contended \subseteq Symbols
    /\ \A c \in Callers :
        /\ InFlight(c) => /\ symbol[c] \in Symbols
                          /\ input[c].scan \in Inputs /\ input[c].scan.score # None
                          /\ input[c].account \in Accounts \union {WorkerAccount}
        /\ pc[c] \in {"flush", "append"} => loaded[c] \in Cells \union {None}
        /\ pc[c] = "append" => rows[symbol[c]] # None

\* An evaluation ends in an exception only over a score component out of range or
\* an equity that is no finite number: never over a move the state machine refuses
\* (state_machine.py:25-32), nor over what levels, heat or daily loss are, infinite
\* and NaN included (orchestration.py:91-183, risk.py:63).
OnlyBadInputRaises ==
    \A c \in Callers : pc[c] = "raised" =>
        input[c].scan.score = None \/ input[c].account.equity \notin Int

\* What the account's limits say of a sizing.  A NaN daily loss passes its gate.
Sized(row, a) == row.event = "TRADE_READY" =>
    /\ row.shares >= 1
    /\ a.equity \in Int
    /\ 100 * row.risk <= RiskPct(a) * a.equity
    /\ AtMost(Times(100, a.heat), MaxHeatPct * a.equity - 100 * row.risk)
    /\ a.loss # NaN => Less(Times(100, a.loss), DailyLossPct * a.equity)

\* "Planned risk exceeds per-trade limit", "portfolio heat would exceed limit",
\* "daily loss limit blocks new risk", "position size rounds below one share"
\* (docs/STATE_MACHINE.md): none is true of a sizing that was audited, whatever
\* numbers the request holds, the NaN daily loss excepted.
SizedWithinLimits == \A r \in audit : Sized(r.row, input[r.by].account)

\* Verified data, a top score, and a finite stop below a finite entry.
LevelsInOrder(row) ==
    /\ row.verified /\ AtMost(APlusMin, row.score)
    /\ {row.entry, row.stop} \subseteq Int
    /\ 0 < row.stop /\ row.stop < row.entry /\ MinPrice <= row.entry

\* The target is worth the risk, by either policy.
EnoughReward(row) ==
    \A k \in {GateRewardRisk, MinRewardRisk} :
        AtMost(row.entry + k * (row.entry - row.stop), row.target)

NotChased(row) == row.last # None => AtMost(row.last, row.entry)

IsTradeReady(s) == rows[s] # None /\ rows[s].state = "TRADE_READY"

\* A row that says TRADE_READY shows data that is verified, a stop and an entry
\* that are numbers in order, and, where target and last price are numbers, enough
\* reward and a price that was not chased (docs/STATE_MACHINE.md, hard execution
\* gates).  It says so of the stored row, whose columns are what the API shows, not
\* of the scan it came from; a symbol that two callers evaluate at the same time is
\* excepted.
TradeReadyRowIsExecutable ==
    \A s \in Symbols \ contended : IsTradeReady(s) =>
        /\ LevelsInOrder(rows[s])
        /\ rows[s].target # NaN => EnoughReward(rows[s])
        /\ rows[s].last # NaN => NotChased(rows[s])

\* "Rejection reason is mandatory" (docs/STATE_MACHINE.md), and no reason stays
\* on a row that passed; again of symbols that are not contended.
RefusalHasReason ==
    \A s \in Symbols \ contended : rows[s] # None =>
        /\ rows[s].state \in {"REJECTED", "INVALIDATED"} => rows[s].reasons # {}
        /\ rows[s].state = "TRADE_READY" => rows[s].reasons = {}

\* What one evaluation left in the audit table, complete or cut short, reads as a
\* walk of the state machine from DISCOVERED, without gaps, and its sizing comes
\* after the move to TRADE_READY.
AuditIsPath ==
    \A r \in audit :
        /\ r.row.event = "STATE_TRANSITION" => can_transition(r.row.from, r.row.to)
        /\ r.row.event # "CANDIDATE_QUALIFIED" =>
            IF r.place = 1 THEN r.row.from = "DISCOVERED"
            ELSE \E b \in audit : b.by = r.by /\ b.place = r.place - 1
                                  /\ b.row.event = "STATE_TRANSITION"
                                  /\ b.row.to = r.row.from

-----------------------------------------------------------------------------
(* What the documents say and the code does not do                         *)

\* "A candidate cannot enter TRADE READY if any of these fail"
\* (docs/STATE_MACHINE.md:60): said of every row, contended or not.
TradeReadyAlwaysExecutable ==
    \A s \in Symbols : IsTradeReady(s) =>
        LevelsInOrder(rows[s]) /\ EnoughReward(rows[s]) /\ NotChased(rows[s])

=============================================================================
