---------------------------- MODULE Qualification ----------------------------
(***************************************************************************)
(* How a scan gets its market data.  The executor (scan_executor.py:78-95)    *)
(* takes the requests of a discovery plan, reads the clock once, and then     *)
(* asks the provider for one symbol after the other; qualification.py and     *)
(* market_data.py decide whether the answer may be used.  Only a verified     *)
(* answer can make a candidate TRADE_READY (CandidateLifecycle).            *)
(*                                                                         *)
(* Time passes while the provider answers.  Times are in ticks of market     *)
(* time; a vendor's clock may be ahead of ours.                             *)
(***************************************************************************)
EXTENDS Integers, Sequences, SequencesExt

CONSTANTS
    Spellings,    \* symbols as plans and vendors write them
    Blank,        \* what a spelling of white space comes to
    Normal,       \* spelling -> symbol: strip().upper()
    Plans,        \* the discovery items a scan may find: sequences of spellings
    Payloads,     \* the numeric fields a vendor may send, as qualities
    Naive,        \* a time stamp without a zone
    MaxAge,       \* max_age_seconds
    Skew,         \* bound: how far a vendor's clock is ahead
    MaxTime       \* bound: the clock stops here

Symbols == {Normal[x] : x \in Spellings} \ {Blank}

\* What a field holds: a usable number, none, NaN or an infinity, or a number
\* below what it may be.
Quality == {"ok", "none", "nan", "low"}
Fields == {"last_price", "vwap", "rvol", "relative_strength", "adv_shares",
           "adv_dollars", "latency_ms"}
Values == [Fields -> Quality]

ASSUME VendorAssumption ==
    /\ DOMAIN Normal = Spellings
    /\ Plans \subseteq Seq(Spellings)
    /\ Payloads \subseteq Values
    /\ MaxAge \in Nat /\ Skew \in Nat /\ MaxTime \in Nat /\ Naive \notin Int

VARIABLES
    now,         \* the clock
    fetcher,     \* what MARKET_DATA_PROVIDER and the caller configured
    phase,       \* where the scan is
    items,       \* what the discovery plan lists for the scan
    requests,    \* what the plan makes of it
    started,     \* execution_time
    evaluated,   \* the snapshots handed to the orchestrator, in order
    taken        \* history: the last answer used and when it came

scan == <<fetcher, items, requests, started>>
vars == <<now, phase, scan, evaluated, taken>>

\* No fetcher (none, unsupported or without a base URL), the HTTP adapter of
\* factory.py, or a function handed to ConfiguredMarketDataProvider.
Fetchers == {"none", "http", "function"}

Init ==
    /\ now = 0 /\ started = 0
    /\ fetcher \in Fetchers
    /\ phase = "idle"
    /\ items = <<>> /\ requests = <<>> /\ evaluated = <<>>
    /\ taken = [answer |-> [kind |-> "unavailable"], at |-> 0]

Tick ==
    /\ now < MaxTime /\ now' = now + 1
    /\ UNCHANGED <<phase, scan, evaluated, taken>>

-----------------------------------------------------------------------------
(* The plan                                                                *)

\* (mutant: symbols are compared as they are written)
Select_AsWritten(chosen, x) ==
    IF Normal[x] = Blank \/ \E i \in DOMAIN chosen : chosen[i] = x THEN chosen
    ELSE Append(chosen, x)

\* One turn of the loop of ProductionDiscoveryPlan.requests.
Select(chosen, x) ==
    IF Normal[x] = Blank \/ Contains(chosen, Normal[x]) THEN chosen
    ELSE Append(chosen, Normal[x])

RequestsOf(plan) ==
    LET chosen[n \in 0 .. Len(plan)] ==
            IF n = 0 THEN <<>> ELSE Select(chosen[n - 1], plan[n])
    IN  chosen[Len(plan)]

\* execute: the plan first, then the clock, once for the whole scan.
Begin ==
    /\ phase = "idle"
    /\ \E plan \in Plans :
        /\ items' = plan
        /\ requests' = RequestsOf(plan)
        /\ phase' = IF RequestsOf(plan) = <<>> THEN "no_plan" ELSE "scanning"
    /\ started' = now
    /\ UNCHANGED <<now, fetcher, evaluated, taken>>

-----------------------------------------------------------------------------
(* The provider.  It answers with a snapshot, is unavailable (any exception   *)
(* or a wrong type included), or raises MarketDataProviderError itself.      *)

Stamps == {t \in 0 .. MaxTime + Skew : t <= now + Skew} \union {Naive}

\* vouched: verified is true and verification_reasons is empty
Snapshots == [kind : {"snapshot"}, spelling : Spellings, stamp : Stamps,
              values : Payloads, vouched : BOOLEAN]
Answers == Snapshots \union {[kind |-> "unavailable"], [kind |-> "error"]}

Nothing == [f \in Fields |-> "none"]

\* unverified_snapshot, for a symbol in normal form
Unverified(symbol, stamp) ==
    [symbol |-> symbol, stamp |-> stamp, values |-> Nothing, verified |-> FALSE]

Unusable(field, quality) ==
    \/ quality = "none" /\ field # "latency_ms"
    \/ quality = "nan"
    \/ quality = "low" /\ field # "relative_strength"

\* (mutant: only the age limit is looked at, not the sign of the age)
TimeReasons_AgeOnly(stamp, t) ==
    IF stamp = Naive THEN {"TIMESTAMP_MUST_BE_TIMEZONE_AWARE"}
    ELSE IF t - stamp > MaxAge THEN {"STALE_DATA"} ELSE {}

TimeReasons(stamp, t) ==
    IF stamp = Naive THEN {"TIMESTAMP_MUST_BE_TIMEZONE_AWARE"}
    ELSE IF t - stamp < 0 THEN {"TIMESTAMP_IN_FUTURE"}
    ELSE IF t - stamp > MaxAge THEN {"STALE_DATA"} ELSE {}

ValueReasons(values) == {f \in Fields : Unusable(f, values[f])}

\* (mutant: the snapshot keeps the vendor's spelling)
Validated_AsSpelled(raw, t) ==
    [symbol |-> raw.spelling, stamp |-> raw.stamp, values |-> raw.values,
     verified |-> /\ raw.vouched /\ Normal[raw.spelling] # Blank
                  /\ TimeReasons(raw.stamp, t) = {} /\ ValueReasons(raw.values) = {}]

\* validate_snapshot
Validated(raw, t) ==
    [symbol |-> Normal[raw.spelling], stamp |-> raw.stamp, values |-> raw.values,
     verified |-> /\ raw.vouched /\ Normal[raw.spelling] # Blank
                  /\ TimeReasons(raw.stamp, t) = {} /\ ValueReasons(raw.values) = {}]

\* ConfiguredMarketDataProvider.snapshot.  The HTTP adapter is an object with a
\* method and fetch_verified_snapshot calls it as a function: the TypeError is
\* taken for an unavailable provider.
Fetched(answer) == fetcher = "function" /\ answer.kind = "snapshot"

\* QualificationService.qualify up to the orchestrator.
SnapshotFor(symbol, answer) ==
    IF ~ Fetched(answer) THEN Unverified(symbol, now)
    ELSE IF Normal[answer.spelling] # symbol THEN Unverified(symbol, started)
    ELSE Validated(answer, started)

\* The request whose turn it is.
Turn == Len(evaluated) + 1
Asking == phase = "scanning" /\ Turn <= Len(requests)

\* ScanInput.from_snapshot turns adv_shares into an int: NaN raises.
NotAnInteger(answer) == SnapshotFor(requests[Turn], answer).values["adv_shares"] = "nan"

Evaluation(answer) ==
    LET s == SnapshotFor(requests[Turn], answer)
    IN  [symbol |-> s.symbol, verified |-> s.verified]

Raises(answer) ==
    \/ fetcher = "function" /\ answer.kind = "error"
    \/ NotAnInteger(answer)

Qualify ==
    /\ Asking
    /\ \E answer \in Answers :
        /\ ~ Raises(answer)
        /\ evaluated' = Append(evaluated, Evaluation(answer))
        /\ taken' = [answer |-> answer, at |-> now]
    /\ UNCHANGED <<now, phase, scan>>

\* The exception leaves execute: the rest of the plan is given up.
QualifyRaises ==
    /\ Asking
    /\ \E answer \in Answers : Raises(answer)
    /\ phase' = "failed"
    /\ UNCHANGED <<now, scan, evaluated, taken>>

Return ==
    /\ phase = "scanning" /\ Turn > Len(requests)
    /\ phase' = "done"
    /\ UNCHANGED <<now, scan, evaluated, taken>>

Next == Tick \/ Begin \/ Qualify \/ QualifyRaises \/ Return

Spec == Init /\ [][Next]_vars

-----------------------------------------------------------------------------
(* Properties                                                              *)

AnswersEver ==
    [kind : {"snapshot"}, spelling : Spellings, stamp : (0 .. MaxTime + Skew) \union {Naive},
     values : Payloads, vouched : BOOLEAN]
    \union {[kind |-> "unavailable"], [kind |-> "error"]}

TypeOK ==
    /\ now \in 0 .. MaxTime /\ started \in 0 .. now
    /\ fetcher \in Fetchers
    /\ phase \in {"idle", "scanning", "no_plan", "done", "failed"}
    /\ items \in Seq(Spellings) /\ requests \in Seq(Symbols)
    /\ evaluated \in Seq([symbol : Symbols, verified : BOOLEAN])
    /\ Len(evaluated) <= Len(requests)
    /\ taken \in [answer : AnswersEver, at : 0 .. now]

\* The answer just taken is used as verified data.
Trusted == evaluated # <<>> /\ Last(evaluated).verified

\* "Provider failures, stale data, incomplete snapshots, and symbol-identity
\* mismatches remain fail-closed" (qualification.py:29-31): what is used as
\* verified came from a configured function, for this symbol, vouched for, with
\* every number usable, not from the future, and at the start of the scan no
\* older than the limit.
FailsClosed == Trusted =>
    /\ fetcher = "function" /\ taken.answer.kind = "snapshot"
    /\ taken.answer.vouched
    /\ Normal[taken.answer.spelling] = requests[Len(evaluated)]
    /\ \A f \in Fields \ {"latency_ms", "relative_strength"} : taken.answer.values[f] = "ok"
    /\ taken.answer.values["relative_strength"] \in {"ok", "low"}
    /\ taken.answer.values["latency_ms"] \in {"ok", "none"}
    /\ taken.answer.stamp # Naive
    /\ started - MaxAge <= taken.answer.stamp /\ taken.answer.stamp <= taken.at

\* A scan that returns has evaluated every symbol its plan lists, however it is
\* written there, once, and nothing else (discovery.py:37-54, scan_executor.py:88).
EachOnce ==
    /\ \A i, j \in DOMAIN evaluated : evaluated[i].symbol = evaluated[j].symbol => i = j
    /\ phase \in {"done", "no_plan"} =>
        {evaluated[i].symbol : i \in DOMAIN evaluated}
            = {Normal[items[i]] : i \in DOMAIN items} \ {Blank}

-----------------------------------------------------------------------------
(* What the documents say and the code does not do                         *)

\* "Any decision dependent on unavailable, stale ... market data must be labeled
\* DATA NOT VERIFIED" (docs/TRADING_CHARTER.md:79): data is within the age limit
\* when the decision is taken, not only when the scan began.
VerifiedIsFresh == Trusted => taken.at - taken.answer.stamp <= MaxAge

=============================================================================
