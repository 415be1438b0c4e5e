------------------------ MODULE QualificationProofs ------------------------
(***************************************************************************)
(* Theorems about Qualification, for any plan, any vendor, any age limit and  *)
(* any speed of the clock.                                                  *)
(***************************************************************************)
EXTENDS Qualification, SequenceTheorems, WellFoundedInduction, TLAPS

-----------------------------------------------------------------------------
(* A sequence that grows                                                   *)

LEMMA LastOfAppend ==
    ASSUME NEW S, NEW s \in Seq(S), NEW e \in S
    PROVE  /\ Append(s, e) \in Seq(S) /\ Len(Append(s, e)) = Len(s) + 1
           /\ Append(s, e) # <<>> /\ Last(Append(s, e)) = e
<1>1. /\ Append(s, e) \in Seq(S) /\ Len(Append(s, e)) = Len(s) + 1
      /\ Append(s, e)[Len(s) + 1] = e /\ Len(s) \in Nat
  BY AppendProperties, LenProperties
<1>2. Append(s, e) # <<>>
  BY <1>1, EmptySeq, LenProperties
<1> QED BY <1>1, <1>2 DEF Last

-----------------------------------------------------------------------------
(* What validation vouches for                                             *)

\* What can be known of an answer that is used as verified at time t, when the
\* scan began at time s.
Sound(answer, symbol, s, t) ==
    /\ fetcher = "function" /\ answer.kind = "snapshot"
    /\ answer.vouched
    /\ Normal[answer.spelling] = symbol
    /\ \A f \in Fields \ {"latency_ms", "relative_strength"} : answer.values[f] = "ok"
    /\ answer.values["relative_strength"] \in {"ok", "low"}
    /\ answer.values["latency_ms"] \in {"ok", "none"}
    /\ answer.stamp # Naive
    /\ s - MaxAge <= answer.stamp /\ answer.stamp <= t

LEMMA UsableFields ==
    ASSUME NEW values \in Values, ValueReasons(values) = {}
    PROVE  /\ \A f \in Fields \ {"latency_ms", "relative_strength"} : values[f] = "ok"
           /\ values["relative_strength"] \in {"ok", "low"}
           /\ values["latency_ms"] \in {"ok", "none"}
<1>1. \A f \in Fields : values[f] \in Quality
  BY DEF Values
<1>2. \A f \in Fields : ~ Unusable(f, values[f])
  BY DEF ValueReasons
<1>3. {"latency_ms", "relative_strength"} \subseteq Fields
  BY DEF Fields
<1> QED BY <1>1, <1>2, <1>3 DEF Unusable, Quality

LEMMA TimelyStamp ==
    ASSUME NEW stamp \in Int \union {Naive}, NEW s \in Int, TimeReasons(stamp, s) = {}
    PROVE  stamp # Naive /\ s - MaxAge <= stamp /\ stamp <= s
BY VendorAssumption DEF TimeReasons

LEMMA VerifiedIsSound ==
    ASSUME NEW answer \in Answers, NEW symbol, started \in Nat, now \in Nat, started <= now,
           SnapshotFor(symbol, answer).verified = TRUE
    PROVE  Sound(answer, symbol, started, now)
<1>1. Fetched(answer) /\ Normal[answer.spelling] = symbol
  BY DEF SnapshotFor, Unverified
<1>2. Validated(answer, started).verified = TRUE
  BY <1>1 DEF SnapshotFor
<1>3. answer.vouched /\ TimeReasons(answer.stamp, started) = {} /\ ValueReasons(answer.values) = {}
  BY <1>2 DEF Validated
<1>4. answer.kind = "snapshot" /\ fetcher = "function"
  BY <1>1 DEF Fetched
<1>5. answer \in Snapshots
  BY <1>4 DEF Answers
<1>6. answer.stamp \in Int \union {Naive} /\ answer.values \in Values
  <2>1. answer.stamp \in Stamps /\ answer.values \in Payloads
    BY <1>5 DEF Snapshots
  <2>2. Stamps \subseteq Int \union {Naive}
    BY VendorAssumption DEF Stamps
  <2> QED BY <2>1, <2>2, VendorAssumption
<1>7. answer.stamp # Naive /\ started - MaxAge <= answer.stamp /\ answer.stamp <= started
  <2>1. started \in Int
    OBVIOUS
  <2> QED BY <1>3, <1>6, <2>1, TimelyStamp
<1>8. answer.stamp <= now
  BY <1>6, <1>7
<1> QED BY <1>1, <1>3, <1>4, <1>6, <1>7, <1>8, UsableFields DEF Sound

-----------------------------------------------------------------------------
(* Only sound answers are trusted                                          *)

\* The symbols an evaluation can be of.
Evaluated == [symbol : {Normal[x] : x \in Spellings} \union {requests[i] : i \in Nat},
              verified : BOOLEAN]

TrustInv ==
    /\ now \in Nat /\ started \in Nat /\ started <= now
    /\ evaluated \in Seq(Evaluated)
    /\ phase = "idle" => evaluated = <<>>
    /\ FailsClosed

LEMMA InitTrust == Init => TrustInv
<1> SUFFICES ASSUME Init PROVE TrustInv
  OBVIOUS
<1>1. evaluated = <<>> /\ now = 0 /\ started = 0
  BY DEF Init
<1>2. evaluated \in Seq(Evaluated)
  BY <1>1
<1> QED BY <1>1, <1>2 DEF TrustInv, FailsClosed, Trusted

\* An answer that is used is one evaluation more, and the last.
LEMMA QualifyTrust ==
    ASSUME TrustInv, Qualify
    PROVE  TrustInv'
<1>1. PICK answer \in Answers :
        /\ evaluated' = Append(evaluated, Evaluation(answer))
        /\ taken' = [answer |-> answer, at |-> now]
  BY DEF Qualify
<1> DEFINE symbol == requests[Turn]
           e == Evaluation(answer)
<1>2. UNCHANGED <<now, phase, fetcher, requests, started>> /\ phase = "scanning"
  BY DEF Qualify, Asking, scan
<1>3. Len(evaluated) \in Nat /\ Turn \in Nat /\ Turn = Len(evaluated) + 1
  BY LenProperties DEF TrustInv, Turn
<1>4. e \in Evaluated
  <2>1. e.symbol = SnapshotFor(symbol, answer).symbol
        /\ e.verified = SnapshotFor(symbol, answer).verified
        /\ e = [symbol |-> e.symbol, verified |-> e.verified]
    BY DEF Evaluation
  <2>2. CASE ~ Fetched(answer) \/ Normal[answer.spelling] # symbol
    <3>1. e.symbol = symbol /\ e.verified = FALSE
      BY <2>1, <2>2 DEF SnapshotFor, Unverified
    <3> QED BY <2>1, <3>1, <1>3 DEF Evaluated
  <2>3. CASE Fetched(answer) /\ Normal[answer.spelling] = symbol
    <3>1. e.symbol = symbol /\ e.verified \in BOOLEAN
      BY <2>1, <2>3 DEF SnapshotFor, Validated
    <3> QED BY <2>1, <3>1, <1>3 DEF Evaluated
  <2> QED BY <2>2, <2>3
<1>5. Evaluated' = Evaluated
  BY <1>2 DEF Evaluated
<1>6. /\ evaluated' \in Seq(Evaluated) /\ Len(evaluated') = Turn
      /\ evaluated' # <<>> /\ Last(evaluated') = e
  BY <1>1, <1>3, <1>4, LastOfAppend DEF TrustInv
<1>7. ASSUME e.verified PROVE FailsClosed'
  <2>1. SnapshotFor(symbol, answer).verified = TRUE
    BY <1>4, <1>7 DEF Evaluation, Evaluated
  <2>2. Sound(answer, symbol, started, now)
    BY <2>1, VerifiedIsSound DEF TrustInv
  <2>3. taken'.answer = answer /\ taken'.at = now /\ requests'[Len(evaluated')] = symbol
    BY <1>1, <1>2, <1>6
  <2> QED BY <1>2, <2>2, <2>3 DEF Sound, FailsClosed
<1>8. ~ e.verified => FailsClosed'
  BY <1>6 DEF FailsClosed, Trusted
<1> QED BY <1>2, <1>5, <1>6, <1>7, <1>8 DEF TrustInv

LEMMA NextTrust == TrustInv /\ [Next]_vars => TrustInv'
<1> SUFFICES ASSUME TrustInv, [Next]_vars PROVE TrustInv'
  OBVIOUS
<1>1. ASSUME UNCHANGED <<fetcher, requests, started, evaluated, taken>>,
             now' \in Nat, now <= now', phase' # "idle" \/ phase' = phase
      PROVE  TrustInv'
  BY <1>1 DEF TrustInv, FailsClosed, Trusted, Evaluated
<1>2. CASE UNCHANGED vars
  BY <1>1, <1>2 DEF vars, scan, TrustInv
<1>3. CASE Tick
  BY <1>1, <1>3 DEF Tick, scan, TrustInv
<1>4. CASE Begin
  <2>1. evaluated' = <<>> /\ now' = now /\ started' = now
    BY <1>4 DEF Begin, TrustInv
  <2> QED BY <2>1 DEF TrustInv, FailsClosed, Trusted
<1>5. CASE Qualify
  BY <1>5, QualifyTrust
<1>6. CASE QualifyRaises
  BY <1>1, <1>6 DEF QualifyRaises, scan, TrustInv
<1>7. CASE Return
  BY <1>1, <1>7 DEF Return, scan, TrustInv
<1> QED BY <1>2, <1>3, <1>4, <1>5, <1>6, <1>7 DEF Next

\* Nothing is used as verified that did not come from a configured function, for
\* the symbol asked about, vouched for, with usable numbers, and within the age
\* limit when the scan began (qualification.py:29-31).
THEOREM FailsClosedHolds == Spec => []FailsClosed
<1>1. Init => TrustInv
  BY InitTrust
<1>2. TrustInv /\ [Next]_vars => TrustInv'
  BY NextTrust
<1>3. TrustInv => FailsClosed
  BY DEF TrustInv
<1> QED BY <1>1, <1>2, <1>3, PTL DEF Spec

-----------------------------------------------------------------------------
(* The loop over the plan                                                  *)

\* Induction over the natural numbers, with a set in the place of a predicate.
LEMMA Induction ==
    ASSUME NEW T \in SUBSET Nat, 0 \in T, \A n \in T : n + 1 \in T
    PROVE  T = Nat
<1> DEFINE Rest == Nat \ T
<1> SUFFICES ASSUME Rest # {} PROVE FALSE
  OBVIOUS
<1>1. PICK n \in Rest : \A m \in Rest : ~ (<<m, n>> \in OpToRel(<, Nat))
  BY NatLessThanWellFounded, WFMin
<1>2. \A m \in Rest : ~ (m < n)
  BY <1>1 DEF OpToRel
<1>3. n - 1 \in T
  BY <1>2
<1> QED BY <1>3

\* f holds what the loop has selected after each of its first k turns.
Turns(plan, k, f) ==
    f = [n \in 0 .. k |-> IF n = 0 THEN <<>> ELSE Select(f[n - 1], plan[n])]

LEMMA TurnsExist == ASSUME NEW plan PROVE \A k \in Nat : \E f : Turns(plan, k, f)
<1> DEFINE T == {k \in Nat : \E f : Turns(plan, k, f)}
<1>1. 0 \in T
  <2> DEFINE f == [n \in 0 .. 0 |-> <<>>]
  <2>1. Turns(plan, 0, f)
    BY DEF Turns
  <2> QED BY <2>1
<1>2. ASSUME NEW k \in T PROVE k + 1 \in T
  <2>1. PICK g : Turns(plan, k, g)
    OBVIOUS
  <2> DEFINE f == [n \in 0 .. k + 1 |-> IF n = k + 1 THEN Select(g[k], plan[k + 1]) ELSE g[n]]
  <2>2. Turns(plan, k + 1, f)
    <3> SUFFICES ASSUME NEW n \in 0 .. k + 1
                 PROVE  f[n] = IF n = 0 THEN <<>> ELSE Select(f[n - 1], plan[n])
      BY DEF Turns
    <3>1. CASE n = k + 1
      BY <3>1
    <3>2. CASE n # k + 1
      <4>1. n \in 0 .. k /\ g[n] = IF n = 0 THEN <<>> ELSE Select(g[n - 1], plan[n])
        BY <2>1, <3>2 DEF Turns
      <4> QED BY <3>2, <4>1
    <3> QED BY <3>1, <3>2
  <2> QED BY <2>2
<1> HIDE DEF T
<1>3. T = Nat
  BY <1>1, <1>2, Induction DEF T
<1> QED BY <1>3 DEF T

LEMMA RequestsTurns ==
    ASSUME NEW plan \in Seq(Spellings)
    PROVE  \E f : Turns(plan, Len(plan), f) /\ RequestsOf(plan) = f[Len(plan)]
<1> DEFINE c == CHOOSE f : Turns(plan, Len(plan), f)
<1>1. Turns(plan, Len(plan), c)
  BY TurnsExist, LenProperties
<1>2. RequestsOf(plan) = c[Len(plan)]
  BY DEF RequestsOf, Turns
<1> QED BY <1>1, <1>2

\* What the loop has made of the first n entries of a plan: each symbol, once.
Listed(plan, n) == {Normal[plan[i]] : i \in 1 .. n} \ {Blank}
Once(chosen) == \A i, j \in DOMAIN chosen : chosen[i] = chosen[j] => i = j
SelectedFrom(plan, n, chosen) ==
    /\ chosen \in Seq(Symbols)
    /\ Once(chosen)
    /\ {chosen[i] : i \in DOMAIN chosen} = Listed(plan, n)

LEMMA OneMoreSelected ==
    ASSUME NEW S, NEW chosen \in Seq(S), NEW e \in S
    PROVE  /\ Append(chosen, e) \in Seq(S)
           /\ DOMAIN Append(chosen, e) = DOMAIN chosen \union {Len(chosen) + 1}
           /\ Len(chosen) + 1 \notin DOMAIN chosen
           /\ \A i \in DOMAIN chosen : Append(chosen, e)[i] = chosen[i]
           /\ Append(chosen, e)[Len(chosen) + 1] = e
OBVIOUS

LEMMA SelectTurn ==
    ASSUME NEW plan \in Seq(Spellings), NEW n \in Nat, n < Len(plan),
           NEW chosen, SelectedFrom(plan, n, chosen)
    PROVE  SelectedFrom(plan, n + 1, Select(chosen, plan[n + 1]))
<1> DEFINE s == Normal[plan[n + 1]]
<1>1. plan[n + 1] \in Spellings
  OBVIOUS
<1>2. Listed(plan, n + 1) = Listed(plan, n) \union ({s} \ {Blank})
  BY DEF Listed
<1>3. /\ chosen \in Seq(Symbols) /\ Once(chosen)
      /\ {chosen[i] : i \in DOMAIN chosen} = Listed(plan, n)
  BY DEF SelectedFrom
<1>4. Contains(chosen, s) <=> s \in Listed(plan, n)
  <2>1. DOMAIN chosen = 1 .. Len(chosen)
    BY <1>3
  <2> QED BY <1>3, <2>1 DEF Contains
<1>5. CASE s = Blank \/ Contains(chosen, s)
  <2>1. Select(chosen, plan[n + 1]) = chosen
    BY <1>5 DEF Select
  <2>2. Listed(plan, n + 1) = Listed(plan, n)
    BY <1>2, <1>4, <1>5
  <2> QED BY <1>3, <2>1, <2>2 DEF SelectedFrom
<1>6. CASE s # Blank /\ s \notin Listed(plan, n)
  <2>1. Select(chosen, plan[n + 1]) = Append(chosen, s)
    BY <1>4, <1>6 DEF Select
  <2>2. s \in Symbols
    BY <1>1, <1>6 DEF Symbols
  <2> HIDE DEF s
  <2>3. PICK c : c = Append(chosen, s)
    OBVIOUS
  <2>4. /\ c \in Seq(Symbols)
        /\ DOMAIN c = DOMAIN chosen \union {Len(chosen) + 1}
        /\ Len(chosen) + 1 \notin DOMAIN chosen
        /\ \A i \in DOMAIN chosen : c[i] = chosen[i]
        /\ c[Len(chosen) + 1] = s
    BY <1>3, <2>2, <2>3, OneMoreSelected
  <2>5. \A i \in DOMAIN chosen : chosen[i] # s
    BY <1>3, <1>6
  <2>6. Once(c)
    BY <1>3, <2>4, <2>5 DEF Once
  <2>7. {c[i] : i \in DOMAIN c} = Listed(plan, n) \union {s}
    BY <1>3, <2>4
  <2>8. Listed(plan, n + 1) = Listed(plan, n) \union {s}
    BY <1>2, <1>6
  <2> QED BY <2>1, <2>3, <2>4, <2>6, <2>7, <2>8 DEF SelectedFrom
<1> QED BY <1>4, <1>5, <1>6

\* The requests of a plan are its symbols, each once, however they are written.
LEMMA RequestsOfPlan ==
    ASSUME NEW plan \in Seq(Spellings)
    PROVE  SelectedFrom(plan, Len(plan), RequestsOf(plan))
<1>1. PICK f : Turns(plan, Len(plan), f) /\ RequestsOf(plan) = f[Len(plan)]
  BY RequestsTurns
<1>2. Len(plan) \in Nat
  OBVIOUS
<1>3. \A n \in 0 .. Len(plan) : f[n] = IF n = 0 THEN <<>> ELSE Select(f[n - 1], plan[n])
  BY <1>1, <1>2 DEF Turns
<1> DEFINE T == {n \in Nat : n <= Len(plan) => SelectedFrom(plan, n, f[n])}
<1>4. 0 \in T
  <2>1. f[0] = <<>> /\ Listed(plan, 0) = {}
    BY <1>2, <1>3 DEF Listed
  <2>2. SelectedFrom(plan, 0, <<>>)
    <3>1. <<>> \in Seq(Symbols) /\ DOMAIN <<>> = {}
      OBVIOUS
    <3>2. Once(<<>>) /\ {<<>>[i] : i \in DOMAIN <<>>} = {}
      BY <3>1 DEF Once
    <3> QED BY <2>1, <3>1, <3>2 DEF SelectedFrom
  <2> QED BY <2>1, <2>2
<1>5. ASSUME NEW n \in T PROVE n + 1 \in T
  <2> SUFFICES ASSUME n + 1 <= Len(plan) PROVE SelectedFrom(plan, n + 1, f[n + 1])
    OBVIOUS
  <2>1. n \in Nat /\ n < Len(plan) /\ SelectedFrom(plan, n, f[n])
    BY <1>2
  <2>2. f[n + 1] = Select(f[n], plan[n + 1])
    BY <1>2, <1>3, <2>1
  <2> QED BY <2>1, <2>2, SelectTurn
<1> HIDE DEF T
<1>6. T = Nat
  BY <1>4, <1>5, Induction DEF T
<1> QED BY <1>1, <1>2, <1>6 DEF T

-----------------------------------------------------------------------------
(* Domains                                                                 *)

LEMMA EvaluationTyped ==
    ASSUME TypeOK, Asking, NEW answer \in Answers
    PROVE  /\ answer \in AnswersEver
           /\ Turn \in DOMAIN requests /\ requests[Turn] \in Symbols
           /\ Evaluation(answer) \in [symbol : Symbols, verified : BOOLEAN]
           /\ Evaluation(answer).symbol = requests[Turn]
<1>1. Stamps \subseteq (0 .. MaxTime + Skew) \union {Naive}
  BY DEF Stamps
<1>2. answer \in AnswersEver
  BY <1>1 DEF Answers, Snapshots, AnswersEver
<1>3. Turn \in DOMAIN requests /\ requests[Turn] \in Symbols
  <2>1. Len(evaluated) \in Nat /\ Turn \in 1 .. Len(requests)
    BY DEF TypeOK, Asking, Turn
  <2> QED BY <2>1 DEF TypeOK
<1> DEFINE symbol == requests[Turn]
           s == SnapshotFor(symbol, answer)
<1>4. s.symbol = symbol /\ s.verified \in BOOLEAN
  BY DEF SnapshotFor, Unverified, Validated
<1> QED BY <1>2, <1>3, <1>4 DEF Evaluation

LEMMA OneMoreEvaluated ==
    ASSUME NEW S, NEW s \in Seq(S), NEW e \in S
    PROVE  /\ Append(s, e) \in Seq(S) /\ Len(Append(s, e)) = Len(s) + 1
           /\ DOMAIN Append(s, e) = DOMAIN s \union {Len(s) + 1}
           /\ \A i \in DOMAIN s : Append(s, e)[i] = s[i]
           /\ Append(s, e)[Len(s) + 1] = e
OBVIOUS

LEMMA InitTypeOK == Init => TypeOK
<1> SUFFICES ASSUME Init PROVE TypeOK
  OBVIOUS
<1>1. [kind |-> "unavailable"] \in AnswersEver
  BY DEF AnswersEver
<1>2. items = <<>> /\ requests = <<>> /\ evaluated = <<>> /\ now = 0 /\ started = 0
  BY DEF Init
<1> QED BY <1>1, <1>2, VendorAssumption DEF Init, TypeOK

\* TypeOK relies on a scan that begins with nothing evaluated, which TrustInv has.
LEMMA NextTypeOK == TypeOK /\ TrustInv /\ [Next]_vars => TypeOK'
<1> SUFFICES ASSUME TypeOK, TrustInv, [Next]_vars PROVE TypeOK'
  OBVIOUS
<1>1. AnswersEver' = AnswersEver
  BY DEF AnswersEver
<1>2. CASE UNCHANGED vars
  BY <1>1, <1>2 DEF vars, scan, TypeOK
<1>3. CASE Tick
  <2>1. now' = now + 1 /\ now' \in 0 .. MaxTime /\ now \in Nat
    BY <1>3, VendorAssumption DEF Tick, TypeOK
  <2>2. taken' = taken /\ taken \in [answer : AnswersEver, at : 0 .. now']
    BY <1>3, <2>1 DEF Tick, TypeOK
  <2> QED BY <1>1, <1>3, <2>1, <2>2, VendorAssumption DEF Tick, scan, TypeOK
<1>4. CASE Begin
  <2>1. PICK plan \in Plans : /\ items' = plan /\ requests' = RequestsOf(plan)
                              /\ phase' = IF RequestsOf(plan) = <<>> THEN "no_plan" ELSE "scanning"
    BY <1>4 DEF Begin
  <2>2. plan \in Seq(Spellings)
    BY VendorAssumption
  <2>3. requests' \in Seq(Symbols)
    BY <2>1, <2>2, RequestsOfPlan DEF SelectedFrom
  <2>4. evaluated' = evaluated /\ evaluated = <<>>
    BY <1>4 DEF Begin, TrustInv
  <2> QED BY <1>1, <1>4, <2>1, <2>2, <2>3, <2>4 DEF Begin, TypeOK
<1>5. CASE Qualify
  <2>1. PICK answer \in Answers : /\ evaluated' = Append(evaluated, Evaluation(answer))
                                  /\ taken' = [answer |-> answer, at |-> now]
    BY <1>5 DEF Qualify
  <2>2. Asking /\ UNCHANGED <<now, phase, scan>>
    BY <1>5 DEF Qualify
  <2>3. /\ evaluated' \in Seq([symbol : Symbols, verified : BOOLEAN])
        /\ Len(evaluated') = Len(evaluated) + 1
    BY <2>1, <2>2, EvaluationTyped, OneMoreEvaluated DEF TypeOK
  <2>4. Len(evaluated') <= Len(requests)
    BY <2>2, <2>3 DEF Asking, Turn
  <2>5. taken' \in [answer : AnswersEver, at : 0 .. now]
    BY <2>1, <2>2, EvaluationTyped DEF TypeOK
  <2> QED BY <1>1, <2>2, <2>3, <2>4, <2>5 DEF TypeOK, scan
<1>6. CASE QualifyRaises \/ Return
  BY <1>1, <1>6 DEF QualifyRaises, Return, scan, TypeOK
<1> QED BY <1>2, <1>3, <1>4, <1>5, <1>6 DEF Next

\* Every variable stays in its domain: requests are symbols, whatever is planned,
\* and no more symbols are evaluated than are asked for (qualification.py:20-60).
THEOREM TypeCorrect == Spec => []TypeOK
BY InitTypeOK, NextTypeOK, InitTrust, NextTrust, PTL DEF Spec

-----------------------------------------------------------------------------
(* Every symbol of the plan, once                                           *)

\* EachOnce, made inductive: the evaluations are those of the requests so far,
\* and the requests are the symbols of the plan.
InTurn == \A i \in DOMAIN evaluated : evaluated[i].symbol = requests[i]
EachOnceInv ==
    /\ items \in Seq(Spellings) /\ SelectedFrom(items, Len(items), requests)
    /\ InTurn
    /\ phase = "idle" => evaluated = <<>>
    /\ phase \in {"done", "no_plan"} => Len(evaluated) = Len(requests)

LEMMA InitEachOnce == Init => EachOnceInv
<1> SUFFICES ASSUME Init PROVE EachOnceInv
  OBVIOUS
<1>1. items = <<>> /\ requests = <<>> /\ evaluated = <<>> /\ phase = "idle"
  BY DEF Init
<1>2. <<>> \in Seq(Spellings) /\ <<>> \in Seq(Symbols) /\ DOMAIN <<>> = {} /\ Len(<<>>) = 0
  OBVIOUS
<1>3. Listed(<<>>, 0) = {} /\ {<<>>[i] : i \in DOMAIN <<>>} = {} /\ Once(<<>>)
  BY <1>2 DEF Listed, Once
<1> QED BY <1>1, <1>2, <1>3 DEF EachOnceInv, SelectedFrom, InTurn

LEMMA NextEachOnce ==
    TypeOK /\ TypeOK' /\ EachOnceInv /\ [Next]_vars => EachOnceInv'
<1> SUFFICES ASSUME TypeOK, TypeOK', EachOnceInv, [Next]_vars PROVE EachOnceInv'
  OBVIOUS
<1>1. ASSUME UNCHANGED <<items, requests, evaluated>>,
             phase' \in {"idle", "no_plan", "done"} =>
               phase' = phase \/ (phase' = "done" /\ Len(evaluated) = Len(requests))
      PROVE  EachOnceInv'
  BY <1>1 DEF EachOnceInv, InTurn
<1>2. CASE UNCHANGED vars \/ Tick \/ QualifyRaises
  BY <1>1, <1>2 DEF vars, scan, Tick, QualifyRaises
<1>3. CASE Begin
  <2>1. PICK plan \in Plans : /\ items' = plan /\ requests' = RequestsOf(plan)
                              /\ phase' = IF RequestsOf(plan) = <<>> THEN "no_plan" ELSE "scanning"
    BY <1>3 DEF Begin
  <2>2. plan \in Seq(Spellings)
    BY VendorAssumption
  <2>3. evaluated' = <<>> /\ DOMAIN evaluated' = {} /\ Len(evaluated') = 0
    BY <1>3 DEF Begin, EachOnceInv
  <2>4. SelectedFrom(items', Len(items'), requests')
    BY <2>1, <2>2, RequestsOfPlan
  <2>5. InTurn'
    BY <2>3 DEF InTurn
  <2>6. phase' \in {"done", "no_plan"} => Len(evaluated') = Len(requests')
    BY <2>1, <2>3
  <2> QED BY <2>1, <2>2, <2>3, <2>4, <2>5, <2>6 DEF EachOnceInv, SelectedFrom, Listed
<1>4. CASE Qualify
  <2>1. PICK answer \in Answers : evaluated' = Append(evaluated, Evaluation(answer))
    BY <1>4 DEF Qualify
  <2>2. Asking /\ UNCHANGED <<phase, items, requests>> /\ phase = "scanning"
    BY <1>4 DEF Qualify, scan, Asking
  <2>3. /\ DOMAIN evaluated' = DOMAIN evaluated \union {Turn}
        /\ \A i \in DOMAIN evaluated : evaluated'[i] = evaluated[i]
        /\ evaluated'[Turn] = Evaluation(answer)
    BY <2>1, <2>2, EvaluationTyped, OneMoreEvaluated DEF TypeOK, Turn
  <2>4. Evaluation(answer).symbol = requests[Turn]
    BY <2>2, EvaluationTyped
  <2>5. InTurn'
    BY <2>2, <2>3, <2>4 DEF EachOnceInv, InTurn
  <2> QED BY <2>2, <2>5 DEF EachOnceInv
<1>5. CASE Return
  <2>1. /\ UNCHANGED <<items, requests, evaluated>> /\ phase' = "done"
        /\ Len(evaluated) + 1 > Len(requests)
    BY <1>5 DEF Return, scan, Turn
  <2>2. Len(evaluated) = Len(requests)
    BY <2>1 DEF TypeOK
  <2> QED BY <1>1, <2>1, <2>2
<1> QED BY <1>2, <1>3, <1>4, <1>5 DEF Next

\* A scan that returns has evaluated each symbol of its plan once, however often
\* and however it is written there, and nothing else, for every plan
\* (discovery.py:37-54, scan_executor.py:88).
THEOREM EachOnceHolds == Spec => []EachOnce
<1>1. TypeOK /\ EachOnceInv => EachOnce
  <2> SUFFICES ASSUME TypeOK, EachOnceInv PROVE EachOnce
    OBVIOUS
  <2>1. /\ DOMAIN evaluated = 1 .. Len(evaluated) /\ DOMAIN requests = 1 .. Len(requests)
        /\ Len(evaluated) \in Nat /\ Len(requests) \in Nat /\ Len(evaluated) <= Len(requests)
    BY DEF TypeOK
  <2>2. /\ \A i \in DOMAIN evaluated : evaluated[i].symbol = requests[i] /\ i \in DOMAIN requests
        /\ Once(requests)
    <3>1. InTurn /\ Once(requests)
      BY DEF EachOnceInv, SelectedFrom
    <3>2. \A i \in DOMAIN evaluated : i \in DOMAIN requests
      BY <2>1
    <3> QED BY <3>1, <3>2 DEF InTurn
  <2>3. \A i, j \in DOMAIN evaluated : evaluated[i].symbol = evaluated[j].symbol => i = j
    BY <2>2 DEF Once
  <2>4. ASSUME phase \in {"done", "no_plan"}
        PROVE  {evaluated[i].symbol : i \in DOMAIN evaluated}
                 = {Normal[items[i]] : i \in DOMAIN items} \ {Blank}
    <3>1. DOMAIN evaluated = DOMAIN requests
      BY <2>1, <2>4 DEF EachOnceInv
    <3>2. {evaluated[i].symbol : i \in DOMAIN evaluated} = {requests[i] : i \in DOMAIN requests}
      BY <2>2, <3>1
    <3>3. DOMAIN items = 1 .. Len(items)
      BY DEF TypeOK
    <3> QED BY <3>2, <3>3 DEF EachOnceInv, SelectedFrom, Listed
  <2> QED BY <2>3, <2>4 DEF EachOnce
<1> QED BY <1>1, InitTypeOK, NextTypeOK, InitTrust, NextTrust, InitEachOnce, NextEachOnce, PTL
       DEF Spec

=============================================================================
