------------------------- MODULE ScanPipelineProofs -------------------------
(***************************************************************************)
(* Theorems about ScanPipeline: it is a worker, for any number of workers,    *)
(* symbols and faults; what its tables hold between two commits; and, with   *)
(* one worker and no API posts, what the attempts of a run add up to.        *)
(***************************************************************************)
EXTENDS ScanPipeline, SoloWorkerProofs

-----------------------------------------------------------------------------
(* The pipeline is a worker                                                *)

LEMMA WorkerStep == [PipelineNext]_pipelineVars => [Next]_vars
<1> SUFFICES ASSUME [PipelineNext]_pipelineVars PROVE [Next]_vars
  OBVIOUS
<1> USE DEF Next, Progress, Raise, Lifecycle
<1>1. CASE UNCHANGED pipelineVars
  BY <1>1 DEF pipelineVars
<1>2. CASE Tick
  BY <1>2
<1>3. ASSUME NEW w \in Workers, BeginScan(w) PROVE [Next]_vars
  BY <1>3 DEF BeginScan
<1>4. ASSUME NEW w \in Workers, Execute(w) PROVE [Next]_vars
  <2>1. CASE GetPlan(w) \/ LookupObservation(w)
    BY <2>1 DEF GetPlan, LookupObservation, Commits
  <2>2. CASE GetEmptyPlan(w)
    BY <2>2 DEF GetEmptyPlan
  <2>3. CASE QualifyRaises(w)
    BY <2>3 DEF QualifyRaises
  <2>4. CASE Upsert(w) \/ Learn(w)
    BY <2>4 DEF Upsert, Learn, Commits, CommitRaises
  <2>5. CASE InsertObservation(w) \/ AuditQualified(w)
    BY <2>5 DEF InsertObservation, AuditQualified, Commits, CommitRaises
  <2>6. CASE ReturnCompleted(w)
    BY <2>6 DEF ReturnCompleted
  <2> QED BY <1>4, <2>1, <2>2, <2>3, <2>4, <2>5, <2>6 DEF Execute
<1>5. ASSUME NEW w \in Workers, Die(w) PROVE [Next]_vars
  BY <1>5 DEF Die
<1>6. ASSUME NEW w \in Workers, Around(w) PROVE [Next]_vars
  BY <1>6 DEF Around
<1> QED BY <1>1, <1>2, <1>3, <1>4, <1>5, <1>6 DEF PipelineNext

\* The executor of scan_executor.py:78-143 does to the run events what the worker
\* of ScanWorker lets its executor do, so that every theorem about the worker is
\* one about the pipeline.
THEOREM ImplementsWorkerHolds == PipelineSpec => ImplementsWorker
<1>1. PipelineInit => Init
  BY DEF PipelineInit
<1> QED BY <1>1, WorkerStep, PTL DEF PipelineSpec, ImplementsWorker, Spec

\* So what is proved of the worker holds of the pipeline: with the executor's
\* commits in between, for any workers, the scans of a day keep their order, run
\* when they are due, and report a late start (worker.py:38-62).
THEOREM PipelineKeepsOrder ==
    PipelineSpec => [](Chronological /\ RunsAreDue /\ OvernightStartIsRecovery)
BY ImplementsWorkerHolds, ChronologicalHolds, RunsAreDueHolds, OvernightStartIsRecoveryHolds, PTL
   DEF ImplementsWorker

\* And one worker's pipeline implements the run ledger: no run starts after its
\* outcome, and an outcome is final, whatever became of the commits in between.
THEOREM PipelineImplementsLedger ==
    ASSUME Solo
    PROVE  PipelineSpec => ImplementsLedger /\ []NoRerun /\ []CompletedIsFinal
BY ImplementsWorkerHolds, ImplementsLedgerHolds, NoRerunHolds, CompletedIsFinalHolds, PTL
   DEF ImplementsWorker

\* An observation is never replaced, by any worker, retry or restart: the insert
\* of a key that is taken leaves the row that is there
\* (observation_persistence.py:27-83).
THEOREM ObservationsImmutableHolds == PipelineSpec => ObservationsImmutable
<1>1. ASSUME [PipelineNext]_pipelineVars
      PROVE  [\A k \in DOMAIN observations :
                observations[k] # NoRow => observations'[k] = observations[k]]_pipelineVars
  <2>1. CASE observations' = observations
    BY <2>1
  <2>2. ASSUME NEW w \in Workers, InsertObservation(w)
        PROVE  \A k \in DOMAIN observations :
                observations[k] # NoRow => observations'[k] = observations[k]
    BY <2>2 DEF InsertObservation, WriteObservation
  <2>3. observations' = observations \/ \E w \in Workers : InsertObservation(w)
    BY <1>1 DEF pipelineVars, PipelineNext, BeginScan, Die, Around, Execute, GetPlan,
                GetEmptyPlan, QualifyRaises, Upsert, Learn, LookupObservation,
                AuditQualified, ReturnCompleted, stores
  <2> QED BY <2>1, <2>2, <2>3
<1> QED BY <1>1, PTL DEF PipelineSpec, ObservationsImmutable

-----------------------------------------------------------------------------
(* The domains of the tables and of the executor's locals                    *)

Evaluations == Nat \union {NoRow}
Idle(w) == step[w] = "idle"
HasItem(w) == step[w] \in {"learn", "lookup", "insert", "audit"}

PipelineTypeOK ==
    /\ attempt \in [Workers -> Nat]
    /\ step \in [Workers -> Steps]
    /\ left \in [Workers -> SUBSET Symbols]
    /\ asked \in [Workers -> SUBSET Symbols]
    /\ item \in [Workers -> Symbols \union {NoRow}]
    /\ candidates \in [Symbols -> Evaluations]
    /\ learning \in Seq([symbol : Symbols, eval : Nat])
    /\ observations \in [Scans \X Days \X Symbols -> Evaluations]
    /\ qualified \in Seq([scan : Scans, symbol : Symbols, eval : Nat])
    /\ \A w \in Workers :
        /\ Idle(w) <=> pc[w] # "execute"
        /\ IF HasItem(w) THEN item[w] \in left[w] ELSE item[w] = NoRow
        /\ step[w] \in {"idle", "plan", "return"} => left[w] = {}

PipelineTypes == TypeOK /\ PipelineTypeOK

LEMMA InitPipelineTypes == PipelineInit => PipelineTypes
<1> SUFFICES ASSUME PipelineInit PROVE PipelineTypes
  OBVIOUS
<1>1. TypeOK
  BY InitTypeOK DEF PipelineInit
<1>2. PipelineTypeOK
  BY DEF PipelineInit, Init, PipelineTypeOK, Evaluations, Steps, Idle, HasItem
<1> QED BY <1>1, <1>2 DEF PipelineTypes

\* Outside the executor a worker neither enters nor leaves it, and what it has
\* come back with stays until it is recorded.
LEMMA AroundFrame ==
    ASSUME TypeOK, NEW w \in Workers, Around(w), NEW v \in Workers
    PROVE  /\ pc'[v] = "execute" <=> pc[v] = "execute"
           /\ pc'[v] \in {"execute", "record"} =>
                /\ pc'[v] = pc[v] /\ run'[v] = run[v] /\ day'[v] = day[v]
                /\ result'[v] = result[v]
BY DEF TypeOK, Around, Poll, PollRaises, StartRaises, Record, Proceed, RecordRaises,
       Backoff, Wake, Exit, RequestStop, Restart, Redeploy, Boot

\* However the executor is left, it leaves no item and no request behind.
LEMMA LeaveTypes ==
    ASSUME PipelineTypes, TypeOK', NEW w \in Workers, LeaveWith(w), pc'[w] # "execute",
           \A v \in Workers : v # w => pc'[v] = pc[v],
           candidates' \in [Symbols -> Evaluations],
           learning' \in Seq([symbol : Symbols, eval : Nat]),
           observations' \in [Scans \X Days \X Symbols -> Evaluations],
           qualified' \in Seq([scan : Scans, symbol : Symbols, eval : Nat])
    PROVE  PipelineTypeOK'
<1>1. /\ step' = [step EXCEPT ![w] = "idle"] /\ left' = [left EXCEPT ![w] = {}]
      /\ item' = [item EXCEPT ![w] = NoRow] /\ attempt' = attempt
      /\ asked' \in [Workers -> SUBSET Symbols]
  BY DEF LeaveWith, Goto, PipelineTypes, PipelineTypeOK
<1> QED BY <1>1 DEF PipelineTypes, PipelineTypeOK, Idle, HasItem, Steps

\* A worker leaves the executor by returning, raising or dying.
LEMMA LeaveFrame ==
    ASSUME TypeOK, NEW w \in Workers, (\E r : Return(w, r)) \/ Crash(w)
    PROVE  /\ pc'[w] # "execute"
           /\ \A v \in Workers : v # w =>
                /\ pc'[v] = pc[v] /\ run'[v] = run[v] /\ day'[v] = day[v]
                /\ result'[v] = result[v]
BY DEF TypeOK, Return, Crash

LEMMA LearningRow ==
    ASSUME PipelineTypes, NEW s \in Symbols, NEW n \in Nat
    PROVE  Append(learning, [symbol |-> s, eval |-> n]) \in Seq([symbol : Symbols, eval : Nat])
<1> DEFINE R == [symbol : Symbols, eval : Nat]
           r == [symbol |-> s, eval |-> n]
<1>1. learning \in Seq(R) /\ r \in R
  BY DEF PipelineTypes, PipelineTypeOK
<1> HIDE DEF R, r
<1>2. Append(learning, r) \in Seq(R)
  BY <1>1
<1> QED BY <1>2 DEF R, r

LEMMA QualifiedRow ==
    ASSUME PipelineTypes, NEW x \in Scans, NEW s \in Symbols, NEW n \in Nat
    PROVE  Append(qualified, [scan |-> x, symbol |-> s, eval |-> n])
                \in Seq([scan : Scans, symbol : Symbols, eval : Nat])
<1> DEFINE R == [scan : Scans, symbol : Symbols, eval : Nat]
           r == [scan |-> x, symbol |-> s, eval |-> n]
<1>1. qualified \in Seq(R) /\ r \in R
  BY DEF PipelineTypes, PipelineTypeOK
<1> HIDE DEF R, r
<1>2. Append(qualified, r) \in Seq(R)
  BY <1>1
<1> QED BY <1>2 DEF R, r

\* Where a worker is that processes a symbol.
LEMMA AtItem ==
    ASSUME PipelineTypes, NEW w \in Workers, HasItem(w)
    PROVE  /\ pc[w] = "execute" /\ Running(w) /\ run[w] \in Scans /\ day[w] \in Days
           /\ item[w] \in Symbols /\ item[w] \in left[w] /\ attempt[w] \in Nat
           /\ Key(w) \in Scans \X Days \X Symbols
<1>1. pc[w] = "execute"
  BY DEF PipelineTypes, PipelineTypeOK, HasItem, Idle
<1>2. Running(w) /\ run[w] \in Scans /\ day[w] \in Days
  BY <1>1 DEF PipelineTypes, TypeOK, Running
<1>3. item[w] \in Symbols /\ item[w] \in left[w] /\ attempt[w] \in Nat
  BY DEF PipelineTypes, PipelineTypeOK
<1> QED BY <1>1, <1>2, <1>3 DEF Key

\* A step of the executor inside its loop: nothing else of the worker changes.
LEMMA NextPipelineTypes == PipelineTypes /\ [PipelineNext]_pipelineVars => PipelineTypes'
<1> SUFFICES ASSUME PipelineTypes, [PipelineNext]_pipelineVars PROVE PipelineTypes'
  OBVIOUS
<1>1. TypeOK'
  BY WorkerStep, NextTypeOK DEF PipelineTypes
<1> SUFFICES PipelineTypeOK'
  BY <1>1 DEF PipelineTypes
<1>2. CASE UNCHANGED pipelineVars \/ (Tick /\ UNCHANGED <<locals, stores>>)
  <2>1. pc' = pc /\ UNCHANGED <<locals, stores>>
    BY <1>2 DEF pipelineVars, vars, Tick
  <2> QED BY <2>1 DEF PipelineTypes, PipelineTypeOK, locals, stores, Idle, HasItem
<1>3. ASSUME NEW w \in Workers, BeginScan(w) PROVE PipelineTypeOK'
  <2>1. /\ step' = [step EXCEPT ![w] = "plan"] /\ UNCHANGED <<left, asked, item, stores>>
        /\ attempt' = [attempt EXCEPT ![w] = Cardinality(StartIds) + 1]
        /\ pc[w] = "next" /\ pc' = [pc EXCEPT ![w] = "execute"]
    BY <1>3 DEF BeginScan, Goto, Start
  <2>2. Cardinality(StartIds) \in Nat
    <3>1. IsFiniteSet(StartIds)
      <4>1. Len(audit) \in Nat /\ Ids = 1 .. Len(audit)
        BY DEF PipelineTypes, TypeOK, Ids
      <4>2. IsFiniteSet(Ids)
        BY <4>1, FS_Interval
      <4> QED BY <4>2, FS_Subset DEF StartIds
    <3> QED BY <3>1, FS_CardinalityType
  <2>3. step[w] = "idle" /\ left[w] = {} /\ item[w] = NoRow
    BY <2>1 DEF PipelineTypes, PipelineTypeOK, Idle, HasItem
  <2> QED BY <2>1, <2>2, <2>3
          DEF PipelineTypes, PipelineTypeOK, TypeOK, stores, Steps, Idle, HasItem
<1>4. ASSUME NEW w \in Workers, Around(w) PROVE PipelineTypeOK'
  <2>1. \A v \in Workers : pc'[v] = "execute" <=> pc[v] = "execute"
    BY <1>4, AroundFrame DEF PipelineTypes
  <2>2. UNCHANGED <<locals, stores>>
    BY <1>4 DEF Around
  <2> QED BY <2>1, <2>2 DEF PipelineTypes, PipelineTypeOK, locals, stores, Idle, HasItem
<1>5. ASSUME NEW w \in Workers, Die(w) PROVE PipelineTypeOK'
  <2>1. Crash(w) /\ LeaveWith(w) /\ UNCHANGED stores
    BY <1>5 DEF Die
  <2> QED BY <1>1, <2>1, LeaveTypes, LeaveFrame DEF PipelineTypes, PipelineTypeOK, stores
<1>6. ASSUME NEW w \in Workers, GetEmptyPlan(w) \/ QualifyRaises(w) \/ ReturnCompleted(w)
      PROVE  PipelineTypeOK'
  <2>1. (\E r : Return(w, r)) /\ LeaveWith(w) /\ UNCHANGED stores
    BY <1>6 DEF GetEmptyPlan, QualifyRaises, ReturnCompleted, ExecuteFindsNoPlan, NoPlanRaises,
                ExecuteRaises, ExecuteCompletes
  <2> QED BY <1>1, <2>1, LeaveTypes, LeaveFrame DEF PipelineTypes, PipelineTypeOK, stores
<1>7. ASSUME NEW w \in Workers, GetPlan(w) PROVE PipelineTypeOK'
  BY <1>7 DEF GetPlan, At, Goto, vars, stores, PipelineTypes, PipelineTypeOK, Steps, Idle, HasItem
<1>8. ASSUME NEW w \in Workers, CommitRaises(w),
             candidates' \in [Symbols -> Evaluations],
             learning' \in Seq([symbol : Symbols, eval : Nat]),
             observations' \in [Scans \X Days \X Symbols -> Evaluations],
             qualified' \in Seq([scan : Scans, symbol : Symbols, eval : Nat])
      PROVE  PipelineTypeOK'
  <2>1. (\E r : Return(w, r)) /\ LeaveWith(w)
    BY <1>8 DEF CommitRaises, ExecuteRaises
  <2> QED BY <1>1, <1>8, <2>1, LeaveTypes, LeaveFrame DEF PipelineTypes
<1>9. ASSUME NEW w \in Workers, Upsert(w) PROVE PipelineTypeOK'
  <2>1. PICK s \in left[w] :
          \/ /\ WriteCandidate(s, attempt[w])
             /\ item' = [item EXCEPT ![w] = s]
             /\ Commits(w, "learn") /\ UNCHANGED left
          \/ (WriteCandidate(s, attempt[w]) \/ UNCHANGED candidates) /\ CommitRaises(w)
    BY <1>9 DEF Upsert
  <2>2. s \in Symbols /\ attempt[w] \in Evaluations
    BY DEF PipelineTypes, PipelineTypeOK, Evaluations
  <2>3. candidates' \in [Symbols -> Evaluations]
    BY <2>1, <2>2 DEF WriteCandidate, PipelineTypes, PipelineTypeOK
  <2>4. UNCHANGED <<learning, observations, qualified>> /\ pc[w] = "execute"
    BY <1>9 DEF Upsert, At
  <2>5. CASE CommitRaises(w)
    BY <1>8, <2>3, <2>4, <2>5 DEF PipelineTypes, PipelineTypeOK
  <2>6. CASE item' = [item EXCEPT ![w] = s] /\ Commits(w, "learn") /\ UNCHANGED left
    BY <2>2, <2>3, <2>4, <2>6
       DEF Commits, Goto, vars, PipelineTypes, PipelineTypeOK, Steps, Idle, HasItem
  <2> QED BY <2>1, <2>5, <2>6
<1>10. ASSUME NEW w \in Workers, Learn(w) PROVE PipelineTypeOK'
  <2>1. HasItem(w) /\ pc[w] = "execute" /\ step[w] = "learn"
        /\ UNCHANGED <<candidates, observations, qualified>>
    BY <1>10 DEF Learn, At, HasItem
  <2>2. learning' \in Seq([symbol : Symbols, eval : Nat])
    <3>1. learning' \in {learning, Append(learning, [symbol |-> item[w], eval |-> attempt[w]])}
      BY <1>10 DEF Learn
    <3>2. item[w] \in Symbols /\ attempt[w] \in Nat
      BY <2>1, AtItem
    <3>3. Append(learning, [symbol |-> item[w], eval |-> attempt[w]])
            \in Seq([symbol : Symbols, eval : Nat])
      BY <3>2, LearningRow
    <3> QED BY <3>1, <3>3 DEF PipelineTypes, PipelineTypeOK
  <2>3. CASE CommitRaises(w)
    BY <1>8, <2>1, <2>2, <2>3 DEF PipelineTypes, PipelineTypeOK
  <2>4. CASE Commits(w, "lookup") /\ UNCHANGED <<left, item>>
    BY <2>1, <2>2, <2>4
       DEF Commits, Goto, vars, PipelineTypes, PipelineTypeOK, Steps, Idle, HasItem
  <2> QED BY <1>10, <2>3, <2>4 DEF Learn
<1>11. ASSUME NEW w \in Workers, LookupObservation(w) PROVE PipelineTypeOK'
  <2>1. /\ \E next \in {"audit", "insert"} : Commits(w, next)
        /\ step[w] = "lookup" /\ pc[w] = "execute" /\ UNCHANGED <<left, item, stores>>
    BY <1>11 DEF LookupObservation, At
  <2> QED BY <2>1
       DEF Commits, Goto, vars, stores, PipelineTypes, PipelineTypeOK, Steps, Idle, HasItem
<1>12. ASSUME NEW w \in Workers, InsertObservation(w) PROVE PipelineTypeOK'
  <2>1. HasItem(w) /\ pc[w] = "execute" /\ step[w] = "insert"
        /\ UNCHANGED <<candidates, learning, qualified>>
    BY <1>12 DEF InsertObservation, At, HasItem
  <2>2. observations' \in [Scans \X Days \X Symbols -> Evaluations]
    <3>1. attempt[w] \in Evaluations
      BY DEF PipelineTypes, PipelineTypeOK, Evaluations
    <3>2. observations' = observations \/ observations' = [observations EXCEPT ![Key(w)] = attempt[w]]
      BY <1>12 DEF InsertObservation, WriteObservation
    <3> QED BY <3>1, <3>2 DEF PipelineTypes, PipelineTypeOK
  <2>3. CASE CommitRaises(w)
    BY <1>8, <2>1, <2>2, <2>3 DEF PipelineTypes, PipelineTypeOK
  <2>4. CASE Commits(w, "audit") /\ UNCHANGED <<left, item>>
    BY <2>1, <2>2, <2>4
       DEF Commits, Goto, vars, PipelineTypes, PipelineTypeOK, Steps, Idle, HasItem
  <2> QED BY <1>12, <2>3, <2>4 DEF InsertObservation
<1>13. ASSUME NEW w \in Workers, AuditQualified(w) PROVE PipelineTypeOK'
  <2>1. HasItem(w) /\ pc[w] = "execute" /\ step[w] = "audit"
        /\ UNCHANGED <<candidates, learning, observations>>
    BY <1>13 DEF AuditQualified, At, HasItem
  <2>2. qualified' \in Seq([scan : Scans, symbol : Symbols, eval : Nat])
    <3>1. qualified' \in {qualified, Append(qualified,
              [scan |-> run[w], symbol |-> item[w], eval |-> attempt[w]])}
      BY <1>13 DEF AuditQualified
    <3>2. run[w] \in Scans /\ item[w] \in Symbols /\ attempt[w] \in Nat
      BY <2>1, AtItem
    <3>3. Append(qualified, [scan |-> run[w], symbol |-> item[w], eval |-> attempt[w]])
            \in Seq([scan : Scans, symbol : Symbols, eval : Nat])
      BY <3>2, QualifiedRow
    <3> QED BY <3>1, <3>3 DEF PipelineTypes, PipelineTypeOK
  <2>3. CASE CommitRaises(w)
    BY <1>8, <2>1, <2>2, <2>3 DEF PipelineTypes, PipelineTypeOK
  <2>4. CASE /\ left' = [left EXCEPT ![w] = @ \ {item[w]}]
             /\ item' = [item EXCEPT ![w] = NoRow]
             /\ IF left[w] = {item[w]} THEN Commits(w, "return") ELSE Commits(w, "upsert")
    BY <2>1, <2>2, <2>4, ZenonT(30)
       DEF Commits, Goto, vars, PipelineTypes, PipelineTypeOK, Steps, Idle, HasItem
  <2> QED BY <1>13, <2>3, <2>4 DEF AuditQualified
<1> QED BY <1>2, <1>3, <1>4, <1>5, <1>6, <1>7, <1>9, <1>10, <1>11, <1>12, <1>13
        DEF PipelineNext, Execute

-----------------------------------------------------------------------------
(* What the tables hold between two commits                                *)

\* What the stores have of the symbol in process, call by call.
ItemOf(w) ==
    /\ candidates[item[w]] # NoRow
    /\ step[w] # "learn" => Learned(item[w], attempt[w])
    /\ step[w] = "audit" => observations[Key(w)] # NoRow

\* CompletedIsPersisted, for the part of the plan that is done.
Persisted(w, s) ==
    /\ observations[<<run[w], day[w], s>>] # NoRow
    /\ Learned(s, attempt[w])
    /\ \E i \in DOMAIN qualified :
        qualified[i] = [scan |-> run[w], symbol |-> s, eval |-> attempt[w]]

HasPlan(w) == ~ Idle(w) /\ step[w] # "plan"
DoneOf(w) ==
    HasPlan(w) \/ (pc[w] = "record" /\ result[w] = "COMPLETED") =>
        \A s \in asked[w] \ left[w] : Persisted(w, s)

StoresInv == QualifiedIsBacked /\ \A w \in Workers : (HasItem(w) => ItemOf(w)) /\ DoneOf(w)

\* Rows are added to the tables, never taken away.
Grow ==
    /\ \A s \in Symbols : candidates[s] # NoRow => candidates'[s] # NoRow
    /\ \A s, e : Learned(s, e) => Learned(s, e)'
    /\ \A k \in Scans \X Days \X Symbols : observations[k] # NoRow => observations'[k] # NoRow
    /\ \A i \in DOMAIN qualified : i \in DOMAIN qualified' /\ qualified'[i] = qualified[i]

LEMMA LearningGrows ==
    ASSUME learning \in Seq([symbol : Symbols, eval : Nat]), NEW s, NEW e, Learned(s, e), NEW r,
           learning' = learning \/ learning' = Append(learning, r)
    PROVE  Learned(s, e)'
<1>1. PICK i \in DOMAIN learning : learning[i] = [symbol |-> s, eval |-> e]
  BY DEF Learned
<1>2. i \in DOMAIN learning' /\ learning'[i] = learning[i]
  BY <1>1, SMTT(30)
<1> QED BY <1>1, <1>2 DEF Learned

LEMMA QualifiedGrows ==
    ASSUME qualified \in Seq([scan : Scans, symbol : Symbols, eval : Nat]), NEW r,
           qualified' = qualified \/ qualified' = Append(qualified, r)
    PROVE  \A i \in DOMAIN qualified : i \in DOMAIN qualified' /\ qualified'[i] = qualified[i]
BY SMTT(30)

LEMMA LearningLast ==
    ASSUME learning \in Seq([symbol : Symbols, eval : Nat]), NEW r, learning' = Append(learning, r)
    PROVE  Len(learning) + 1 \in DOMAIN learning' /\ learning'[Len(learning) + 1] = r
OBVIOUS

LEMMA QualifiedLast ==
    ASSUME qualified \in Seq([scan : Scans, symbol : Symbols, eval : Nat]), NEW r,
           qualified' = Append(qualified, r)
    PROVE  Len(qualified) + 1 \in DOMAIN qualified' /\ qualified'[Len(qualified) + 1] = r
OBVIOUS

LEMMA StoresStep ==
    ASSUME PipelineTypes, [PipelineNext]_pipelineVars
    PROVE  Grow
<1> USE DEF PipelineTypes, PipelineTypeOK
<1>1. CASE UNCHANGED stores
  BY <1>1 DEF stores, Grow, Learned
<1>2. ASSUME NEW w \in Workers, Upsert(w) PROVE Grow
  <2>1. PICK s \in left[w] : WriteCandidate(s, attempt[w]) \/ UNCHANGED candidates
    BY <1>2 DEF Upsert
  <2>2. attempt[w] # NoRow /\ UNCHANGED <<learning, observations, qualified>>
    BY <1>2, RowAssumption DEF Upsert
  <2> QED BY <2>1, <2>2 DEF Grow, Learned, WriteCandidate
<1>3. ASSUME NEW w \in Workers, Learn(w) PROVE Grow
  <2>1. learning' \in {learning, Append(learning, [symbol |-> item[w], eval |-> attempt[w]])}
        /\ UNCHANGED <<candidates, observations, qualified>>
    BY <1>3 DEF Learn
  <2>2. \A s, e : Learned(s, e) => Learned(s, e)'
    BY <2>1, LearningGrows
  <2> QED BY <2>1, <2>2 DEF Grow
<1>4. ASSUME NEW w \in Workers, InsertObservation(w) PROVE Grow
  <2>1. /\ WriteObservation(Key(w), attempt[w]) \/ UNCHANGED observations
        /\ UNCHANGED <<candidates, learning, qualified>>
    BY <1>4 DEF InsertObservation
  <2> QED BY <2>1 DEF Grow, Learned, WriteObservation
<1>5. ASSUME NEW w \in Workers, AuditQualified(w) PROVE Grow
  <2> DEFINE r == [scan |-> run[w], symbol |-> item[w], eval |-> attempt[w]]
  <2>1. qualified' \in {qualified, Append(qualified, r)}
        /\ UNCHANGED <<candidates, learning, observations>>
    BY <1>5 DEF AuditQualified
  <2> HIDE DEF r
  <2>2. \A i \in DOMAIN qualified : i \in DOMAIN qualified' /\ qualified'[i] = qualified[i]
    BY <2>1, QualifiedGrows
  <2> QED BY <2>1, <2>2 DEF Grow, Learned
<1> QED BY <1>1, <1>2, <1>3, <1>4, <1>5
        DEF PipelineNext, pipelineVars, BeginScan, Die, Around, Execute, GetPlan, GetEmptyPlan,
            QualifyRaises, LookupObservation, ReturnCompleted, stores

LEMMA PersistedGrows ==
    ASSUME PipelineTypes, Grow, NEW w \in Workers, NEW s \in Symbols,
           run[w] \in Scans, day[w] \in Days,
           run'[w] = run[w], day'[w] = day[w], attempt'[w] = attempt[w], Persisted(w, s)
    PROVE  Persisted(w, s)'
BY DEF Persisted, Grow

\* A worker that stays where it is keeps what the stores have for it.
LEMMA StoresFrame ==
    ASSUME PipelineTypes, Grow, NEW w \in Workers, HasItem(w) => ItemOf(w), DoneOf(w),
           step'[w] = step[w], item'[w] = item[w], left'[w] = left[w], asked'[w] = asked[w],
           attempt'[w] = attempt[w],
           pc'[w] = "execute" <=> pc[w] = "execute",
           pc'[w] \in {"execute", "record"} =>
                /\ pc'[w] = pc[w] /\ run'[w] = run[w] /\ day'[w] = day[w]
                /\ result'[w] = result[w]
    PROVE  (HasItem(w)' => ItemOf(w)') /\ DoneOf(w)'
<1>1. HasItem(w)' => ItemOf(w)'
  <2> SUFFICES ASSUME HasItem(w)' PROVE ItemOf(w)'
    OBVIOUS
  <2>1. HasItem(w)
    BY DEF HasItem
  <2>2. run'[w] = run[w] /\ day'[w] = day[w] /\ item[w] \in Symbols
        /\ Key(w) \in Scans \X Days \X Symbols
    BY <2>1, AtItem
  <2>3. Key(w)' = Key(w)
    BY <2>2 DEF Key
  <2>4. observations[Key(w)] # NoRow => observations'[Key(w)'] # NoRow
    BY <2>2, <2>3 DEF Grow
  <2> QED BY <2>1, <2>2, <2>4 DEF ItemOf, Grow
<1>2. DoneOf(w)'
  <2> SUFFICES ASSUME HasPlan(w)' \/ (pc'[w] = "record" /\ result'[w] = "COMPLETED"),
                      NEW s \in asked'[w] \ left'[w]
               PROVE  Persisted(w, s)'
    BY DEF DoneOf
  <2>1. HasPlan(w) \/ (pc[w] = "record" /\ result[w] = "COMPLETED")
    BY DEF HasPlan, Idle
  <2>2. Running(w)
    BY <2>1 DEF PipelineTypes, PipelineTypeOK, HasPlan, Idle, Running
  <2>3. run[w] \in Scans /\ day[w] \in Days /\ s \in Symbols
    BY <2>2 DEF PipelineTypes, TypeOK, PipelineTypeOK
  <2>4. run'[w] = run[w] /\ day'[w] = day[w]
    BY DEF HasPlan, Idle, PipelineTypes, PipelineTypeOK
  <2>5. Persisted(w, s)
    BY <2>1 DEF DoneOf
  <2> QED BY <2>3, <2>4, <2>5, PersistedGrows
<1> QED BY <1>1, <1>2

\* What a worker does is not seen in the locals of another.
LEMMA OthersLocals ==
    ASSUME PipelineTypes, NEW w \in Workers, BeginScan(w) \/ Execute(w) \/ Die(w),
           NEW v \in Workers, v # w
    PROVE  /\ step'[v] = step[v] /\ item'[v] = item[v] /\ left'[v] = left[v]
           /\ asked'[v] = asked[v] /\ attempt'[v] = attempt[v]
           /\ pc'[v] = pc[v] /\ run'[v] = run[v] /\ day'[v] = day[v] /\ result'[v] = result[v]
<1> USE DEF PipelineTypes, PipelineTypeOK, TypeOK
<1>1. ASSUME LeaveWith(w), (\E r : Return(w, r)) \/ Crash(w)
      PROVE  /\ step'[v] = step[v] /\ item'[v] = item[v] /\ left'[v] = left[v]
             /\ asked'[v] = asked[v] /\ attempt'[v] = attempt[v]
             /\ pc'[v] = pc[v] /\ run'[v] = run[v] /\ day'[v] = day[v] /\ result'[v] = result[v]
  BY <1>1, LeaveFrame DEF LeaveWith, Goto
<1>2. CASE BeginScan(w)
  BY <1>2 DEF BeginScan, Start, Goto
<1>3. CASE Die(w)
  BY <1>1, <1>3 DEF Die
<1>4. CASE GetPlan(w) \/ LookupObservation(w)
  BY <1>4 DEF GetPlan, LookupObservation, Commits, Goto, vars
<1>5. CASE GetEmptyPlan(w) \/ QualifyRaises(w) \/ ReturnCompleted(w)
  BY <1>1, <1>5 DEF GetEmptyPlan, QualifyRaises, ReturnCompleted, ExecuteFindsNoPlan, NoPlanRaises,
                    ExecuteRaises, ExecuteCompletes
<1>6. CASE CommitRaises(w)
  BY <1>1, <1>6 DEF CommitRaises, ExecuteRaises
<1>7. CASE Upsert(w)
  BY <1>6, <1>7 DEF Upsert, Commits, Goto, vars
<1>8. CASE Learn(w)
  BY <1>6, <1>8 DEF Learn, Commits, Goto, vars
<1>9. CASE InsertObservation(w)
  BY <1>6, <1>9 DEF InsertObservation, Commits, Goto, vars
<1>10. CASE AuditQualified(w)
  BY <1>6, <1>10 DEF AuditQualified, Commits, Goto, vars
<1> QED BY <1>2, <1>3, <1>4, <1>5, <1>7, <1>8, <1>9, <1>10 DEF Execute

\* An executor that is left without COMPLETED leaves nothing to answer for.
LEMMA LeftUndone ==
    ASSUME PipelineTypes, NEW w \in Workers, LeaveWith(w),
           pc'[w] = "record" => result'[w] # "COMPLETED"
    PROVE  (HasItem(w)' => ItemOf(w)') /\ DoneOf(w)'
<1>1. step'[w] = "idle"
  BY DEF LeaveWith, Goto, PipelineTypes, PipelineTypeOK
<1> QED BY <1>1 DEF HasItem, DoneOf, HasPlan, Idle

\* The calls of one symbol, in the order of scan_executor.py:96-136: each finds
\* what the ones before it stored.
LEMMA StoresOwn ==
    ASSUME PipelineTypes, PipelineTypes', StoresInv, NEW w \in Workers, Grow,
           BeginScan(w) \/ Execute(w) \/ Die(w)
    PROVE  (HasItem(w)' => ItemOf(w)') /\ DoneOf(w)'
<1> USE DEF PipelineTypes, PipelineTypeOK
<1>0. (HasItem(w) => ItemOf(w)) /\ DoneOf(w)
  BY DEF StoresInv
<1>a. PICK x, e : x = item[w] /\ e = attempt[w]
  OBVIOUS
\* One store call that commits, with the plan and the run as they were.
<1>1. ASSUME NEW next \in Steps \ {"idle", "plan"}, Commits(w, next), pc[w] = "execute", HasPlan(w),
             left'[w] = left[w]
      PROVE  DoneOf(w)' /\ step'[w] = next /\ attempt'[w] = attempt[w]
             /\ run'[w] = run[w] /\ day'[w] = day[w]
  <2>1. /\ step'[w] = next /\ attempt' = attempt /\ asked' = asked /\ run' = run /\ day' = day
        /\ pc' = pc
    BY <1>1 DEF Commits, Goto, vars
  <2>2. run[w] \in Scans /\ day[w] \in Days
    BY <1>1 DEF TypeOK, Running
  <2>3. \A s \in asked[w] \ left[w] : Persisted(w, s)'
    <3>1. \A s \in asked[w] \ left[w] : Persisted(w, s) /\ s \in Symbols
      BY <1>0, <1>1 DEF DoneOf
    <3> QED BY <2>1, <2>2, <3>1, PersistedGrows
  <2> QED BY <1>1, <2>1, <2>3 DEF DoneOf
<1>2. CASE BeginScan(w)
  <2>1. step'[w] = "plan" /\ pc'[w] = "execute"
    BY <1>2 DEF BeginScan, Goto, Start, TypeOK
  <2> QED BY <2>1 DEF HasItem, DoneOf, HasPlan, Idle
<1>3. CASE Die(w)
  <2>1. LeaveWith(w) /\ pc'[w] = "crashed"
    BY <1>3 DEF Die, Crash, TypeOK
  <2> QED BY <2>1, LeftUndone
<1>4. CASE GetPlan(w)
  <2>1. step'[w] = "upsert" /\ asked'[w] = left'[w]
    BY <1>4 DEF GetPlan, Goto
  <2> QED BY <2>1 DEF HasItem, DoneOf
<1>5. CASE GetEmptyPlan(w) \/ QualifyRaises(w) \/ CommitRaises(w)
  <2>1. LeaveWith(w) /\ \E r \in {"NO_PLAN", "FAILED"} : Return(w, r)
    BY <1>5 DEF GetEmptyPlan, QualifyRaises, CommitRaises, ExecuteFindsNoPlan, NoPlanRaises,
                ExecuteRaises
  <2>2. result'[w] # "COMPLETED"
    BY <2>1 DEF Return, TypeOK
  <2> QED BY <2>1, <2>2, LeftUndone
<1>6. CASE Upsert(w)
  <2>1. PICK s \in left[w] :
          \/ /\ WriteCandidate(s, attempt[w])
             /\ item' = [item EXCEPT ![w] = s]
             /\ Commits(w, "learn") /\ UNCHANGED left
          \/ CommitRaises(w)
    BY <1>6 DEF Upsert
  <2>2. CASE /\ WriteCandidate(s, attempt[w])
             /\ item' = [item EXCEPT ![w] = s]
             /\ Commits(w, "learn") /\ UNCHANGED left
    <3>1. pc[w] = "execute" /\ HasPlan(w)
      BY <1>6 DEF Upsert, At, HasPlan, Idle
    <3>2. DoneOf(w)' /\ step'[w] = "learn"
      BY <1>1, <2>2, <3>1 DEF Steps
    <3>3. item'[w] = s /\ s \in Symbols /\ candidates'[s] = attempt[w] /\ attempt[w] # NoRow
      BY <2>2, RowAssumption DEF WriteCandidate
    <3> QED BY <3>2, <3>3 DEF ItemOf
  <2> QED BY <1>5, <2>1, <2>2
<1>7. CASE Learn(w)
  <2>1. HasItem(w) /\ pc[w] = "execute" /\ HasPlan(w) /\ step[w] = "learn"
    BY <1>7 DEF Learn, At, HasItem, HasPlan, Idle
  <2>2. x \in Symbols /\ e \in Nat
    BY <1>a, <2>1, AtItem
  <2>3. \/ /\ learning' = Append(learning, [symbol |-> x, eval |-> e])
           /\ Commits(w, "lookup") /\ UNCHANGED <<left, item>>
        \/ CommitRaises(w)
    BY <1>a, <1>7 DEF Learn
  <2>4. CASE /\ learning' = Append(learning, [symbol |-> x, eval |-> e])
             /\ Commits(w, "lookup") /\ UNCHANGED <<left, item>>
    <3>1. DoneOf(w)' /\ step'[w] = "lookup" /\ attempt'[w] = e /\ item'[w] = x
      BY <1>a, <1>1, <2>1, <2>4 DEF Steps
    <3>2. Learned(x, e)'
      BY <2>4, LearningLast DEF Learned
    <3>3. candidates'[x] # NoRow
      BY <1>0, <1>a, <2>1, <2>2 DEF ItemOf, Grow
    <3> QED BY <3>1, <3>2, <3>3 DEF ItemOf
  <2> QED BY <1>5, <2>3, <2>4
<1>8. CASE LookupObservation(w) \/ InsertObservation(w)
  <2>1. HasItem(w) /\ pc[w] = "execute" /\ HasPlan(w) /\ step[w] \in {"lookup", "insert"}
    BY <1>8 DEF LookupObservation, InsertObservation, At, HasItem, HasPlan, Idle
  <2>2. x \in Symbols /\ e \in Nat /\ Key(w) \in Scans \X Days \X Symbols
    BY <1>a, <2>1, AtItem
  <2>3. \/ /\ \E next \in {"insert", "audit"} :
              Commits(w, next) /\ (next = "audit" => observations'[Key(w)] # NoRow)
           /\ UNCHANGED <<left, item>>
        \/ CommitRaises(w)
    BY <1>8, <1>a, <2>2, RowAssumption
       DEF LookupObservation, InsertObservation, WriteObservation, stores
  <2>4. ASSUME NEW next \in {"insert", "audit"}, Commits(w, next),
               next = "audit" => observations'[Key(w)] # NoRow, UNCHANGED <<left, item>>
        PROVE  (HasItem(w)' => ItemOf(w)') /\ DoneOf(w)'
    <3>1. DoneOf(w)' /\ step'[w] = next /\ attempt'[w] = e /\ item'[w] = x
          /\ run'[w] = run[w] /\ day'[w] = day[w]
      BY <1>1, <1>a, <2>1, <2>4 DEF Steps
    <3>2. Learned(x, e) /\ candidates[x] # NoRow
      BY <1>0, <1>a, <2>1 DEF ItemOf
    <3>3. Learned(x, e)' /\ candidates'[x] # NoRow
      BY <2>2, <3>2 DEF Grow
    <3>4. Key(w)' = Key(w)
      BY <1>a, <3>1 DEF Key
    <3> QED BY <2>4, <3>1, <3>3, <3>4 DEF ItemOf
  <2> QED BY <1>5, <2>3, <2>4
<1>9. CASE AuditQualified(w)
  <2>1. HasItem(w) /\ pc[w] = "execute" /\ HasPlan(w) /\ step[w] = "audit"
    BY <1>9 DEF AuditQualified, At, HasItem, HasPlan, Idle
  <2>2. \/ /\ qualified' = Append(qualified, [scan |-> run[w], symbol |-> x, eval |-> e])
           /\ left' = [left EXCEPT ![w] = @ \ {x}]
           /\ \E next \in {"return", "upsert"} : Commits(w, next)
        \/ CommitRaises(w)
    BY <1>a, <1>9 DEF AuditQualified
  <2>3. ASSUME qualified' = Append(qualified, [scan |-> run[w], symbol |-> x, eval |-> e]),
               left' = [left EXCEPT ![w] = @ \ {x}],
               NEW next \in {"return", "upsert"}, Commits(w, next)
        PROVE  (HasItem(w)' => ItemOf(w)') /\ DoneOf(w)'
    <3>1. /\ step'[w] = next /\ attempt' = attempt /\ asked' = asked /\ run' = run /\ day' = day
          /\ left'[w] = left[w] \ {x}
      BY <2>3 DEF Commits, Goto, vars
    <3>2. /\ run[w] \in Scans /\ day[w] \in Days /\ x \in Symbols /\ e \in Nat
          /\ Key(w) \in Scans \X Days \X Symbols
      BY <1>a, <2>1, AtItem
    <3>3. ASSUME NEW s \in asked[w] \ left[w] PROVE Persisted(w, s)'
      <4>1. Persisted(w, s) /\ s \in Symbols
        BY <1>0, <2>1, <3>3 DEF DoneOf
      <4> QED BY <3>1, <3>2, <4>1, PersistedGrows
    <3>4. Persisted(w, x)'
      <4>1. observations'[<<run[w], day[w], x>>] # NoRow
        BY <1>0, <1>a, <2>1, <3>2 DEF ItemOf, Grow, Key
      <4>2. Learned(x, e)'
        BY <1>0, <1>a, <2>1 DEF ItemOf, Grow
      <4>3. \E i \in DOMAIN qualified' :
                qualified'[i] = [scan |-> run[w], symbol |-> x, eval |-> e]
        BY <2>3, QualifiedLast
      <4> QED BY <1>a, <3>1, <4>1, <4>2, <4>3 DEF Persisted
    <3> QED BY <2>3, <3>1, <3>3, <3>4 DEF HasItem, DoneOf
  <2> QED BY <1>5, <2>2, <2>3
<1>10. CASE ReturnCompleted(w)
  <2>1. /\ step[w] = "return" /\ pc[w] = "execute" /\ Return(w, "COMPLETED") /\ LeaveWith(w)
    BY <1>10 DEF ReturnCompleted, At, ExecuteCompletes
  <2>2. /\ step'[w] = "idle" /\ attempt' = attempt /\ run' = run /\ day' = day
        /\ result'[w] = "COMPLETED" /\ asked'[w] = asked[w]
    BY <2>1 DEF LeaveWith, Goto, Return, TypeOK
  <2>3. run[w] \in Scans /\ day[w] \in Days
    BY <2>1 DEF TypeOK, Running
  <2>4. \A s \in asked[w] : Persisted(w, s) /\ s \in Symbols
    <3>1. left[w] = {} /\ HasPlan(w)
      BY <2>1 DEF HasPlan, Idle
    <3> QED BY <1>0, <3>1 DEF DoneOf
  <2>5. \A s \in asked[w] : Persisted(w, s)'
    BY <2>2, <2>3, <2>4, PersistedGrows
  <2> QED BY <2>2, <2>5 DEF HasItem, DoneOf
<1> QED BY <1>2, <1>3, <1>4, <1>5, <1>6, <1>7, <1>8, <1>9, <1>10 DEF Execute

\* What backs a CANDIDATE_QUALIFIED row.
Backed(q) ==
    /\ Learned(q.symbol, q.eval)
    /\ candidates[q.symbol] # NoRow
    /\ \E d \in Days : observations[<<q.scan, d, q.symbol>>] # NoRow

LEMMA BackedGrows ==
    ASSUME Grow, NEW q \in [scan : Scans, symbol : Symbols, eval : Nat], Backed(q)
    PROVE  Backed(q)'
<1>1. PICK x \in Scans, s \in Symbols, e \in Nat : x = q.scan /\ s = q.symbol /\ e = q.eval
  OBVIOUS
<1>2. Learned(s, e)' /\ candidates'[s] # NoRow
  BY <1>1 DEF Backed, Grow
<1>3. \E d \in Days : observations'[<<x, d, s>>] # NoRow
  BY <1>1 DEF Backed, Grow
<1> QED BY <1>1, <1>2, <1>3 DEF Backed

LEMMA OneMoreQualified ==
    ASSUME qualified \in Seq([scan : Scans, symbol : Symbols, eval : Nat]), NEW r,
           qualified' = Append(qualified, r), NEW i \in DOMAIN qualified', i \notin DOMAIN qualified
    PROVE  qualified'[i] = r
OBVIOUS

LEMMA NextQualified ==
    ASSUME PipelineTypes, StoresInv, [PipelineNext]_pipelineVars, Grow
    PROVE  QualifiedIsBacked'
<1> DEFINE R == [scan : Scans, symbol : Symbols, eval : Nat]
<1>1. qualified \in Seq(R)
  BY DEF PipelineTypes, PipelineTypeOK
<1>2. \A i \in DOMAIN qualified : qualified[i] \in R /\ Backed(qualified[i])
  <2>1. \A i \in DOMAIN qualified : Backed(qualified[i])
    BY DEF StoresInv, QualifiedIsBacked, Backed
  <2>2. \A i \in DOMAIN qualified : qualified[i] \in R
    <3> HIDE DEF R
    <3> QED BY <1>1
  <2> QED BY <2>1, <2>2
<1>3. ASSUME NEW i \in DOMAIN qualified', NEW q, q = qualified'[i] PROVE Backed(q)'
  <2>1. CASE i \in DOMAIN qualified
    <3>1. q = qualified[i]
      BY <1>3, <2>1 DEF Grow
    <3> QED BY <1>2, <2>1, <3>1, BackedGrows
  <2>2. CASE i \notin DOMAIN qualified
    <3>1. PICK w \in Workers : AuditQualified(w)
      <4>1. qualified' # qualified
        BY <2>2
      <4> QED BY <4>1 DEF pipelineVars, PipelineNext, BeginScan, Die, Around, Execute, GetPlan,
                GetEmptyPlan, QualifyRaises, Upsert, Learn, LookupObservation,
                InsertObservation, ReturnCompleted, stores
    <3>2. PICK x, s, e : x = run[w] /\ s = item[w] /\ e = attempt[w]
      OBVIOUS
    <3>3. qualified' \in {qualified, Append(qualified, [scan |-> x, symbol |-> s, eval |-> e])}
      BY <3>1, <3>2 DEF AuditQualified
    <3>4. q = [scan |-> x, symbol |-> s, eval |-> e]
      <4> DEFINE r == [scan |-> x, symbol |-> s, eval |-> e]
      <4>1. qualified' = Append(qualified, r)
        BY <2>2, <3>3
      <4> HIDE DEF r
      <4>2. qualified'[i] = r
        BY <1>1, <1>3, <2>2, <4>1, OneMoreQualified
      <4> QED BY <1>3, <4>2 DEF r
    <3>5. HasItem(w) /\ step[w] = "audit"
      BY <3>1 DEF AuditQualified, At, HasItem
    <3>6. x \in Scans /\ s \in Symbols /\ day[w] \in Days /\ Key(w) \in Scans \X Days \X Symbols
      BY <3>2, <3>5, AtItem
    <3>7. /\ Learned(s, e) /\ candidates[s] # NoRow
          /\ observations[<<x, day[w], s>>] # NoRow
      BY <3>2, <3>5 DEF StoresInv, ItemOf, Key
    <3>8. /\ Learned(s, e)' /\ candidates'[s] # NoRow
          /\ observations'[<<x, day[w], s>>] # NoRow
      BY <3>2, <3>6, <3>7 DEF Grow, Key
    <3> QED BY <3>4, <3>6, <3>8 DEF Backed
  <2> QED BY <2>1, <2>2
<1> QED BY <1>3 DEF QualifiedIsBacked, Backed

LEMMA NextStores ==
    PipelineTypes /\ StoresInv /\ [PipelineNext]_pipelineVars => StoresInv'
<1> SUFFICES ASSUME PipelineTypes, StoresInv, [PipelineNext]_pipelineVars PROVE StoresInv'
  OBVIOUS
<1>1. Grow /\ PipelineTypes'
  BY StoresStep, NextPipelineTypes
<1>2. QualifiedIsBacked'
  BY <1>1, NextQualified
<1> SUFFICES ASSUME NEW v \in Workers PROVE (HasItem(v)' => ItemOf(v)') /\ DoneOf(v)'
  BY <1>2 DEF StoresInv
<1>3. (HasItem(v) => ItemOf(v)) /\ DoneOf(v)
  BY DEF StoresInv
<1>4. CASE UNCHANGED pipelineVars \/ (Tick /\ UNCHANGED <<locals, stores>>)
  <2>1. UNCHANGED <<pc, run, day, result, locals>>
    BY <1>4 DEF pipelineVars, vars, Tick
  <2> QED BY <1>1, <1>3, <2>1, StoresFrame DEF locals
<1>5. ASSUME NEW w \in Workers, Around(w) PROVE (HasItem(v)' => ItemOf(v)') /\ DoneOf(v)'
  <2>1. UNCHANGED locals
    BY <1>5 DEF Around
  <2> QED BY <1>1, <1>3, <1>5, <2>1, AroundFrame, StoresFrame DEF locals, PipelineTypes
<1>6. ASSUME NEW w \in Workers, BeginScan(w) \/ Execute(w) \/ Die(w)
      PROVE  (HasItem(v)' => ItemOf(v)') /\ DoneOf(v)'
  <2>1. CASE v = w
    BY <1>1, <1>6, <2>1, StoresOwn
  <2>2. CASE v # w
    <3>1. /\ step'[v] = step[v] /\ item'[v] = item[v] /\ left'[v] = left[v]
          /\ asked'[v] = asked[v] /\ attempt'[v] = attempt[v]
          /\ pc'[v] = pc[v] /\ run'[v] = run[v] /\ day'[v] = day[v] /\ result'[v] = result[v]
      BY <1>6, <2>2, OthersLocals
    <3> QED BY <1>1, <1>3, <3>1, StoresFrame
  <2> QED BY <2>1, <2>2
<1> QED BY <1>4, <1>5, <1>6 DEF PipelineNext

LEMMA InitStores == PipelineInit => StoresInv
<1> SUFFICES ASSUME PipelineInit PROVE StoresInv
  OBVIOUS
<1>1. QualifiedIsBacked
  BY DEF PipelineInit, QualifiedIsBacked
<1>2. \A w \in Workers : step[w] = "idle" /\ pc[w] = "poll"
  BY DEF PipelineInit, Init
<1> QED BY <1>1, <1>2 DEF StoresInv, HasItem, DoneOf, HasPlan, Idle

\* For any number of workers, whatever raises or dies between two commits: a
\* CANDIDATE_QUALIFIED row (scan_executor.py:127-136) is only there when the
\* candidate, the learning record and the observation are.
THEOREM QualifiedIsBackedHolds == PipelineSpec => []QualifiedIsBacked
<1>1. StoresInv => QualifiedIsBacked
  BY DEF StoresInv
<1> QED BY <1>1, InitPipelineTypes, NextPipelineTypes, InitStores, NextStores, PTL DEF PipelineSpec

\* For any number of workers: an execution that comes back COMPLETED has stored
\* its whole plan in the attempt that completes, not in one that failed before
\* (scan_executor.py:90-143).
THEOREM CompletedIsPersistedHolds == PipelineSpec => []CompletedIsPersisted
<1>1. PipelineTypes /\ StoresInv => CompletedIsPersisted
  <2> SUFFICES ASSUME PipelineTypes, StoresInv, NEW w \in Workers, NEW s \in Symbols,
                      pc[w] = "record", result[w] = "COMPLETED", s \in asked[w]
               PROVE  Persisted(w, s)
    BY DEF CompletedIsPersisted, Persisted
  <2>1. left[w] = {}
    BY DEF PipelineTypes, PipelineTypeOK, Idle
  <2> QED BY <2>1 DEF StoresInv, DoneOf
<1> QED BY <1>1, InitPipelineTypes, NextPipelineTypes, InitStores, NextStores, PTL DEF PipelineSpec

-----------------------------------------------------------------------------
(* One worker: attempts, evaluations and rows                                *)

Starts == Cardinality(StartIds)

LEMMA StartsNat == ASSUME TypeOK PROVE IsFiniteSet(StartIds) /\ Starts \in Nat
<1>1. Len(audit) \in Nat /\ Ids = 1 .. Len(audit)
  BY DEF TypeOK, Ids
<1>2. IsFiniteSet(Ids)
  BY <1>1, FS_Interval
<1>3. IsFiniteSet(StartIds)
  BY <1>2, FS_Subset DEF StartIds
<1> QED BY <1>3, FS_CardinalityType DEF Starts

LEMMA OneMoreStart ==
    ASSUME TypeOK, NEW w \in Workers, NEW s \in Scans,
           audit' = Append(audit, Started(s, ScheduledAt(s, day[w]), now))
    PROVE  Starts' = Starts + 1
<1>1. day[w] \in Days
  BY DEF TypeOK
<1>2. StartIds' = StartIds \union {Len(audit) + 1} /\ Len(audit) + 1 \notin StartIds
  BY <1>1, StartAddsId
<1>3. IsFiniteSet(StartIds)
  BY StartsNat
<1> QED BY <1>2, <1>3, FS_AddElement DEF Starts

\* The starts are counted up before the executor is entered, never inside it.
LEMMA StartsStep ==
    ASSUME PipelineTypes, NEW w, Workers = {w}, [PipelineNext]_pipelineVars
    PROVE  /\ Starts \in Nat /\ Starts' \in {Starts, Starts + 1}
           /\ pc[w] = "execute" => Starts' = Starts
           /\ BeginScan(w) => Starts' = Starts + 1
<1>1. TypeOK /\ w \in Workers /\ Starts \in Nat
  BY StartsNat DEF PipelineTypes
<1>2. ASSUME audit' = audit PROVE Starts' = Starts
  BY <1>2 DEF Starts, StartIds, Ids
<1>3. ASSUME NEW type \in RunEventTypes, Running(w), audit' = Append(audit, Outcome(w, type))
      PROVE  Starts' = Starts
  BY <1>1, <1>3, OutcomeAddsNoId DEF Starts
<1>4. CASE BeginScan(w)
  <2>1. pc[w] = "next" /\ \E s \in Scans :
          audit' = Append(audit, Started(s, ScheduledAt(s, day[w]), now))
    BY <1>4 DEF BeginScan, Start
  <2> QED BY <1>1, <2>1, OneMoreStart
<1>5. CASE StartRaises(w)
  <2>1. pc[w] = "next" /\ \E s \in Scans :
          audit' \in {audit, Append(audit, Started(s, ScheduledAt(s, day[w]), now))}
    BY <1>5 DEF StartRaises, AppendRaises
  <2>2. ~ BeginScan(w)
    BY <1>1, <1>5 DEF BeginScan, Start, StartRaises, Backoff, TypeOK
  <2> QED BY <1>1, <1>2, <2>1, <2>2, OneMoreStart
<1>6. ASSUME ~ BeginScan(w), ~ StartRaises(w) PROVE Starts' = Starts
  <2>1. CASE audit' = audit
    BY <1>2, <2>1
  <2>2. CASE GetEmptyPlan(w)
    <3>1. Running(w) /\ audit' \in {audit, Append(audit, Outcome(w, "SCAN_NO_PLAN"))}
      BY <2>2 DEF GetEmptyPlan, ExecuteFindsNoPlan, NoPlanRaises, AppendRaises, Return, Running
    <3> QED BY <1>2, <1>3, <3>1 DEF RunEventTypes
  <2>3. CASE Record(w) \/ RecordRaises(w)
    <3>1. Running(w) /\ OutcomeType(result[w]) \in RunEventTypes
          /\ audit' \in {audit, Append(audit, Outcome(w, OutcomeType(result[w])))}
      BY <2>3, OutcomeTypes DEF Record, RecordRaises, AppendRaises, Running
    <3> QED BY <1>2, <1>3, <3>1
  <2>4. CASE Execute(w) /\ ~ GetEmptyPlan(w)
    <3>1. audit' = audit
      BY <2>4 DEF Execute, GetPlan, QualifyRaises, Upsert, Learn, LookupObservation,
                  InsertObservation, AuditQualified, ReturnCompleted, Commits, CommitRaises,
                  ExecuteRaises, ExecuteCompletes, vars
    <3> QED BY <1>2, <3>1
  <2>5. CASE Die(w)
    BY <1>2, <2>5 DEF Die, Crash
  <2>6. CASE Around(w) /\ ~ Record(w) /\ ~ RecordRaises(w)
    BY <1>2, <1>6, <2>6 DEF Around, Poll, PollRaises, Wake, Exit, RequestStop, Restart, Redeploy, Boot
  <2>7. CASE Tick \/ UNCHANGED pipelineVars
    BY <1>2, <2>7 DEF Tick, pipelineVars, vars
  <2> QED BY <1>6, <2>2, <2>3, <2>4, <2>5, <2>6, <2>7 DEF PipelineNext
<1> QED BY <1>1, <1>4, <1>5, <1>6

\* A worker in the executor has just entered it, or was in it with this attempt.
LEMMA AttemptStep ==
    ASSUME PipelineTypes, NEW w, Workers = {w}, [PipelineNext]_pipelineVars, ~ Idle(w)'
    PROVE  BeginScan(w) \/ (~ Idle(w) /\ pc[w] = "execute" /\ attempt'[w] = attempt[w])
<1>0. w \in Workers /\ (Idle(w) <=> pc[w] # "execute")
  BY DEF PipelineTypes, PipelineTypeOK
<1>1. CASE Around(w) \/ UNCHANGED pipelineVars \/ UNCHANGED <<locals, stores>>
  BY <1>0, <1>1 DEF Around, pipelineVars, locals, Idle
<1>2. CASE Die(w)
  <2>1. step'[w] = "idle"
    BY <1>0, <1>2 DEF Die, LeaveWith, Goto, PipelineTypes, PipelineTypeOK
  <2> QED BY <2>1 DEF Idle
<1>3. CASE Execute(w)
  <2>1. pc[w] = "execute"
    BY <1>3 DEF Execute, GetPlan, GetEmptyPlan, QualifyRaises, ExecuteRaises, Return, Upsert,
                Learn, LookupObservation, InsertObservation, AuditQualified, ReturnCompleted, At
  <2>2. attempt' = attempt
    BY <1>3 DEF Execute, GetPlan, GetEmptyPlan, QualifyRaises, Upsert, Learn, LookupObservation,
                InsertObservation, AuditQualified, ReturnCompleted, Commits, CommitRaises, LeaveWith
  <2> QED BY <1>0, <2>1, <2>2
<1> QED BY <1>1, <1>2, <1>3 DEF PipelineNext

\* The attempt in progress is the latest start.
NumberInv == \A w \in Workers : ~ Idle(w) => attempt[w] = Starts /\ Starts >= 1

LEMMA NextNumber ==
    ASSUME PipelineTypes, NumberInv, NEW w, Workers = {w}, [PipelineNext]_pipelineVars
    PROVE  NumberInv'
<1>1. /\ Starts \in Nat /\ w \in Workers
      /\ pc[w] = "execute" => Starts' = Starts
      /\ BeginScan(w) => Starts' = Starts + 1
  BY StartsStep
<1> SUFFICES ASSUME ~ Idle(w)' PROVE attempt'[w] = Starts' /\ Starts' >= 1
  BY DEF NumberInv, Idle, Starts
<1>2. CASE BeginScan(w)
  <2>1. attempt'[w] = Starts + 1
    BY <1>1, <1>2 DEF BeginScan, Starts, PipelineTypes, PipelineTypeOK
  <2> QED BY <1>1, <1>2, <2>1
<1>3. CASE ~ Idle(w) /\ pc[w] = "execute" /\ attempt'[w] = attempt[w]
  BY <1>1, <1>3 DEF NumberInv
<1> QED BY <1>2, <1>3, AttemptStep

\* CandidateIsNewest, made inductive for one worker: no row is of an attempt yet
\* to come, and the one being learnt of is in the candidate table.
NewestInv ==
    /\ CandidateIsNewest
    /\ \A s \in Symbols : candidates[s] # NoRow => candidates[s] <= Starts
    /\ \A w \in Workers : step[w] = "learn" => candidates[item[w]] = attempt[w]

\* DuplicatesNeedFaults, made inductive for one worker: no evaluation of a symbol
\* is learnt of twice, and none of an attempt yet to come.
LearnedOnceInv ==
    /\ \A i, j \in DOMAIN learning : learning[i] = learning[j] => i = j
    /\ \A i \in DOMAIN learning : learning[i].eval \in 1 .. Starts
    /\ \A w \in Workers :
        /\ step[w] = "plan" => \A i \in DOMAIN learning : learning[i].eval < attempt[w]
        /\ ~ Idle(w) => \A s \in left[w] :
             s # item[w] \/ step[w] = "learn" => ~ Learned(s, attempt[w])

SoloPipelineInv == NumberInv /\ NewestInv /\ LearnedOnceInv

LEMMA LearningRows ==
    ASSUME PipelineTypes, NEW i \in DOMAIN learning
    PROVE  learning[i] \in [symbol : Symbols, eval : Nat]
<1> DEFINE R == [symbol : Symbols, eval : Nat]
<1>1. learning \in Seq(R)
  BY DEF PipelineTypes, PipelineTypeOK
<1> HIDE DEF R
<1>2. learning[i] \in R
  BY <1>1
<1> QED BY <1>2 DEF R

LEMMA OneMoreLearned ==
    ASSUME learning \in Seq([symbol : Symbols, eval : Nat]), NEW r,
           learning' = Append(learning, r)
    PROVE  /\ DOMAIN learning' = DOMAIN learning \union {Len(learning) + 1}
           /\ Len(learning) + 1 \notin DOMAIN learning
           /\ \A i \in DOMAIN learning : learning'[i] = learning[i]
           /\ learning'[Len(learning) + 1] = r
OBVIOUS

\* Only two calls of the executor write what the two properties are about.
LEMMA WritesStep ==
    ASSUME PipelineTypes, NEW w, Workers = {w}, [PipelineNext]_pipelineVars
    PROVE  \/ /\ UNCHANGED <<candidates, learning>>
              /\ step'[w] # "learn" \/ UNCHANGED <<step, item, attempt>>
           \/ /\ step[w] = "upsert" /\ UNCHANGED <<learning, attempt>>
              /\ \E s \in left[w] :
                   /\ candidates' = [candidates EXCEPT ![s] = attempt[w]]
                   /\ step'[w] = "learn" => item'[w] = s
           \/ /\ step[w] = "learn" /\ UNCHANGED <<candidates, attempt>> /\ step'[w] # "learn"
              /\ learning' = Append(learning, [symbol |-> item[w], eval |-> attempt[w]])
<1>0. w \in Workers /\ step \in [Workers -> Steps] /\ item \in [Workers -> Symbols \union {NoRow}]
  BY DEF PipelineTypes, PipelineTypeOK
<1>1. CASE Around(w) \/ UNCHANGED pipelineVars \/ UNCHANGED <<locals, stores>>
  BY <1>1 DEF Around, pipelineVars, locals, stores
<1>2. ASSUME LeaveWith(w) PROVE step'[w] = "idle" /\ attempt' = attempt
  BY <1>0, <1>2 DEF LeaveWith, Goto
<1>3. CASE BeginScan(w)
  BY <1>0, <1>3 DEF BeginScan, Goto, stores
<1>4. CASE Die(w) \/ GetEmptyPlan(w) \/ QualifyRaises(w) \/ ReturnCompleted(w)
  BY <1>2, <1>4 DEF Die, GetEmptyPlan, QualifyRaises, ReturnCompleted, stores
<1>5. CASE GetPlan(w)
  BY <1>0, <1>5 DEF GetPlan, Goto, stores
<1>6. CASE Upsert(w)
  BY <1>0, <1>2, <1>6 DEF Upsert, At, WriteCandidate, Commits, CommitRaises, Goto
<1>7. CASE Learn(w)
  BY <1>0, <1>2, <1>7 DEF Learn, At, Commits, CommitRaises, Goto
<1>8. CASE LookupObservation(w)
  BY <1>0, <1>8 DEF LookupObservation, Commits, Goto, stores
<1>9. CASE InsertObservation(w)
  BY <1>0, <1>2, <1>9 DEF InsertObservation, Commits, CommitRaises, Goto
<1>10. CASE AuditQualified(w)
  BY <1>0, <1>2, <1>10 DEF AuditQualified, Commits, CommitRaises, Goto
<1> QED BY <1>1, <1>3, <1>4, <1>5, <1>6, <1>7, <1>8, <1>9, <1>10 DEF PipelineNext, Execute

LEMMA NextNewest ==
    ASSUME PipelineTypes, PipelineTypes', NumberInv, NewestInv, NEW w, Workers = {w},
           [PipelineNext]_pipelineVars
    PROVE  NewestInv'
<1>1. /\ Starts \in Nat /\ Starts' \in {Starts, Starts + 1} /\ w \in Workers
      /\ pc[w] = "execute" => Starts' = Starts
  BY StartsStep
<1>2. /\ candidates \in [Symbols -> Evaluations] /\ left[w] \subseteq Symbols
      /\ \A s \in Symbols : candidates[s] # NoRow => candidates[s] \in Nat /\ candidates[s] <= Starts
      /\ \A i \in DOMAIN learning : /\ learning[i] \in [symbol : Symbols, eval : Nat]
                                    /\ candidates[learning[i].symbol] # NoRow
                                    /\ learning[i].eval <= candidates[learning[i].symbol]
      /\ step[w] = "learn" => candidates[item[w]] = attempt[w]
      /\ ~ Idle(w) => attempt[w] = Starts
      /\ attempt[w] \in Nat /\ attempt[w] # NoRow
  <2>1. /\ candidates \in [Symbols -> Evaluations] /\ left[w] \subseteq Symbols
        /\ attempt[w] \in Nat
    BY <1>1 DEF PipelineTypes, PipelineTypeOK
  <2>2. attempt[w] # NoRow
    BY <2>1, RowAssumption
  <2>3. ASSUME NEW s \in Symbols, candidates[s] # NoRow
        PROVE  candidates[s] \in Nat /\ candidates[s] <= Starts
    BY <2>1, <2>3 DEF NewestInv, Evaluations
  <2>4. ASSUME NEW i \in DOMAIN learning
        PROVE  /\ learning[i] \in [symbol : Symbols, eval : Nat]
               /\ candidates[learning[i].symbol] # NoRow
               /\ learning[i].eval <= candidates[learning[i].symbol]
    <3>1. learning[i] \in [symbol : Symbols, eval : Nat]
      BY LearningRows
    <3> QED BY <3>1 DEF NewestInv, CandidateIsNewest
  <2>5. /\ step[w] = "learn" => candidates[item[w]] = attempt[w]
        /\ ~ Idle(w) => attempt[w] = Starts
    BY <1>1 DEF NewestInv, NumberInv
  <2> QED BY <2>1, <2>2, <2>3, <2>4, <2>5
<1> SUFFICES /\ \A i \in DOMAIN learning' : /\ candidates'[learning'[i].symbol] # NoRow
                                            /\ learning'[i].eval <= candidates'[learning'[i].symbol]
             /\ \A s \in Symbols : candidates'[s] # NoRow => candidates'[s] <= Starts'
             /\ step'[w] = "learn" => candidates'[item'[w]] = attempt'[w]
  BY DEF NewestInv, CandidateIsNewest, Starts
<1>3. CASE /\ UNCHANGED <<candidates, learning>>
           /\ step'[w] # "learn" \/ UNCHANGED <<step, item, attempt>>
  BY <1>1, <1>2, <1>3
<1>4. CASE /\ step[w] = "upsert" /\ UNCHANGED <<learning, attempt>>
           /\ \E s \in left[w] : /\ candidates' = [candidates EXCEPT ![s] = attempt[w]]
                                 /\ step'[w] = "learn" => item'[w] = s
  <2>1. PICK s \in left[w] : /\ candidates' = [candidates EXCEPT ![s] = attempt[w]]
                             /\ step'[w] = "learn" => item'[w] = s
    BY <1>4
  <2>2. /\ candidates'[s] = attempt[w] /\ attempt[w] = Starts
        /\ \A t \in Symbols : t # s => candidates'[t] = candidates[t]
    BY <1>2, <1>4, <2>1 DEF Idle
  <2>3. \A i \in DOMAIN learning' : /\ candidates'[learning'[i].symbol] # NoRow
                                    /\ learning'[i].eval <= candidates'[learning'[i].symbol]
    <3> SUFFICES ASSUME NEW i \in DOMAIN learning
                 PROVE  /\ candidates'[learning[i].symbol] # NoRow
                        /\ learning[i].eval <= candidates'[learning[i].symbol]
      BY <1>4
    <3>1. PICK t \in Symbols, e \in Nat : t = learning[i].symbol /\ e = learning[i].eval
      BY <1>2
    <3>2. candidates[t] \in Nat /\ candidates[t] <= Starts /\ e <= candidates[t]
          /\ candidates[t] # NoRow
      BY <1>2, <3>1
    <3>3. CASE t = s
      BY <1>1, <1>2, <2>2, <3>1, <3>2, <3>3
    <3>4. CASE t # s
      BY <2>2, <3>1, <3>2, <3>4
    <3> QED BY <3>3, <3>4
  <2>4. \A t \in Symbols : candidates'[t] # NoRow => candidates'[t] <= Starts'
    BY <1>1, <1>2, <2>2
  <2>5. step'[w] = "learn" => candidates'[item'[w]] = attempt'[w]
    BY <1>4, <2>1, <2>2
  <2> QED BY <2>3, <2>4, <2>5
<1>5. CASE /\ step[w] = "learn" /\ UNCHANGED <<candidates, attempt>> /\ step'[w] # "learn"
           /\ learning' = Append(learning, [symbol |-> item[w], eval |-> attempt[w]])
  <2>1. PICK x, e : x = item[w] /\ e = attempt[w]
    OBVIOUS
  <2>2. e \in Nat /\ candidates[x] = e /\ e # NoRow
    BY <1>2, <1>5, <2>1
  <2>3. \A i \in DOMAIN learning' :
          \/ i \in DOMAIN learning /\ learning'[i] = learning[i]
          \/ learning'[i] = [symbol |-> x, eval |-> e]
    <3> DEFINE r == [symbol |-> x, eval |-> e]
    <3>1. learning' = Append(learning, r)
      BY <1>5, <2>1
    <3> HIDE DEF r
    <3>2. \A i \in DOMAIN learning' :
            (i \in DOMAIN learning /\ learning'[i] = learning[i]) \/ learning'[i] = r
      BY <3>1, OneMoreLearned DEF PipelineTypes, PipelineTypeOK
    <3> QED BY <3>2 DEF r
  <2> QED BY <1>1, <1>2, <1>5, <2>2, <2>3
<1> QED BY <1>3, <1>4, <1>5, WritesStep

\* The requests not yet learnt of in this attempt.
Unlearnt(w) == {s \in left[w] : s # item[w] \/ step[w] = "learn"}

\* Requests come with the plan; after that they only get fewer, and the symbol
\* just learnt of is no longer among those to learn of.
LEMMA UnlearntStep ==
    ASSUME PipelineTypes, PipelineTypes', NEW w, Workers = {w}, [PipelineNext]_pipelineVars,
           ~ Idle(w)'
    PROVE  \/ Unlearnt(w)' = {}
           \/ step[w] = "plan" /\ Unlearnt(w)' \subseteq Symbols
           \/ ~ Idle(w) /\ Unlearnt(w)' \subseteq
                IF learning' = learning THEN Unlearnt(w) ELSE Unlearnt(w) \ {item[w]}
<1> USE DEF PipelineTypes, PipelineTypeOK
<1>0. w \in Workers
  OBVIOUS
<1>1. CASE Around(w) \/ UNCHANGED pipelineVars \/ UNCHANGED <<locals, stores>>
  BY <1>1 DEF Around, pipelineVars, locals, stores, Unlearnt, Idle
<1>2. ASSUME LeaveWith(w) PROVE FALSE
  BY <1>2 DEF LeaveWith, Goto, Idle
<1>3. CASE BeginScan(w)
  BY <1>3 DEF BeginScan, Goto, Unlearnt
<1>4. CASE Die(w) \/ GetEmptyPlan(w) \/ QualifyRaises(w) \/ ReturnCompleted(w)
  BY <1>2, <1>4 DEF Die, GetEmptyPlan, QualifyRaises, ReturnCompleted
<1>5. CASE GetPlan(w)
  BY <1>5 DEF GetPlan, At, Unlearnt
<1>6. CASE Upsert(w)
  <2>1. PICK s \in left[w] : item' = [item EXCEPT ![w] = s] /\ Goto(w, "learn")
                             /\ left' = left /\ learning' = learning
    BY <1>2, <1>6 DEF Upsert, Commits, CommitRaises
  <2>2. step[w] = "upsert" /\ item[w] = NoRow
    BY <1>6 DEF Upsert, At, HasItem
  <2> QED BY <2>1, <2>2, RowAssumption DEF Unlearnt, Idle
<1>7. CASE Learn(w)
  <2>1. /\ step[w] = "learn" /\ Goto(w, "lookup") /\ UNCHANGED <<left, item>>
    BY <1>2, <1>7 DEF Learn, At, Commits, CommitRaises
  <2> QED BY <2>1 DEF Unlearnt, Idle, Goto
<1>8. CASE LookupObservation(w)
  BY <1>8 DEF LookupObservation, At, Commits, Goto, stores, Unlearnt, Idle
<1>9. CASE InsertObservation(w)
  BY <1>2, <1>9 DEF InsertObservation, At, Commits, CommitRaises, Goto, Unlearnt, Idle
<1>10. CASE AuditQualified(w)
  <2>1. /\ step[w] = "audit" /\ left' = [left EXCEPT ![w] = @ \ {item[w]}] /\ learning' = learning
    BY <1>2, <1>10 DEF AuditQualified, At, CommitRaises
  <2> QED BY <2>1 DEF Unlearnt, Idle
<1> QED BY <1>1, <1>3, <1>4, <1>5, <1>6, <1>7, <1>8, <1>9, <1>10 DEF PipelineNext, Execute

LEMMA PlanStep ==
    ASSUME PipelineTypes, NEW w, Workers = {w}, [PipelineNext]_pipelineVars, step'[w] = "plan"
    PROVE  learning' = learning /\ (BeginScan(w) \/ (step[w] = "plan" /\ attempt' = attempt))
<1> USE DEF PipelineTypes, PipelineTypeOK
<1>1. CASE Around(w) \/ UNCHANGED pipelineVars \/ UNCHANGED <<locals, stores>>
  BY <1>1 DEF Around, pipelineVars, locals, stores
<1>2. ASSUME LeaveWith(w) PROVE FALSE
  BY <1>2 DEF LeaveWith, Goto
<1>3. CASE BeginScan(w)
  <2>1. learning' = learning
    BY <1>3 DEF BeginScan, stores
  <2> QED BY <1>3, <2>1
<1>4. CASE Die(w)
  BY <1>2, <1>4 DEF Die
<1>5. CASE Execute(w)
  BY <1>2, <1>5 DEF Execute, GetPlan, GetEmptyPlan, QualifyRaises, Upsert, Learn,
     LookupObservation, InsertObservation, AuditQualified, ReturnCompleted, Commits,
     CommitRaises, Goto
<1> QED BY <1>1, <1>3, <1>4, <1>5 DEF PipelineNext

LEMMA NextLearnedOnce ==
    ASSUME PipelineTypes, PipelineTypes', NumberInv, LearnedOnceInv, NEW w, Workers = {w},
           [PipelineNext]_pipelineVars
    PROVE  LearnedOnceInv'
<1>1. /\ Starts \in Nat /\ Starts' \in {Starts, Starts + 1} /\ w \in Workers
      /\ pc[w] = "execute" => Starts' = Starts
      /\ BeginScan(w) => attempt'[w] = Starts + 1
  BY StartsStep DEF BeginScan, Starts, PipelineTypes, PipelineTypeOK
<1>2. /\ \A i \in DOMAIN learning : /\ learning[i] \in [symbol : Symbols, eval : Nat]
                                    /\ learning[i].eval \in 1 .. Starts
      /\ \A i, j \in DOMAIN learning : learning[i] = learning[j] => i = j
      /\ ~ Idle(w) => attempt[w] = Starts /\ Starts >= 1
      /\ step[w] = "plan" => \A i \in DOMAIN learning : learning[i].eval < attempt[w]
      /\ ~ Idle(w) => \A s \in Unlearnt(w) : ~ Learned(s, attempt[w])
  BY <1>1, LearningRows DEF LearnedOnceInv, NumberInv, Unlearnt
<1>a. PICK x, e : x = item[w] /\ e = attempt[w]
  OBVIOUS
<1>b. \/ learning' = learning
      \/ step[w] = "learn" /\ learning' = Append(learning, [symbol |-> x, eval |-> e])
  BY <1>a, WritesStep
<1>c. ASSUME step[w] = "learn" PROVE x \in Symbols /\ e = Starts /\ e \in Nat /\ e >= 1
                                     /\ x \in Unlearnt(w) /\ ~ Idle(w)
  BY <1>1, <1>2, <1>a, <1>c, AtItem DEF HasItem, Idle, Unlearnt
<1>d. ASSUME learning' # learning
      PROVE  /\ step[w] = "learn" /\ ~ Learned(x, e)
             /\ DOMAIN learning' = DOMAIN learning \union {Len(learning) + 1}
             /\ Len(learning) + 1 \notin DOMAIN learning
             /\ \A i \in DOMAIN learning : learning'[i] = learning[i]
             /\ learning'[Len(learning) + 1] = [symbol |-> x, eval |-> e]
  <2> DEFINE r == [symbol |-> x, eval |-> e]
  <2>1. step[w] = "learn" /\ learning' = Append(learning, r)
    BY <1>b, <1>d
  <2>2. ~ Learned(x, e)
    BY <1>2, <1>a, <1>c, <2>1
  <2> HIDE DEF r
  <2>3. /\ DOMAIN learning' = DOMAIN learning \union {Len(learning) + 1}
        /\ Len(learning) + 1 \notin DOMAIN learning
        /\ \A i \in DOMAIN learning : learning'[i] = learning[i]
        /\ learning'[Len(learning) + 1] = r
    BY <2>1, OneMoreLearned DEF PipelineTypes, PipelineTypeOK
  <2> QED BY <2>1, <2>2, <2>3 DEF r
<1>3. \A i, j \in DOMAIN learning' : learning'[i] = learning'[j] => i = j
  <2>1. CASE learning' = learning
    BY <1>2, <2>1
  <2>2. CASE learning' # learning
    BY <1>2, <1>d, <2>2 DEF Learned
  <2> QED BY <2>1, <2>2
<1>4. \A i \in DOMAIN learning' : learning'[i].eval \in 1 .. Starts'
  <2>1. CASE learning' = learning
    BY <1>1, <1>2, <2>1
  <2>2. CASE learning' # learning
    BY <1>1, <1>2, <1>c, <1>d, <2>2
  <2> QED BY <2>1, <2>2
<1>5. ASSUME step'[w] = "plan" PROVE \A i \in DOMAIN learning' : learning'[i].eval < attempt'[w]
  BY <1>1, <1>2, <1>5, PlanStep
<1>6. ASSUME ~ Idle(w)', NEW s \in Unlearnt(w)' PROVE ~ Learned(s, attempt[w])'
  <2>1. CASE step[w] = "plan"
    <3>1. attempt'[w] = e /\ learning' = learning
      <4>1. ~ BeginScan(w)
        BY <1>1, <2>1 DEF BeginScan, Start, PipelineTypes, PipelineTypeOK, Idle
      <4> QED BY <1>6, <1>a, <1>b, <2>1, <4>1, AttemptStep
    <3>2. ~ Learned(s, e)
      BY <1>2, <1>a, <2>1 DEF Learned
    <3> QED BY <3>1, <3>2 DEF Learned
  <2>2. CASE /\ ~ Idle(w)
             /\ Unlearnt(w)' \subseteq
                  IF learning' = learning THEN Unlearnt(w) ELSE Unlearnt(w) \ {item[w]}
    <3>1. attempt'[w] = e
      <4>1. ~ BeginScan(w)
        BY <1>1, <2>2 DEF BeginScan, Start, PipelineTypes, PipelineTypeOK, Idle
      <4> QED BY <1>6, <1>a, <4>1, AttemptStep
    <3>2. s \in Unlearnt(w) /\ (learning' # learning => s # x)
      BY <1>6, <1>a, <2>2
    <3>3. ~ Learned(s, e)
      BY <1>2, <1>a, <2>2, <3>2
    <3>4. ~ Learned(s, e)'
      <4>1. CASE learning' = learning
        BY <3>3, <4>1 DEF Learned
      <4>2. CASE learning' # learning
        BY <1>d, <3>2, <3>3, <4>2 DEF Learned
      <4> QED BY <4>1, <4>2
    <3> QED BY <3>1, <3>4 DEF Learned
  <2> QED BY <1>6, <2>1, <2>2, UnlearntStep
<1>7. \A v \in Workers : v = w
  OBVIOUS
<1> QED BY <1>3, <1>4, <1>5, <1>6, <1>7 DEF LearnedOnceInv, Unlearnt, Starts, Idle

LEMMA NextSoloPipeline ==
    Solo /\ PipelineTypes /\ PipelineTypes' /\ SoloPipelineInv /\ [PipelineNext]_pipelineVars
        => SoloPipelineInv'
<1> SUFFICES ASSUME Solo, PipelineTypes, PipelineTypes', SoloPipelineInv,
                    [PipelineNext]_pipelineVars
             PROVE  SoloPipelineInv'
  OBVIOUS
<1>1. PICK w : Workers = {w}
  BY DEF Solo
<1>2. NumberInv' /\ NewestInv' /\ LearnedOnceInv'
  BY <1>1, NextNumber, NextNewest, NextLearnedOnce DEF SoloPipelineInv
<1> QED BY <1>2 DEF SoloPipelineInv

LEMMA InitSoloPipeline == PipelineInit => SoloPipelineInv
<1> SUFFICES ASSUME PipelineInit PROVE SoloPipelineInv
  OBVIOUS
<1>1. /\ \A w \in Workers : step[w] = "idle"
      /\ \A s \in Symbols : candidates[s] = NoRow
      /\ learning = <<>> /\ DOMAIN learning = {}
  BY DEF PipelineInit
<1> QED BY <1>1 DEF SoloPipelineInv, NumberInv, NewestInv, LearnedOnceInv, CandidateIsNewest, Idle

\* One worker: whatever raises or dies, an evaluation in the candidate table is
\* never older than one the learning table has (persistence.py:17-33,
\* scan_executor.py:96-109).
THEOREM CandidateIsNewestHolds ==
    ASSUME Solo
    PROVE  PipelineSpec => []CandidateIsNewest
<1>1. SoloPipelineInv => CandidateIsNewest
  BY DEF SoloPipelineInv, NewestInv
<1>2. PipelineTypes /\ PipelineTypes' /\ SoloPipelineInv /\ [PipelineNext]_pipelineVars
        => SoloPipelineInv'
  BY NextSoloPipeline
<1> QED BY <1>1, <1>2, InitPipelineTypes, NextPipelineTypes, InitSoloPipeline, PTL DEF PipelineSpec

\* The learning rows of a symbol are told apart by their attempts, so that they
\* are no more than the starts.
LEMMA RowsWithinStarts ==
    ASSUME PipelineTypes, LearnedOnceInv, NEW s \in Symbols
    PROVE  LET rows == {i \in DOMAIN learning : learning[i].symbol = s}
           IN  Cardinality(rows) \in Nat /\ Cardinality(rows) <= Starts
<1> DEFINE rows == {i \in DOMAIN learning : learning[i].symbol = s}
           f == [i \in rows |-> learning[i].eval]
<1>1. Starts \in Nat
  BY StartsNat DEF PipelineTypes
<1>2. f \in [rows -> 1 .. Starts]
  BY DEF LearnedOnceInv
<1>3. \A i, j \in rows : f[i] = f[j] => i = j
  <2> SUFFICES ASSUME NEW i \in rows, NEW j \in rows, f[i] = f[j] PROVE i = j
    OBVIOUS
  <2>1. learning[i].eval = learning[j].eval /\ learning[i].symbol = learning[j].symbol
    OBVIOUS
  <2>2. /\ learning[i] \in [symbol : Symbols, eval : Nat]
        /\ learning[j] \in [symbol : Symbols, eval : Nat]
    BY LearningRows
  <2>3. learning[i] = learning[j]
    BY <2>1, <2>2
  <2> QED BY <2>3 DEF LearnedOnceInv
<1> HIDE DEF f
<1>4. f \in Injection(rows, 1 .. Starts)
  BY <1>2, <1>3 DEF Injection, IsInjective
<1>5. IsFiniteSet(1 .. Starts) /\ Cardinality(1 .. Starts) = Starts
  BY <1>1, FS_Interval
<1>6. IsFiniteSet(rows) /\ Cardinality(rows) <= Starts
  BY <1>4, <1>5, FS_Injection
<1>7. Cardinality(rows) \in Nat
  BY <1>6, FS_CardinalityType
<1> QED BY <1>6, <1>7

\* One worker: a symbol has no more learning rows than runs that were attempted
\* and things that went wrong, for any plans (scan_executor.py:100-109).
THEOREM DuplicatesNeedFaultsHolds ==
    ASSUME Solo
    PROVE  PipelineSpec => []DuplicatesNeedFaults
<1>1. PipelineTypes /\ RetriesNeedFaults /\ FiniteRuns /\ SoloPipelineInv => DuplicatesNeedFaults
  <2> SUFFICES ASSUME PipelineTypes, RetriesNeedFaults, FiniteRuns, SoloPipelineInv,
                      NEW s \in Symbols
               PROVE  Cardinality({i \in DOMAIN learning : learning[i].symbol = s})
                        <= Cardinality(AttemptedRuns) + faults
    BY DEF DuplicatesNeedFaults
  <2>1. /\ Cardinality({i \in DOMAIN learning : learning[i].symbol = s}) \in Nat
        /\ Cardinality({i \in DOMAIN learning : learning[i].symbol = s}) <= Starts
    BY RowsWithinStarts DEF SoloPipelineInv
  <2>2. Starts \in Nat /\ faults \in Nat
    BY StartsNat, TimingAssumption DEF PipelineTypes, TypeOK
  <2>3. Cardinality(AttemptedRuns) \in Nat
    BY FS_CardinalityType DEF FiniteRuns
  <2> QED BY <2>1, <2>2, <2>3 DEF RetriesNeedFaults, Starts
<1>2. PipelineTypes /\ PipelineTypes' /\ SoloPipelineInv /\ [PipelineNext]_pipelineVars
        => SoloPipelineInv'
  BY NextSoloPipeline
<1>3. PipelineSpec => []PipelineTypes /\ []SoloPipelineInv
  BY <1>2, InitPipelineTypes, NextPipelineTypes, InitSoloPipeline, PTL DEF PipelineSpec
<1>4. PipelineSpec => Spec
  BY ImplementsWorkerHolds DEF ImplementsWorker
<1>5. Spec => []RetriesNeedFaults
  BY RetriesNeedFaultsHolds
<1>6. Spec => []FiniteRuns
  <2>1. TypeOK /\ SoloInv /\ [Next]_vars => SoloInv'
    BY NextSoloInv
  <2>2. TypeOK /\ TypeOK' /\ SoloInv /\ RetryParts /\ [Next]_vars => RetryParts'
    BY NextRetryInv
  <2>3. RetryParts => FiniteRuns
    BY DEF RetryParts
  <2> QED BY <2>1, <2>2, <2>3, InitTypeOK, NextTypeOK, InitSoloInv, InitRetryInv, PTL DEF Spec
<1> QED BY <1>1, <1>3, <1>4, <1>5, <1>6, PTL

=============================================================================
