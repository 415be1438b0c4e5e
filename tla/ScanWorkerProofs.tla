-------------------------- MODULE ScanWorkerProofs --------------------------
(***************************************************************************)
(* Theorems about ScanWorker, for every schedule, number of workers, number *)
(* of faults and length of the behaviour.                                   *)
(***************************************************************************)
EXTENDS ScanWorker, TLAPS

-----------------------------------------------------------------------------
(* Rows and moments                                                        *)

LEMMA ScheduledMoment ==
    ASSUME NEW s \in Scans, NEW d \in Days
    PROVE  ScheduledAt(s, d) \in Moments
BY ScheduleAssumption DEF ScheduledAt, Moments, Days

LEMMA EndedRow ==
    ASSUME NEW type \in RunEventTypes, NEW s \in Scans,
           NEW m \in Moments \union {NoMoment}, NEW t \in Moments
    PROVE  Ended(type, s, m, t) \in Rows
BY DEF Ended, Event, Rows, EventTypes, Moments

LEMMA StartedRow ==
    ASSUME NEW s \in Scans, NEW m \in Moments, NEW t \in Moments
    PROVE  Started(s, m, t) \in Rows
<1>1. Timeliness(m, t) \in TimelinessClasses
  BY DEF Timeliness, TimelinessClasses
<1> QED BY <1>1 DEF Started, Event, Rows, EventTypes, Moments

LEMMA AppendRow ==
    ASSUME NEW q \in Seq(Rows), NEW e \in Rows
    PROVE  /\ Append(q, e) \in Seq(Rows)
           /\ Len(q) \in Nat
           /\ DOMAIN q = 1 .. Len(q)
           /\ DOMAIN Append(q, e) = 1 .. Len(q) + 1
           /\ \A i \in DOMAIN q : Append(q, e)[i] = q[i] /\ q[i] \in Rows
           /\ Append(q, e)[Len(q) + 1] = e
OBVIOUS

LEMMA OutcomeRow ==
    ASSUME TypeOK, NEW w \in Workers, Running(w), NEW type \in RunEventTypes
    PROVE  Outcome(w, type) \in Rows
<1>1. run[w] \in Scans /\ day[w] \in Days /\ now \in Moments
  BY DEF TypeOK
<1> QED BY <1>1, ScheduledMoment, EndedRow DEF Outcome

LEMMA OutcomeTypes == \A r : OutcomeType(r) \in RunEventTypes
BY DEF OutcomeType, RunEventTypes

-----------------------------------------------------------------------------
(* Type correctness                                                        *)

LEMMA InitTypeOK == Init => TypeOK
<1> SUFFICES ASSUME Init PROVE TypeOK
  OBVIOUS
<1>1. now \in Moments
  BY ScheduleAssumption DEF Init, Moments, Days
<1>2. audit \in Seq(Rows)
  <2>1. \A s \in Scans : Ended("SCAN_COMPLETED", s, NoMoment, now) \in Rows
    BY <1>1, EndedRow DEF RunEventTypes
  <2>2. CASE audit = <<>>
    BY <2>2
  <2>3. ASSUME NEW s \in Scans, audit = <<Ended("SCAN_COMPLETED", s, NoMoment, now)>>
        PROVE  audit \in Seq(Rows)
    <3> DEFINE e == Ended("SCAN_COMPLETED", s, NoMoment, now)
    <3>1. e \in Rows
      BY <2>1
    <3>2. audit = <<e>>
      BY <2>3
    <3> HIDE DEF e
    <3> QED BY <3>1, <3>2
  <2> QED BY <2>2, <2>3 DEF Init
<1> QED BY <1>1, <1>2, ScheduleAssumption, TimingAssumption
        DEF Init, TypeOK, PcStates, Days, Running

\* The doubled delay stays a number.
LEMMA BackoffDelay ==
    ASSUME NEW d \in Nat
    PROVE  MinOf(MaxBackoff, MaxOf(Interval, d * 2)) \in Nat
BY TimingAssumption DEF MinOf, MaxOf

LEMMA TickTypeOK == TypeOK /\ Tick => TypeOK'
<1> SUFFICES ASSUME TypeOK, Tick PROVE TypeOK'
  OBVIOUS
<1>1. now' \in Moments
  <2>0. now.day \in 0 .. MaxDay /\ now.tick \in 0 .. TicksPerDay - 1
    BY DEF TypeOK, Moments, Days
  <2>1. CASE now.tick < TicksPerDay - 1 /\ now' = [now EXCEPT !.tick = @ + 1]
    <3>1. now' = [day |-> now.day, tick |-> now.tick + 1]
      BY <2>1 DEF TypeOK, Moments
    <3>2. now.tick + 1 \in 0 .. TicksPerDay - 1
      BY <2>0, <2>1, ScheduleAssumption
    <3> QED BY <2>0, <3>1, <3>2 DEF Moments, Days
  <2>2. CASE now.day < MaxDay /\ now' = [day |-> now.day + 1, tick |-> 0]
    BY <2>0, <2>2, ScheduleAssumption DEF Moments, Days
  <2> QED BY <2>1, <2>2 DEF Tick
<1> QED BY <1>1 DEF TypeOK, Tick, Running

LEMMA PostTypeOK ==
    ASSUME TypeOK, NEW e \in Rows, Post(e)
    PROVE  TypeOK'
<1>1. audit' \in Seq(Rows)
  BY AppendRow DEF TypeOK, Post
<1>2. posts' \in 0 .. MaxPosts
  BY TimingAssumption DEF TypeOK, Post
<1> QED BY <1>1, <1>2 DEF TypeOK, Post, Running

LEMMA ApiRow ==
    ASSUME TypeOK, Api
    PROVE  \E e \in Rows : Post(e)
<1>0. now \in Moments /\ \A s \in Scans : PostedMoments(s) \subseteq Moments \union {NoMoment}
  BY ScheduledMoment DEF TypeOK, PostedMoments
<1>1. CASE PostStart
  BY <1>0, <1>1, StartedRow DEF PostStart
<1>2. ASSUME NEW type \in RunEventTypes, PostOutcome(type)
      PROVE  \E e \in Rows : Post(e)
  BY <1>0, <1>2, EndedRow DEF PostOutcome
<1> QED BY <1>1, <1>2 DEF Api, PostComplete, PostFail, PostMissed, RunEventTypes

\* An exception that leaves run_due keeps every shape.
LEMMA BackoffTypeOK ==
    ASSUME TypeOK, NEW w \in Workers, Backoff(w)
    PROVE  /\ pc' \in [Workers -> PcStates]
           /\ todo' \in [Workers -> SUBSET Enabled]
           /\ run' \in [Workers -> Scans \union {NoScan}]
           /\ result' \in [Workers -> {"NONE", "COMPLETED", "NO_PLAN", "FAILED"}]
           /\ delay' \in [Workers -> Nat]
           /\ \A v \in Workers : Running(v)' => run'[v] \in Scans
<1>1. delay' \in [Workers -> Nat]
  BY BackoffDelay DEF TypeOK, Backoff
<1>2. pc' \in [Workers -> PcStates]
  BY DEF TypeOK, Backoff, PcStates
<1>3. \A v \in Workers : Running(v)' => Running(v) /\ run'[v] = run[v]
  BY <1>2 DEF TypeOK, Backoff, Running
<1> QED BY <1>1, <1>2, <1>3 DEF TypeOK, Backoff

LEMMA FaultCount == TypeOK /\ Fault => faults' \in 0 .. MaxFaults
BY TimingAssumption DEF TypeOK, Fault

LEMMA AppendRaisesTypeOK ==
    ASSUME TypeOK, NEW e \in Rows, AppendRaises(e)
    PROVE  audit' \in Seq(Rows) /\ faults' \in 0 .. MaxFaults
<1>1. audit \in Seq(Rows) /\ Append(audit, e) \in Seq(Rows)
  BY AppendRow DEF TypeOK
<1>2. audit' \in Seq(Rows)
  BY <1>1 DEF AppendRaises
<1> QED BY <1>2, FaultCount DEF AppendRaises

LEMMA ProceedShape ==
    ASSUME TypeOK, NEW w \in Workers, Proceed(w)
    PROVE  /\ pc' \in [Workers -> PcStates]
           /\ delay' \in [Workers -> Nat]
           /\ \A v \in Workers : Running(v)' => v # w /\ Running(v)
BY TimingAssumption DEF TypeOK, Proceed, PcStates, Running

LEMMA ProgressTypeOK ==
    ASSUME TypeOK, NEW w \in Workers, Progress(w)
    PROVE  TypeOK'
<1>1. CASE Poll(w)
  <2>1. Due(now) \subseteq Enabled /\ now.day \in Days
    BY DEF Due, TypeOK, Moments
  <2> QED BY <1>1, <2>1, TimingAssumption, ZenonT(60) DEF TypeOK, Poll, PcStates, Running
<1>2. CASE Start(w)
  <2>1. PICK s \in Scans : /\ IsFirst(s, w)
                           /\ audit' = Append(audit, Started(s, ScheduledAt(s, day[w]), now))
                           /\ run' = [run EXCEPT ![w] = s]
                           /\ todo' = [todo EXCEPT ![w] = @ \ {s}]
    BY <1>2 DEF Start
  <2>2. Started(s, ScheduledAt(s, day[w]), now) \in Rows
    BY ScheduledMoment, StartedRow DEF TypeOK
  <2>3. audit' \in Seq(Rows)
    BY <2>1, <2>2, AppendRow DEF TypeOK
  <2> QED BY <1>2, <2>1, <2>3 DEF TypeOK, Start, PcStates, Running
<1>3. CASE Record(w)
  <2>1. audit' \in Seq(Rows)
    <3>1. Outcome(w, OutcomeType(result[w])) \in Rows
      BY <1>3, OutcomeTypes, OutcomeRow DEF Record, Running
    <3> QED BY <1>3, <3>1, AppendRow DEF TypeOK, Record
  <2>2. /\ pc' \in [Workers -> PcStates]
        /\ delay' \in [Workers -> Nat]
        /\ \A v \in Workers : Running(v)' => v # w /\ Running(v)
    BY <1>3, ProceedShape DEF Record
  <2> QED BY <1>3, <2>1, <2>2 DEF TypeOK, Record
<1>4. CASE Wake(w) \/ Exit(w)
  BY <1>4 DEF TypeOK, Wake, Exit, PcStates, Running
<1>5. CASE ExecuteCompletes(w) \/ ExecuteRaises(w)
  BY <1>5 DEF TypeOK, ExecuteCompletes, ExecuteRaises, Return, PcStates, Running
<1>6. CASE ExecuteFindsNoPlan(w)
  <2>1. Outcome(w, "SCAN_NO_PLAN") \in Rows
    BY <1>6, OutcomeRow DEF ExecuteFindsNoPlan, Return, Running, RunEventTypes
  <2>2. audit' \in Seq(Rows)
    BY <1>6, <2>1, AppendRow DEF TypeOK, ExecuteFindsNoPlan
  <2> QED BY <1>6, <2>2 DEF TypeOK, ExecuteFindsNoPlan, Return, PcStates, Running
<1> QED BY <1>1, <1>2, <1>3, <1>4, <1>5, <1>6 DEF Progress

LEMMA RaiseTypeOK ==
    ASSUME TypeOK, NEW w \in Workers, Raise(w)
    PROVE  TypeOK'
<1>1. CASE PollRaises(w)
  BY <1>1, FaultCount, BackoffTypeOK DEF TypeOK, PollRaises
<1>2. CASE StartRaises(w)
  <2>1. PICK s \in Scans : AppendRaises(Started(s, ScheduledAt(s, day[w]), now))
    BY <1>2 DEF StartRaises
  <2>2. Started(s, ScheduledAt(s, day[w]), now) \in Rows
    BY ScheduledMoment, StartedRow DEF TypeOK
  <2>3. audit' \in Seq(Rows) /\ faults' \in 0 .. MaxFaults
    BY <2>1, <2>2, AppendRaisesTypeOK
  <2> QED BY <1>2, <2>3, BackoffTypeOK DEF TypeOK, StartRaises
<1>3. CASE NoPlanRaises(w)
  <2>1. Outcome(w, "SCAN_NO_PLAN") \in Rows
    BY <1>3, OutcomeRow DEF NoPlanRaises, Return, Running, RunEventTypes
  <2>2. audit' \in Seq(Rows) /\ faults' \in 0 .. MaxFaults
    BY <1>3, <2>1, AppendRaisesTypeOK DEF NoPlanRaises
  <2> QED BY <1>3, <2>2 DEF TypeOK, NoPlanRaises, Return, PcStates, Running
<1>4. CASE RecordRaises(w)
  <2>1. Outcome(w, OutcomeType(result[w])) \in Rows
    BY <1>4, OutcomeTypes, OutcomeRow DEF RecordRaises, Running
  <2>2. audit' \in Seq(Rows) /\ faults' \in 0 .. MaxFaults
    BY <1>4, <2>1, AppendRaisesTypeOK DEF RecordRaises
  <2> QED BY <1>4, <2>2, BackoffTypeOK DEF TypeOK, RecordRaises
<1> QED BY <1>1, <1>2, <1>3, <1>4 DEF Raise

LEMMA LifecycleTypeOK ==
    ASSUME TypeOK, NEW w \in Workers, Lifecycle(w)
    PROVE  TypeOK'
<1>1. CASE RequestStop(w)
  BY <1>1 DEF TypeOK, RequestStop, Running
<1>2. CASE Crash(w)
  BY <1>2, FaultCount DEF TypeOK, Crash, PcStates, Running
<1>3. CASE Restart(w) \/ Redeploy(w)
  BY <1>3, TimingAssumption, ZenonT(60) DEF TypeOK, Restart, Redeploy, Boot, PcStates, Running
<1> QED BY <1>1, <1>2, <1>3 DEF Lifecycle

LEMMA NextTypeOK == TypeOK /\ [Next]_vars => TypeOK'
<1> SUFFICES ASSUME TypeOK, [Next]_vars PROVE TypeOK'
  OBVIOUS
<1>1. CASE Tick
  BY <1>1, TickTypeOK
<1>2. CASE Api
  BY <1>2, ApiRow, PostTypeOK
<1>3. ASSUME NEW w \in Workers, Progress(w) \/ Raise(w) \/ Lifecycle(w) PROVE TypeOK'
  BY <1>3, ProgressTypeOK, RaiseTypeOK, LifecycleTypeOK
<1>4. CASE UNCHANGED vars
  BY <1>4 DEF TypeOK, vars, Running
<1> QED BY <1>1, <1>2, <1>3, <1>4 DEF Next

\* Every variable of the worker stays in its domain (worker_main.py:54-99).
THEOREM TypeCorrect == Spec => []TypeOK
BY InitTypeOK, NextTypeOK, PTL DEF Spec

-----------------------------------------------------------------------------
(* What one more row changes                                               *)

\* The runs that have an outcome after an append: the old ones and the new row's.
LEMMA SettledAppend ==
    ASSUME audit \in Seq(Rows), NEW e \in Rows, audit' = Append(audit, e),
           NEW s, NEW d
    PROVE  Settled(s, d)' <=> Settled(s, d) \/ IsOutcome(e, s, d)
<1>1. /\ DOMAIN audit' = 1 .. Len(audit) + 1 /\ DOMAIN audit = 1 .. Len(audit)
      /\ Len(audit) \in Nat
      /\ \A i \in DOMAIN audit : audit'[i] = audit[i]
      /\ audit'[Len(audit) + 1] = e
  BY AppendRow
<1>2. DOMAIN audit' = DOMAIN audit \union {Len(audit) + 1}
  BY <1>1
<1> QED BY <1>1, <1>2 DEF Settled, OutcomeIds, Ids

\* A start is an outcome of nothing.
LEMMA StartedIsNoOutcome ==
    \A s, m, t, x, d : ~ IsOutcome(Started(s, m, t), x, d)
BY DEF Started, Event, IsOutcome, RunEventTypes

\* An outcome the worker records is of the run it is handling.
LEMMA OutcomeOfRun ==
    ASSUME TypeOK, NEW w \in Workers, Running(w), NEW type \in RunEventTypes,
           NEW s, NEW d
    PROVE  IsOutcome(Outcome(w, type), s, d) <=> s = run[w] /\ d = day[w]
<1>1. ScheduledAt(run[w], day[w]) \in Moments
  BY ScheduledMoment DEF TypeOK
<1>2. ScheduledAt(run[w], day[w]) # NoMoment
  BY <1>1, MomentAssumption
<1> QED BY <1>2 DEF Outcome, Ended, Event, IsOutcome, LogicalDay, ScheduledAt

LEMMA ApiAppends == Api => \E e : Post(e)
BY DEF Api, PostStart, PostComplete, PostFail, PostMissed, PostOutcome

\* Every step leaves the audit as it is or appends one well-formed row.
LEMMA AuditStep ==
    ASSUME TypeOK, [Next]_vars
    PROVE  audit' = audit \/ \E e \in Rows : audit' = Append(audit, e)
<1>1. CASE Api
  BY <1>1, ApiRow DEF Post
<1>2. ASSUME NEW w \in Workers, Start(w) \/ StartRaises(w)
      PROVE  audit' = audit \/ \E e \in Rows : audit' = Append(audit, e)
  <2>1. \A s \in Scans : Started(s, ScheduledAt(s, day[w]), now) \in Rows
    BY ScheduledMoment, StartedRow DEF TypeOK
  <2> QED BY <1>2, <2>1 DEF Start, StartRaises, AppendRaises
<1>3. ASSUME NEW w \in Workers, NEW type \in RunEventTypes, Running(w),
             audit' = Append(audit, Outcome(w, type)) \/ AppendRaises(Outcome(w, type))
      PROVE  audit' = audit \/ \E e \in Rows : audit' = Append(audit, e)
  BY <1>3, OutcomeRow DEF AppendRaises
<1>4. ASSUME NEW w \in Workers,
             ExecuteFindsNoPlan(w) \/ NoPlanRaises(w) \/ Record(w) \/ RecordRaises(w)
      PROVE  audit' = audit \/ \E e \in Rows : audit' = Append(audit, e)
  BY <1>3, <1>4, OutcomeTypes
     DEF ExecuteFindsNoPlan, NoPlanRaises, Return, Record, RecordRaises, Running, RunEventTypes
<1>5. ASSUME NEW w \in Workers,
             \/ Poll(w) \/ PollRaises(w) \/ Wake(w) \/ Exit(w) \/ Lifecycle(w)
             \/ ExecuteCompletes(w) \/ ExecuteRaises(w)
      PROVE  audit' = audit
  BY <1>5 DEF Poll, PollRaises, Wake, Exit, ExecuteCompletes, ExecuteRaises, Return,
              Lifecycle, RequestStop, Crash, Restart, Redeploy, Boot
<1>6. CASE Tick \/ UNCHANGED vars
  BY <1>6 DEF Tick, vars
<1> QED BY <1>1, <1>2, <1>4, <1>5, <1>6 DEF Next, Progress, Raise

\* What has an outcome keeps it.
LEMMA SettledMonotone ==
    ASSUME TypeOK, [Next]_vars, NEW s, NEW d, Settled(s, d)
    PROVE  Settled(s, d)'
<1>1. CASE audit' = audit
  BY <1>1 DEF Settled, OutcomeIds, Ids
<1>2. ASSUME NEW e \in Rows, audit' = Append(audit, e) PROVE Settled(s, d)'
  BY <1>2, SettledAppend DEF TypeOK
<1> QED BY <1>1, <1>2, AuditStep

\* A worker's step leaves the process state of the others alone.
LEMMA OthersKept ==
    ASSUME TypeOK, NEW w \in Workers, NEW v \in Workers, v # w,
           Progress(w) \/ Raise(w) \/ Lifecycle(w)
    PROVE  pc'[v] = pc[v] /\ todo'[v] = todo[v] /\ day'[v] = day[v] /\ run'[v] = run[v]
BY DEF TypeOK, Progress, Raise, Lifecycle, Poll, Start, Record, Proceed, Wake, Exit,
       ExecuteCompletes, ExecuteRaises, ExecuteFindsNoPlan, Return,
       PollRaises, StartRaises, NoPlanRaises, RecordRaises, Backoff,
       RequestStop, Crash, Restart, Redeploy, Boot

\* Only the clock's own steps move the clock, and never backwards.
LEMMA ClockStep ==
    ASSUME TypeOK, [Next]_vars
    PROVE  \/ now' = now
           \/ now'.day = now.day /\ now'.tick = now.tick + 1
           \/ now'.day = now.day + 1 /\ now'.tick = 0
<1>1. CASE Tick
  <2>1. CASE now' = [now EXCEPT !.tick = @ + 1]
    BY <2>1 DEF TypeOK, Moments
  <2> QED BY <1>1, <2>1 DEF Tick
<1>2. CASE Api
  BY <1>2, ApiAppends DEF Post
<1>3. ASSUME NEW w \in Workers, Progress(w) \/ Raise(w) \/ Lifecycle(w) PROVE now' = now
  BY <1>3 DEF Progress, Raise, Lifecycle, Poll, Start, Record, Wake, Exit,
       ExecuteCompletes, ExecuteRaises, ExecuteFindsNoPlan, Return,
       PollRaises, StartRaises, NoPlanRaises, RecordRaises,
       RequestStop, Crash, Restart, Redeploy, Boot
<1> QED BY <1>1, <1>2, <1>3 DEF Next, vars

-----------------------------------------------------------------------------
(* Scans of a day run in order                                             *)

\* A worker none of whose list variables change keeps its list in order.
LEMMA OrderFrame ==
    ASSUME TypeOK, [Next]_vars, OrderInv, NEW v \in Workers,
           InRunDue(v)', InRunDue(v), Running(v)' <=> Running(v),
           todo'[v] = todo[v], day'[v] = day[v], run'[v] = run[v]
    PROVE  ListInOrder(v)'
<1>1. ListInOrder(v)
  BY DEF OrderInv
<1> QED BY <1>1, SettledMonotone DEF ListInOrder

LEMMA NextOrderInv == TypeOK /\ OrderInv /\ [Next]_vars => OrderInv'
<1> SUFFICES ASSUME TypeOK, OrderInv, [Next]_vars,
                    NEW v \in Workers, InRunDue(v)'
             PROVE  ListInOrder(v)'
  BY DEF OrderInv
<1>1. CASE Tick \/ UNCHANGED vars \/ Api
  <2>1. UNCHANGED <<pc, todo, day, run>>
    BY <1>1, ApiAppends DEF Tick, vars, Post
  <2> QED BY <2>1, OrderFrame DEF InRunDue, Running
<1>2. ASSUME NEW w \in Workers, Progress(w) \/ Raise(w) \/ Lifecycle(w), v # w
      PROVE  ListInOrder(v)'
  <2>1. pc'[v] = pc[v] /\ todo'[v] = todo[v] /\ day'[v] = day[v] /\ run'[v] = run[v]
    BY <1>2, OthersKept
  <2> QED BY <2>1, OrderFrame DEF InRunDue, Running
<1>3. CASE Poll(v)
  \* the list is what is due: anything earlier is due too, or settled today
  <2>1. pc'[v] = "next" /\ todo'[v] = Due(now) /\ day'[v] = now.day
    BY <1>3 DEF TypeOK, Poll, InRunDue, Running
  <2>2. ASSUME NEW t \in Due(now), NEW s \in Enabled, TimeOf[s] < TimeOf[t]
        PROVE  s \in Due(now) \/ Settled(s, now.day)
    <3>1. TimeOf[s] <= now.tick
      BY <2>2, ScheduleAssumption DEF Due, TypeOK, Moments
    <3> QED BY <2>2, <3>1 DEF Due, LastRunIsOn
  <2>3. audit' = audit
    BY <1>3 DEF Poll
  <2> QED BY <2>1, <2>2, <2>3 DEF ListInOrder, Running, Settled, OutcomeIds, Ids
<1>4. CASE Start(v)
  \* the first of the list has no unsettled predecessor
  <2>1. PICK s \in Scans : /\ IsFirst(s, v) /\ run' = [run EXCEPT ![v] = s]
                           /\ todo' = [todo EXCEPT ![v] = @ \ {s}]
    BY <1>4 DEF Start
  <2>2. /\ run'[v] = s /\ todo'[v] = todo[v] \ {s} /\ day'[v] = day[v]
        /\ Running(v)' /\ ~ Running(v) /\ s \in Enabled /\ todo[v] \subseteq Enabled
    BY <1>4, <2>1 DEF TypeOK, Start, IsFirst, Running
  <2>3. ListInOrder(v)
    BY <1>4 DEF OrderInv, Start, InRunDue
  <2>4. ASSUME NEW r \in Enabled, TimeOf[r] < TimeOf[s] PROVE Settled(r, day[v])
    <3>1. r \notin todo[v]
      BY <2>1, <2>4, ScheduleAssumption DEF IsFirst
    <3> QED BY <2>1, <2>2, <2>3, <2>4, <3>1 DEF ListInOrder, IsFirst
  <2> QED BY <2>2, <2>3, <2>4, SettledMonotone DEF ListInOrder
<1>5. CASE Record(v)
  \* the run that ends becomes settled
  <2>1. /\ todo'[v] = todo[v] /\ day'[v] = day[v] /\ ~ Running(v)' /\ Running(v)
    BY <1>5 DEF TypeOK, Record, Proceed, Running
  <2>2. ASSUME NEW s, NEW d, s = run[v], d = day[v] PROVE Settled(s, d)'
    <3>1. Outcome(v, OutcomeType(result[v])) \in Rows
      BY <2>1, OutcomeTypes, OutcomeRow
    <3>2. IsOutcome(Outcome(v, OutcomeType(result[v])), s, d)
      BY <2>1, <2>2, OutcomeTypes, OutcomeOfRun
    <3> QED BY <1>5, <3>1, <3>2, SettledAppend DEF Record, TypeOK
  <2>3. ListInOrder(v)
    BY <2>1 DEF OrderInv, InRunDue
  <2> QED BY <2>1, <2>2, <2>3, SettledMonotone DEF ListInOrder
<1>6. CASE ExecuteCompletes(v) \/ ExecuteRaises(v) \/ ExecuteFindsNoPlan(v) \/ NoPlanRaises(v)
  <2>1. /\ Running(v) /\ Running(v)'
        /\ todo'[v] = todo[v] /\ day'[v] = day[v] /\ run'[v] = run[v]
    BY <1>6 DEF TypeOK, ExecuteCompletes, ExecuteRaises, ExecuteFindsNoPlan, NoPlanRaises,
                Return, Running
  <2> QED BY <2>1, OrderFrame DEF InRunDue
<1>7. CASE RequestStop(v)
  BY <1>7, OrderFrame DEF RequestStop, InRunDue, Running
<1>8. CASE \/ PollRaises(v) \/ StartRaises(v) \/ RecordRaises(v) \/ Wake(v) \/ Exit(v)
           \/ Crash(v) \/ Restart(v) \/ Redeploy(v)
  <2>1. pc'[v] \in {"sleep", "poll", "exited", "crashed"}
    BY <1>8 DEF TypeOK, PollRaises, StartRaises, RecordRaises, Backoff, Wake, Exit,
                Crash, Restart, Redeploy, Boot
  <2> QED BY <2>1 DEF InRunDue, Running
<1> QED BY <1>1, <1>2, <1>3, <1>4, <1>5, <1>6, <1>7, <1>8
        DEF Next, Progress, Raise, Lifecycle

LEMMA InitOrderInv == Init => OrderInv
BY DEF Init, OrderInv, InRunDue, Running

\* Whatever the schedule, the number of workers, the faults and the API posts: a
\* scan runs only when every enabled scan before it that day has an outcome
\* (worker.py:38-43 runs the list in time order, one scan at a time).
THEOREM ChronologicalHolds == Spec => []Chronological
<1>1. OrderInv => Chronological
  BY DEF OrderInv, ListInOrder, Chronological, InRunDue
<1> QED BY <1>1, InitTypeOK, NextTypeOK, InitOrderInv, NextOrderInv, PTL DEF Spec

-----------------------------------------------------------------------------
(* A worker only runs what is scheduled                                    *)

\* RunsAreDue, made inductive: every entry of a list was due when the list was
\* read, and the clock has not gone back since.
Reached(s, d) == d < now.day \/ (d = now.day /\ TimeOf[s] <= now.tick)
DueList(w) ==
    /\ day[w] \in ScanDays
    /\ \A s \in todo[w] : Reached(s, day[w])
    /\ Running(w) => run[w] \in Enabled /\ Reached(run[w], day[w])
DueInv == \A w \in Workers : InRunDue(w) => DueList(w)

\* A day is at least one tick long, so days apart are ticks apart.
LEMMA DaysApart ==
    ASSUME NEW k \in Int, k >= 1, NEW n \in Nat
    PROVE  k * n >= n
<1>1. k * n = (k - 1) * n + n
  OBVIOUS
<1>2. (k - 1) * n >= 0
  <2>1. k - 1 \in Nat
    OBVIOUS
  <2> QED BY <2>1
<1>3. (k - 1) * n \in Int
  OBVIOUS
<1> QED BY <1>1, <1>2, <1>3

\* What the clock has reached stays reached.
LEMMA ReachedMonotone ==
    ASSUME TypeOK, [Next]_vars, NEW s \in Scans, NEW d \in Days, Reached(s, d)
    PROVE  Reached(s, d)'
<1>1. /\ now.day \in Int /\ now.tick \in Int /\ TimeOf[s] \in Int /\ d \in Int
  BY ScheduleAssumption DEF TypeOK, Moments, Days
<1> QED BY <1>1, ClockStep DEF Reached

\* What has been reached lies in the past.
LEMMA ReachedElapsed ==
    ASSUME TypeOK, NEW s \in Scans, NEW d \in Days, Reached(s, d)
    PROVE  Elapsed(ScheduledAt(s, d), now) >= 0
<1>1. /\ now.day \in Int /\ now.tick \in 0 .. TicksPerDay - 1
      /\ TimeOf[s] \in 0 .. TicksPerDay - 1 /\ d \in Int /\ TicksPerDay \in Nat
  BY ScheduleAssumption DEF TypeOK, Moments, Days
<1>2. Elapsed(ScheduledAt(s, d), now) = (now.day - d) * TicksPerDay + (now.tick - TimeOf[s])
  BY DEF Elapsed, ScheduledAt
<1>3. CASE d < now.day
  <2>1. (now.day - d) * TicksPerDay >= TicksPerDay
    BY <1>1, <1>3, DaysApart
  <2>2. (now.day - d) * TicksPerDay \in Int
    BY <1>1
  <2> QED BY <1>1, <1>2, <2>1, <2>2
<1>4. CASE d = now.day /\ TimeOf[s] <= now.tick
  <2>1. (now.day - d) * TicksPerDay = 0
    BY <1>1, <1>4
  <2> QED BY <1>1, <1>2, <1>4, <2>1
<1> QED BY <1>3, <1>4 DEF Reached

\* A worker that goes on with a part of its list keeps it due.
LEMMA DueFrame ==
    ASSUME TypeOK, [Next]_vars, NEW v \in Workers, InRunDue(v), DueList(v),
           day'[v] = day[v], todo'[v] \subseteq todo[v],
           Running(v)' => \/ Running(v) /\ run'[v] = run[v]
                          \/ run'[v] \in todo[v]
    PROVE  DueList(v)'
<1>1. day[v] \in Days /\ todo[v] \subseteq Enabled /\ Enabled \subseteq Scans
  BY ScheduleAssumption DEF TypeOK
<1>2. \A s \in Scans : Reached(s, day[v]) => \A d : d = day[v] => Reached(s, d)'
  BY <1>1, ReachedMonotone
<1> QED BY <1>1, <1>2 DEF DueList

LEMMA NextDueInv == TypeOK /\ DueInv /\ [Next]_vars => DueInv'
<1> SUFFICES ASSUME TypeOK, DueInv, [Next]_vars, NEW v \in Workers, InRunDue(v)'
             PROVE  DueList(v)'
  BY DEF DueInv
<1>0. InRunDue(v) => DueList(v)
  BY DEF DueInv
<1>1. ASSUME pc'[v] = pc[v] /\ todo'[v] = todo[v] /\ day'[v] = day[v] /\ run'[v] = run[v]
      PROVE  DueList(v)'
  BY <1>0, <1>1, DueFrame DEF InRunDue, Running
<1>2. CASE Tick \/ UNCHANGED vars \/ Api
  BY <1>1, <1>2, ApiAppends DEF Tick, vars, Post
<1>3. ASSUME NEW w \in Workers, Progress(w) \/ Raise(w) \/ Lifecycle(w), v # w
      PROVE  DueList(v)'
  BY <1>1, <1>3, OthersKept
<1>4. CASE Poll(v)
  \* the list is what is due now
  <2>1. pc'[v] = "next" /\ todo'[v] = Due(now) /\ day'[v] = now.day /\ Due(now) # {}
        /\ now' = now
    BY <1>4 DEF TypeOK, Poll, InRunDue, Running
  <2>2. \A s \in Due(now) : now.day \in ScanDays /\ TimeOf[s] <= now.tick
    BY DEF Due
  <2> QED BY <2>1, <2>2 DEF DueList, Reached, Running
<1>5. CASE Start(v)
  <2>1. PICK s \in Scans : /\ IsFirst(s, v) /\ run' = [run EXCEPT ![v] = s]
                           /\ todo' = [todo EXCEPT ![v] = @ \ {s}]
    BY <1>5 DEF Start
  <2>2. /\ run'[v] \in todo[v] /\ todo'[v] \subseteq todo[v] /\ day'[v] = day[v]
        /\ InRunDue(v)
    BY <1>5, <2>1 DEF TypeOK, Start, IsFirst, InRunDue
  <2> QED BY <1>0, <2>2, DueFrame
<1>6. CASE Record(v)
  <2>1. /\ todo'[v] = todo[v] /\ day'[v] = day[v] /\ ~ Running(v)' /\ InRunDue(v)
    BY <1>6 DEF TypeOK, Record, Proceed, Running, InRunDue
  <2> QED BY <1>0, <2>1, DueFrame
<1>7. CASE ExecuteCompletes(v) \/ ExecuteRaises(v) \/ ExecuteFindsNoPlan(v) \/ NoPlanRaises(v)
  <2>1. /\ Running(v) /\ todo'[v] = todo[v] /\ day'[v] = day[v] /\ run'[v] = run[v]
    BY <1>7 DEF TypeOK, ExecuteCompletes, ExecuteRaises, ExecuteFindsNoPlan, NoPlanRaises,
                Return, Running
  <2> QED BY <1>0, <2>1, DueFrame DEF InRunDue
<1>8. CASE RequestStop(v)
  BY <1>1, <1>8 DEF RequestStop
<1>9. CASE \/ PollRaises(v) \/ StartRaises(v) \/ RecordRaises(v) \/ Wake(v) \/ Exit(v)
           \/ Crash(v) \/ Restart(v) \/ Redeploy(v)
  <2>1. pc'[v] \in {"sleep", "poll", "exited", "crashed"}
    BY <1>9 DEF TypeOK, PollRaises, StartRaises, RecordRaises, Backoff, Wake, Exit,
                Crash, Restart, Redeploy, Boot
  <2> QED BY <2>1 DEF InRunDue, Running
<1> QED BY <1>2, <1>3, <1>4, <1>5, <1>6, <1>7, <1>8, <1>9
        DEF Next, Progress, Raise, Lifecycle

LEMMA InitDueInv == Init => DueInv
BY DEF Init, DueInv, InRunDue, Running

\* A worker only runs an enabled scan, on a market day and no earlier than its
\* time, however late it gets to the end of its list, and whatever other workers
\* and API clients do meanwhile (worker.py:38-43, scheduler_service.py:43-59).
THEOREM RunsAreDueHolds == Spec => []RunsAreDue
<1>1. TypeOK /\ DueInv => RunsAreDue
  <2> SUFFICES ASSUME TypeOK, DueInv, NEW w \in Workers, Running(w)
               PROVE  /\ run[w] \in Enabled /\ day[w] \in ScanDays
                      /\ Elapsed(ScheduledAt(run[w], day[w]), now) >= 0
    BY DEF RunsAreDue
  <2>1. DueList(w)
    BY DEF DueInv, InRunDue
  <2>2. run[w] \in Scans /\ day[w] \in Days
    BY DEF TypeOK
  <2> QED BY <2>1, <2>2, ReachedElapsed DEF DueList
<1> QED BY <1>1, InitTypeOK, NextTypeOK, InitDueInv, NextDueInv, PTL DEF Spec

-----------------------------------------------------------------------------
(* A start recorded after midnight                                         *)

\* OvernightStartIsRecovery, made inductive: a start keeps the class computed from
\* some moment of the day of its started_at.
StartRowsInv == \A i \in StartIds :
    /\ audit[i].sched \in Moments
    /\ \E m \in Moments : /\ m.day = audit[i].stamp
                          /\ audit[i].timeliness = Timeliness(audit[i].sched, m)

\* Whoever records a start, a worker at the present moment or a client with a
\* started_at of its own, classes it by the moment it states.
LEMMA StartRowStep ==
    ASSUME TypeOK, [Next]_vars
    PROVE  \/ audit' = audit
           \/ \E e \in Rows :
                /\ audit' = Append(audit, e)
                /\ e.type = "SCAN_STARTED" =>
                     \E s \in Scans, m, t \in Moments : e = Started(s, m, t)
<1> DEFINE Good(e) == e.type = "SCAN_STARTED" =>
                        \E s \in Scans, m, t \in Moments : e = Started(s, m, t)
           Step == audit' = audit \/ \E e \in Rows : audit' = Append(audit, e) /\ Good(e)
<1>0. now \in Moments
  BY DEF TypeOK
<1>1. \A s \in Scans, m, t \in Moments : Started(s, m, t) \in Rows /\ Good(Started(s, m, t))
  BY StartedRow
<1>2. \A type \in RunEventTypes, s \in Scans, m \in Moments \union {NoMoment} :
        Ended(type, s, m, now) \in Rows /\ Good(Ended(type, s, m, now))
  <2>1. \A type \in RunEventTypes : \A s, m : Ended(type, s, m, now).type # "SCAN_STARTED"
    BY DEF Ended, Event, RunEventTypes
  <2> QED BY <1>0, <2>1, EndedRow
<1>3. ASSUME NEW w \in Workers, Running(w), NEW type \in RunEventTypes
      PROVE  Outcome(w, type) \in Rows /\ Good(Outcome(w, type))
  BY <1>2, <1>3, ScheduledMoment DEF Outcome, TypeOK
<1>4. CASE Api
  <2>0. \A s \in Scans : PostedMoments(s) \subseteq Moments \union {NoMoment}
    BY ScheduledMoment DEF PostedMoments
  <2>1. CASE PostStart
    <3>1. PICK s \in Scans, started \in Moments, m \in Moments : Post(Started(s, m, started))
      BY <2>0, <2>1 DEF PostStart
    <3> QED BY <1>1, <3>1 DEF Post
  <2>2. ASSUME NEW type \in RunEventTypes, PostOutcome(type) PROVE Step
    BY <1>2, <2>0, <2>2 DEF PostOutcome, Post
  <2> QED BY <1>4, <2>1, <2>2 DEF Api, PostComplete, PostFail, PostMissed, RunEventTypes
<1>5. ASSUME NEW w \in Workers, Start(w) \/ StartRaises(w) PROVE Step
  <2>1. \A s \in Scans : ScheduledAt(s, day[w]) \in Moments
    BY ScheduledMoment DEF TypeOK
  <2>2. \A s \in Scans : LET e == Started(s, ScheduledAt(s, day[w]), now)
                         IN  e \in Rows /\ Good(e)
    BY <1>0, <1>1, <2>1
  <2> QED BY <1>5, <2>2 DEF Start, StartRaises, AppendRaises
<1>6. ASSUME NEW w \in Workers,
             ExecuteFindsNoPlan(w) \/ NoPlanRaises(w) \/ Record(w) \/ RecordRaises(w)
      PROVE  Step
  <2>1. Running(w)
    BY <1>6 DEF ExecuteFindsNoPlan, NoPlanRaises, Return, Record, RecordRaises, Running
  <2>2. \E type \in RunEventTypes : audit' = audit \/ audit' = Append(audit, Outcome(w, type))
    BY <1>6, OutcomeTypes
       DEF ExecuteFindsNoPlan, NoPlanRaises, Record, RecordRaises, AppendRaises, RunEventTypes
  <2> QED BY <1>3, <2>1, <2>2
<1>7. ASSUME NEW w \in Workers,
             \/ Poll(w) \/ PollRaises(w) \/ Wake(w) \/ Exit(w) \/ Lifecycle(w)
             \/ ExecuteCompletes(w) \/ ExecuteRaises(w)
      PROVE  audit' = audit
  BY <1>7 DEF Poll, PollRaises, Wake, Exit, ExecuteCompletes, ExecuteRaises, Return,
              Lifecycle, RequestStop, Crash, Restart, Redeploy, Boot
<1>8. CASE Tick \/ UNCHANGED vars
  BY <1>8 DEF Tick, vars
<1> QED BY <1>4, <1>5, <1>6, <1>7, <1>8 DEF Next, Progress, Raise

\* The part of StartRowsInv about one row.
StartRow(e) ==
    /\ e.sched \in Moments
    /\ \E m \in Moments : m.day = e.stamp /\ e.timeliness = Timeliness(e.sched, m)

LEMMA NextStartRowsInv == TypeOK /\ StartRowsInv /\ [Next]_vars => StartRowsInv'
<1> SUFFICES ASSUME TypeOK, StartRowsInv, [Next]_vars,
                    NEW i \in Ids', audit'[i].type = "SCAN_STARTED"
             PROVE  StartRow(audit'[i])
  BY DEF StartRowsInv, StartIds, StartRow
<1>0. \A k \in Ids : audit[k].type = "SCAN_STARTED" => StartRow(audit[k])
  BY DEF StartRowsInv, StartIds, StartRow
<1>1. CASE audit' = audit
  BY <1>0, <1>1 DEF Ids
<1>2. ASSUME NEW e \in Rows, audit' = Append(audit, e),
             e.type = "SCAN_STARTED" =>
               \E s \in Scans, m, t \in Moments : e = Started(s, m, t)
      PROVE  StartRow(audit'[i])
  <2>1. /\ DOMAIN audit' = DOMAIN audit \union {Len(audit) + 1}
        /\ \A k \in DOMAIN audit : audit'[k] = audit[k]
        /\ audit'[Len(audit) + 1] = e
    BY <1>2, AppendRow DEF TypeOK
  <2>2. CASE i \in Ids
    BY <1>0, <2>1, <2>2 DEF Ids
  <2>3. CASE i = Len(audit) + 1
    <3>1. PICK s \in Scans, m, t \in Moments : e = Started(s, m, t)
      BY <1>2, <2>1, <2>3
    <3>2. /\ e.sched = m /\ e.stamp = t.day /\ e.timeliness = Timeliness(m, t)
      BY <3>1 DEF Started, Event
    <3>3. StartRow(e)
      BY <3>1, <3>2 DEF StartRow
    <3> QED BY <2>1, <2>3, <3>3
  <2> QED BY <2>1, <2>2, <2>3 DEF Ids
<1> QED BY <1>1, <1>2, StartRowStep

LEMMA InitStartRowsInv == Init => StartRowsInv
BY DEF Init, StartRowsInv, StartIds, Ids, Ended, Event

\* A start recorded on a later day than it was scheduled for is at least the rest
\* of that day late.
LEMMA OvernightElapsed ==
    ASSUME NEW a \in Moments, NEW b \in Moments, b.day > a.day
    PROVE  Elapsed(a, b) >= TicksPerDay - a.tick
<1>1. /\ a.day \in Int /\ b.day \in Int /\ TicksPerDay \in Nat
      /\ a.tick \in 0 .. TicksPerDay - 1 /\ b.tick \in 0 .. TicksPerDay - 1
  BY ScheduleAssumption DEF Moments, Days
<1>2. (b.day - a.day) * TicksPerDay >= TicksPerDay
  BY <1>1, DaysApart
<1>3. (b.day - a.day) * TicksPerDay \in Int
  BY <1>1
<1> QED BY <1>1, <1>2, <1>3 DEF Elapsed

\* Whoever records it, a worker by its clock or an API client with a started_at of
\* its own choice, for any grace and missed limits: a start that slips past midnight
\* by more than the missed limit is classed as a recovery (scan_audit.py:22-36).
THEOREM OvernightStartIsRecoveryHolds == Spec => []OvernightStartIsRecovery
<1>1. TypeOK /\ StartRowsInv => OvernightStartIsRecovery
  <2> SUFFICES ASSUME TypeOK, StartRowsInv, NEW i \in StartIds,
                      audit[i].stamp > audit[i].sched.day,
                      TicksPerDay - audit[i].sched.tick > MissedAfter
               PROVE  audit[i].timeliness = "MISSED_RECOVERY"
    BY DEF OvernightStartIsRecovery
  <2>1. PICK m \in Moments : /\ m.day = audit[i].stamp
                             /\ audit[i].timeliness = Timeliness(audit[i].sched, m)
    BY DEF StartRowsInv
  <2> DEFINE a == audit[i].sched
  <2>2. a \in Moments /\ m.day > a.day
    BY <2>1 DEF StartRowsInv
  <2>3. Elapsed(a, m) >= TicksPerDay - a.tick
    BY <2>2, OvernightElapsed
  <2>4. /\ Elapsed(a, m) \in Int /\ TicksPerDay - a.tick \in Int /\ MissedAfter \in Int
    <3>1. /\ a.day \in Int /\ m.day \in Int /\ a.tick \in Int /\ m.tick \in Int
          /\ TicksPerDay \in Int
      BY <2>2, ScheduleAssumption DEF Moments, Days
    <3> QED BY <3>1, TimingAssumption DEF Elapsed
  <2>5. Elapsed(a, m) > MissedAfter
    BY <2>3, <2>4
  <2> QED BY <2>1, <2>5 DEF Timeliness
<1> QED BY <1>1, InitTypeOK, NextTypeOK, InitStartRowsInv, NextStartRowsInv, PTL DEF Spec

=============================================================================
