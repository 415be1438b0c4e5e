-------------------------- MODULE SoloWorkerProofs --------------------------
(***************************************************************************)
(* What ScanWorker guarantees in the deployment of docker-compose.yml: one   *)
(* worker process, and nobody posting run events through the API.           *)
(***************************************************************************)
EXTENDS ScanWorkerProofs, FiniteSetTheorems

Solo == (\E w : Workers = {w}) /\ MaxPosts = 0

-----------------------------------------------------------------------------
(* One more row and NoRerun                                                *)

\* The audit before a step, with the part of SoloInv that is about rows only.
RowsInv(d) == NoRerun /\ \A i \in Ids : LogicalDay(audit[i]) <= d

\* Appending an outcome never makes an earlier start a re-run.
LEMMA OutcomeKeepsRows ==
    ASSUME audit \in Seq(Rows), NEW d, RowsInv(d), NEW e \in Rows,
           e.type # "SCAN_STARTED", LogicalDay(e) <= d, audit' = Append(audit, e)
    PROVE  RowsInv(d)'
<1>1. /\ DOMAIN audit' = 1 .. Len(audit) + 1 /\ DOMAIN audit = 1 .. Len(audit)
      /\ Len(audit) \in Nat
      /\ \A i \in DOMAIN audit : audit'[i] = audit[i]
      /\ audit'[Len(audit) + 1] = e
  BY AppendRow
<1>2. \A i \in Ids' : LogicalDay(audit'[i]) <= d
  BY <1>1 DEF RowsInv, Ids
<1>3. NoRerun'
  <2> SUFFICES ASSUME NEW i \in Ids', NEW j \in Ids', i < j,
                      audit'[i].type \in RunEventTypes, audit'[j].type = "SCAN_STARTED",
                      audit'[i].scan = audit'[j].scan
               PROVE  LogicalDay(audit'[i]) # LogicalDay(audit'[j])
    BY DEF NoRerun
  <2>1. j # Len(audit) + 1
    BY <1>1
  <2>2. i \in Ids /\ j \in Ids
    BY <1>1, <2>1 DEF Ids
  <2> QED BY <1>1, <2>2 DEF RowsInv, NoRerun, Ids
<1> QED BY <1>2, <1>3 DEF RowsInv

\* Nor does a start of a run that has no outcome yet.
LEMMA StartKeepsRows ==
    ASSUME audit \in Seq(Rows), NEW d, RowsInv(d), NEW e \in Rows,
           LogicalDay(e) <= d, ~ Settled(e.scan, LogicalDay(e)),
           e.type = "SCAN_STARTED", audit' = Append(audit, e)
    PROVE  RowsInv(d)'
<1>1. /\ DOMAIN audit' = 1 .. Len(audit) + 1 /\ DOMAIN audit = 1 .. Len(audit)
      /\ Len(audit) \in Nat
      /\ \A i \in DOMAIN audit : audit'[i] = audit[i]
      /\ audit'[Len(audit) + 1] = e
  BY AppendRow
<1>2. \A i \in Ids' : LogicalDay(audit'[i]) <= d
  BY <1>1 DEF RowsInv, Ids
<1>3. NoRerun'
  <2> SUFFICES ASSUME NEW i \in Ids', NEW j \in Ids', i < j,
                      audit'[i].type \in RunEventTypes, audit'[j].type = "SCAN_STARTED",
                      audit'[i].scan = audit'[j].scan
               PROVE  LogicalDay(audit'[i]) # LogicalDay(audit'[j])
    BY DEF NoRerun
  <2>1. i \in Ids
    BY <1>1 DEF Ids
  <2>2. CASE j = Len(audit) + 1
    BY <1>1, <2>1, <2>2 DEF Settled, OutcomeIds, IsOutcome, Ids
  <2>3. CASE j \in Ids
    BY <1>1, <2>1, <2>3 DEF RowsInv, NoRerun, Ids
  <2> QED BY <1>1, <2>2, <2>3 DEF Ids
<1> QED BY <1>2, <1>3 DEF RowsInv

-----------------------------------------------------------------------------
(* The inductive step                                                      *)

\* The part of SoloInv about one worker's list.
SoloList(w) ==
    /\ day[w] <= now.day /\ day[w] \in ScanDays
    /\ \A s \in todo[w] : ~ Settled(s, day[w])
    /\ Running(w) => run[w] \in Enabled \ todo[w]

LEMMA SoloParts ==
    SoloInv <=> RowsInv(now.day) /\ \A w \in Workers : InRunDue(w) => SoloList(w)
BY DEF SoloInv, RowsInv, SoloList

LEMMA StartedFields ==
    ASSUME NEW s \in Scans, NEW d \in Days, NEW m
    PROVE  LET e == Started(s, ScheduledAt(s, d), m)
           IN  e.type = "SCAN_STARTED" /\ e.scan = s /\ LogicalDay(e) = d
<1>1. ScheduledAt(s, d) # NoMoment
  BY ScheduledMoment, MomentAssumption
<1> QED BY <1>1 DEF Started, Event, LogicalDay, ScheduledAt

LEMMA OutcomeFields ==
    ASSUME TypeOK, NEW w \in Workers, Running(w), NEW type \in RunEventTypes
    PROVE  /\ Outcome(w, type).type # "SCAN_STARTED"
           /\ LogicalDay(Outcome(w, type)) = day[w]
<1>1. ScheduledAt(run[w], day[w]) # NoMoment
  BY ScheduledMoment, MomentAssumption DEF TypeOK
<1> QED BY <1>1 DEF Outcome, Ended, Event, LogicalDay, ScheduledAt, RunEventTypes

\* A row the only worker may append while handling its list.
LEMMA WorkerRows ==
    ASSUME TypeOK, SoloInv, NEW w \in Workers, InRunDue(w), NEW e \in Rows,
           audit' = Append(audit, e), now' = now, LogicalDay(e) = day[w],
           e.type # "SCAN_STARTED" \/ e.scan \in todo[w]
    PROVE  RowsInv(now.day)'
<1>1. RowsInv(now.day) /\ SoloList(w)
  BY SoloParts
<1>2. LogicalDay(e) <= now.day /\ audit \in Seq(Rows)
  BY <1>1 DEF SoloList, TypeOK
<1>3. CASE e.type # "SCAN_STARTED"
  BY <1>1, <1>2, <1>3, OutcomeKeepsRows
<1>4. CASE e.type = "SCAN_STARTED"
  <2>1. ~ Settled(e.scan, LogicalDay(e))
    BY <1>1, <1>4 DEF SoloList
  <2> QED BY <1>1, <1>2, <1>4, <2>1, StartKeepsRows
<1> QED BY <1>3, <1>4

\* Steps that leave the audit alone keep RowsInv while the day does not go back.
LEMMA UnchangedRows ==
    ASSUME TypeOK, SoloInv, TypeOK', audit' = audit, now.day <= now'.day
    PROVE  RowsInv(now.day)'
<1>1. RowsInv(now.day)
  BY SoloParts
<1>2. NoRerun'
  BY <1>1 DEF RowsInv, NoRerun, Ids, LogicalDay
<1>3. \A i \in Ids' : LogicalDay(audit'[i]) <= now'.day
  <2>1. \A i \in Ids : LogicalDay(audit[i]) \in Int
    <3> SUFFICES ASSUME NEW i \in Ids PROVE LogicalDay(audit[i]) \in Int
      OBVIOUS
    <3>1. audit[i] \in Rows
      BY AppendRow DEF TypeOK, Ids
    <3> QED BY <3>1 DEF Rows, LogicalDay, Moments, Days
  <2> QED BY <1>1, <2>1 DEF RowsInv, Ids, TypeOK, Moments, Days
<1> QED BY <1>2, <1>3 DEF RowsInv

\* Starting the first scan of the list.
LEMMA StartSolo ==
    ASSUME TypeOK, SoloInv, NEW w \in Workers, Start(w)
    PROVE  RowsInv(now.day)' /\ SoloList(w)'
<1>1. PICK s \in Scans : /\ IsFirst(s, w) /\ run' = [run EXCEPT ![w] = s]
                         /\ todo' = [todo EXCEPT ![w] = @ \ {s}]
                         /\ audit' = Append(audit, Started(s, ScheduledAt(s, day[w]), now))
  BY DEF Start
<1>2. /\ run'[w] = s /\ todo'[w] = todo[w] \ {s} /\ day' = day /\ now' = now
      /\ s \in Enabled /\ s \in todo[w] /\ InRunDue(w) /\ day[w] \in Days
  BY <1>1 DEF TypeOK, Start, IsFirst, InRunDue
<1>3. SoloList(w)
  BY <1>2 DEF SoloInv, SoloList
<1> DEFINE e == Started(s, ScheduledAt(s, day[w]), now)
<1>4. e \in Rows
  BY <1>2, ScheduledMoment, StartedRow DEF TypeOK
<1>5. e.scan = s /\ LogicalDay(e) = day[w]
  BY <1>2, StartedFields
<1>6. \A x, d : Settled(x, d)' <=> Settled(x, d)
  BY <1>1, <1>4, SettledAppend, StartedIsNoOutcome DEF TypeOK
<1>7. audit' = Append(audit, e)
  BY <1>1
<1> HIDE DEF e
<1>8. RowsInv(now.day)'
  BY <1>2, <1>4, <1>5, <1>7, WorkerRows
<1>9. SoloList(w)'
  BY <1>2, <1>3, <1>6 DEF SoloList
<1> QED BY <1>8, <1>9

\* Recording an outcome of the scan that runs.
LEMMA OutcomeSolo ==
    ASSUME TypeOK, SoloInv, NEW w \in Workers, Running(w), NEW type \in RunEventTypes,
           audit' = Append(audit, Outcome(w, type)), now' = now
    PROVE  /\ RowsInv(now.day)'
           /\ \A x \in todo[w] : ~ Settled(x, day[w]) => \A d : d = day[w] => ~ Settled(x, d)'
<1>1. Outcome(w, type) \in Rows
  BY OutcomeRow
<1>2. SoloList(w) /\ InRunDue(w)
  BY DEF SoloInv, SoloList, InRunDue
<1>3. RowsInv(now.day)'
  BY <1>1, <1>2, OutcomeFields, WorkerRows
<1>4. \A x, d : Settled(x, d)' <=> Settled(x, d) \/ (x = run[w] /\ d = day[w])
  BY <1>1, SettledAppend, OutcomeOfRun DEF TypeOK
<1> QED BY <1>2, <1>3, <1>4 DEF SoloList

LEMMA NextSoloInv ==
    ASSUME Solo, TypeOK, SoloInv, [Next]_vars
    PROVE  SoloInv'
<1>0. PICK w : Workers = {w}
  BY DEF Solo
<1>1. TypeOK'
  BY NextTypeOK
<1> SUFFICES RowsInv(now.day)' /\ (InRunDue(w)' => SoloList(w)')
  BY <1>0, SoloParts DEF SoloInv, RowsInv, SoloList
<1>2. InRunDue(w) => SoloList(w)
  BY <1>0, SoloParts
<1>3. CASE Tick \/ UNCHANGED vars
  <2>1. /\ UNCHANGED <<audit, pc, todo, day, run>> /\ now.day <= now'.day
        /\ now.day \in Int /\ now'.day \in Int /\ (w \in Workers => day[w] \in Int)
    <3>1. UNCHANGED <<audit, pc, todo, day, run>>
      BY <1>3 DEF Tick, vars
    <3>2. now.day \in Int /\ now'.day \in Int /\ (w \in Workers => day[w] \in Int)
      BY <1>1 DEF TypeOK, Moments, Days
    <3>3. now.day <= now'.day
      <4>1. CASE now' = [now EXCEPT !.tick = @ + 1] \/ now' = now
        <5>1. now'.day = now.day
          BY <4>1 DEF TypeOK, Moments
        <5> QED BY <3>2, <5>1
      <4>2. CASE now' = [day |-> now.day + 1, tick |-> 0]
        BY <3>2, <4>2
      <4> QED BY <1>3, <4>1, <4>2 DEF Tick, vars
    <3> QED BY <3>1, <3>2, <3>3
  <2>2. InRunDue(w)' => SoloList(w)'
    BY <1>0, <1>2, <2>1 DEF SoloList, InRunDue, Running, Settled, OutcomeIds, Ids
  <2> QED BY <1>1, <2>1, <2>2, UnchangedRows
<1>4. CASE Api
  BY <1>4, ApiAppends DEF Solo, Post, TypeOK
<1>5. CASE Poll(w)
  <2>1. audit' = audit /\ now' = now /\ todo'[w] = Due(now) /\ day'[w] = now.day
    BY <1>0, <1>5 DEF Poll, TypeOK
  <2>2. RowsInv(now.day)'
    BY <1>1, <2>1, UnchangedRows DEF TypeOK, Moments, Days
  <2>3. ASSUME InRunDue(w)' PROVE SoloList(w)'
    <3>1. Due(now) # {} /\ ~ Running(w)'
      BY <1>0, <1>5, <2>3 DEF Poll, TypeOK, InRunDue, Running
    <3>2. now.day \in ScanDays
      BY <3>1 DEF Due
    <3>3. \A s \in Due(now) : ~ Settled(s, now.day)
      BY SoloParts DEF Due, LastRunIsOn, RowsInv
    <3>4. \A s \in Due(now) : ~ Settled(s, now.day)'
      BY <2>1, <3>3 DEF Settled, OutcomeIds, Ids
    <3> QED BY <2>1, <3>1, <3>2, <3>4 DEF SoloList, TypeOK, Moments, Days
  <2> QED BY <2>2, <2>3
<1>6. CASE Start(w)
  BY <1>0, <1>6, StartSolo
<1>7. CASE StartRaises(w)
  <2>1. PICK s \in Scans : /\ IsFirst(s, w)
                           /\ AppendRaises(Started(s, ScheduledAt(s, day[w]), now))
    BY <1>7 DEF StartRaises
  <2>2. /\ InRunDue(w) /\ ~ InRunDue(w)' /\ now' = now
        /\ s \in todo[w] /\ day[w] \in Days
    BY <1>0, <1>7, <2>1 DEF StartRaises, Backoff, TypeOK, InRunDue, Running, IsFirst
  <2> DEFINE e == Started(s, ScheduledAt(s, day[w]), now)
  <2>3. e \in Rows /\ e.scan = s /\ LogicalDay(e) = day[w]
    BY <2>2, ScheduledMoment, StartedRow, StartedFields DEF TypeOK
  <2>4. audit' = audit \/ audit' = Append(audit, e)
    BY <2>1 DEF AppendRaises
  <2> HIDE DEF e
  <2>5. now.day <= now'.day
    BY <2>2 DEF TypeOK, Moments, Days
  <2>6. RowsInv(now.day)'
    <3>1. CASE audit' = audit
      BY <1>1, <2>5, <3>1, UnchangedRows
    <3>2. CASE audit' = Append(audit, e)
      BY <1>0, <2>2, <2>3, <3>2, WorkerRows
    <3> QED BY <2>4, <3>1, <3>2
  <2> QED BY <2>2, <2>6
<1>8. CASE \/ ExecuteCompletes(w) \/ ExecuteRaises(w) \/ PollRaises(w) \/ Wake(w) \/ Exit(w)
           \/ Lifecycle(w)
  <2>1. /\ audit' = audit /\ now' = now
        /\ InRunDue(w)' => InRunDue(w) /\ UNCHANGED <<todo, day, run>> /\ (Running(w)' <=> Running(w))
    BY <1>0, <1>8 DEF ExecuteCompletes, ExecuteRaises, Return, PollRaises, Backoff, Wake, Exit,
           Lifecycle, RequestStop, Crash, Restart, Redeploy, Boot, TypeOK, InRunDue, Running
  <2>2. InRunDue(w)' => SoloList(w)'
    BY <1>2, <2>1 DEF SoloList, Settled, OutcomeIds, Ids
  <2>3. now.day <= now'.day
    BY <2>1 DEF TypeOK, Moments, Days
  <2>4. RowsInv(now.day)'
    BY <1>1, <2>1, <2>3, UnchangedRows
  <2> QED BY <2>2, <2>4
<1>9. ASSUME NEW type \in RunEventTypes, Running(w), now' = now,
             audit' = audit \/ audit' = Append(audit, Outcome(w, type)),
             InRunDue(w)' => /\ todo' = todo /\ day' = day
                             /\ Running(w)' => run' = run
      PROVE  RowsInv(now.day)' /\ (InRunDue(w)' => SoloList(w)')
  <2>1. InRunDue(w) /\ SoloList(w)
    BY <1>2, <1>9 DEF InRunDue
  <2>2. CASE audit' = audit
    <3>1. InRunDue(w)' => SoloList(w)'
      BY <1>9, <2>1, <2>2 DEF SoloList, Settled, OutcomeIds, Ids
    <3> QED BY <1>1, <1>9, <2>2, <3>1, UnchangedRows DEF TypeOK, Moments, Days
  <2>3. CASE audit' = Append(audit, Outcome(w, type))
    <3>1. /\ RowsInv(now.day)'
          /\ \A x \in todo[w] : \A d : d = day[w] => ~ Settled(x, d)'
      BY <1>0, <1>9, <2>1, <2>3, OutcomeSolo DEF SoloList
    <3> QED BY <1>9, <2>1, <3>1 DEF SoloList
  <2> QED BY <1>9, <2>2, <2>3
<1>10. CASE ExecuteFindsNoPlan(w) \/ NoPlanRaises(w)
  BY <1>9, <1>10 DEF ExecuteFindsNoPlan, NoPlanRaises, Return, AppendRaises, Running, RunEventTypes
<1>11. CASE Record(w)
  <2>1. InRunDue(w)' => ~ Running(w)'
    BY <1>0, <1>11 DEF Record, Proceed, TypeOK, Running
  <2> QED BY <1>9, <1>11, <2>1, OutcomeTypes DEF Record, Running
<1>12. CASE RecordRaises(w)
  <2>1. ~ InRunDue(w)'
    BY <1>0, <1>12 DEF RecordRaises, Backoff, TypeOK, InRunDue, Running
  <2> QED BY <1>9, <1>12, <2>1, OutcomeTypes DEF RecordRaises, AppendRaises, Running
<1> QED BY <1>0, <1>3, <1>4, <1>5, <1>6, <1>7, <1>8, <1>10, <1>11, <1>12
        DEF Next, Progress, Raise

LEMMA InitSoloInv == Init => SoloInv
<1> SUFFICES ASSUME Init PROVE SoloInv
  OBVIOUS
<1>1. \A i \in Ids : i = 1 /\ audit[i].sched = NoMoment /\ audit[i].stamp = 0
                     /\ audit[i].type = "SCAN_COMPLETED"
  BY DEF Init, Ids, Ended, Event
<1> QED BY <1>1 DEF Init, SoloInv, NoRerun, LogicalDay, InRunDue, Running

\* One worker without API posts never starts a run that has an outcome, for any
\* schedule and any sequence of database errors, crashes, restarts and stops
\* (scheduler.py:144-147, worker.py:25-32).
THEOREM NoRerunHolds ==
    ASSUME Solo
    PROVE  Spec => []NoRerun
<1>1. SoloInv => NoRerun
  BY DEF SoloInv
<1>2. TypeOK /\ SoloInv /\ [Next]_vars => SoloInv'
  BY NextSoloInv
<1> QED BY <1>1, <1>2, InitTypeOK, NextTypeOK, InitSoloInv, PTL DEF Spec

-----------------------------------------------------------------------------
(* The worker implements the run ledger                                    *)

LEMMA SameAudit ==
    ASSUME audit' = audit
    PROVE  AttemptedRuns' = AttemptedRuns /\ SettledRuns' = SettledRuns
BY DEF AttemptedRuns, SettledRuns, StartIds, Ids, Settled, OutcomeIds, LogicalDay, IsOutcome

LEMMA StartAddsRun ==
    ASSUME TypeOK, NEW s \in Scans, NEW d \in Days,
           audit' = Append(audit, Started(s, ScheduledAt(s, d), now))
    PROVE  AttemptedRuns' = AttemptedRuns \union {<<s, d>>} /\ SettledRuns' = SettledRuns
<1> DEFINE e == Started(s, ScheduledAt(s, d), now)
<1>1. e \in Rows
  BY ScheduledMoment, StartedRow DEF TypeOK
<1>2. e.type = "SCAN_STARTED" /\ e.scan = s /\ LogicalDay(e) = d
  BY StartedFields
<1>3. \A x, y : ~ IsOutcome(e, x, y)
  BY StartedIsNoOutcome
<1>4. audit' = Append(audit, e) /\ audit \in Seq(Rows)
  BY DEF TypeOK
<1> HIDE DEF e
<1>5. SettledRuns' = SettledRuns
  BY <1>1, <1>3, <1>4, SettledAppend DEF SettledRuns
<1>6. /\ DOMAIN audit' = DOMAIN audit \union {Len(audit) + 1}
      /\ \A i \in DOMAIN audit : audit'[i] = audit[i]
      /\ audit'[Len(audit) + 1] = e
  BY <1>1, <1>4, AppendRow
<1>7. StartIds' = StartIds \union {Len(audit) + 1}
  BY <1>2, <1>6 DEF StartIds, Ids
<1>8. AttemptedRuns' = AttemptedRuns \union {<<s, d>>}
  BY <1>2, <1>6, <1>7 DEF AttemptedRuns, StartIds, Ids
<1> QED BY <1>5, <1>8

LEMMA OutcomeAddsRun ==
    ASSUME TypeOK, NEW w \in Workers, Running(w), NEW type \in RunEventTypes,
           audit' = Append(audit, Outcome(w, type))
    PROVE  /\ AttemptedRuns' = AttemptedRuns
           /\ SettledRuns' = SettledRuns \union {<<run[w], day[w]>>}
<1> DEFINE e == Outcome(w, type)
<1>1. e \in Rows /\ e.type # "SCAN_STARTED"
  BY OutcomeRow, OutcomeFields
<1>2. \A x, y : IsOutcome(e, x, y) <=> x = run[w] /\ y = day[w]
  BY OutcomeOfRun
<1>3. audit' = Append(audit, e) /\ audit \in Seq(Rows) /\ run[w] \in Scans /\ day[w] \in Days
  BY DEF TypeOK
<1> HIDE DEF e
<1>4. \A x, y : Settled(x, y)' <=> Settled(x, y) \/ (x = run[w] /\ y = day[w])
  BY <1>1, <1>2, <1>3, SettledAppend
<1>5. SettledRuns' = SettledRuns \union {<<run[w], day[w]>>}
  <2>1. ASSUME NEW r \in Scans \X Days
        PROVE  r \in SettledRuns' <=> r \in SettledRuns \/ r = <<run[w], day[w]>>
    BY <1>4 DEF SettledRuns
  <2> QED BY <1>3, <2>1 DEF SettledRuns
<1>6. /\ DOMAIN audit' = DOMAIN audit \union {Len(audit) + 1}
      /\ \A i \in DOMAIN audit : audit'[i] = audit[i]
      /\ audit'[Len(audit) + 1] = e
  BY <1>1, <1>3, AppendRow
<1>7. StartIds' = StartIds
  BY <1>1, <1>6 DEF StartIds, Ids
<1>8. AttemptedRuns' = AttemptedRuns
  BY <1>6, <1>7 DEF AttemptedRuns, StartIds, Ids
<1> QED BY <1>5, <1>8

\* With one worker the run in progress is that worker's.
LEMMA SoloRun ==
    ASSUME NEW w, Workers = {w}
    PROVE  /\ RunInProgress = IF Running(w) THEN <<run[w], day[w]>> ELSE NoRun
           /\ RunInProgress' = IF Running(w)' THEN <<run'[w], day'[w]>> ELSE NoRun
BY DEF RunInProgress

LEMMA RunIsNotNoRun ==
    ASSUME TypeOK, NEW w \in Workers, Running(w)
    PROVE  <<run[w], day[w]>> # NoRun
BY ScheduleAssumption DEF TypeOK, NoRun

\* The run at the head of the list is ready for an attempt.
LEMMA FirstIsReady ==
    ASSUME TypeOK, OrderInv, SoloInv, NEW w \in Workers, pc[w] = "next",
           NEW s \in Scans, IsFirst(s, w)
    PROVE  Ledger!Ready(<<s, day[w]>>) /\ <<s, day[w]>> \in Ledger!Runs
<1>1. /\ InRunDue(w) /\ ~ Running(w) /\ day[w] \in Days
      /\ s \in todo[w] /\ todo[w] \subseteq Enabled /\ Enabled \subseteq Scans
  BY ScheduleAssumption DEF InRunDue, Running, TypeOK, IsFirst
<1>2. ListInOrder(w) /\ SoloList(w)
  BY <1>1, SoloParts DEF OrderInv
<1>3. <<s, day[w]>> \in Ledger!Runs
  BY <1>1, <1>2 DEF SoloList, Ledger!Runs
<1>4. <<s, day[w]>> \notin SettledRuns
  BY <1>1, <1>2 DEF SoloList, SettledRuns
<1>5. ASSUME NEW t \in Enabled, TimeOf[t] < TimeOf[s] PROVE <<t, day[w]>> \in SettledRuns
  <2>1. t \notin todo[w]
    BY <1>1, <1>5, ScheduleAssumption DEF IsFirst
  <2>2. Settled(t, day[w])
    BY <1>1, <1>2, <1>5, <2>1 DEF ListInOrder
  <2> QED BY <1>1, <2>2 DEF SettledRuns
<1> QED BY <1>3, <1>4, <1>5 DEF Ledger!Ready

LedgerVars == <<AttemptedRuns, SettledRuns, RunInProgress>>

LEMMA LedgerStep ==
    ASSUME Solo, TypeOK, OrderInv, SoloInv, TypeOK', [Next]_vars
    PROVE  [Ledger!Next]_LedgerVars
<1>0. PICK w : Workers = {w}
  BY DEF Solo
<1>1. w \in Workers
  BY <1>0
\* an attempt is given up, or nothing the ledger sees happens
<1>2. ASSUME audit' = audit,
             ~ Running(w)' \/ (Running(w) /\ run'[w] = run[w] /\ day'[w] = day[w])
      PROVE  [Ledger!Next]_LedgerVars
  BY <1>1, <1>0, <1>2, SameAudit, SoloRun, RunIsNotNoRun
     DEF LedgerVars, Ledger!Next, Ledger!Abandon
\* an outcome is recorded
<1>3. ASSUME NEW type \in RunEventTypes, Running(w), audit' = Append(audit, Outcome(w, type)),
             ~ Running(w)' \/ (run'[w] = run[w] /\ day'[w] = day[w])
      PROVE  [Ledger!Next]_LedgerVars
  BY <1>1, <1>0, <1>3, OutcomeAddsRun, SoloRun, RunIsNotNoRun
     DEF LedgerVars, Ledger!Next, Ledger!Settle
\* a start is recorded
<1>4. ASSUME NEW s \in Scans, pc[w] = "next", IsFirst(s, w),
             audit' = Append(audit, Started(s, ScheduledAt(s, day[w]), now)),
             ~ Running(w)' \/ (run'[w] = s /\ day'[w] = day[w])
      PROVE  [Ledger!Next]_LedgerVars
  <2>1. ~ Running(w) /\ day[w] \in Days
    BY <1>1, <1>4 DEF Running, TypeOK
  <2>2. /\ AttemptedRuns' = AttemptedRuns \union {<<s, day[w]>>}
        /\ SettledRuns' = SettledRuns
    BY <1>4, <2>1, StartAddsRun
  <2>3. Ledger!Begin(<<s, day[w]>>) /\ <<s, day[w]>> \in Ledger!Runs
    BY <1>0, <1>1, <1>4, <2>1, <2>2, SoloRun, FirstIsReady DEF Ledger!Begin
  <2> QED BY <2>3 DEF Ledger!Next
<1>5. CASE Tick \/ UNCHANGED vars
  BY <1>2, <1>5 DEF Tick, vars, Running
<1>6. CASE Api
  BY <1>6, ApiAppends DEF Solo, Post, TypeOK
<1>7. CASE Poll(w) \/ PollRaises(w) \/ Wake(w) \/ Exit(w) \/ Lifecycle(w)
           \/ ExecuteCompletes(w) \/ ExecuteRaises(w)
  <2>1. /\ audit' = audit
        /\ ~ Running(w)' \/ (Running(w) /\ run'[w] = run[w] /\ day'[w] = day[w])
    BY <1>1, <1>7 DEF Poll, PollRaises, Backoff, Wake, Exit, Lifecycle, RequestStop, Crash,
           Restart, Redeploy, Boot, ExecuteCompletes, ExecuteRaises, Return, TypeOK, Running
  <2> QED BY <1>2, <2>1
<1>8. CASE Start(w)
  <2>1. PICK s \in Scans : /\ IsFirst(s, w) /\ run' = [run EXCEPT ![w] = s]
                           /\ audit' = Append(audit, Started(s, ScheduledAt(s, day[w]), now))
    BY <1>8 DEF Start
  <2>2. pc[w] = "next" /\ run'[w] = s /\ day'[w] = day[w]
    BY <1>1, <1>8, <2>1 DEF Start, TypeOK
  <2> QED BY <1>4, <2>1, <2>2
<1>9. CASE StartRaises(w)
  <2>1. PICK s \in Scans : /\ IsFirst(s, w)
                           /\ AppendRaises(Started(s, ScheduledAt(s, day[w]), now))
    BY <1>9 DEF StartRaises
  <2>2. pc[w] = "next" /\ ~ Running(w)'
    BY <1>1, <1>9 DEF StartRaises, Backoff, TypeOK, Running
  <2> QED BY <1>2, <1>4, <2>1, <2>2 DEF AppendRaises
<1>10. CASE ExecuteFindsNoPlan(w) \/ NoPlanRaises(w)
  BY <1>2, <1>3, <1>10
     DEF ExecuteFindsNoPlan, NoPlanRaises, Return, AppendRaises, Running, RunEventTypes
<1>11. CASE Record(w)
  <2>1. Running(w) /\ ~ Running(w)'
    BY <1>1, <1>11 DEF Record, Proceed, TypeOK, Running
  <2> QED BY <1>3, <1>11, <2>1, OutcomeTypes DEF Record
<1>12. CASE RecordRaises(w)
  <2>1. Running(w) /\ ~ Running(w)'
    BY <1>1, <1>12 DEF RecordRaises, Backoff, TypeOK, Running
  <2> QED BY <1>2, <1>3, <1>12, <2>1, OutcomeTypes DEF RecordRaises, AppendRaises
<1> QED BY <1>0, <1>5, <1>6, <1>7, <1>8, <1>9, <1>10, <1>11, <1>12
        DEF Next, Progress, Raise

LEMMA LedgerInit == Init => Ledger!Init
<1> SUFFICES ASSUME Init PROVE Ledger!Init
  OBVIOUS
<1>1. RunInProgress = NoRun
  BY DEF Init, RunInProgress, Running
<1>2. AttemptedRuns = {}
  BY DEF Init, AttemptedRuns, StartIds, Ids, Ended, Event
<1>3. CASE audit = <<>>
  <2>1. SettledRuns = {}
    BY <1>3 DEF SettledRuns, Settled, OutcomeIds, Ids
  <2> QED BY <1>1, <1>2, <2>1 DEF Ledger!Init
<1>4. ASSUME NEW s \in Scans, audit = <<Ended("SCAN_COMPLETED", s, NoMoment, now)>>
      PROVE  Ledger!Init
  <2>1. \A x, d : Settled(x, d) <=> x = s /\ d = 0
    BY <1>4 DEF Settled, OutcomeIds, Ids, IsOutcome, LogicalDay, Ended, Event, RunEventTypes, Init
  <2>2. 0 \in Days
    BY ScheduleAssumption DEF Days
  <2>3. SettledRuns = {<<s, 0>>}
    BY <2>1, <2>2 DEF SettledRuns
  <2> QED BY <1>1, <1>2, <2>2, <2>3 DEF Ledger!Init
<1> QED BY <1>3, <1>4 DEF Init

\* One worker without API posts implements the run ledger: an outcome ends a run
\* for good and the runs of a day are attempted in order.
THEOREM ImplementsLedgerHolds ==
    ASSUME Solo
    PROVE  Spec => ImplementsLedger
<1>1. TypeOK /\ OrderInv /\ SoloInv /\ TypeOK' /\ [Next]_vars => [Ledger!Next]_LedgerVars
  BY LedgerStep
<1>2. TypeOK /\ SoloInv /\ [Next]_vars => SoloInv'
  BY NextSoloInv
<1> QED BY <1>1, <1>2, LedgerInit, InitTypeOK, NextTypeOK, InitOrderInv, NextOrderInv,
           InitSoloInv, PTL DEF Spec, ImplementsLedger, Ledger!Spec, LedgerVars

-----------------------------------------------------------------------------
(* A completed run keeps one outcome                                       *)

\* A completion is the one outcome of its run.
OneCompletion ==
    \A i, j \in Ids :
        /\ audit[i].type = "SCAN_COMPLETED" /\ audit[j].type \in RunEventTypes
        /\ audit[i].scan = audit[j].scan /\ LogicalDay(audit[i]) = LogicalDay(audit[j])
        => i = j

OpenRun(w) ==
    /\ \A i \in OutcomeIds(run[w], day[w]) : audit[i].type # "SCAN_COMPLETED"
    /\ Settled(run[w], day[w]) => pc[w] = "record" /\ result[w] # "COMPLETED"

\* CompletedIsFinal, made inductive: the run in progress has no completion, and
\* no outcome at all while it may complete.
FinalInv == OneCompletion /\ \A w \in Workers : Running(w) => OpenRun(w)

LEMMA FinalParts == FinalInv <=> OneCompletion /\ \A w \in Workers : Running(w) => OpenRun(w)
BY DEF FinalInv

\* A row that completes nothing, or a run without an outcome, makes no second
\* outcome of a completed run.
LEMMA OneMoreRow ==
    ASSUME audit \in Seq(Rows), OneCompletion, NEW e \in Rows, audit' = Append(audit, e),
           e.type \in RunEventTypes =>
             \A i \in OutcomeIds(e.scan, LogicalDay(e)) :
               e.type # "SCAN_COMPLETED" /\ audit[i].type # "SCAN_COMPLETED"
    PROVE  OneCompletion'
<1>1. /\ DOMAIN audit' = DOMAIN audit \union {Len(audit) + 1}
      /\ \A i \in DOMAIN audit : audit'[i] = audit[i]
      /\ audit'[Len(audit) + 1] = e
  BY AppendRow
<1> SUFFICES ASSUME NEW i \in Ids', NEW j \in Ids',
                    audit'[i].type = "SCAN_COMPLETED", audit'[j].type \in RunEventTypes,
                    audit'[i].scan = audit'[j].scan,
                    LogicalDay(audit'[i]) = LogicalDay(audit'[j])
             PROVE  i = j
  BY DEF OneCompletion
<1>2. CASE i \in Ids /\ j \in Ids
  BY <1>1, <1>2 DEF OneCompletion, Ids
<1>3. CASE i = Len(audit) + 1 /\ j \in Ids
  BY <1>1, <1>3 DEF OutcomeIds, IsOutcome, Ids, RunEventTypes
<1>4. CASE i \in Ids /\ j = Len(audit) + 1
  BY <1>1, <1>4 DEF OutcomeIds, IsOutcome, Ids, RunEventTypes
<1> QED BY <1>1, <1>2, <1>3, <1>4 DEF Ids

\* The only worker records an outcome of its run.
LEMMA FinalOutcome ==
    ASSUME TypeOK, FinalInv, NEW w \in Workers, Running(w), NEW type \in RunEventTypes,
           type = "SCAN_COMPLETED" => pc[w] = "record" /\ result[w] = "COMPLETED",
           audit' = Append(audit, Outcome(w, type))
    PROVE  /\ OneCompletion'
           /\ type # "SCAN_COMPLETED" => \A s, d : s = run[w] /\ d = day[w] =>
                \A i \in OutcomeIds(s, d)' : audit'[i].type # "SCAN_COMPLETED"
<1> DEFINE e == Outcome(w, type)
<1>1. e \in Rows
  BY OutcomeRow
<1>2. e.scan = run[w] /\ LogicalDay(e) = day[w] /\ e.type = type
  BY OutcomeFields, OutcomeOfRun DEF Outcome, Ended, Event
<1>3. audit' = Append(audit, e) /\ audit \in Seq(Rows)
  BY DEF TypeOK
<1>4. OneCompletion /\ OpenRun(w)
  BY FinalParts
<1> HIDE DEF e
<1>5. OneCompletion'
  <2>1. type = "SCAN_COMPLETED" => OutcomeIds(run[w], day[w]) = {}
    BY <1>4 DEF OpenRun, Settled
  <2> QED BY <1>1, <1>2, <1>3, <1>4, <2>1, OneMoreRow DEF OpenRun
<1>6. ASSUME type # "SCAN_COMPLETED", NEW s, NEW d, s = run[w], d = day[w],
             NEW i \in OutcomeIds(s, d)'
      PROVE  audit'[i].type # "SCAN_COMPLETED"
  <2>1. (i \in OutcomeIds(s, d) /\ audit'[i] = audit[i]) \/ audit'[i] = e
    <3>1. /\ DOMAIN audit' = DOMAIN audit \union {Len(audit) + 1}
          /\ \A k \in DOMAIN audit : audit'[k] = audit[k]
          /\ audit'[Len(audit) + 1] = e
      BY <1>1, <1>3, AppendRow
    <3> QED BY <1>6, <3>1 DEF OutcomeIds, Ids
  <2>2. \A k \in OutcomeIds(s, d) : audit[k].type # "SCAN_COMPLETED"
    BY <1>4, <1>6 DEF OpenRun
  <2> QED BY <1>2, <1>6, <2>1, <2>2
<1> QED BY <1>5, <1>6

\* A start is neither a completion nor an outcome.
LEMMA FinalStart ==
    ASSUME TypeOK, FinalInv, NEW s \in Scans, NEW d \in Days,
           audit' = Append(audit, Started(s, ScheduledAt(s, d), now))
    PROVE  OneCompletion' /\ \A x, y : Settled(x, y)' <=> Settled(x, y)
<1> DEFINE e == Started(s, ScheduledAt(s, d), now)
<1>1. e \in Rows /\ e.type = "SCAN_STARTED" /\ \A x, y : ~ IsOutcome(e, x, y)
  BY ScheduledMoment, StartedRow, StartedFields, StartedIsNoOutcome DEF TypeOK
<1>2. audit' = Append(audit, e) /\ audit \in Seq(Rows) /\ OneCompletion
  BY FinalParts DEF TypeOK
<1> HIDE DEF e
<1>3. OneCompletion'
  BY <1>1, <1>2, OneMoreRow DEF RunEventTypes
<1>4. \A x, y : Settled(x, y)' <=> Settled(x, y)
  BY <1>1, <1>2, SettledAppend
<1> QED BY <1>3, <1>4

LEMMA NextFinalInv ==
    ASSUME Solo, TypeOK, SoloInv, FinalInv, [Next]_vars
    PROVE  FinalInv'
<1>0. PICK w : Workers = {w}
  BY DEF Solo
<1>1. w \in Workers /\ (Running(w) => OpenRun(w)) /\ OneCompletion
  BY <1>0, FinalParts
<1> SUFFICES OneCompletion' /\ (Running(w)' => OpenRun(w)')
  BY <1>0, FinalParts DEF FinalInv, OneCompletion, OpenRun
\* no row, and the run in progress goes on or ends
<1>2. ASSUME audit' = audit,
             Running(w)' => /\ Running(w) /\ run'[w] = run[w] /\ day'[w] = day[w]
                            /\ \/ pc[w] = "execute"
                               \/ pc'[w] = "record" /\ result'[w] = result[w]
      PROVE  OneCompletion' /\ (Running(w)' => OpenRun(w)')
  BY <1>1, <1>2 DEF OneCompletion, OpenRun, Settled, OutcomeIds, Ids
<1>3. CASE Tick \/ UNCHANGED vars
  BY <1>2, <1>3 DEF Tick, vars, Running
<1>4. CASE Api
  BY <1>4, ApiAppends DEF Solo, Post, TypeOK
<1>5. CASE \/ Poll(w) \/ PollRaises(w) \/ Wake(w) \/ Exit(w) \/ Lifecycle(w)
           \/ ExecuteCompletes(w) \/ ExecuteRaises(w)
  BY <1>1, <1>2, <1>5
     DEF Poll, PollRaises, Backoff, Wake, Exit, Lifecycle, RequestStop, Crash,
         Restart, Redeploy, Boot, ExecuteCompletes, ExecuteRaises, Return, TypeOK, Running
<1>6. CASE Start(w)
  <2>1. PICK s \in Scans : /\ IsFirst(s, w) /\ run' = [run EXCEPT ![w] = s]
                           /\ audit' = Append(audit, Started(s, ScheduledAt(s, day[w]), now))
    BY <1>6 DEF Start
  <2>2. /\ run'[w] = s /\ day'[w] = day[w] /\ s \in todo[w] /\ InRunDue(w) /\ day[w] \in Days
    BY <1>1, <1>6, <2>1 DEF Start, IsFirst, InRunDue, TypeOK
  <2>3. ~ Settled(s, day[w])
    BY <1>1, <2>2, SoloParts DEF SoloList
  <2>4. OneCompletion' /\ \A x, y : Settled(x, y)' <=> Settled(x, y)
    BY <2>1, <2>2, FinalStart
  <2>5. \A x, y : x = s /\ y = day[w] => OutcomeIds(x, y)' = {}
    BY <2>3, <2>4 DEF Settled
  <2> QED BY <2>2, <2>4, <2>5 DEF OpenRun, Settled
<1>7. CASE StartRaises(w)
  <2>1. PICK s \in Scans : AppendRaises(Started(s, ScheduledAt(s, day[w]), now))
    BY <1>7 DEF StartRaises
  <2>2. ~ Running(w)' /\ day[w] \in Days
    BY <1>1, <1>7 DEF StartRaises, Backoff, TypeOK, Running
  <2> QED BY <1>2, <2>1, <2>2, FinalStart DEF AppendRaises
<1>8. CASE ExecuteFindsNoPlan(w) \/ NoPlanRaises(w)
  <2>1. /\ Running(w) /\ run'[w] = run[w] /\ day'[w] = day[w] /\ pc[w] = "execute"
        /\ pc'[w] = "record" /\ result'[w] # "COMPLETED"
    BY <1>1, <1>8 DEF ExecuteFindsNoPlan, NoPlanRaises, Return, Running, TypeOK
  <2>2. CASE audit' = audit
    BY <1>2, <2>1, <2>2
  <2>3. CASE audit' = Append(audit, Outcome(w, "SCAN_NO_PLAN"))
    <3>1. /\ OneCompletion'
          /\ \A s, d : s = run[w] /\ d = day[w] =>
               \A i \in OutcomeIds(s, d)' : audit'[i].type # "SCAN_COMPLETED"
      BY <1>1, <2>1, <2>3, FinalOutcome DEF RunEventTypes
    <3> QED BY <2>1, <3>1 DEF OpenRun
  <2> QED BY <1>8, <2>2, <2>3 DEF ExecuteFindsNoPlan, NoPlanRaises, AppendRaises
<1>9. CASE Record(w) \/ RecordRaises(w)
  <2>1. Running(w) /\ ~ Running(w)' /\ pc[w] = "record"
    BY <1>1, <1>9 DEF Record, RecordRaises, Proceed, Backoff, TypeOK, Running
  <2>2. OutcomeType(result[w]) = "SCAN_COMPLETED" => result[w] = "COMPLETED"
    BY DEF OutcomeType
  <2> QED BY <1>1, <1>2, <1>9, <2>1, <2>2, OutcomeTypes, FinalOutcome
          DEF Record, RecordRaises, AppendRaises
<1> QED BY <1>0, <1>3, <1>4, <1>5, <1>6, <1>7, <1>8, <1>9 DEF Next, Progress, Raise

LEMMA InitFinalInv == Init => FinalInv
<1> SUFFICES ASSUME Init PROVE FinalInv
  OBVIOUS
<1>1. \A i \in Ids : i = 1
  BY DEF Init, Ids
<1>2. \A v \in Workers : ~ Running(v)
  BY DEF Init, Running
<1> QED BY <1>1, <1>2 DEF FinalInv, OneCompletion

\* The outcomes of a run are finitely many rows.
LEMMA FiniteOutcomes ==
    ASSUME TypeOK, NEW s, NEW d
    PROVE  IsFiniteSet(OutcomeIds(s, d))
<1>1. Len(audit) \in Nat /\ Ids = 1 .. Len(audit)
  BY DEF TypeOK, Ids
<1>2. IsFiniteSet(Ids)
  BY <1>1, FS_Interval
<1> QED BY <1>2, FS_Subset DEF OutcomeIds

\* One worker without API posts: a completion is the only outcome its run ever
\* has, through retries, lost acknowledgements and restarts (worker.py:44-62).
THEOREM CompletedIsFinalHolds ==
    ASSUME Solo
    PROVE  Spec => []CompletedIsFinal
<1>1. TypeOK /\ FinalInv => CompletedIsFinal
  <2> SUFFICES ASSUME TypeOK, FinalInv, NEW s \in Scans, NEW d \in Days,
                      NEW i \in OutcomeIds(s, d), audit[i].type = "SCAN_COMPLETED"
               PROVE  Cardinality(OutcomeIds(s, d)) = 1
    BY DEF CompletedIsFinal
  <2>1. \A j \in OutcomeIds(s, d) : j = i
    BY FinalParts DEF OneCompletion, OutcomeIds, IsOutcome
  <2>2. OutcomeIds(s, d) = {i}
    BY <2>1
  <2> QED BY <2>2, FS_Singleton
<1>2. TypeOK /\ SoloInv /\ [Next]_vars => SoloInv'
  BY NextSoloInv
<1>3. TypeOK /\ SoloInv /\ FinalInv /\ [Next]_vars => FinalInv'
  BY NextFinalInv
<1> QED BY <1>1, <1>2, <1>3, InitTypeOK, NextTypeOK, InitSoloInv, InitFinalInv, PTL DEF Spec

-----------------------------------------------------------------------------
(* Retries are paid for by faults                                          *)

\* RetriesNeedFaults, made inductive for one worker without API posts: a run that
\* was given up without an outcome has its retry paid for already.
Unfinished == {r \in AttemptedRuns \ SettledRuns : r # RunInProgress}
RetryInv == Cardinality(StartIds) + Cardinality(Unfinished)
                <= Cardinality(AttemptedRuns) + faults

\* What the counting needs to know of its sets.
FiniteRuns == IsFiniteSet(StartIds) /\ IsFiniteSet(AttemptedRuns)

\* RetryInv with the finiteness it is counted under.
RetryParts == FiniteRuns /\ RetryInv

\* A step that records no start: what is given up unfinished costs a fault.
LEMMA NoStartCount ==
    ASSUME NEW n \in Nat, NEW tried, IsFiniteSet(tried), NEW r,
           NEW open \in SUBSET tried, NEW open2, NEW paid \in {0, 1}, NEW f \in Nat,
           n + Cardinality(open) <= Cardinality(tried) + f,
           open2 \subseteq IF paid = 1 THEN open \union {r} ELSE open
    PROVE  n + Cardinality(open2) <= Cardinality(tried) + f + paid
<1>1. IsFiniteSet(open) /\ Cardinality(tried) \in Nat
  BY FS_Subset, FS_CardinalityType
<1>2. /\ IsFiniteSet(open \union {r}) /\ Cardinality(open) \in Nat
      /\ Cardinality(open \union {r}) <= Cardinality(open) + 1
  <2>1. Cardinality(open) \in Nat
    BY <1>1, FS_CardinalityType
  <2>2. /\ IsFiniteSet(open \union {r})
        /\ Cardinality(open \union {r}) =
             IF r \in open THEN Cardinality(open) ELSE Cardinality(open) + 1
    BY <1>1, FS_AddElement
  <2> QED BY <2>1, <2>2
<1>3. CASE paid = 1
  <2>1. Cardinality(open2) <= Cardinality(open \union {r}) /\ Cardinality(open2) \in Nat
    BY <1>2, <1>3, FS_Subset, FS_CardinalityType
  <2>2. Cardinality(open \union {r}) \in Nat
    BY <1>2, FS_CardinalityType
  <2> QED BY <1>1, <1>2, <1>3, <2>1, <2>2
<1>4. CASE paid = 0
  <2>1. Cardinality(open2) <= Cardinality(open) /\ Cardinality(open2) \in Nat
    BY <1>1, <1>4, FS_Subset, FS_CardinalityType
  <2> QED BY <1>1, <1>2, <1>4, <2>1
<1> QED BY <1>3, <1>4

\* What a start adds to the recorded starts.
LEMMA StartAddsId ==
    ASSUME TypeOK, NEW s \in Scans, NEW d \in Days,
           audit' = Append(audit, Started(s, ScheduledAt(s, d), now))
    PROVE  StartIds' = StartIds \union {Len(audit) + 1} /\ Len(audit) + 1 \notin StartIds
<1> DEFINE e == Started(s, ScheduledAt(s, d), now)
<1>1. e \in Rows /\ e.type = "SCAN_STARTED"
  BY ScheduledMoment, StartedRow, StartedFields DEF TypeOK
<1>2. audit' = Append(audit, e) /\ audit \in Seq(Rows)
  BY DEF TypeOK
<1> HIDE DEF e
<1>3. /\ DOMAIN audit' = DOMAIN audit \union {Len(audit) + 1}
      /\ DOMAIN audit = 1 .. Len(audit) /\ Len(audit) \in Nat
      /\ \A i \in DOMAIN audit : audit'[i] = audit[i]
      /\ audit'[Len(audit) + 1] = e
  BY <1>1, <1>2, AppendRow
<1> QED BY <1>1, <1>3 DEF StartIds, Ids

\* An outcome adds none.
LEMMA OutcomeAddsNoId ==
    ASSUME TypeOK, NEW w \in Workers, Running(w), NEW type \in RunEventTypes,
           audit' = Append(audit, Outcome(w, type))
    PROVE  StartIds' = StartIds
<1> DEFINE e == Outcome(w, type)
<1>1. e \in Rows /\ e.type # "SCAN_STARTED"
  BY OutcomeRow, OutcomeFields
<1>2. audit' = Append(audit, e) /\ audit \in Seq(Rows)
  BY DEF TypeOK
<1> HIDE DEF e
<1>3. /\ DOMAIN audit' = DOMAIN audit \union {Len(audit) + 1}
      /\ \A i \in DOMAIN audit : audit'[i] = audit[i]
      /\ audit'[Len(audit) + 1] = e
  BY <1>1, <1>2, AppendRow
<1> QED BY <1>1, <1>3 DEF StartIds, Ids

\* A step that starts nothing keeps RetryInv when whatever it gives up, or adds a
\* fault for, is the run in progress.
LEMMA RetryKept ==
    ASSUME TypeOK, TypeOK', RetryParts, StartIds' = StartIds, AttemptedRuns' = AttemptedRuns,
           \/ faults' = faults /\ Unfinished' \subseteq Unfinished
           \/ faults' = faults + 1 /\ Unfinished' \subseteq Unfinished \union {RunInProgress}
    PROVE  RetryParts'
<1>1. /\ IsFiniteSet(StartIds) /\ IsFiniteSet(AttemptedRuns) /\ faults \in Nat
      /\ Cardinality(StartIds) + Cardinality(Unfinished) <= Cardinality(AttemptedRuns) + faults
      /\ Unfinished \subseteq AttemptedRuns
  BY TimingAssumption DEF TypeOK, RetryParts, FiniteRuns, RetryInv, Unfinished
<1>2. Cardinality(StartIds) \in Nat
  BY <1>1, FS_CardinalityType
<1>3. PICK paid \in {0, 1} :
        /\ faults' = faults + paid
        /\ Unfinished' \subseteq IF paid = 1 THEN Unfinished \union {RunInProgress} ELSE Unfinished
  <2>1. CASE faults' = faults /\ Unfinished' \subseteq Unfinished
    <3> WITNESS 0 \in {0, 1}
    <3> QED BY <1>1, <2>1
  <2>2. CASE faults' = faults + 1 /\ Unfinished' \subseteq Unfinished \union {RunInProgress}
    <3> WITNESS 1 \in {0, 1}
    <3> QED BY <1>1, <2>2
  <2> QED BY <2>1, <2>2
<1>4. Cardinality(StartIds) + Cardinality(Unfinished') <= Cardinality(AttemptedRuns) + faults + paid
  BY <1>1, <1>2, <1>3, NoStartCount
<1> QED BY <1>1, <1>3, <1>4, FS_CardinalityType DEF RetryParts, FiniteRuns, RetryInv

\* A start keeps it: a retry uses up an unfinished run, a first attempt adds a run.
LEMMA RetryStart ==
    ASSUME TypeOK, TypeOK', SoloInv, RetryParts, NEW w, Workers = {w}, pc[w] = "next",
           NEW s \in todo[w], NEW r, r = <<s, day[w]>>,
           audit' = Append(audit, Started(s, ScheduledAt(s, day[w]), now)),
           \/ faults' = faults /\ Running(w)' /\ run'[w] = s /\ day'[w] = day[w]
           \/ faults' = faults + 1 /\ ~ Running(w)'
    PROVE  RetryParts'
<1>1. /\ s \in Scans /\ day[w] \in Days /\ w \in Workers /\ InRunDue(w) /\ ~ Running(w)
  BY ScheduleAssumption DEF TypeOK, InRunDue, Running
<1>2. ~ Settled(s, day[w])
  BY <1>1, SoloParts DEF SoloList
<1>3. AttemptedRuns' = AttemptedRuns \union {r} /\ SettledRuns' = SettledRuns
  BY <1>1, StartAddsRun
<1>4. StartIds' = StartIds \union {Len(audit) + 1} /\ Len(audit) + 1 \notin StartIds
  BY <1>1, StartAddsId
<1>5. RunInProgress = NoRun /\ r # NoRun /\ r \notin SettledRuns
  BY <1>1, <1>2, SoloRun, ScheduleAssumption DEF NoRun, SettledRuns
<1>6. r \in AttemptedRuns => r \in Unfinished
  BY <1>5 DEF Unfinished
<1>7. PICK paid \in {0, 1} :
        /\ faults' = faults + paid
        /\ paid = 0 => Unfinished' \subseteq Unfinished \ {r}
        /\ paid = 1 => Unfinished' \subseteq Unfinished \union {r}
  <2>0. faults \in Nat /\ AttemptedRuns \subseteq Scans \X Days
    <3>1. \A i \in StartIds : audit[i].scan \in Scans /\ LogicalDay(audit[i]) \in Days
      <4> SUFFICES ASSUME NEW i \in StartIds
                   PROVE  audit[i].scan \in Scans /\ LogicalDay(audit[i]) \in Days
        OBVIOUS
      <4>1. audit[i] \in Rows
        BY AppendRow DEF TypeOK, StartIds, Ids
      <4> QED BY <4>1 DEF Rows, LogicalDay, Moments
    <3> QED BY <3>1, TimingAssumption DEF TypeOK, AttemptedRuns
  <2>1. CASE faults' = faults /\ Running(w)' /\ run'[w] = s /\ day'[w] = day[w]
    <3> WITNESS 0 \in {0, 1}
    <3>1. RunInProgress' = r
      BY <2>1, SoloRun
    <3>2. NoRun \notin AttemptedRuns
      BY <2>0, ScheduleAssumption DEF NoRun
    <3> QED BY <1>3, <1>5, <2>0, <2>1, <3>1, <3>2 DEF Unfinished
  <2>2. CASE faults' = faults + 1 /\ ~ Running(w)'
    <3> WITNESS 1 \in {0, 1}
    <3>1. RunInProgress' = NoRun
      BY <2>2, SoloRun
    <3> QED BY <1>3, <1>5, <2>0, <2>2, <3>1 DEF Unfinished
  <2> QED BY <2>1, <2>2
<1>8. /\ IsFiniteSet(StartIds) /\ IsFiniteSet(AttemptedRuns) /\ faults \in Nat
      /\ Cardinality(StartIds) + Cardinality(Unfinished) <= Cardinality(AttemptedRuns) + faults
      /\ Unfinished \subseteq AttemptedRuns
  BY TimingAssumption DEF TypeOK, RetryParts, FiniteRuns, RetryInv, Unfinished
<1> DEFINE id == Len(audit) + 1
<1>9. StartIds' = StartIds \union {id} /\ id \notin StartIds
  BY <1>4
<1> HIDE DEF id
<1>10. Cardinality(StartIds') = Cardinality(StartIds) + 1 /\ Cardinality(StartIds) \in Nat
       /\ IsFiniteSet(StartIds')
  BY <1>8, <1>9, FS_AddElement, FS_CardinalityType
<1>11. /\ IsFiniteSet(AttemptedRuns') /\ Cardinality(AttemptedRuns) \in Nat
       /\ Cardinality(AttemptedRuns') =
            IF r \in AttemptedRuns THEN Cardinality(AttemptedRuns) ELSE Cardinality(AttemptedRuns) + 1
  BY <1>3, <1>8, FS_AddElement, FS_CardinalityType
<1>12. IsFiniteSet(Unfinished) /\ Cardinality(Unfinished) \in Nat
  BY <1>8, FS_Subset, FS_CardinalityType
<1>13. /\ Cardinality(Unfinished') \in Nat
       /\ Cardinality(Unfinished') <=
            Cardinality(Unfinished) + (IF r \in Unfinished THEN paid - 1 ELSE paid)
  <2>1. CASE paid = 0
    <3>1. /\ IsFiniteSet(Unfinished \ {r})
          /\ Cardinality(Unfinished \ {r}) =
               IF r \in Unfinished THEN Cardinality(Unfinished) - 1 ELSE Cardinality(Unfinished)
      BY <1>12, FS_RemoveElement
    <3>2. IsFiniteSet(Unfinished') /\ Cardinality(Unfinished') <= Cardinality(Unfinished \ {r})
      <4>1. Unfinished' \subseteq Unfinished \ {r}
        BY <1>7, <2>1
      <4> QED BY <3>1, <4>1, FS_Subset
    <3>3. Cardinality(Unfinished') \in Nat
      BY <3>2, FS_CardinalityType
    <3> QED BY <1>12, <2>1, <3>1, <3>2, <3>3
  <2>2. CASE paid = 1
    <3>1. /\ IsFiniteSet(Unfinished \union {r})
          /\ Cardinality(Unfinished \union {r}) =
               IF r \in Unfinished THEN Cardinality(Unfinished) ELSE Cardinality(Unfinished) + 1
      BY <1>12, FS_AddElement
    <3>2. IsFiniteSet(Unfinished') /\ Cardinality(Unfinished') <= Cardinality(Unfinished \union {r})
      <4>1. Unfinished' \subseteq Unfinished \union {r}
        BY <1>7, <2>2
      <4> QED BY <3>1, <4>1, FS_Subset
    <3>3. Cardinality(Unfinished') \in Nat
      BY <3>2, FS_CardinalityType
    <3> QED BY <1>12, <2>2, <3>1, <3>2, <3>3
  <2> QED BY <2>1, <2>2
<1>14. Cardinality(StartIds') + Cardinality(Unfinished') <= Cardinality(AttemptedRuns') + faults'
  BY <1>6, <1>7, <1>8, <1>10, <1>11, <1>12, <1>13, SMTT(30)
<1> QED BY <1>10, <1>11, <1>14 DEF RetryParts, FiniteRuns, RetryInv

\* With no row, what is unfinished afterwards was before, or was in progress.
LEMMA UnfinishedStep ==
    ASSUME TypeOK, NEW w, Workers = {w}, AttemptedRuns' = AttemptedRuns,
           SettledRuns \subseteq SettledRuns'
    PROVE  /\ Unfinished' \subseteq Unfinished \union {RunInProgress}
           /\ RunInProgress' = RunInProgress => Unfinished' \subseteq Unfinished
           /\ RunInProgress \in SettledRuns' => Unfinished' \subseteq Unfinished
           /\ RunInProgress \notin AttemptedRuns => Unfinished' \subseteq Unfinished
BY DEF Unfinished

LEMMA NextRetryInv ==
    ASSUME Solo, TypeOK, TypeOK', SoloInv, RetryParts, [Next]_vars
    PROVE  RetryParts'
<1>0. PICK w : Workers = {w}
  BY DEF Solo
<1>1. w \in Workers
  BY <1>0
<1>2. NoRun \notin AttemptedRuns
  <2>1. \A i \in StartIds : audit[i].scan \in Scans
    <3> SUFFICES ASSUME NEW i \in StartIds PROVE audit[i].scan \in Scans
      OBVIOUS
    <3>1. audit[i] \in Rows
      BY AppendRow DEF TypeOK, StartIds, Ids
    <3> QED BY <3>1 DEF Rows
  <2> QED BY <2>1, ScheduleAssumption DEF AttemptedRuns, NoRun
\* no row is added: a fault, or the run in progress goes on
<1>3. ASSUME audit' = audit,
             \/ faults' = faults /\ (Running(w) => /\ Running(w)'
                                                  /\ run'[w] = run[w] /\ day'[w] = day[w])
             \/ faults' = faults + 1
      PROVE  RetryParts'
  <2>1. /\ AttemptedRuns' = AttemptedRuns /\ SettledRuns' = SettledRuns /\ StartIds' = StartIds
    BY <1>3, SameAudit DEF StartIds, Ids
  <2>2. CASE faults' = faults + 1
    BY <1>0, <2>1, <2>2, UnfinishedStep, RetryKept
  <2>3. CASE faults' = faults /\ ~ Running(w)
    <3>1. RunInProgress = NoRun
      BY <1>0, <2>3, SoloRun
    <3> QED BY <1>0, <1>2, <2>1, <2>3, <3>1, UnfinishedStep, RetryKept
  <2>4. CASE faults' = faults /\ Running(w)
    <3>1. RunInProgress' = RunInProgress \/ faults' = faults + 1
      BY <1>0, <1>3, <2>4, SoloRun
    <3> QED BY <1>0, <2>1, <2>2, <2>4, <3>1, UnfinishedStep, RetryKept
  <2> QED BY <1>3, <2>2, <2>3, <2>4
\* an outcome of the run in progress is added
<1>4. ASSUME NEW type \in RunEventTypes, Running(w), audit' = Append(audit, Outcome(w, type)),
             faults' = faults \/ faults' = faults + 1
      PROVE  RetryParts'
  <2>1. /\ AttemptedRuns' = AttemptedRuns
        /\ SettledRuns' = SettledRuns \union {RunInProgress}
    BY <1>0, <1>1, <1>4, OutcomeAddsRun, SoloRun
  <2>2. StartIds' = StartIds
    BY <1>1, <1>4, OutcomeAddsNoId
  <2>3. Unfinished' \subseteq Unfinished
    BY <1>0, <2>1, UnfinishedStep
  <2> QED BY <1>4, <2>1, <2>2, <2>3, RetryKept
<1>5. CASE Tick \/ UNCHANGED vars
  BY <1>3, <1>5 DEF Tick, vars, Running
<1>6. CASE Api
  BY <1>6, ApiAppends DEF Solo, Post, TypeOK
<1>7. CASE Poll(w) \/ Wake(w) \/ Exit(w) \/ RequestStop(w) \/ Restart(w) \/ Redeploy(w)
           \/ ExecuteCompletes(w) \/ ExecuteRaises(w)
  BY <1>1, <1>3, <1>7
     DEF Poll, Wake, Exit, RequestStop, Restart, Redeploy, Boot,
         ExecuteCompletes, ExecuteRaises, Return, TypeOK, Running
<1>8. CASE PollRaises(w) \/ Crash(w)
  BY <1>3, <1>8 DEF PollRaises, Crash, Fault
<1>9. CASE Start(w)
  <2>1. PICK s \in Scans : /\ IsFirst(s, w) /\ run' = [run EXCEPT ![w] = s]
                           /\ audit' = Append(audit, Started(s, ScheduledAt(s, day[w]), now))
    BY <1>9 DEF Start
  <2>2. /\ pc[w] = "next" /\ s \in todo[w] /\ faults' = faults
        /\ Running(w)' /\ run'[w] = s /\ day'[w] = day[w]
    BY <1>1, <1>9, <2>1 DEF Start, IsFirst, TypeOK, Running
  <2> QED BY <1>0, <2>1, <2>2, RetryStart
<1>10. CASE StartRaises(w)
  <2>1. PICK s \in Scans : /\ IsFirst(s, w)
                           /\ AppendRaises(Started(s, ScheduledAt(s, day[w]), now))
    BY <1>10 DEF StartRaises
  <2>2. /\ pc[w] = "next" /\ s \in todo[w] /\ faults' = faults + 1 /\ ~ Running(w)'
    BY <1>1, <1>10, <2>1 DEF StartRaises, IsFirst, AppendRaises, Fault, Backoff, TypeOK, Running
  <2>3. CASE audit' = audit
    BY <1>3, <2>2, <2>3
  <2>4. CASE audit' = Append(audit, Started(s, ScheduledAt(s, day[w]), now))
    BY <1>0, <2>2, <2>4, RetryStart
  <2> QED BY <2>1, <2>3, <2>4 DEF AppendRaises
<1>11. CASE ExecuteFindsNoPlan(w)
  BY <1>4, <1>11 DEF ExecuteFindsNoPlan, Return, Running, RunEventTypes
<1>12. CASE NoPlanRaises(w)
  BY <1>3, <1>4, <1>12 DEF NoPlanRaises, Return, AppendRaises, Fault, Running, RunEventTypes
<1>13. CASE Record(w)
  BY <1>4, <1>13, OutcomeTypes DEF Record, Running
<1>14. CASE RecordRaises(w)
  BY <1>3, <1>4, <1>14, OutcomeTypes DEF RecordRaises, AppendRaises, Fault, Running
<1> QED BY <1>0, <1>5, <1>6, <1>7, <1>8, <1>9, <1>10, <1>11, <1>12, <1>13, <1>14
        DEF Next, Progress, Raise, Lifecycle

LEMMA InitRetryInv == Init => RetryParts
<1> SUFFICES ASSUME Init PROVE RetryParts
  OBVIOUS
<1>1. StartIds = {} /\ AttemptedRuns = {}
  BY DEF Init, AttemptedRuns, StartIds, Ids, Ended, Event
<1>2. Unfinished = {}
  BY <1>1 DEF Unfinished
<1> QED BY <1>1, <1>2, FS_EmptySet DEF RetryParts, FiniteRuns, RetryInv, Init

\* One worker without API posts: a run is started again only after a database
\* error or a crash, once for each (worker_main.py:85-99, worker.py:38-62).
THEOREM RetriesNeedFaultsHolds ==
    ASSUME Solo
    PROVE  Spec => []RetriesNeedFaults
<1>1. TypeOK /\ RetryParts => RetriesNeedFaults
  <2> SUFFICES ASSUME TypeOK, RetryParts PROVE RetriesNeedFaults
    OBVIOUS
  <2>1. IsFiniteSet(Unfinished)
    BY FS_Subset DEF RetryParts, FiniteRuns, Unfinished
  <2>2. /\ Cardinality(Unfinished) \in Nat /\ Cardinality(StartIds) \in Nat
        /\ Cardinality(AttemptedRuns) \in Nat
    BY <2>1, FS_CardinalityType DEF RetryParts, FiniteRuns
  <2>3. faults \in Nat
    BY TimingAssumption DEF TypeOK
  <2> QED BY <2>2, <2>3 DEF RetryParts, RetryInv, RetriesNeedFaults
<1>2. TypeOK /\ SoloInv /\ [Next]_vars => SoloInv'
  BY NextSoloInv
<1>3. TypeOK /\ TypeOK' /\ SoloInv /\ RetryParts /\ [Next]_vars => RetryParts'
  BY NextRetryInv
<1> QED BY <1>1, <1>2, <1>3, InitTypeOK, NextTypeOK, InitSoloInv, InitRetryInv, PTL DEF Spec

=============================================================================
