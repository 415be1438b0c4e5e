----------------------------- MODULE ScanWorker -----------------------------
(***************************************************************************)
(* The scheduled-scan worker: the poll loop of worker_main.py, the one-shot *)
(* worker of worker.py, the scheduler service that decides what is due, and *)
(* the run events of scan_audit.py in the durable audit table.              *)
(*                                                                         *)
(* The audit table is the only state the worker processes share with each   *)
(* other and with the HTTP API, and the only state that survives a crash.   *)
(* What is due is recomputed from it at every poll.                         *)
(*                                                                         *)
(* A moment is a market-time (America/New_York) day number and a tick       *)
(* within the day.  A tick is coarse: longer than any sleep between polls.  *)
(***************************************************************************)
EXTENDS Integers, Sequences, FiniteSets

CONSTANTS
    Workers,        \* worker processes
    Scans,          \* ids of the scheduled scans
    Enabled,        \* the scans whose schedule entry is enabled
    TimeOf,         \* scan -> tick of the day it is scheduled at
    ScanDays,       \* the days that are neither week-end nor market holiday
    MaxDay,         \* bound: the clock stops at the end of this day
    TicksPerDay,    \* ticks are 0 .. TicksPerDay - 1
    Grace,          \* SCHEDULE_GRACE_MINUTES, in ticks
    MissedAfter,    \* SCHEDULE_MISSED_MINUTES, in ticks
    Interval,       \* poll interval, in units of back-off delay
    MaxBackoff,     \* TRADEGPT_WORKER_MAX_BACKOFF_SECONDS, in the same units
    MaxFaults,      \* bound: database errors and process crashes in a behaviour
    MaxPosts,       \* bound: run events posted through the HTTP API
    NoMoment,       \* a scheduled_at that is absent, malformed or has no zone
    NoScan          \* no scan is running

ASSUME ScheduleAssumption ==
    /\ Enabled \subseteq Scans
    /\ MaxDay \in Nat /\ TicksPerDay \in Nat \ {0}
    /\ TimeOf \in [Scans -> 0 .. TicksPerDay - 1]
    \* validate_production_schedule: enabled scans never share a time
    /\ \A s, t \in Enabled : TimeOf[s] = TimeOf[t] => s = t
    /\ NoScan \notin Scans

ASSUME TimingAssumption ==
    /\ Grace \in Nat /\ MissedAfter \in Nat /\ Grace <= MissedAfter
    /\ Interval \in Nat \ {0} /\ MaxBackoff \in Nat \ {0}
    /\ MaxFaults \in Nat /\ MaxPosts \in Nat

VARIABLES
    now,      \* the wall clock
    audit,    \* scan run events of the audit table, in the order of their ids
    pc,       \* where each worker process is
    todo,     \* the rest of the list run_due is iterating over
    day,      \* the day of the moment run_due was called with
    run,      \* the scan run_one is handling
    result,   \* how the executor came back: COMPLETED, NO_PLAN, or FAILED
    delay,    \* current_delay of run_forever
    stop,     \* the stop event set by SIGTERM and SIGINT
    faults,   \* faults so far
    posts     \* API posts so far

vars == <<now, audit, pc, todo, day, run, result, delay, stop, faults, posts>>

-----------------------------------------------------------------------------
(* Moments and events                                                      *)

Days == 0 .. MaxDay
Moments == [day : Days, tick : 0 .. TicksPerDay - 1]

ASSUME MomentAssumption == NoMoment \notin Moments

RunEventTypes == {"SCAN_COMPLETED", "SCAN_FAILED", "SCAN_MISSED", "SCAN_NO_PLAN"}
EventTypes == RunEventTypes \union {"SCAN_STARTED"}

ScheduledAt(s, d) == [day |-> d, tick |-> TimeOf[s]]

\* Signed distance in ticks from moment a to moment b.
Elapsed(a, b) == (b.day - a.day) * TicksPerDay + (b.tick - a.tick)

\* (mutant: timedelta.seconds for total_seconds, which drops whole days)
Timeliness_WithinDay(scheduled, started) ==
    IF (started.tick - scheduled.tick) % TicksPerDay > MissedAfter THEN "MISSED_RECOVERY"
    ELSE IF (started.tick - scheduled.tick) % TicksPerDay > Grace THEN "LATE"
    ELSE "ON_TIME"

TimelinessClasses == {"ON_TIME", "LATE", "MISSED_RECOVERY"}
Timeliness(scheduled, started) ==
    IF Elapsed(scheduled, started) > MissedAfter THEN "MISSED_RECOVERY"
    ELSE IF Elapsed(scheduled, started) > Grace THEN "LATE"
    ELSE "ON_TIME"

\* stamp: the day of a start's started_at, which its timeliness comes from; the day
\* of an outcome's own timestamp, which is read back when scheduled_at is absent.
Event(type, s, scheduled, m, timeliness) ==
    [type |-> type, scan |-> s, sched |-> scheduled, stamp |-> m.day,
     timeliness |-> timeliness]

Rows == [type : EventTypes, scan : Scans, sched : Moments \union {NoMoment},
         stamp : Days, timeliness : TimelinessClasses \union {"NONE"}]

Started(s, scheduled, m) == Event("SCAN_STARTED", s, scheduled, m, Timeliness(scheduled, m))
Ended(type, s, scheduled, m) == Event(type, s, scheduled, m, "NONE")

\* _scheduled_at_from_event, with the event's own timestamp as the fall-back.
LogicalDay(e) == IF e.sched = NoMoment THEN e.stamp ELSE e.sched.day

Ids == DOMAIN audit

\* Rows that count as an outcome of scan s for day d.
IsOutcome(e, s, d) == e.type \in RunEventTypes /\ e.scan = s /\ LogicalDay(e) = d

OutcomeIds(s, d) == {i \in Ids : IsOutcome(audit[i], s, d)}

Settled(s, d) == OutcomeIds(s, d) # {}

\* (mutant: failed runs do not count as runs)
LastRunIsOn_SuccessOnly(s, d) == \E i \in OutcomeIds(s, d) : audit[i].type # "SCAN_FAILED"

\* (mutant: a start already counts as a run)
LastRunIsOn_Started(s, d) == \E i \in Ids : audit[i].scan = s /\ LogicalDay(audit[i]) = d

\* SchedulerService.due keeps the latest logical run of each scan and due_scans
\* compares only its date with today's: the latest run is of day d exactly when
\* some outcome is of day d and none is of a later day.  (On PostgreSQL: SQLite
\* returns a bare event's timestamp without a zone, and comparing it with another
\* run's aware scheduled_at raises a TypeError in the poll.)
LastRunIsOn(s, d) == Settled(s, d) /\ \A i \in Ids :
    audit[i].type \in RunEventTypes /\ audit[i].scan = s => LogicalDay(audit[i]) <= d

\* (mutant: the enabled flag is not looked at)
Due_Disabled(m) ==
    {s \in Scans : m.day \in ScanDays /\ TimeOf[s] <= m.tick /\ ~ LastRunIsOn(s, m.day)}

\* (mutant: holidays and week-ends are not looked at)
Due_EveryDay(m) == {s \in Enabled : TimeOf[s] <= m.tick /\ ~ LastRunIsOn(s, m.day)}

Due(m) == {s \in Enabled : /\ m.day \in ScanDays
                           /\ TimeOf[s] <= m.tick
                           /\ ~ LastRunIsOn(s, m.day)}

-----------------------------------------------------------------------------
(* Process states.  A worker iterates its list in "next", "execute" and     *)
(* "record"; it has no state in "exited" and "crashed".                     *)

PcStates == {"poll", "next", "execute", "record", "sleep", "exited", "crashed"}
Running(w) == pc[w] \in {"execute", "record"}
InRunDue(w) == pc[w] = "next" \/ Running(w)
Up(w) == pc[w] \notin {"exited", "crashed"}

MinOf(a, b) == IF a < b THEN a ELSE b
MaxOf(a, b) == IF a < b THEN b ELSE a

Init ==
    /\ now = [day |-> 0, tick |-> 0]
    \* A database from before scheduled_at was recorded holds bare events.
    /\ audit = <<>> \/ \E s \in Scans : audit = <<Ended("SCAN_COMPLETED", s, NoMoment, now)>>
    /\ pc = [w \in Workers |-> "poll"]
    /\ todo = [w \in Workers |-> {}]
    /\ day = [w \in Workers |-> 0]
    /\ run = [w \in Workers |-> NoScan]
    /\ result = [w \in Workers |-> "NONE"]
    /\ delay = [w \in Workers |-> Interval]
    /\ stop = [w \in Workers |-> FALSE]
    /\ faults = 0
    /\ posts = 0

Tick ==
    /\ \/ /\ now.tick < TicksPerDay - 1
          /\ now' = [now EXCEPT !.tick = @ + 1]
       \/ /\ now.tick = TicksPerDay - 1 /\ now.day < MaxDay
          /\ now' = [day |-> now.day + 1, tick |-> 0]
    /\ UNCHANGED <<audit, pc, todo, day, run, result, delay, stop, faults, posts>>

-----------------------------------------------------------------------------
(* The ways a call of run_due ends                                         *)

\* One more scan of the list, or run_due returns and the delay is reset.
Proceed(w) ==
    IF todo[w] = {}
    THEN pc' = [pc EXCEPT ![w] = "sleep"] /\ delay' = [delay EXCEPT ![w] = Interval]
    ELSE pc' = [pc EXCEPT ![w] = "next"] /\ UNCHANGED delay

\* An exception leaves run_due: the rest of the list is dropped, the delay doubles.
Backoff(w) ==
    /\ pc' = [pc EXCEPT ![w] = "sleep"]
    /\ todo' = [todo EXCEPT ![w] = {}]
    /\ run' = [run EXCEPT ![w] = NoScan]
    /\ result' = [result EXCEPT ![w] = "NONE"]
    /\ delay' = [delay EXCEPT ![w] = MinOf(MaxBackoff, MaxOf(Interval, @ * 2))]

Fault == faults < MaxFaults /\ faults' = faults + 1

\* A failed commit raises in the caller; the row is there or it is not.
AppendRaises(e) == Fault /\ audit' \in {audit, Append(audit, e)}

-----------------------------------------------------------------------------
(* Worker steps                                                            *)

\* (mutant: the stop event only ends the sleep)
Poll_IgnoresStop(w) ==
    /\ pc[w] = "poll"
    /\ todo' = [todo EXCEPT ![w] = Due(now)]
    /\ day' = [day EXCEPT ![w] = now.day]
    /\ pc' = [pc EXCEPT ![w] = IF Due(now) = {} THEN "sleep" ELSE "next"]
    /\ UNCHANGED <<now, audit, run, result, delay, stop, faults, posts>>

\* run_due reads the clock, then the whole audit table, once for the list.
Poll(w) ==
    /\ pc[w] = "poll" /\ ~ stop[w]
    /\ todo' = [todo EXCEPT ![w] = Due(now)]
    /\ day' = [day EXCEPT ![w] = now.day]
    /\ IF Due(now) = {}
       THEN pc' = [pc EXCEPT ![w] = "sleep"] /\ delay' = [delay EXCEPT ![w] = Interval]
       ELSE pc' = [pc EXCEPT ![w] = "next"] /\ UNCHANGED delay
    /\ UNCHANGED <<now, audit, run, result, stop, faults, posts>>

PollRaises(w) ==
    /\ pc[w] = "poll" /\ ~ stop[w]
    /\ Fault /\ Backoff(w)
    /\ UNCHANGED <<now, audit, day, stop, posts>>

\* (mutant: the due list is not sorted)
IsFirst_Unsorted(s, w) == s \in todo[w]

IsFirst(s, w) == s \in todo[w] /\ \A t \in todo[w] : TimeOf[s] <= TimeOf[t]

Start(w) ==
    /\ pc[w] = "next"
    /\ \E s \in Scans :
        /\ IsFirst(s, w)
        /\ audit' = Append(audit, Started(s, ScheduledAt(s, day[w]), now))
        /\ run' = [run EXCEPT ![w] = s]
        /\ todo' = [todo EXCEPT ![w] = @ \ {s}]
    /\ pc' = [pc EXCEPT ![w] = "execute"]
    /\ UNCHANGED <<now, day, result, delay, stop, faults, posts>>

StartRaises(w) ==
    /\ pc[w] = "next"
    /\ \E s \in Scans : IsFirst(s, w) /\ AppendRaises(Started(s, ScheduledAt(s, day[w]), now))
    /\ Backoff(w)
    /\ UNCHANGED <<now, day, stop, posts>>

Outcome(w, type) == Ended(type, run[w], ScheduledAt(run[w], day[w]), now)

Return(w, r) ==
    /\ pc[w] = "execute"
    /\ pc' = [pc EXCEPT ![w] = "record"]
    /\ result' = [result EXCEPT ![w] = r]
    /\ UNCHANGED <<now, todo, day, run, delay, stop, posts>>

\* The executor processed its plan, or raised.
ExecuteCompletes(w) == Return(w, "COMPLETED") /\ UNCHANGED <<audit, faults>>
ExecuteRaises(w) == Return(w, "FAILED") /\ UNCHANGED <<audit, faults>>

\* With an empty plan the executor itself appends SCAN_NO_PLAN before returning.
ExecuteFindsNoPlan(w) ==
    /\ Return(w, "NO_PLAN")
    /\ audit' = Append(audit, Outcome(w, "SCAN_NO_PLAN"))
    /\ UNCHANGED faults

NoPlanRaises(w) == Return(w, "FAILED") /\ AppendRaises(Outcome(w, "SCAN_NO_PLAN"))

OutcomeType(r) == CASE r = "COMPLETED" -> "SCAN_COMPLETED"
                    [] r = "NO_PLAN"   -> "SCAN_NO_PLAN"
                    [] OTHER           -> "SCAN_FAILED"

\* complete, record_non_success or fail; then the next scan of the list.
Record(w) ==
    /\ pc[w] = "record"
    /\ audit' = Append(audit, Outcome(w, OutcomeType(result[w])))
    /\ run' = [run EXCEPT ![w] = NoScan]
    /\ result' = [result EXCEPT ![w] = "NONE"]
    /\ Proceed(w)
    /\ UNCHANGED <<now, todo, day, stop, faults, posts>>

\* (mutant: complete() inside the try block, its error recorded as a failure)
RecordRaises_ThenFails(w) ==
    /\ pc[w] = "record" /\ Fault
    /\ \E kept \in {audit, Append(audit, Outcome(w, OutcomeType(result[w])))} :
        audit' = Append(kept, Outcome(w, "SCAN_FAILED"))
    /\ Backoff(w)
    /\ UNCHANGED <<now, day, stop, posts>>

RecordRaises(w) ==
    /\ pc[w] = "record"
    /\ AppendRaises(Outcome(w, OutcomeType(result[w])))
    /\ Backoff(w)
    /\ UNCHANGED <<now, day, stop, posts>>

\* stop.wait(current_delay) times out or sees the stop event.
Wake(w) ==
    /\ pc[w] = "sleep"
    /\ pc' = [pc EXCEPT ![w] = "poll"]
    /\ UNCHANGED <<now, audit, todo, day, run, result, delay, stop, faults, posts>>

-----------------------------------------------------------------------------
(* Signals, crashes and the supervisor                                     *)

RequestStop(w) ==
    /\ Up(w) /\ ~ stop[w]
    /\ stop' = [stop EXCEPT ![w] = TRUE]
    /\ UNCHANGED <<now, audit, pc, todo, day, run, result, delay, faults, posts>>

\* The stop event is looked at between polls only.
Exit(w) ==
    /\ pc[w] = "poll" /\ stop[w]
    /\ pc' = [pc EXCEPT ![w] = "exited"]
    /\ UNCHANGED <<now, audit, todo, day, run, result, delay, stop, faults, posts>>

Crash(w) ==
    /\ Up(w) /\ Fault
    /\ pc' = [pc EXCEPT ![w] = "crashed"]
    /\ todo' = [todo EXCEPT ![w] = {}]
    /\ run' = [run EXCEPT ![w] = NoScan]
    /\ result' = [result EXCEPT ![w] = "NONE"]
    /\ UNCHANGED <<now, audit, day, delay, stop, posts>>

Boot(w) ==
    /\ pc' = [pc EXCEPT ![w] = "poll"]
    /\ delay' = [delay EXCEPT ![w] = Interval]
    /\ stop' = [stop EXCEPT ![w] = FALSE]
    /\ UNCHANGED <<now, audit, todo, day, run, result, faults, posts>>

\* restart: unless-stopped.  The supervisor restarts a container that crashed; one
\* that was told to stop, whether it exited or was killed at the end of its grace
\* period, stays down until an operator starts it.
Restart(w) == pc[w] = "crashed" /\ ~ stop[w] /\ Boot(w)
Redeploy(w) == (pc[w] = "exited" \/ (pc[w] = "crashed" /\ stop[w])) /\ Boot(w)

-----------------------------------------------------------------------------
(* The HTTP API posts run events of its own.  scheduled_at is the client's:  *)
(* any day, or a time without a zone, which the payload parser ignores.      *)

PostedMoments(s) == {ScheduledAt(s, d) : d \in Days} \union {NoMoment}

Post(e) ==
    /\ posts < MaxPosts /\ posts' = posts + 1
    /\ audit' = Append(audit, e)
    /\ UNCHANGED <<now, pc, todo, day, run, result, delay, stop, faults>>

\* A start needs a comparable scheduled_at: its lateness is computed, from the
\* client's started_at when there is one.
PostStart ==
    \E s \in Scans, started \in Moments : \E m \in PostedMoments(s) \ {NoMoment} :
        Post(Started(s, m, started))

PostOutcome(type) == \E s \in Scans : \E m \in PostedMoments(s) : Post(Ended(type, s, m, now))
PostComplete == PostOutcome("SCAN_COMPLETED")
PostFail == PostOutcome("SCAN_FAILED")
PostMissed == PostOutcome("SCAN_MISSED")

-----------------------------------------------------------------------------

Progress(w) ==
    \/ Poll(w) \/ Start(w) \/ Record(w) \/ Wake(w) \/ Exit(w)
    \/ ExecuteCompletes(w) \/ ExecuteRaises(w) \/ ExecuteFindsNoPlan(w)

Raise(w) == PollRaises(w) \/ StartRaises(w) \/ NoPlanRaises(w) \/ RecordRaises(w)

Lifecycle(w) == RequestStop(w) \/ Crash(w) \/ Restart(w) \/ Redeploy(w)

Api == PostStart \/ PostComplete \/ PostFail \/ PostMissed

Next == Tick \/ Api \/ \E w \in Workers : Progress(w) \/ Raise(w) \/ Lifecycle(w)

Spec == Init /\ [][Next]_vars

\* A live process makes progress, every executor call returns (provider calls
\* have time-outs), and a crashed container that nobody stopped is restarted.
\* Nothing is assumed of the clock, of operators or of API clients.
Fairness == \A w \in Workers : WF_vars(Progress(w)) /\ WF_vars(Restart(w))

LiveSpec == Spec /\ Fairness

-----------------------------------------------------------------------------
(* Properties                                                              *)

\* State shapes: every variable stays in its domain.
TypeOK ==
    /\ now \in Moments
    /\ audit \in Seq(Rows)
    /\ pc \in [Workers -> PcStates]
    /\ todo \in [Workers -> SUBSET Enabled]
    /\ day \in [Workers -> Days]
    /\ run \in [Workers -> Scans \union {NoScan}]
    /\ \A w \in Workers : Running(w) => run[w] \in Scans
    /\ result \in [Workers -> {"NONE", "COMPLETED", "NO_PLAN", "FAILED"}]
    /\ delay \in [Workers -> Nat]
    /\ stop \in [Workers -> BOOLEAN]
    /\ faults \in 0 .. MaxFaults
    /\ posts \in 0 .. MaxPosts

\* The scans of one day run in the order of their times, whatever raises,
\* crashes, is posted or runs concurrently: while a worker executes a scan,
\* every enabled scan scheduled earlier that day has a recorded outcome.
Chronological ==
    \A w \in Workers, s \in Enabled :
        Running(w) /\ TimeOf[s] < TimeOf[run[w]] => Settled(s, day[w])

\* "A scan is due once per ET calendar day": no start is recorded for a scan
\* and day that already had an outcome (scheduler.py:144-147, worker.py:25-32).
NoRerun ==
    \A i, j \in Ids :
        /\ i < j
        /\ audit[i].type \in RunEventTypes /\ audit[j].type = "SCAN_STARTED"
        /\ audit[i].scan = audit[j].scan
        => LogicalDay(audit[i]) # LogicalDay(audit[j])

\* A completed run keeps that one outcome: no retry, lost acknowledgement or
\* restart adds a failure or a second completion beside it.
CompletedIsFinal ==
    \A s \in Scans, d \in Days :
        (\E i \in OutcomeIds(s, d) : audit[i].type = "SCAN_COMPLETED")
            => Cardinality(OutcomeIds(s, d)) = 1

StartIds == {i \in Ids : audit[i].type = "SCAN_STARTED"}
AttemptedRuns == {<<audit[i].scan, LogicalDay(audit[i])>> : i \in StartIds}

\* Every start of a run beyond its first is paid for by a database error or a
\* crash: back-off and restart cause no re-execution of their own.
RetriesNeedFaults == Cardinality(StartIds) <= Cardinality(AttemptedRuns) + faults

\* A worker only runs what is scheduled: an enabled scan, on a market day,
\* no earlier than its time, even when it works through its list past midnight.
RunsAreDue ==
    \A w \in Workers : Running(w) =>
        /\ run[w] \in Enabled /\ day[w] \in ScanDays
        /\ Elapsed(ScheduledAt(run[w], day[w]), now) >= 0

\* A scan queued behind a slow one may start after midnight; whoever records that
\* start, and whatever started_at a client claims, a started_at on a later day than
\* that of a schedule more than the missed limit before midnight is never reported
\* as on time or merely late (scan_audit.py:22-36).
OvernightStartIsRecovery ==
    \A i \in StartIds : LET e == audit[i] IN
        e.stamp > e.sched.day /\ TicksPerDay - e.sched.tick > MissedAfter
            => e.timeliness = "MISSED_RECOVERY"

\* A scan that is due gets an outcome while its day lasts, unless every worker
\* was told to stop and is down: no fault before the last poll loses it for good.
DueIsSettled ==
    \A s \in Enabled, d \in ScanDays \cap Days :
        (now.day = d /\ s \in Due(now)) ~>
            (Settled(s, d) \/ now.day # d \/ \A w \in Workers : stop[w] /\ ~ Up(w))

\* A stop request ends the process, even in the middle of the list.
StopEnds == \A w \in Workers : stop[w] ~> ~ Up(w)

-----------------------------------------------------------------------------
(* Inductive strengthenings                                                *)

\* What every worker's list guarantees: a scan that should come before an entry
\* of the list is still in it, is running, or has its outcome.
ListInOrder(w) ==
    /\ \A t \in todo[w], s \in Enabled : TimeOf[s] < TimeOf[t] =>
        s \in todo[w] \/ (Running(w) /\ s = run[w]) \/ Settled(s, day[w])
    /\ Running(w) => \A s \in Enabled :
        TimeOf[s] < TimeOf[run[w]] => Settled(s, day[w])

\* Chronological, made inductive: it holds for the whole list, not only for the
\* scan that runs.
OrderInv == \A w \in Workers : InRunDue(w) => ListInOrder(w)

\* NoRerun, made inductive for one worker without API posts: nothing in the
\* audit is dated after today, and what is on the list has no outcome.
SoloInv ==
    /\ NoRerun
    /\ \A i \in Ids : LogicalDay(audit[i]) <= now.day
    /\ \A w \in Workers : InRunDue(w) =>
        /\ day[w] <= now.day /\ day[w] \in ScanDays
        /\ \A s \in todo[w] : ~ Settled(s, day[w])
        /\ Running(w) => run[w] \in Enabled \ todo[w]

-----------------------------------------------------------------------------
(* What the source says and the code does not do                           *)

\* "A scan is due once per ET calendar day" (scheduler.py:146): a scan with an
\* outcome for today is not due again.  An outcome dated later hides today's.
DueOncePerDay ==
    \A s \in Enabled, d \in Days : Settled(s, d) /\ now.day = d => s \notin Due(now)

-----------------------------------------------------------------------------
(* Refinement: with one worker and no API posts the audit table is a run    *)
(* ledger.                                                                  *)

NoRun == <<NoScan, NoScan>>

SettledRuns == {r \in Scans \X Days : Settled(r[1], r[2])}
RunInProgress == IF \E w \in Workers : Running(w)
                 THEN LET w == CHOOSE w \in Workers : Running(w) IN <<run[w], day[w]>>
                 ELSE NoRun

Ledger == INSTANCE RunLedger WITH
    attempted <- AttemptedRuns, settled <- SettledRuns, running <- RunInProgress

\* The worker implements the run ledger: outcomes end a run for good, and the
\* runs of a day are taken in order (scheduler_service.py:43-59, worker.py:38-62).
ImplementsLedger == Ledger!Spec

=============================================================================
