# TradeGPT: specification and verification

TLA+ models of TradeGPT, the TLC configurations that check them on small
instances, and theorems about them checked by TLAPS for every instance.
Paths are relative to the repository; `x.py` without a directory is
`src/tradegpt/x.py`. `PROJECT.json` maps every definition to the lines it models.

## 1. The system

TradeGPT scans a plan of symbols at fixed market times, carries each symbol's
candidate through a state machine guarded by execution and risk gates, and
records candidates, learning records, observations and audit rows in one SQL
database. Two kinds of process share the database and nothing else: the HTTP API
(`app.py`, plain functions, so requests run in a thread pool and overlap) and the
scheduled-scan worker (`worker_main.py`). Every store method opens a transaction
of its own; no operation spans two of them, no row has a version, and no run is
claimed before it is executed.

```
 POST /scheduler/*  --+                          +-- candidate table
 POST /scans/process -+- API --- store commits --+-- learning table
 POST /learning/*  ---+                          +-- observation table
                                                 +-- audit table <--+
 clock -> poll loop -> due() -> run_one -> executor (4 commits      |
             ^            |        |        per symbol)             |
             |            +--------+--- run events -----------------+
          back-off, stop, crash, restart
```

### Inventory

| Component | State | Operations | What is hard | What makes it correct |
|---|---|---|---|---|
| Scheduler service and due rule (`scheduler_service.py`, `scheduler.py`) | none; folds the audit table | `due`, `start`, `complete`, `record_non_success`, `fail`, `missed` | latest row of a scan decides; logical against real time | a run with an outcome is not due; runs of a day keep their order |
| One-shot worker (`worker.py`) | list in progress | `run_due`, `run_one` | list read once, used later; errors outside the `try` | an outcome is final; nothing but a fault repeats a run |
| Worker process (`worker_main.py`) | delay, stop event, heartbeat file | poll, sleep, stop, restart | back-off, stop in mid-list, crash between commits | due runs are settled, a stop ends |
| Run audit events (`scan_audit.py`) | audit rows | five events, timeliness class | starts after midnight | a late start is never reported on time |
| Audit store (`persistence.py`, `audit_persistence.py`) | audit table | `append`, `list` | a commit that raises may have happened | order of ids |
| Scan executor (`scan_executor.py`) | four tables | `execute` | four commits per symbol; retry after part of a plan | what is audited is persisted |
| Observation store (`observation_persistence.py`) | observation table, unique key | `create`, `list` | look-up and insert race | first observation stays |
| Candidate store (`persistence.py`) | a row per symbol | `upsert`, `get`, `list` | load and flush of overlapping sessions | a row is the image of one evaluation |
| Learning store and API (`persistence.py`, `app.py`) | learning table | `create`, four marks, outcome | read in one transaction, write in another | an outcome is never lost, replaced or mixed |
| Forward-test service (`forward_learning.py`) | as above | `evaluate_learning_record` | check and write apart | as above |
| Orchestrator, state machine (`orchestration.py`, `state_machine.py`, `lifecycle.py`) | ledger in memory | `process` | several moves in one call | no illegal move, a reason for every refusal |
| Scoring and risk gates (`scoring.py`, `risk.py`) | none | `execution_gate`, `evaluate_trade` | boundaries of budget, heat, loss; missing levels; NaN and infinite numbers in a request | a sizing is inside every limit |
| Discovery plan (`discovery.py`) | none | `requests` | one symbol in several spellings, blanks | each symbol once |
| Qualification, market data, providers (`qualification.py`, `market_data.py`, `providers/`) | none | `qualify`, `validate_snapshot`, `snapshot` | stale, future or malformed answers; time passes between fetches; which errors refuse and which fail the scan | fails closed |
| Market calendar, next run (`scheduler.py`) | none | holidays, `is_scan_day`, `next_run` | Easter, observed holidays, eight-day horizon | agrees with the exchange; announces the earliest run |
| Price-path evaluation (`forward_test.py`) | none | walk along a path | asked again as prices come in | a verdict stands |
| Sniper ranking (`sniper.py`) | none | gate, score, order, limit | ties at a full list | only a better newcomer displaces |
| Schema migration (`migrations.py`, `db.py`) | tables, version row | `migrate` | services boot together, die half-way, meet old databases | who is up has the schema; all come up |
| Readiness (`api.py`, `app.py`) | none | three reads | another service stamps the version meanwhile | no false alarm about the schema |
| Composition, health, summary, logging, models | none or read-only | | | |

## 2. The modules

| Module | Models | Kind |
|---|---|---|
| `RunLedger` | what the durable run state promises, without polls, processes or rows | abstract specification |
| `ScanWorker` | scheduler service, due rule, one-shot worker, worker process, run events, the POST endpoints of the scheduler API | component |
| `ScanPipeline` | extends `ScanWorker`: its one-step executor is replaced by the store calls of `scan_executor.py` on four tables | composition |
| `LearningRecords` | learning store, its endpoints and the forward-test service | component |
| `Floats` | a float as the gates tell it apart: a finite number, an infinity or NaN, with Python's comparisons, `min` and `max` | data |
| `CandidateLifecycle` | extends `Floats`: `process_scan`, orchestrator, state machine, gates, sizing, candidate store, audit rows of one evaluation | component |
| `Qualification` | discovery plan, provider boundary, snapshot validation, symbol by symbol as time passes | component |
| `Deployment` | the services' boots, the migration on both databases, readiness probes | component |
| `MarketCalendar`, `ForwardTest`, `SniperRanking` | pure algorithms, each with a small behaviour that asks it again and again | algorithms |
| `MC...` | constants, bounds and symmetry of the instances; `MCAlgorithms` puts the three algorithms in one run | for TLC |
| `ScanWorkerProofs`, `SoloWorkerProofs` (one worker), `ScanPipelineProofs`, `LearningRecordsProofs`, `CandidateLifecycleProofs`, `QualificationProofs`, `DeploymentProofs`, `AlgorithmProofs` (the three algorithms) | theorems, and the strengthenings they need | for TLAPS |

**`ScanWorker`.** `now` is market time, a day number and a tick; a tick is longer than
any sleep between polls, so a poll may come at every moment. `audit` is the sequence
of run events in id order, each with its `scheduled_at` (or none, for rows written
before it existed or posted without a zone) and a stamp: for a start the day of its
`started_at`, for an outcome the day of its own timestamp. `Due` is the fold of
`due()` in closed form. `Poll` reads clock and table once; `Start` takes the earliest
entry of the list; an execution completes, raises, or finds no plan (and then the
*executor* appends a row before the worker does); `Record` appends the outcome. Each
of these has a twin that raises: the row is there or not, the exception leaves
`run_due`, the rest of the list is dropped and the delay doubles. `run_one` catches
the executor's errors only, which is why `RecordRaises` is not followed by a failure
row. `RequestStop`, `Exit`, `Crash`, `Restart` and `Redeploy` are the process's life:
the supervisor restarts a worker that crashed by itself, an operator one that was told
to stop, whether it exited or was killed at the end of its grace period. `stop` is
looked at between polls only. `PostStart`, `PostComplete`, `PostFail` and `PostMissed`
are the API with a client's choice of day and, for a start, of `started_at`.

**`ScanPipeline`.** An evaluation is named by the attempt it was made in, since
prices move between attempts. Per symbol: candidate upsert, learning insert,
observation look-up and insert, audit row. After each the executor goes on, or the
commit raises with or without its effect and the scan fails as a whole, or the
process dies. `CANDIDATE_QUALIFIED` rows are kept apart from the run events, since
no run decision reads them.

**`LearningRecords`.** A request reads a record (`get`), changes its copy, loads the
row again in a new session (`load`), flushes (`flush`) and audits (`audit`), and may
be cut short before or after any of these. The flush writes the columns whose
assigned value differs from the loaded one, which is what the ORM emits. Columns
are four flags, the reasons and two of the nine outcome columns: the result, which
every outcome has, and the excursion, which a posted outcome may leave empty.
`contended` is a history variable: the records two requests were after at a time.
The properties that overlapping requests do break are stated for the others.

**`CandidateLifecycle`.** `Moves` is the sequence of states `process` asks for;
`LegalMoves` compares it with the transition table. A price is a count of ticks, an
infinity, NaN or none, and so is money, since requests are parsed without bounds on
their numbers (`app.py:25-44`); the float quotients of `scoring.py` and `risk.py`
become cross-multiplications (`Thin`), and `SizingRaises` says when `int()` gets a
quotient that is no number (`risk.py:63`). `Raises` ends an evaluation before its
upsert: its moves are in a ledger in memory until then (`app.py:216-226`). `Load`,
`Update`, `Insert`, `InsertRefused` are `upsert` as a session does it; `AppendRow`
appends the ledger one commit at a time. The worker's evaluation leaves one
`CANDIDATE_QUALIFIED` row instead of a ledger. `contended` has the same meaning as in
`LearningRecords`, for symbols.

**`Qualification`.** `Begin` reads the plan, which deduplicates its spellings, then the
clock, once; `Qualify` is one symbol's turn, at any later time, with any answer: a
snapshot (any symbol, stamp, quality of its numbers), unavailability, or an
error of the boundary's own. A number is represented by what validation can tell
apart: usable, none, not finite, or below its minimum. `taken` is history: the answer
used last, and when it came.

**`Deployment`.** `Boot` begins the migration's transaction. On PostgreSQL it takes the
advisory lock, and everything up to the commit is in `draft`; on SQLite there is no
lock, each `CREATE TABLE` commits at once, and only the exchange of the version row
is a transaction. `CheckFirst` and `CreateTable` are apart because SQLAlchemy looks up
which tables exist before it creates the first. `Fail` is a crash or a database error
at any place. A readiness probe is three actions, as it is three transactions.

**`MarketCalendar`, `ForwardTest`, `SniperRanking`.** Dates are ordinals. Each module has
variables for what the algorithm is asked about: a moment that moves through a
year, a price path that grows, a list of candidates that grows. The properties
compare answers along the way, or with a reference that is computed otherwise: the
exchange's rule read off a date, Easter by golden number and epact.

## 3. The runs

All runs use breadth-first search over every reachable state. Deadlock is checked
for `deployment_boot`; elsewhere a stopped worker, a clock at its bound, a finished
scan and requests that are all answered are legitimate ends.

| Run | Instance | Shows |
|---|---|---|
| `worker_single` | one worker, two enabled scans and a disabled one, a market day between two closed ones of 2 ticks, 2 faults; fairness | `TypeOK`, `NoRerun`, `CompletedIsFinal`, `RetriesNeedFaults`, `RunsAreDue`, `OvernightStartIsRecovery`, refinement of `RunLedger`, `DueIsSettled`, `StopEnds` |
| `worker_shared` | two workers, one market day, one posted event, 1 fault, at most 5 audit rows | `Chronological` survives sharing, though runs are duplicated |
| `worker_future` | one posted event, no fault | *violated:* `DueOncePerDay` |
| `pipeline_single` | one worker, two scans, two symbols, 1 fault | `CompletedIsPersisted`, `CandidateIsNewest`, `DuplicatesNeedFaults`, refinement of `ScanWorker` |
| `pipeline_shared` | two workers, one scan, one symbol, 1 fault | `QualifiedIsBacked`, `ObservationsImmutable` under a race for one key |
| `learning_requests` | four requests on one record, overlapping or not, each cut short anywhere | `TypeOK`, `OutcomeIsWhole`, `AnsweredIsRecorded`, `ResolvedOnce`, `AuditedIsResolved`, `OutcomeIsFinal`, `OutcomeNeverErased` |
| `candidate_callers` | one request and one worker scan, overlapping or not; 34 scans and 21 accounts of requests, 5 scans of the worker | `TypeOK`, `TradeReadyRowIsExecutable`, `RefusalHasReason`, `OnlyBadInputRaises`, `SizedWithinLimits`, `AuditIsPath` |
| `candidate_torn` | overlapping evaluations, seven scans | *violated:* `TradeReadyAlwaysExecutable` |
| `qualification_scan` | five plans over two symbols in three spellings and a blank, ten payloads, clock of 4 ticks, age limit 1, vendor's clock 1 ahead | `TypeOK`, `FailsClosed`, `EachOnce` |
| `qualification_late` | the same | *violated:* `VerifiedIsFresh` |
| `deployment_boot` | an app and two workers, both databases, seven databases found, 2 faults; fairness | `TypeOK`, `UpIsMigrated`, `ProbesAgree`, `EverybodyBoots` |
| `algorithms_pure` | 38 years by tick for every set of enabled scans; paths of 4 of 8 prices and 4 trades; 5 candidates of 7 kinds for 3 places | `CalendarIsExchange`, `NextRunIsEarliest`, `VerdictStands`, `NewcomersMustBeBetter` |

**Why the bounds are enough.** Two enabled scans are the least for an order and for a
list that is dropped half-way. Two faults let a commit fail (with or without its
effect) and the retry fail again. Runs of different days share nothing but the
latest-row rule, for which three days suffice: before, on, and after. `MissedAfter`
and `Grace` differ so that all three timeliness classes occur, and the last tick is
close enough to midnight for a start on the next day. `MaxBackoff` is three intervals,
so that the second doubling overshoots and meets the cap. The bound on audit rows in
`worker_shared` is needed because a posted future outcome makes a scan due at every
poll; five rows let both scans have an outcome and one be run again. Learning records
never interact, so one record is enough; of four requests one creates it, two meet,
and one reads afterwards. In `candidate_callers` the scans are a good one with every
score band, with and without trigger, and every level, price and flag changed to the
values next to its gate; the accounts put one share just inside and just outside the
budget, the heat and the daily loss. One number after the other is then NaN or
infinite, in the way that gets furthest through the gates. The worker has five scans
whose columns differ: what it can do to a request, it does to the stored row. In
`qualification_scan` a scan of two symbols is the least in which time passes between
two fetches; four ticks let a quote be in the future, fresh, at the limit and stale,
at the start and at the fetch. Three services are needed for a third to boot while one
migrates and one serves. The years of `algorithms_pure` are the first in which the
exchange has all ten holidays, a full 28-year cycle of week-days after them, and the
years around 2100, which has no leap day. A path of four prices has room for a touch
and for what follows it; five candidates fill three places and knock twice. What these
values leave out, the theorems cover where there is one.

**Fairness.** `ScanWorker!LiveSpec` assumes weak fairness of a live worker's progress
and of its restart after a crash, for each worker that nobody told to stop. The code
justifies both: the loop has no blocking call but `stop.wait`, which has a time-out,
and provider calls, which have time-outs (`providers/http.py`); `docker-compose.yml`
restarts the container unless it was stopped. Nothing is assumed of the clock, of
operators (`RequestStop`, `Redeploy`) or of API clients, so `DueIsSettled` is excused
when the day ends first or when every worker was told to stop and is down, be it by
its own exit or killed. `Deployment!LiveSpec` assumes weak fairness of a migration's
steps and strong fairness of each service's `Boot`: PostgreSQL grants an advisory lock
to the sessions that queue for it in turn, and `restart: unless-stopped` starts a
service that died. Faults are bounded, which stands for a database that does not fail
for ever. The databases found are those this code's releases leave behind; a version-2
database that lost a table is none of them, and `migrate`, which looks at tables below
version 2 only, would not notice.

## 4. Divergences

Three runs show the code doing something else than its own comments and documents
say. They are expected to be violated and recorded as findings.

* `worker_future`: `due()` keeps the latest logical run of a scan and compares its
  date with today's. An outcome dated later, which the API accepts, hides today's,
  and the scan runs at every poll ("due once per ET calendar day", `scheduler.py:146`).
* `candidate_torn`: two overlapping evaluations of a symbol leave a row in state
  TRADE_READY with levels or a data flag of the other (`docs/STATE_MACHINE.md:60`).
* `qualification_late`: quotes are aged against the time the scan began, so a quote
  may be older than the limit when it is fetched and used, the more so the later its
  symbol's turn comes (`docs/TRADING_CHARTER.md:79`). By the same clock a quote stamped after the
  scan began, that is a good one, is refused as TIMESTAMP_IN_FUTURE.

Others were met while modelling. The models follow the code, no property states the
documents' version, and no run checks them:

* A gate refuses when a comparison is true, and no comparison with NaN is. A NaN target,
  which Python's JSON parser reads and `ScanRequest` takes, passes `execution_gate` and
  `evaluate_trade` and becomes TRADE_READY (`scoring.py:72`, `risk.py:42`, `:57`;
  "Reward/risk < configured minimum", `docs/STATE_MACHINE.md:65`). In the same way a NaN
  last price is never chased, a NaN daily loss is never at its limit, a NaN dollar volume
  never too small, and a NaN score component puts its candidate into no band (it stays
  DISCOVERED). `TradeReadyRowIsExecutable` and `SizedWithinLimits` except the target, the
  last price and the daily loss by name; any other NaN or infinity is refused, raises, or
  is within the limit it is compared with. An infinite or NaN equity makes `risk.py:63`
  raise in the middle of an evaluation (`OnlyBadInputRaises`): the request fails and
  nothing of it is stored. The answer to a request with a NaN column fails when it is
  written as JSON, after its commits.
* These columns are those of PostgreSQL. SQLite keeps a NaN price as NULL and refuses a
  NaN score.
* On SQLite a run event without a zone in its `scheduled_at` falls back on a timestamp
  without a zone, and `scheduler_service.py:57` raises a TypeError when it compares the
  two kinds; `LastRunIsOn` is the fold as PostgreSQL lets it run.
* A NaN component of the sniper score counts as 100: `min(100.0, nan)` is 100
  (`sniper.py:70`).
* Two overlapping evaluations of one learning record mix in its outcome columns, the
  later may replace the outcome of the earlier, and of two overlapping `missed` marks
  one reason is lost although both were answered (`persistence.py:146-163`; "immutable
  from this service", `forward_learning.py:28`). `contended` marks these records.
* Two workers on one database duplicate a run even after its outcome is recorded;
  `worker.py:29` calls this safe. `NoRerun` is stated for one worker.
* A scan without a plan leaves two `SCAN_NO_PLAN` rows, the executor's and the
  worker's; `tests/test_worker.py:116`, whose executor appends none, expects one.
* A scan whose day ends without an outcome is never due again and nothing records
  `SCAN_MISSED` (`docs/ARCHITECTURE.md:55`).
* A retry's evaluation goes to the candidate, learning and audit tables while the
  observation of the first attempt stays (`observation_persistence.py:28`: "an exact
  retry"); it also adds a second learning record (`DuplicatesNeedFaults` says when).
* `upsert` writes the state without asking the state machine, so a terminal candidate
  comes back (`docs/STATE_MACHINE.md:33`).
* The worker stores neither the moves nor the size and planned risk of a TRADE_READY
  candidate (`docs/RISK_POLICY.md:36`); they stay in its orchestrator's ledger, which
  grows for the life of the process.
* A triggered candidate scored in the armed band but below A+ always ends INVALIDATED.
* The worker's heat and daily loss are left at zero (`composition.py:70`), so those
  limits never bind on its path.
* `HttpSnapshotProvider` is handed over where a function is called
  (`providers/factory.py:42`, `providers/base.py:25`); its method is `snapshot`. With
  `MARKET_DATA_PROVIDER=http` no symbol is ever verified, although the provider
  counts as configured.
* Not every provider failure is a refusal (`qualification.py:29`): an error of the
  boundary's own class raised by the fetcher, and an `adv_shares` that is not finite,
  which `ScanInput.from_snapshot` turns into an int, leave `execute` and fail the whole
  scan (`QualifyRaises`).
* The app's runtime has no plan provider, so `/ready` answers 503 in the composed
  deployment; `docs/NAS_DEPLOYMENT_RUNBOOK.md:21` and `:36` ask to verify it.
* The heartbeat thread goes on while the poll loop hangs, so the container stays
  healthy (`worker_main.py:60`).
* A close below the stop is reported as a loss of exactly 1 R, and the excursions
  include prices seen after the exit (`forward_test.py:42-52`).
* `delete_candidate` calls `store.delete`, which the store does not have (`app.py:195`).
* The midday scan is at 15:00 in `scheduler.py` and at 12:30 in `docs/ARCHITECTURE.md:53`.

## 5. The theorems

Every invariant and action property that a passing run checks is also a theorem, for
all values of the constants unless the table says otherwise, and so are the two
refinements. Liveness is model-checked only.

| Theorem | For | Argument |
|---|---|---|
| `ScanWorkerProofs!TypeCorrect` | all constants | `TypeOK` is inductive; one lemma per group of actions |
| `ScanWorkerProofs!ChronologicalHolds` | any workers, faults, posts | `OrderInv` |
| `ScanWorkerProofs!RunsAreDueHolds` | the same | `DueInv` |
| `ScanWorkerProofs!OvernightStartIsRecoveryHolds` | the same, a client's `started_at` included | `StartRowsInv`, arithmetic of the two thresholds |
| `SoloWorkerProofs!NoRerunHolds` | one worker, no posts | `SoloInv` |
| `SoloWorkerProofs!CompletedIsFinalHolds` | one worker, no posts | `FinalInv` over `SoloInv` |
| `SoloWorkerProofs!RetriesNeedFaultsHolds` | one worker, no posts | `RetryInv`, counting |
| `SoloWorkerProofs!ImplementsLedgerHolds` | one worker, no posts | `OrderInv`, `SoloInv`, step simulation |
| `ScanPipelineProofs!ImplementsWorkerHolds` | any workers, faults | step simulation |
| `ScanPipelineProofs!PipelineKeepsOrder`, `PipelineImplementsLedger` | any workers; one worker | the worker's theorems through the refinement |
| `ScanPipelineProofs!ObservationsImmutableHolds` | any workers, faults | every action, no invariant needed |
| `ScanPipelineProofs!QualifiedIsBackedHolds`, `CompletedIsPersistedHolds` | the same | `StoresInv` |
| `ScanPipelineProofs!CandidateIsNewestHolds` | one worker, no posts | `NumberInv`, `NewestInv` |
| `ScanPipelineProofs!DuplicatesNeedFaultsHolds` | one worker, no posts | `LearnedOnceInv`, `RetryInv`, counting |
| `LearningRecordsProofs!TypeCorrect`, `OutcomeNeverErasedHolds` | any requests, overlapping or not | `TypeOK`; a copy without outcome leaves the columns alone |
| `LearningRecordsProofs!OutcomeIsFinalHolds` | any requests, records not contended | `SerialInv` |
| `LearningRecordsProofs!OutcomeIsWholeHolds` | the same | `CopyInv` over `SerialInv` |
| `LearningRecordsProofs!AnsweredIsRecordedHolds` | the same | `WriteInv` (`CopyInv`, `RecordedInv`, `FreshInv`) over `SerialInv` |
| `LearningRecordsProofs!ResolvedOnceHolds`, `AuditedIsResolvedHolds` | any requests; the second contended or not | `AuditInv` |
| `CandidateLifecycleProofs!TypeCorrect` | any symbols, callers, policy | `TypeOK` is inductive |
| `CandidateLifecycleProofs!OnlyBadInputRaisesHolds` | every policy with ordered bands, scan and account, NaN and infinities included | case analysis of `Moves`; a budget from a finite equity is finite |
| `CandidateLifecycleProofs!SizedWithinLimitsHolds` | the same, callers overlapping or not | `LedgerInv` |
| `CandidateLifecycleProofs!TradeReadyRowIsExecutableHolds`, `RefusalHasReasonHolds` | the same, symbols not contended | `SerialInv`: the row is what one evaluation wrote |
| `CandidateLifecycleProofs!AuditIsPathHolds` | the same, contended or not | `PlacesInv` |
| `QualificationProofs!TypeCorrect`, `FailsClosedHolds` | any plan, vendor, age limit, clock | `TrustInv` |
| `QualificationProofs!EachOnceHolds` | plans of any length | `EachOnceInv`, induction over the plan |
| `DeploymentProofs!TypeCorrect` | any services, both databases | `TypeOK` is inductive |
| `DeploymentProofs!UpIsMigratedHolds`, `ProbesAgreeHolds` | the same, any faults, every database found | `MigrationInv` |
| `AlgorithmProofs!EasterIsPaschal` | every year | arithmetic modulo 7, 19 and 30 |
| `AlgorithmProofs!CalendarIsExchangeHolds` | every year | day by day, `EasterIsPaschal` |
| `AlgorithmProofs!NextRunIsEarliestHolds` | every year, schedule and moment | `OpenSoon` |
| `AlgorithmProofs!VerdictStandsHolds` | any trades, paths of any length | induction from the end of the path |
| `AlgorithmProofs!NewcomersMustBeBetterHolds` | any candidates, floor and limit | counting of places |

*Why the invariants need strengthening.* The strengthenings stand beside the proofs that
use them; each was checked by TLC on the instance of its run before it was proved.

`Chronological` speaks of the scan that runs; whether the next one may run depends on
the list that was read earlier. `OrderInv` says it of the whole list: whatever should
come before an entry is itself in the list, running, or settled. It is preserved because
outcomes are only ever added (`SettledMonotone`), by whichever process, and this is why
it holds for any number of workers. `DueInv` carries what `due()` found, an enabled scan
of a market day whose time had come, along the list to the start, however late that is;
`StartRowsInv` says that a start row's class was computed from its scheduled time at
some moment of the day it is stamped with.

`NoRerun` needs more: nothing in the audit is dated after today (else the latest-row
rule hides today's outcome), and no entry of the list is settled, which only a single
worker can rely on. Hence the assumption `Solo`, one worker and `MaxPosts = 0`.
`FinalInv` adds that a run in progress has no completion yet. `RetryInv` is a balance:
the starts, and the runs that were given up without an outcome and will be started
again, are together no more than the runs attempted and the faults.

In the pipeline `StoresInv` ties each place of the executor to the tables: before a step
the writes of the earlier steps are there, for the symbol in hand and for those done.
`NumberInv` says that the attempt in progress is the latest start, which only one worker
can rely on. `NewestInv` adds that no row is of a later one and that the symbol about to
be learnt of has its candidate row; `LearnedOnceInv`, that no evaluation is learnt of
twice, so that learning rows are no more than starts, which `RetryInv` bounds.

`SerialInv` (of either module) says that what a caller read is still in the table when
it writes, unless its record or symbol is contended; what was checked when it was
computed then holds of the stored row. Over it, `CopyInv` says what a request carries
from its read to its write (its own change, on top of what was there), `RecordedInv`
that what was written is there when it is audited and answered, `FreshInv` that an
outcome comes from one write, and `AuditInv` that a request that resolves a record finds
no outcome of it told yet. `LedgerInv` says that every row still to be appended belongs
to the evaluation its caller holds, so the limits that were checked are the limits of
the row. The bound itself is integer arithmetic: shares times distance is at most the
budget, which is the smaller of trade risk and the heat that is left. `PlacesInv` says
that the rows a caller appended and those it has yet to append make up its ledger, one
row for each place, so that the walk has no gap wherever it is cut short.

`MigrationInv` says what a migration may rely on between two of its statements: tables
it has read about are still there, the missing ones are on its list, and a version row
never promises tables the database lacks. It needs that tables are only ever added, and
on PostgreSQL that nobody else writes (`OneAtATime`). `TrustInv` adds that the scan
began no later than now, so a stamp that is not after the start is not after the fetch;
`TypeOK` of `Qualification` needs it too. `EachOnceInv` says that what has been
evaluated is a beginning of the plan's symbols, without repetition.

*The algorithms.* Induction over a plan or a path is by the least counterexample: a set
of positions that is closed under the next one is all of them (`Induction`), since `<`
on the naturals is well-founded. The two recursive functions are first shown to exist
(`TurnsExist` and its like), because a recursive function is a choice. Easter: both
formulas put the full moon on the same day except that the epact moves it back by one in
two cases of its age, and these are the cases in which the anonymous formula's last term
takes a week off. `OpenSoon`: any seven days have a Tuesday and a Wednesday, less than
seven days apart; only holidays of a fixed date close those, and these are at least
seven apart, over the turn of a year too. Ranking: the order is strict and total, so
that the number of candidates before one gives every place from the first to the last
exactly once, and a newcomer moves those it beats down by one.

*Refinement.* `ImplementsLedger` maps the audit table to the sets of attempted and
settled runs and the worker's position to the run in progress. A start maps to `Begin`,
an outcome to `Settle`, a failure or crash to `Abandon` or a stutter, and a failed
commit that took effect to `Begin` or `Settle` followed at once by the end.
`ImplementsWorker` needs no mapping: the pipeline keeps the worker's variables, the
stores' commits are stutters, and their failures and ends are the outcomes of the
one-step executor. By it the worker's theorems hold of the pipeline.

*Assumptions.* Those named in the modules: enabled scans have distinct times (checked
by `validate_production_schedule`), Grace is not above MissedAfter, score bands are in
order, policy numbers are positive, market time is a natural day and a tick, years are
natural numbers, a missing value is none of the values it stands beside, NaN and the
infinities are three values beside the integers, and the worker's data is verified
only with a last price that is a number (`market_data.py:56-82`). TLC evaluates each
of them on the instances.

*Only model-checked.* Liveness: `DueIsSettled`, `StopEnds` and `EverybodyBoots`, since
the prover has no fairness or ENABLED. The theorems for one worker are not stated for
several, which duplicate runs (section 4). No module of the project declares a RECURSIVE
operator.

## 6. Not modelled

Rounding and overflow of finite floats (a finite price or amount is an integer; the
composite and the sniper score are inputs, and so is what the liquidity gate says), NaN
and infinite prices in a forward test, the error that a sniper component out of range
raises, HTTP requests and decoding, configuration parsing (I/O), logging,
read-only endpoints, the order of validation errors, the wiring of the composition
root beyond the migration, and the database itself, which appears as atomic commits
that may raise before or after taking effect. The heartbeat thread shares nothing
with the poll loop but the stop event and writes one file; the learning summary is a
sum. Readiness reports two flags beside the schema (market data, plan), which are
constants of a runtime and left out. The components listed as `not_modelled` or
`partly` in `PROJECT.json` carry their reason there.

## 7. Plan

Modelled: the run state, the commits of a scan, the learning records, the candidate
row, market data and its validation, boot and migration, and the pure algorithms; all
their safety properties are proved. What is left:

1. `Heartbeat`: the thread beside the poll loop and the health check's view of it, if the
   health check is ever to notice a hung poll.
2. The weighted sums of `scoring.py` and `sniper.py` over hundredths, with their rounding.
3. `RunLedger` as a specification for several workers, with a duplicated run as a step of
   its own, so that `worker_shared` has a refinement too.
