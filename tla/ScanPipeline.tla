---------------------------- MODULE ScanPipeline ----------------------------
(***************************************************************************)
(* The worker of ScanWorker with the executor of scan_executor.py in place   *)
(* of its one-step stand-in: each requested symbol is qualified and then     *)
(* written to four tables, one commit each, with no transaction around them. *)
(* A worker may die, or an error may be raised, between any two commits; the *)
(* executor's part of the work is then repeated or given up.                *)
(*                                                                         *)
(* An evaluation of a symbol is identified by the attempt it was made in:    *)
(* prices move, so two attempts on one run evaluate differently.            *)
(***************************************************************************)
EXTENDS ScanWorker

CONSTANTS
    Symbols,        \* the symbols a plan may request
    NoRow           \* no row in a table, no symbol in process

ASSUME RowAssumption == NoRow \notin Nat /\ NoRow \notin Symbols

VARIABLES
    attempt,        \* the attempt each worker is on, numbered in order of starts
    step,           \* the executor's next store call
    left,           \* the requests not yet done
    asked,          \* the whole plan of the attempt
    item,           \* the symbol being processed
    candidates,     \* candidate table: symbol -> evaluation
    learning,       \* learning table: rows in id order
    observations,   \* observation table: (scan, day, symbol) -> evaluation
    qualified       \* CANDIDATE_QUALIFIED rows of the audit table

locals == <<attempt, step, left, asked, item>>
stores == <<candidates, learning, observations, qualified>>
pipelineVars == <<vars, locals, stores>>

Steps == {"idle", "plan", "upsert", "learn", "lookup", "insert", "audit", "return"}
Key(w) == <<run[w], day[w], item[w]>>

PipelineInit ==
    /\ Init
    /\ attempt = [w \in Workers |-> 0]
    /\ step = [w \in Workers |-> "idle"]
    /\ left = [w \in Workers |-> {}]
    /\ asked = [w \in Workers |-> {}]
    /\ item = [w \in Workers |-> NoRow]
    /\ candidates = [s \in Symbols |-> NoRow]
    /\ learning = <<>>
    /\ observations = [k \in Scans \X Days \X Symbols |-> NoRow]
    /\ qualified = <<>>

-----------------------------------------------------------------------------
(* Entering and leaving the executor                                       *)

Goto(w, s) == step' = [step EXCEPT ![w] = s]

\* The steps of the worker outside the executor leave the tables alone.
BeginScan(w) ==
    /\ Start(w) /\ Goto(w, "plan")
    /\ attempt' = [attempt EXCEPT ![w] = Cardinality(StartIds) + 1]
    /\ UNCHANGED <<left, asked, item, stores>>

LeaveWith(w) ==
    /\ Goto(w, "idle")
    /\ left' = [left EXCEPT ![w] = {}]
    /\ asked' = [asked EXCEPT ![w] = IF result'[w] = "COMPLETED" THEN @ ELSE {}]
    /\ item' = [item EXCEPT ![w] = NoRow]
    /\ UNCHANGED attempt

Die(w) == Crash(w) /\ LeaveWith(w) /\ UNCHANGED stores

Around(w) ==
    /\ \/ Poll(w) \/ PollRaises(w) \/ StartRaises(w) \/ Record(w) \/ RecordRaises(w)
       \/ Wake(w) \/ Exit(w) \/ RequestStop(w) \/ Restart(w) \/ Redeploy(w)
    /\ UNCHANGED <<locals, stores>>

-----------------------------------------------------------------------------
(* execute                                                                 *)

At(w, s) == pc[w] = "execute" /\ step[w] = s

\* The plan provider answers; an empty answer ends the scan as NO_PLAN.
GetPlan(w) ==
    /\ At(w, "plan") /\ Goto(w, "upsert")
    /\ \E requests \in SUBSET Symbols \ {{}} :
        /\ left' = [left EXCEPT ![w] = requests]
        /\ asked' = [asked EXCEPT ![w] = requests]
    /\ UNCHANGED <<vars, attempt, item, stores>>

\* (mutant: a scan without a plan goes unrecorded and is dropped)
GetEmptyPlan_Unrecorded(w) ==
    /\ At(w, "plan")
    /\ Return(w, "NO_PLAN") /\ UNCHANGED <<audit, faults>>
    /\ LeaveWith(w) /\ UNCHANGED stores

GetEmptyPlan(w) ==
    /\ At(w, "plan")
    /\ ExecuteFindsNoPlan(w) \/ NoPlanRaises(w)
    /\ LeaveWith(w) /\ UNCHANGED stores

\* Plan provider, snapshot provider or qualification raises: nothing is stored.
QualifyRaises(w) ==
    /\ step[w] \in {"plan", "upsert"}
    /\ ExecuteRaises(w) /\ LeaveWith(w) /\ UNCHANGED stores

\* (mutant: the executor reports an error as a finished scan)
CommitRaises_Swallowed(w) == ExecuteCompletes(w) /\ LeaveWith(w)

\* One store call: it commits and the executor goes on, or the commit raises,
\* with or without its effect, and the whole scan fails.
Commits(w, next) == Goto(w, next) /\ UNCHANGED <<vars, attempt, asked>>
CommitRaises(w) == ExecuteRaises(w) /\ LeaveWith(w)

\* (mutant: only missing rows are inserted)
WriteCandidate_IfMissing(s, eval) ==
    candidates' = [candidates EXCEPT ![s] = IF @ = NoRow THEN eval ELSE @]

WriteCandidate(s, eval) == candidates' = [candidates EXCEPT ![s] = eval]

Upsert(w) ==
    /\ At(w, "upsert")
    /\ \E s \in left[w] :
        \/ /\ WriteCandidate(s, attempt[w])
           /\ item' = [item EXCEPT ![w] = s]
           /\ Commits(w, "learn") /\ UNCHANGED left
        \/ (WriteCandidate(s, attempt[w]) \/ UNCHANGED candidates) /\ CommitRaises(w)
    /\ UNCHANGED <<learning, observations, qualified>>

\* (mutant: no learning record is written)
Learn_Skipped(w) ==
    /\ At(w, "learn")
    /\ Commits(w, "lookup")
    /\ UNCHANGED <<left, item, stores>>

Learn(w) ==
    /\ At(w, "learn")
    /\ LET row == [symbol |-> item[w], eval |-> attempt[w]] IN
        \/ learning' = Append(learning, row) /\ Commits(w, "lookup") /\ UNCHANGED <<left, item>>
        \/ learning' \in {learning, Append(learning, row)} /\ CommitRaises(w)
    /\ UNCHANGED <<candidates, observations, qualified>>

\* (mutant: the observation store is not called)
LookupObservation_Never(w) ==
    At(w, "lookup") /\ Commits(w, "audit") /\ UNCHANGED <<left, item, stores>>

\* PersistentScanObservationStore.create looks for the key first ...
LookupObservation(w) ==
    /\ At(w, "lookup")
    /\ IF observations[Key(w)] # NoRow THEN Commits(w, "audit") ELSE Commits(w, "insert")
    /\ UNCHANGED <<left, item, stores>>

\* (mutant: the insert is an upsert)
WriteObservation_Replaces(k, eval) == observations' = [observations EXCEPT ![k] = eval]

\* ... and meets the unique constraint if another worker was faster: the insert
\* is rolled back and the existing row taken.
WriteObservation(k, eval) ==
    observations' = IF observations[k] = NoRow
                    THEN [observations EXCEPT ![k] = eval] ELSE observations

InsertObservation(w) ==
    /\ At(w, "insert")
    /\ \/ WriteObservation(Key(w), attempt[w]) /\ Commits(w, "audit") /\ UNCHANGED <<left, item>>
       \/ (WriteObservation(Key(w), attempt[w]) \/ UNCHANGED observations) /\ CommitRaises(w)
    /\ UNCHANGED <<candidates, learning, qualified>>

\* (mutant: a plan may ask for a symbol again that was done)
AuditQualified_AskedTwice(w) ==
    /\ At(w, "audit")
    /\ qualified' = Append(qualified, [scan |-> run[w], symbol |-> item[w], eval |-> attempt[w]])
    /\ left' \in {left, [left EXCEPT ![w] = @ \ {item[w]}]}
    /\ item' = [item EXCEPT ![w] = NoRow]
    /\ IF left'[w] = {} THEN Commits(w, "return") ELSE Commits(w, "upsert")
    /\ UNCHANGED <<candidates, learning, observations>>

\* The audit row names the scan but not its day: the event drops scheduled_at.
AuditQualified(w) ==
    /\ At(w, "audit")
    /\ LET row == [scan |-> run[w], symbol |-> item[w], eval |-> attempt[w]] IN
        \/ /\ qualified' = Append(qualified, row)
           /\ left' = [left EXCEPT ![w] = @ \ {item[w]}]
           /\ item' = [item EXCEPT ![w] = NoRow]
           /\ IF left[w] = {item[w]} THEN Commits(w, "return") ELSE Commits(w, "upsert")
        \/ qualified' \in {qualified, Append(qualified, row)} /\ CommitRaises(w)
    /\ UNCHANGED <<candidates, learning, observations>>

ReturnCompleted(w) ==
    At(w, "return") /\ ExecuteCompletes(w) /\ LeaveWith(w) /\ UNCHANGED stores

Execute(w) ==
    \/ GetPlan(w) \/ GetEmptyPlan(w) \/ QualifyRaises(w) \/ Upsert(w) \/ Learn(w)
    \/ LookupObservation(w) \/ InsertObservation(w) \/ AuditQualified(w) \/ ReturnCompleted(w)

PipelineNext ==
    \/ Tick /\ UNCHANGED <<locals, stores>>
    \/ \E w \in Workers : BeginScan(w) \/ Execute(w) \/ Die(w) \/ Around(w)

PipelineSpec == PipelineInit /\ [][PipelineNext]_pipelineVars

-----------------------------------------------------------------------------
(* Properties                                                              *)

\* The pipeline is a worker: whatever its tables go through, it adds to the run
\* events exactly what ScanWorker allows (scan_executor.py:78-143).
ImplementsWorker == Spec

\* An observation, once written, is never replaced: not by a retry after a crash
\* and not by a second worker past its look-up (observation_persistence.py:27-83).
ObservationsImmutable ==
    [][\A k \in DOMAIN observations :
        observations[k] # NoRow => observations'[k] = observations[k]]_pipelineVars

Learned(s, eval) == \E i \in DOMAIN learning : learning[i] = [symbol |-> s, eval |-> eval]

\* A CANDIDATE_QUALIFIED row is only there when the other three tables have the
\* symbol: the audit never claims more than was persisted.
QualifiedIsBacked ==
    \A i \in DOMAIN qualified : LET q == qualified[i] IN
        /\ Learned(q.symbol, q.eval)
        /\ candidates[q.symbol] # NoRow
        /\ \E d \in Days : observations[<<q.scan, d, q.symbol>>] # NoRow

\* An execution that reports COMPLETED has persisted its whole plan, in the
\* attempt that completes and not only in an earlier one.
CompletedIsPersisted ==
    \A w \in Workers, s \in Symbols :
        pc[w] = "record" /\ result[w] = "COMPLETED" /\ s \in asked[w] =>
            /\ observations[<<run[w], day[w], s>>] # NoRow
            /\ Learned(s, attempt[w])
            /\ \E i \in DOMAIN qualified :
                qualified[i] = [scan |-> run[w], symbol |-> s, eval |-> attempt[w]]

\* The learning table has no key: each attempt adds a row.  With one worker the
\* extra rows of a symbol number no more than the things that went wrong, so a
\* forward-test statistic counts a trade twice only after a failure
\* (scan_executor.py:100-109).
DuplicatesNeedFaults ==
    \A s \in Symbols :
        Cardinality({i \in DOMAIN learning : learning[i].symbol = s})
            <= Cardinality(AttemptedRuns) + faults

\* With one worker the candidate table never falls behind the learning table:
\* an evaluation is not overwritten by an older one.
CandidateIsNewest ==
    \A i \in DOMAIN learning :
        /\ candidates[learning[i].symbol] # NoRow
        /\ learning[i].eval <= candidates[learning[i].symbol]

=============================================================================
