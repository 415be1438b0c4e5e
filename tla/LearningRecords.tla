--------------------------- MODULE LearningRecords ---------------------------
(***************************************************************************)
(* The learning records behind the HTTP API (app.py:301-416): a request      *)
(* reads a record, changes the copy, writes the copy back in a transaction   *)
(* of its own and appends an audit row in another.  The endpoints are plain  *)
(* functions, so requests run in a thread pool and overlap.                 *)
(*                                                                         *)
(* The write is an ORM flush: PersistentLearningStore.update loads the row   *)
(* again, assigns every column from the copy, and the UPDATE it emits sets   *)
(* the columns whose assigned value differs from the loaded one.            *)
(***************************************************************************)
EXTENDS Sequences, Naturals

CONSTANTS
    Records,     \* ids of learning records
    Requests,    \* requests that may arrive
    None         \* NULL, and no record

Marks == {"triggered", "trade_ready", "traded", "missed"}
Kinds == {"discovery", "forward_test", "outcome"} \union Marks

\* Columns: the four flags (the set of those that are true), the reasons (who
\* added one), and two of the outcome columns: the result, which every outcome
\* has, and the excursion, which a posted outcome may leave NULL.
Rows == [flags : SUBSET Marks, reasons : SUBSET Requests,
         result : Requests \union {None}, excursion : Requests \union {None}]

ASSUME RecordAssumption ==
    /\ None \notin Requests /\ None \notin Records /\ None \notin Rows

VARIABLES
    rows,      \* learning table; None where no record was created
    audit,     \* LEARNING_ rows of the audit table
    pc,        \* the request's next step
    kind,      \* its endpoint
    target,    \* its record
    copy,      \* the record it read and changed
    loaded,    \* the row its flush compares with
    answer,    \* the response it got
    contended  \* history: records that two requests were after at a time

vars == <<rows, audit, pc, kind, target, copy, loaded, answer, contended>>

PcStates == {"idle", "create", "get", "load", "flush", "audit", "done"}
Answers == {"none", "ok", "open", "not_found", "conflict", "invalid", "failed"}
InFlight(q) == pc[q] \notin {"idle", "done"}

NewRow == [flags |-> {}, reasons |-> {}, result |-> None, excursion |-> None]

Init ==
    /\ rows = [r \in Records |-> None]
    /\ audit = <<>>
    /\ pc = [q \in Requests |-> "idle"]
    /\ kind = [q \in Requests |-> "discovery"]
    /\ target = [q \in Requests |-> None]
    /\ copy = [q \in Requests |-> NewRow]
    /\ loaded = [q \in Requests |-> NewRow]
    /\ answer = [q \in Requests |-> "none"]
    /\ contended = {}

-----------------------------------------------------------------------------

Reply(q, a) == pc' = [pc EXCEPT ![q] = "done"] /\ answer' = [answer EXCEPT ![q] = a]
Goto(q, s) == pc' = [pc EXCEPT ![q] = s] /\ UNCHANGED answer

OthersAfter(r) == \E p \in Requests : InFlight(p) /\ target[p] = r

Arrive(q) ==
    /\ pc[q] = "idle"
    /\ \E k \in Kinds, r \in Records :
        /\ kind' = [kind EXCEPT ![q] = k]
        /\ target' = [target EXCEPT ![q] = r]
        /\ contended' = IF OthersAfter(r) THEN contended \union {r} ELSE contended
        /\ Goto(q, IF k = "discovery" THEN "create" ELSE "get")
    /\ UNCHANGED <<rows, audit, copy, loaded>>

\* learning_store.create: the database hands out a fresh id.
Create(q) ==
    /\ pc[q] = "create" /\ rows[target[q]] = None
    /\ rows' = [rows EXCEPT ![target[q]] = NewRow]
    /\ Goto(q, "audit")
    /\ UNCHANGED <<audit, kind, target, copy, loaded, contended>>

\* (mutant: the reasons are replaced where the endpoint appends one)
Mark_ReplacesReasons(row, q) ==
    [row EXCEPT !.flags = @ \union {kind[q]},
                !.reasons = IF kind[q] = "missed" THEN {q} ELSE @]

\* The copy after the endpoint's change.
Mark(row, q) ==
    [row EXCEPT !.flags = @ \union {kind[q]},
                !.reasons = IF kind[q] = "missed" THEN @ \union {q} ELSE @]

\* (mutant: the endpoint does not look whether the record exists)
GetNothing_Unchecked(q) ==
    /\ pc[q] = "get" /\ rows[target[q]] = None
    /\ Goto(q, "load")
    /\ UNCHANGED <<rows, audit, kind, target, copy, loaded, contended>>

GetNothing(q) ==
    /\ pc[q] = "get" /\ rows[target[q]] = None
    /\ Reply(q, "not_found")
    /\ UNCHANGED <<rows, audit, kind, target, copy, loaded, contended>>

GetAndMark(q) ==
    /\ pc[q] = "get" /\ kind[q] \in Marks
    /\ rows[target[q]] # None
    /\ copy' = [copy EXCEPT ![q] = Mark(rows[target[q]], q)]
    /\ Goto(q, "load")
    /\ UNCHANGED <<rows, audit, kind, target, loaded, contended>>

\* Both outcome endpoints refuse a record that has an outcome.
HasOutcome(row) == row.result # None

RefuseOutcome(q) ==
    /\ pc[q] = "get" /\ kind[q] \in {"forward_test", "outcome"}
    /\ rows[target[q]] # None /\ HasOutcome(rows[target[q]])
    /\ Reply(q, IF kind[q] = "outcome" THEN "conflict" ELSE "invalid")
    /\ UNCHANGED <<rows, audit, kind, target, copy, loaded, contended>>

\* (mutant: the endpoint does not look whether there is an outcome)
MayResolve_Always(row) == TRUE

MayResolve(row) == ~ HasOutcome(row)

\* A posted outcome may come without an excursion; a forward test never does.
GetAndResolve(q) ==
    /\ pc[q] = "get" /\ kind[q] \in {"forward_test", "outcome"}
    /\ rows[target[q]] # None /\ MayResolve(rows[target[q]])
    /\ \E e \in {q, None} :
        /\ kind[q] = "forward_test" => e = q
        /\ copy' = [copy EXCEPT ![q] = [rows[target[q]] EXCEPT !.result = q, !.excursion = e]]
    /\ Goto(q, "load")
    /\ UNCHANGED <<rows, audit, kind, target, loaded, contended>>

\* The price path of a forward test is malformed, or reaches neither stop nor target.
PathUnresolved(q) ==
    /\ pc[q] = "get" /\ kind[q] = "forward_test"
    /\ rows[target[q]] # None /\ ~ HasOutcome(rows[target[q]])
    /\ Reply(q, "invalid") \/ Reply(q, "open")
    /\ UNCHANGED <<rows, audit, kind, target, copy, loaded, contended>>

\* update(): session.get ...
Load(q) ==
    /\ pc[q] = "load"
    /\ loaded' = [loaded EXCEPT ![q] = rows[target[q]]]
    /\ Goto(q, "flush")
    /\ UNCHANGED <<rows, audit, kind, target, copy, contended>>

\* An UPDATE sets column c when the assigned value is not the loaded one.
Assigned(row, old, new, c) == IF new[c] # old[c] THEN new[c] ELSE row[c]

AssignedFlags(row, old, new) ==
    {m \in Marks : IF m \in new.flags <=> m \in old.flags
                   THEN m \in row.flags ELSE m \in new.flags}

\* (mutant: the outcome columns are assigned even when the copy has no outcome)
Written_Blindly(row, old, new) ==
    [flags |-> AssignedFlags(row, old, new),
     reasons |-> Assigned(row, old, new, "reasons"),
     result |-> Assigned(row, old, new, "result"),
     excursion |-> Assigned(row, old, new, "excursion")]

\* (mutant: one of the nine outcome assignments is forgotten)
Written_ForgetsResult(row, old, new) ==
    [flags |-> AssignedFlags(row, old, new),
     reasons |-> Assigned(row, old, new, "reasons"),
     result |-> row.result,
     excursion |-> IF HasOutcome(new) THEN Assigned(row, old, new, "excursion")
                   ELSE row.excursion]

\* ... and the row after the UPDATE.  A copy without an outcome leaves the
\* outcome columns alone.
Written(row, old, new) ==
    [flags |-> AssignedFlags(row, old, new),
     reasons |-> Assigned(row, old, new, "reasons"),
     result |-> IF HasOutcome(new) THEN Assigned(row, old, new, "result") ELSE row.result,
     excursion |-> IF HasOutcome(new) THEN Assigned(row, old, new, "excursion")
                   ELSE row.excursion]

Flush(q) ==
    /\ pc[q] = "flush"
    /\ rows' = [rows EXCEPT ![target[q]] = Written(@, loaded[q], copy[q])]
    /\ Goto(q, "audit")
    /\ UNCHANGED <<audit, kind, target, copy, loaded, contended>>

AppendAudit(q) ==
    /\ pc[q] = "audit"
    /\ audit' = Append(audit, [kind |-> kind[q], record |-> target[q], by |-> q])
    /\ Reply(q, "ok")
    /\ UNCHANGED <<rows, kind, target, copy, loaded, contended>>

\* A database error or the death of the process, before or after any commit.
Abort(q) ==
    /\ InFlight(q) /\ Reply(q, "failed")
    /\ UNCHANGED <<rows, audit, kind, target, copy, loaded, contended>>

Next == \E q \in Requests :
    \/ Arrive(q) \/ Create(q) \/ GetNothing(q) \/ GetAndMark(q) \/ RefuseOutcome(q)
    \/ GetAndResolve(q) \/ PathUnresolved(q) \/ Load(q) \/ Flush(q) \/ AppendAudit(q)
    \/ Abort(q)

Spec == Init /\ [][Next]_vars

-----------------------------------------------------------------------------
(* Properties                                                              *)

TypeOK ==
    /\ rows \in [Records -> Rows \union {None}]
    /\ audit \in Seq([kind : Kinds, record : Records, by : Requests])
    /\ pc \in [Requests -> PcStates]
    /\ kind \in [Requests -> Kinds]
    /\ target \in [Requests -> Records \union {None}]
    /\ \A q \in Requests : pc[q] # "idle" => target[q] \in Records
    /\ \A q \in Requests : pc[q] \in {"load", "flush", "audit"} => rows[target[q]] # None
    /\ copy \in [Requests -> Rows]
    /\ loaded \in [Requests -> Rows]
    /\ answer \in [Requests -> Answers]
    /\ contended \subseteq Records

\* However requests overlap and fail, an outcome that was recorded is never
\* taken back: no later read finds the record unresolved (persistence.py:144-165).
OutcomeNeverErased ==
    [][\A r \in Records : rows[r] # None /\ HasOutcome(rows[r]) =>
        rows'[r] # None /\ HasOutcome(rows'[r])]_vars

\* "A record that already has an outcome is immutable from this service"
\* (forward_learning.py:28): an outcome is never changed for another, unless two
\* requests were after the record at the same time.
OutcomeIsFinal ==
    [][\A r \in Records \ contended : rows[r] # None /\ HasOutcome(rows[r]) =>
        /\ rows'[r].result = rows[r].result
        /\ rows'[r].excursion = rows[r].excursion]_vars

\* "... to prevent duplicate/conflicting evaluations" (forward_learning.py:29):
\* the columns of a row come from one evaluation, again unless requests were
\* after it at the same time.
OutcomeIsWhole ==
    \A r \in Records \ contended : rows[r] # None =>
        rows[r].excursion \in {None, rows[r].result}

\* What an answered request recorded stays recorded while its record is not
\* contended, whatever happens to other records: "the system must record
\* both executed trades and qualified opportunities that were missed"
\* (docs/TRADING_CHARTER.md:24).
AnsweredIsRecorded ==
    \A q \in Requests : answer[q] = "ok" /\ kind[q] \in Marks /\ target[q] \notin contended =>
        /\ kind[q] \in rows[target[q]].flags
        /\ kind[q] = "missed" => q \in rows[target[q]].reasons

\* The audit tells one resolution per record: two outcome rows for one record
\* would be two evaluations acknowledged.
ResolvedOnce ==
    \A i, j \in DOMAIN audit :
        /\ audit[i].kind \in {"forward_test", "outcome"}
        /\ audit[j].kind \in {"forward_test", "outcome"}
        /\ audit[i].record = audit[j].record /\ audit[i].record \notin contended
        => i = j

\* The audit never names an outcome that the table does not have in some form.
AuditedIsResolved ==
    \A i \in DOMAIN audit : audit[i].kind \in {"forward_test", "outcome"} =>
        HasOutcome(rows[audit[i].record])

-----------------------------------------------------------------------------
(* Inductive strengthening                                                 *)

\* Nothing happens to a record that is not contended between a request's read
\* and its write.
Alone(q) == target[q] \notin contended
SerialInv ==
    /\ \A p, q \in Requests :
        InFlight(p) /\ InFlight(q) /\ target[p] = target[q] /\ Alone(q) => p = q
    /\ \A q \in Requests : pc[q] \in {"load", "flush"} /\ Alone(q) =>
        LET row == rows[target[q]] IN
        /\ HasOutcome(row) => copy[q].result = row.result /\ copy[q].excursion = row.excursion
        /\ pc[q] = "flush" => loaded[q] = row

=============================================================================
