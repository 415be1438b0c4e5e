----------------------------- MODULE Deployment -----------------------------
(***************************************************************************)
(* How the services of docker-compose.yml come up on one database: each       *)
(* builds its runtime (composition.py), which runs migrate (migrations.py),   *)
(* while the others do the same or already serve; a service that raises or    *)
(* dies is started again.  A service with an API answers readiness probes     *)
(* (api.py), which read the schema in three transactions.                   *)
(*                                                                         *)
(* On PostgreSQL a migration is one transaction behind an advisory lock.  On  *)
(* SQLite there is no lock and each CREATE TABLE is a transaction of its own; *)
(* only the exchange of the version row is one.                             *)
(***************************************************************************)
EXTENDS Integers, FiniteSets

CONSTANTS
    Services,     \* the processes that build a runtime
    Web,          \* those of them with an API
    NoService,
    MaxFaults     \* bound: crashes, failed statements and refused connections

ASSUME ServiceAssumption ==
    Web \subseteq Services /\ NoService \notin Services /\ MaxFaults \in Nat

CURRENT_SCHEMA_VERSION == 2
NoVersion == 0

Historical == {"candidates", "audit_events", "learning_records"}
BaseTables == Historical \union {"scan_observations"}
AllTables == BaseTables \union {"schema_version"}

Databases == [tables : SUBSET AllTables, version : Nat]

VARIABLES
    dialect,    \* what the database is
    db,         \* what is committed
    lock,       \* the advisory lock's holder
    draft,      \* the holder's uncommitted view
    pc,         \* where each service is
    seen,       \* the version it read
    todo,       \* the tables it is about to create
    probe,      \* the next read of a readiness probe
    answer,     \* the schema check of the last answer
    faults

vars == <<dialect, db, lock, draft, pc, seen, todo, probe, answer, faults>>

OnPostgres == dialect = "postgresql"
Migrating == {"ensure", "version", "inspect", "check", "create"}

\* Databases a release may leave behind: none, one whose creation was cut short, one
\* of create_all before versions were kept, and those of the versions 1, 2 and 3.  A
\* version-2 database that lost a table is none of them: migrate would not notice.
Found ==
    {[tables |-> {}, version |-> NoVersion],
     [tables |-> {"audit_events", "candidates"}, version |-> NoVersion],
     [tables |-> Historical, version |-> NoVersion],
     [tables |-> BaseTables, version |-> NoVersion],
     [tables |-> Historical \union {"schema_version"}, version |-> 1],
     [tables |-> AllTables, version |-> 2],
     [tables |-> AllTables, version |-> 3]}

Init ==
    /\ dialect \in {"postgresql", "sqlite"}
    /\ db \in Found
    /\ lock = NoService /\ draft = db
    /\ pc = [p \in Services |-> "down"]
    /\ seen = [p \in Services |-> NoVersion]
    /\ todo = [p \in Services |-> {}]
    /\ probe = [p \in Services |-> "idle"]
    /\ answer = [p \in Services |-> "none"]
    /\ faults = 0

-----------------------------------------------------------------------------
(* What a migration reads and writes                                       *)

View == IF OnPostgres THEN draft ELSE db
Write(d) == IF OnPostgres THEN draft' = d /\ UNCHANGED db ELSE db' = d /\ UNCHANGED draft

Grown(d, t) == [tables |-> d.tables \union {t}, version |-> d.version]
Versioned(d, v) == [tables |-> d.tables, version |-> v]

Goto(p, place) == pc' = [pc EXCEPT ![p] = place]
Serving == <<probe, answer>>

\* (mutant: a session's lock stays with the pooled connection)
Abandon_KeepsLock(p) ==
    /\ Goto(p, "down")
    /\ seen' = [seen EXCEPT ![p] = NoVersion]
    /\ todo' = [todo EXCEPT ![p] = {}]
    /\ UNCHANGED <<db, draft, lock>>

\* The transaction is rolled back, and with it goes the lock; what SQLite has
\* committed stays.
Abandon(p) ==
    /\ Goto(p, "down")
    /\ seen' = [seen EXCEPT ![p] = NoVersion]
    /\ todo' = [todo EXCEPT ![p] = {}]
    /\ lock' = IF lock = p THEN NoService ELSE lock
    /\ UNCHANGED <<db, draft>>

-----------------------------------------------------------------------------
(* migrate                                                                 *)

\* (mutant: no lock is taken)
Boot_WithoutLock(p) ==
    /\ pc[p] = "down" /\ Goto(p, "ensure")
    /\ draft' = db
    /\ UNCHANGED <<dialect, db, lock, seen, todo, Serving, faults>>

\* The transaction begins; on PostgreSQL a second migration waits here.
Boot(p) ==
    /\ pc[p] = "down" /\ Goto(p, "ensure")
    /\ IF OnPostgres THEN lock = NoService /\ lock' = p /\ draft' = db
                     ELSE UNCHANGED <<lock, draft>>
    /\ UNCHANGED <<dialect, db, seen, todo, Serving, faults>>

\* CREATE TABLE IF NOT EXISTS schema_version
EnsureVersionTable(p) ==
    /\ pc[p] = "ensure" /\ Goto(p, "version")
    /\ Write(Grown(View, "schema_version"))
    /\ UNCHANGED <<dialect, lock, seen, todo, Serving, faults>>

\* A database newer than the application is refused.
ReadVersion(p) ==
    /\ pc[p] = "version"
    /\ IF View.version > CURRENT_SCHEMA_VERSION
       THEN Abandon(p)
       ELSE /\ Goto(p, "inspect") /\ seen' = [seen EXCEPT ![p] = View.version]
            /\ UNCHANGED <<db, draft, lock, todo>>
    /\ UNCHANGED <<dialect, Serving, faults>>

\* (mutant: any of the three tables makes it a version-1 database)
Wanted_AnyTable(version, existing) ==
    IF version = CURRENT_SCHEMA_VERSION THEN {}
    ELSE IF version = 1 \/ Historical \intersect existing # {} THEN {"scan_observations"}
    ELSE BaseTables

\* The tables a database of this version lacks: a database without a version is
\* of version 1 if it has the three tables of then, and is created otherwise.
Wanted(version, existing) ==
    IF version = CURRENT_SCHEMA_VERSION THEN {}
    ELSE IF version = 1 \/ Historical \subseteq existing THEN {"scan_observations"}
    ELSE BaseTables

Inspect(p) ==
    /\ pc[p] = "inspect" /\ Goto(p, "check")
    /\ todo' = [todo EXCEPT ![p] = Wanted(seen[p], View.tables)]
    /\ UNCHANGED <<dialect, db, draft, lock, seen, Serving, faults>>

\* checkfirst: which of them exist is looked up before the first is created.
CheckFirst(p) ==
    /\ pc[p] = "check" /\ Goto(p, "create")
    /\ todo' = [todo EXCEPT ![p] = @ \ View.tables]
    /\ UNCHANGED <<dialect, db, draft, lock, seen, Serving, faults>>

\* CREATE TABLE raises when another process was faster.
CreateTable(p) ==
    /\ pc[p] = "create"
    /\ \E t \in todo[p] :
        IF t \in View.tables THEN Abandon(p)
        ELSE /\ Write(Grown(View, t))
             /\ todo' = [todo EXCEPT ![p] = @ \ {t}]
             /\ UNCHANGED <<pc, seen, lock>>
    /\ UNCHANGED <<dialect, Serving, faults>>

Finished(p) == pc[p] = "create" /\ todo[p] = {}

\* (mutant: DELETE and INSERT are committed one by one)
Stamp_OneByOne(p) ==
    /\ Finished(p)
    /\ IF View.version # NoVersion
       THEN db' = Versioned(View, NoVersion) /\ draft' = db' /\ UNCHANGED <<pc, lock>>
       ELSE /\ db' = Versioned(View, CURRENT_SCHEMA_VERSION) /\ draft' = db'
            /\ Goto(p, "up") /\ lock' = IF OnPostgres THEN NoService ELSE lock
    /\ UNCHANGED <<dialect, seen, todo, Serving, faults>>

\* DELETE, INSERT and the commit, which ends the transaction and frees the lock.
Stamp(p) ==
    /\ Finished(p) /\ Goto(p, "up")
    /\ db' = Versioned(View, CURRENT_SCHEMA_VERSION)
    /\ lock' = IF OnPostgres THEN NoService ELSE lock
    /\ UNCHANGED <<dialect, draft, seen, todo, Serving, faults>>

Migrate(p) ==
    \/ EnsureVersionTable(p) \/ ReadVersion(p) \/ Inspect(p)
    \/ CheckFirst(p) \/ CreateTable(p) \/ Stamp(p)

Fault == faults < MaxFaults /\ faults' = faults + 1

\* A crash, a failed statement, a database that is away: wherever it is.
Fail(p) ==
    /\ pc[p] # "down" /\ Fault /\ Abandon(p)
    /\ probe' = [probe EXCEPT ![p] = "idle"]
    /\ answer' = [answer EXCEPT ![p] = "none"]
    /\ UNCHANGED dialect

-----------------------------------------------------------------------------
(* readiness_payload: is there a database, are the tables there, which version *)

Probing(p, read) == pc[p] = "up" /\ p \in Web /\ probe[p] = read
Idle == <<dialect, db, lock, draft, pc, seen, todo>>
Answers(p, a) == answer' = [answer EXCEPT ![p] = a] /\ probe' = [probe EXCEPT ![p] = "idle"]
Reads(p, next) == probe' = [probe EXCEPT ![p] = next] /\ UNCHANGED answer

Ping(p) == Probing(p, "idle") /\ Reads(p, "tables") /\ UNCHANGED <<Idle, faults>>

ProbeTables(p) ==
    /\ Probing(p, "tables")
    /\ IF AllTables \subseteq db.tables THEN Reads(p, "version") ELSE Answers(p, "missing_tables")
    /\ UNCHANGED <<Idle, faults>>

ProbeVersion(p) ==
    /\ Probing(p, "version")
    /\ Answers(p, IF db.version = CURRENT_SCHEMA_VERSION THEN "ready" ELSE "mismatch")
    /\ UNCHANGED <<Idle, faults>>

\* Any exception of a read is an answer too.
ProbeFails(p) ==
    /\ pc[p] = "up" /\ p \in Web /\ Fault
    /\ Answers(p, "failed")
    /\ UNCHANGED Idle

ProbeStep(p) == Ping(p) \/ ProbeTables(p) \/ ProbeVersion(p) \/ ProbeFails(p)

Next == \E p \in Services : Boot(p) \/ Migrate(p) \/ Fail(p) \/ ProbeStep(p)

Spec == Init /\ [][Next]_vars

\* "restart: unless-stopped", and a migration that goes on when it can.  The
\* lock is granted in turn, so a service waiting for it gets it at last.
LiveSpec == Spec /\ \A p \in Services : SF_vars(Boot(p)) /\ WF_vars(Migrate(p))

-----------------------------------------------------------------------------
(* Properties                                                              *)

\* The types; on PostgreSQL a service in its migration holds the lock.
TypeOK ==
    /\ dialect \in {"postgresql", "sqlite"}
    /\ db \in Databases /\ draft \in Databases
    /\ lock \in Services \union {NoService}
    /\ pc \in [Services -> Migrating \union {"down", "up"}]
    /\ seen \in [Services -> 0 .. CURRENT_SCHEMA_VERSION]
    /\ todo \in [Services -> SUBSET BaseTables]
    /\ probe \in [Services -> {"idle", "tables", "version"}]
    /\ answer \in [Services -> {"none", "ready", "missing_tables", "mismatch", "failed"}]
    /\ faults \in 0 .. MaxFaults
    /\ OnPostgres => \A p \in Services : pc[p] \in Migrating <=> lock = p

Complete(d) == AllTables \subseteq d.tables /\ d.version = CURRENT_SCHEMA_VERSION

\* A service that is up finds every table and the version of its release,
\* whichever release left the database it met, none included, and however others
\* booted, raced or died meanwhile (migrations.py:15-64).
UpIsMigrated == (\E p \in Services : pc[p] = "up") => Complete(db)

\* A database that was complete stays so: a service that boots later and writes
\* the version row anew never shows a probe a missing or another version
\* (api.py:53-68), so a served schema check only fails with the database.
ProbesAgree == \A p \in Services : answer[p] \in {"none", "ready", "failed"}

\* Unless the database is of a newer release, every service is up at last and
\* stays up, however migrations collide (docker-compose.yml:4, :36).
EverybodyBoots ==
    db.version <= CURRENT_SCHEMA_VERSION => \A p \in Services : <>[](pc[p] = "up")

=============================================================================
