-------------------------- MODULE DeploymentProofs --------------------------
(***************************************************************************)
(* Theorems about Deployment, for any number of services and faults, on both  *)
(* databases and on every database a release may leave.                     *)
(***************************************************************************)
EXTENDS Deployment, TLAPS

-----------------------------------------------------------------------------
(* The inductive invariant                                                 *)

\* A version row never promises tables the database lacks.
Honest(d) ==
    /\ d.version = 1 => Historical \subseteq d.tables
    /\ d.version = CURRENT_SCHEMA_VERSION => AllTables \subseteq d.tables

\* What a migration may rely on, from its first statement to its last: the
\* tables it read about are still there, and the others are on its list.
OnTrack(p) ==
    /\ pc[p] \in Migrating \ {"ensure"} => "schema_version" \in View.tables
    /\ pc[p] = "inspect" /\ seen[p] = 1 => Historical \subseteq View.tables
    /\ pc[p] = "inspect" /\ seen[p] = CURRENT_SCHEMA_VERSION => AllTables \subseteq View.tables
    /\ pc[p] \in {"check", "create"} => AllTables \subseteq View.tables \union todo[p]

MigrationInv ==
    /\ Honest(db) /\ Honest(draft)
    /\ \A p \in Services : OnTrack(p)

IInv == TypeOK /\ MigrationInv /\ UpIsMigrated /\ ProbesAgree

-----------------------------------------------------------------------------
(* Type correctness                                                        *)

LEMMA ViewIsDatabase ==
    ASSUME TypeOK
    PROVE  View \in Databases
BY DEF TypeOK, View

\* A table more is still a database.
LEMMA GrownIsDatabase ==
    ASSUME NEW d \in Databases, NEW t \in AllTables
    PROVE  Grown(d, t) \in Databases
BY DEF Grown, Databases

LEMMA StampedIsDatabase ==
    ASSUME NEW d \in Databases
    PROVE  Versioned(d, CURRENT_SCHEMA_VERSION) \in Databases
BY DEF Versioned, Databases, CURRENT_SCHEMA_VERSION

LEMMA FoundAreHonest ==
    ASSUME NEW d \in Found
    PROVE  d \in Databases /\ Honest(d)
BY DEF Found, Databases, Honest, AllTables, BaseTables, Historical, NoVersion,
       CURRENT_SCHEMA_VERSION

LEMMA InitTypeOK == Init => TypeOK
BY FoundAreHonest, ServiceAssumption
   DEF Init, TypeOK, Migrating, OnPostgres, NoVersion, CURRENT_SCHEMA_VERSION

\* A service that gives up, wherever it was, frees the lock if it held it.
LEMMA AbandonTypeOK ==
    ASSUME TypeOK, NEW p \in Services, Abandon(p),
           dialect' = dialect, faults' \in 0 .. MaxFaults,
           probe' \in [Services -> {"idle", "tables", "version"}],
           answer' \in [Services -> {"none", "ready", "missing_tables", "mismatch", "failed"}]
    PROVE  TypeOK'
<1>1. /\ dialect' \in {"postgresql", "sqlite"} /\ db' \in Databases /\ draft' \in Databases
      /\ pc' \in [Services -> Migrating \union {"down", "up"}]
  BY DEF TypeOK, Abandon, Goto
<1>2. seen' \in [Services -> 0 .. CURRENT_SCHEMA_VERSION]
  BY DEF TypeOK, Abandon, NoVersion, CURRENT_SCHEMA_VERSION
<1>3. todo' \in [Services -> SUBSET BaseTables]
  BY DEF TypeOK, Abandon
<1>4. lock' \in Services \union {NoService}
  BY DEF TypeOK, Abandon
<1>5. ASSUME OnPostgres, NEW q \in Services PROVE pc'[q] \in Migrating <=> lock' = q
  BY <1>5, ServiceAssumption DEF TypeOK, Abandon, Goto, Migrating
<1> QED BY <1>1, <1>2, <1>3, <1>4, <1>5 DEF TypeOK, OnPostgres

LEMMA NextTypeOK == TypeOK /\ [Next]_vars => TypeOK'
<1> SUFFICES ASSUME TypeOK, [Next]_vars PROVE TypeOK'
  OBVIOUS
<1>1. CASE UNCHANGED vars
  BY <1>1 DEF vars, TypeOK, OnPostgres
<1>2. ASSUME NEW p \in Services, Boot(p) PROVE TypeOK'
  BY <1>2, ServiceAssumption DEF Boot, Goto, Serving, TypeOK, Migrating, OnPostgres
<1>3. ASSUME NEW p \in Services, EnsureVersionTable(p) PROVE TypeOK'
  <2>1. Grown(View, "schema_version") \in Databases
    BY ViewIsDatabase, GrownIsDatabase DEF AllTables
  <2> QED BY <1>3, <2>1
          DEF EnsureVersionTable, Goto, Write, Serving, TypeOK, Migrating, OnPostgres
<1>4. ASSUME NEW p \in Services, ReadVersion(p) PROVE TypeOK'
  <2>1. CASE View.version > CURRENT_SCHEMA_VERSION
    BY <1>4, <2>1, AbandonTypeOK DEF ReadVersion, Serving, TypeOK
  <2>2. CASE ~ View.version > CURRENT_SCHEMA_VERSION
    <3>1. View.version \in 0 .. CURRENT_SCHEMA_VERSION
      BY <2>2, ViewIsDatabase DEF Databases, CURRENT_SCHEMA_VERSION
    <3> QED BY <1>4, <2>2, <3>1 DEF ReadVersion, Goto, Serving, TypeOK, Migrating, OnPostgres
  <2> QED BY <2>1, <2>2
<1>5. ASSUME NEW p \in Services, Inspect(p) PROVE TypeOK'
  <2>1. Wanted(seen[p], View.tables) \in SUBSET BaseTables
    BY DEF Wanted, BaseTables
  <2> QED BY <1>5, <2>1 DEF Inspect, Goto, Serving, TypeOK, Migrating, OnPostgres
<1>6. ASSUME NEW p \in Services, CheckFirst(p) PROVE TypeOK'
  BY <1>6 DEF CheckFirst, Goto, Serving, TypeOK, Migrating, OnPostgres
<1>7. ASSUME NEW p \in Services, CreateTable(p) PROVE TypeOK'
  <2>1. PICK t \in todo[p] :
          IF t \in View.tables THEN Abandon(p)
          ELSE /\ Write(Grown(View, t))
               /\ todo' = [todo EXCEPT ![p] = @ \ {t}]
               /\ UNCHANGED <<pc, seen, lock>>
    BY <1>7 DEF CreateTable
  <2>2. CASE t \in View.tables
    BY <1>7, <2>1, <2>2, AbandonTypeOK DEF CreateTable, Serving, TypeOK
  <2>3. CASE t \notin View.tables
    <3>1. Grown(View, t) \in Databases
      BY ViewIsDatabase, GrownIsDatabase DEF TypeOK, AllTables
    <3> QED BY <1>7, <2>1, <2>3, <3>1
            DEF CreateTable, Write, Serving, TypeOK, Migrating, OnPostgres
  <2> QED BY <2>2, <2>3
<1>8. ASSUME NEW p \in Services, Stamp(p) PROVE TypeOK'
  <2>1. Versioned(View, CURRENT_SCHEMA_VERSION) \in Databases
    BY ViewIsDatabase, StampedIsDatabase
  <2> QED BY <1>8, <2>1, ServiceAssumption
          DEF Stamp, Finished, Goto, Serving, TypeOK, Migrating, OnPostgres
<1>9. ASSUME NEW p \in Services, Fail(p) PROVE TypeOK'
  <2>1. faults' \in 0 .. MaxFaults
    BY <1>9, ServiceAssumption DEF Fail, Fault, TypeOK
  <2> QED BY <1>9, <2>1, AbandonTypeOK DEF Fail, TypeOK
<1>10. ASSUME NEW p \in Services, ProbeStep(p) PROVE TypeOK'
  <2>1. faults' \in 0 .. MaxFaults
    BY <1>10, ServiceAssumption
       DEF ProbeStep, Ping, ProbeTables, ProbeVersion, ProbeFails, Fault, TypeOK
  <2> QED BY <1>10, <2>1
          DEF ProbeStep, Ping, ProbeTables, ProbeVersion, ProbeFails, Answers, Reads, Idle,
              TypeOK, OnPostgres
<1> QED BY <1>1, <1>2, <1>3, <1>4, <1>5, <1>6, <1>7, <1>8, <1>9, <1>10 DEF Next, Migrate

\* Every variable keeps its type, and on PostgreSQL a service is in its migration
\* exactly while it holds the advisory lock (migrations.py:23-29).
THEOREM TypeCorrect == Spec => []TypeOK
<1>1. Init => TypeOK
  BY InitTypeOK
<1>2. TypeOK /\ [Next]_vars => TypeOK'
  BY NextTypeOK
<1> QED BY <1>1, <1>2, PTL DEF Spec

-----------------------------------------------------------------------------
(* A service that is up finds the schema of its release                    *)

\* A service never migrates while another holds the lock.
LEMMA OneAtATime ==
    ASSUME TypeOK, OnPostgres, NEW p \in Services, pc[p] \in Migrating,
           NEW q \in Services, q # p
    PROVE  pc[q] \notin Migrating
BY ServiceAssumption DEF TypeOK

\* A table more breaks no promise, and helps every migration that sees it.
LEMMA Grow ==
    ASSUME TypeOK, MigrationInv, UpIsMigrated, NEW t \in AllTables,
           Write(Grown(View, t)), dialect' = dialect
    PROVE  /\ Honest(db)' /\ Honest(draft)'
           /\ View.tables \subseteq View'.tables /\ t \in View'.tables
           /\ View'.version = View.version
           /\ Complete(db) => Complete(db)'
<1>1. View \in Databases /\ db \in Databases /\ draft \in Databases
  BY ViewIsDatabase DEF TypeOK
<1> QED BY <1>1 DEF Grown, Write, View, OnPostgres, Databases, MigrationInv, Honest, Complete

\* Who gives up loses nothing that was committed, and is no longer on a track.
LEMMA AbandonInv ==
    ASSUME TypeOK, MigrationInv, UpIsMigrated, NEW p \in Services, Abandon(p), dialect' = dialect
    PROVE  MigrationInv' /\ UpIsMigrated'
<1>1. db' = db /\ draft' = draft /\ View' = View
  BY DEF Abandon, View, OnPostgres
<1>2. \A q \in Services : OnTrack(q)'
  BY <1>1 DEF Abandon, Goto, MigrationInv, OnTrack, TypeOK, Migrating
<1> QED BY <1>1, <1>2 DEF MigrationInv, Honest, UpIsMigrated, Abandon, Goto, TypeOK, Complete

\* What a step does that neither writes nor gives up.
LEMMA ReadingInv ==
    ASSUME TypeOK, MigrationInv, UpIsMigrated, NEW p \in Services,
           pc[p] \in Migrating, pc'[p] \in Migrating, OnTrack(p)',
           pc' = [pc EXCEPT ![p] = pc'[p]],
           \A q \in Services : q # p => seen'[q] = seen[q] /\ todo'[q] = todo[q],
           UNCHANGED <<dialect, db, draft>>
    PROVE  MigrationInv' /\ UpIsMigrated'
<1>1. View' = View
  BY DEF View, OnPostgres
<1>2. \A q \in Services : q # p => OnTrack(q)'
  BY <1>1 DEF MigrationInv, OnTrack, TypeOK
<1> QED BY <1>2 DEF MigrationInv, Honest, UpIsMigrated, TypeOK, Migrating, Complete

LEMMA InitInv == Init => MigrationInv /\ UpIsMigrated /\ ProbesAgree
BY FoundAreHonest
   DEF Init, MigrationInv, OnTrack, UpIsMigrated, ProbesAgree, Migrating

LEMMA BootInv ==
    ASSUME TypeOK, MigrationInv, UpIsMigrated, NEW p \in Services, Boot(p)
    PROVE  MigrationInv' /\ UpIsMigrated'
<1>1. db' = db /\ Honest(draft)'
  BY DEF Boot, MigrationInv, Honest
<1>2. OnTrack(p)'
  BY DEF Boot, Goto, OnTrack, TypeOK, Migrating
<1>3. ASSUME NEW q \in Services, q # p PROVE OnTrack(q)'
  <2>1. CASE OnPostgres
    <3>1. lock' = p /\ TypeOK'
      BY <2>1, NextTypeOK DEF Boot, Next
    <3>2. pc'[q] \notin Migrating
      BY <1>3, <2>1, <3>1 DEF TypeOK, OnPostgres, Boot
    <3> QED BY <3>2 DEF OnTrack, Migrating
  <2>2. CASE ~ OnPostgres
    BY <1>3, <2>2 DEF Boot, Goto, View, OnPostgres, MigrationInv, OnTrack, TypeOK
  <2> QED BY <2>1, <2>2
<1> QED BY <1>1, <1>2, <1>3 DEF Boot, Goto, MigrationInv, Honest, UpIsMigrated, TypeOK, Complete

\* A migration step that writes a table keeps everybody on track who sees it.
LEMMA WritingInv ==
    ASSUME TypeOK, MigrationInv, UpIsMigrated, NEW p \in Services, NEW t \in AllTables,
           Write(Grown(View, t)), dialect' = dialect,
           pc[p] \in Migrating, pc'[p] \in Migrating, OnTrack(p)',
           pc' = [pc EXCEPT ![p] = pc'[p]],
           \A q \in Services : q # p => seen'[q] = seen[q] /\ todo'[q] = todo[q]
    PROVE  MigrationInv' /\ UpIsMigrated'
<1>1. \A q \in Services : q # p => OnTrack(q)'
  BY Grow DEF MigrationInv, OnTrack, TypeOK
<1>2. UpIsMigrated'
  <2>1. (\E q \in Services : pc'[q] = "up") => \E q \in Services : pc[q] = "up"
    BY DEF TypeOK, Migrating
  <2> QED BY <2>1, Grow DEF UpIsMigrated
<1> QED BY <1>1, <1>2, Grow DEF MigrationInv

LEMMA MigrateInv ==
    ASSUME TypeOK, MigrationInv, UpIsMigrated, NEW p \in Services, Migrate(p)
    PROVE  MigrationInv' /\ UpIsMigrated'
<1>0. OnTrack(p)
  BY DEF MigrationInv
<1>1. CASE EnsureVersionTable(p)
  <2>1. pc'[p] = "version"
    BY <1>1 DEF EnsureVersionTable, Goto, TypeOK
  <2>2. "schema_version" \in View'.tables
    BY <1>1, Grow DEF EnsureVersionTable, AllTables
  <2>3. OnTrack(p)'
    BY <2>1, <2>2 DEF OnTrack
  <2> QED BY <1>1, <2>1, <2>3, WritingInv DEF EnsureVersionTable, Goto, Migrating, AllTables
<1>2. CASE ReadVersion(p)
  <2>1. CASE View.version > CURRENT_SCHEMA_VERSION
    BY <1>2, <2>1, AbandonInv DEF ReadVersion
  <2>2. CASE ~ View.version > CURRENT_SCHEMA_VERSION
    <3>1. /\ pc'[p] = "inspect" /\ seen'[p] = View.version /\ View' = View
          /\ pc' = [pc EXCEPT ![p] = "inspect"] /\ seen' = [seen EXCEPT ![p] = View.version]
          /\ UNCHANGED <<dialect, db, draft, todo>>
      BY <1>2, <2>2 DEF ReadVersion, Goto, TypeOK, View, OnPostgres
    <3>2. Honest(View)
      BY DEF View, MigrationInv
    <3>3. OnTrack(p)'
      BY <1>0, <1>2, <3>1, <3>2 DEF OnTrack, Honest, ReadVersion, Migrating
    <3> QED BY <1>2, <3>1, <3>3, ReadingInv DEF ReadVersion, Migrating, TypeOK
  <2> QED BY <2>1, <2>2
<1>3. CASE Inspect(p)
  <2>1. /\ pc'[p] = "check" /\ todo'[p] = Wanted(seen[p], View.tables) /\ View' = View
        /\ pc' = [pc EXCEPT ![p] = "check"]
    BY <1>3 DEF Inspect, Goto, TypeOK, View, OnPostgres
  <2>2. AllTables \subseteq View.tables \union Wanted(seen[p], View.tables)
    BY <1>0, <1>3 DEF Inspect, OnTrack, Wanted, AllTables, BaseTables, Migrating
  <2>3. OnTrack(p)'
    BY <1>0, <1>3, <2>1, <2>2 DEF OnTrack, Inspect, Migrating
  <2> QED BY <1>3, <2>1, <2>3, ReadingInv DEF Inspect, Migrating, TypeOK
<1>4. CASE CheckFirst(p)
  <2>1. /\ pc'[p] = "create" /\ todo'[p] = todo[p] \ View.tables /\ View' = View
        /\ pc' = [pc EXCEPT ![p] = "create"]
    BY <1>4 DEF CheckFirst, Goto, TypeOK, View, OnPostgres
  <2>2. OnTrack(p)'
    BY <1>0, <1>4, <2>1 DEF OnTrack, CheckFirst, Migrating
  <2> QED BY <1>4, <2>1, <2>2, ReadingInv DEF CheckFirst, Migrating, TypeOK
<1>5. CASE CreateTable(p)
  <2>1. PICK t \in todo[p] :
          IF t \in View.tables THEN Abandon(p)
          ELSE /\ Write(Grown(View, t))
               /\ todo' = [todo EXCEPT ![p] = @ \ {t}]
               /\ UNCHANGED <<pc, seen, lock>>
    BY <1>5 DEF CreateTable
  <2>2. CASE t \in View.tables
    BY <1>5, <2>1, <2>2, AbandonInv DEF CreateTable
  <2>3. CASE t \notin View.tables
    <3>1. t \in AllTables /\ dialect' = dialect /\ pc[p] = "create"
      BY <1>5 DEF CreateTable, TypeOK, AllTables
    <3>2. todo'[p] = todo[p] \ {t} /\ pc' = pc /\ seen' = seen
      BY <2>1, <2>3 DEF TypeOK
    <3>3. View.tables \subseteq View'.tables /\ t \in View'.tables
      BY <2>1, <2>3, <3>1, Grow
    <3>4. OnTrack(p)'
      BY <1>0, <3>1, <3>2, <3>3 DEF OnTrack, Migrating
    <3> QED BY <2>1, <2>3, <3>1, <3>2, <3>4, WritingInv DEF Migrating, TypeOK
  <2> QED BY <2>2, <2>3
<1>6. CASE Stamp(p)
  <2>1. AllTables \subseteq View.tables
    BY <1>0, <1>6 DEF OnTrack, Stamp, Finished
  <2>2. Complete(db)'
    BY <1>6, <2>1, ViewIsDatabase DEF Stamp, Versioned, Complete, Databases
  <2>3. Honest(db)' /\ Honest(draft)'
    BY <1>6, <2>2 DEF Stamp, Complete, Honest, MigrationInv, CURRENT_SCHEMA_VERSION
  <2>4. OnTrack(p)'
    BY <1>6 DEF Stamp, Goto, OnTrack, TypeOK, Migrating
  <2>5. ASSUME NEW q \in Services, q # p PROVE OnTrack(q)'
    <3>1. CASE OnPostgres
      <4>1. pc[q] \notin Migrating
        BY <1>6, <2>5, <3>1, OneAtATime DEF Stamp, Finished, Migrating
      <4> QED BY <1>6, <2>5, <4>1 DEF Stamp, Goto, OnTrack, TypeOK, Migrating
    <3>2. CASE ~ OnPostgres
      <4>1. View'.tables = View.tables
        BY <1>6, <3>2, ViewIsDatabase DEF Stamp, Versioned, View, OnPostgres, Databases
      <4> QED BY <1>6, <2>5, <4>1 DEF Stamp, Goto, MigrationInv, OnTrack, TypeOK
    <3> QED BY <3>1, <3>2
  <2> QED BY <2>2, <2>3, <2>4, <2>5 DEF MigrationInv, UpIsMigrated
<1> QED BY <1>1, <1>2, <1>3, <1>4, <1>5, <1>6 DEF Migrate

LEMMA NextInv == TypeOK /\ MigrationInv /\ UpIsMigrated /\ [Next]_vars
                   => MigrationInv' /\ UpIsMigrated'
<1> SUFFICES ASSUME TypeOK, MigrationInv, UpIsMigrated, [Next]_vars
             PROVE  MigrationInv' /\ UpIsMigrated'
  OBVIOUS
<1>1. ASSUME UNCHANGED <<dialect, db, draft, pc, seen, todo>>
      PROVE  MigrationInv' /\ UpIsMigrated'
  <2>1. View' = View
    BY <1>1 DEF View, OnPostgres
  <2> QED BY <1>1, <2>1 DEF MigrationInv, OnTrack, Honest, UpIsMigrated, Complete
<1>2. CASE UNCHANGED vars
  BY <1>1, <1>2 DEF vars
<1>3. ASSUME NEW p \in Services, Fail(p) PROVE MigrationInv' /\ UpIsMigrated'
  BY <1>3, AbandonInv DEF Fail
<1>4. ASSUME NEW p \in Services, ProbeStep(p) PROVE MigrationInv' /\ UpIsMigrated'
  BY <1>1, <1>4 DEF ProbeStep, Ping, ProbeTables, ProbeVersion, ProbeFails, Idle
<1> QED BY <1>2, <1>3, <1>4, BootInv, MigrateInv DEF Next

\* A service that is up finds every table and the version of its release, however
\* the services booted, raced, crashed or were refused (migrations.py:15-64).
THEOREM UpIsMigratedHolds == Spec => []UpIsMigrated
<1>1. Init => TypeOK /\ MigrationInv /\ UpIsMigrated
  BY InitTypeOK, InitInv
<1>2. TypeOK /\ MigrationInv /\ UpIsMigrated /\ [Next]_vars
        => (TypeOK /\ MigrationInv /\ UpIsMigrated)'
  BY NextTypeOK, NextInv
<1> QED BY <1>1, <1>2, PTL DEF Spec

-----------------------------------------------------------------------------
(* What a probe answers                                                    *)

LEMMA ProbeInv ==
    ASSUME TypeOK, UpIsMigrated, ProbesAgree, NEW p \in Services, ProbeStep(p)
    PROVE  ProbesAgree'
<1>1. pc[p] = "up"
  BY DEF ProbeStep, Ping, ProbeTables, ProbeVersion, ProbeFails, Probing
<1>2. Complete(db)
  BY <1>1 DEF UpIsMigrated
<1>3. CASE Ping(p)
  BY <1>3 DEF Ping, Reads, ProbesAgree
<1>4. CASE ProbeTables(p)
  BY <1>2, <1>4 DEF ProbeTables, Complete, Reads, ProbesAgree
<1>5. CASE ProbeVersion(p)
  BY <1>2, <1>5 DEF ProbeVersion, Complete, Answers, ProbesAgree, TypeOK
<1>6. CASE ProbeFails(p)
  BY <1>6 DEF ProbeFails, Answers, ProbesAgree, TypeOK
<1> QED BY <1>3, <1>4, <1>5, <1>6 DEF ProbeStep

LEMMA NextProbes == TypeOK /\ UpIsMigrated /\ ProbesAgree /\ [Next]_vars => ProbesAgree'
<1> SUFFICES ASSUME TypeOK, UpIsMigrated, ProbesAgree, [Next]_vars PROVE ProbesAgree'
  OBVIOUS
<1>1. ASSUME UNCHANGED answer PROVE ProbesAgree'
  BY <1>1 DEF ProbesAgree
<1>2. CASE UNCHANGED vars
  BY <1>1, <1>2 DEF vars
<1>3. ASSUME NEW p \in Services, Boot(p) \/ Migrate(p) PROVE ProbesAgree'
  <2>1. UNCHANGED answer
    BY <1>3 DEF Boot, Migrate, EnsureVersionTable, ReadVersion, Inspect, CheckFirst,
                CreateTable, Stamp, Serving
  <2> QED BY <1>1, <2>1
<1>4. ASSUME NEW p \in Services, Fail(p) PROVE ProbesAgree'
  BY <1>4 DEF Fail, ProbesAgree, TypeOK
<1> QED BY <1>2, <1>3, <1>4, ProbeInv DEF Next

\* The schema check of a readiness probe only fails with the database: its three
\* transactions never meet a schema half-way between two versions (api.py:53-68).
THEOREM ProbesAgreeHolds == Spec => []ProbesAgree
<1>1. Init => IInv
  BY InitTypeOK, InitInv DEF IInv
<1>2. IInv /\ [Next]_vars => IInv'
  BY NextTypeOK, NextInv, NextProbes DEF IInv
<1>3. IInv => ProbesAgree
  BY DEF IInv
<1> QED BY <1>1, <1>2, <1>3, PTL DEF Spec

=============================================================================
