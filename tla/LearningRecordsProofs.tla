----------------------- MODULE LearningRecordsProofs -----------------------
(***************************************************************************)
(* Theorems about LearningRecords, for any number of records and requests.   *)
(***************************************************************************)
EXTENDS LearningRecords, TLAPS

-----------------------------------------------------------------------------
(* What an UPDATE makes of a row                                           *)

LEMMA AssignedColumn ==
    ASSUME NEW row \in Rows, NEW old \in Rows, NEW new \in Rows
    PROVE  /\ AssignedFlags(row, old, new) \in SUBSET Marks
           /\ Assigned(row, old, new, "reasons") \in SUBSET Requests
           /\ Assigned(row, old, new, "result") \in Requests \union {None}
           /\ Assigned(row, old, new, "excursion") \in Requests \union {None}
BY DEF Assigned, AssignedFlags, Rows

LEMMA WrittenRow ==
    ASSUME NEW row \in Rows, NEW old \in Rows, NEW new \in Rows
    PROVE  Written(row, old, new) \in Rows
BY AssignedColumn DEF Written, Rows

\* An update never turns a resolved row into an unresolved one.
LEMMA WrittenKeepsOutcome ==
    ASSUME NEW row \in Rows, NEW old \in Rows, NEW new \in Rows, HasOutcome(row)
    PROVE  HasOutcome(Written(row, old, new))
BY DEF Written, Assigned, HasOutcome

\* A copy with the row's own outcome, or none, leaves it as it is.
LEMMA WrittenSameOutcome ==
    ASSUME NEW row \in Rows, NEW new \in Rows,
           new.result = row.result /\ new.excursion = row.excursion
    PROVE  /\ Written(row, row, new).result = row.result
           /\ Written(row, row, new).excursion = row.excursion
BY DEF Written, Assigned

-----------------------------------------------------------------------------
(* Type correctness                                                        *)

LEMMA NewRowIsRow == NewRow \in Rows
BY DEF NewRow, Rows

LEMMA InitTypeOK == Init => TypeOK
BY NewRowIsRow DEF Init, TypeOK, Kinds, PcStates, Answers

LEMMA NextTypeOK == TypeOK /\ [Next]_vars => TypeOK'
<1> SUFFICES ASSUME TypeOK, [Next]_vars PROVE TypeOK'
  OBVIOUS
<1> USE DEF TypeOK, PcStates, Answers
<1>1. CASE UNCHANGED vars
  BY <1>1 DEF vars
<1>2. ASSUME NEW q \in Requests, Arrive(q) PROVE TypeOK'
  BY <1>2 DEF Arrive, Goto
<1>3. ASSUME NEW q \in Requests, Create(q) PROVE TypeOK'
  BY <1>3, NewRowIsRow, RecordAssumption DEF Create, Goto
<1>4. ASSUME NEW q \in Requests,
             GetNothing(q) \/ RefuseOutcome(q) \/ PathUnresolved(q) \/ Abort(q)
      PROVE  TypeOK'
  BY <1>4 DEF GetNothing, RefuseOutcome, PathUnresolved, Abort, Reply, InFlight
<1>5. ASSUME NEW q \in Requests, GetAndMark(q) PROVE TypeOK'
  <2>1. rows[target[q]] \in Rows
    BY <1>5 DEF GetAndMark
  <2>2. Mark(rows[target[q]], q) \in Rows
    BY <1>5, <2>1 DEF GetAndMark, Mark, Rows
  <2> QED BY <1>5, <2>2 DEF GetAndMark, Goto
<1>6. ASSUME NEW q \in Requests, GetAndResolve(q) PROVE TypeOK'
  <2>1. rows[target[q]] \in Rows
    BY <1>6 DEF GetAndResolve
  <2>2. \A e \in {q, None} : [rows[target[q]] EXCEPT !.result = q, !.excursion = e] \in Rows
    BY <2>1 DEF Rows
  <2> QED BY <1>6, <2>2, ZenonT(60) DEF GetAndResolve, Goto
<1>7. ASSUME NEW q \in Requests, Load(q) PROVE TypeOK'
  BY <1>7 DEF Load, Goto
<1>8. ASSUME NEW q \in Requests, Flush(q) PROVE TypeOK'
  <2>1. target[q] \in Records /\ rows[target[q]] \in Rows
    BY <1>8 DEF Flush
  <2>2. Written(rows[target[q]], loaded[q], copy[q]) \in Rows
    BY <2>1, WrittenRow
  <2> QED BY <1>8, <2>1, <2>2, RecordAssumption DEF Flush, Goto
<1>9. ASSUME NEW q \in Requests, AppendAudit(q) PROVE TypeOK'
  BY <1>9 DEF AppendAudit, Reply
<1> QED BY <1>1, <1>2, <1>3, <1>4, <1>5, <1>6, <1>7, <1>8, <1>9 DEF Next

\* Every variable keeps its type, and a request never writes a record that does
\* not exist (the KeyError of persistence.py:147-148 cannot happen).
THEOREM TypeCorrect == Spec => []TypeOK
<1>1. Init => TypeOK
  BY InitTypeOK
<1>2. TypeOK /\ [Next]_vars => TypeOK'
  BY NextTypeOK
<1> QED BY <1>1, <1>2, PTL DEF Spec

-----------------------------------------------------------------------------
(* An outcome is never taken back, however requests overlap                *)

\* Only Create and Flush write rows.
LEMMA WritersOfRows ==
    ASSUME [Next]_vars
    PROVE  \/ rows' = rows
           \/ \E q \in Requests : Create(q)
           \/ \E q \in Requests : Flush(q)
BY DEF Next, vars, Arrive, GetNothing, GetAndMark, RefuseOutcome, GetAndResolve,
       PathUnresolved, Load, AppendAudit, Abort

\* One step keeps every recorded outcome.
LEMMA OutcomeKept ==
    ASSUME TypeOK, [Next]_vars,
           NEW r \in Records, rows[r] # None, HasOutcome(rows[r])
    PROVE  rows'[r] # None /\ HasOutcome(rows'[r])
<1>1. rows[r] \in Rows
  BY DEF TypeOK
<1>2. CASE rows' = rows
  BY <1>2
<1>3. ASSUME NEW q \in Requests, Create(q) PROVE rows'[r] = rows[r]
  BY <1>3 DEF Create, TypeOK
<1>4. ASSUME NEW q \in Requests, Flush(q)
      PROVE  rows'[r] # None /\ HasOutcome(rows'[r])
  <2>1. CASE target[q] # r
    BY <1>4, <2>1 DEF Flush, TypeOK
  <2>2. CASE target[q] = r
    <3>1. rows'[r] = Written(rows[r], loaded[q], copy[q])
      BY <1>4, <2>2 DEF Flush, TypeOK
    <3>2. loaded[q] \in Rows /\ copy[q] \in Rows
      BY DEF TypeOK
    <3>3. rows'[r] \in Rows
      BY <1>1, <3>1, <3>2, WrittenRow
    <3> QED BY <1>1, <3>1, <3>2, <3>3, WrittenKeepsOutcome, RecordAssumption
  <2> QED BY <2>1, <2>2
<1> QED BY <1>2, <1>3, <1>4, WritersOfRows

\* Whatever requests overlap, fail or are repeated, a record that was resolved
\* stays resolved (persistence.py:144-165).
THEOREM OutcomeNeverErasedHolds == Spec => OutcomeNeverErased
<1> DEFINE Keeps == \A r \in Records : rows[r] # None /\ HasOutcome(rows[r]) =>
                       rows'[r] # None /\ HasOutcome(rows'[r])
<1>1. TypeOK /\ [Next]_vars => Keeps
  BY OutcomeKept
<1>2. TypeOK /\ [Next]_vars => [Keeps]_vars
  BY <1>1
<1> HIDE DEF Keeps
<1>3. Spec => [][Keeps]_vars
  BY <1>2, TypeCorrect, PTL DEF Spec
<1> QED BY <1>3 DEF OutcomeNeverErased, Keeps

-----------------------------------------------------------------------------
(* Without contention no request changes an outcome                        *)

LEMMA SerialInit == Init => SerialInv
BY DEF Init, SerialInv, InFlight

\* A record that no two requests are after stays so until one arrives.
LEMMA SerialStep == TypeOK /\ SerialInv /\ [Next]_vars => SerialInv'
<1> SUFFICES ASSUME TypeOK, SerialInv, [Next]_vars PROVE SerialInv'
  OBVIOUS
<1> DEFINE One == \A p, q \in Requests :
                    InFlight(p) /\ InFlight(q) /\ target[p] = target[q] /\ Alone(q) => p = q
           Same(q) == /\ HasOutcome(rows[target[q]]) =>
                            /\ copy[q].result = rows[target[q]].result
                            /\ copy[q].excursion = rows[target[q]].excursion
                      /\ pc[q] = "flush" => loaded[q] = rows[target[q]]
           Sames == \A q \in Requests : pc[q] \in {"load", "flush"} /\ Alone(q) => Same(q)
<1>1. One /\ Sames
  BY DEF SerialInv
<1>2. SUFFICES One' /\ Sames'
  BY DEF SerialInv
<1>3. CASE UNCHANGED vars
  BY <1>1, <1>3 DEF vars, InFlight, Alone
<1>4. ASSUME NEW q \in Requests, Arrive(q) PROVE One' /\ Sames'
  <2>1. PICK k \in Kinds, r \in Records :
            /\ target' = [target EXCEPT ![q] = r]
            /\ contended' = IF OthersAfter(r) THEN contended \union {r} ELSE contended
            /\ pc' = [pc EXCEPT ![q] = IF k = "discovery" THEN "create" ELSE "get"]
    BY <1>4 DEF Arrive, Goto
  <2>2. target'[q] = r /\ pc'[q] \in {"create", "get"}
    BY <2>1 DEF TypeOK
  <2>3. \A p \in Requests : p # q => target'[p] = target[p] /\ pc'[p] = pc[p]
    BY <2>1 DEF TypeOK
  <2>4. contended \subseteq contended'
    BY <2>1
  <2>5. \A p \in Requests : p # q /\ InFlight(p) /\ target[p] = r => r \in contended'
    BY <2>1 DEF OthersAfter
  <2>6. One'
    BY <1>1, <2>2, <2>3, <2>4, <2>5 DEF InFlight, Alone
  <2>7. rows' = rows /\ copy' = copy /\ loaded' = loaded
    BY <1>4 DEF Arrive
  <2>8. Sames'
    BY <1>1, <2>2, <2>3, <2>4, <2>7 DEF Alone
  <2> QED BY <2>6, <2>8
<1>5. ASSUME NEW q \in Requests, InFlight(q), target' = target, contended' = contended,
             \A p \in Requests : p # q => /\ pc'[p] = pc[p] /\ copy'[p] = copy[p]
                                         /\ loaded'[p] = loaded[p],
             \A r \in Records : r # target[q] => rows'[r] = rows[r],
             pc'[q] \in {"load", "flush"} /\ Alone(q) => Same(q)'
      PROVE  One' /\ Sames'
  <2>1. One'
    BY <1>1, <1>5 DEF InFlight, Alone
  <2>2. ASSUME NEW p \in Requests, p # q, pc'[p] \in {"load", "flush"}, Alone(p)'
        PROVE  Same(p)'
    <3>1. pc[p] \in {"load", "flush"} /\ Alone(p) /\ InFlight(p)
      BY <1>5, <2>2 DEF Alone, InFlight
    <3>2. target[p] # target[q] /\ target[p] \in Records
      BY <1>1, <1>5, <2>2, <3>1 DEF TypeOK
    <3> QED BY <1>1, <1>5, <2>2, <3>1, <3>2
  <2>3. Sames'
    BY <1>5, <2>2 DEF Alone
  <2> QED BY <2>1, <2>3
<1> HIDE DEF One, Sames
<1>6. ASSUME NEW q \in Requests,
             \/ Create(q) \/ GetNothing(q) \/ RefuseOutcome(q) \/ PathUnresolved(q)
             \/ Flush(q) \/ AppendAudit(q) \/ Abort(q)
      PROVE  One' /\ Sames'
  <2>1. /\ InFlight(q) /\ target' = target /\ contended' = contended
        /\ copy' = copy /\ loaded' = loaded
    BY <1>6 DEF Create, GetNothing, RefuseOutcome, PathUnresolved, Flush, AppendAudit,
                Abort, InFlight
  <2>2. \A p \in Requests : p # q => pc'[p] = pc[p]
    BY <1>6 DEF Create, GetNothing, RefuseOutcome, PathUnresolved, Flush, AppendAudit,
                Abort, Goto, Reply, TypeOK
  <2>3. pc'[q] \notin {"load", "flush"}
    BY <1>6 DEF Create, GetNothing, RefuseOutcome, PathUnresolved, Flush, AppendAudit,
                Abort, Goto, Reply, TypeOK
  <2>4. \A r \in Records : r # target[q] => rows'[r] = rows[r]
    BY <1>6 DEF Create, GetNothing, RefuseOutcome, PathUnresolved, Flush, AppendAudit,
                Abort, TypeOK
  <2> QED BY <1>5, <2>1, <2>2, <2>3, <2>4
<1>7. ASSUME NEW q \in Requests, GetAndMark(q) PROVE One' /\ Sames'
  <2>1. /\ InFlight(q) /\ target' = target /\ contended' = contended /\ rows' = rows
        /\ loaded' = loaded /\ pc' = [pc EXCEPT ![q] = "load"]
        /\ copy' = [copy EXCEPT ![q] = Mark(rows[target[q]], q)]
    BY <1>7 DEF GetAndMark, Goto, InFlight
  <2>2. rows[target[q]] \in Rows
    BY <1>7 DEF GetAndMark, TypeOK
  <2>3. /\ Mark(rows[target[q]], q).result = rows[target[q]].result
        /\ Mark(rows[target[q]], q).excursion = rows[target[q]].excursion
    BY <2>2 DEF Mark, Rows
  <2>4. Same(q)'
    BY <2>1, <2>3 DEF TypeOK
  <2>5. \A p \in Requests : p # q => pc'[p] = pc[p] /\ copy'[p] = copy[p]
    BY <2>1 DEF TypeOK
  <2> QED BY <1>5, <2>1, <2>4, <2>5
<1>8. ASSUME NEW q \in Requests, GetAndResolve(q) PROVE One' /\ Sames'
  <2>1. /\ InFlight(q) /\ target' = target /\ contended' = contended /\ rows' = rows
        /\ loaded' = loaded /\ pc' = [pc EXCEPT ![q] = "load"]
    BY <1>8 DEF GetAndResolve, Goto, InFlight
  <2>2. ~ HasOutcome(rows[target[q]])
    BY <1>8 DEF GetAndResolve, MayResolve
  <2>3. Same(q)'
    BY <2>1, <2>2 DEF TypeOK, HasOutcome
  <2>4. \A p \in Requests : p # q => pc'[p] = pc[p] /\ copy'[p] = copy[p]
    BY <1>8, <2>1 DEF GetAndResolve, TypeOK
  <2> QED BY <1>5, <2>1, <2>3, <2>4
<1>9. ASSUME NEW q \in Requests, Load(q) PROVE One' /\ Sames'
  <2>1. /\ InFlight(q) /\ target' = target /\ contended' = contended /\ rows' = rows
        /\ copy' = copy /\ pc' = [pc EXCEPT ![q] = "flush"]
        /\ loaded' = [loaded EXCEPT ![q] = rows[target[q]]]
    BY <1>9 DEF Load, Goto, InFlight
  <2>2. Alone(q) => Same(q)
    BY <1>1, <1>9 DEF Load, Sames
  <2>3. Alone(q) => Same(q)'
    BY <2>1, <2>2 DEF TypeOK, HasOutcome
  <2>4. \A p \in Requests : p # q => pc'[p] = pc[p] /\ loaded'[p] = loaded[p]
    BY <2>1 DEF TypeOK
  <2> QED BY <1>5, <2>1, <2>3, <2>4
<1> QED BY <1>3, <1>4, <1>6, <1>7, <1>8, <1>9 DEF Next

\* Between the read and the write of a request, no other touches its record,
\* unless the two were after it at the same time.
THEOREM SerialInvHolds == Spec => []SerialInv
<1>1. TypeOK /\ SerialInv /\ [Next]_vars => SerialInv'
  BY SerialStep
<1> QED BY <1>1, SerialInit, TypeCorrect, PTL DEF Spec

\* One step changes the outcome of no record that is not contended.
LEMMA OutcomeUnchanged ==
    ASSUME TypeOK, SerialInv, [Next]_vars,
           NEW r \in Records \ contended, rows[r] # None, HasOutcome(rows[r])
    PROVE  /\ rows'[r].result = rows[r].result
           /\ rows'[r].excursion = rows[r].excursion
<1>1. rows[r] \in Rows
  BY DEF TypeOK
<1>2. CASE rows' = rows
  BY <1>2
<1>3. ASSUME NEW q \in Requests, Create(q) PROVE rows'[r] = rows[r]
  BY <1>3 DEF Create, TypeOK
<1>4. ASSUME NEW q \in Requests, Flush(q)
      PROVE  /\ rows'[r].result = rows[r].result
             /\ rows'[r].excursion = rows[r].excursion
  <2>1. CASE target[q] # r
    BY <1>4, <2>1 DEF Flush, TypeOK
  <2>2. CASE target[q] = r
    <3>1. rows'[r] = Written(rows[r], loaded[q], copy[q])
      BY <1>4, <2>2 DEF Flush, TypeOK
    <3>2. copy[q] \in Rows
      BY DEF TypeOK
    <3>3. /\ loaded[q] = rows[r]
          /\ copy[q].result = rows[r].result /\ copy[q].excursion = rows[r].excursion
      BY <1>4, <2>2 DEF Flush, SerialInv, Alone
    <3> QED BY <1>1, <3>1, <3>2, <3>3, WrittenSameOutcome
  <2> QED BY <2>1, <2>2
<1> QED BY <1>2, <1>3, <1>4, WritersOfRows

\* A recorded outcome is final (forward_learning.py:28-29), for a record that no
\* two requests were after at the same time; only contention can replace it.
THEOREM OutcomeIsFinalHolds == Spec => OutcomeIsFinal
<1> DEFINE Final == \A r \in Records \ contended :
                       rows[r] # None /\ HasOutcome(rows[r]) =>
                       /\ rows'[r].result = rows[r].result
                       /\ rows'[r].excursion = rows[r].excursion
<1>1. TypeOK /\ SerialInv /\ [Next]_vars => Final
  BY OutcomeUnchanged
<1>2. TypeOK /\ SerialInv /\ [Next]_vars => [Final]_vars
  BY <1>1
<1> HIDE DEF Final
<1>3. Spec => [][Final]_vars
  BY <1>2, TypeCorrect, SerialInvHolds, PTL DEF Spec
<1> QED BY <1>3 DEF OutcomeIsFinal, Final

-----------------------------------------------------------------------------
(* One step of one request                                                 *)

Step(q) ==
    \/ Arrive(q) \/ Create(q) \/ GetNothing(q) \/ GetAndMark(q) \/ RefuseOutcome(q)
    \/ GetAndResolve(q) \/ PathUnresolved(q) \/ Load(q) \/ Flush(q) \/ AppendAudit(q)
    \/ Abort(q)

LEMMA NextSteps == [Next]_vars => UNCHANGED vars \/ \E q \in Requests : Step(q)
BY DEF Next, Step

\* A request's step leaves the others' own state alone, and contention is kept.
LEMMA OthersKept ==
    ASSUME TypeOK, NEW q \in Requests, Step(q)
    PROVE  /\ contended \subseteq contended'
           /\ \A p \in Requests : p # q =>
                /\ pc'[p] = pc[p] /\ kind'[p] = kind[p] /\ target'[p] = target[p]
                /\ copy'[p] = copy[p] /\ loaded'[p] = loaded[p] /\ answer'[p] = answer[p]
BY DEF TypeOK, Step, Arrive, Create, GetNothing, GetAndMark, RefuseOutcome, GetAndResolve,
       PathUnresolved, Load, Flush, AppendAudit, Abort, Goto, Reply

\* Once a request has arrived its kind and record are fixed.
LEMMA RequestFixed ==
    ASSUME TypeOK, NEW q \in Requests, Step(q), pc[q] # "idle"
    PROVE  kind' = kind /\ target' = target /\ contended' = contended
BY DEF Step, Arrive, Create, GetNothing, GetAndMark, RefuseOutcome, GetAndResolve,
       PathUnresolved, Load, Flush, AppendAudit, Abort

\* A request after a record on its own sees no other's write.
LEMMA RowKept ==
    ASSUME TypeOK, SerialInv, NEW q \in Requests, Step(q), NEW p \in Requests, p # q,
           InFlight(p), Alone(p)
    PROVE  rows'[target[p]] = rows[target[p]]
<1>1. CASE Create(q) \/ Flush(q)
  <2>1. InFlight(q)
    BY <1>1 DEF Create, Flush, InFlight
  <2>2. target[q] # target[p]
    BY <2>1 DEF SerialInv
  <2>3. target[p] \in Records
    BY DEF TypeOK, InFlight
  <2> QED BY <1>1, <2>2, <2>3 DEF Create, Flush, TypeOK
<1>2. CASE ~ (Create(q) \/ Flush(q))
  BY <1>2 DEF Step, Arrive, GetNothing, GetAndMark, RefuseOutcome, GetAndResolve,
              PathUnresolved, Load, AppendAudit, Abort
<1> QED BY <1>1, <1>2

\* What a step of q other than the three on the way from read to write leads to.
LEMMA AwayFromWrite ==
    ASSUME TypeOK, NEW q \in Requests, Step(q), pc'[q] \in {"load", "flush"}
    PROVE  GetAndMark(q) \/ GetAndResolve(q) \/ Load(q)
BY DEF TypeOK, Step, Arrive, Create, GetNothing, RefuseOutcome,
       PathUnresolved, Flush, AppendAudit, Abort, Goto, Reply

\* The endpoint's change of a row.
LEMMA MarkFields ==
    ASSUME NEW row \in Rows, NEW q \in Requests, kind[q] \in Marks
    PROVE  /\ Mark(row, q).flags = row.flags \union {kind[q]}
           /\ Mark(row, q).reasons = IF kind[q] = "missed" THEN row.reasons \union {q}
                                     ELSE row.reasons
           /\ Mark(row, q).result = row.result /\ Mark(row, q).excursion = row.excursion
BY DEF Mark, Rows

LEMMA ResolveFields ==
    ASSUME NEW row \in Rows, NEW q, NEW e
    PROVE  LET new == [row EXCEPT !.result = q, !.excursion = e]
           IN  /\ new.result = q /\ new.excursion = e
               /\ new.flags = row.flags /\ new.reasons = row.reasons
BY DEF Rows

\* A write over the row that was loaded is the copy, but for the outcome columns
\* of a copy without an outcome.
LEMMA WrittenSerial ==
    ASSUME NEW row \in Rows, NEW new \in Rows
    PROVE  /\ Written(row, row, new).flags = new.flags
           /\ Written(row, row, new).reasons = new.reasons
           /\ HasOutcome(new) => /\ Written(row, row, new).result = new.result
                                 /\ Written(row, row, new).excursion = new.excursion
           /\ ~ HasOutcome(new) => /\ Written(row, row, new).result = row.result
                                   /\ Written(row, row, new).excursion = row.excursion
<1>1. AssignedFlags(row, row, new) = new.flags
  BY DEF AssignedFlags, Rows
<1> QED BY <1>1 DEF Written, Assigned

LEMMA WrittenResult ==
    ASSUME NEW row \in Rows, NEW old \in Rows, NEW new \in Rows
    PROVE  /\ Written(row, old, new).result \in {row.result, new.result}
           /\ HasOutcome(new) /\ new.result # old.result =>
                Written(row, old, new).result = new.result
BY DEF Written, Assigned

LEMMA FlushRow ==
    ASSUME TypeOK, NEW q \in Requests, Flush(q)
    PROVE  /\ target[q] \in Records /\ rows[target[q]] \in Rows
           /\ loaded[q] \in Rows /\ copy[q] \in Rows
           /\ rows'[target[q]] = Written(rows[target[q]], loaded[q], copy[q])
           /\ rows'[target[q]] \in Rows
           /\ \A r \in Records : r # target[q] => rows'[r] = rows[r]
<1>1. target[q] \in Records /\ rows[target[q]] \in Rows /\ loaded[q] \in Rows /\ copy[q] \in Rows
  BY DEF TypeOK, Flush
<1> QED BY <1>1, WrittenRow DEF Flush, TypeOK

-----------------------------------------------------------------------------
(* The copy between read and write                                         *)

\* What a request carries from its read to its write: its own change, on top of
\* what was in the record.
Resolves(q) == kind[q] \in {"forward_test", "outcome"}
HasMark(row, q) == kind[q] \in row.flags /\ (kind[q] = "missed" => q \in row.reasons)
CopyOf(q) ==
    /\ Resolves(q) => copy[q].result = q
    /\ kind[q] \in Marks => HasMark(copy[q], q)
    /\ Alone(q) => /\ rows[target[q]].flags \subseteq copy[q].flags
                   /\ rows[target[q]].reasons \subseteq copy[q].reasons
                   /\ copy[q].excursion \in {None, copy[q].result}

CopyInv == \A q \in Requests : pc[q] \in {"load", "flush"} => CopyOf(q)

LEMMA NextCopyInv ==
    ASSUME TypeOK, SerialInv, OutcomeIsWhole, CopyInv, [Next]_vars
    PROVE  CopyInv'
<1> SUFFICES ASSUME NEW p \in Requests, pc'[p] \in {"load", "flush"} PROVE CopyOf(p)'
  BY DEF CopyInv
<1>0. pc[p] \in {"load", "flush"} => CopyOf(p)
  BY DEF CopyInv
<1>1. CASE UNCHANGED vars
  BY <1>0, <1>1 DEF vars, CopyOf, Resolves, HasMark, Alone
<1>2. ASSUME NEW q \in Requests, Step(q), p # q PROVE CopyOf(p)'
  <2>1. /\ pc[p] \in {"load", "flush"} /\ kind'[p] = kind[p] /\ target'[p] = target[p]
        /\ copy'[p] = copy[p] /\ contended \subseteq contended'
    BY <1>2, OthersKept
  <2>2. CopyOf(p) /\ InFlight(p)
    BY <1>0, <2>1 DEF InFlight
  <2>3. Alone(p)' => Alone(p) /\ rows'[target[p]] = rows[target[p]]
    BY <1>2, <2>1, <2>2, RowKept DEF Alone
  <2> QED BY <2>1, <2>2, <2>3 DEF CopyOf, Resolves, HasMark
<1>3. CASE Step(p)
  <2>0. /\ GetAndMark(p) \/ GetAndResolve(p) \/ Load(p)
        /\ rows[target[p]] \in Rows /\ target[p] \in Records
    BY <1>3, AwayFromWrite DEF GetAndMark, GetAndResolve, Load, TypeOK
  <2>1. /\ kind' = kind /\ target' = target /\ contended' = contended /\ rows' = rows
    BY <2>0 DEF GetAndMark, GetAndResolve, Load
  <2>2. Alone(p) => rows[target[p]].excursion \in {None, rows[target[p]].result}
    BY <2>0, RecordAssumption DEF OutcomeIsWhole, Alone
  <2>3. CASE GetAndMark(p)
    <3>1. copy'[p] = Mark(rows[target[p]], p) /\ kind[p] \in Marks
      BY <2>3 DEF GetAndMark, TypeOK
    <3>2. ~ Resolves(p)
      BY <3>1 DEF Resolves, Marks
    <3> DEFINE row == rows[target[p]]
               new == Mark(row, p)
    <3>3. /\ new.flags = row.flags \union {kind[p]}
          /\ new.reasons = IF kind[p] = "missed" THEN row.reasons \union {p} ELSE row.reasons
          /\ new.result = row.result /\ new.excursion = row.excursion
      BY <2>0, <3>1, MarkFields
    <3>4. copy'[p] = new /\ kind'[p] = kind[p] /\ rows'[target'[p]] = row /\ (Alone(p)' => Alone(p))
      BY <2>1, <3>1 DEF Alone
    <3>5. Alone(p) => row.excursion \in {None, row.result}
      BY <2>2
    <3>6. ~ Resolves(p)'
      BY <2>1, <3>2 DEF Resolves
    <3> HIDE DEF row, new
    <3> QED BY <3>3, <3>4, <3>5, <3>6 DEF CopyOf, HasMark
  <2>4. CASE GetAndResolve(p)
    <3>1. PICK e \in {p, None} :
            copy'[p] = [rows[target[p]] EXCEPT !.result = p, !.excursion = e]
      BY <2>4 DEF GetAndResolve, TypeOK
    <3>2. kind[p] \notin Marks
      BY <2>4 DEF GetAndResolve, Marks
    <3> QED BY <2>0, <2>1, <3>1, <3>2, ResolveFields DEF CopyOf, Resolves, Alone
  <2>5. CASE Load(p)
    <3>1. pc[p] = "load" /\ copy' = copy
      BY <2>5 DEF Load
    <3> QED BY <1>0, <2>1, <3>1 DEF CopyOf, Resolves, HasMark, Alone
  <2> QED BY <2>0, <2>3, <2>4, <2>5
<1> QED BY <1>1, <1>2, <1>3, NextSteps

-----------------------------------------------------------------------------
(* A row holds one evaluation                                              *)

LEMMA NextOutcomeIsWhole ==
    ASSUME TypeOK, SerialInv, CopyInv, OutcomeIsWhole, [Next]_vars
    PROVE  OutcomeIsWhole'
<1> SUFFICES ASSUME NEW r \in Records, r \notin contended', rows'[r] # None
             PROVE  rows'[r].excursion \in {None, rows'[r].result}
  BY DEF OutcomeIsWhole
<1>0. r \notin contended
  BY NextSteps, OthersKept DEF vars
<1>1. CASE rows' = rows
  BY <1>0, <1>1 DEF OutcomeIsWhole
<1>2. ASSUME NEW q \in Requests, Create(q)
      PROVE  rows'[r].excursion \in {None, rows'[r].result}
  BY <1>0, <1>2 DEF Create, TypeOK, OutcomeIsWhole, NewRow
<1>3. ASSUME NEW q \in Requests, Flush(q)
      PROVE  rows'[r].excursion \in {None, rows'[r].result}
  <2>1. CASE r # target[q]
    BY <1>0, <1>3, <2>1, FlushRow DEF OutcomeIsWhole
  <2>2. CASE r = target[q]
    <3>1. rows[r] \in Rows /\ copy[q] \in Rows /\ rows'[r] = Written(rows[r], loaded[q], copy[q])
      BY <1>3, <2>2, FlushRow
    <3>2. /\ loaded[q] = rows[r] /\ copy[q].excursion \in {None, copy[q].result}
      BY <1>0, <1>3, <2>2 DEF Flush, SerialInv, CopyInv, CopyOf, Alone
    <3>3. rows[r].excursion \in {None, rows[r].result}
      BY <1>0, <3>1, RecordAssumption DEF OutcomeIsWhole
    <3> QED BY <3>1, <3>2, <3>3, WrittenSerial
  <2> QED BY <2>1, <2>2
<1> QED BY <1>1, <1>2, <1>3, WritersOfRows

LEMMA InitCopies == Init => CopyInv /\ OutcomeIsWhole
BY DEF Init, CopyInv, OutcomeIsWhole

\* The result and the excursion of a record that no two requests were after come
\* from one evaluation, or the excursion was not given (app.py:301-416).
THEOREM OutcomeIsWholeHolds == Spec => []OutcomeIsWhole
<1> DEFINE Inv == CopyInv /\ OutcomeIsWhole
<1>1. Init => Inv
  BY InitCopies
<1>2. TypeOK /\ SerialInv /\ Inv /\ [Next]_vars => Inv'
  BY NextCopyInv, NextOutcomeIsWhole
<1>3. Inv => OutcomeIsWhole
  OBVIOUS
<1> HIDE DEF Inv
<1> QED BY <1>1, <1>2, <1>3, TypeCorrect, SerialInvHolds, PTL DEF Spec

-----------------------------------------------------------------------------
(* An outcome is written once                                              *)

\* An outcome comes from the one write of its request: before it, no row and no
\* other request has seen that outcome.
FreshInv ==
    \A q \in Requests : pc[q] \notin {"audit", "done"} =>
        /\ \A r \in Records : rows[r] # None => rows[r].result # q
        /\ \A p \in Requests : loaded[p].result # q /\ (p # q => copy[p].result # q)

LEMMA InitFreshInv == Init => FreshInv
BY RecordAssumption DEF Init, FreshInv, NewRow

LEMMA NextFreshInv ==
    ASSUME TypeOK, FreshInv, [Next]_vars
    PROVE  FreshInv'
<1> DEFINE FreshRows(p) == \A r \in Records : rows[r] # None => rows[r].result # p
           FreshCopies(p) == \A o \in Requests : /\ loaded[o].result # p
                                                 /\ p # o => copy[o].result # p
<1> SUFFICES ASSUME NEW p \in Requests, pc'[p] \notin {"audit", "done"}
             PROVE  FreshRows(p)' /\ FreshCopies(p)'
  BY DEF FreshInv
<1>1. CASE UNCHANGED vars
  BY <1>1 DEF FreshInv, vars
<1>2. ASSUME NEW q \in Requests, Step(q) PROVE FreshRows(p)' /\ FreshCopies(p)'
  <2>1. pc[p] \notin {"audit", "done"}
    <3>1. CASE p # q
      BY <1>2, <3>1, OthersKept
    <3>2. CASE p = q
      BY <1>2, <3>2 DEF TypeOK, Step, Arrive, Create, GetNothing, GetAndMark, RefuseOutcome,
         GetAndResolve, PathUnresolved, Load, Flush, AppendAudit, Abort, InFlight, Goto, Reply
    <3> QED BY <3>1, <3>2
  <2>2. FreshRows(p) /\ FreshCopies(p)
    BY <2>1 DEF FreshInv
  <2>3. FreshRows(p)'
    <3>1. CASE rows' = rows
      BY <2>2, <3>1
    <3>2. ASSUME NEW o \in Requests, Create(o) PROVE FreshRows(p)'
      BY <2>2, <3>2, RecordAssumption DEF Create, TypeOK, NewRow
    <3>3. ASSUME NEW o \in Requests, Flush(o) PROVE FreshRows(p)'
      <4>1. p # o
        BY <3>3 DEF Flush, Goto, TypeOK
      <4>2. rows[target[o]].result # p /\ copy[o].result # p
        BY <2>2, <3>3, <4>1, FlushRow, RecordAssumption
      <4>3. rows'[target[o]].result # p
        BY <3>3, <4>2, FlushRow, WrittenResult
      <4> QED BY <2>2, <3>3, <4>3, FlushRow
    <3> QED BY <3>1, <3>2, <3>3, WritersOfRows
  <2>4. FreshCopies(p)'
    <3>1. CASE Load(q)
      <4>1. rows[target[q]] # None /\ target[q] \in Records
        BY <3>1 DEF Load, TypeOK
      <4> QED BY <2>2, <3>1, <4>1 DEF Load, TypeOK
    <3>2. CASE GetAndMark(q)
      <4>1. rows[target[q]] \in Rows /\ rows[target[q]] # None /\ target[q] \in Records
        BY <3>2 DEF GetAndMark, TypeOK
      <4>2. Mark(rows[target[q]], q).result # p
        BY <2>2, <3>2, <4>1, MarkFields, ZenonT(30) DEF GetAndMark
      <4> QED BY <2>2, <3>2, <4>2 DEF GetAndMark, TypeOK
    <3>3. CASE GetAndResolve(q)
      <4>1. rows[target[q]] \in Rows
        BY <3>3 DEF GetAndResolve, TypeOK
      <4>2. copy'[q].result = q
        BY <3>3, <4>1, ResolveFields DEF GetAndResolve, TypeOK
      <4>3. loaded' = loaded /\ \A o \in Requests : o # q => copy'[o] = copy[o]
        BY <3>3 DEF GetAndResolve, TypeOK
      <4> QED BY <2>2, <4>2, <4>3
    <3>4. CASE ~ (Load(q) \/ GetAndMark(q) \/ GetAndResolve(q))
      <4>1. loaded' = loaded /\ copy' = copy
        BY <1>2, <3>4 DEF Step, Arrive, Create, GetNothing, RefuseOutcome, PathUnresolved,
                          Flush, AppendAudit, Abort
      <4> QED BY <2>2, <4>1
    <3> QED BY <3>1, <3>2, <3>3, <3>4
  <2> QED BY <2>3, <2>4
<1> QED BY <1>1, <1>2, NextSteps

-----------------------------------------------------------------------------
(* What was answered is recorded                                           *)

\* What was written is there when it is audited and when it is answered.
RecordedInv ==
    \A q \in Requests :
        /\ answer[q] # "none" => pc[q] = "done"
        /\ pc[q] = "create" => kind[q] = "discovery"
        /\ pc[q] = "audit" \/ answer[q] = "ok" =>
            /\ rows[target[q]] # None
            /\ Resolves(q) => HasOutcome(rows[target[q]])
            /\ kind[q] \in Marks /\ Alone(q) => HasMark(rows[target[q]], q)

\* A mark that is in a record stays there while the record is not contended.
LEMMA MarkKept ==
    ASSUME TypeOK, SerialInv, CopyInv, [Next]_vars, NEW r \in Records, r \notin contended,
           rows[r] # None
    PROVE  /\ rows'[r] # None
           /\ rows[r].flags \subseteq rows'[r].flags
           /\ rows[r].reasons \subseteq rows'[r].reasons
<1>1. CASE rows' = rows
  BY <1>1
<1>2. ASSUME NEW q \in Requests, Create(q) PROVE rows'[r] = rows[r]
  BY <1>2 DEF Create, TypeOK
<1>3. ASSUME NEW q \in Requests, Flush(q)
      PROVE  /\ rows'[r] # None
             /\ rows[r].flags \subseteq rows'[r].flags
             /\ rows[r].reasons \subseteq rows'[r].reasons
  <2>1. CASE r # target[q]
    BY <1>3, <2>1, FlushRow
  <2>2. CASE r = target[q]
    <3>1. loaded[q] = rows[r] /\ rows[r].flags \subseteq copy[q].flags
          /\ rows[r].reasons \subseteq copy[q].reasons
      BY <1>3, <2>2 DEF Flush, SerialInv, CopyInv, CopyOf, Alone
    <3>2. /\ rows[r] \in Rows /\ copy[q] \in Rows /\ rows'[r] \in Rows
          /\ rows'[r] = Written(rows[r], rows[r], copy[q])
      BY <1>3, <2>2, <3>1, FlushRow
    <3>3. rows'[r].flags = copy[q].flags /\ rows'[r].reasons = copy[q].reasons
      BY <3>2, WrittenSerial
    <3> QED BY <3>1, <3>2, <3>3, RecordAssumption
  <2> QED BY <2>1, <2>2
<1> QED BY <1>1, <1>2, <1>3, WritersOfRows

\* RecordedInv for one request, from its write on.
RecordedFor(q) ==
    /\ rows[target[q]] # None
    /\ Resolves(q) => HasOutcome(rows[target[q]])
    /\ kind[q] \in Marks /\ Alone(q) => HasMark(rows[target[q]], q)

\* A step keeps what is recorded for a request whose kind and record it keeps.
LEMMA RecordedKept ==
    ASSUME TypeOK, SerialInv, CopyInv, [Next]_vars, NEW p \in Requests,
           kind'[p] = kind[p], target'[p] = target[p], contended \subseteq contended',
           target[p] \in Records, RecordedFor(p)
    PROVE  RecordedFor(p)'
<1>1. rows[target[p]] # None
  BY DEF RecordedFor
<1>2. rows'[target[p]] # None
  <2>1. \A r \in Records : rows[r] # None => rows'[r] # None
    <3>1. \A q \in Requests : Create(q) => \A r \in Records : rows[r] # None => rows'[r] # None
      BY DEF Create, TypeOK
    <3>2. \A q \in Requests : Flush(q) => \A r \in Records : rows[r] # None => rows'[r] # None
      BY FlushRow, RecordAssumption
    <3> QED BY <3>1, <3>2, WritersOfRows
  <2> QED BY <1>1, <2>1
<1>3. Resolves(p)' => HasOutcome(rows'[target[p]])
  <2>1. Resolves(p)' => HasOutcome(rows[target[p]])
    BY DEF RecordedFor, Resolves
  <2> QED BY <1>1, <2>1, OutcomeKept
<1>4. ASSUME kind[p] \in Marks, target[p] \notin contended' PROVE HasMark(rows[target[p]], p)'
  <2>1. HasMark(rows[target[p]], p) /\ target[p] \notin contended
    BY <1>4 DEF RecordedFor, Alone
  <2>2. /\ rows[target[p]].flags \subseteq rows'[target[p]].flags
        /\ rows[target[p]].reasons \subseteq rows'[target[p]].reasons
    BY <1>1, <2>1, MarkKept
  <2> QED BY <2>1, <2>2 DEF HasMark
<1> QED BY <1>2, <1>3, <1>4 DEF RecordedFor, Alone, HasMark, HasOutcome

LEMMA InitRecordedInv == Init => RecordedInv
BY DEF Init, RecordedInv

LEMMA NextRecordedInv ==
    ASSUME TypeOK, SerialInv, CopyInv, FreshInv, RecordedInv, [Next]_vars
    PROVE  RecordedInv'
<1> SUFFICES ASSUME NEW p \in Requests
             PROVE  /\ answer'[p] # "none" => pc'[p] = "done"
                    /\ pc'[p] = "create" => kind'[p] = "discovery"
                    /\ pc'[p] = "audit" \/ answer'[p] = "ok" => RecordedFor(p)'
  BY DEF RecordedInv, RecordedFor
<1>0. /\ answer[p] # "none" => pc[p] = "done"
      /\ pc[p] = "create" => kind[p] = "discovery"
      /\ pc[p] = "audit" \/ answer[p] = "ok" => RecordedFor(p)
  BY DEF RecordedInv, RecordedFor
<1>1. CASE UNCHANGED vars
  BY <1>0, <1>1 DEF vars, RecordedFor, Resolves, HasOutcome, HasMark, Alone
<1>2. ASSUME NEW q \in Requests, Step(q), p # q
      PROVE  /\ answer'[p] # "none" => pc'[p] = "done"
             /\ pc'[p] = "create" => kind'[p] = "discovery"
             /\ pc'[p] = "audit" \/ answer'[p] = "ok" => RecordedFor(p)'
  <2>1. /\ pc'[p] = pc[p] /\ kind'[p] = kind[p] /\ target'[p] = target[p]
        /\ answer'[p] = answer[p] /\ contended \subseteq contended'
    BY <1>2, OthersKept
  <2>2. pc[p] = "audit" \/ answer[p] = "ok" => target[p] \in Records
    BY <1>0 DEF TypeOK
  <2> QED BY <1>0, <2>1, <2>2, RecordedKept
<1>3. CASE Step(p)
  <2>0. pc[p] # "done"
    BY <1>3 DEF Step, Arrive, Create, GetNothing, GetAndMark, RefuseOutcome, GetAndResolve,
                PathUnresolved, Load, Flush, AppendAudit, Abort, InFlight
  <2>1. answer[p] = "none"
    BY <1>0, <2>0
  <2>2. answer'[p] # "none" => pc'[p] = "done"
    BY <1>3, <2>1 DEF TypeOK, Step, Arrive, Create, GetNothing, GetAndMark, RefuseOutcome,
       GetAndResolve, PathUnresolved, Load, Flush, AppendAudit, Abort, Goto, Reply
  <2>3. pc'[p] = "create" => kind'[p] = "discovery"
    BY <1>3 DEF TypeOK, Step, Arrive, Create, GetNothing, GetAndMark, RefuseOutcome,
       GetAndResolve, PathUnresolved, Load, Flush, AppendAudit, Abort, Goto, Reply
  <2>4. pc'[p] = "audit" \/ answer'[p] = "ok" => Create(p) \/ Flush(p) \/ AppendAudit(p)
    BY <1>3, <2>1 DEF TypeOK, Step, Arrive, GetNothing, GetAndMark, RefuseOutcome,
       GetAndResolve, PathUnresolved, Load, Abort, Goto, Reply
  <2>5. CASE Create(p)
    <3>1. /\ kind'[p] = "discovery" /\ target' = target /\ target[p] \in Records
          /\ rows'[target[p]] = NewRow
      BY <1>0, <2>5 DEF Create, TypeOK
    <3>2. NewRow # None
      BY NewRowIsRow, RecordAssumption
    <3> QED BY <2>2, <2>3, <3>1, <3>2 DEF RecordedFor, Resolves, Marks
  <2>6. CASE Flush(p)
    <3> DEFINE row == rows[target[p]]
    <3>1. /\ target[p] \in Records /\ row \in Rows /\ loaded[p] \in Rows /\ copy[p] \in Rows
          /\ rows'[target[p]] = Written(row, loaded[p], copy[p]) /\ rows'[target[p]] \in Rows
      BY <2>6, FlushRow
    <3>2. kind' = kind /\ target' = target /\ contended' = contended /\ pc[p] = "flush"
      BY <2>6 DEF Flush
    <3>3. ASSUME Resolves(p) PROVE HasOutcome(rows'[target[p]])
      <4>1. copy[p].result = p /\ loaded[p].result # p
        BY <3>2, <3>3 DEF CopyInv, CopyOf, FreshInv
      <4>2. rows'[target[p]].result = p
        BY <3>1, <4>1, WrittenResult, RecordAssumption DEF HasOutcome
      <4> QED BY <4>2, RecordAssumption DEF HasOutcome
    <3>4. ASSUME kind[p] \in Marks, Alone(p) PROVE HasMark(rows'[target[p]], p)
      <4>1. HasMark(copy[p], p) /\ loaded[p] = row
        BY <3>2, <3>4 DEF CopyInv, CopyOf, SerialInv
      <4>2. rows'[target[p]].flags = copy[p].flags /\ rows'[target[p]].reasons = copy[p].reasons
        BY <3>1, <4>1, WrittenSerial
      <4> QED BY <4>1, <4>2 DEF HasMark
    <3> QED BY <2>2, <2>3, <3>1, <3>2, <3>3, <3>4, RecordAssumption
            DEF RecordedFor, Resolves, Alone, HasOutcome, HasMark
  <2>7. CASE AppendAudit(p)
    <3>1. /\ kind' = kind /\ target' = target /\ contended' = contended /\ rows' = rows
          /\ pc[p] = "audit"
      BY <2>7 DEF AppendAudit
    <3> QED BY <1>0, <2>2, <2>3, <3>1 DEF RecordedFor, Resolves, Alone, HasOutcome, HasMark
  <2> QED BY <2>2, <2>3, <2>4, <2>5, <2>6, <2>7
<1> QED BY <1>1, <1>2, <1>3, NextSteps

\* RecordedInv and what it rests on.
WriteInv == CopyInv /\ OutcomeIsWhole /\ FreshInv /\ RecordedInv

LEMMA InitWriteInv == Init => WriteInv
BY InitCopies, InitFreshInv, InitRecordedInv DEF WriteInv

LEMMA NextWriteInv == TypeOK /\ SerialInv /\ WriteInv /\ [Next]_vars => WriteInv'
BY NextCopyInv, NextOutcomeIsWhole, NextFreshInv, NextRecordedInv DEF WriteInv

\* What a request that was answered added to a record stays there, while no two
\* requests are after that record at the same time (app.py:332-372).
THEOREM AnsweredIsRecordedHolds == Spec => []AnsweredIsRecorded
<1>1. WriteInv => AnsweredIsRecorded
  BY DEF WriteInv, RecordedInv, AnsweredIsRecorded, Alone, HasMark
<1> QED BY <1>1, InitWriteInv, NextWriteInv, TypeCorrect, SerialInvHolds, PTL DEF Spec

-----------------------------------------------------------------------------
(* The audit tells one outcome per record, and one the table has           *)

\* The outcomes the audit tells are in the table, and a request that resolves a
\* record on its own finds none told of it yet.
Tells(e, r) == e.kind \in {"forward_test", "outcome"} /\ e.record = r
AuditInv ==
    /\ \A i \in DOMAIN audit, r \in Records :
        Tells(audit[i], r) => rows[r] # None /\ HasOutcome(rows[r])
    /\ ResolvedOnce
    /\ \A q \in Requests :
        pc[q] \in {"load", "flush", "audit"} /\ Resolves(q) /\ Alone(q) =>
            \A i \in DOMAIN audit : ~ Tells(audit[i], target[q])

LEMMA InitAuditInv == Init => AuditInv
BY DEF Init, AuditInv, ResolvedOnce

\* The three parts of AuditInv after one more row, or none.
LEMMA NextAuditInv ==
    ASSUME TypeOK, SerialInv, WriteInv, AuditInv, [Next]_vars
    PROVE  AuditInv'
<1> DEFINE Free(q) == pc[q] \in {"load", "flush", "audit"} /\ Resolves(q) /\ Alone(q) =>
                        \A i \in DOMAIN audit : ~ Tells(audit[i], target[q])
           Told == \A i \in DOMAIN audit, r \in Records :
                        Tells(audit[i], r) => rows[r] # None /\ HasOutcome(rows[r])
<1>0. Told /\ ResolvedOnce /\ \A q \in Requests : Free(q)
  BY DEF AuditInv
<1> SUFFICES Told' /\ ResolvedOnce' /\ \A q \in Requests : Free(q)'
  BY DEF AuditInv
<1>1. CASE UNCHANGED vars
  BY <1>0, <1>1 DEF vars, ResolvedOnce, Resolves, Alone
<1>2. ASSUME NEW q \in Requests, Step(q), ~ AppendAudit(q)
      PROVE  Told' /\ ResolvedOnce' /\ \A p \in Requests : Free(p)'
  <2>1. audit' = audit
    BY <1>2 DEF Step, Arrive, Create, GetNothing, GetAndMark, RefuseOutcome, GetAndResolve,
                PathUnresolved, Load, Flush, Abort
  <2>2. contended \subseteq contended'
    BY <1>2, OthersKept
  <2>3. Told'
    BY <1>0, <2>1, OutcomeKept
  <2>4. ResolvedOnce'
    BY <1>0, <2>1, <2>2 DEF ResolvedOnce
  <2>5. ASSUME NEW p \in Requests, p # q PROVE Free(p)'
    BY <1>0, <1>2, <2>1, <2>2, <2>5, OthersKept DEF Resolves, Alone
  <2>6. Free(q)'
    <3>1. CASE GetAndResolve(q)
      <4>1. ~ HasOutcome(rows[target[q]]) /\ target' = target /\ target[q] \in Records
        BY <3>1 DEF GetAndResolve, MayResolve, TypeOK
      <4> QED BY <1>0, <2>1, <4>1
    <3>2. CASE Load(q) \/ Flush(q)
      <4>1. /\ pc[q] \in {"load", "flush"} /\ kind' = kind /\ target' = target
            /\ contended' = contended
        BY <3>2 DEF Load, Flush
      <4> QED BY <1>0, <2>1, <4>1 DEF Resolves, Alone
    <3>3. CASE ~ (GetAndResolve(q) \/ Load(q) \/ Flush(q))
      <4>1. pc'[q] \in {"load", "flush", "audit"} => kind'[q] \in Marks \union {"discovery"}
        BY <1>2, <3>3 DEF WriteInv, RecordedInv, TypeOK, Step, Arrive, Create, GetNothing,
           GetAndMark, RefuseOutcome, PathUnresolved, Abort, Goto, Reply
      <4> QED BY <4>1 DEF Resolves, Marks
    <3> QED BY <3>1, <3>2, <3>3
  <2> QED BY <2>3, <2>4, <2>5, <2>6
<1>3. ASSUME NEW q \in Requests, AppendAudit(q)
      PROVE  Told' /\ ResolvedOnce' /\ \A p \in Requests : Free(p)'
  <2> DEFINE e == [kind |-> kind[q], record |-> target[q], by |-> q]
             n == Len(audit)
  <2>1. /\ pc[q] = "audit" /\ audit' = Append(audit, e) /\ InFlight(q) /\ target[q] \in Records
        /\ kind' = kind /\ target' = target /\ contended' = contended /\ rows' = rows
    BY <1>3 DEF AppendAudit, InFlight, TypeOK
  <2>2. /\ DOMAIN audit = 1 .. n /\ n \in Nat /\ DOMAIN audit' = 1 .. n + 1
        /\ \A i \in 1 .. n : audit'[i] = audit[i]
        /\ audit'[n + 1] = e
    BY <2>1 DEF TypeOK
  <2>3. \A r : Tells(e, r) <=> Resolves(q) /\ r = target[q]
    BY DEF Tells, Resolves
  <2>4. Resolves(q) => rows[target[q]] # None /\ HasOutcome(rows[target[q]])
    BY <2>1 DEF WriteInv, RecordedInv
  <2>5. Resolves(q) /\ Alone(q) => \A i \in 1 .. n : ~ Tells(audit[i], target[q])
    BY <1>0, <2>1, <2>2
  <2>6. \A i \in DOMAIN audit' : i \in 1 .. n \/ i = n + 1
    BY <2>2
  <2> HIDE DEF e, n
  <2>7. Told'
    BY <1>0, <2>1, <2>2, <2>3, <2>4, <2>6
  <2>8. ResolvedOnce'
    <3>1. ResolvedOnce <=> \A i, j \in DOMAIN audit : \A r :
             Tells(audit[i], r) /\ Tells(audit[j], r) /\ r \notin contended => i = j
      BY DEF ResolvedOnce, Tells
    <3>2. ResolvedOnce' <=> \A i, j \in DOMAIN audit' : \A r :
             Tells(audit'[i], r) /\ Tells(audit'[j], r) /\ r \notin contended' => i = j
      BY DEF ResolvedOnce, Tells
    <3> SUFFICES ASSUME NEW i \in DOMAIN audit', NEW j \in DOMAIN audit', NEW r,
                        Tells(audit'[i], r), Tells(audit'[j], r), r \notin contended'
                 PROVE  i = j
      BY <3>2
    <3>3. CASE i \in 1 .. n /\ j \in 1 .. n
      BY <1>0, <2>1, <2>2, <3>1, <3>3
    <3>4. CASE i = n + 1 /\ j \in 1 .. n
      BY <2>1, <2>2, <2>3, <2>5, <3>4 DEF Alone
    <3>5. CASE i \in 1 .. n /\ j = n + 1
      BY <2>1, <2>2, <2>3, <2>5, <3>5 DEF Alone
    <3> QED BY <2>6, <3>3, <3>4, <3>5
  <2>9. ASSUME NEW p \in Requests PROVE Free(p)'
    <3>1. CASE p = q
      BY <1>3, <3>1 DEF AppendAudit, Reply, TypeOK
    <3>2. ASSUME p # q, pc'[p] \in {"load", "flush", "audit"}, Resolves(p)', Alone(p)'
          PROVE  \A i \in DOMAIN audit' : ~ Tells(audit'[i], target'[p])
      <4>1. pc[p] \in {"load", "flush", "audit"} /\ InFlight(p) /\ Resolves(p) /\ Alone(p)
        BY <1>3, <2>1, <3>2 DEF AppendAudit, Reply, TypeOK, InFlight, Resolves, Alone
      <4>2. target[p] # target[q]
        BY <2>1, <3>2, <4>1 DEF SerialInv
      <4> QED BY <1>0, <2>1, <2>2, <2>3, <2>6, <4>1, <4>2
    <3> QED BY <3>1, <3>2
  <2> QED BY <2>7, <2>8, <2>9
<1> QED BY <1>1, <1>2, <1>3, NextSteps

\* An element of a sequence over S is in S.
LEMMA ElementOf ==
    ASSUME NEW S, NEW q \in Seq(S), NEW i \in DOMAIN q
    PROVE  q[i] \in S
OBVIOUS

LEMMA AuditInvHolds == Spec => []AuditInv
<1>1. TypeOK /\ SerialInv /\ WriteInv /\ AuditInv /\ [Next]_vars => AuditInv'
  BY NextAuditInv
<1> QED BY <1>1, InitWriteInv, NextWriteInv, InitAuditInv, TypeCorrect, SerialInvHolds, PTL
        DEF Spec

\* Two outcomes of one record are never both acknowledged in the audit, unless
\* two requests were after the record at the same time (app.py:374-416).
THEOREM ResolvedOnceHolds == Spec => []ResolvedOnce
<1>1. AuditInv => ResolvedOnce
  BY DEF AuditInv
<1> QED BY <1>1, AuditInvHolds, PTL

\* An outcome the audit tells of is in the table, however requests overlap: the
\* row is committed before the audit, and no later write takes it back.
THEOREM AuditedIsResolvedHolds == Spec => []AuditedIsResolved
<1>1. TypeOK /\ AuditInv => AuditedIsResolved
  <2> SUFFICES ASSUME TypeOK, AuditInv, NEW i \in DOMAIN audit,
                      audit[i].kind \in {"forward_test", "outcome"}
               PROVE  HasOutcome(rows[audit[i].record])
    BY DEF AuditedIsResolved
  <2>1. audit[i] \in [kind : Kinds, record : Records, by : Requests]
    BY ElementOf DEF TypeOK
  <2> QED BY <2>1 DEF AuditInv, Tells
<1> QED BY <1>1, AuditInvHolds, TypeCorrect, PTL

=============================================================================
