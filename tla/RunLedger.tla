----------------------------- MODULE RunLedger ------------------------------
(***************************************************************************)
(* What the durable run state of the scheduler promises, said without       *)
(* polls, processes or audit rows: each run (a scan on a market day) is      *)
(* attempted, perhaps several times, until it has an outcome and never       *)
(* again; the runs of a day are attempted in the order of their times; one   *)
(* run is in progress at a time.                                            *)
(***************************************************************************)
EXTENDS Integers

CONSTANTS Scans, Enabled, TimeOf, ScanDays, Days, NoRun

VARIABLES
    attempted,   \* runs that were ever started
    settled,     \* runs that have an outcome
    running      \* the run in progress, or NoRun

Runs == Enabled \X (ScanDays \cap Days)

\* Outcomes recorded before the ledger began may be of any scan and day.
Init ==
    /\ attempted = {} /\ running = NoRun
    /\ settled = {} \/ \E s \in Scans, d \in Days : settled = {<<s, d>>}

Ready(r) ==
    /\ r \in Runs /\ r \notin settled
    /\ \A s \in Enabled : TimeOf[s] < TimeOf[r[1]] => <<s, r[2]>> \in settled

\* The start of a run is recorded; the process goes on with it or dies.
Begin(r) ==
    /\ running = NoRun /\ Ready(r)
    /\ attempted' = attempted \union {r}
    /\ running' \in {r, NoRun}
    /\ UNCHANGED settled

\* An outcome is recorded, and the process goes on with the run or is done.
Settle ==
    /\ running # NoRun
    /\ settled' = settled \union {running}
    /\ running' \in {running, NoRun}
    /\ UNCHANGED attempted

\* The attempt is given up: the run stays as it is.
Abandon == running # NoRun /\ running' = NoRun /\ UNCHANGED <<attempted, settled>>

Next == (\E r \in Runs : Begin(r)) \/ Settle \/ Abandon

Spec == Init /\ [][Next]_<<attempted, settled, running>>

=============================================================================
