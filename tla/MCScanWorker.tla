---------------------------- MODULE MCScanWorker ----------------------------
(***************************************************************************)
(* Instances of ScanWorker for TLC.  Two enabled scans and a disabled one,   *)
(* as an operator's schedule may have; a market day between two closed ones,  *)
(* so that a list can be worked off after midnight and an old outcome can be  *)
(* dated the day before.  Grace 0 and missed 1 keep the three timeliness     *)
(* classes apart; the first scan is far enough from midnight to be missed.  *)
(***************************************************************************)
EXTENDS ScanWorker, TLC

CONSTANTS daily, primary, midday

MCScans == {daily, primary, midday}
\* A future-dated outcome has a scan run at every poll (MCScanWorker_future):
\* runs with API posts cut behaviours at this many audit rows, one more than two
\* runs with one outcome each.
MCMaxRows == 5
MCShortAudit == Len(audit) <= MCMaxRows

MCTwoTimes == (daily :> 0) @@ (midday :> 1)
MCEnabled == {daily, midday}
MCWorkersSymmetry == Permutations(Workers)
MCTimeOf == (daily :> 0) @@ (primary :> 1) @@ (midday :> 1)

=============================================================================
