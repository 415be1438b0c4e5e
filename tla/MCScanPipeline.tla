--------------------------- MODULE MCScanPipeline ---------------------------
(***************************************************************************)
(* Instances of ScanPipeline for TLC: the two scans of a market day,    *)
(* two symbols, so that an attempt can fail half-way through its plan.       *)
(***************************************************************************)
EXTENDS ScanPipeline, TLC

CONSTANTS daily, midday

MCScans == {daily, midday}
MCOneTime == (daily :> 0)
MCTimes == (daily :> 0) @@ (midday :> 1)

=============================================================================
