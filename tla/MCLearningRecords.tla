------------------------- MODULE MCLearningRecords -------------------------
(***************************************************************************)
(* The instance of LearningRecords for TLC: four requests on one record      *)
(* let two overlap after the one that creates it and still leave a later     *)
(* reader; the behaviours in which none overlap are among these.            *)
(***************************************************************************)
EXTENDS LearningRecords, TLC

MCSymmetry == Permutations(Requests)

=============================================================================
