------------------------------ MODULE MCFinish ------------------------------
(***************************************************************************)
(* Small instances of FinishSchedule.                                      *)
(***************************************************************************)
EXTENDS FinishSchedule

CONSTANTS s1, s2
=============================================================================
