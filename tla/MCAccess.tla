------------------------------ MODULE MCAccess ------------------------------
(* Three calls on one account of each kind. *)
EXTENDS Access
=============================================================================
