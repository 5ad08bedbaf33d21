----------------------------- MODULE OneTicket ------------------------------
(***************************************************************************)
(* What an invitation promises: one ticket, to one of the holders who      *)
(* answer it, for good.                                                    *)
(***************************************************************************)
CONSTANT Holders
VARIABLE tickets  \* the holders the invitation's ticket was issued to

Init == tickets = {}
Next == tickets = {} /\ \E h \in Holders : tickets' = {h}
Spec == Init /\ [][Next]_tickets
=============================================================================
