----------------------------- MODULE EventSetup -----------------------------
(***************************************************************************)
(* What else an organiser writes to the ledger through the authority, and  *)
(* what Kippu records beside it: an event's creation and its link          *)
(* (src/src/events/create-event.ts), a zone and its canonical seat         *)
(* positions (src/src/events/zones.ts), a lifted restriction               *)
(* (src/src/events/restrictions.ts).                                       *)
(***************************************************************************)
EXTENDS CapacityProofs

VARIABLES
    links,      \* organiser_events: events linked to the organiser, by the request that made them
    zone,       \* whether the ledger's event has the zone
    positions   \* seat_positions: whether the zone has canonical positions

setupVars == <<links, zone, positions>>

SetupInit(there) == links = {} /\ zone = there /\ positions = there

(* createEvent needs no event; the others read that the organiser owns theirs. *)
Writes == {"createEvent", "addZone", "removeZone", "removeRestriction"}
ArriveToWrite(c) ==
    /\ \E op \in Writes : /\ Arrives(c, op)
                          /\ op # "createEvent" => row.registered
                          /\ call' = [call EXCEPT ![c] = [Idle EXCEPT !.op = op, !.pc = "provision"]]
    /\ UNCHANGED <<setupVars, faults>>

(* A refusal or no verdict changes nothing of Kippu's. *)
NotSettled(c) ==
    /\ call[c].op \in Writes /\ call[c].pc = "after" /\ call[c].verdict # "landed"
    /\ Goto(c, "refused")
    /\ UNCHANGED <<setupVars, faults>>

LinkEventMutant(c) ==
    /\ At(c, "createEvent", "after") /\ call[c].verdict # "refused" /\ FreeConnection
    /\ links' = links \cup {c}
    /\ Goto(c, "linked")
    /\ UNCHANGED <<zone, positions, faults>>

(* createEvent, once settled: INSERT organiser_events ON CONFLICT DO NOTHING *)
LinkEvent(c) ==
    /\ At(c, "createEvent", "after") /\ call[c].verdict = "landed" /\ FreeConnection
    /\ links' = links \cup {c}
    /\ Goto(c, "linked")
    /\ UNCHANGED <<zone, positions, faults>>

(* removeZone, once settled: DELETE FROM seat_positions, a statement of its own *)
ForgetPositions(c) ==
    /\ At(c, "removeZone", "after") /\ call[c].verdict = "landed" /\ FreeConnection
    /\ positions' = FALSE
    /\ Goto(c, "done")
    /\ UNCHANGED <<links, zone, faults>>

NothingFurther(c) ==
    /\ call[c].op \in {"addZone", "removeRestriction"} /\ call[c].pc = "after" /\ call[c].verdict = "landed"
    /\ Goto(c, "done")
    /\ UNCHANGED <<setupVars, faults>>

(* addSeatPositions: the zone is read from the ledger, the positions inserted afterwards *)
AddSeatPositions(c) ==
    \/ Arrives(c, "positions") /\ row.registered /\ Start(c, "positions", 0) /\ UNCHANGED <<setupVars, faults>>
    \/ /\ At(c, "positions", "begun") /\ FreeConnection
       /\ Goto(c, IF zone THEN "read" ELSE "refused")
       /\ UNCHANGED <<setupVars, faults>>
    \/ /\ At(c, "positions", "read") /\ FreeConnection
       /\ positions' = TRUE
       /\ Goto(c, "done")
       /\ UNCHANGED <<links, zone, faults>>

SetupStep(c) == NotSettled(c) \/ LinkEvent(c) \/ ForgetPositions(c) \/ NothingFurther(c)
=============================================================================
