---------------------------- MODULE Invitations -----------------------------
(***************************************************************************)
(* One invitation and the holders who redeem it                            *)
(* (src/src/events/invitations.ts), each through a granted issuance        *)
(* (src/src/events/issuance.ts) signed for the invitation's organiser.     *)
(***************************************************************************)
EXTENDS Authority

VARIABLES
    invitation,  \* invitations: status, and the request that redeems it as the holder
    issuance     \* granted_issuances, by the request that reserved it

invitationVars == <<invitation, issuance>>

InvitationInit(there) ==
    /\ invitation = [status |-> IF there THEN "open" ELSE "none", holder |-> None]
    /\ issuance = [c \in Calls |-> "none"]

(* create: the invitation, once, of an event the organiser owns *)
CreateInvitation(c) ==
    /\ Arrives(c, "invite") /\ row.registered /\ invitation.status = "none" /\ FreeConnection
    /\ invitation' = [invitation EXCEPT !.status = "open"]
    /\ call' = [call EXCEPT ![c] = [Idle EXCEPT !.op = "invite", !.pc = "done"]]
    /\ UNCHANGED <<issuance, faults>>

ArriveToRedeem(c) ==
    /\ Arrives(c, "redeem") /\ invitation.status # "none"
    /\ Start(c, "redeem", 0)
    /\ UNCHANGED <<invitationVars, faults>>

ClaimMutant(c) ==
    /\ At(c, "redeem", "begun") /\ FreeConnection
    /\ IF invitation.status \in {"open", "redeeming"}
       THEN /\ invitation' = [status |-> "redeeming", holder |-> c]
            /\ Goto(c, "claimed")
       ELSE Goto(c, "refused") /\ UNCHANGED invitation
    /\ UNCHANGED <<issuance, faults>>

(* redeem: the claim is one UPDATE WHERE status = 'open' *)
Claim(c) ==
    /\ At(c, "redeem", "begun") /\ FreeConnection
    /\ IF invitation.status = "open"
       THEN /\ invitation' = [status |-> "redeeming", holder |-> c]
            /\ Goto(c, "claimed")
       ELSE Goto(c, "refused") /\ UNCHANGED invitation
    /\ UNCHANGED <<issuance, faults>>

(* issueGranted: its checks, and reserve's transaction, which waits for the event's lock *)
BeginReservation(c) ==
    /\ At(c, "redeem", "claimed") /\ FreeConnection
    /\ Goto(c, "lockWait")
    /\ UNCHANGED <<invitationVars, faults>>

(* The event's allocation lock: an approval, a change of asset or a hold keeps it until it commits. *)
EventLocked == \E d \in Calls : OuterTransaction(d) \/ call[d].pc \in {"choosing", "holdRead"}

Reserve(c) ==
    /\ At(c, "redeem", "lockWait") /\ ~EventLocked
    /\ \/ /\ issuance' = [issuance EXCEPT ![c] = "reserved"]
          /\ Goto(c, "provision")
       \/ \* no capacity, quota or seat left, or the class is gone
          /\ call' = [call EXCEPT ![c].verdict = "refused", ![c].pc = "settle"]
          /\ UNCHANGED issuance
    /\ UNCHANGED <<invitation, faults>>

(* A statement of the reservation fails: whatever its caller makes of it, nothing is reserved *)
ReserveFails(c) ==
    /\ At(c, "redeem", "lockWait") /\ faults < MaxFaults
    /\ call' = [call EXCEPT ![c].verdict = "failed", ![c].pc = "settle"]
    /\ faults' = faults + 1
    /\ UNCHANGED invitationVars

(* complete, or the DELETE when nothing was signed *)
CompleteIssuance(c) ==
    /\ At(c, "redeem", "after") /\ FreeConnection
    /\ issuance' = [issuance EXCEPT ![c] = IF call[c].stage = "register" THEN "deleted"
                                           ELSE Outcome(call[c].verdict)]
    /\ Goto(c, "settle")
    /\ UNCHANGED <<invitation, faults>>

SettleMutant(c) ==
    /\ At(c, "redeem", "settle") /\ FreeConnection
    /\ invitation' =
         CASE call[c].verdict = "landed" -> [invitation EXCEPT !.status = "redeemed"]
           [] OTHER -> [status |-> "open", holder |-> None]
    /\ Goto(c, IF call[c].verdict = "landed" THEN "done" ELSE "refused")
    /\ UNCHANGED <<issuance, faults>>

(* A refusal reopens the invitation, a ticket redeems it, and anything else spends it. *)
Settle(c) ==
    /\ At(c, "redeem", "settle") /\ FreeConnection
    /\ invitation' =
         CASE call[c].verdict = "landed" -> [invitation EXCEPT !.status = "redeemed"]
           [] call[c].verdict = "refused" -> [status |-> "open", holder |-> None]
           [] OTHER -> [invitation EXCEPT !.status = "failed"]
    /\ Goto(c, IF call[c].verdict = "landed" THEN "done" ELSE "refused")
    /\ UNCHANGED <<issuance, faults>>

RedeemStep(c) == Claim(c) \/ BeginReservation(c) \/ Reserve(c) \/ CompleteIssuance(c) \/ Settle(c)
=============================================================================
