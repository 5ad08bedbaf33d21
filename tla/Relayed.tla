------------------------------ MODULE Relayed -------------------------------
(***************************************************************************)
(* The requests of one organiser, its guests and Kippu's reviewers at      *)
(* once: every ledger write goes through the organiser's authority, and    *)
(* every request through the same locks and the same pool.                 *)
(***************************************************************************)
EXTENDS SaleTerms

vars == <<mix, call, authorityVars, invitationVars, requests, setupVars, termsVars, faults>>

(* A new organiser, who creates the event; or one with an event, an invitation and a request *)
Init ==
    /\ mix \in Mixes
    /\ LET there == "createEvent" \notin mix[1] IN
       /\ AuthorityInit(there) /\ InvitationInit(there) /\ ProofInit(there) /\ SetupInit(there)
       /\ TermsInit(there, \A c \in Calls : "defineClass" \notin mix[c])

(* A request's own next step *)
Step(c) ==
    \/ RelayStep(c) /\ UNCHANGED <<invitationVars, requests, setupVars, termsVars>>
    \/ RedeemStep(c) /\ UNCHANGED <<authorityVars, requests, setupVars, termsVars>>
    \/ ApproveStep(c) /\ UNCHANGED <<authorityVars, invitationVars, setupVars, termsVars>>
    \/ SetupStep(c) /\ UNCHANGED <<authorityVars, invitationVars, requests, termsVars>>
    \/ TermsStep(c) /\ UNCHANGED <<authorityVars, invitationVars, requests, setupVars>>
    \/ /\ Running(c) /\ (RequestIncrease(c) \/ Reject(c))
       /\ UNCHANGED <<authorityVars, invitationVars, setupVars, termsVars>>
    \/ Running(c) /\ AddSeatPositions(c) /\ UNCHANGED <<authorityVars, invitationVars, requests, termsVars>>
    \/ /\ Running(c) /\ (DefineClass(c) \/ SetPrice(c))
       /\ UNCHANGED <<authorityVars, invitationVars, requests, setupVars>>

Arrive(c) ==
    \/ (CreateInvitation(c) \/ ArriveToRedeem(c)) /\ UNCHANGED <<authorityVars, requests, setupVars, termsVars>>
    \/ (ArriveToApprove(c) \/ (~Running(c) /\ (RequestIncrease(c) \/ Reject(c))))
       /\ UNCHANGED <<authorityVars, invitationVars, setupVars, termsVars>>
    \/ (ArriveToWrite(c) \/ (~Running(c) /\ AddSeatPositions(c)))
       /\ UNCHANGED <<authorityVars, invitationVars, requests, termsVars>>
    \/ (ArriveToSetAsset(c) \/ ArriveToHold(c) \/ (~Running(c) /\ (DefineClass(c) \/ SetPrice(c))))
       /\ UNCHANGED <<authorityVars, invitationVars, requests, setupVars>>

Fault(c) ==
    \/ (Lose(c) \/ CompleteFails(c) \/ Stop(c)) /\ UNCHANGED <<invitationVars, requests, setupVars, termsVars>>
    \/ ReserveFails(c) /\ UNCHANGED <<authorityVars, requests, setupVars, termsVars>>

(* The ledger settles an operation, whether or not anyone still waits for it. *)
OpOf(o) == IF o[2] = "register" THEN "register" ELSE call[o[1]].op
Land(o) ==
    /\ ledger[o] = "sent" /\ MayLand(o)
    /\ OpOf(o) = "addZone" => ~zone
    /\ OpOf(o) = "removeZone" => zone
    /\ ledger' = [ledger EXCEPT ![o] = "landed"]
    /\ zone' = CASE OpOf(o) = "addZone" -> TRUE [] OpOf(o) = "removeZone" -> FALSE [] OTHER -> zone
    /\ UNCHANGED <<call, row, keys, audit, signedBy, invitationVars, requests, links, positions, termsVars, faults>>
RefuseOp(o) ==
    /\ ledger[o] = "sent"
    /\ ledger' = [ledger EXCEPT ![o] = "refused"]
    /\ UNCHANGED <<call, row, keys, audit, signedBy, invitationVars, requests, setupVars, termsVars, faults>>
Ledger == \E o \in Ops : Land(o) \/ RefuseOp(o)

Next == (Ledger \/ \E c \in Calls : Arrive(c) \/ Step(c) \/ Fault(c)) /\ UNCHANGED mix

(* Some request that can go on does, and the ledger answers.  No request need arrive. *)
Progress == (Ledger \/ \E c \in Calls : Step(c)) /\ UNCHANGED mix
Fairness == WF_vars(Progress)

Spec == Init /\ [][Next]_vars /\ Fairness

Write(c) == ledger[<<c, "write">>]
Redemptions == {c \in Calls : call[c].op = "redeem"}
Approvals(r) == {c \in Calls : call[c].op = "approve" /\ call[c].arg = r}

(* However many holders redeem it, and whatever is lost or refused on the way, the invitation  *)
(* issues one ticket at most: the redemptions implement OneTicket (invitations.ts redeem).      *)
Invited == INSTANCE OneTicket WITH
    Holders <- Calls, tickets <- {c \in Redemptions : Write(c) = "landed"}
IssuesOneTicket == Invited!Spec

(* An open invitation has issued nothing and no submission of it can still land: it reopens     *)
(* only after a refusal, never after a lost verdict (invitations.ts redeem).                    *)
OpenIssuedNothing ==
    invitation.status = "open" => \A c \in Redemptions : Write(c) \in {"none", "refused"}

(* What Kippu records as settled is on the ledger: a redeemed invitation's ticket, an approved   *)
(* request's proof, a linked event; and an issuance that no longer counts was never issued       *)
(* (issuance.ts complete, proofs/service.ts approve, create-event.ts).                           *)
RecordedIsOnLedger ==
    /\ invitation.status = "redeemed" => Write(invitation.holder) = "landed"
    /\ \A c \in Calls : /\ issuance[c] = "settled" => Write(c) = "landed"
                        /\ issuance[c] \in {"rejected", "deleted"} => Write(c) \in {"none", "refused"}
    /\ \A r \in Rows : requests[r].status = "approved" => Write(requests[r].proof) = "landed"
    /\ \A c \in links : Write(c) = "landed"

(* Every operation the ledger has seen has an audit row, signed with the organiser's one key,    *)
(* and a row that says settled or rejected says what the ledger did (audit/relay.ts,             *)
(* authority.ts).                                                                                *)
AuditTellsTruth ==
    \A o \in Ops :
        /\ ledger[o] # "none" => audit[o] # "none" /\ signedBy[o] = row.key
        /\ audit[o] = "settled" => ledger[o] = "landed"
        /\ audit[o] = "rejected" => ledger[o] = "refused"

(* Concurrent first requests of an organiser make one key between them; another is left behind   *)
(* only by a request that stopped while making it (authority.ts accountRow).                     *)
OneKey == Cardinality(keys) <= 1 + faults /\ (row.key # None => row.key \in keys)

(* Unless something was lost, a request raises the capacity at most once, and not at all if it   *)
(* was rejected, however its approvals and rejections cross (proofs/service.ts approve, reject). *)
RaisedOnce ==
    faults = 0 => \A r \in Rows :
        LET raised == {c \in Approvals(r) : Write(c) = "landed"} IN
        /\ Cardinality(raised) <= 1
        /\ requests[r].status = "rejected" => raised = {}

(* A hold is on the terms in force, for good: its asset stays the event's, and its price was set *)
(* while that asset was, or before there was any, so that no price ever changes its meaning       *)
(* (sale-assets.ts set, allocation.ts saleTerms, holds.ts place).                                 *)
TermsHonoured ==
    \A c \in Calls : holds[c].st = "placed" =>
        holds[c].asset = saleAsset /\ holds[c].in \in {None, saleAsset}

(* In the end no request is left waiting for a lock, a connection or the ledger, although an     *)
(* approval keeps its connection and the event's lock while what it calls needs another          *)
(* connection: the pool has one more than there are requests (proofs/service.ts approve,         *)
(* authority.ts accountRow, store/store.ts).                                                     *)
CallsEnd == <>[](\A c \in Calls : ~Running(c))
=============================================================================
