-------------------------- MODULE GrantedIssuance --------------------------
(***************************************************************************)
(* Granted issuance (src/events/issuance.ts): the organiser's free         *)
(* tickets, allocated with the same accounting and under the same locks as *)
(* holds; and the ledger (external), which decides every issuance.         *)
(***************************************************************************)
EXTENDS SalesState

\* reserve: under the allocation locks.  Capacity is the ledger's to refuse unless Active.
Reserve(g) ==
    LET counted == Lapse(hold) IN
    /\ grant[g] = "none"
    /\ AssertFree(SeatOf[g]) /\ ~SeatHeld(counted, SeatOf[g])
    /\ evStatus = "Active" => CapacityHasRoom(counted)
    /\ QuotaHasRoom(counted, ClassOf[g])
    /\ grant' = [grant EXCEPT ![g] = "pending"]
    /\ work' = [work EXCEPT ![g] = "placed"]
    /\ hold' = counted
    /\ UNCHANGED <<ledgerVars, provider, expired, payVars, closed, callVars, crashes>>

\* The issuance is signed with the organiser's authority and submitted.
SubmitGrant(g) ==
    /\ work[g] = "placed"
    /\ work' = [work EXCEPT ![g] = "awaiting"]
    /\ sub' = [sub EXCEPT ![g] = "inflight"]
    /\ UNCHANGED <<evStatus, evCapacity, statusOp, capacityOp, provider, holdVars, payVars, grant,
                   closed, callVars, crashes>>

\* complete, or the deletion of the row when nothing was signed.
CompleteGrant(g, outcome) ==
    /\ grant' = [grant EXCEPT ![g] = outcome]
    /\ work' = [work EXCEPT ![g] = "idle"]
    /\ UNCHANGED <<ledgerVars, provider, holdVars, payVars, closed, callVars, crashes>>

GrantNotSigned(g) == work[g] = "placed" /\ CompleteGrant(g, "none")
GrantSettled(g)   == work[g] = "awaiting" /\ sub[g] = "settled" /\ CompleteGrant(g, "settled")
GrantRejected(g)  == work[g] = "awaiting" /\ sub[g] = "refused" /\ CompleteGrant(g, "rejected")
GrantFailed(g)    == "issue" \in LosableVerdicts /\ work[g] = "awaiting"
                     /\ CompleteGrant(g, "failed")

(***************************************************************************)
(* The ledger's decision on an issuance: the event is Active, its capacity *)
(* has room, and the seat has no ticket.  It may refuse any submission for *)
(* reasons of its own (its sponsorship, its lifetime).                     *)
(***************************************************************************)
LedgerAdmits(x) ==
    /\ evStatus = "Active"
    /\ evCapacity # NoLimit => Issued < evCapacity
    /\ SeatOf[TargetOf(x)] # NoSeat => ~SeatTicketed(SeatOf[TargetOf(x)])

LedgerDecides(x, verdict) ==
    /\ sub[x] = "inflight"
    /\ verdict = "settled" => LedgerAdmits(x)
    /\ sub' = [sub EXCEPT ![x] = verdict]
    /\ UNCHANGED <<evStatus, evCapacity, statusOp, capacityOp, provider, holdVars, payVars, grant,
                   closed, work, callVars, crashes>>

LedgerIssues(x)  == LedgerDecides(x, "settled")
LedgerRefuses(x) == LedgerDecides(x, "refused")

IssuanceNext ==
    \/ \E g \in Grants :
         \/ Reserve(g) \/ SubmitGrant(g)
         \/ GrantNotSigned(g) \/ GrantSettled(g) \/ GrantRejected(g) \/ GrantFailed(g)
    \/ \E x \in Issuances : LedgerIssues(x) \/ LedgerRefuses(x)
============================================================================
