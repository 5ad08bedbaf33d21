--------------------------- MODULE CapacityProofs ---------------------------
(***************************************************************************)
(* Capacity increases (src/src/proofs/service.ts): the organiser asks, a   *)
(* reviewer approves or rejects.  An approval keeps the event's allocation *)
(* lock and the request's row from its check to its commit, the ledger's   *)
(* verdict in between.                                                     *)
(***************************************************************************)
EXTENDS Invitations

VARIABLE requests  \* capacity_proof_requests: status, and the approval whose proof it records

ProofInit(there) ==
    requests = [r \in Rows |-> [status |-> IF there /\ r = 0 THEN "pending" ELSE "none", proof |-> None]]

Pending == {r \in Rows : requests[r].status = "pending"}

(* request: one pending per event, by the read and then by the unique index *)
RequestIncrease(c) ==
    \/ Arrives(c, "request") /\ row.registered /\ Start(c, "request", 0) /\ UNCHANGED <<requests, faults>>
    \/ /\ At(c, "request", "begun") /\ FreeConnection
       /\ Goto(c, IF Pending = {} THEN "stored" ELSE "refused")
       /\ UNCHANGED <<requests, faults>>
    \/ /\ At(c, "request", "stored") /\ FreeConnection
       /\ IF Pending = {}
          THEN /\ requests' = [requests EXCEPT ![c].status = "pending"] /\ Goto(c, "done")
          ELSE Goto(c, "refused") /\ UNCHANGED requests
       /\ UNCHANGED faults

(* The row is locked from the check to the commit. *)
RowLocked(c, r) == \E d \in Calls \ {c} : OuterTransaction(d) /\ call[d].arg = r

ArriveToApprove(c) ==
    /\ \E r \in Rows : /\ Arrives(c, "approve") /\ requests[r].status # "none"
                       /\ Start(c, "approve", r)
    /\ UNCHANGED <<requests, faults>>

(* approve: find, then a connection of its own *)
FindRequest(c) ==
    /\ At(c, "approve", "begun") /\ FreeConnection
    /\ Goto(c, "lockWait")
    /\ UNCHANGED <<requests, faults>>

LockRequestMutant(c) ==
    /\ At(c, "approve", "lockWait") /\ ~EventLocked
    /\ Goto(c, "provision")
    /\ UNCHANGED <<requests, faults>>

(* The event's lock, the row FOR UPDATE, and only then its status *)
LockRequest(c) ==
    /\ At(c, "approve", "lockWait") /\ ~EventLocked
    /\ Goto(c, IF requests[call[c].arg].status = "pending" THEN "provision" ELSE "refused")
    /\ UNCHANGED <<requests, faults>>

DecideMutant(c) ==
    /\ At(c, "approve", "after")
    /\ IF call[c].verdict # "refused"
       THEN /\ requests' = [requests EXCEPT ![call[c].arg] = [status |-> "approved", proof |-> c]]
            /\ Goto(c, "done")
       ELSE Goto(c, "refused") /\ UNCHANGED requests
    /\ UNCHANGED faults

(* The verdict: approved with its proof and committed, or rolled back and still pending *)
Decide(c) ==
    /\ At(c, "approve", "after")
    /\ IF call[c].verdict = "landed"
       THEN /\ requests' = [requests EXCEPT ![call[c].arg] = [status |-> "approved", proof |-> c]]
            /\ Goto(c, "done")
       ELSE Goto(c, "refused") /\ UNCHANGED requests
    /\ UNCHANGED faults

(* reject: UPDATE WHERE status = 'pending', which waits for an approval that has the row *)
Reject(c) ==
    \/ \E r \in Rows : /\ Arrives(c, "reject") /\ requests[r].status # "none"
                       /\ Start(c, "reject", r) /\ UNCHANGED <<requests, faults>>
    \/ At(c, "reject", "begun") /\ FreeConnection /\ Goto(c, "rejectWait") /\ UNCHANGED <<requests, faults>>
    \/ /\ At(c, "reject", "rejectWait") /\ ~RowLocked(c, call[c].arg)
       /\ IF requests[call[c].arg].status = "pending"
          THEN /\ requests' = [requests EXCEPT ![call[c].arg].status = "rejected"] /\ Goto(c, "done")
          ELSE Goto(c, "refused") /\ UNCHANGED requests
       /\ UNCHANGED faults

ApproveStep(c) == FindRequest(c) \/ LockRequest(c) \/ Decide(c)
=============================================================================
