------------------------- MODULE OrganiserActions -------------------------
(***************************************************************************)
(* The organiser's seal, cancel and finish (src/events/status.ts), with    *)
(* what they do to sales first (releaseAll, src/sales/payment.ts) and the  *)
(* refunds a cancellation leads to (src/sales/cancellation-refunds.ts);    *)
(* and capacity decreases (src/events/capacity.ts).                        *)
(*                                                                         *)
(* A call is a sequence of transactions and ledger requests, and several   *)
(* calls may run at once.                                                  *)
(***************************************************************************)
EXTENDS Payment

CONSTANT Capacities   \* bound: the capacities an organiser may ask for

ASSUME CapacitiesAssumption == Capacities \subseteq Nat

CallStep(a, pc) ==
    /\ callPc' = [callPc EXCEPT ![a] = pc]
    /\ UNCHANGED <<callTo, releases, todo, foundPaid, toRefund>>

\* The event is read from the ledger: only an Active one is still selling and is released.
CallBegins(a, to) ==
    /\ callPc[a] = "new"
    /\ callTo' = [callTo EXCEPT ![a] = to]
    /\ releases' = [releases EXCEPT ![a] = (evStatus = "Active")]
    /\ callPc' = [callPc EXCEPT ![a] =
                    IF evStatus = "Active" THEN "closing"
                    ELSE IF to = "Cancelled" /\ evStatus = "Cancelled" THEN "listing"
                    ELSE "submitting"]
    /\ UNCHANGED <<todo, foundPaid, toRefund, ledgerVars, provider, holdVars, payVars, grant,
                   closed, work, crashes>>

\* Mutant: only holds with a hosted checkout are listed for release.
CloseSalesHostedOnly(a) ==
    /\ callPc[a] = "closing"
    /\ closed' = TRUE
    /\ callPc' = [callPc EXCEPT ![a] = "releasing"]
    /\ todo' = [todo EXCEPT ![a] = {c \in Checkouts : OpenHosted(c) # {}}]
    /\ UNCHANGED <<callTo, releases, foundPaid, toRefund, ledgerVars, provider, holdVars, payVars,
                   grant, work, crashes>>

\* releaseAll: sales close under the allocation lock; then the holds to release are listed.
CloseSales(a) ==
    /\ callPc[a] = "closing"
    /\ closed' = TRUE
    /\ callPc' = [callPc EXCEPT ![a] = "releasing"]
    /\ todo' = [todo EXCEPT ![a] =
                  {c \in Checkouts : hold[c] = "outstanding" \/ OpenHosted(c) # {}}]
    /\ UNCHANGED <<callTo, releases, foundPaid, toRefund, ledgerVars, provider, holdVars, payVars,
                   grant, work, crashes>>

\* releaseAll, one hold: its hosted checkout is cancelled, or found paid and left to reconcile.
ReleaseOne(a, c) ==
    LET open == OpenHosted(c)
        paid == {h \in open : IsPaid(provider[h])} IN
    /\ callPc[a] = "releasing" /\ c \in todo[a]
    /\ provider' = [h \in Hosted |-> IF h \in open THEN Cancelled(provider[h]) ELSE provider[h]]
    /\ hosted' = [h \in Hosted |-> IF h \in open \ paid THEN Cancelled(provider[h]) ELSE hosted[h]]
    /\ hold' = IF paid = {} /\ hold[c] = "outstanding"
               THEN [hold EXCEPT ![c] = "released"] ELSE hold
    /\ todo' = [todo EXCEPT ![a] = @ \ {c}]
    /\ foundPaid' = [foundPaid EXCEPT ![a] = @ \cup paid]
    /\ reads' = reads \cup {[of |-> h, seen |-> provider[h]] : h \in paid}
    /\ UNCHANGED <<callPc, callTo, releases, toRefund, ledgerVars, expired, sale, ticketed, refund,
                   grant, closed, work, crashes>>

\* releaseAll ends once every payment it found is reconciled; then the status is submitted.
Reconciled(h) == [of |-> h, seen |-> provider[h]] \notin reads

SubmitStatus(a) ==
    /\ \/ callPc[a] = "submitting"
       \/ callPc[a] = "releasing" /\ todo[a] = {} /\ \A h \in foundPaid[a] : Reconciled(h)
    /\ CallStep(a, "awaiting")
    /\ statusOp' = [statusOp EXCEPT ![a] = "inflight"]
    /\ UNCHANGED <<evStatus, evCapacity, sub, capacityOp, provider, holdVars, payVars, grant,
                   closed, work, crashes>>

\* The ledger (external): Active to any status, Sealed to Cancelled or Finished, nothing else.
Permitted(from, to) == from = "Active" \/ (from = "Sealed" /\ to # "Sealed")

LedgerChangesStatus(a) ==
    /\ statusOp[a] = "inflight" /\ Permitted(evStatus, callTo[a])
    /\ evStatus' = callTo[a]
    /\ statusOp' = [statusOp EXCEPT ![a] = "settled"]
    /\ UNCHANGED <<evCapacity, sub, capacityOp, provider, holdVars, payVars, grant, closed, work,
                   callVars, crashes>>

LedgerRefusesStatus(a) ==
    /\ statusOp[a] = "inflight"
    /\ statusOp' = [statusOp EXCEPT ![a] = "refused"]
    /\ UNCHANGED <<evStatus, evCapacity, sub, capacityOp, provider, holdVars, payVars, grant,
                   closed, work, callVars, crashes>>

\* The verdict: a cancellation goes on to its refunds; a refusal reopens what this call closed.
StatusChanged(a) ==
    /\ callPc[a] = "awaiting" /\ statusOp[a] = "settled"
    /\ CallStep(a, IF callTo[a] = "Cancelled" THEN "listing" ELSE "done")
    /\ UNCHANGED <<ledgerVars, provider, holdVars, payVars, grant, closed, work, crashes>>

StatusRefused(a) ==
    /\ callPc[a] = "awaiting" /\ statusOp[a] = "refused"
    /\ CallStep(a, "done")
    /\ closed' = (closed /\ ~releases[a])
    /\ UNCHANGED <<ledgerVars, provider, holdVars, payVars, grant, work, crashes>>

\* No verdict: the status may have changed, or may yet, so sales stay closed.
StatusLost(a) ==
    /\ "status" \in LosableVerdicts /\ callPc[a] = "awaiting"
    /\ CallStep(a, "failed")
    /\ UNCHANGED <<ledgerVars, provider, holdVars, payVars, grant, closed, work, crashes>>

\* Any request of the call fails: it ends there, and the sales it closed stay closed.
CallFails(a) ==
    /\ callPc[a] \in {"closing", "releasing", "submitting", "listing", "refunding"}
    /\ CallStep(a, "failed")
    /\ UNCHANGED <<ledgerVars, provider, holdVars, payVars, grant, closed, work, crashes>>

(***************************************************************************)
(* recordCancellationRefunds: the sales are listed once, then each ticket  *)
(* the ledger holds gets its entitlement unless the payment already has    *)
(* one.  A failure starts the recording again, or in the end fails the     *)
(* call; how often is left open.                                           *)
(***************************************************************************)
ListSales(a) ==
    /\ callPc[a] = "listing" /\ evStatus = "Cancelled"
    /\ callPc' = [callPc EXCEPT ![a] = "refunding"]
    /\ toRefund' = [toRefund EXCEPT ![a] =
                      {h \in Hosted : ticketed[h] /\ sale[h] \in {"issued", "failed"}}]
    /\ UNCHANGED <<callTo, releases, todo, foundPaid, ledgerVars, provider, holdVars, payVars,
                   grant, closed, work, crashes>>

RefundOne(a, h) ==
    /\ callPc[a] = "refunding" /\ h \in toRefund[a]
    /\ toRefund' = [toRefund EXCEPT ![a] = @ \ {h}]
    /\ refund' = IF refund[h] = "none" /\ h \in Tickets
                 THEN [refund EXCEPT ![h] = "event-cancelled"] ELSE refund
    /\ UNCHANGED <<callPc, callTo, releases, todo, foundPaid, ledgerVars, provider, holdVars,
                   hosted, sale, ticketed, reads, grant, closed, work, crashes>>

RefundsDone(a) ==
    /\ callPc[a] = "refunding" /\ toRefund[a] = {}
    /\ CallStep(a, "done")
    /\ UNCHANGED <<ledgerVars, provider, holdVars, payVars, grant, closed, work, crashes>>

RefundsRetried(a) ==
    /\ callPc[a] = "refunding"
    /\ CallStep(a, "listing")
    /\ UNCHANGED <<ledgerVars, provider, holdVars, payVars, grant, closed, work, crashes>>

(***************************************************************************)
(* decrease: under the allocation lock, held until the ledger's verdict,   *)
(* so the check and the ledger's decision are one step.  When the verdict  *)
(* is lost the lock is released while the submission may still land.       *)
(***************************************************************************)
\* Mutant: outstanding holds are left out of the check.
DecreaseAllowedIssued(to) ==
    /\ evCapacity # NoLimit => to <= evCapacity
    /\ evStatus = "Active" => Issued <= to

DecreaseAllowed(to) ==
    /\ evCapacity # NoLimit => to <= evCapacity
    /\ evStatus = "Active" => AllocatedCount(Lapse(hold)) <= to

\* The ledger (external): never below issued, and an increase needs a proof.
LedgerTakesCapacity(to) ==
    /\ evStatus = "Active" /\ Issued <= to
    /\ evCapacity # NoLimit => to <= evCapacity

DecreaseCapacity(to) ==
    /\ DecreaseAllowed(to) /\ LedgerTakesCapacity(to)
    /\ evCapacity' = to
    /\ hold' = Lapse(hold)
    /\ UNCHANGED <<evStatus, sub, statusOp, capacityOp, provider, expired, payVars, grant, closed,
                   work, callVars, crashes>>

DecreaseLost(to) ==
    /\ "capacity" \in LosableVerdicts /\ capacityOp = NoLimit
    /\ DecreaseAllowed(to)
    /\ capacityOp' = to
    /\ UNCHANGED <<evStatus, evCapacity, sub, statusOp, provider, holdVars, payVars, grant, closed,
                   work, callVars, crashes>>

LateDecrease ==
    /\ capacityOp # NoLimit
    /\ evCapacity' = IF LedgerTakesCapacity(capacityOp) THEN capacityOp ELSE evCapacity
    /\ capacityOp' = NoLimit
    /\ UNCHANGED <<evStatus, sub, statusOp, provider, holdVars, payVars, grant, closed, work,
                   callVars, crashes>>

OrganiserNext ==
    \/ \E a \in Actors :
         \/ \E to \in EventStatus \ {"Active"} : CallBegins(a, to)
         \/ CloseSales(a) \/ SubmitStatus(a)
         \/ \E c \in Checkouts : ReleaseOne(a, c)
         \/ LedgerChangesStatus(a) \/ LedgerRefusesStatus(a)
         \/ StatusChanged(a) \/ StatusRefused(a) \/ StatusLost(a) \/ CallFails(a)
         \/ ListSales(a) \/ RefundsRetried(a) \/ RefundsDone(a)
         \/ \E h \in Hosted : RefundOne(a, h)
    \/ \E to \in Capacities : DecreaseCapacity(to) \/ DecreaseLost(to)
    \/ LateDecrease
===========================================================================
