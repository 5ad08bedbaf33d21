------------------------------- MODULE Sales -------------------------------
(***************************************************************************)
(* Primary sales of one event: holds, payments, granted issuances and      *)
(* organiser calls, interleaved, over one ledger and one payment provider, *)
(* with a server process that may stop at any point.                       *)
(***************************************************************************)
EXTENDS OrganiserActions, GrantedIssuance

\* The server stops and starts again: every call under way is lost, every row stays.
Crash ==
    /\ crashes < MaxCrashes
    /\ crashes' = crashes + 1
    /\ reads' = {}
    /\ work' = [x \in Issuances |-> "idle"]
    /\ callPc' = [a \in Actors |->
                    IF callPc[a] \in {"new", "done"} THEN callPc[a] ELSE "failed"]
    /\ UNCHANGED <<callTo, releases, todo, foundPaid, toRefund, ledgerVars, provider, holdVars,
                   hosted, sale, ticketed, refund, grant, closed>>

Next == HoldsNext \/ PaymentNext \/ IssuanceNext \/ OrganiserNext \/ Crash

Spec == Init /\ [][Next]_vars

(***************************************************************************)
(* Fairness: time passes; the sweep runs every 15 seconds for as long as   *)
(* the server does; calls under way go on; the ledger answers.  Nothing is *)
(* assumed of buyers, organisers or webhooks.                              *)
(***************************************************************************)
Fairness ==
    /\ \A c \in Checkouts : WF_vars(Expire(c))
    /\ WF_vars(LapseExpired)
    /\ \A h \in Hosted :
         /\ WF_vars(Sweep(h))
         /\ WF_vars(\E r \in reads : r.of = h /\ (TakePlace(r) \/ ReconcileUnpaid(r)))
         /\ WF_vars(Issue(h) \/ IssueNotSigned(h)) /\ WF_vars(RecordTicket(h))
         /\ WF_vars(SaleIssued(h) \/ SaleRejected(h) \/ SaleFailed(h))
    /\ \A x \in Issuances : WF_vars(LedgerIssues(x) \/ LedgerRefuses(x))

FairSpec == Spec /\ Fairness

(***************************************************************************)
(* Safety                                                                  *)
(***************************************************************************)

\* A seat is never promised twice: of all holds and granted issuances that still count, at most
\* one has it, through lapses, late payments, lost verdicts and restarts (allocation.ts, seats.ts).
Takes(t) == IF t \in Checkouts THEN hold[t] \in Allocated ELSE t \in Undertaken(grant)

SeatExclusive ==
    \A t, u \in Targets :
        t # u /\ Takes(t) /\ Takes(u) /\ SeatOf[t] = SeatOf[u] => SeatOf[t] = NoSeat

\* A held place is honoured: while the event is Active everything Kippu has promised fits its
\* capacity, so the ledger never refuses a paid hold for want of room (capacityRemaining).
CapacityHonoured ==
    evStatus = "Active" /\ evCapacity # NoLimit =>
        Cardinality({t \in Targets : Takes(t)}) <= evCapacity

\* Nothing promised of a class exceeds its quota, holds and grants together (quotaRemaining).
QuotaHonoured ==
    \A k \in Classes : 
        Quota[k] # NoLimit => Cardinality({t \in Targets : Takes(t) /\ ClassOf[t] = k}) <= Quota[k]

\* Every ticket on the ledger is one Kippu still counts: no lost verdict, late landing or restart
\* leaves a ticket whose place was given back (complete, payment.ts and issuance.ts).
TicketsAccounted ==
    \A x \in Tickets :
        IF x \in Hosted THEN hold[HoldOf[x]] \in {"issuing", "confirmed"}
                        ELSE x \in Undertaken(grant)

\* A payment never buys both a ticket and a refund, except when the event is cancelled; and no
\* ticket is sold that was not paid in full (takePlace, complete, recordCancellationRefunds).
TicketXorRefund ==
    \A h \in Hosted :
        /\ sub[h] \in {"inflight", "settled"} => refund[h] \in {"none", "event-cancelled"}
        /\ sub[h] # "unsent" => provider[h] = "paid"
        /\ refund[h] = "event-cancelled" => h \in Tickets /\ evStatus = "Cancelled"

\* However often a hold is paid for, at most one payment has a sale that is, or may become, a
\* ticket (takePlace re-reads the hold under the locks).
LiveSale(h) == sale[h] \in {"issuing", "issued", "failed"}

OneSalePerHold ==
    \A h, k \in Hosted : h # k /\ HoldOf[h] = HoldOf[k] => ~(LiveSale(h) /\ LiveSale(k))

\* With one organiser call at a time, an event no longer Active has no outstanding hold:
\* releaseAll let go of every one before the ledger was asked (status.ts, payment.ts).
ReleasedBeforeChange == evStatus # "Active" => HoldsIn(hold, {"outstanding"}) = {}

\* Once a cancellation has gone through, every purchased ticket has its refund entitlement
\* (status.ts: "one refund entitlement per purchased ticket is recorded").
CancelledIsRefunded ==
    \A a \in Actors :
        callPc[a] = "done" /\ callTo[a] = "Cancelled" /\ evStatus = "Cancelled" =>
            \A h \in Hosted \cap Tickets : refund[h] # "none"

(***************************************************************************)
(* Action properties                                                       *)
(***************************************************************************)

\* While sales stay closed no hold is placed and no payment takes a place (place, takePlace).
NothingSoldWhileClosed ==
    [][closed /\ closed' =>
        \A c \in Checkouts : hold'[c] \in Counting => hold[c] = hold'[c]]_vars

\* A ticket's sale is final: a confirmed hold stays confirmed, an issued sale stays issued, and a
\* refund entitlement is never withdrawn or given another reason (complete, entitle).
OutcomesAreFinal ==
    [][/\ \A c \in Checkouts : hold[c] = "confirmed" => hold'[c] = "confirmed"
       /\ \A h \in Hosted : /\ sale[h] \in {"issued", "rejected"} => sale'[h] = sale[h]
                            /\ refund[h] # "none" => refund'[h] = refund[h]]_vars

(***************************************************************************)
(* Liveness                                                                *)
(***************************************************************************)
Settled(h) == sale[h] \in {"issued", "rejected", "failed"} \/ refund[h] # "none"

\* Every payment the provider took ends in a sale with an outcome or in a refund, even if no
\* webhook ever arrives: the sweep finds it (sweep, reconcile).
PaidIsSettled == \A h \in Hosted : IsPaid(provider[h]) ~> Settled(h)

\* The hosted checkout of a hold that ended stops taking payments (sweep, plan step 6).
AbandonedIsClosed ==
    \A h \in Hosted :
        (hold[HoldOf[h]] \in {"lapsed", "released"} /\ provider[h] = "open")
            ~> provider[h] # "open"
=============================================================================
