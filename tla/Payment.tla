------------------------------ MODULE Payment ------------------------------
(***************************************************************************)
(* Paying for holds, and what a verified payment leads to                  *)
(* (src/sales/payment.ts): hold, hosted checkout, verified payment,        *)
(* issuance, confirmation; or a refund entitlement.                        *)
(*                                                                         *)
(* A reconciliation asks the provider and then acts on the answer; between *)
(* the two anything may happen, so the answer it holds, an element of      *)
(* `reads`, may be stale.  Issuing runs outside every transaction and      *)
(* leaves its progress in `work`.                                          *)
(***************************************************************************)
EXTENDS Holds

OpenHosted(c) == {h \in Hosted : HoldOf[h] = c /\ hosted[h] = "open"}

(***************************************************************************)
(* The payment provider (external): a hosted checkout is paid, or ends     *)
(* unpaid (a failed attempt, a cancellation or its expiry), and then never *)
(* changes again.                                                          *)
(***************************************************************************)
ProviderStep(h, to) ==
    /\ provider[h] = "open"
    /\ provider' = [provider EXCEPT ![h] = to]
    /\ UNCHANGED <<ledgerVars, holdVars, payVars, grant, closed, work, callVars, crashes>>

BuyerPays(h)    == ProviderStep(h, "paid")
BuyerMispays(h) == ProviderStep(h, "mispaid")
CheckoutEnds(h) == ProviderStep(h, "ended")

\* provider.cancel: an open checkout ends; any other answers as it is.
Cancelled(seen) == IF seen = "open" THEN "ended" ELSE seen

(***************************************************************************)
(* pay.  The hold's row is locked; only an outstanding, unexpired hold of  *)
(* an event whose sales are open is paid for.                              *)
(***************************************************************************)
Payable(c) == hold[c] = "outstanding" /\ ~expired[c] /\ ~closed

\* No live hosted checkout: one is created, replacing an open row the provider has ended.
PayCreates(c, new) ==
    /\ Payable(c)
    /\ HoldOf[new] = c /\ provider[new] = "none"
    /\ \A h \in OpenHosted(c) : provider[h] = "ended"
    /\ provider' = [provider EXCEPT ![new] = "open"]
    /\ hosted' = [h \in Hosted |->
                    IF h = new THEN "open"
                    ELSE IF h \in OpenHosted(c) THEN "ended"
                    ELSE hosted[h]]
    /\ UNCHANGED <<ledgerVars, holdVars, sale, ticketed, refund, reads, grant, closed, work,
                   callVars, crashes>>

\* The open hosted checkout turns out paid: that is committed, and only then reconciled.
PayFindsPaid(c, h) ==
    /\ Payable(c)
    /\ h \in OpenHosted(c) /\ IsPaid(provider[h])
    /\ hosted' = [hosted EXCEPT ![h] = "paid"]
    /\ reads' = reads \cup {[of |-> h, seen |-> provider[h]]}
    /\ UNCHANGED <<ledgerVars, provider, holdVars, sale, ticketed, refund, grant, closed, work,
                   callVars, crashes>>

(***************************************************************************)
(* cancel: the buyer gives the checkout up.  A payment that landed first   *)
(* is reconciled instead, and the hold stays.                              *)
(***************************************************************************)
CancelUnpaid(c) ==
    LET open == OpenHosted(c) IN
    /\ hold[c] = "outstanding"
    /\ \A h \in open : ~IsPaid(provider[h])
    /\ provider' = [h \in Hosted |-> IF h \in open THEN Cancelled(provider[h]) ELSE provider[h]]
    /\ hosted' = [h \in Hosted |-> IF h \in open THEN Cancelled(provider[h]) ELSE hosted[h]]
    /\ hold' = ReleaseHold(hold, c)
    /\ UNCHANGED <<ledgerVars, expired, sale, ticketed, refund, reads, grant, closed, work,
                   callVars, crashes>>

CancelFindsPaid(c, h) ==
    /\ hold[c] = "outstanding"
    /\ h \in OpenHosted(c) /\ IsPaid(provider[h])
    /\ reads' = reads \cup {[of |-> h, seen |-> provider[h]]}
    /\ UNCHANGED <<ledgerVars, provider, holdVars, hosted, sale, ticketed, refund, grant, closed,
                   work, callVars, crashes>>

(***************************************************************************)
(* paymentWebhook: a verified webhook only prompts a retrieval.  Webhooks  *)
(* come late, more than once, or never.                                    *)
(***************************************************************************)
Webhook(h) ==
    /\ hosted[h] # "none"
    /\ reads' = reads \cup {[of |-> h, seen |-> provider[h]]}
    /\ UNCHANGED <<ledgerVars, provider, holdVars, hosted, sale, ticketed, refund, grant, closed,
                   work, callVars, crashes>>

\* Mutant: a payment found by the sweep is recorded, and not reconciled.
SweepRecordsOnly(h) ==
    /\ hosted[h] = "open" /\ hold[HoldOf[h]] \in {"lapsed", "released"}
    /\ provider' = [provider EXCEPT ![h] = Cancelled(@)]
    /\ hosted' = [hosted EXCEPT ![h] = IF IsPaid(provider[h]) THEN "paid" ELSE "ended"]
    /\ UNCHANGED <<ledgerVars, holdVars, sale, ticketed, refund, reads, grant, closed, work,
                   callVars, crashes>>

\* Mutant: lapsed holds are forgotten.
SweepReleased(h) ==
    /\ hosted[h] = "open" /\ hold[HoldOf[h]] = "released"
    /\ provider' = [provider EXCEPT ![h] = Cancelled(@)]
    /\ reads' = IF IsPaid(provider[h]) THEN reads \cup {[of |-> h, seen |-> provider[h]]} ELSE reads
    /\ hosted' = [hosted EXCEPT ![h] = IF IsPaid(provider[h]) THEN @ ELSE "ended"]
    /\ UNCHANGED <<ledgerVars, holdVars, sale, ticketed, refund, grant, closed, work, callVars,
                   crashes>>

\* sweep, after its lapses: a live hosted checkout of an ended hold is cancelled, or reconciled.
Sweep(h) ==
    /\ hosted[h] = "open" /\ hold[HoldOf[h]] \in {"lapsed", "released"}
    /\ provider' = [provider EXCEPT ![h] = Cancelled(@)]
    /\ IF IsPaid(provider[h])
       THEN /\ reads' = reads \cup {[of |-> h, seen |-> provider[h]]}
            /\ UNCHANGED hosted
       ELSE /\ hosted' = [hosted EXCEPT ![h] = Cancelled(provider[h])]
            /\ UNCHANGED reads
    /\ UNCHANGED <<ledgerVars, holdVars, sale, ticketed, refund, grant, closed, work, callVars,
                   crashes>>

(***************************************************************************)
(* reconcile, once the provider has answered                               *)
(***************************************************************************)

\* Not paid: the answer is recorded, however old.  hosted_checkouts_open refuses a second open row.
ReconcileUnpaid(r) ==
    LET taken == r.seen = "open" /\ OpenHosted(HoldOf[r.of]) \ {r.of} # {} IN
    /\ r \in reads /\ ~IsPaid(r.seen)
    /\ reads' = reads \ {r}
    /\ hosted' = IF taken THEN hosted ELSE [hosted EXCEPT ![r.of] = r.seen]
    /\ UNCHANGED <<ledgerVars, provider, holdVars, sale, ticketed, refund, grant, closed, work,
                   callVars, crashes>>

\* Mutant: a refund does not count as handled.
HandledBySale(h) == sale[h] # "none"

\* A payment is handled once it has a sale or a refund entitlement.
Handled(h) == sale[h] # "none" \/ refund[h] # "none"

\* Mutant: a hold another payment is issuing is taken too.
PlaceableTwice(counted, c) == counted[c] \in {"outstanding", "issuing"}

\* takePlace: whether the hold is this payment's, or its place may be taken back.
Placeable(counted, c) ==
    \/ counted[c] = "outstanding"
    \/ /\ counted[c] \in {"lapsed", "released"}
       /\ evStatus = "Active"
       /\ PlaceFree(counted, c)

TakeRefund(h, reason, holds) ==
    /\ refund' = [refund EXCEPT ![h] = reason]
    /\ hold' = holds
    /\ UNCHANGED <<sale, work>>

TakeSale(h, holds) ==
    /\ hold' = [holds EXCEPT ![HoldOf[h]] = "issuing"]
    /\ sale' = [sale EXCEPT ![h] = "issuing"]
    /\ work' = [work EXCEPT ![h] = "placed"]
    /\ UNCHANGED refund

\* takePlace: under the allocation locks, the payment takes its place or becomes a refund.
TakePlace(r) ==
    LET h == r.of  c == HoldOf[h]  counted == Lapse(hold) IN
    /\ r \in reads /\ IsPaid(r.seen)
    /\ reads' = reads \ {r}
    /\ hosted' = [hosted EXCEPT ![h] = "paid"]
    /\ \/ /\ Handled(h)
          /\ UNCHANGED <<refund, hold, sale, work>>
       \/ /\ ~Handled(h) /\ r.seen = "mispaid"
          /\ TakeRefund(h, "amount-mismatch", ReleaseHold(hold, c))
       \/ /\ ~Handled(h) /\ r.seen = "paid" /\ closed
          /\ TakeRefund(h, "event-closed", ReleaseHold(hold, c))
       \/ /\ ~Handled(h) /\ r.seen = "paid" /\ ~closed /\ ~Placeable(counted, c)
          /\ TakeRefund(h, "place-gone", counted)
       \/ /\ ~Handled(h) /\ r.seen = "paid" /\ ~closed /\ Placeable(counted, c)
          /\ TakeSale(h, counted)
    /\ UNCHANGED <<ledgerVars, provider, expired, ticketed, grant, closed, callVars, crashes>>

(***************************************************************************)
(* issue: outside any transaction, until `complete` records how it ended.  *)
(***************************************************************************)

\* The issuance is signed with the organiser's authority and submitted.
Issue(h) ==
    /\ work[h] = "placed"
    /\ work' = [work EXCEPT ![h] = "submitted"]
    /\ sub' = [sub EXCEPT ![h] = "inflight"]
    /\ UNCHANGED <<evStatus, evCapacity, statusOp, capacityOp, provider, holdVars, payVars, grant,
                   closed, callVars, crashes>>

\* The ticket's id is recorded on the sale before the verdict is awaited.
RecordTicket(h) ==
    /\ work[h] = "submitted"
    /\ work' = [work EXCEPT ![h] = "awaiting"]
    /\ ticketed' = [ticketed EXCEPT ![h] = TRUE]
    /\ UNCHANGED <<ledgerVars, provider, holdVars, hosted, sale, refund, reads, grant, closed,
                   callVars, crashes>>

\* Mutant: the sale's outcome is written on the hold as it is.
CompleteWithOutcome(h, outcome) ==
    /\ sale' = [sale EXCEPT ![h] = outcome]
    /\ work' = [work EXCEPT ![h] = "idle"]
    /\ hold' = [hold EXCEPT ![HoldOf[h]] = outcome]
    /\ UNCHANGED <<ledgerVars, provider, expired, hosted, ticketed, refund, reads, grant, closed,
                   callVars, crashes>>

\* complete: the sale's outcome, and with it the hold's and any refund, in one transaction.
CompleteSale(h, outcome) ==
    LET c == HoldOf[h] IN
    /\ sale' = [sale EXCEPT ![h] = outcome]
    /\ work' = [work EXCEPT ![h] = "idle"]
    /\ hold' = [hold EXCEPT ![c] = IF outcome = "issued" THEN "confirmed"
                                   ELSE IF outcome = "rejected" /\ @ = "issuing" THEN "released"
                                   ELSE @]
    /\ refund' = IF outcome = "rejected" /\ refund[h] = "none"
                 THEN [refund EXCEPT ![h] = "issuance-rejected"]
                 ELSE refund
    /\ UNCHANGED <<ledgerVars, provider, expired, hosted, ticketed, reads, grant, closed, callVars,
                   crashes>>

\* Nothing was signed: the ticket does not exist.
IssueNotSigned(h) == work[h] = "placed" /\ CompleteSale(h, "rejected")
SaleIssued(h)     == work[h] = "awaiting" /\ sub[h] = "settled" /\ CompleteSale(h, "issued")
SaleRejected(h)   == work[h] = "awaiting" /\ sub[h] = "refused" /\ CompleteSale(h, "rejected")

\* Mutant: a lost verdict is taken for a refusal.
FailedAsRejected(h) ==
    "issue" \in LosableVerdicts /\ work[h] = "awaiting" /\ CompleteSale(h, "rejected")

\* No verdict came back: the ticket may exist, or come to exist.
SaleFailed(h) == "issue" \in LosableVerdicts /\ work[h] = "awaiting" /\ CompleteSale(h, "failed")

PaymentNext ==
    \/ \E h \in Hosted :
         \/ BuyerPays(h) \/ BuyerMispays(h) \/ CheckoutEnds(h)
         \/ Webhook(h) \/ Sweep(h)
         \/ Issue(h) \/ RecordTicket(h)
         \/ IssueNotSigned(h) \/ SaleIssued(h) \/ SaleRejected(h) \/ SaleFailed(h)
    \/ \E c \in Checkouts :
         \/ CancelUnpaid(c)
         \/ \E h \in Hosted : PayCreates(c, h) \/ PayFindsPaid(c, h) \/ CancelFindsPaid(c, h)
    \/ \E r \in reads : ReconcileUnpaid(r) \/ TakePlace(r)
============================================================================
