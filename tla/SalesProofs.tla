---------------------------- MODULE SalesProofs ----------------------------
(***************************************************************************)
(* Theorems about Sales, for every value of its constants.                 *)
(***************************************************************************)
EXTENDS Sales, FiniteSetTheorems, TLAPS

(***************************************************************************)
(* The inductive invariant, part by part                                   *)
(***************************************************************************)

\* Kippu only knows hosted checkouts the provider has, and a payment it was told of was made.
ProviderKnown ==
    /\ \A h \in Hosted : hosted[h] # "none" => provider[h] # "none"
    /\ \A r \in reads : provider[r.of] # "none" /\ (IsPaid(r.seen) => provider[r.of] = r.seen)

TypeInv == TypeOK /\ ProviderKnown

\* How a sale, its payment, its issuing call and its submission go together.
SaleProgress ==
    \A h \in Hosted :
        /\ sale[h] = "none" => sub[h] = "unsent" /\ work[h] = "idle"
        /\ sale[h] # "none" => provider[h] = "paid"
        /\ work[h] # "idle" => sale[h] = "issuing"
        /\ work[h] = "placed" => sub[h] = "unsent"
        /\ sale[h] = "rejected" => sub[h] \in {"unsent", "refused"}

\* Which sale each reason for a refund goes with.
RefundProgress ==
    /\ \A h \in Hosted :
        /\ refund[h] \in {"place-gone", "amount-mismatch", "event-closed"} => sale[h] = "none"
        /\ refund[h] = "issuance-rejected" => sale[h] = "rejected"
        /\ refund[h] = "event-cancelled" => sub[h] = "settled" /\ evStatus = "Cancelled"
    /\ \A a \in Actors : callPc[a] = "refunding" => evStatus = "Cancelled"

\* A sale that is, or may become, a ticket keeps its hold.
SaleHasHold ==
    \A h \in Hosted : LiveSale(h) => hold[HoldOf[h]] \in {"issuing", "confirmed"}

\* How a granted issuance, its issuing call and its submission go together.
GrantProgress ==
    \A g \in Grants :
        /\ grant[g] = "none" => sub[g] = "unsent" /\ work[g] = "idle"
        /\ work[g] # "idle" => grant[g] = "pending"
        /\ work[g] = "placed" => sub[g] = "unsent"
        /\ grant[g] = "rejected" => sub[g] = "refused"

SalesInv == /\ TypeInv
            /\ SaleProgress /\ RefundProgress /\ SaleHasHold /\ OneSalePerHold
            /\ GrantProgress /\ SeatExclusive

(***************************************************************************)
(* Facts about the operators the actions are built from                    *)
(***************************************************************************)

\* Recording lapses keeps the hold statuses well typed (allocationCounts, allocation.ts).
LEMMA LapseType ==
    ASSUME TypeOK
    PROVE  Lapse(hold) \in [Checkouts -> HoldStatus \cup {"none"}]
  BY DEF TypeOK, Lapse, HoldStatus

\* Releasing one hold keeps them well typed too (releaseHold, payment.ts).
LEMMA ReleaseHoldType ==
    ASSUME TypeOK, NEW h \in [Checkouts -> HoldStatus \cup {"none"}], NEW c \in Checkouts
    PROVE  ReleaseHold(h, c) \in [Checkouts -> HoldStatus \cup {"none"}]
  BY DEF TypeOK, ReleaseHold, HoldStatus

\* The actions of Holds (place, lapse) preserve types.
LEMMA HoldsType == TypeOK /\ HoldsNext => TypeOK'
<1> SUFFICES ASSUME TypeOK, HoldsNext PROVE TypeOK'
  OBVIOUS
<1> USE DEF ledgerVars, payVars, callVars
<1>1. ASSUME NEW c \in Checkouts, Place(c) PROVE TypeOK'
  BY <1>1, LapseType DEF TypeOK, Place, HoldStatus
<1>2. ASSUME NEW c \in Checkouts, PlaceRefused(c) PROVE TypeOK'
  BY <1>2, LapseType DEF TypeOK, PlaceRefused
<1>3. ASSUME NEW c \in Checkouts, PlaceAgain(c) PROVE TypeOK'
  BY <1>3, LapseType DEF TypeOK, PlaceAgain
<1>4. ASSUME NEW c \in Checkouts, Expire(c) PROVE TypeOK'
  BY <1>4 DEF TypeOK, Expire
<1>5. CASE LapseExpired
  BY <1>5, LapseType DEF TypeOK, LapseExpired
<1> QED
  BY <1>1, <1>2, <1>3, <1>4, <1>5 DEF HoldsNext

\* The provider's steps and the calls of Payment (pay, cancel, webhook, sweep, reconcile, issue)
\* preserve types.
LEMMA PaymentType == TypeInv /\ PaymentNext => TypeOK'
<1> SUFFICES ASSUME TypeOK, ProviderKnown, PaymentNext PROVE TypeOK'
  BY DEF TypeInv
<1> USE DEF ledgerVars, payVars, holdVars, callVars
<1>1. ASSUME NEW h \in Hosted, BuyerPays(h) \/ BuyerMispays(h) \/ CheckoutEnds(h)
      PROVE  TypeOK'
  BY <1>1 DEF TypeOK, BuyerPays, BuyerMispays, CheckoutEnds, ProviderStep, Remote
<1>2. ASSUME NEW h \in Hosted, Webhook(h) PROVE TypeOK'
  BY <1>2 DEF TypeOK, Webhook, ProviderKnown, Read
<1>3. ASSUME NEW h \in Hosted, Sweep(h) PROVE TypeOK'
  BY <1>3 DEF TypeOK, Sweep, Cancelled, IsPaid, Remote, HostedStatus, Read
<1>4. ASSUME NEW h \in Hosted, Issue(h) PROVE TypeOK'
  BY <1>4 DEF TypeOK, Issue, Issuances, Submission
<1>5. ASSUME NEW h \in Hosted, RecordTicket(h) PROVE TypeOK'
  BY <1>5 DEF TypeOK, RecordTicket, Issuances
<1>6. ASSUME NEW h \in Hosted, NEW o \in {"issued", "rejected", "failed"}, CompleteSale(h, o)
      PROVE  TypeOK'
  BY <1>6, TargetsAssumption
     DEF TypeOK, CompleteSale, SaleStatus, HoldStatus, RefundReason, Issuances
<1>7. ASSUME NEW h \in Hosted,
             IssueNotSigned(h) \/ SaleIssued(h) \/ SaleRejected(h) \/ SaleFailed(h)
      PROVE  TypeOK'
  BY <1>6, <1>7 DEF IssueNotSigned, SaleIssued, SaleRejected, SaleFailed
<1>8. ASSUME NEW c \in Checkouts, CancelUnpaid(c) PROVE TypeOK'
  <2>1. hold' \in [Checkouts -> HoldStatus \cup {"none"}]
    BY <1>8, ReleaseHoldType DEF TypeOK, CancelUnpaid
  <2> QED
    BY <1>8, <2>1 DEF TypeOK, CancelUnpaid, OpenHosted, Cancelled, IsPaid, Remote, HostedStatus
<1>9. ASSUME NEW c \in Checkouts, NEW h \in Hosted, PayCreates(c, h) PROVE TypeOK'
  BY <1>9 DEF TypeOK, PayCreates, Remote, HostedStatus
<1>10. ASSUME NEW c \in Checkouts, NEW h \in Hosted, PayFindsPaid(c, h) PROVE TypeOK'
  BY <1>10 DEF TypeOK, PayFindsPaid, IsPaid, Remote, HostedStatus, Read
<1>11. ASSUME NEW c \in Checkouts, NEW h \in Hosted, CancelFindsPaid(c, h) PROVE TypeOK'
  BY <1>11 DEF TypeOK, CancelFindsPaid, IsPaid, Remote, Read
<1>12. ASSUME NEW r \in reads, ReconcileUnpaid(r) PROVE TypeOK'
  BY <1>12 DEF TypeOK, ReconcileUnpaid, IsPaid, Remote, HostedStatus, Read
<1>13. ASSUME NEW r \in reads, TakePlace(r) PROVE TypeOK'
  <2>1. r.of \in Hosted /\ HoldOf[r.of] \in Checkouts
    BY TargetsAssumption DEF TypeOK, Read
  <2>2. ReleaseHold(hold, HoldOf[r.of]) \in [Checkouts -> HoldStatus \cup {"none"}]
    BY <2>1, ReleaseHoldType DEF TypeOK
  <2>3. hold \in [Checkouts -> HoldStatus \cup {"none"}]
    BY DEF TypeOK
  <2>4. hold' \in [Checkouts -> HoldStatus \cup {"none"}]
    BY <1>13, <2>1, <2>2, <2>3, LapseType DEF TakePlace, TakeRefund, TakeSale, HoldStatus
  <2> QED
    BY <1>13, <2>1, <2>4
       DEF TypeOK, TakePlace, TakeRefund, TakeSale, SaleStatus, RefundReason, HostedStatus,
           Issuances
<1> QED
  BY <1>1, <1>2, <1>3, <1>4, <1>5, <1>7, <1>8, <1>9, <1>10, <1>11, <1>12, <1>13 DEF PaymentNext

\* Granted issuance and the ledger's verdicts preserve types.
LEMMA IssuanceType == TypeOK /\ IssuanceNext => TypeOK'
<1> SUFFICES ASSUME TypeOK, IssuanceNext PROVE TypeOK'
  OBVIOUS
<1> USE DEF ledgerVars, payVars, holdVars, callVars
<1>1. ASSUME NEW g \in Grants, Reserve(g) PROVE TypeOK'
  BY <1>1, LapseType DEF TypeOK, Reserve, GrantStatus, Issuances
<1>2. ASSUME NEW g \in Grants, SubmitGrant(g) PROVE TypeOK'
  BY <1>2 DEF TypeOK, SubmitGrant, Submission, Issuances
<1>3. ASSUME NEW g \in Grants, NEW o \in GrantStatus \cup {"none"}, CompleteGrant(g, o)
      PROVE  TypeOK'
  BY <1>3 DEF TypeOK, CompleteGrant, Issuances
<1>4. ASSUME NEW g \in Grants,
             GrantNotSigned(g) \/ GrantSettled(g) \/ GrantRejected(g) \/ GrantFailed(g)
      PROVE  TypeOK'
  BY <1>3, <1>4 DEF GrantNotSigned, GrantSettled, GrantRejected, GrantFailed, GrantStatus
<1>5. ASSUME NEW x \in Issuances, LedgerIssues(x) \/ LedgerRefuses(x) PROVE TypeOK'
  BY <1>5 DEF TypeOK, LedgerIssues, LedgerRefuses, LedgerDecides, Submission
<1> QED
  BY <1>1, <1>2, <1>4, <1>5 DEF IssuanceNext

\* The organiser's calls and capacity decreases preserve types.
LEMMA OrganiserType == TypeOK /\ OrganiserNext => TypeOK'
<1> SUFFICES ASSUME TypeOK, OrganiserNext PROVE TypeOK'
  OBVIOUS
<1> USE DEF ledgerVars, payVars, holdVars, callVars
<1>1. ASSUME NEW a \in Actors, NEW to \in EventStatus \ {"Active"}, CallBegins(a, to)
      PROVE  TypeOK'
  BY <1>1 DEF TypeOK, CallBegins, CallPc
<1>2. ASSUME NEW a \in Actors, CloseSales(a) PROVE TypeOK'
  BY <1>2 DEF TypeOK, CloseSales, CallPc
<1>3. ASSUME NEW a \in Actors, NEW pc \in {"awaiting", "listing", "done", "failed"},
             CallStep(a, pc)
      PROVE  callPc' \in [Actors -> CallPc]
  BY <1>3 DEF TypeOK, CallStep, CallPc
<1>4. ASSUME NEW a \in Actors, SubmitStatus(a) PROVE TypeOK'
  BY <1>3, <1>4 DEF TypeOK, SubmitStatus, CallStep, Submission
<1>5. ASSUME NEW a \in Actors, NEW c \in Checkouts, ReleaseOne(a, c) PROVE TypeOK'
  <2> DEFINE paid == {h \in OpenHosted(c) : IsPaid(provider[h])}
  <2>1. paid \subseteq Hosted
    BY DEF OpenHosted
  <2>2. {[of |-> h, seen |-> provider[h]] : h \in paid} \subseteq Read
    BY <2>1 DEF TypeOK, Read, IsPaid, Remote
  <2>3. foundPaid' \in [Actors -> SUBSET Hosted] /\ todo' \in [Actors -> SUBSET Checkouts]
    BY <1>5, <2>1 DEF TypeOK, ReleaseOne
  <2>4. reads' \subseteq Read
    BY <1>5, <2>2 DEF TypeOK, ReleaseOne
  <2>5. hold' \in [Checkouts -> HoldStatus \cup {"none"}]
    BY <1>5 DEF TypeOK, ReleaseOne, HoldStatus
  <2> QED
    BY <1>5, <2>3, <2>4, <2>5
       DEF TypeOK, ReleaseOne, OpenHosted, Cancelled, IsPaid, Remote, HostedStatus
<1>6. ASSUME NEW a \in Actors, LedgerChangesStatus(a) \/ LedgerRefusesStatus(a) PROVE TypeOK'
  BY <1>6 DEF TypeOK, LedgerChangesStatus, LedgerRefusesStatus, Submission
<1>7. ASSUME NEW a \in Actors,
             \/ StatusChanged(a) \/ StatusLost(a) \/ CallFails(a) \/ RefundsRetried(a)
             \/ RefundsDone(a)
      PROVE  TypeOK'
  <2>1. PICK pc \in {"awaiting", "listing", "done", "failed"} : CallStep(a, pc)
    BY <1>7 DEF StatusChanged, StatusLost, CallFails, RefundsRetried, RefundsDone
  <2>2. UNCHANGED <<ledgerVars, provider, holdVars, payVars, grant, closed, work, crashes>>
    BY <1>7 DEF StatusChanged, StatusLost, CallFails, RefundsRetried, RefundsDone
  <2> QED
    BY <1>3, <2>1, <2>2 DEF TypeOK, CallStep
<1>12. ASSUME NEW a \in Actors, StatusRefused(a) PROVE TypeOK'
  <2>1. closed' \in BOOLEAN
    BY <1>12 DEF StatusRefused
  <2> QED
    BY <1>3, <1>12, <2>1 DEF TypeOK, StatusRefused, CallStep
<1>8. ASSUME NEW a \in Actors, ListSales(a) PROVE TypeOK'
  BY <1>8 DEF TypeOK, ListSales, CallPc
<1>9. ASSUME NEW a \in Actors, NEW h \in Hosted, RefundOne(a, h) PROVE TypeOK'
  BY <1>9 DEF TypeOK, RefundOne, RefundReason
<1>10. ASSUME NEW to \in Capacities, DecreaseCapacity(to) \/ DecreaseLost(to) PROVE TypeOK'
  BY <1>10, LapseType, CapacitiesAssumption DEF TypeOK, DecreaseCapacity, DecreaseLost
<1>11. CASE LateDecrease
  BY <1>11 DEF TypeOK, LateDecrease
<1> QED
  BY <1>1, <1>2, <1>4, <1>5, <1>6, <1>7, <1>8, <1>9, <1>10, <1>11, <1>12
  DEF OrganiserNext

\* A stop of the server preserves types.
LEMMA CrashType == TypeOK /\ Crash => TypeOK'
  BY DEF Crash, TypeOK, ledgerVars, holdVars, CallPc

\* The provider never forgets a hosted checkout, and one that was paid or has ended never changes.
LEMMA ProviderForward ==
    ASSUME TypeOK, [Next]_vars, NEW h \in Hosted
    PROVE  /\ provider[h] # "none" => provider'[h] # "none"
           /\ provider[h] \notin {"none", "open"} => provider'[h] = provider[h]
<1> USE DEF ledgerVars, payVars, holdVars, callVars
<1>1. CASE HoldsNext
  BY <1>1 DEF TypeOK, HoldsNext, Place, PlaceRefused, PlaceAgain, Expire, LapseExpired
<1>2. CASE PaymentNext
  <2>1. ASSUME NEW k \in Hosted, BuyerPays(k) \/ BuyerMispays(k) \/ CheckoutEnds(k) \/ Sweep(k)
        PROVE  /\ provider[h] # "none" => provider'[h] # "none"
               /\ provider[h] \notin {"none", "open"} => provider'[h] = provider[h]
    BY <2>1 DEF TypeOK, BuyerPays, BuyerMispays, CheckoutEnds, ProviderStep, Sweep, Cancelled
  <2>2. ASSUME NEW c \in Checkouts, NEW k \in Hosted, PayCreates(c, k) \/ CancelUnpaid(c)
        PROVE  /\ provider[h] # "none" => provider'[h] # "none"
               /\ provider[h] \notin {"none", "open"} => provider'[h] = provider[h]
    BY <2>2 DEF TypeOK, PayCreates, CancelUnpaid, Cancelled
  <2>3. CASE UNCHANGED provider
    BY <2>3
  <2> QED
    BY <1>2, <2>1, <2>2, <2>3
       DEF PaymentNext, Webhook, Issue, RecordTicket, IssueNotSigned, SaleIssued, SaleRejected,
           SaleFailed, CompleteSale, PayFindsPaid, CancelFindsPaid, ReconcileUnpaid, TakePlace
<1>3. CASE IssuanceNext
  BY <1>3 DEF IssuanceNext, Reserve, SubmitGrant, GrantNotSigned, GrantSettled, GrantRejected,
              GrantFailed, CompleteGrant, LedgerIssues, LedgerRefuses, LedgerDecides
<1>4. CASE OrganiserNext
  <2>1. ASSUME NEW a \in Actors, NEW c \in Checkouts, ReleaseOne(a, c)
        PROVE  /\ provider[h] # "none" => provider'[h] # "none"
               /\ provider[h] \notin {"none", "open"} => provider'[h] = provider[h]
    BY <2>1 DEF TypeOK, ReleaseOne, Cancelled
  <2>2. CASE UNCHANGED provider
    BY <2>2
  <2> QED
    BY <1>4, <2>1, <2>2
       DEF OrganiserNext, CallBegins, CloseSales, SubmitStatus, LedgerChangesStatus,
           LedgerRefusesStatus, StatusChanged, StatusRefused, StatusLost, CallFails, ListSales,
           RefundsRetried, RefundsDone, RefundOne, DecreaseCapacity, DecreaseLost, LateDecrease
<1>5. CASE Crash \/ UNCHANGED vars
  BY <1>5 DEF Crash, vars
<1> QED
  BY <1>1, <1>2, <1>3, <1>4, <1>5 DEF Next

\* What Kippu has been told of hosted checkouts stays true.
LEMMA ProviderKnownStep == TypeInv /\ [Next]_vars => ProviderKnown'
<1> SUFFICES ASSUME TypeOK, ProviderKnown, [Next]_vars PROVE ProviderKnown'
  BY DEF TypeInv
<1> USE DEF ledgerVars, payVars, holdVars, callVars
<1>1. ASSUME UNCHANGED hosted, reads' \subseteq reads PROVE ProviderKnown'
  BY <1>1, ProviderForward DEF ProviderKnown, TypeOK, Read, IsPaid
<1>2. ASSUME NEW h \in Hosted, provider[h] # "none", UNCHANGED <<hosted, provider>>,
             reads' = reads \cup {[of |-> h, seen |-> provider[h]]}
      PROVE  ProviderKnown'
  BY <1>2 DEF ProviderKnown, TypeOK, Read
<1>3. ASSUME reads' \subseteq reads, NEW h \in Hosted, provider'[h] # "none",
             \A k \in Hosted : k # h /\ hosted[k] = "none" => hosted'[k] = "none"
      PROVE  ProviderKnown'
  BY <1>3, ProviderForward DEF ProviderKnown, TypeOK, Read, IsPaid
<1>4. CASE HoldsNext
  BY <1>1, <1>4 DEF HoldsNext, Place, PlaceRefused, PlaceAgain, Expire, LapseExpired
<1>5. CASE PaymentNext
  <2>1. ASSUME NEW h \in Hosted,
               \/ BuyerPays(h) \/ BuyerMispays(h) \/ CheckoutEnds(h) \/ Issue(h)
               \/ RecordTicket(h) \/ IssueNotSigned(h) \/ SaleIssued(h) \/ SaleRejected(h)
               \/ SaleFailed(h)
        PROVE  ProviderKnown'
    BY <1>1, <2>1
       DEF BuyerPays, BuyerMispays, CheckoutEnds, ProviderStep, Issue, RecordTicket,
           IssueNotSigned, SaleIssued, SaleRejected, SaleFailed, CompleteSale
  <2>2. ASSUME NEW h \in Hosted, Webhook(h) PROVE ProviderKnown'
    BY <1>2, <2>2 DEF Webhook, ProviderKnown
  <2>3. ASSUME NEW c \in Checkouts, NEW h \in Hosted, CancelFindsPaid(c, h) PROVE ProviderKnown'
    BY <1>2, <2>3 DEF CancelFindsPaid, IsPaid
  <2>4. ASSUME NEW h \in Hosted, Sweep(h) PROVE ProviderKnown'
    <3>1. CASE IsPaid(provider[h])
      <4>1. UNCHANGED provider
        BY <2>4, <3>1 DEF Sweep, Cancelled, IsPaid, TypeOK
      <4> QED
        BY <1>2, <2>4, <3>1, <4>1 DEF Sweep, IsPaid
    <3>2. CASE ~IsPaid(provider[h])
      <4>1. provider'[h] # "none"
        BY <2>4, ProviderForward DEF Sweep, ProviderKnown
      <4> QED
        BY <1>3, <2>4, <3>2, <4>1 DEF Sweep, TypeOK
    <3> QED BY <3>1, <3>2
  <2>5. ASSUME NEW c \in Checkouts, NEW h \in Hosted, PayCreates(c, h) PROVE ProviderKnown'
    <3>1. provider'[h] # "none"
      BY <2>5 DEF PayCreates, TypeOK
    <3>2. \A k \in Hosted : k # h /\ hosted[k] = "none" => hosted'[k] = "none"
      BY <2>5 DEF PayCreates, OpenHosted, TypeOK
    <3> QED
      BY <1>3, <2>5, <3>1, <3>2 DEF PayCreates
  <2>6. ASSUME NEW c \in Checkouts, NEW h \in Hosted, PayFindsPaid(c, h) PROVE ProviderKnown'
    BY <2>6 DEF PayFindsPaid, ProviderKnown, TypeOK, Read, IsPaid
  <2>7. ASSUME NEW c \in Checkouts, CancelUnpaid(c) PROVE ProviderKnown'
    <3>1. \A k \in Hosted : hosted[k] = "none" => hosted'[k] = "none"
      BY <2>7 DEF CancelUnpaid, OpenHosted, TypeOK
    <3> QED
      BY <2>7, <3>1, ProviderForward DEF CancelUnpaid, ProviderKnown, TypeOK, Read, IsPaid
  <2>8. ASSUME NEW r \in reads, ReconcileUnpaid(r) \/ TakePlace(r) PROVE ProviderKnown'
    <3>1. r.of \in Hosted /\ provider'[r.of] # "none"
      BY <2>8, ProviderForward DEF ProviderKnown, TypeOK, Read
    <3>2. \A k \in Hosted : k # r.of => hosted'[k] = hosted[k]
      BY <2>8 DEF ReconcileUnpaid, TakePlace, TypeOK
    <3>3. reads' \subseteq reads
      BY <2>8 DEF ReconcileUnpaid, TakePlace
    <3> QED
      BY <1>3, <3>1, <3>2, <3>3
  <2> QED
    BY <1>5, <2>1, <2>2, <2>3, <2>4, <2>5, <2>6, <2>7, <2>8 DEF PaymentNext
<1>6. CASE IssuanceNext
  BY <1>1, <1>6 DEF IssuanceNext, Reserve, SubmitGrant, GrantNotSigned, GrantSettled,
                    GrantRejected, GrantFailed, CompleteGrant, LedgerIssues, LedgerRefuses,
                    LedgerDecides
<1>7. CASE OrganiserNext
  <2>1. ASSUME NEW a \in Actors, NEW c \in Checkouts, ReleaseOne(a, c) PROVE ProviderKnown'
    <3>1. \A k \in Hosted : hosted[k] = "none" => hosted'[k] = "none"
      BY <2>1 DEF ReleaseOne, OpenHosted, TypeOK
    <3>2. \A r \in reads' : r \in reads \/ (r.of \in Hosted /\ IsPaid(provider[r.of])
                                          /\ r.seen = provider[r.of])
      BY <2>1 DEF ReleaseOne, OpenHosted
    <3> QED
      BY <3>1, <3>2, ProviderForward DEF ProviderKnown, TypeOK, Read, IsPaid
  <2>2. CASE UNCHANGED <<hosted, reads>>
    BY <1>1, <2>2
  <2> QED
    BY <1>7, <2>1, <2>2
       DEF OrganiserNext, CallBegins, CloseSales, SubmitStatus, LedgerChangesStatus,
           LedgerRefusesStatus, StatusChanged, StatusRefused, StatusLost, CallFails, ListSales,
           RefundsRetried, RefundsDone, RefundOne, DecreaseCapacity, DecreaseLost, LateDecrease
<1>8. CASE Crash \/ UNCHANGED vars
  BY <1>1, <1>8 DEF Crash, vars
<1> QED
  BY <1>4, <1>5, <1>6, <1>7, <1>8 DEF Next

\* Types and what is known of the provider, together, are inductive.
LEMMA TypeInvInit == Init => TypeInv
<1>1. Init => TypeOK
  <2> SUFFICES ASSUME Init PROVE TypeOK
    OBVIOUS
  <2>1. expired \in [Checkouts -> BOOLEAN] /\ ticketed \in [Hosted -> BOOLEAN]
        /\ releases \in [Actors -> BOOLEAN] /\ closed \in BOOLEAN
    BY DEF Init
  <2>2. evCapacity \in Nat \cup {NoLimit} /\ capacityOp \in Nat \cup {NoLimit} /\ crashes \in Nat
    BY LimitsAssumption DEF Init
  <2>3. todo \in [Actors -> SUBSET Checkouts] /\ foundPaid \in [Actors -> SUBSET Hosted]
        /\ toRefund \in [Actors -> SUBSET Hosted] /\ reads \subseteq Read
    BY DEF Init
  <2>4. evStatus \in EventStatus /\ callTo \in [Actors -> EventStatus \ {"Active"}]
    BY DEF Init, EventStatus
  <2> QED
    BY <2>1, <2>2, <2>3, <2>4 DEF Init, TypeOK, Submission, CallPc
<1>2. Init => ProviderKnown
  BY DEF Init, ProviderKnown
<1> QED
  BY <1>1, <1>2 DEF TypeInv

\* Every step keeps types and what is known of the provider.
LEMMA TypeInvStep == TypeInv /\ [Next]_vars => TypeInv'
<1>1. TypeOK /\ UNCHANGED vars => TypeOK'
  BY DEF vars, TypeOK
<1> QED
  BY <1>1, ProviderKnownStep, HoldsType, PaymentType, IssuanceType, OrganiserType, CrashType
     DEF Next, TypeInv

\* Every column and process variable keeps a value its CHECK constraint or its type allows, in
\* every behaviour of the sales of an event.
THEOREM TypeCorrect == Spec => []TypeOK
<1>1. TypeInv => TypeOK
  BY DEF TypeInv
<1> QED
  BY <1>1, TypeInvInit, TypeInvStep, PTL DEF Spec

(***************************************************************************)
(* Steps that touch no sale, refund, grant or submission, and take no      *)
(* place: every invariant below is indifferent to them.                    *)
(***************************************************************************)
KeepsSold  == \A c \in Checkouts : hold[c] \in {"issuing", "confirmed"} => hold'[c] = hold[c]
EndsOnly   == \A c \in Checkouts :
                  \/ hold'[c] = hold[c]
                  \/ hold[c] = "outstanding" /\ hold'[c] \in {"lapsed", "released"}
ListsNone  == \A a \in Actors : callPc'[a] = "refunding" => callPc[a] = "refunding"
Quiet      == /\ UNCHANGED <<sale, refund, sub, work, grant, evStatus>>
              /\ KeepsSold /\ EndsOnly /\ ListsNone

\* Recording lapses ends outstanding holds only.
LEMMA LapseKeeps ==
    ASSUME TypeOK, NEW c \in Checkouts
    PROVE  Lapse(hold)[c] = hold[c] \/ (hold[c] = "outstanding" /\ Lapse(hold)[c] = "lapsed")
  BY DEF TypeOK, Lapse

\* Releasing ends outstanding holds only.
LEMMA ReleaseHoldKeeps ==
    ASSUME TypeOK, NEW c \in Checkouts, NEW d \in Checkouts
    PROVE  \/ ReleaseHold(hold, c)[d] = hold[d]
           \/ hold[d] = "outstanding" /\ ReleaseHold(hold, c)[d] \in {"lapsed", "released"}
  BY DEF TypeOK, ReleaseHold

\* Granted issuance leaves sales, refunds and paid holds alone.
LEMMA GrantSteps ==
    ASSUME TypeOK, NEW g \in Grants,
           \/ Reserve(g) \/ SubmitGrant(g) \/ GrantNotSigned(g) \/ GrantSettled(g)
           \/ GrantRejected(g) \/ GrantFailed(g)
    PROVE  /\ UNCHANGED <<sale, refund, evStatus, callPc>> /\ KeepsSold /\ EndsOnly
           /\ \A h \in Hosted : sub'[h] = sub[h] /\ work'[h] = work[h]
<1> USE DEF ledgerVars, payVars, holdVars, callVars
<1> DEFINE Apart == \A h \in Hosted : sub'[h] = sub[h] /\ work'[h] = work[h]
<1>0. \A h \in Hosted : h # g
  BY SetsAssumption
<1>1. CASE Reserve(g)
  <2>1. KeepsSold /\ EndsOnly
    BY <1>1, LapseKeeps DEF Reserve, KeepsSold, EndsOnly, Allocated
  <2>2. Apart
    BY <1>0, <1>1 DEF Reserve, TypeOK, Issuances
  <2> QED
    BY <1>1, <2>1, <2>2 DEF Reserve
<1>2. CASE SubmitGrant(g)
  <2>1. Apart
    BY <1>0, <1>2 DEF SubmitGrant, TypeOK, Issuances
  <2> QED
    BY <1>2, <2>1 DEF SubmitGrant, KeepsSold, EndsOnly
<1>3. ASSUME NEW o \in {"none", "settled", "rejected", "failed"}, CompleteGrant(g, o)
      PROVE  UNCHANGED <<sale, refund, evStatus, callPc>> /\ KeepsSold /\ EndsOnly /\ Apart
  <2>1. Apart
    BY <1>0, <1>3 DEF CompleteGrant, TypeOK, Issuances
  <2> QED
    BY <1>3, <2>1 DEF CompleteGrant, KeepsSold, EndsOnly
<1> QED
  BY <1>1, <1>2, <1>3 DEF GrantNotSigned, GrantSettled, GrantRejected, GrantFailed

\* Every step is quiet, or one of the few that are not.
LEMMA Steps ==
    ASSUME TypeOK, [Next]_vars
    PROVE  \/ Quiet
           \/ \E c \in Checkouts : Place(c)
           \/ \E h \in Hosted :
                 \/ Issue(h) \/ RecordTicket(h)
                 \/ IssueNotSigned(h) \/ SaleIssued(h) \/ SaleRejected(h) \/ SaleFailed(h)
           \/ \E r \in reads : TakePlace(r)
           \/ \E g \in Grants :
                 \/ Reserve(g) \/ SubmitGrant(g)
                 \/ GrantNotSigned(g) \/ GrantSettled(g) \/ GrantRejected(g) \/ GrantFailed(g)
           \/ \E x \in Issuances : LedgerIssues(x) \/ LedgerRefuses(x)
           \/ \E a \in Actors : LedgerChangesStatus(a) \/ ListSales(a)
           \/ \E a \in Actors, h \in Hosted : RefundOne(a, h)
           \/ Crash
<1> USE DEF ledgerVars, payVars, holdVars, callVars
<1> DEFINE Still == UNCHANGED <<sale, refund, sub, work, grant, evStatus>>
<1>1. ASSUME Still, hold' = Lapse(hold), UNCHANGED callPc PROVE Quiet
  BY <1>1, LapseKeeps DEF Quiet, KeepsSold, EndsOnly, ListsNone, Allocated
<1>2. ASSUME Still, UNCHANGED <<hold, callPc>> PROVE Quiet
  BY <1>2 DEF Quiet, KeepsSold, EndsOnly, ListsNone
<1>3. ASSUME NEW c \in Checkouts, Still, hold' = ReleaseHold(hold, c), UNCHANGED callPc PROVE Quiet
  BY <1>3, ReleaseHoldKeeps DEF Quiet, KeepsSold, EndsOnly, ListsNone, Allocated
<1>4. ASSUME NEW a \in Actors, NEW pc \in CallPc \ {"refunding"}, Still, UNCHANGED hold,
             callPc' = [callPc EXCEPT ![a] = pc]
      PROVE  Quiet
  BY <1>4 DEF Quiet, KeepsSold, EndsOnly, ListsNone, TypeOK
<1>5. ASSUME NEW a \in Actors, NEW c \in Checkouts, ReleaseOne(a, c) PROVE Quiet
  BY <1>5 DEF ReleaseOne, Quiet, KeepsSold, EndsOnly, ListsNone, TypeOK, Allocated
<1>6. CASE HoldsNext
  BY <1>1, <1>2, <1>6 DEF HoldsNext, PlaceRefused, PlaceAgain, Expire, LapseExpired
<1>7. CASE PaymentNext
  BY <1>2, <1>3, <1>7
     DEF PaymentNext, BuyerPays, BuyerMispays, CheckoutEnds, ProviderStep, Webhook, Sweep,
         CancelUnpaid, PayCreates, PayFindsPaid, CancelFindsPaid, ReconcileUnpaid
<1>8. CASE IssuanceNext
  BY <1>8 DEF IssuanceNext
<1>9. CASE OrganiserNext
  <2>1. ASSUME NEW a \in Actors, NEW to \in EventStatus \ {"Active"}, CallBegins(a, to) PROVE Quiet
    <3>1. PICK pc \in CallPc \ {"refunding"} : callPc' = [callPc EXCEPT ![a] = pc]
      BY <2>1 DEF CallBegins, CallPc
    <3> QED
      BY <1>4, <2>1, <3>1 DEF CallBegins
  <2>2. ASSUME NEW a \in Actors, CloseSales(a) PROVE Quiet
    BY <1>4, <2>2 DEF CloseSales, CallPc
  <2>3. ASSUME NEW a \in Actors,
               \/ SubmitStatus(a) \/ StatusChanged(a) \/ StatusRefused(a) \/ StatusLost(a)
               \/ CallFails(a) \/ RefundsRetried(a) \/ RefundsDone(a)
        PROVE  Quiet
    <3>1. PICK pc \in CallPc \ {"refunding"} : callPc' = [callPc EXCEPT ![a] = pc]
      BY <2>3 DEF SubmitStatus, StatusChanged, StatusRefused, StatusLost, CallFails,
                  RefundsRetried, RefundsDone, CallStep, CallPc
    <3>2. Still /\ UNCHANGED hold
      BY <2>3 DEF SubmitStatus, StatusChanged, StatusRefused, StatusLost, CallFails,
                  RefundsRetried, RefundsDone
    <3> QED
      BY <1>4, <3>1, <3>2
  <2>4. ASSUME NEW a \in Actors, LedgerRefusesStatus(a) PROVE Quiet
    BY <1>2, <2>4 DEF LedgerRefusesStatus
  <2>5. ASSUME NEW to \in Capacities, DecreaseCapacity(to) \/ DecreaseLost(to) PROVE Quiet
    BY <1>1, <1>2, <2>5 DEF DecreaseCapacity, DecreaseLost
  <2>6. CASE LateDecrease
    BY <1>2, <2>6 DEF LateDecrease
  <2> QED
    BY <1>5, <1>9, <2>1, <2>2, <2>3, <2>4, <2>5, <2>6 DEF OrganiserNext
<1>10. CASE UNCHANGED vars
  BY <1>2, <1>10 DEF vars
<1> QED
  BY <1>6, <1>7, <1>8, <1>9, <1>10 DEF Next

(***************************************************************************)
(* Each part of the invariant is kept                                      *)
(***************************************************************************)

\* Sales, payments, issuing calls and submissions stay in step (takePlace, issue, complete).
LEMMA SaleProgressStep ==
    ASSUME TypeInv, SaleProgress, [Next]_vars
    PROVE  SaleProgress'
<1> USE DEF ledgerVars, payVars, holdVars, callVars
<1>0. TypeOK /\ ProviderKnown
  BY DEF TypeInv
<1>a. \A h \in Hosted : provider[h] = "paid" => provider'[h] = "paid"
  BY <1>0, ProviderForward
<1>1. ASSUME UNCHANGED <<sale, sub>>, \A h \in Hosted : work'[h] \in {work[h], "idle"}
      PROVE  SaleProgress'
  BY <1>0, <1>1, <1>a DEF SaleProgress, TypeOK
<1>2. ASSUME NEW h \in Hosted, Issue(h) \/ RecordTicket(h) PROVE SaleProgress'
  BY <1>0, <1>2 DEF SaleProgress, Issue, RecordTicket, TypeOK, Issuances
<1>3. ASSUME NEW h \in Hosted,
             IssueNotSigned(h) \/ SaleIssued(h) \/ SaleRejected(h) \/ SaleFailed(h)
      PROVE  SaleProgress'
  BY <1>0, <1>3
     DEF SaleProgress, IssueNotSigned, SaleIssued, SaleRejected, SaleFailed, CompleteSale, TypeOK,
         Issuances
<1>4. ASSUME NEW r \in reads, TakePlace(r) PROVE SaleProgress'
  <2>1. r.of \in Hosted /\ (IsPaid(r.seen) => provider[r.of] = r.seen)
    BY <1>0 DEF TypeOK, Read, ProviderKnown
  <2>2. CASE UNCHANGED <<sale, work>>
    BY <1>1, <1>4, <2>2 DEF TakePlace
  <2>3. CASE ~Handled(r.of) /\ r.seen = "paid" /\ TakeSale(r.of, Lapse(hold))
    BY <1>0, <1>4, <2>1, <2>3
       DEF SaleProgress, TakePlace, TakeSale, Handled, IsPaid, TypeOK, Issuances
  <2> QED
    BY <1>4, <2>2, <2>3 DEF TakePlace, TakeRefund
<1>5. ASSUME NEW g \in Grants,
             \/ Reserve(g) \/ SubmitGrant(g) \/ GrantNotSigned(g) \/ GrantSettled(g)
             \/ GrantRejected(g) \/ GrantFailed(g)
      PROVE  SaleProgress'
  <2>1. UNCHANGED sale /\ \A h \in Hosted : sub'[h] = sub[h] /\ work'[h] = work[h]
    BY <1>0, <1>5, GrantSteps
  <2> QED
    BY <1>a, <2>1 DEF SaleProgress
<1>6. ASSUME NEW x \in Issuances, LedgerIssues(x) \/ LedgerRefuses(x) PROVE SaleProgress'
  BY <1>0, <1>6 DEF SaleProgress, LedgerIssues, LedgerRefuses, LedgerDecides, TypeOK, Issuances
<1>7. ASSUME NEW a \in Actors, LedgerChangesStatus(a) \/ ListSales(a) PROVE SaleProgress'
  BY <1>1, <1>7 DEF LedgerChangesStatus, ListSales
<1>8. ASSUME NEW a \in Actors, NEW h \in Hosted, RefundOne(a, h) PROVE SaleProgress'
  BY <1>1, <1>8 DEF RefundOne
<1>9. CASE Crash
  BY <1>1, <1>9 DEF Crash, Issuances
<1>10. ASSUME NEW c \in Checkouts, Place(c) PROVE SaleProgress'
  BY <1>1, <1>10 DEF Place
<1>11. CASE Quiet
  BY <1>1, <1>11 DEF Quiet
<1> QED
  BY <1>0, <1>2, <1>3, <1>4, <1>5, <1>6, <1>7, <1>8, <1>9, <1>10, <1>11, Steps

\* Each refund goes with the sale its reason says (takePlace, complete, recordCancellationRefunds).
LEMMA RefundProgressStep ==
    ASSUME TypeInv, SaleProgress, RefundProgress, [Next]_vars
    PROVE  RefundProgress'
<1> USE DEF ledgerVars, payVars, holdVars, callVars
<1>0. TypeOK
  BY DEF TypeInv
<1>1. ASSUME UNCHANGED <<sale, refund, sub, evStatus>>, ListsNone PROVE RefundProgress'
  BY <1>1 DEF RefundProgress, ListsNone
<1>2. ASSUME NEW h \in Hosted, Issue(h) \/ RecordTicket(h) PROVE RefundProgress'
  BY <1>0, <1>2 DEF RefundProgress, SaleProgress, Issue, RecordTicket, TypeOK, Issuances
<1>3. ASSUME NEW h \in Hosted,
             IssueNotSigned(h) \/ SaleIssued(h) \/ SaleRejected(h) \/ SaleFailed(h)
      PROVE  RefundProgress'
  <2>1. sale[h] = "issuing"
    BY <1>3 DEF SaleProgress, IssueNotSigned, SaleIssued, SaleRejected, SaleFailed
  <2> QED
    BY <1>0, <1>3, <2>1
       DEF RefundProgress, IssueNotSigned, SaleIssued, SaleRejected, SaleFailed, CompleteSale,
           TypeOK
<1>4. ASSUME NEW r \in reads, TakePlace(r) PROVE RefundProgress'
  <2>1. r.of \in Hosted
    BY <1>0 DEF TypeOK, Read
  <2> QED
    BY <1>0, <1>4, <2>1 DEF RefundProgress, TakePlace, TakeRefund, TakeSale, Handled, TypeOK
<1>5. ASSUME NEW g \in Grants,
             \/ Reserve(g) \/ SubmitGrant(g) \/ GrantNotSigned(g) \/ GrantSettled(g)
             \/ GrantRejected(g) \/ GrantFailed(g)
      PROVE  RefundProgress'
  <2>1. UNCHANGED <<sale, refund, evStatus, callPc>> /\ \A h \in Hosted : sub'[h] = sub[h]
    BY <1>0, <1>5, GrantSteps
  <2> QED
    BY <2>1 DEF RefundProgress
<1>6. ASSUME NEW x \in Issuances, LedgerIssues(x) \/ LedgerRefuses(x) PROVE RefundProgress'
  BY <1>0, <1>6 DEF RefundProgress, LedgerIssues, LedgerRefuses, LedgerDecides, TypeOK, Issuances
<1>7. ASSUME NEW a \in Actors, LedgerChangesStatus(a) PROVE RefundProgress'
  BY <1>0, <1>7 DEF RefundProgress, LedgerChangesStatus, Permitted, TypeOK
<1>8. ASSUME NEW a \in Actors, ListSales(a) PROVE RefundProgress'
  BY <1>0, <1>8 DEF RefundProgress, ListSales, TypeOK
<1>9. ASSUME NEW a \in Actors, NEW h \in Hosted, RefundOne(a, h) PROVE RefundProgress'
  BY <1>0, <1>9 DEF RefundProgress, RefundOne, Tickets, TypeOK
<1>10. CASE Crash
  BY <1>0, <1>1, <1>10 DEF Crash, ListsNone, TypeOK
<1>11. ASSUME NEW c \in Checkouts, Place(c) PROVE RefundProgress'
  BY <1>1, <1>11 DEF Place, ListsNone
<1>12. CASE Quiet
  BY <1>1, <1>12 DEF Quiet
<1> QED
  BY <1>0, <1>2, <1>3, <1>4, <1>5, <1>6, <1>7, <1>8, <1>9, <1>10, <1>11, <1>12, Steps

\* A live sale keeps its hold, and no other sale of the hold is live (takePlace, complete).
LEMMA SaleHasHoldStep ==
    ASSUME TypeInv, SaleProgress, SaleHasHold, OneSalePerHold, [Next]_vars
    PROVE  SaleHasHold' /\ OneSalePerHold'
<1> USE DEF ledgerVars, payVars, holdVars, callVars
<1>0. TypeOK /\ HoldOf \in [Hosted -> Checkouts]
  BY TargetsAssumption DEF TypeInv
<1>1. ASSUME UNCHANGED sale, KeepsSold PROVE SaleHasHold' /\ OneSalePerHold'
  BY <1>0, <1>1 DEF SaleHasHold, OneSalePerHold, LiveSale, KeepsSold
<1>2. ASSUME UNCHANGED <<sale, hold>> PROVE SaleHasHold' /\ OneSalePerHold'
  BY <1>1, <1>2 DEF KeepsSold
<1>3. ASSUME NEW h \in Hosted,
             IssueNotSigned(h) \/ SaleIssued(h) \/ SaleRejected(h) \/ SaleFailed(h)
      PROVE  SaleHasHold' /\ OneSalePerHold'
  <2>1. sale[h] = "issuing"
    BY <1>3 DEF SaleProgress, IssueNotSigned, SaleIssued, SaleRejected, SaleFailed
  <2>2. PICK o \in {"issued", "rejected", "failed"} : CompleteSale(h, o)
    BY <1>3 DEF IssueNotSigned, SaleIssued, SaleRejected, SaleFailed
  <2>3. \A k \in Hosted : k # h /\ LiveSale(k) => HoldOf[k] # HoldOf[h]
    BY <2>1 DEF OneSalePerHold, LiveSale
  <2>4. \A k \in Hosted : k # h => sale'[k] = sale[k]
    BY <1>0, <2>2 DEF CompleteSale, TypeOK
  <2>5. sale'[h] = o
    BY <1>0, <2>2 DEF CompleteSale, TypeOK
  <2>6. OneSalePerHold'
    BY <2>1, <2>4, <2>5 DEF OneSalePerHold, LiveSale
  <2>7. \A c \in Checkouts : c # HoldOf[h] => hold'[c] = hold[c]
    BY <1>0, <2>2 DEF CompleteSale, TypeOK
  <2>8. o # "rejected" => hold'[HoldOf[h]] \in {"issuing", "confirmed"}
    BY <1>0, <2>1, <2>2 DEF CompleteSale, TypeOK, SaleHasHold, LiveSale
  <2>9. SaleHasHold'
    BY <1>0, <2>3, <2>4, <2>5, <2>7, <2>8 DEF SaleHasHold, LiveSale
  <2> QED
    BY <2>6, <2>9
<1>4. ASSUME NEW r \in reads, TakePlace(r) PROVE SaleHasHold' /\ OneSalePerHold'
  <2>1. r.of \in Hosted /\ HoldOf[r.of] \in Checkouts
    BY <1>0 DEF TypeOK, Read
  <2>2. CASE UNCHANGED sale /\ hold' \in {hold, Lapse(hold), ReleaseHold(hold, HoldOf[r.of])}
    <3>1. KeepsSold
      BY <1>0, <2>1, <2>2, LapseKeeps, ReleaseHoldKeeps DEF KeepsSold
    <3> QED
      BY <1>1, <2>2, <3>1
  <2>3. CASE TakeSale(r.of, Lapse(hold)) /\ Placeable(Lapse(hold), HoldOf[r.of])
    <3>1. hold[HoldOf[r.of]] \notin {"issuing", "confirmed"}
      BY <1>0, <2>1, <2>3, LapseKeeps DEF Placeable
    <3>2. \A k \in Hosted : LiveSale(k) => HoldOf[k] # HoldOf[r.of]
      BY <3>1 DEF SaleHasHold
    <3>3. sale'[r.of] = "issuing" /\ \A k \in Hosted : k # r.of => sale'[k] = sale[k]
      BY <1>0, <2>1, <2>3 DEF TakeSale, TypeOK
    <3>4. hold'[HoldOf[r.of]] = "issuing"
      BY <1>0, <2>1, <2>3, LapseType DEF TakeSale
    <3>5. \A c \in Checkouts : c # HoldOf[r.of] => hold'[c] = Lapse(hold)[c]
      BY <1>0, <2>1, <2>3, LapseType DEF TakeSale
    <3>6. OneSalePerHold'
      BY <3>2, <3>3 DEF OneSalePerHold, LiveSale
    <3>7. SaleHasHold'
      BY <1>0, <3>2, <3>3, <3>4, <3>5, LapseKeeps DEF SaleHasHold, LiveSale
    <3> QED
      BY <3>6, <3>7
  <2> QED
    BY <1>4, <2>2, <2>3 DEF TakePlace, TakeRefund
<1>5. ASSUME NEW c \in Checkouts, Place(c) PROVE SaleHasHold' /\ OneSalePerHold'
  <2>1. KeepsSold
    BY <1>0, <1>5, LapseKeeps, LapseType DEF Place, KeepsSold
  <2> QED
    BY <1>1, <1>5, <2>1 DEF Place
<1>6. ASSUME NEW h \in Hosted, Issue(h) \/ RecordTicket(h) PROVE SaleHasHold' /\ OneSalePerHold'
  BY <1>2, <1>6 DEF Issue, RecordTicket
<1>7. ASSUME NEW g \in Grants,
             \/ Reserve(g) \/ SubmitGrant(g) \/ GrantNotSigned(g) \/ GrantSettled(g)
             \/ GrantRejected(g) \/ GrantFailed(g)
      PROVE  SaleHasHold' /\ OneSalePerHold'
  <2>1. UNCHANGED sale /\ KeepsSold
    BY <1>0, <1>7, GrantSteps
  <2> QED
    BY <1>1, <2>1
<1>8. ASSUME NEW x \in Issuances, LedgerIssues(x) \/ LedgerRefuses(x)
      PROVE  SaleHasHold' /\ OneSalePerHold'
  BY <1>2, <1>8 DEF LedgerIssues, LedgerRefuses, LedgerDecides
<1>9. ASSUME NEW a \in Actors, LedgerChangesStatus(a) \/ ListSales(a)
      PROVE  SaleHasHold' /\ OneSalePerHold'
  BY <1>2, <1>9 DEF LedgerChangesStatus, ListSales
<1>10. ASSUME NEW a \in Actors, NEW h \in Hosted, RefundOne(a, h)
       PROVE  SaleHasHold' /\ OneSalePerHold'
  BY <1>2, <1>10 DEF RefundOne
<1>11. CASE Crash
  BY <1>2, <1>11 DEF Crash
<1>12. CASE Quiet
  BY <1>1, <1>12 DEF Quiet
<1> QED
  BY <1>0, <1>3, <1>4, <1>5, <1>6, <1>7, <1>8, <1>9, <1>10, <1>11, <1>12, Steps

\* Granted issuances, their calls and submissions stay in step (issuance.ts).
LEMMA GrantProgressStep ==
    ASSUME TypeInv, GrantProgress, [Next]_vars
    PROVE  GrantProgress'
<1> USE DEF ledgerVars, payVars, holdVars, callVars
<1>0. TypeOK
  BY DEF TypeInv
<1>1. ASSUME UNCHANGED grant, \A g \in Grants : sub'[g] = sub[g] /\ work'[g] \in {work[g], "idle"}
      PROVE  GrantProgress'
  BY <1>1 DEF GrantProgress
<1>2. ASSUME NEW h \in Hosted,
             \/ Issue(h) \/ RecordTicket(h) \/ IssueNotSigned(h) \/ SaleIssued(h)
             \/ SaleRejected(h) \/ SaleFailed(h)
      PROVE  GrantProgress'
  <2>1. \A g \in Grants : g # h
    BY SetsAssumption
  <2>2. UNCHANGED grant
    BY <1>2 DEF Issue, RecordTicket, IssueNotSigned, SaleIssued, SaleRejected, SaleFailed,
                CompleteSale
  <2>3. \A g \in Grants : sub'[g] = sub[g] /\ work'[g] = work[g]
    BY <1>0, <1>2, <2>1
       DEF Issue, RecordTicket, IssueNotSigned, SaleIssued, SaleRejected, SaleFailed,
           CompleteSale, TypeOK, Issuances
  <2> QED
    BY <1>1, <2>2, <2>3
<1>3. ASSUME NEW r \in reads, TakePlace(r) PROVE GrantProgress'
  <2>1. \A g \in Grants : g # r.of
    BY <1>0, SetsAssumption DEF TypeOK, Read
  <2>2. \A g \in Grants : sub'[g] = sub[g] /\ work'[g] = work[g]
    BY <1>0, <1>3, <2>1 DEF TakePlace, TakeRefund, TakeSale, TypeOK, Issuances
  <2> QED
    BY <1>1, <1>3, <2>2 DEF TakePlace
<1>4. ASSUME NEW g \in Grants, Reserve(g) \/ SubmitGrant(g) PROVE GrantProgress'
  BY <1>0, <1>4 DEF GrantProgress, Reserve, SubmitGrant, TypeOK, Issuances
<1>5. ASSUME NEW g \in Grants,
             GrantNotSigned(g) \/ GrantSettled(g) \/ GrantRejected(g) \/ GrantFailed(g)
      PROVE  GrantProgress'
  BY <1>0, <1>5
     DEF GrantProgress, GrantNotSigned, GrantSettled, GrantRejected, GrantFailed, CompleteGrant,
         TypeOK, Issuances
<1>6. ASSUME NEW x \in Issuances, LedgerIssues(x) \/ LedgerRefuses(x) PROVE GrantProgress'
  BY <1>0, <1>6 DEF GrantProgress, LedgerIssues, LedgerRefuses, LedgerDecides, TypeOK, Issuances
<1>7. ASSUME NEW a \in Actors, LedgerChangesStatus(a) \/ ListSales(a) PROVE GrantProgress'
  BY <1>1, <1>7 DEF LedgerChangesStatus, ListSales
<1>8. ASSUME NEW a \in Actors, NEW h \in Hosted, RefundOne(a, h) PROVE GrantProgress'
  BY <1>1, <1>8 DEF RefundOne
<1>9. CASE Crash
  BY <1>1, <1>9 DEF Crash, Issuances
<1>10. ASSUME NEW c \in Checkouts, Place(c) PROVE GrantProgress'
  BY <1>1, <1>10 DEF Place
<1>11. CASE Quiet
  BY <1>1, <1>11 DEF Quiet
<1> QED
  BY <1>0, <1>2, <1>3, <1>4, <1>5, <1>6, <1>7, <1>8, <1>9, <1>10, <1>11, Steps

(***************************************************************************)
(* What is promised, and the steps that promise more                       *)
(***************************************************************************)

\* Every target that takes a place, by a hold or by a granted issuance.
Places(h, g) == HoldsIn(h, Allocated) \cup Undertaken(g)
PlacesNow    == Places(hold, grant)

\* A step that takes the place of n alone, which it found free once lapses were recorded.
TakesPlace(n) ==
    LET counted == Lapse(hold) IN
    /\ PlacesNow' \subseteq Places(counted, grant) \cup {n}
    /\ QuotaHasRoom(counted, ClassOf[n])
    /\ ~SeatHeld(counted, SeatOf[n]) /\ AssertFree(SeatOf[n])
    /\ evStatus = "Active" => CapacityHasRoom(counted)
    /\ UNCHANGED <<evStatus, evCapacity>>

\* The set SeatExclusive, CapacityHonoured and QuotaHonoured speak of.
LEMMA TakesIsPlaces ==
    ASSUME NEW t \in Targets
    PROVE  (Takes(t) <=> t \in PlacesNow) /\ (Takes(t)' <=> t \in PlacesNow')
  BY SetsAssumption DEF Takes, PlacesNow, Places, HoldsIn, Undertaken, Targets

\* Recording lapses gives places back, and takes none.
LEMMA LapseGivesBack == TypeOK => Places(Lapse(hold), grant) \subseteq PlacesNow
  BY LapseKeeps DEF PlacesNow, Places, HoldsIn, Allocated

\* A step takes no place, or takes one that was found free (place, takePlace, reserve).
LEMMA Takings ==
    ASSUME TypeInv, SaleProgress, SaleHasHold, GrantProgress, [Next]_vars
    PROVE  PlacesNow' \subseteq PlacesNow \/ \E n \in Targets : TakesPlace(n)
<1> USE DEF ledgerVars, payVars, holdVars, callVars
<1>0. TypeOK /\ HoldOf \in [Hosted -> Checkouts]
  BY TargetsAssumption DEF TypeInv
<1> DEFINE TakesNew == PlacesNow' \subseteq PlacesNow \/ \E n \in Targets : TakesPlace(n)
<1>1. ASSUME UNCHANGED grant, EndsOnly PROVE PlacesNow' \subseteq PlacesNow
  BY <1>1 DEF EndsOnly, PlacesNow, Places, HoldsIn, Allocated, Undertaken
<1>2. ASSUME UNCHANGED <<grant, hold>> PROVE PlacesNow' \subseteq PlacesNow
  BY <1>2 DEF PlacesNow, Places, HoldsIn, Undertaken
<1>3. ASSUME NEW c \in Checkouts, NEW new \in Allocated,
             UNCHANGED <<grant, evStatus, evCapacity>>, PlaceFree(Lapse(hold), c),
             hold' = [Lapse(hold) EXCEPT ![c] = new]
      PROVE  TakesNew
  <2>1. \A d \in Checkouts : d # c => hold'[d] = Lapse(hold)[d]
    BY <1>0, <1>3, LapseType
  <2>2. PlacesNow' \subseteq Places(Lapse(hold), grant) \cup {c}
    BY <1>3, <2>1 DEF PlacesNow, Places, HoldsIn, Undertaken
  <2> QED
    BY <1>3, <2>2 DEF TakesPlace, PlaceFree, Targets
<1>4. ASSUME NEW c \in Checkouts, Place(c) PROVE TakesNew
  BY <1>3, <1>4 DEF Place, Allocated
<1>5. ASSUME NEW r \in reads, TakePlace(r) PROVE TakesNew
  <2>1. r.of \in Hosted /\ HoldOf[r.of] \in Checkouts
    BY <1>0 DEF TypeOK, Read
  <2>2. CASE hold' \in {hold, Lapse(hold), ReleaseHold(hold, HoldOf[r.of])}
    <3>1. EndsOnly
      BY <1>0, <2>1, <2>2, LapseKeeps, ReleaseHoldKeeps DEF EndsOnly, Allocated
    <3> QED
      BY <1>1, <1>5, <3>1 DEF TakePlace
  <2>3. CASE /\ hold' = [Lapse(hold) EXCEPT ![HoldOf[r.of]] = "issuing"]
             /\ Placeable(Lapse(hold), HoldOf[r.of])
    <3>1. CASE Lapse(hold)[HoldOf[r.of]] = "outstanding"
      <4>1. \A d \in Checkouts : hold'[d] \in Allocated => hold[d] \in Allocated
        BY <1>0, <2>1, <2>3, <3>1, LapseKeeps, LapseType DEF Allocated
      <4> QED
        BY <1>5, <4>1 DEF TakePlace, PlacesNow, Places, HoldsIn, Undertaken
    <3>2. CASE PlaceFree(Lapse(hold), HoldOf[r.of])
      BY <1>3, <1>5, <2>1, <2>3, <3>2 DEF TakePlace, Allocated
    <3> QED
      BY <2>3, <3>1, <3>2 DEF Placeable
  <2> QED
    BY <1>5, <2>2, <2>3 DEF TakePlace, TakeRefund, TakeSale
<1>6. ASSUME NEW h \in Hosted,
             IssueNotSigned(h) \/ SaleIssued(h) \/ SaleRejected(h) \/ SaleFailed(h)
      PROVE  TakesNew
  <2>1. hold[HoldOf[h]] \in {"issuing", "confirmed"}
    BY <1>6 DEF SaleProgress, SaleHasHold, LiveSale, IssueNotSigned, SaleIssued, SaleRejected,
                SaleFailed
  <2>2. PICK o \in {"issued", "rejected", "failed"} : CompleteSale(h, o)
    BY <1>6 DEF IssueNotSigned, SaleIssued, SaleRejected, SaleFailed
  <2>3. \A d \in Checkouts : hold'[d] \in Allocated => hold[d] \in Allocated
    BY <1>0, <2>1, <2>2 DEF CompleteSale, Allocated, TypeOK
  <2> QED
    BY <2>2, <2>3 DEF CompleteSale, PlacesNow, Places, HoldsIn, Undertaken
<1>7. ASSUME NEW g \in Grants, Reserve(g) PROVE TakesNew
  <2>1. PlacesNow' \subseteq Places(Lapse(hold), grant) \cup {g}
    BY <1>0, <1>7 DEF Reserve, PlacesNow, Places, HoldsIn, Undertaken, TypeOK
  <2>2. TakesPlace(g)
    BY <1>7, <2>1 DEF Reserve, TakesPlace
  <2> QED
    BY <2>2 DEF Targets
<1>8. ASSUME NEW g \in Grants,
             GrantNotSigned(g) \/ GrantSettled(g) \/ GrantRejected(g) \/ GrantFailed(g)
      PROVE  TakesNew
  <2>1. grant[g] = "pending"
    BY <1>8 DEF GrantProgress, GrantNotSigned, GrantSettled, GrantRejected, GrantFailed
  <2>2. PICK o \in GrantStatus \cup {"none"} : CompleteGrant(g, o)
    BY <1>8 DEF GrantNotSigned, GrantSettled, GrantRejected, GrantFailed, GrantStatus
  <2>3. UNCHANGED hold /\ \A x \in Grants : x \in Undertaken(grant)' => x \in Undertaken(grant)
    BY <1>0, <2>1, <2>2 DEF CompleteGrant, Undertaken, TypeOK
  <2> QED
    BY <2>3 DEF PlacesNow, Places, HoldsIn, Undertaken
<1>9. ASSUME NEW g \in Grants, SubmitGrant(g) PROVE TakesNew
  BY <1>2, <1>9 DEF SubmitGrant
<1>10. ASSUME NEW h \in Hosted, Issue(h) \/ RecordTicket(h) PROVE TakesNew
  BY <1>2, <1>10 DEF Issue, RecordTicket
<1>11. ASSUME NEW x \in Issuances, LedgerIssues(x) \/ LedgerRefuses(x) PROVE TakesNew
  BY <1>2, <1>11 DEF LedgerIssues, LedgerRefuses, LedgerDecides
<1>12. ASSUME NEW a \in Actors, LedgerChangesStatus(a) \/ ListSales(a) PROVE TakesNew
  BY <1>2, <1>12 DEF LedgerChangesStatus, ListSales
<1>13. ASSUME NEW a \in Actors, NEW h \in Hosted, RefundOne(a, h) PROVE TakesNew
  BY <1>2, <1>13 DEF RefundOne
<1>14. CASE Crash
  BY <1>2, <1>14 DEF Crash
<1>15. CASE Quiet
  BY <1>1, <1>15 DEF Quiet
<1> QED
  BY <1>0, <1>4, <1>5, <1>6, <1>7, <1>8, <1>9, <1>10, <1>11, <1>12, <1>13, <1>14, <1>15, Steps

\* No step promises a seat that is promised already (place, takePlace, reserve).
LEMMA SeatExclusiveStep ==
    ASSUME TypeInv, SaleProgress, SaleHasHold, GrantProgress, SeatExclusive, [Next]_vars
    PROVE  SeatExclusive'
<1>1. CASE PlacesNow' \subseteq PlacesNow
  BY <1>1, TakesIsPlaces DEF SeatExclusive
<1>2. ASSUME NEW n \in Targets, TakesPlace(n) PROVE SeatExclusive'
  <2>1. ASSUME NEW t \in Targets, t # n, Takes(t)'
        PROVE  Takes(t) /\ (SeatOf[t] = SeatOf[n] => SeatOf[n] = NoSeat)
    <3>1. t \in Places(Lapse(hold), grant)
      BY <1>2, <2>1, TakesIsPlaces DEF TakesPlace
    <3>2. Takes(t)
      BY <3>1, TakesIsPlaces, LapseGivesBack DEF TypeInv
    <3>3. SeatOf[t] = SeatOf[n] => SeatOf[n] = NoSeat
      BY <1>2, <3>1 DEF TakesPlace, Places, SeatHeld, AssertFree
    <3> QED
      BY <3>2, <3>3
  <2> QED
    BY <2>1 DEF SeatExclusive
<1> QED
  BY <1>1, <1>2, Takings

(***************************************************************************)
(* The theorems                                                            *)
(***************************************************************************)

\* The inductive invariant holds in every behaviour.
THEOREM SalesInvariant == Spec => []SalesInv
<1>1. Init => SalesInv
  <2> SUFFICES ASSUME Init PROVE SalesInv
    OBVIOUS
  <2>1. \A h \in Hosted : sub[h] = "unsent" /\ work[h] = "idle"
    BY DEF Init, Issuances
  <2>2. \A g \in Grants : sub[g] = "unsent" /\ work[g] = "idle" /\ grant[g] = "none"
    BY DEF Init, Issuances
  <2>3. SaleProgress /\ RefundProgress /\ SaleHasHold /\ OneSalePerHold
    BY <2>1 DEF Init, SaleProgress, RefundProgress, SaleHasHold, OneSalePerHold, LiveSale
  <2>4. GrantProgress
    BY <2>2 DEF GrantProgress
  <2>5. SeatExclusive
    BY DEF Init, SeatExclusive, Takes, Undertaken, Allocated
  <2> QED
    BY <2>3, <2>4, <2>5, TypeInvInit DEF SalesInv
<1>2. SalesInv /\ [Next]_vars => SalesInv'
  BY TypeInvStep, SaleProgressStep, RefundProgressStep, SaleHasHoldStep, GrantProgressStep,
     SeatExclusiveStep
     DEF SalesInv
<1> QED
  BY <1>1, <1>2, PTL DEF Spec

\* A seat is never promised twice, by holds or by granted issuances, whatever the number of
\* checkouts, grants, crashes and lost verdicts.
THEOREM SeatsNeverShared == Spec => []SeatExclusive
<1>1. SalesInv => SeatExclusive
  BY DEF SalesInv
<1> QED
  BY <1>1, SalesInvariant, PTL

\* Every ticket the ledger issued stands against a hold or a grant Kippu still counts.
THEOREM TicketsStayCounted == Spec => []TicketsAccounted
<1>1. SalesInv => TicketsAccounted
  <2> SUFFICES ASSUME SalesInv, NEW x \in Tickets
               PROVE  IF x \in Hosted THEN hold[HoldOf[x]] \in {"issuing", "confirmed"}
                                       ELSE x \in Undertaken(grant)
    BY DEF TicketsAccounted
  <2>1. x \in Issuances /\ sub[x] = "settled"
    BY DEF Tickets
  <2>2. CASE x \in Hosted
    BY <2>1, <2>2 DEF SalesInv, TypeInv, TypeOK, SaleStatus, SaleProgress, SaleHasHold, LiveSale
  <2>3. CASE x \in Grants /\ x \notin Hosted
    BY <2>1, <2>3 DEF SalesInv, GrantProgress, Undertaken
  <2> QED
    BY <2>1, <2>2, <2>3 DEF Issuances
<1> QED
  BY <1>1, SalesInvariant, PTL

\* A payment never buys both a ticket and a refund, save for a cancelled event's refunds.
THEOREM NeverTicketAndRefund == Spec => []TicketXorRefund
<1>1. SalesInv => TicketXorRefund
  BY DEF SalesInv, TypeInv, TypeOK, RefundReason, SaleProgress, RefundProgress, TicketXorRefund,
         Tickets, Issuances
<1> QED
  BY <1>1, SalesInvariant, PTL

\* However often a hold is paid for, at most one of its payments is, or may become, a ticket.
THEOREM OneTicketPerHold == Spec => []OneSalePerHold
<1>1. SalesInv => OneSalePerHold
  BY DEF SalesInv
<1> QED
  BY <1>1, SalesInvariant, PTL

\* What a step may not do to an outcome already recorded.
KeepsHolds   == \A c \in Checkouts : hold[c] = "confirmed" => hold'[c] = "confirmed"
KeepsSales   == \A h \in Hosted : sale[h] \in {"issued", "rejected"} => sale'[h] = sale[h]
KeepsRefunds == \A h \in Hosted : refund[h] # "none" => refund'[h] = refund[h]

\* A recorded outcome is never rewritten: a payment is placed only while it has neither sale nor
\* refund, and a sale is completed only while it is issuing (takePlace, complete, entitle).
LEMMA OutcomeStep ==
    ASSUME SalesInv, [Next]_vars
    PROVE  KeepsHolds /\ KeepsSales /\ KeepsRefunds
<1> USE DEF ledgerVars, payVars, holdVars, callVars
<1>0. TypeOK /\ HoldOf \in [Hosted -> Checkouts]
  BY TargetsAssumption DEF SalesInv, TypeInv
<1>1. ASSUME UNCHANGED <<sale, refund>>, KeepsSold PROVE KeepsHolds /\ KeepsSales /\ KeepsRefunds
  BY <1>1 DEF KeepsHolds, KeepsSales, KeepsRefunds, KeepsSold
<1>2. ASSUME UNCHANGED <<sale, refund, hold>> PROVE KeepsHolds /\ KeepsSales /\ KeepsRefunds
  BY <1>2 DEF KeepsHolds, KeepsSales, KeepsRefunds
<1>3. ASSUME NEW h \in Hosted,
             IssueNotSigned(h) \/ SaleIssued(h) \/ SaleRejected(h) \/ SaleFailed(h)
      PROVE  KeepsHolds /\ KeepsSales /\ KeepsRefunds
  <2>1. sale[h] = "issuing"
    BY <1>3 DEF SalesInv, SaleProgress, IssueNotSigned, SaleIssued, SaleRejected, SaleFailed
  <2>2. PICK o \in {"issued", "rejected", "failed"} : CompleteSale(h, o)
    BY <1>3 DEF IssueNotSigned, SaleIssued, SaleRejected, SaleFailed
  <2>3. KeepsHolds
    BY <1>0, <2>2 DEF CompleteSale, TypeOK, KeepsHolds
  <2>4. KeepsSales
    BY <1>0, <2>1, <2>2 DEF CompleteSale, TypeOK, KeepsSales
  <2>5. KeepsRefunds
    BY <1>0, <2>2 DEF CompleteSale, TypeOK, KeepsRefunds
  <2> QED BY <2>3, <2>4, <2>5
<1>4. ASSUME NEW r \in reads, TakePlace(r) PROVE KeepsHolds /\ KeepsSales /\ KeepsRefunds
  <2>1. r.of \in Hosted /\ HoldOf[r.of] \in Checkouts
    BY <1>0 DEF TypeOK, Read
  <2>2. CASE UNCHANGED <<sale, refund, hold>>
    BY <1>2, <2>2
  <2>3. CASE /\ ~Handled(r.of) /\ UNCHANGED sale
             /\ \E reason \in RefundReason : refund' = [refund EXCEPT ![r.of] = reason]
             /\ hold' \in {Lapse(hold), ReleaseHold(hold, HoldOf[r.of])}
    <3>1. KeepsHolds
      BY <1>0, <2>1, <2>3, LapseKeeps, ReleaseHoldKeeps DEF KeepsHolds
    <3>2. KeepsSales /\ KeepsRefunds
      BY <1>0, <2>1, <2>3 DEF Handled, TypeOK, KeepsSales, KeepsRefunds
    <3> QED BY <3>1, <3>2
  <2>4. CASE ~Handled(r.of) /\ TakeSale(r.of, Lapse(hold)) /\ Placeable(Lapse(hold), HoldOf[r.of])
    <3>1. hold[HoldOf[r.of]] # "confirmed"
      BY <1>0, <2>1, <2>4, LapseKeeps DEF Placeable
    <3>2. KeepsHolds
      BY <1>0, <2>1, <2>4, <3>1, LapseKeeps, LapseType DEF TakeSale, KeepsHolds
    <3>3. KeepsSales /\ KeepsRefunds
      BY <1>0, <2>1, <2>4 DEF Handled, TakeSale, TypeOK, KeepsSales, KeepsRefunds
    <3> QED BY <3>2, <3>3
  <2> QED
    BY <1>4, <2>2, <2>3, <2>4 DEF TakePlace, TakeRefund, RefundReason
<1>5. ASSUME NEW c \in Checkouts, Place(c) PROVE KeepsHolds /\ KeepsSales /\ KeepsRefunds
  <2>1. KeepsSold
    BY <1>0, <1>5, LapseKeeps, LapseType DEF Place, KeepsSold
  <2> QED
    BY <1>1, <1>5, <2>1 DEF Place
<1>6. ASSUME NEW h \in Hosted, Issue(h) \/ RecordTicket(h)
      PROVE  KeepsHolds /\ KeepsSales /\ KeepsRefunds
  BY <1>2, <1>6 DEF Issue, RecordTicket
<1>7. ASSUME NEW g \in Grants,
             \/ Reserve(g) \/ SubmitGrant(g) \/ GrantNotSigned(g) \/ GrantSettled(g)
             \/ GrantRejected(g) \/ GrantFailed(g)
      PROVE  KeepsHolds /\ KeepsSales /\ KeepsRefunds
  BY <1>0, <1>1, <1>7, GrantSteps
<1>8. ASSUME NEW x \in Issuances, LedgerIssues(x) \/ LedgerRefuses(x)
      PROVE  KeepsHolds /\ KeepsSales /\ KeepsRefunds
  BY <1>2, <1>8 DEF LedgerIssues, LedgerRefuses, LedgerDecides
<1>9. ASSUME NEW a \in Actors, LedgerChangesStatus(a) \/ ListSales(a)
      PROVE  KeepsHolds /\ KeepsSales /\ KeepsRefunds
  BY <1>2, <1>9 DEF LedgerChangesStatus, ListSales
<1>10. ASSUME NEW a \in Actors, NEW h \in Hosted, RefundOne(a, h)
       PROVE  KeepsHolds /\ KeepsSales /\ KeepsRefunds
  BY <1>0, <1>10 DEF RefundOne, TypeOK, KeepsHolds, KeepsSales, KeepsRefunds
<1>11. CASE Crash
  BY <1>2, <1>11 DEF Crash
<1>12. CASE Quiet
  BY <1>1, <1>12 DEF Quiet
<1> QED
  BY <1>0, <1>3, <1>4, <1>5, <1>6, <1>7, <1>8, <1>9, <1>10, <1>11, <1>12, Steps

\* A confirmed hold, an issued or rejected sale and a refund entitlement are final, in every
\* behaviour (complete, entitle).
THEOREM OutcomesStayFinal == Spec => OutcomesAreFinal
<1>1. SalesInv /\ [Next]_vars =>
        [/\ \A c \in Checkouts : hold[c] = "confirmed" => hold'[c] = "confirmed"
         /\ \A h \in Hosted : /\ sale[h] \in {"issued", "rejected"} => sale'[h] = sale[h]
                              /\ refund[h] # "none" => refund'[h] = refund[h]]_vars
  BY OutcomeStep DEF KeepsHolds, KeepsSales, KeepsRefunds
<1> QED
  BY SalesInvariant, <1>1, PTL DEF Spec, OutcomesAreFinal

(***************************************************************************)
(* What is promised, counted (allocationCounts, allocation.ts)             *)
(***************************************************************************)

\* What is promised is finite, and so is any part of it.
LEMMA PlacesFinite ==
    ASSUME NEW h, NEW g, NEW S \in SUBSET Places(h, g)
    PROVE  IsFiniteSet(S) /\ Cardinality(S) \in Nat
<1>1. IsFiniteSet(Checkouts \cup Grants)
  BY FS_Union, SetsAssumption
<1>2. S \in SUBSET (Checkouts \cup Grants)
  BY DEF Places, HoldsIn, Undertaken
<1> QED
  BY <1>1, <1>2, FS_Subset, FS_CardinalityType

\* A part of a promise is no larger, and one more target adds at most one.
LEMMA PlacesBound ==
    ASSUME NEW h, NEW g, NEW S \in SUBSET Places(h, g), NEW n, NEW T \in SUBSET (S \cup {n})
    PROVE  Cardinality(T) <= Cardinality(S) + 1
<1>1. IsFiniteSet(S) /\ Cardinality(S) \in Nat
  BY PlacesFinite
<1>2. IsFiniteSet(S \cup {n}) /\ Cardinality(S \cup {n}) <= Cardinality(S) + 1
  BY <1>1, FS_AddElement
<1>3. Cardinality(T) <= Cardinality(S \cup {n}) /\ IsFiniteSet(T)
  BY <1>2, FS_Subset
<1>4. Cardinality(T) \in Nat /\ Cardinality(S \cup {n}) \in Nat
  BY <1>2, <1>3, FS_CardinalityType
<1> QED
  BY <1>1, <1>2, <1>3, <1>4

\* Finite sets with nothing in common are counted apart.
LEMMA CountedApart ==
    ASSUME NEW S, NEW T, IsFiniteSet(S), IsFiniteSet(T), S \cap T = {}
    PROVE  IsFiniteSet(S \cup T) /\ Cardinality(S \cup T) = Cardinality(S) + Cardinality(T)
<1>1. IsFiniteSet(S \cup T)
      /\ Cardinality(S \cup T) = Cardinality(S) + Cardinality(T) - Cardinality(S \cap T)
  BY FS_Union
<1>2. Cardinality(S \cap T) = 0
  BY FS_EmptySet
<1>3. Cardinality(S) \in Nat /\ Cardinality(T) \in Nat
  BY FS_CardinalityType
<1> QED
  BY <1>1, <1>2, <1>3

\* Nothing promised is left out of the count a capacity is compared with.
LEMMA PlacesAreCounted ==
    ASSUME NEW h
    PROVE  AllocatedCount(h) \in Nat /\ Cardinality(Places(h, grant)) <= AllocatedCount(h)
<1> DEFINE counting  == HoldsIn(h, Counting)
           confirmed == HoldsIn(h, {"confirmed"})
           granted   == Undertaken(grant)
<1>1. /\ IsFiniteSet(counting) /\ Cardinality(counting) \in Nat
      /\ IsFiniteSet(confirmed) /\ Cardinality(confirmed) \in Nat
      /\ IsFiniteSet(granted) /\ Cardinality(granted) \in Nat
  <2>1. counting \in SUBSET Checkouts /\ confirmed \in SUBSET Checkouts
        /\ granted \in SUBSET Grants
    BY DEF HoldsIn, Undertaken
  <2> QED
    BY <2>1, FS_Subset, FS_CardinalityType, SetsAssumption
<1>2. Issued \in Nat
  <2>1. IsFiniteSet(Issuances) /\ Tickets \in SUBSET Issuances
    BY FS_Union, SetsAssumption DEF Issuances, Tickets
  <2> QED
    BY <2>1, FS_Subset, FS_CardinalityType DEF Issued
<1>3. Places(h, grant) = (counting \cup confirmed) \cup granted
  BY DEF Places, HoldsIn, Allocated, Counting
<1>4. counting \cap confirmed = {} /\ (counting \cup confirmed) \cap granted = {}
  BY SetsAssumption DEF HoldsIn, Counting, Undertaken
<1>5. /\ IsFiniteSet(counting \cup confirmed)
      /\ Cardinality(counting \cup confirmed) = Cardinality(counting) + Cardinality(confirmed)
  BY <1>1, <1>4, CountedApart
<1>6. Cardinality(Places(h, grant))
        = Cardinality(counting) + Cardinality(confirmed) + Cardinality(granted)
  BY <1>1, <1>3, <1>4, <1>5, CountedApart
<1>7. UndertakenCount(h) = Cardinality(granted) + Cardinality(confirmed)
  BY DEF UndertakenCount
<1>8. AllocatedCount(h) \in Nat
      /\ AllocatedCount(h) >= UndertakenCount(h) + Cardinality(counting)
  BY <1>1, <1>2, <1>7 DEF AllocatedCount, Larger
<1> QED
  BY <1>1, <1>6, <1>7, <1>8

\* Nor is anything of a class left out of the count its quota is compared with.
LEMMA ClassIsCounted ==
    ASSUME NEW h, NEW k
    PROVE  Cardinality(OfClass(Places(h, grant), k)) = ClassCount(h, k)
<1> DEFINE held    == OfClass(HoldsIn(h, Allocated), k)
           granted == OfClass(Undertaken(grant), k)
<1>1. IsFiniteSet(held) /\ IsFiniteSet(granted)
  <2>1. held \in SUBSET Checkouts /\ granted \in SUBSET Grants
    BY DEF OfClass, HoldsIn, Undertaken
  <2> QED
    BY <2>1, FS_Subset, SetsAssumption
<1>2. OfClass(Places(h, grant), k) = held \cup granted /\ held \cap granted = {}
  BY SetsAssumption DEF OfClass, Places, HoldsIn, Undertaken
<1> QED
  BY <1>1, <1>2, CountedApart DEF ClassCount

(***************************************************************************)
(* Capacity and quotas                                                     *)
(***************************************************************************)

\* A capacity changes by a decrease, or by one whose verdict was lost; an event that is Active
\* was never anything else (decrease, capacity.ts).
LEMMA CapacityMoves ==
    ASSUME TypeOK, [Next]_vars
    PROVE  /\ \/ UNCHANGED <<evCapacity, capacityOp>>
              \/ \E to \in Capacities : DecreaseCapacity(to)
              \/ \E to \in Capacities : DecreaseLost(to)
              \/ LateDecrease
           /\ evStatus' = "Active" => evStatus = "Active"
<1> USE DEF ledgerVars
<1> DEFINE Same == UNCHANGED <<evCapacity, capacityOp, evStatus>>
<1>1. CASE HoldsNext
  BY <1>1 DEF HoldsNext, Place, PlaceRefused, PlaceAgain, Expire, LapseExpired
<1>2. CASE PaymentNext
  <2>1. Same
    BY <1>2 DEF PaymentNext, BuyerPays, BuyerMispays, CheckoutEnds, ProviderStep, Webhook, Sweep,
                Issue, RecordTicket, IssueNotSigned, SaleIssued, SaleRejected, SaleFailed,
                CompleteSale, CancelUnpaid, PayCreates, PayFindsPaid, CancelFindsPaid,
                ReconcileUnpaid, TakePlace
  <2> QED BY <2>1
<1>3. CASE IssuanceNext
  <2>1. Same
    BY <1>3 DEF IssuanceNext, Reserve, SubmitGrant, GrantNotSigned, GrantSettled, GrantRejected,
                GrantFailed, CompleteGrant, LedgerIssues, LedgerRefuses, LedgerDecides
  <2> QED BY <2>1
<1>4. CASE OrganiserNext
  <2>1. ASSUME NEW a \in Actors, LedgerChangesStatus(a)
        PROVE  UNCHANGED <<evCapacity, capacityOp>> /\ evStatus' # "Active"
    BY <2>1 DEF LedgerChangesStatus, TypeOK
  <2>2. ASSUME NEW to \in Capacities, DecreaseCapacity(to) \/ DecreaseLost(to)
        PROVE  UNCHANGED evStatus
    BY <2>2 DEF DecreaseCapacity, DecreaseLost
  <2>3. CASE LateDecrease
    BY <2>3 DEF LateDecrease
  <2>4. CASE Same
    BY <2>4
  <2> QED
    BY <1>4, <2>1, <2>2, <2>3, <2>4
       DEF OrganiserNext, CallBegins, CloseSales, SubmitStatus, ReleaseOne, LedgerRefusesStatus,
           StatusChanged, StatusRefused, StatusLost, CallFails, ListSales, RefundsRetried,
           RefundsDone, RefundOne
<1>5. CASE Crash \/ UNCHANGED vars
  BY <1>5 DEF Crash, vars
<1> QED
  BY <1>1, <1>2, <1>3, <1>4, <1>5 DEF Next

\* What is promised fits the capacity of an Active event, and no decrease is left to land.
WithinCapacity == /\ evStatus = "Active" /\ evCapacity # NoLimit =>
                        Cardinality(PlacesNow) <= evCapacity
                  /\ capacityOp = NoLimit

\* Every step leaves it so, when no verdict on a decrease is lost: a place is taken only below
\* the capacity, and a capacity decreased only down to what is promised.
LEMMA WithinCapacityStep ==
    ASSUME "capacity" \notin LosableVerdicts, SalesInv, WithinCapacity, [Next]_vars
    PROVE  WithinCapacity'
<1>0. TypeOK /\ evCapacity \in Nat \cup {NoLimit}
  BY DEF SalesInv, TypeInv, TypeOK
<1>1. CASE UNCHANGED <<evCapacity, capacityOp>>
  <2> SUFFICES ASSUME evStatus' = "Active", evCapacity # NoLimit
               PROVE  Cardinality(PlacesNow') <= evCapacity
    BY <1>1 DEF WithinCapacity
  <2>1. evStatus = "Active" /\ evCapacity \in Nat
    BY <1>0, CapacityMoves
  <2>2. Cardinality(PlacesNow) <= evCapacity
    BY <2>1 DEF WithinCapacity
  <2>3. CASE PlacesNow' \subseteq PlacesNow
    <3>1. IsFiniteSet(PlacesNow) /\ Cardinality(PlacesNow) \in Nat
      BY PlacesFinite DEF PlacesNow
    <3>2. Cardinality(PlacesNow') <= Cardinality(PlacesNow) /\ IsFiniteSet(PlacesNow')
      BY <2>3, <3>1, FS_Subset
    <3>3. Cardinality(PlacesNow') \in Nat
      BY <3>2, FS_CardinalityType
    <3> QED
      BY <2>1, <2>2, <3>1, <3>2, <3>3
  <2>4. ASSUME NEW n \in Targets, TakesPlace(n) PROVE Cardinality(PlacesNow') <= evCapacity
    <3> DEFINE before == Places(Lapse(hold), grant)
    <3>1. AllocatedCount(Lapse(hold)) < evCapacity
      BY <2>1, <2>4 DEF TakesPlace, CapacityHasRoom
    <3>2. AllocatedCount(Lapse(hold)) \in Nat
          /\ Cardinality(before) <= AllocatedCount(Lapse(hold))
      BY PlacesAreCounted
    <3>3. Cardinality(before) \in Nat
      BY PlacesFinite
    <3>4. Cardinality(PlacesNow') <= Cardinality(before) + 1
      BY <2>4, PlacesBound DEF TakesPlace
    <3>5. Cardinality(PlacesNow') \in Nat
      BY PlacesFinite DEF PlacesNow
    <3> QED
      BY <2>1, <3>1, <3>2, <3>3, <3>4, <3>5
  <2> QED
    BY <1>0, <2>3, <2>4, Takings DEF SalesInv
<1>2. ASSUME NEW to \in Capacities, DecreaseCapacity(to) PROVE WithinCapacity'
  <2>1. PlacesNow' = Places(Lapse(hold), grant) /\ evCapacity' = to /\ capacityOp' = NoLimit
    BY <1>2 DEF DecreaseCapacity, PlacesNow, WithinCapacity
  <2>2. AllocatedCount(Lapse(hold)) <= to /\ to \in Nat
    BY <1>2, CapacitiesAssumption DEF DecreaseCapacity, DecreaseAllowed, LedgerTakesCapacity
  <2>3. AllocatedCount(Lapse(hold)) \in Nat
        /\ Cardinality(PlacesNow') <= AllocatedCount(Lapse(hold))
    BY <2>1, PlacesAreCounted
  <2>4. Cardinality(PlacesNow') \in Nat
    BY <2>1, PlacesFinite
  <2>5. Cardinality(PlacesNow') <= to
    BY <2>2, <2>3, <2>4
  <2> QED
    BY <2>1, <2>5 DEF WithinCapacity
<1> QED
  BY <1>0, <1>1, <1>2, CapacityMoves DEF DecreaseLost, LateDecrease, WithinCapacity

\* A held place is honoured: while the event is Active what Kippu has promised fits its capacity,
\* whatever the numbers of checkouts, grants, crashes and lost issuances, provided that no
\* verdict on a capacity decrease is lost.
THEOREM CapacityHonouredAlways ==
    ASSUME "capacity" \notin LosableVerdicts
    PROVE  Spec => []CapacityHonoured
<1>1. Init => WithinCapacity
  <2> SUFFICES ASSUME Init PROVE WithinCapacity
    OBVIOUS
  <2>1. PlacesNow = {}
    BY DEF Init, PlacesNow, Places, HoldsIn, Allocated, Undertaken
  <2>2. evCapacity \in Nat \cup {NoLimit} /\ Cardinality(PlacesNow) = 0
    BY <2>1, LimitsAssumption, FS_EmptySet DEF Init
  <2> QED
    BY <2>2 DEF Init, WithinCapacity
<1>2. SalesInv /\ WithinCapacity /\ [Next]_vars => WithinCapacity'
  BY WithinCapacityStep
<1>3. WithinCapacity => CapacityHonoured
  <2>1. {t \in Targets : Takes(t)} = PlacesNow
    BY SetsAssumption DEF Takes, PlacesNow, Places, HoldsIn, Undertaken, Targets
  <2> QED
    BY <2>1 DEF WithinCapacity, CapacityHonoured
<1> QED
  BY <1>1, <1>2, <1>3, SalesInvariant, PTL DEF Spec

\* What is promised of each class is within its quota.
WithinQuota ==
    \A k \in Classes : Quota[k] # NoLimit => Cardinality(OfClass(PlacesNow, k)) <= Quota[k]

\* Every step leaves it so: a place is taken only below the quota of its class.
LEMMA WithinQuotaStep == SalesInv /\ WithinQuota /\ [Next]_vars => WithinQuota'
<1> SUFFICES ASSUME SalesInv, WithinQuota, [Next]_vars, NEW k \in Classes, Quota[k] # NoLimit
             PROVE  Cardinality(OfClass(PlacesNow', k)) <= Quota[k]
  BY DEF WithinQuota, OfClass
<1> DEFINE now == OfClass(PlacesNow, k)
           then == OfClass(PlacesNow', k)
<1>0. TypeOK /\ Quota[k] \in Nat
  BY LimitsAssumption DEF SalesInv, TypeInv, Classes
<1>1. IsFiniteSet(now) /\ Cardinality(now) \in Nat /\ Cardinality(now) <= Quota[k]
  BY PlacesFinite DEF PlacesNow, OfClass, WithinQuota
<1>2. IsFiniteSet(then) /\ Cardinality(then) \in Nat
  BY PlacesFinite DEF PlacesNow, OfClass
<1>3. ASSUME then \subseteq now PROVE Cardinality(then) <= Quota[k]
  <2>1. Cardinality(then) <= Cardinality(now)
    BY <1>1, <1>3, FS_Subset
  <2> QED
    BY <1>0, <1>1, <1>2, <2>1
<1>4. CASE PlacesNow' \subseteq PlacesNow
  BY <1>3, <1>4 DEF OfClass
<1>5. ASSUME NEW n \in Targets, TakesPlace(n) PROVE Cardinality(then) <= Quota[k]
  <2> DEFINE before == OfClass(Places(Lapse(hold), grant), k)
  <2>1. CASE ClassOf[n] # k
    BY <1>0, <1>3, <1>5, <2>1, LapseGivesBack DEF TakesPlace, OfClass
  <2>2. CASE ClassOf[n] = k
    <3>1. Cardinality(before) < Quota[k]
      BY <1>5, <2>2, ClassIsCounted DEF TakesPlace, QuotaHasRoom
    <3>2. before \in SUBSET Places(Lapse(hold), grant) /\ Cardinality(before) \in Nat
      BY PlacesFinite DEF OfClass
    <3>3. then \in SUBSET (before \cup {n})
      BY <1>5 DEF TakesPlace, OfClass
    <3>4. Cardinality(then) <= Cardinality(before) + 1
      BY <3>2, <3>3, PlacesBound
    <3> QED
      BY <1>0, <1>2, <3>1, <3>2, <3>4
  <2> QED
    BY <2>1, <2>2
<1> QED
  BY <1>4, <1>5, Takings DEF SalesInv

\* Nothing promised of a class exceeds its quota, holds and grants together, whatever the numbers
\* of checkouts, grants, crashes and lost verdicts.
THEOREM QuotaHonouredAlways == Spec => []QuotaHonoured
<1>1. Init => WithinQuota
  <2> SUFFICES ASSUME Init, NEW k \in Classes, Quota[k] # NoLimit
               PROVE  Cardinality(OfClass(PlacesNow, k)) <= Quota[k]
    BY DEF WithinQuota
  <2>1. OfClass(PlacesNow, k) = {}
    BY DEF Init, PlacesNow, Places, HoldsIn, Allocated, Undertaken, OfClass
  <2>2. Quota[k] \in Nat
    BY LimitsAssumption DEF Classes
  <2> QED
    BY <2>1, <2>2, FS_EmptySet
<1>2. SalesInv /\ WithinQuota /\ [Next]_vars => WithinQuota'
  BY WithinQuotaStep
<1>3. WithinQuota => QuotaHonoured
  <2>1. \A k : {t \in Targets : Takes(t) /\ ClassOf[t] = k} = OfClass(PlacesNow, k)
    BY SetsAssumption DEF Takes, PlacesNow, Places, HoldsIn, Undertaken, Targets, OfClass
  <2> QED
    BY <2>1 DEF WithinQuota, QuotaHonoured
<1> QED
  BY <1>1, <1>2, <1>3, SalesInvariant, PTL DEF Spec

(***************************************************************************)
(* Closed sales                                                            *)
(***************************************************************************)

\* What a step may not do while sales stay closed.
CountsNoNew == \A c \in Checkouts : hold'[c] \in Counting => hold[c] = hold'[c]

\* No step does: placing and taking a place both read the closure (place, takePlace).
LEMMA ClosedStep ==
    ASSUME SalesInv, closed, [Next]_vars
    PROVE  CountsNoNew
<1> USE DEF ledgerVars, payVars, holdVars, callVars
<1>0. TypeOK /\ HoldOf \in [Hosted -> Checkouts]
  BY TargetsAssumption DEF SalesInv, TypeInv
<1>1. ASSUME EndsOnly PROVE CountsNoNew
  BY <1>1 DEF EndsOnly, CountsNoNew, Counting, Allocated
<1>2. ASSUME UNCHANGED hold PROVE CountsNoNew
  BY <1>2 DEF CountsNoNew
<1>3. ASSUME NEW c \in Checkouts, Place(c) PROVE CountsNoNew
  BY <1>3 DEF Place, EventOnSale
<1>4. ASSUME NEW r \in reads, TakePlace(r) PROVE CountsNoNew
  <2>1. r.of \in Hosted /\ HoldOf[r.of] \in Checkouts
    BY <1>0 DEF TypeOK, Read
  <2>2. hold' \in {hold, Lapse(hold), ReleaseHold(hold, HoldOf[r.of])}
    BY <1>4 DEF TakePlace, TakeRefund
  <2>3. EndsOnly
    BY <1>0, <2>1, <2>2, LapseKeeps, ReleaseHoldKeeps DEF EndsOnly, Allocated
  <2> QED
    BY <1>1, <2>3
<1>5. ASSUME NEW h \in Hosted,
             IssueNotSigned(h) \/ SaleIssued(h) \/ SaleRejected(h) \/ SaleFailed(h)
      PROVE  CountsNoNew
  <2>1. PICK o \in {"issued", "rejected", "failed"} : CompleteSale(h, o)
    BY <1>5 DEF IssueNotSigned, SaleIssued, SaleRejected, SaleFailed
  <2> QED
    BY <1>0, <2>1 DEF CompleteSale, CountsNoNew, Counting, TypeOK
<1>6. ASSUME NEW g \in Grants,
             \/ Reserve(g) \/ SubmitGrant(g) \/ GrantNotSigned(g) \/ GrantSettled(g)
             \/ GrantRejected(g) \/ GrantFailed(g)
      PROVE  CountsNoNew
  BY <1>0, <1>1, <1>6, GrantSteps
<1>7. ASSUME NEW h \in Hosted, Issue(h) \/ RecordTicket(h) PROVE CountsNoNew
  BY <1>2, <1>7 DEF Issue, RecordTicket
<1>8. ASSUME NEW x \in Issuances, LedgerIssues(x) \/ LedgerRefuses(x) PROVE CountsNoNew
  BY <1>2, <1>8 DEF LedgerIssues, LedgerRefuses, LedgerDecides
<1>9. ASSUME NEW a \in Actors, LedgerChangesStatus(a) \/ ListSales(a) PROVE CountsNoNew
  BY <1>2, <1>9 DEF LedgerChangesStatus, ListSales
<1>10. ASSUME NEW a \in Actors, NEW h \in Hosted, RefundOne(a, h) PROVE CountsNoNew
  BY <1>2, <1>10 DEF RefundOne
<1>11. CASE Crash
  BY <1>2, <1>11 DEF Crash
<1>12. CASE Quiet
  BY <1>1, <1>12 DEF Quiet
<1> QED
  BY <1>0, <1>3, <1>4, <1>5, <1>6, <1>7, <1>8, <1>9, <1>10, <1>11, <1>12, Steps

\* While sales stay closed no hold is placed and no payment takes a place, in every behaviour.
THEOREM NothingSoldWhileClosedAlways == Spec => NothingSoldWhileClosed
<1>1. SalesInv /\ [Next]_vars =>
        [closed /\ closed' =>
            \A c \in Checkouts : hold'[c] \in Counting => hold[c] = hold'[c]]_vars
  BY ClosedStep DEF CountsNoNew
<1> QED
  BY SalesInvariant, <1>1, PTL DEF Spec, NothingSoldWhileClosed

(***************************************************************************)
(* Holds released before the status changes                                *)
(***************************************************************************)

\* A hosted checkout was created for a hold, and a payment that is dealt with leaves no hold
\* waiting to be paid.
HoldsBegun   == \A h \in Hosted : provider[h] # "none" => hold[HoldOf[h]] # "none"
HandledEnded == \A h \in Hosted : Handled(h) => hold[HoldOf[h]] \notin {"none", "outstanding"}

\* A hold under way never ceases to exist, and one no longer outstanding never is again.
LEMMA HoldForward ==
    ASSUME TypeOK, [Next]_vars, NEW c \in Checkouts
    PROVE  /\ hold[c] # "none" => hold'[c] # "none"
           /\ hold[c] \notin {"none", "outstanding"} => hold'[c] \notin {"none", "outstanding"}
<1> USE DEF ledgerVars, payVars, holdVars, callVars
<1> DEFINE Forward ==
             /\ hold[c] # "none" => hold'[c] # "none"
             /\ hold[c] \notin {"none", "outstanding"} => hold'[c] \notin {"none", "outstanding"}
<1>0. HoldOf \in [Hosted -> Checkouts]
  BY TargetsAssumption
<1>1. ASSUME EndsOnly PROVE Forward
  BY <1>1 DEF EndsOnly
<1>2. ASSUME UNCHANGED hold PROVE Forward
  BY <1>2
<1>3. ASSUME NEW d \in Checkouts, Place(d) PROVE Forward
  BY <1>3, LapseKeeps, LapseType DEF Place
<1>4. ASSUME NEW r \in reads, TakePlace(r) PROVE Forward
  <2>1. r.of \in Hosted /\ HoldOf[r.of] \in Checkouts
    BY <1>0 DEF TypeOK, Read
  <2>2. CASE hold' \in {hold, Lapse(hold), ReleaseHold(hold, HoldOf[r.of])}
    BY <2>1, <2>2, LapseKeeps, ReleaseHoldKeeps
  <2>3. CASE hold' = [Lapse(hold) EXCEPT ![HoldOf[r.of]] = "issuing"]
    BY <2>1, <2>3, LapseKeeps, LapseType
  <2> QED
    BY <1>4, <2>2, <2>3 DEF TakePlace, TakeRefund, TakeSale
<1>5. ASSUME NEW h \in Hosted,
             IssueNotSigned(h) \/ SaleIssued(h) \/ SaleRejected(h) \/ SaleFailed(h)
      PROVE  Forward
  <2>1. PICK o \in {"issued", "rejected", "failed"} : CompleteSale(h, o)
    BY <1>5 DEF IssueNotSigned, SaleIssued, SaleRejected, SaleFailed
  <2> QED
    BY <1>0, <2>1 DEF CompleteSale, TypeOK
<1>6. ASSUME NEW g \in Grants,
             \/ Reserve(g) \/ SubmitGrant(g) \/ GrantNotSigned(g) \/ GrantSettled(g)
             \/ GrantRejected(g) \/ GrantFailed(g)
      PROVE  Forward
  BY <1>1, <1>6, GrantSteps
<1>7. ASSUME NEW h \in Hosted, Issue(h) \/ RecordTicket(h) PROVE Forward
  BY <1>2, <1>7 DEF Issue, RecordTicket
<1>8. ASSUME NEW x \in Issuances, LedgerIssues(x) \/ LedgerRefuses(x) PROVE Forward
  BY <1>2, <1>8 DEF LedgerIssues, LedgerRefuses, LedgerDecides
<1>9. ASSUME NEW a \in Actors, LedgerChangesStatus(a) \/ ListSales(a) PROVE Forward
  BY <1>2, <1>9 DEF LedgerChangesStatus, ListSales
<1>10. ASSUME NEW a \in Actors, NEW h \in Hosted, RefundOne(a, h) PROVE Forward
  BY <1>2, <1>10 DEF RefundOne
<1>11. CASE Crash
  BY <1>2, <1>11 DEF Crash
<1>12. CASE Quiet
  BY <1>1, <1>12 DEF Quiet
<1> QED
  BY <1>3, <1>4, <1>5, <1>6, <1>7, <1>8, <1>9, <1>10, <1>11, <1>12, Steps

\* Hosted checkouts are created for outstanding holds only (pay).
LEMMA CreatedForHold ==
    ASSUME TypeOK, [Next]_vars, NEW h \in Hosted, provider[h] = "none", provider'[h] # "none"
    PROVE  hold[HoldOf[h]] = "outstanding"
<1> USE DEF ledgerVars, payVars, holdVars, callVars
<1>1. CASE UNCHANGED provider
  BY <1>1
<1>2. ASSUME NEW k \in Hosted, BuyerPays(k) \/ BuyerMispays(k) \/ CheckoutEnds(k) \/ Sweep(k)
      PROVE  provider'[h] = "none"
  BY <1>2 DEF TypeOK, BuyerPays, BuyerMispays, CheckoutEnds, ProviderStep, Sweep, Cancelled
<1>3. ASSUME NEW c \in Checkouts, CancelUnpaid(c) PROVE provider'[h] = "none"
  BY <1>3 DEF TypeOK, CancelUnpaid, Cancelled
<1>4. ASSUME NEW c \in Checkouts, NEW k \in Hosted, PayCreates(c, k)
      PROVE  hold[HoldOf[h]] = "outstanding"
  BY <1>4 DEF TypeOK, PayCreates, Payable
<1>5. ASSUME NEW a \in Actors, NEW c \in Checkouts, ReleaseOne(a, c) PROVE provider'[h] = "none"
  BY <1>5 DEF TypeOK, ReleaseOne, Cancelled
<1>6. CASE HoldsNext
  BY <1>1, <1>6 DEF HoldsNext, Place, PlaceRefused, PlaceAgain, Expire, LapseExpired
<1>7. CASE PaymentNext
  BY <1>1, <1>2, <1>3, <1>4, <1>7
     DEF PaymentNext, Webhook, Issue, RecordTicket, IssueNotSigned, SaleIssued, SaleRejected,
         SaleFailed, CompleteSale, PayFindsPaid, CancelFindsPaid, ReconcileUnpaid, TakePlace
<1>8. CASE IssuanceNext
  BY <1>1, <1>8 DEF IssuanceNext, Reserve, SubmitGrant, GrantNotSigned, GrantSettled,
                    GrantRejected, GrantFailed, CompleteGrant, LedgerIssues, LedgerRefuses,
                    LedgerDecides
<1>9. CASE OrganiserNext
  BY <1>1, <1>5, <1>9
     DEF OrganiserNext, CallBegins, CloseSales, SubmitStatus, LedgerChangesStatus,
         LedgerRefusesStatus, StatusChanged, StatusRefused, StatusLost, CallFails, ListSales,
         RefundsRetried, RefundsDone, RefundOne, DecreaseCapacity, DecreaseLost, LateDecrease
<1>10. CASE Crash \/ UNCHANGED vars
  BY <1>1, <1>10 DEF Crash, vars
<1> QED
  BY <1>6, <1>7, <1>8, <1>9, <1>10 DEF Next

\* Taking a payment's place leaves its hold ended or issuing, whichever way it goes (takePlace).
LEMMA TakenIsEnded ==
    ASSUME SalesInv, HoldsBegun, HandledEnded, NEW r \in reads, TakePlace(r)
    PROVE  hold'[HoldOf[r.of]] \notin {"none", "outstanding"}
<1>0. TypeOK /\ ProviderKnown
  BY DEF SalesInv, TypeInv
<1>1. r.of \in Hosted /\ HoldOf[r.of] \in Checkouts
  BY <1>0, TargetsAssumption DEF TypeOK, Read
<1>2. hold[HoldOf[r.of]] # "none"
  BY <1>0, <1>1 DEF ProviderKnown, HoldsBegun
<1>3. CASE Handled(r.of)
  BY <1>1, <1>3, <1>2, LapseKeeps DEF TakePlace, HandledEnded
<1>4. CASE hold' = ReleaseHold(hold, HoldOf[r.of])
  BY <1>0, <1>1, <1>2, <1>4 DEF ReleaseHold, TypeOK
<1>5. CASE hold' = Lapse(hold) /\ ~Placeable(Lapse(hold), HoldOf[r.of])
  BY <1>0, <1>1, <1>2, <1>5, LapseKeeps DEF Placeable
<1>6. CASE TakeSale(r.of, Lapse(hold))
  BY <1>0, <1>1, <1>6, LapseType DEF TakeSale
<1> QED
  BY <1>3, <1>4, <1>5, <1>6 DEF TakePlace, TakeRefund

\* Every step keeps both.
LEMMA HoldsStep ==
    ASSUME SalesInv, HoldsBegun, HandledEnded, [Next]_vars
    PROVE  HoldsBegun' /\ HandledEnded'
<1> USE DEF ledgerVars, payVars, holdVars, callVars
<1>0. TypeOK /\ HoldOf \in [Hosted -> Checkouts]
  BY TargetsAssumption DEF SalesInv, TypeInv
<1>1. HoldsBegun'
  <2> SUFFICES ASSUME NEW h \in Hosted, provider'[h] # "none"
               PROVE  hold'[HoldOf[h]] # "none"
    BY DEF HoldsBegun
  <2>1. hold[HoldOf[h]] # "none"
    BY <1>0, CreatedForHold DEF HoldsBegun
  <2> QED
    BY <1>0, <2>1, HoldForward
<1>2. ASSUME NEW h \in Hosted, Handled(h) PROVE hold'[HoldOf[h]] \notin {"none", "outstanding"}
  BY <1>0, <1>2, HoldForward DEF HandledEnded
<1>3. ASSUME \A h \in Hosted : Handled(h)' => Handled(h) PROVE HandledEnded'
  BY <1>2, <1>3 DEF HandledEnded
<1>4. ASSUME UNCHANGED <<sale, refund>> PROVE HandledEnded'
  BY <1>3, <1>4 DEF Handled
<1>5. ASSUME NEW r \in reads, TakePlace(r) PROVE HandledEnded'
  <2>1. r.of \in Hosted
    BY <1>0 DEF TypeOK, Read
  <2>2. \A h \in Hosted : h # r.of => (Handled(h)' => Handled(h))
    BY <1>0, <1>5, <2>1 DEF TakePlace, TakeRefund, TakeSale, Handled, TypeOK
  <2> QED
    BY <1>2, <1>5, <2>2, TakenIsEnded DEF HandledEnded
<1>6. ASSUME NEW h \in Hosted,
             IssueNotSigned(h) \/ SaleIssued(h) \/ SaleRejected(h) \/ SaleFailed(h)
      PROVE  HandledEnded'
  <2>1. sale[h] = "issuing"
    BY <1>6 DEF SalesInv, SaleProgress, IssueNotSigned, SaleIssued, SaleRejected, SaleFailed
  <2>2. PICK o \in {"issued", "rejected", "failed"} : CompleteSale(h, o)
    BY <1>6 DEF IssueNotSigned, SaleIssued, SaleRejected, SaleFailed
  <2> QED
    BY <1>0, <1>3, <2>1, <2>2 DEF CompleteSale, Handled, TypeOK
<1>7. ASSUME NEW a \in Actors, NEW h \in Hosted, RefundOne(a, h) PROVE HandledEnded'
  <2>1. h \in Tickets => sale[h] # "none"
    BY DEF SalesInv, SaleProgress, Tickets
  <2> QED
    BY <1>0, <1>3, <1>7, <2>1 DEF RefundOne, Handled, TypeOK
<1>8. ASSUME NEW c \in Checkouts, Place(c) PROVE HandledEnded'
  BY <1>4, <1>8 DEF Place
<1>9. ASSUME NEW g \in Grants,
             \/ Reserve(g) \/ SubmitGrant(g) \/ GrantNotSigned(g) \/ GrantSettled(g)
             \/ GrantRejected(g) \/ GrantFailed(g)
      PROVE  HandledEnded'
  BY <1>0, <1>4, <1>9, GrantSteps
<1>10. ASSUME NEW h \in Hosted, Issue(h) \/ RecordTicket(h) PROVE HandledEnded'
  BY <1>4, <1>10 DEF Issue, RecordTicket
<1>11. ASSUME NEW x \in Issuances, LedgerIssues(x) \/ LedgerRefuses(x) PROVE HandledEnded'
  BY <1>4, <1>11 DEF LedgerIssues, LedgerRefuses, LedgerDecides
<1>12. ASSUME NEW a \in Actors, LedgerChangesStatus(a) \/ ListSales(a) PROVE HandledEnded'
  BY <1>4, <1>12 DEF LedgerChangesStatus, ListSales
<1>13. CASE Crash
  BY <1>1, <1>4, <1>13 DEF Crash
<1>14. CASE Quiet
  BY <1>1, <1>4, <1>14 DEF Quiet
<1> QED
  BY <1>0, <1>1, <1>5, <1>6, <1>7, <1>8, <1>9, <1>10, <1>11, <1>12, <1>13, <1>14, Steps

\* An organiser's call has yet to see to the hold of c: it lists it still, or found a payment of
\* it that is not reconciled.
Awaited(a, c) ==
    c \in todo[a] \/ \E h \in foundPaid[a] : HoldOf[h] = c /\ ~Reconciled(h)

\* How far an organiser's call has come in releasing what it found, when it is the only one.
CallReleases(a) ==
    /\ callPc[a] # "submitting"
    /\ callPc[a] \in {"new", "closing", "releasing"} => statusOp[a] = "unsent"
    /\ statusOp[a] # "settled" => evStatus = "Active"
    /\ \A h \in foundPaid[a] : IsPaid(provider[h])
    /\ callPc[a] = "releasing" =>
         closed /\ \A c \in Checkouts : hold[c] = "outstanding" => Awaited(a, c)
    /\ statusOp[a] \in {"inflight", "settled"} =>
         closed /\ \A c \in Checkouts : hold[c] # "outstanding"

ReleaseInv == /\ HoldsBegun /\ HandledEnded
              /\ \A a \in Actors : CallReleases(a)
              /\ Actors = {} => evStatus = "Active"

OneCall == \A a, b \in Actors : a = b

\* While sales are closed, reconciling a payment a call found is what ends its hold.
LEMMA FoundStays ==
    ASSUME SalesInv, HoldsBegun, HandledEnded, HoldsNext \/ PaymentNext \/ IssuanceNext,
           NEW h \in Hosted, IsPaid(provider[h]), ~Reconciled(h),
           hold'[HoldOf[h]] = "outstanding"
    PROVE  ~Reconciled(h)'
<1> USE DEF payVars
<1> DEFINE found == [of |-> h, seen |-> provider[h]]
<1>0. TypeOK /\ found \in reads
  BY DEF SalesInv, TypeInv, Reconciled
<1>1. provider'[h] = provider[h]
  BY <1>0, ProviderForward DEF Next, IsPaid
<1>2. ASSUME found \in reads' PROVE ~Reconciled(h)'
  BY <1>1, <1>2 DEF Reconciled
<1>3. ASSUME reads \subseteq reads' PROVE ~Reconciled(h)'
  BY <1>0, <1>2, <1>3
<1>4. CASE HoldsNext
  BY <1>3, <1>4 DEF HoldsNext, Place, PlaceRefused, PlaceAgain, Expire, LapseExpired
<1>5. CASE PaymentNext
  <2>1. ASSUME NEW r \in reads, TakePlace(r) PROVE ~Reconciled(h)'
    <3>1. r # found
      BY <2>1, TakenIsEnded
    <3> QED
      BY <1>0, <1>2, <2>1, <3>1 DEF TakePlace
  <2>2. ASSUME NEW r \in reads, ReconcileUnpaid(r) PROVE ~Reconciled(h)'
    BY <1>0, <1>2, <2>2 DEF ReconcileUnpaid
  <2>3. ASSUME NEW k \in Hosted, Sweep(k) PROVE ~Reconciled(h)'
    BY <1>3, <2>3 DEF Sweep
  <2> QED
    BY <1>3, <1>5, <2>1, <2>2, <2>3
       DEF PaymentNext, BuyerPays, BuyerMispays, CheckoutEnds, ProviderStep, Webhook, Issue,
           RecordTicket, IssueNotSigned, SaleIssued, SaleRejected, SaleFailed, CompleteSale,
           CancelUnpaid, PayCreates, PayFindsPaid, CancelFindsPaid
<1>6. CASE IssuanceNext
  BY <1>3, <1>6 DEF IssuanceNext, Reserve, SubmitGrant, GrantNotSigned, GrantSettled,
                    GrantRejected, GrantFailed, CompleteGrant, LedgerIssues, LedgerRefuses,
                    LedgerDecides
<1> QED
  BY <1>4, <1>5, <1>6

\* Sales leave the organiser's calls, the closure and the event's status alone.
LEMMA SalesLeaveCalls ==
    ASSUME HoldsNext \/ PaymentNext \/ IssuanceNext
    PROVE  UNCHANGED <<callVars, statusOp, evStatus, closed>>
<1> USE DEF ledgerVars
<1>1. CASE HoldsNext
  BY <1>1 DEF HoldsNext, Place, PlaceRefused, PlaceAgain, Expire, LapseExpired
<1>2. CASE PaymentNext
  BY <1>2 DEF PaymentNext, BuyerPays, BuyerMispays, CheckoutEnds, ProviderStep, Webhook, Sweep,
              Issue, RecordTicket, IssueNotSigned, SaleIssued, SaleRejected, SaleFailed,
              CompleteSale, CancelUnpaid, PayCreates, PayFindsPaid, CancelFindsPaid,
              ReconcileUnpaid, TakePlace
<1>3. CASE IssuanceNext
  BY <1>3 DEF IssuanceNext, Reserve, SubmitGrant, GrantNotSigned, GrantSettled, GrantRejected,
              GrantFailed, CompleteGrant, LedgerIssues, LedgerRefuses, LedgerDecides
<1> QED
  BY <1>1, <1>2, <1>3

\* The call's progress is kept by every step, when it is the only call (releaseAll, status.ts).
LEMMA CallReleasesStep ==
    ASSUME OneCall, SalesInv, HoldsBegun, HandledEnded, [Next]_vars,
           NEW a \in Actors, CallReleases(a)
    PROVE  CallReleases(a)'
<1> USE DEF ledgerVars, payVars, holdVars, callVars
<1>0. TypeOK /\ HoldOf \in [Hosted -> Checkouts]
  BY TargetsAssumption DEF SalesInv, TypeInv
<1>a. \A h \in Hosted : IsPaid(provider[h]) => provider'[h] = provider[h]
  BY <1>0, ProviderForward DEF IsPaid
<1>b. foundPaid[a] \subseteq Hosted
  BY <1>0 DEF TypeOK
<1>1. ASSUME EndsOnly, UNCHANGED <<closed, evStatus, statusOp, reads, todo, foundPaid>>,
             callPc'[a] \in {callPc[a], "awaiting", "listing", "refunding", "done", "failed"}
      PROVE  CallReleases(a)'
  <2>1. ASSUME NEW c \in Checkouts, Awaited(a, c), callPc[a] = "releasing" PROVE Awaited(a, c)'
    BY <1>1, <1>a, <1>b, <2>1 DEF Awaited, Reconciled, CallReleases
  <2>2. \A c \in Checkouts : hold'[c] = "outstanding" => hold[c] = "outstanding"
    BY <1>1 DEF EndsOnly
  <2>3. \A h \in foundPaid'[a] : IsPaid(provider'[h])
    BY <1>1, <1>a, <1>b DEF CallReleases
  <2>4. callPc'[a] = "releasing" => callPc[a] = "releasing"
    BY <1>1
  <2>5. callPc'[a] \in {"new", "closing", "releasing"} => callPc'[a] = callPc[a]
    BY <1>1
  <2>6. callPc'[a] # "submitting"
    BY <1>1 DEF CallReleases
  <2> QED
    BY <1>1, <2>1, <2>2, <2>3, <2>4, <2>5, <2>6 DEF CallReleases
<1>2. ASSUME UNCHANGED <<hold, closed, evStatus, statusOp, reads, todo, foundPaid>>,
             callPc'[a] \in {callPc[a], "awaiting", "listing", "refunding", "done", "failed"}
      PROVE  CallReleases(a)'
  BY <1>1, <1>2 DEF EndsOnly
<1>3. CASE HoldsNext \/ PaymentNext \/ IssuanceNext
  <2>1. UNCHANGED <<callVars, statusOp, evStatus, closed>>
    BY <1>3, SalesLeaveCalls
  <2>2. closed => \A c \in Checkouts : hold'[c] = "outstanding" => hold[c] = "outstanding"
    BY ClosedStep DEF CountsNoNew, Counting
  <2>3. ASSUME callPc[a] = "releasing", NEW c \in Checkouts, hold'[c] = "outstanding"
        PROVE  Awaited(a, c)'
    <3>1. CASE c \in todo[a]
      BY <2>1, <3>1 DEF Awaited
    <3>2. ASSUME NEW h \in foundPaid[a], HoldOf[h] = c, ~Reconciled(h) PROVE Awaited(a, c)'
      <4>1. ~Reconciled(h)'
        BY <1>3, <1>b, <2>3, <3>2, FoundStays DEF CallReleases
      <4> QED
        BY <2>1, <3>2, <4>1 DEF Awaited
    <3> QED
      BY <2>2, <2>3, <3>1, <3>2 DEF CallReleases, Awaited
  <2> QED
    BY <1>a, <1>b, <2>1, <2>2, <2>3 DEF CallReleases
<1>4. CASE OrganiserNext
  <2>0. \A b \in Actors : b = a
    BY DEF OneCall
  <2>1. ASSUME NEW to \in EventStatus \ {"Active"}, CallBegins(a, to) PROVE CallReleases(a)'
    BY <1>0, <1>a, <1>b, <2>1 DEF CallBegins, CallReleases, TypeOK
  <2>2. ASSUME CloseSales(a) PROVE CallReleases(a)'
    BY <1>0, <1>a, <1>b, <2>2 DEF CloseSales, CallReleases, Awaited, TypeOK
  <2>3. ASSUME SubmitStatus(a) PROVE CallReleases(a)'
    <3>1. callPc[a] = "releasing" /\ todo[a] = {} /\ \A h \in foundPaid[a] : Reconciled(h)
      BY <2>3 DEF SubmitStatus, CallReleases
    <3>2. closed /\ \A c \in Checkouts : hold[c] # "outstanding"
      BY <3>1 DEF CallReleases, Awaited
    <3> QED
      BY <1>0, <1>a, <1>b, <2>3, <3>1, <3>2 DEF SubmitStatus, CallStep, CallReleases, TypeOK
  <2>4. ASSUME NEW c \in Checkouts, ReleaseOne(a, c) PROVE CallReleases(a)'
    <3> DEFINE paid == {h \in OpenHosted(c) : IsPaid(provider[h])}
    <3>1. /\ callPc[a] = "releasing" /\ closed
          /\ UNCHANGED <<callPc, closed, evStatus, statusOp>>
      BY <2>4 DEF ReleaseOne, CallReleases
    <3>2. foundPaid'[a] = foundPaid[a] \cup paid /\ todo'[a] = todo[a] \ {c}
      BY <1>0, <2>4 DEF ReleaseOne, TypeOK
    <3>3. reads' = reads \cup {[of |-> h, seen |-> provider[h]] : h \in paid}
      BY <2>4 DEF ReleaseOne
    <3>4. paid \subseteq Hosted /\ \A h \in paid : HoldOf[h] = c /\ IsPaid(provider[h])
      BY DEF OpenHosted
    <3>5. ASSUME NEW d \in Checkouts, hold'[d] = "outstanding"
          PROVE  hold[d] = "outstanding" /\ (d = c => paid # {})
      BY <1>0, <2>4, <3>5 DEF ReleaseOne, TypeOK
    <3>6. \A h \in foundPaid[a] : ~Reconciled(h) => ~Reconciled(h)'
      BY <1>a, <1>b, <3>3 DEF Reconciled, CallReleases
    <3>7. \A h \in paid : ~Reconciled(h)'
      BY <1>a, <3>3, <3>4 DEF Reconciled
    <3>8. ASSUME NEW d \in Checkouts, hold'[d] = "outstanding" PROVE Awaited(a, d)'
      <4>1. CASE d = c
        <5>1. PICK h \in paid : TRUE
          BY <3>5, <3>8, <4>1
        <5> QED
          BY <3>2, <3>4, <3>7, <4>1, <5>1 DEF Awaited
      <4>2. CASE d # c
        <5>1. Awaited(a, d)
          BY <3>1, <3>5, <3>8 DEF CallReleases
        <5> QED
          BY <3>2, <3>6, <4>2, <5>1 DEF Awaited
      <4> QED
        BY <4>1, <4>2
    <3>9. \A h \in foundPaid'[a] : IsPaid(provider'[h])
      BY <1>a, <1>b, <3>2, <3>4 DEF CallReleases
    <3> QED
      BY <3>1, <3>8, <3>9 DEF CallReleases
  <2>5. ASSUME LedgerChangesStatus(a) PROVE CallReleases(a)'
    BY <1>0, <1>a, <1>b, <2>5 DEF LedgerChangesStatus, CallReleases, TypeOK
  <2>6. ASSUME LedgerRefusesStatus(a) PROVE CallReleases(a)'
    BY <1>0, <1>a, <1>b, <2>6 DEF LedgerRefusesStatus, CallReleases, TypeOK
  <2>7. ASSUME \/ StatusChanged(a) \/ StatusLost(a) \/ CallFails(a) \/ RefundsRetried(a)
               \/ RefundsDone(a)
        PROVE  CallReleases(a)'
    <3>1. PICK pc \in {"awaiting", "listing", "done", "failed"} : CallStep(a, pc)
      BY <2>7 DEF StatusChanged, StatusLost, CallFails, RefundsRetried, RefundsDone
    <3>2. UNCHANGED <<hold, closed, evStatus, reads, statusOp>>
      BY <2>7 DEF StatusChanged, StatusLost, CallFails, RefundsRetried, RefundsDone
    <3> QED
      BY <1>0, <1>2, <3>1, <3>2 DEF CallStep, TypeOK
  <2>8. ASSUME StatusRefused(a) PROVE CallReleases(a)'
    BY <1>0, <1>a, <1>b, <2>8 DEF StatusRefused, CallStep, CallReleases, TypeOK
  <2>9. ASSUME ListSales(a) PROVE CallReleases(a)'
    BY <1>0, <1>2, <2>9 DEF ListSales, TypeOK
  <2>10. ASSUME NEW h \in Hosted, RefundOne(a, h) PROVE CallReleases(a)'
    BY <1>2, <2>10 DEF RefundOne
  <2>11. ASSUME NEW to \in Capacities, DecreaseCapacity(to) \/ DecreaseLost(to)
         PROVE  CallReleases(a)'
    <3>1. EndsOnly
      BY <1>0, <2>11, LapseKeeps DEF EndsOnly, DecreaseCapacity, DecreaseLost
    <3> QED
      BY <1>1, <2>11, <3>1 DEF DecreaseCapacity, DecreaseLost
  <2>12. CASE LateDecrease
    BY <1>2, <2>12 DEF LateDecrease
  <2> QED
    BY <1>4, <2>0, <2>1, <2>2, <2>3, <2>4, <2>5, <2>6, <2>7, <2>8, <2>9, <2>10, <2>11, <2>12
       DEF OrganiserNext
<1>5. CASE Crash
  BY <1>0, <1>a, <1>b, <1>5 DEF Crash, CallReleases, CallPc, TypeOK
<1>6. CASE UNCHANGED vars
  BY <1>2, <1>6 DEF vars
<1> QED
  BY <1>3, <1>4, <1>5, <1>6 DEF Next

\* With one organiser call at a time, an event no longer Active has no outstanding hold, however
\* payments, webhooks, sweeps, crashes and lost verdicts fall between the call's steps.
THEOREM ReleasedBeforeChangeAlways ==
    ASSUME OneCall
    PROVE  Spec => []ReleasedBeforeChange
<1>1. Init => ReleaseInv
  <2> SUFFICES ASSUME Init PROVE ReleaseInv
    OBVIOUS
  <2>1. HoldsBegun /\ HandledEnded
    BY DEF Init, HoldsBegun, HandledEnded, Handled
  <2>2. \A a \in Actors : CallReleases(a)
    BY DEF Init, CallReleases
  <2> QED
    BY <2>1, <2>2 DEF Init, ReleaseInv
<1>2. SalesInv /\ ReleaseInv /\ [Next]_vars => ReleaseInv'
  <2> SUFFICES ASSUME SalesInv, ReleaseInv, [Next]_vars PROVE ReleaseInv'
    OBVIOUS
  <2>1. HoldsBegun' /\ HandledEnded'
    BY HoldsStep DEF ReleaseInv
  <2>2. \A a \in Actors : CallReleases(a)'
    BY CallReleasesStep DEF ReleaseInv
  <2>3. Actors = {} => UNCHANGED evStatus
    <3> USE DEF ledgerVars
    <3>1. TypeOK
      BY DEF SalesInv, TypeInv
    <3> QED
      BY <3>1, Steps
         DEF Quiet, Place, Issue, RecordTicket, IssueNotSigned, SaleIssued, SaleRejected,
             SaleFailed, CompleteSale, TakePlace, Reserve, SubmitGrant, GrantNotSigned,
             GrantSettled, GrantRejected, GrantFailed, CompleteGrant, LedgerIssues,
             LedgerRefuses, LedgerDecides, Crash
  <2> QED
    BY <2>1, <2>2, <2>3 DEF ReleaseInv
<1>3. ReleaseInv => ReleasedBeforeChange
  <2> SUFFICES ASSUME ReleaseInv, evStatus # "Active" PROVE HoldsIn(hold, {"outstanding"}) = {}
    BY DEF ReleasedBeforeChange
  <2>1. PICK a \in Actors : CallReleases(a)
    BY DEF ReleaseInv
  <2> QED
    BY <2>1 DEF CallReleases, HoldsIn
<1> QED
  BY <1>1, <1>2, <1>3, SalesInvariant, PTL DEF Spec
=============================================================================
