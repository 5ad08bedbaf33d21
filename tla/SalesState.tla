---------------------------- MODULE SalesState ----------------------------
(***************************************************************************)
(* The state the sales of ONE event share, and the accounting every        *)
(* allocation of its places uses (src/sales/allocation.ts).                *)
(*                                                                         *)
(* Three stores take part.  The Kippu store (PostgreSQL) has one row per   *)
(* hold, hosted checkout, primary sale, refund entitlement and granted     *)
(* issuance.  The ledger, an external service, records tickets, the        *)
(* event's status and its capacity.  The payment provider, external too,   *)
(* runs the hosted checkouts.  A database transaction is one step; between *)
(* two transactions, and around every ledger verdict, anything else may    *)
(* happen.                                                                 *)
(***************************************************************************)
EXTENDS Naturals, FiniteSets

CONSTANTS
    Checkouts,        \* checkout sessions whose link is confirmed; each has at most one hold
    Hosted,           \* identifiers of hosted checkouts at the provider
    Grants,           \* granted issuances organisers may undertake
    Actors,           \* organiser calls (seal, cancel, finish), each made once
    HoldOf,           \* the checkout whose hold a hosted checkout is for
    ClassOf,          \* the class of a checkout or grant
    SeatOf,           \* the seat of a checkout or grant, or NoSeat
    NoSeat,           \* general admission
    Quota,            \* the quota of each class, or NoLimit
    NoLimit,          \* no quota, or unbounded capacity
    InitialCapacity,  \* the event's capacity when sales begin
    LosableVerdicts,  \* the ledger writes whose verdict may be lost
    MaxCrashes        \* bound: how often the server process stops

Classes   == DOMAIN Quota
Issuances == Hosted \cup Grants
Targets   == Checkouts \cup Grants

ASSUME SetsAssumption ==
    /\ IsFiniteSet(Checkouts) /\ IsFiniteSet(Hosted) /\ IsFiniteSet(Grants)
    /\ Hosted \cap Grants = {} /\ Checkouts \cap Grants = {}

ASSUME TargetsAssumption ==
    /\ HoldOf \in [Hosted -> Checkouts]
    /\ ClassOf \in [Targets -> Classes]
    /\ DOMAIN SeatOf = Targets

ASSUME LimitsAssumption ==
    /\ NoLimit \notin Nat
    /\ Quota \in [Classes -> Nat \cup {NoLimit}]
    /\ InitialCapacity \in Nat \cup {NoLimit}
    /\ LosableVerdicts \subseteq {"issue", "status", "capacity"}
    /\ MaxCrashes \in Nat

VARIABLES
    (* The ledger (external) *)
    evStatus,     \* the event's status
    evCapacity,   \* its maximum capacity, or NoLimit
    sub,          \* the submission of each issuance
    statusOp,     \* the submission of each organiser call's status change
    capacityOp,   \* a capacity decrease whose verdict was lost: the capacity asked, or NoLimit
    (* The payment provider (external) *)
    provider,     \* each hosted checkout, as the provider has it
    (* The Kippu store *)
    hold,         \* holds.status, per checkout
    expired,      \* whether a hold's expires_at has passed
    hosted,       \* hosted_checkouts.status, as Kippu last wrote it
    sale,         \* primary_sales.status, per hosted checkout
    ticketed,     \* whether primary_sales.ticket is set
    refund,       \* refund_entitlements.reason, per hosted checkout
    grant,        \* granted_issuances.status
    closed,       \* whether a row of event_sale_closures is in force
    (* The server process: lost when it stops *)
    reads,        \* reconciliations under way, each with what the provider answered
    work,         \* how far each issuance's call has come
    callPc,       \* how far each organiser call has come
    callTo,       \* the status it asks for
    releases,     \* whether it found the event Active, and so releases its sales first
    todo,         \* the holds it has yet to release
    foundPaid,    \* the payments it found on the way
    toRefund,     \* the sales it has yet to refund
    crashes       \* how often the process has stopped

ledgerVars == <<evStatus, evCapacity, sub, statusOp, capacityOp>>
holdVars   == <<hold, expired>>
payVars    == <<hosted, sale, ticketed, refund, reads>>
callVars   == <<callPc, callTo, releases, todo, foundPaid, toRefund>>
vars == <<evStatus, evCapacity, sub, statusOp, capacityOp, provider, hold, expired,
          hosted, sale, ticketed, refund, grant, closed, reads, work, callPc, callTo, releases, todo,
          foundPaid, toRefund, crashes>>

(***************************************************************************)
(* The values the columns take                                             *)
(***************************************************************************)
HoldStatus   == {"outstanding", "issuing", "confirmed", "lapsed", "released"}
HostedStatus == {"open", "paid", "ended"}   \* ended: cancelled or expired, nowhere told apart
SaleStatus   == {"issuing", "issued", "rejected", "failed"}
GrantStatus  == {"pending", "settled", "rejected", "failed"}
EventStatus  == {"Active", "Sealed", "Cancelled", "Finished"}
RefundReason == {"issuance-rejected", "place-gone", "amount-mismatch", "event-closed",
                 "event-cancelled"}
Submission   == {"unsent", "inflight", "settled", "refused"}

\* What the provider may hold of a checkout: "mispaid" is paid, for another amount.
Remote       == {"open", "paid", "mispaid", "ended"}
IsPaid(seen) == seen \in {"paid", "mispaid"}

Read == [of : Hosted, seen : Remote]

(***************************************************************************)
(* The accounting of allocation.ts: what stands against a further          *)
(* allocation of the event's places.                                       *)
(***************************************************************************)
Counting  == {"outstanding", "issuing"}
Allocated == {"outstanding", "issuing", "confirmed"}

HoldsIn(h, statuses) == {c \in Checkouts : h[c] \in statuses}
Undertaken(g)        == {x \in Grants : g[x] \notin {"none", "rejected"}}
OfClass(S, k)        == {x \in S : ClassOf[x] = k}

\* Expired holds are recorded as lapsed before anything is counted.
Lapse(h) == [c \in Checkouts |->
                IF h[c] = "outstanding" /\ expired[c] THEN "lapsed" ELSE h[c]]

Tickets == {x \in Issuances : sub[x] = "settled"}
Issued  == Cardinality(Tickets)

\* Tickets Kippu has undertaken to issue: granted issuances not refused, and confirmed holds.
UndertakenCount(h) ==
    Cardinality(Undertaken(grant)) + Cardinality(HoldsIn(h, {"confirmed"}))

Larger(m, n) == IF m >= n THEN m ELSE n

\* Issued as the ledger counts or as Kippu has undertaken, plus holds not yet issued.
AllocatedCount(h) ==
    Larger(Issued, UndertakenCount(h)) + Cardinality(HoldsIn(h, Counting))

CapacityHasRoom(h) == evCapacity # NoLimit => AllocatedCount(h) < evCapacity

ClassCount(h, k) ==
    Cardinality(OfClass(HoldsIn(h, Allocated), k)) + Cardinality(OfClass(Undertaken(grant), k))

\* Mutant: a full quota still has room.
QuotaNotExceeded(h, k) == Quota[k] # NoLimit => ClassCount(h, k) <= Quota[k]

QuotaHasRoom(h, k) == Quota[k] # NoLimit => ClassCount(h, k) < Quota[k]

SeatHeld(h, s) == s # NoSeat /\ \E c \in HoldsIn(h, Allocated) : SeatOf[c] = s

TargetOf(x) == IF x \in Hosted THEN HoldOf[x] ELSE x
SeatTicketed(s) == \E x \in Tickets : SeatOf[TargetOf(x)] = s

\* Mutant: an issuance not on the ledger yet is forgotten.
AssertFreeOnLedger(s) == s # NoSeat => ~SeatTicketed(s)

\* assertFree (src/events/seats.ts): no granted issuance of the seat, and no ticket for it.
AssertFree(s) ==
    s # NoSeat => (\A g \in Undertaken(grant) : SeatOf[g] # s) /\ ~SeatTicketed(s)

\* Everything a new allocation of target t needs, holds h counting.
PlaceFree(h, t) ==
    /\ CapacityHasRoom(h)
    /\ QuotaHasRoom(h, ClassOf[t])
    /\ ~SeatHeld(h, SeatOf[t])
    /\ AssertFree(SeatOf[t])

(***************************************************************************)
(* Initially the event is Active and nothing has been sold.                *)
(***************************************************************************)
Init ==
    /\ evStatus = "Active" /\ evCapacity = InitialCapacity
    /\ sub = [x \in Issuances |-> "unsent"]
    /\ statusOp = [a \in Actors |-> "unsent"] /\ capacityOp = NoLimit
    /\ provider = [h \in Hosted |-> "none"]
    /\ hold = [c \in Checkouts |-> "none"] /\ expired = [c \in Checkouts |-> FALSE]
    /\ hosted = [h \in Hosted |-> "none"] /\ sale = [h \in Hosted |-> "none"]
    /\ ticketed = [h \in Hosted |-> FALSE] /\ refund = [h \in Hosted |-> "none"]
    /\ grant = [g \in Grants |-> "none"]
    /\ closed = FALSE
    /\ reads = {} /\ work = [x \in Issuances |-> "idle"]
    /\ callPc = [a \in Actors |-> "new"] /\ callTo = [a \in Actors |-> "Sealed"]
    /\ releases = [a \in Actors |-> FALSE] /\ todo = [a \in Actors |-> {}]
    /\ foundPaid = [a \in Actors |-> {}] /\ toRefund = [a \in Actors |-> {}]
    /\ crashes = 0

(***************************************************************************)
(* The type invariant: every column and every process variable has a value *)
(* its table's CHECK constraint, or its type in the code, allows.          *)
(***************************************************************************)
CallPc == {"new", "closing", "releasing", "submitting", "awaiting", "listing", "refunding", "done",
           "failed"}

TypeOK ==
    /\ evStatus \in EventStatus /\ evCapacity \in Nat \cup {NoLimit}
    /\ sub \in [Issuances -> Submission]
    /\ statusOp \in [Actors -> Submission] /\ capacityOp \in Nat \cup {NoLimit}
    /\ provider \in [Hosted -> Remote \cup {"none"}]
    /\ hold \in [Checkouts -> HoldStatus \cup {"none"}]
    /\ expired \in [Checkouts -> BOOLEAN]
    /\ hosted \in [Hosted -> HostedStatus \cup {"none"}]
    /\ sale \in [Hosted -> SaleStatus \cup {"none"}]
    /\ ticketed \in [Hosted -> BOOLEAN]
    /\ refund \in [Hosted -> RefundReason \cup {"none"}]
    /\ grant \in [Grants -> GrantStatus \cup {"none"}]
    /\ closed \in BOOLEAN
    /\ reads \subseteq Read
    /\ work \in [Issuances -> {"idle", "placed", "submitted", "awaiting"}]
    /\ callPc \in [Actors -> CallPc] /\ callTo \in [Actors -> EventStatus \ {"Active"}]
    /\ releases \in [Actors -> BOOLEAN] /\ todo \in [Actors -> SUBSET Checkouts]
    /\ foundPaid \in [Actors -> SUBSET Hosted] /\ toRefund \in [Actors -> SUBSET Hosted]
    /\ crashes \in Nat
===========================================================================
