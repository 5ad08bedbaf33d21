# A TLA+ verification of kippu-api

kippu-api sells and issues event tickets. It keeps its own facts in PostgreSQL
(the *Kippu store*), reaches the authoritative *ledger* through an SDK, and takes
payment through an external *provider's* hosted checkouts. None of the three can
be updated together with another, and the server may stop between any two
updates. What can go wrong lies in the order of steps, and that is what these
modules check.

Paths below are relative to the repository (`src/sales/...` is
`src/src/sales/...` in `PROJECT.json`).

## Inventory

| Part | State | Operations | Hard behaviour |
|---|---|---|---|
| Allocation accounting, `src/sales/allocation.ts`, `src/events/seats.ts` | none of its own: counts holds, granted issuances and the ledger's tickets | lock, lapse, count | every allocation of a place must use it, under the same locks |
| Holds, `src/sales/holds.ts` | `holds` | place, lapse | expiry racing a payment |
| Checkout sessions, `src/sales/checkout.ts` | `checkout_sessions` | begin, link, confirm, discard, hold | calls act on rows read earlier; others see the handoff |
| Paid checkout, `src/sales/payment.ts` | `hosted_checkouts`, `primary_sales`, `refund_entitlements`, `face_values` | pay, cancel, webhook, reconcile, take a place, issue, sweep | late, repeated or missing webhooks; stale answers; lost verdicts; restarts |
| Granted issuance, `src/events/issuance.ts` | `granted_issuances` | reserve, submit, complete | shares places with holds; lost verdicts |
| Status, `src/events/status.ts`, `src/sales/cancellation-refunds.ts` | `event_sale_closures` | seal, cancel, finish; refunds | several requests per call, each may fail; concurrent calls |
| Capacity, `src/events/capacity.ts` | the ledger's | decrease | check and verdict must not be separated |
| Scheduled finish, `src/events/finish-schedule.ts` | `finish_schedules`, a session lock | schedule, cancel, notice, claim, run, reconcile | several servers, restarts, lost verdicts |
| Audit relay, `src/audit/` | `audit_log` | record before signing, complete after the verdict | either can be interrupted |
| Organiser authority, `src/authority/` | `organiser_ledger_accounts`, KMS keys | provision, relay | concurrent first requests; a stop between key and row |
| Invitations, `src/events/invitations.ts` | `invitations` | create, redeem | claim, issue, reopen or fail |
| Event setup, `src/events/create-event.ts`, `zones.ts`, `restrictions.ts` | `organiser_events`, `seat_positions` | create, add and remove zones, positions, remove restriction | a ledger write followed by one of Kippu's |
| Capacity proofs, `src/proofs/` | `capacity_proof_requests` | request, approve, reject | a decision racing another; a connection kept while others are needed |
| Classes, prices, sale asset, `src/classes/`, `src/events/sale-assets.ts` | `ticket_classes`, `event_sale_assets`, a hold's terms | define, price, set the asset | asset fixed by the first hold; only some of these take the lock |
| Auth, `src/auth/`; reviewers, `src/reviewers/` | `sessions`, challenges, enrolment codes, accounts | sign up, sign in, link, redeem, enrol, revoke, disable | single use, revocation amid an answer, row locks |
| Operators and reports, `src/operators/` | `operator_grants`, `admission_reports` | grant, revoke, check, report | late reports around a revocation |
| Derived copy, `src/derived/` | `derived_*`, the reader's cursor | read, apply, wait for a cursor, match flags | several readers, restarts, lag, reads at several positions |
| Sponsor relay, `src/sponsor/`, `packages/sponsorship` | rate-limit counters, in memory | decide, wait, decide again; the client's attempts | decides on a lagging copy |
| Metadata, store, transport | objects, migrations | publish, serve, migrate | outside of the concurrency of the others |

How they meet: a *checkout* places a *hold*, which *payment* turns into a sale
through the *authority*; *granted issuance*, and *invitations* through it, take
places from the same *accounting*; *status* closes and releases sales before it
asks the ledger; the *scheduler* makes the same call as an organiser does, with
nobody waiting; every ledger write passes the *authority* and the *audit relay*;
the *ledger's log* comes back through the *derived copy*, on which the *sponsor
relay* decides what may be written next and the organiser's *flags* are worked out.

What makes each part correct is stated as properties of its module, below;
`PROJECT.json` lists under `hazards` where the code could go wrong.

## Modules

```
SalesState -- Holds -- Payment -- OrganiserActions --+
     \                                               +-- Sales -- MCSales
      +-- GrantedIssuance ---------------------------+       \-- SalesProofs
Checkout -- MCCheckout, CheckoutProofs
FinishSchedule -- MCFinish, FinishProofs
Accounts -- Auth -- Operators -- Reviewers -- Access -- MCAccess, AccessProofs
Authority -- Invitations -- CapacityProofs -- EventSetup -- SaleTerms -- Relayed -- MCRelayed
                                                    OneTicket (what Relayed implements)
                      Relayed -- RelayedProofs -- RedemptionProofs -- EventLockProofs
LedgerLog -- DerivedCopy -- Sponsor -----------+
                       \--- AdmissionFlags ----+-- Copy -- MCCopy, CopyProofs
```

### Sales of one event

`SalesState` has the state and the accounting; the other modules have the actions
of one source file each; `Sales` composes them, adds the server's crash, and
states the properties.

| Variable | In the code |
|---|---|
| `hold`, `expired` | `holds.status`; whether `expires_at` has passed |
| `hosted`, `provider` | `hosted_checkouts.status`; the same checkout as the provider has it |
| `sale`, `ticketed`, `refund` | `primary_sales.status`, its `ticket`; `refund_entitlements.reason` |
| `grant`, `closed` | `granted_issuances.status`; a row of `event_sale_closures` in force |
| `evStatus`, `evCapacity`, `sub`, `statusOp`, `capacityOp` | the ledger: the event, and what was submitted to it |
| `reads`, `work`, `callPc`, `callTo`, `releases`, `todo`, `foundPaid`, `toRefund` | where a call under way stands: local variables of the code, lost in a crash |

Decisions, and why they are sound:

- *A transaction is one step.* Allocations (place, takePlace, reserve, decrease)
  hold the event's advisory lock to the end; pay, cancel and each release hold
  the hold's row. takePlace takes no row lock, but what it writes about the hold
  is conditional on the status it re-reads, and any interleaving with cancel or
  the sweep ends as one of the two serial orders does. A failed transaction
  leaves nothing, and is not an action.
- *A reconciliation is two steps*: the provider's answer (an element of `reads`)
  and what is done with it, with anything in between.
- *Issuing is several steps*: taken, submitted, ticket recorded, verdict,
  completion. A lost verdict is an action (`SaleFailed`), after which the
  submission may still settle.
- *The sweep and the webhook* handle a list of checkouts one after another; each
  is a step of its own here.
- *Cancelled and expired* hosted checkouts are one value, `ended`: the code
  nowhere tells them apart. A payment for another amount or asset is `mispaid`.
- *Time* is one bit per hold. pay's extension moves `expires_at` and so only
  delays `Expire`. The provider's own expiry is `CheckoutEnds`.
- *The lock of decrease is kept until the ledger's verdict*, so the check and the
  verdict are one step, `DecreaseCapacity`; when the verdict is lost the lock is
  released and the decrease may land later (`DecreaseLost`, `LateDecrease`).
- *Left out*: prices and sale terms, positions and zones beyond the seat they
  name, face values and audit steps written beside a change, the pairing of the
  checkout (a checkout here is one whose link is confirmed: `Checkout` models the
  way there), capacity increases, and a provider checkout whose row could not be
  committed (nobody is given its address). `Holds.extend` and `Holds.release` have no
  caller.

### One checkout session

`Checkout` has one row of `checkout_sessions` and the calls on it. Every call
reads, then writes with a guard; `calls` holds what each read. Codes are what
they are derived from: `<<generation, account>>`, so a collision of two six-digit
codes is outside the model. The buyer confirms only a code that her own Saifu
shows; another holder, who saw the handoff, links and is shown codes like
anybody. A confirmation that compares the account but not the generation is
harmless, because an account linked again is the same account; the model has that
sequence.

### Scheduled finish of one event

`FinishSchedule` has one row of `finish_schedules`, several servers with a run
lock, the audit rows of its submissions, and one other organiser call. `clock`
says where time stands against `finish_at`; `aged` says that a submission's
lifetime and the margin have passed. `Age` expresses two assumptions of the code:
by then the ledger has decided whatever it was sent, its clock being less than
`OPERATION_EXPIRY_MARGIN_MS` behind; and a reconciliation takes less than that
from reading the event to deciding. Crashes, failed requests and lost verdicts
share the bound `MaxFaults`. A connection that is lost while its process lives on
(and with it the lock) is not modelled.

### Accounts, sessions and reports

`Accounts` has the rows of one account of any of the four kinds (an organiser's
email, a holder's ledger account, an operator, a reviewer), the requests about it
and PostgreSQL's row locks as far as they decide an order. `Auth` has the calls
of `auth/service.ts`, `Operators` and `Reviewers` those of their services, and
`Access` composes them. A request goes on statement by statement; `call` holds
what it has read or written and not committed. `Crossed` is a cycle of two waiting
transactions; PostgreSQL aborts one (`DeadlockAborts`). `covered` is history: the
codes and challenges, and the sessions from them, that stood when a revocation or a
disabling committed.

| Variable | In the code |
|---|---|
| `account` | `organisers`, `operators`, `reviewers` (with `disabled_at`) and their passkeys |
| `codes`, `ceremonies`, `sessions` | enrolment codes, challenges, sessions: by the request that made each |
| `grants`, `reports` | `operator_grants`, `admission_reports` |

The row for a challenge is deleted before anything is verified; whether a
signature verifies is a free choice wherever it may.

### Relayed writes of one organiser

`Authority` has the organiser's ledger account and key, the audit row of every
relayed operation, and the path every ledger write takes: find or make the key,
register it, record, sign, submit, hear the verdict or lose it, complete. The
modules after it have the requests that take this path and what each does around
it; `Relayed` composes them with the ledger's decisions. `mix` is the choice of
requests an instance has: everything else would be a product of unrelated races.

| Variable | In the code |
|---|---|
| `row`, `keys` | `organiser_ledger_accounts`; the keys in the KMS |
| `audit`, `ledger`, `signedBy` | the outcome in `audit_log`; what the ledger has of the operation; which key signed |
| `invitation`, `issuance` | `invitations.status`, `holder`; `granted_issuances.status` |
| `requests` | `capacity_proof_requests` |
| `links`, `zone`, `positions` | `organiser_events`; the zone on the ledger and its `seat_positions` |
| `saleAsset`, `classes`, `holds` | `event_sale_assets`; `ticket_classes` with the asset in force when the price was given; the terms of `holds` |

Connections of the pool are counted, because `approve` and `reserve` keep one
while others are needed. A class's row lock is modelled for the prices that a
change of asset has cleared: a new price waits for them, a new class does not.

### The ledger's log and what follows it

`LedgerLog` is external: an append-only log, the facts after each record, and the
rules that decide what is accepted. `DerivedCopy` has one copy and a reader on
every server, with the position row's lock, the batch, and rollback and pause
after a failure. `Project` applies one record as `ledger-facts.ts` does, which is
not how the ledger computes its facts: that the two agree is the property.
`Sponsor` has the client's request with the cursor it names, the relay's decision,
the wait, the second decision and the client's further attempts. `AdmissionFlags`
has the gates' reports and the organiser's view of them, whose queries run one
after another. A `world` is a starting log, with what other writers, clients and
gates may do in it. `Args` lists what an input may be about; a pass is recorded while
its window and the lag last, and refused after (`InTime`).

## Runs

Passing runs:

| Run | Instance | States | Shows |
|---|---|---|---|
| `places` | 2 checkouts, 1 payment each, 1 grant: two of them share a seat, two a quota of 1, two a capacity of 2 to be lowered to 1; lost issue verdicts; 1 crash | 1.45 million | a seat is promised once; what is promised fits capacity and quotas; every ticket is one Kippu still counts |
| `twice` | 1 checkout, 2 payments, 1 organiser call; lost issue and status verdicts; 1 crash | 2.39 million | never a ticket and a refund; one sale per hold; outcomes stay; all is released before the status changes; nothing sold while closed |
| `settles` | 2 checkouts, 1 payment, 1 grant, capacity 2 to be lowered to 1 or 0 with or without a verdict; lost issue verdicts; no crash; fairness | 82 thousand | a payment is settled whoever takes its place meanwhile, an abandoned checkout closed |
| `finish` | 2 servers, set once, 2 faults, up to 3 submissions, fairness | 79 thousand | one submission can land at a time; the schedule tells the truth; every schedule ends |
| `checkout` | 2 accounts, 2 discards, 3 calls at once | 47 thousand | only the buyer's account is confirmed; stale calls change nothing |
| `access` | 3 requests at once about one account of each kind, from three stages of its life; one unit of every lifetime, two of a session's; fairness | 316 thousand | revoked is out; codes and challenges are spent once; one account per email; evidence is kept; no request hangs |
| `relayed` | 3 requests in six mixes that share rows; 1 fault (a lost verdict, a failed write, a stop); pool of 4; fairness | 323 thousand | one ticket per invitation; records, audit and ledger agree; one key; one increase per proof; holds on the terms in force; no request hangs |
| `copy` | 2 servers, batches of 2, 2 further records, 2 clients with 2 attempts, 2 gates, 1 fault, in six worlds; fairness; deadlock checked | 300 thousand | the copy is a prefix of the ledger; no entitled request is refused for lag; flags are true; the copy catches up |

The bounds: two contenders and one more of another kind are enough for any pair
of actions to race on a seat, a quota or the last place; two payments of one hold
for a replaced or repeated one; one crash for every point at which it can
strike. `MaxOps >= MaxSets + MaxFaults` keeps the bound on submissions from
cutting anything off. Deadlock is not checked: a sale that is over, or bounds
used up, is where the system rightly stops; `copy` can always go on and checks
it. Symmetry is not used; the instances are small and their elements differ in
role. Three requests are a pair that races and one that comes in between; `relayed`
names the triples worth having, every pair of operations that share a row among
them. Two clients or gates, two servers and one fault reach every pair of a
reader's step with a decision's.

Runs in which TLC finds a property violated that the repository states
(`findings` in `PROJECT.json` has the lines):

| Run | What happens |
|---|---|
| `crash` | pay records a hosted checkout as paid, the server stops before it reconciles, and the sweep looks only at open ones: the payment stays without ticket and refund |
| `late_cancel` | a sale whose ticket landed is still `issuing` when the cancellation lists the sales to refund |
| `copy_restriction` | clearing `cannotResale` clears both flags of a bound ticket on the ledger; the copy clears the one named, and the relay refuses the ticket's transfers for good |
| `terms` | a class is inserted between the clearing of prices and the commit of the new asset: it keeps its number, in another asset |

Four more ways in which the code and its comments part were found with the same
modules; they keep no run of their own, and any of them returns by loosening the
bound named with it:

- `events/capacity.ts:37`: the lock is meant to last until the ledger's verdict,
  but a decrease without a verdict releases it; a hold placed then, and the
  decrease landing after, exceed the capacity. (`places` with `"capacity"` among
  `LosableVerdicts` violates `CapacityHonoured`.)
- `events/status.ts:41`: sales are meant to reopen only if this call closed them,
  but a refused call reopens those that another call closed. (`twice` with two
  `Actors` violates `ReleasedBeforeChange`.)
- `events/finish-schedule.ts:206`: a schedule set again keeps its request id, so
  an earlier run's refusal is taken for this one's and a second submission follows
  while the first can land. (`finish` with `MaxSets = 3` violates `NothingLandsLater` and
  `OneInFlight`.)
- `sales/payment.ts:169`: a payment is meant to end in a ticket or a refund, but
  the sweep looks only at hosted checkouts of lapsed or released holds. A pay that
  comes between the recording of a paid hosted checkout and its reconciliation
  makes a second one; once the first has confirmed the hold, nothing but a webhook
  looks at the second, paid or not. (`settles` with two payments of one checkout
  violates `PaidIsSettled`.)

So the passing runs are bounded: `twice` has one organiser call, `settles` has no
crash (`crash`) and one payment, `places` loses no capacity verdict, `finish` sets its schedule
once, `copy` removes no resale restriction of a ticket bound both ways, and the
mixes of `relayed` have no class defined while the asset changes (`terms`).
`RaisedOnce` is stated for behaviours without a fault: after a lost verdict the
request is still pending, and approving it again raises with another proof.
`recordAtCreation` writes the asset chosen at creation over whatever stands; to see
it overwrite one that was held on takes a fourth request, which `relayed` has not.
`CallsEnd` of `relayed` needs its pool larger than the number of requests: with as
many approvals as connections, each keeps one and waits for a second.

### Refinement

`Relayed!IssuesOneTicket` is `OneTicket!Spec` with `tickets` mapped to the
redeemers whose issuance landed on the ledger: whatever claims, refusals, lost
verdicts and stops do, at most one redemption's write lands and it is never taken
back. Every other step is a stutter.

### Fairness

`Sales!Fairness`: a hold's lifetime passes; the sweep runs every 15 seconds, so
what it would do to a checkout it does in the end; a call under way proceeds (the
code awaits each step, and errors of a sweep are met again by the next); the
ledger answers. Buyers, organisers and webhooks owe nothing.
`FinishSchedule!Fairness`: time passes, the ledger decides, the scheduler passes
every 30 seconds on some server, and a pass under way proceeds unless a fault,
of which there are finitely many, ends it. `Age` is strongly fair: it waits for
reconciliations under way, which come and go.

`Access!Fairness` and `Relayed!Fairness` have one condition each: as long as some
request under way can go on, some request does (PostgreSQL breaks its deadlocks,
the ledger answers). It is enough, because requests are finite in number and
steps, and weaker than fairness to each. `Copy!Fairness`: readers poll, and the
relay goes on with a request it has; the ledger, clients and gates owe nothing.

### Mutants

Each property has a mutant (`PROJECT.json`): a definition, marked *Mutant* in its
module, that changes one operation as a plausible mistake would, and under which
the property fails.

## Proofs

TLAPS checks these for every value of the constants, from their named assumptions
only: any number of checkouts, requests, servers, faults, connections, and any
bound on clocks and counters. Each invariant was first checked by TLC on the
instance of its run, as an invariant. Where a theorem has a hypothesis, a run
shows that it fails without.

`SalesProofs`: `TypeCorrect`, `SeatsNeverShared`, `TicketsStayCounted`,
`NeverTicketAndRefund`, `OneTicketPerHold`, `OutcomesStayFinal`,
`CapacityHonouredAlways`, `QuotaHonouredAlways`, `NothingSoldWhileClosedAlways`,
`ReleasedBeforeChangeAlways`. None of the
invariants is inductive alone: that a ticket's place still counts depends on how
far the sale, the submission and the call behind it have come. `SalesInv` says
which combinations occur:

- `SaleProgress` ties `sale`, `work` and `sub` of a payment together (nothing is
  submitted without a sale; a rejected sale's submission was refused or never
  made), and the amount paid;
- `RefundProgress` says which refunds can stand beside which sales, and that
  `event-cancelled` stands only on tickets of a cancelled event;
- `SaleHasHold` says that a sale that is, or may become, a ticket keeps its hold
  `issuing` or `confirmed`; with `OneSalePerHold` the hold is that sale's alone,
  so that no other payment's refund or release takes the place away;
- `GrantProgress` is the same for granted issuances.

Most actions leave sales, refunds and submissions alone and only end holds; they
share one lemma. The actions that matter (`TakePlace`, `CompleteSale`, `Issue`,
the ledger's decisions, `Reserve`, `RefundOne`, `Place`, `Crash`) have one each.

Seats, quotas and the capacity rest on one lemma, `Takings`: a step promises no
further place (`PlacesNow` is the set of all that are promised), or it promises one
that it found free once lapses were recorded. The rest is cardinalities: nothing in
`PlacesNow` is left out of `AllocatedCount` (`PlacesAreCounted`) or of a class's count
(`ClassIsCounted`). The capacity needs that no verdict on a decrease is lost: one that
lands late lands on places promised since (see the findings above).

`ReleaseInv` follows a call that closes the sales (`releaseAll`): each outstanding hold
is one it lists still, or has a payment it found that is not reconciled yet
(`CallReleases`); reconciling it ends the hold whichever way it goes (`TakenIsEnded`),
since a payment already dealt with left none outstanding (`HandledEnded`). It needs
`OneCall`: a second call, refused, reopens the sales the first one closed.

`CheckoutProofs`: `TypeCorrect`, `OnlyTheBuyerIsConfirmed`, `HoldsHaveAccounts`,
`ConfirmationIsFinal`, `StaleCallsChangeNothing`, from `CheckoutInv`, whose
`CallsCurrent` says what a call's reading still implies about the row: its
generation is not ahead of the row's, a confirmation under way is for the buyer's
own account, and a discard of the row's generation is of the account now linked.

`AccessProofs`: every safety property of `Access`. A step of any service is a
*turn* of one request, of one of sixteen kinds (`Arrival`, `LocksRow`, `Consuming`,
`Revoking`, `Committing`, ...); the invariants are preserved kind by kind, not
action by action. `RowsInv` says whose rows are whose and which request holds the
account's row; `AnswersInv`, `CodesInv` and `OwnerInv` that a challenge, a code
and an email belong to one request once consumed; `RevocationInv` that what
stood when a revocation committed is spent, revoked or still under the lock.

`RelayedProofs`: `TypeCorrect`, `AuditTellsTruthAlways` and `OneKeyAlways`. A step
is one request's turn, by the relay (`RelayMove`) or by what calls it
(`CallerMove`). `RelayAt` ties a request's progress to its audit row, its key and
the ledger's answer; `KeyInv` counts keys by faults: each key but the recorded one is
of a request that stopped. `RedemptionProofs`: `OpenIssuedNothingAlways`,
`RecordedIsOnLedgerAlways` and `IssuesOneTicketProved`, the refinement of
`OneTicket`, step by step. `InvitationInv` says that of all redemptions only the
invitation's holder can have claimed, signed or landed anything. `EventLockProofs`:
`RaisedOnceAlways` and `TermsHonouredAlways`, from `LockInv` (one request holds the
event's lock), `RaiseInv` and `TermsInv`. The latter needs `TermsApart`: no mix has a
class defined, or the event created, beside a change of asset (run `terms`).

`FinishProofs`: `TypeCorrect` and `FinishedIsFinishedAlways` for a schedule set
however often; `OneInFlightAlways`, `NothingLandsLaterAlways` and
`ReopensWhenOverAlways` for one set at most once (`MaxSets <= 1`), since a schedule
set again keeps its request id and with it the verdicts of earlier runs. The invariant
says who holds the run lock, what a server knows of its own submission
(`OwnInv`), that only a submission without a verdict can land (`LifeInv`), and, set
once, that until a run has submitted nothing is in flight (`FlightInv`) and a run
whose refusal is recorded is the last (`LastInv`).

`CopyProofs`: `CopyFollowsLedgerAlways`, `EntitledNotRefusedAlways` and
`FlagsTellTruthAlways`. What holds of every position of a log (`Good`: facts are
typed, a later position only adds rows, each numbered by its record) is proved
by a least counterexample, over `WellFoundedInduction`'s fact that a non-empty set
of naturals has a minimal element (`Least`). The projections agree with the ledger
record by record (`NextFacts`); from there, a reader's transaction and the copy
are prefixes of the log. A flag's queries run at later positions than the head shown with it,
and see, within the head, what the head held (`CauseAtHead`); a pass flagged as not recorded is not in the log,
because every later record is too late for it. All three need `RestrictionsApart`: no world has both
a ticket bound both ways and the removal of its `cannotResale` (run
`copy_restriction`).

Only model-checked: liveness (`PaidIsSettled`, `AbandonedIsClosed`, `ScheduleEnds`,
`CallsEnd`, `CatchesUp`), since fairness and ENABLED are out of this prover's reach.
Every safety invariant and action property of a passing run is a theorem.

## Plan

1. Done: the sales family, the checkout session, the scheduled finish, accounts and
   sessions, relayed writes with invitations, capacity proofs, setup and sale terms,
   the derived copy with the sponsor relay and the flags; each with the proofs above.
2. Proofs left: an abstract specification of a place (free, promised, sold), which
   `Sales` implements, step by step.
3. The order of the row locks of `payment.ts`.

## Not modelled

- The payment provider's adapters, beyond the life of a hosted checkout that the
  test provider has: translation to an external API. What they promise
  (`payments/ports.ts`) is assumed in `Payment`.
- The views: sale inventory, checkout and list views, `derived/reads.ts`.
- Metadata documents, object storage and the CDN stand-in: immutable objects.
- Migrations and the store's wiring: run before the server listens.
- Transport (HTTP, tRPC) and configuration, but for the lookup of a request's
  session; the KMS, WebAuthn and the other cryptography, whose answers are choices.
- Locators of metadata and the pass window: one ledger write with nothing after it.
- The loss of a connection, with its locks, while the process lives on.
- Seat positions left over from a removed zone (`zones.ts:135`) are reached by
  `EventSetup`, but no property is claimed: nothing says whether they may stay. The
  same holds of a receipt cursor that is the last observed and not the greatest
  (`ledger/receipts.ts:42`), which `Sponsor` has.

The ledger and the payment provider are external; the modules state what the code
expects of them, and `PROJECT.json` marks those definitions external.
