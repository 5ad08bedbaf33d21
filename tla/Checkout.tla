------------------------------ MODULE Checkout ------------------------------
(***************************************************************************)
(* One checkout session until its hold (src/sales/checkout.ts): begun,     *)
(* handed off to Saifu, linked to a holder account, paired, and held.      *)
(*                                                                         *)
(* Every call first reads the row, by the page's token or by the handoff's *)
(* and then acts on what it read with a guarded UPDATE; calls run at once, *)
(* so by then the row may be another.  A call under way is an element of   *)
(* `calls`, with the generation and the account it goes by.                *)
(*                                                                         *)
(* A handoff can be seen by others: any holder may link to it.  The buyer  *)
(* confirms a link only when the page shows the pairing code that her own  *)
(* Saifu shows.  A code is what it is derived from, the handoff's          *)
(* generation and the account.                                             *)
(***************************************************************************)
EXTENDS Naturals, FiniteSets

CONSTANTS
    Accounts,        \* holder accounts
    Mine,            \* the buyer's own
    NoAccount,       \* holder_account is NULL
    MaxGenerations,  \* bound: how often a link is discarded
    MaxCalls         \* bound: calls under way at once

ASSUME AccountsAssumption == Mine \in Accounts /\ NoAccount \notin Accounts
ASSUME BoundsAssumption   == MaxGenerations \in Nat /\ MaxCalls \in Nat

VARIABLES
    begun,       \* whether the row exists
    account,     \* holder_account
    confirmed,   \* whether link_confirmed_at is set
    generation,  \* handoff_generation
    old,         \* whether CHECKOUT_LIFETIME_MS have passed since created_at
    held,        \* whether the checkout has a hold
    calls,       \* calls under way
    shown        \* the pairing codes Saifu has shown its holders

vars == <<begun, account, confirmed, generation, old, held, calls, shown>>

Code == Nat \X Accounts
Call == [kind : {"link", "linked", "confirm", "discard", "hold"}, gen : Nat, acct : Accounts]

TypeOK ==
    /\ begun \in BOOLEAN /\ confirmed \in BOOLEAN /\ old \in BOOLEAN /\ held \in BOOLEAN
    /\ account \in Accounts \cup {NoAccount}
    /\ generation \in Nat
    /\ calls \subseteq Call
    /\ shown \subseteq Code

Init ==
    /\ begun = FALSE /\ account = NoAccount /\ confirmed = FALSE /\ generation = 0
    /\ old = FALSE /\ held = FALSE /\ calls = {} /\ shown = {}

\* findBy: a checkout with no hold is gone an hour after it began.
Live == begun /\ (held \/ ~old)

\* beginCheckout: with the buyer's own holder session the checkout is linked and confirmed at once.
Begin(own) ==
    /\ ~begun
    /\ begun' = TRUE
    /\ confirmed' = own
    /\ account' = IF own THEN Mine ELSE NoAccount
    /\ UNCHANGED <<generation, old, held, calls, shown>>

HourPasses ==
    /\ begun /\ ~old
    /\ old' = TRUE
    /\ UNCHANGED <<begun, account, confirmed, generation, held, calls, shown>>

\* A call reads the row, and goes on with the generation and the account it found or brings.
CallBegins(kind, acct) ==
    /\ Live /\ acct \in Accounts
    /\ Cardinality(calls) < MaxCalls
    /\ calls' = calls \cup {[kind |-> kind, gen |-> generation, acct |-> acct]}
    /\ UNCHANGED <<begun, account, confirmed, generation, old, held, shown>>

(***************************************************************************)
(* linkCheckout: found by the current handoff token, by any holder         *)
(***************************************************************************)
LinkReads(a) == CallBegins("link", a)

\* Mutant: the handoff's generation is not compared.
LinkAny(c) == account = NoAccount

\* The UPDATE links a checkout of the same generation that is linked to nobody.
LinkMatches(c) == generation = c.gen /\ account = NoAccount

Link(c) ==
    /\ c \in calls /\ c.kind = "link"
    /\ account' = IF LinkMatches(c) THEN c.acct ELSE account
    /\ calls' = (calls \ {c}) \cup {[kind |-> "linked", gen |-> c.gen, acct |-> c.acct]}
    /\ UNCHANGED <<begun, confirmed, generation, old, held, shown>>

\* The row is read again by the handoff token, which a discard has replaced, and answered only to
\* the account it is linked to: Saifu shows its pairing code.
LinkAnswers(c) ==
    /\ c \in calls /\ c.kind = "linked"
    /\ calls' = calls \ {c}
    /\ shown' = IF Live /\ generation = c.gen /\ account = c.acct
                THEN shown \cup {<<c.gen, c.acct>>} ELSE shown
    /\ UNCHANGED <<begun, account, confirmed, generation, old, held>>

(***************************************************************************)
(* confirmLink: the buyer sees on the page the code her own Saifu shows    *)
(***************************************************************************)
ConfirmReads ==
    /\ <<generation, account>> \in shown /\ account = Mine
    /\ CallBegins("confirm", account)

\* Mutant: whatever account is linked by then is confirmed.
ConfirmAny(c) == account # NoAccount

ConfirmMatches(c) == account = c.acct

Confirm(c) ==
    /\ c \in calls /\ c.kind = "confirm"
    /\ calls' = calls \ {c}
    /\ confirmed' = (confirmed \/ ConfirmMatches(c))
    /\ UNCHANGED <<begun, account, generation, old, held, shown>>

(***************************************************************************)
(* discardLink: the page shows a code the buyer's Saifu does not; or she   *)
(* changes her mind                                                        *)
(***************************************************************************)
DiscardReads == ~confirmed /\ CallBegins("discard", account)

DiscardMatches(c) == generation = c.gen /\ ~confirmed

\* Mutant: the generation goes back.
DiscardBackwards(c) ==
    /\ c \in calls /\ c.kind = "discard" /\ DiscardMatches(c)
    /\ calls' = calls \ {c}
    /\ account' = NoAccount /\ generation' = c.gen - 1
    /\ UNCHANGED <<begun, confirmed, old, held, shown>>

\* Mutant: a link confirmed since is discarded too.
DiscardConfirmed(c) ==
    /\ c \in calls /\ c.kind = "discard" /\ generation = c.gen
    /\ calls' = calls \ {c}
    /\ account' = NoAccount /\ generation' = c.gen + 1 /\ confirmed' = FALSE
    /\ UNCHANGED <<begun, old, held, shown>>

Discard(c) ==
    /\ c \in calls /\ c.kind = "discard" /\ c.gen < MaxGenerations
    /\ calls' = calls \ {c}
    /\ IF DiscardMatches(c)
       THEN account' = NoAccount /\ generation' = c.gen + 1
       ELSE UNCHANGED <<account, generation>>
    /\ UNCHANGED <<begun, confirmed, old, held, shown>>

(***************************************************************************)
(* hold: only for a confirmed link; Holds!Place decides whether there is a *)
(* place, in a transaction of its own                                      *)
(***************************************************************************)
\* Mutant: a link is enough.
HoldLinked == CallBegins("hold", account)

HoldReads == confirmed /\ CallBegins("hold", account)

HoldPlaced(c) ==
    /\ c \in calls /\ c.kind = "hold"
    /\ calls' = calls \ {c}
    /\ held' = TRUE
    /\ UNCHANGED <<begun, account, confirmed, generation, old, shown>>

HoldRefused(c) ==
    /\ c \in calls /\ c.kind = "hold"
    /\ calls' = calls \ {c}
    /\ UNCHANGED <<begun, account, confirmed, generation, old, held, shown>>

Next ==
    \/ \E own \in BOOLEAN : Begin(own)
    \/ HourPasses
    \/ \E a \in Accounts : LinkReads(a)
    \/ ConfirmReads \/ DiscardReads \/ HoldReads
    \/ \E c \in calls :
         \/ Link(c) \/ LinkAnswers(c) \/ Confirm(c) \/ Discard(c)
         \/ HoldPlaced(c) \/ HoldRefused(c)

Spec == Init /\ [][Next]_vars

(***************************************************************************)
(* Properties                                                              *)
(***************************************************************************)

\* Only the buyer's own account is ever confirmed, and so held for and issued to, whoever else saw
\* the handoff and however calls cross (linkCheckout, confirmLink, discardLink).
OnlyMineConfirmed == confirmed => account = Mine

\* A checkout with a hold, or with a call about to place one, has a confirmed account: a ticket is
\* never issued to nobody (hold, checked on a row read before the hold is placed).
HeldIsConfirmed == held \/ (\E c \in calls : c.kind = "hold") => confirmed

\* A confirmed link is final: no discard, and no late link, changes the account (discardLink).
ConfirmedIsFinal == [][confirmed => confirmed' /\ account' = account]_vars

\* A discard frees the link the page showed, never one made since; and a link is only made with
\* the handoff shown now, never with a discarded one (handoff_generation).
LinksAreCurrent ==
    [][/\ account # NoAccount /\ account' # account =>
            \E c \in calls : c.kind = "discard" /\ c.acct = account /\ c.gen = generation
       /\ begun /\ account = NoAccount /\ account' # account =>
            \E c \in calls : c.kind = "link" /\ c.acct = account' /\ c.gen = generation]_vars
=============================================================================
