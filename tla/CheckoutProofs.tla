--------------------------- MODULE CheckoutProofs ---------------------------
(***************************************************************************)
(* Proofs about Checkout, for any set of accounts and any number of calls  *)
(* and generations.                                                        *)
(*                                                                         *)
(* What a call read may be stale when it writes.  The invariant says what  *)
(* of it is still true: the generation it read is not ahead of the row's;  *)
(* as long as they are equal, the link a discard read is the link there    *)
(* is; a confirmation is of the buyer's own account; and a hold, once its  *)
(* link was found confirmed, finds it confirmed.                           *)
(***************************************************************************)
EXTENDS Checkout, TLAPS

NotBegun ==
    ~begun => account = NoAccount /\ ~confirmed /\ ~held /\ calls = {}

CallsCurrent ==
    \A c \in calls :
        /\ c.gen <= generation
        /\ c.kind = "confirm" => c.acct = Mine
        /\ c.kind = "discard" /\ c.gen = generation => c.acct = account

CheckoutInv == TypeOK /\ NotBegun /\ CallsCurrent /\ OnlyMineConfirmed /\ HeldIsConfirmed

\* The state a checkout begins in satisfies the invariant.
LEMMA InvInit == Init => CheckoutInv
<1> SUFFICES ASSUME Init PROVE CheckoutInv
  OBVIOUS
<1>1. begun = FALSE /\ confirmed = FALSE /\ old = FALSE /\ held = FALSE
  BY DEF Init
<1>2. account = NoAccount /\ generation = 0 /\ calls = {} /\ shown = {}
  BY DEF Init
<1>3. TypeOK
  BY <1>1, <1>2 DEF TypeOK
<1>4. NotBegun /\ OnlyMineConfirmed /\ HeldIsConfirmed
  BY <1>1, <1>2 DEF NotBegun, OnlyMineConfirmed, HeldIsConfirmed
<1>5. CallsCurrent
  BY <1>2 DEF CallsCurrent
<1> QED BY <1>3, <1>4, <1>5 DEF CheckoutInv

\* beginCheckout and the passing of the hour.
LEMMA RowStep ==
    ASSUME CheckoutInv, (\E own \in BOOLEAN : Begin(own)) \/ HourPasses
    PROVE  CheckoutInv'
<1>1. ASSUME NEW own \in BOOLEAN, Begin(own) PROVE CheckoutInv'
  <2>1. begun' = TRUE /\ confirmed' = own /\ account' = (IF own THEN Mine ELSE NoAccount)
        /\ UNCHANGED <<generation, old, held, calls, shown>> /\ ~held /\ calls = {}
    BY <1>1 DEF Begin, CheckoutInv, NotBegun
  <2>2. account' \in Accounts \cup {NoAccount} /\ (own => account' = Mine)
    BY <2>1, AccountsAssumption
  <2>3. TypeOK'
    BY <1>1, <2>1, <2>2 DEF CheckoutInv, TypeOK
  <2>4. NotBegun' /\ CallsCurrent' /\ OnlyMineConfirmed' /\ HeldIsConfirmed'
    BY <2>1, <2>2 DEF NotBegun, CallsCurrent, OnlyMineConfirmed, HeldIsConfirmed
  <2> QED BY <2>3, <2>4 DEF CheckoutInv
<1>2. CASE HourPasses
  BY <1>2 DEF HourPasses, CheckoutInv, TypeOK, NotBegun, CallsCurrent, OnlyMineConfirmed,
     HeldIsConfirmed
<1> QED BY <1>1, <1>2

\* A call that reads the row and has yet to write: what it read is current as it begins.
LEMMA ReadStep ==
    ASSUME CheckoutInv,
           \/ \E a \in Accounts : LinkReads(a)
           \/ ConfirmReads \/ DiscardReads \/ HoldReads
    PROVE  CheckoutInv'
<1>1. PICK kind \in {"link", "confirm", "discard", "hold"}, acct \in Accounts :
        /\ CallBegins(kind, acct)
        /\ kind = "confirm" => acct = Mine
        /\ kind = "discard" => acct = account
        /\ kind = "hold" => confirmed
  BY DEF LinkReads, ConfirmReads, DiscardReads, HoldReads, CallBegins
<1> DEFINE new == [kind |-> kind, gen |-> generation, acct |-> acct]
<1>2. new \in Call /\ new.kind = kind /\ new.gen = generation /\ new.acct = acct
  BY DEF CheckoutInv, TypeOK, Call
<1>3. calls' = calls \cup {new} /\ begun
      /\ UNCHANGED <<begun, account, confirmed, generation, old, held, shown>>
  BY <1>1 DEF CallBegins, Live
<1> HIDE DEF new
<1>4. TypeOK' /\ NotBegun' /\ OnlyMineConfirmed'
  BY <1>2, <1>3 DEF CheckoutInv, TypeOK, NotBegun, OnlyMineConfirmed
<1>5. CallsCurrent'
  BY <1>1, <1>2, <1>3 DEF CheckoutInv, TypeOK, CallsCurrent
<1>6. HeldIsConfirmed'
  BY <1>1, <1>2, <1>3 DEF CheckoutInv, HeldIsConfirmed
<1> QED BY <1>4, <1>5, <1>6 DEF CheckoutInv

\* A call that writes: its guard holds it to what it read.
LEMMA WriteStep ==
    ASSUME CheckoutInv, NEW c \in calls,
           Link(c) \/ LinkAnswers(c) \/ Confirm(c) \/ Discard(c) \/ HoldPlaced(c) \/ HoldRefused(c)
    PROVE  CheckoutInv'
<1>0. c \in Call /\ c.gen \in Nat /\ c.acct \in Accounts /\ begun
  BY DEF CheckoutInv, TypeOK, Call, NotBegun
<1>1. CASE Link(c)
  <2> DEFINE new == [kind |-> "linked", gen |-> c.gen, acct |-> c.acct]
  <2>1. new \in Call /\ new.kind = "linked" /\ new.gen = c.gen
    BY <1>0 DEF Call
  <2>2. calls' = (calls \ {c}) \cup {new}
        /\ UNCHANGED <<begun, confirmed, generation, old, held, shown>>
    BY <1>1 DEF Link
  <2> HIDE DEF new
  <2>3. account' \in Accounts \cup {NoAccount} /\ (account # NoAccount => account' = account)
    BY <1>0, <1>1 DEF Link, LinkMatches, CheckoutInv, TypeOK
  <2>4. TypeOK' /\ NotBegun'
    BY <1>0, <2>1, <2>2, <2>3 DEF CheckoutInv, TypeOK, NotBegun
  <2>5. OnlyMineConfirmed' /\ HeldIsConfirmed'
    BY <2>1, <2>2, <2>3, AccountsAssumption DEF CheckoutInv, OnlyMineConfirmed, HeldIsConfirmed
  <2>6. CallsCurrent'
    <3> SUFFICES ASSUME NEW d \in calls'
                 PROVE  /\ d.gen <= generation'
                        /\ d.kind = "confirm" => d.acct = Mine
                        /\ d.kind = "discard" /\ d.gen = generation' => d.acct = account'
      BY DEF CallsCurrent
    <3>1. CASE d = new
      BY <3>1, <2>1, <2>2 DEF CheckoutInv, CallsCurrent
    <3>2. CASE d \in calls
      <4>1. d.acct \in Accounts
        BY <3>2 DEF CheckoutInv, TypeOK, Call
      <4> QED BY <3>2, <4>1, <2>2, <2>3, AccountsAssumption DEF CheckoutInv, CallsCurrent
    <3> QED BY <2>2, <3>1, <3>2
  <2> QED BY <2>4, <2>5, <2>6 DEF CheckoutInv
<1>2. CASE LinkAnswers(c)
  BY <1>0, <1>2 DEF LinkAnswers, CheckoutInv, TypeOK, NotBegun, CallsCurrent, OnlyMineConfirmed,
     HeldIsConfirmed, Code
<1>3. CASE Confirm(c)
  BY <1>0, <1>3 DEF Confirm, ConfirmMatches, CheckoutInv, TypeOK, NotBegun, CallsCurrent,
     OnlyMineConfirmed, HeldIsConfirmed
<1>4. CASE Discard(c)
  <2>1. CASE DiscardMatches(c)
    <3>1. /\ account' = NoAccount /\ generation' = c.gen + 1 /\ generation = c.gen /\ ~confirmed
          /\ calls' = calls \ {c} /\ UNCHANGED <<begun, confirmed, old, held, shown>>
      BY <1>4, <2>1 DEF Discard, DiscardMatches
    <3>2. TypeOK' /\ NotBegun' /\ OnlyMineConfirmed' /\ HeldIsConfirmed'
      BY <1>0, <3>1 DEF CheckoutInv, TypeOK, NotBegun, OnlyMineConfirmed, HeldIsConfirmed
    <3>3. CallsCurrent'
      <4> SUFFICES ASSUME NEW d \in calls'
                   PROVE  /\ d.gen <= generation' /\ d.gen # generation'
                          /\ d.kind = "confirm" => d.acct = Mine
        BY DEF CallsCurrent
      <4>1. d \in calls /\ d.gen \in Nat
        BY <3>1 DEF CheckoutInv, TypeOK, Call
      <4> QED BY <1>0, <3>1, <4>1 DEF CheckoutInv, CallsCurrent
    <3> QED BY <3>2, <3>3 DEF CheckoutInv
  <2>2. CASE ~DiscardMatches(c)
    BY <1>0, <1>4, <2>2 DEF Discard, CheckoutInv, TypeOK, NotBegun, CallsCurrent,
       OnlyMineConfirmed, HeldIsConfirmed
  <2> QED BY <2>1, <2>2
<1>5. CASE HoldPlaced(c) \/ HoldRefused(c)
  BY <1>0, <1>5 DEF HoldPlaced, HoldRefused, CheckoutInv, TypeOK, NotBegun, CallsCurrent,
     OnlyMineConfirmed, HeldIsConfirmed
<1> QED BY <1>1, <1>2, <1>3, <1>4, <1>5

\* The invariant holds in every reachable state of a checkout.
THEOREM CheckoutInvariant == Spec => []CheckoutInv
<1>1. CheckoutInv /\ [Next]_vars => CheckoutInv'
  <2>1. CASE UNCHANGED vars
    BY <2>1 DEF vars, CheckoutInv, TypeOK, NotBegun, CallsCurrent, OnlyMineConfirmed,
       HeldIsConfirmed
  <2>2. CASE Next
    BY <2>2, RowStep, ReadStep, WriteStep DEF Next
  <2> QED BY <2>1, <2>2
<1> QED BY InvInit, <1>1, PTL DEF Spec

\* Whatever calls cross, the row and the calls under way have the types of the code's (checkout.ts).
THEOREM TypeCorrect == Spec => []TypeOK
  BY CheckoutInvariant, PTL DEF CheckoutInv

\* Whoever else saw the handoff, only the buyer's own account is ever confirmed (confirmLink).
THEOREM OnlyTheBuyerIsConfirmed == Spec => []OnlyMineConfirmed
  BY CheckoutInvariant, PTL DEF CheckoutInv

\* No hold is placed, or about to be, for a checkout without a confirmed account (hold).
THEOREM HoldsHaveAccounts == Spec => []HeldIsConfirmed
  BY CheckoutInvariant, PTL DEF CheckoutInv

\* No step takes a confirmed link back or changes its account (linkCheckout, discardLink).
THEOREM ConfirmationIsFinal == Spec => ConfirmedIsFinal
<1>1. CheckoutInv /\ [Next]_vars => [confirmed => confirmed' /\ account' = account]_vars
  BY AccountsAssumption
     DEF CheckoutInv, NotBegun, OnlyMineConfirmed, Next, vars, Begin, HourPasses, CallBegins,
         LinkReads, ConfirmReads, DiscardReads, HoldReads, Link, LinkMatches, LinkAnswers, Confirm,
         Discard, DiscardMatches, HoldPlaced, HoldRefused
<1> QED BY CheckoutInvariant, <1>1, PTL DEF Spec, ConfirmedIsFinal

\* A discard frees only the link the page showed, and only the handoff shown now makes a link:
\* what a call read before another one's write cannot undo it (handoff_generation).
THEOREM StaleCallsChangeNothing == Spec => LinksAreCurrent
<1> DEFINE A == /\ account # NoAccount /\ account' # account =>
                     \E c \in calls : c.kind = "discard" /\ c.acct = account /\ c.gen = generation
                /\ begun /\ account = NoAccount /\ account' # account =>
                     \E c \in calls : c.kind = "link" /\ c.acct = account' /\ c.gen = generation
<1>1. CheckoutInv /\ [Next]_vars => [A]_vars
  BY DEF CheckoutInv, NotBegun, CallsCurrent, Next, vars, Begin, HourPasses, CallBegins,
         LinkReads, ConfirmReads, DiscardReads, HoldReads, Link, LinkMatches, LinkAnswers, Confirm,
         Discard, DiscardMatches, HoldPlaced, HoldRefused
<1> QED BY CheckoutInvariant, <1>1, PTL DEF Spec, LinksAreCurrent
=============================================================================
