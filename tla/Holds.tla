------------------------------- MODULE Holds -------------------------------
(***************************************************************************)
(* Issuance holds (src/sales/holds.ts): placing one under the allocation   *)
(* locks, and its lapse.  A hold's lifetime is kept as whether it has      *)
(* passed: `expired` turns true once, at the hold's expires_at.            *)
(***************************************************************************)
EXTENDS SalesState

\* Mutant: Kippu's own closure is not looked at.
EventActive == evStatus = "Active"

\* eventOnSale (src/sales/on-sale.ts): Active on the ledger, and not closed in Kippu.
EventOnSale == evStatus = "Active" /\ ~closed

\* place: expired holds are lapsed, then the place is counted and taken, in one transaction.
Place(c) ==
    LET counted == Lapse(hold) IN
    /\ hold[c] = "none"
    /\ EventOnSale
    /\ PlaceFree(counted, c)
    /\ hold' = [counted EXCEPT ![c] = "outstanding"]
    /\ UNCHANGED <<ledgerVars, provider, expired, payVars, grant, closed, work, callVars, crashes>>

\* place: a refusal commits too, and with it the lapses it recorded.
PlaceRefused(c) ==
    /\ hold[c] = "none"
    /\ EventOnSale
    /\ ~PlaceFree(Lapse(hold), c)
    /\ hold' = Lapse(hold)
    /\ UNCHANGED <<ledgerVars, provider, expired, payVars, grant, closed, work, callVars, crashes>>

\* place, for a checkout whose hold is outstanding already: only the lapses are recorded.
PlaceAgain(c) ==
    /\ Lapse(hold)[c] = "outstanding"
    /\ hold' = Lapse(hold)
    /\ UNCHANGED <<ledgerVars, provider, expired, payVars, grant, closed, work, callVars, crashes>>

\* The clock passes a hold's expires_at.
Expire(c) ==
    /\ hold[c] # "none" /\ ~expired[c]
    /\ expired' = [expired EXCEPT ![c] = TRUE]
    /\ UNCHANGED <<ledgerVars, provider, hold, payVars, grant, closed, work, callVars, crashes>>

\* lapseExpired, and the first statement of every sweep.
LapseExpired ==
    /\ Lapse(hold) # hold
    /\ hold' = Lapse(hold)
    /\ UNCHANGED <<ledgerVars, provider, expired, payVars, grant, closed, work, callVars, crashes>>

\* Mutant: the status is not looked at.
ReleaseAnyHold(h, c) == [h EXCEPT ![c] = IF expired[c] THEN "lapsed" ELSE "released"]

\* releaseHold: an outstanding hold past its lifetime is recorded as lapsed, not released.
ReleaseHold(h, c) ==
    IF h[c] = "outstanding"
    THEN [h EXCEPT ![c] = IF expired[c] THEN "lapsed" ELSE "released"]
    ELSE h

HoldsNext ==
    \/ \E c \in Checkouts : Place(c) \/ PlaceRefused(c) \/ PlaceAgain(c) \/ Expire(c)
    \/ LapseExpired
============================================================================
