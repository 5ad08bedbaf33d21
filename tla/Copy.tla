-------------------------------- MODULE Copy --------------------------------
(***************************************************************************)
(* The ledger, the copy's readers on every server, the sponsor relay and   *)
(* its clients, the gates and the organiser's view of their reports.       *)
(***************************************************************************)
EXTENDS Sponsor, AdmissionFlags

ledgerVars == <<world, log, clock>>
copyVars == <<copy, reader>>
vars == <<ledgerVars, copyVars, faults, sponsorVars, flagVars>>

Init == LedgerInit /\ CopyInit /\ SponsorInit /\ FlagInit

Ledger == (Tick \/ \E e \in world.inputs : OtherWrite(e)) /\ UNCHANGED <<copyVars, faults, sponsorVars, flagVars>>

Read(s) == ReaderStep(s) /\ UNCHANGED <<ledgerVars, sponsorVars, flagVars>>
ReadFails(s) == Rollback(s) /\ UNCHANGED <<ledgerVars, sponsorVars, flagVars>>

Request(c) == (\E e \in world.asks : Ask(c, e)) /\ UNCHANGED <<ledgerVars, copyVars, faults, flagVars>>
Relay(c) == RelayStep(c) /\ UNCHANGED <<ledgerVars, copyVars, faults, flagVars>>
Lags(c) == Lagging(c) /\ UNCHANGED <<ledgerVars, copyVars, faults, flagVars>>
Lands(c) == Land(c) /\ UNCHANGED <<world, clock, copyVars, faults, flagVars>>
Fails(c) == RelayFails(c) /\ UNCHANGED <<ledgerVars, copyVars, flagVars>>
Window == WindowPasses /\ UNCHANGED <<ledgerVars, copyVars, faults, flagVars>>

Gate(g) ==
    \/ GateStep(g) /\ UNCHANGED <<ledgerVars, copyVars, faults, sponsorVars>>
    \/ RecordPass(g) /\ UNCHANGED <<world, clock, copyVars, faults, sponsorVars>>
ShowFlags == FlagStep /\ UNCHANGED <<ledgerVars, copyVars, faults, sponsorVars>>

Next ==
    \/ Ledger \/ Window \/ ShowFlags
    \/ \E s \in Servers : Read(s) \/ ReadFails(s)
    \/ \E c \in Calls : Request(c) \/ Relay(c) \/ Lags(c) \/ Lands(c) \/ Fails(c)
    \/ \E g \in Gates : Gate(g)

(* Readers poll, a waiting request is woken or polls, and the relay answers what it was sent. *)
Fairness == (\A s \in Servers : WF_vars(Read(s))) /\ (\A c \in Calls : WF_vars(Relay(c)))

Spec == Init /\ [][Next]_vars /\ Fairness

(* The copy is the ledger as it was after some prefix of its log, whichever servers read, stop *)
(* or fail, and wherever in a batch (reader.ts step, ledger-facts.ts).                         *)
CopyFollowsLedger == copy.records <= Len(log) /\ copy.facts = FactsAt(copy.records)

(* A refusal of a request that named a cursor is final only if the input was not entitled at   *)
(* some point of the ledger at or after that cursor, too many registrations apart              *)
(* (sponsor/relay.ts, docs/sponsor-relay.md section 4).                                        *)
EntitledNotRefused ==
    \A c \in Calls : call[c].pc = "refused" /\ call[c].after # None /\ ~call[c].rated =>
        \E n \in call[c].after .. copy.records :
            ~(Verified(FactsAt(n), call[c].input) /\ Entitlement(FactsAt(n), call[c].input))

(* A flag says what the copy held at the position shown with it, although its queries run at   *)
(* later ones; and what is flagged as not recorded never is (admission-flags.ts).              *)
FlagsTellTruth ==
    \A g \in Gates : flags[g].cause # "none" =>
        /\ flags[g].cause = Cause(g, flags[g].listed, FactsAt(flags[g].head.records), flags[g].head)
        /\ flags[g].cause = "not-recorded" =>
              gate[g].submission # "accepted" /\ ConsumedPass(Now, Pass.arg) = {}

(* In the end the copy is level with the log and no client is left waiting for an answer,      *)
(* whatever failed before (reader.ts run, freshness.ts waitFor, relay-client.ts sponsor).      *)
CatchesUp == <>[](copy.records = Len(log) /\ \A c \in Calls : ~CallRuns(c))
=============================================================================
