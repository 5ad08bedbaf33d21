------------------------------ MODULE Sponsor -------------------------------
(***************************************************************************)
(* The sponsor relay (src/src/sponsor) and its client                      *)
(* (packages/sponsorship): a client asks for its signed input to be        *)
(* sponsored, naming the cursor of its latest write; the relay decides on  *)
(* the derived copy, and again once the copy has reached that cursor.      *)
(***************************************************************************)
EXTENDS DerivedCopy

CONSTANTS
    MaxCalls,   \* bound on the inputs clients submit
    Attempts,   \* how often a client tries the relay for one input
    RateLimit   \* registrations sponsored for one account, per window

ASSUME SponsorAssumption == MaxCalls \in Nat /\ Attempts \in Nat \ {0} /\ RateLimit \in Nat \ {0}

Calls == 1 .. MaxCalls

VARIABLES
    call,       \* every input on its way: progress, the cursor it names, the attempt, the decision
    latest,     \* the receipt cursor every client's tracker holds
    sponsored   \* registrations the relay sponsored in this window, by account

sponsorVars == <<call, latest, sponsored>>

NoCall == [pc |-> "idle", input |-> None, after |-> None, attempt |-> 0, round |-> 0, rated |-> FALSE, cursor |-> None]

SponsorInit ==
    /\ call = [c \in Calls |-> NoCall]
    /\ latest = [a \in Accounts |-> None]
    /\ sponsored = [a \in Accounts |-> 0]

Goto(c, pc) == call' = [call EXCEPT ![c].pc = pc]

(* createRelaySponsor: the cursor is read once, and the request sent *)
Ask(c, e) ==
    /\ call[c].pc = "idle" /\ e \in world.asks /\ \A d \in Calls : d < c => call[d].pc # "idle"
    /\ call' = [call EXCEPT ![c] = [NoCall EXCEPT !.pc = "verify", !.input = e, !.after = latest[e.by],
                                                  !.attempt = 1, !.round = 1]]
    /\ UNCHANGED <<latest, sponsored>>

(* verifiedSigner: the credential is registered in the copy, or this is its registration *)
Verified(f, e) == CredentialRow(f, e.by) \/ e.kind = "registerCredential"

(* decide: what entitles the input, once its signer is verified; the organiser's account is in *)
(* the relay's view of organiser accounts.                                                     *)
Entitlement(f, e) ==
    CASE e.kind \in OwnerCommands -> EventRow(f).owner = e.by
      [] e.kind = "createEvent" -> e.by = "org"
      [] e.kind = "transferTicket" ->
            TicketRow(f).holder = e.by /\ "cannotTransfer" \notin TicketRow(f).restrictions
      [] e.kind = "registerCredential" -> TRUE
      [] e.kind = "accessPass" ->
            TicketRow(f).holder # None /\ EventRow(f).status \notin {"Cancelled", "Finished"}

(* A first refusal that names a cursor waits for the copy; any other is final. *)
Refuse(c, rated) ==
    call' = [call EXCEPT ![c].rated = rated,
                         ![c].pc = IF call[c].round = 1 /\ call[c].after # None THEN "wait" ELSE "refused"]

Verify(c) ==
    /\ call[c].pc = "verify"
    /\ IF Verified(copy.facts, call[c].input) THEN Goto(c, "decide") ELSE Refuse(c, FALSE)
    /\ UNCHANGED <<latest, sponsored>>

Decide(c) ==
    LET e == call[c].input
        rated == e.kind = "registerCredential" /\ sponsored[e.by] >= RateLimit
    IN  /\ call[c].pc = "decide"
        /\ IF Entitlement(copy.facts, e) /\ ~rated
           THEN /\ Goto(c, "sign")
                /\ sponsored' = [sponsored EXCEPT ![e.by] = IF e.kind = "registerCredential" THEN @ + 1 ELSE @]
           ELSE Refuse(c, rated) /\ UNCHANGED sponsored
        /\ UNCHANGED latest

DecideAgainMutant(c) ==
    /\ call[c].pc = "wait" /\ Reached(call[c].after)
    /\ Goto(c, "refused")
    /\ UNCHANGED <<latest, sponsored>>

(* waitFor answers true, woken by a notification or by its poll: decided again, once *)
DecideAgain(c) ==
    /\ call[c].pc = "wait" /\ Reached(call[c].after)
    /\ call' = [call EXCEPT ![c].pc = "verify", ![c].round = 2]
    /\ UNCHANGED <<latest, sponsored>>

(* The client tries again with the same body, or gives up. *)
Retry(c) ==
    call' = [call EXCEPT ![c].attempt = @ + 1, ![c].round = 1,
                         ![c].pc = IF call[c].attempt < Attempts THEN "verify" ELSE "unavailable"]

(* waitFor's time runs out after a check that found the copy behind: 503 lagging *)
Lagging(c) ==
    /\ call[c].pc = "wait" /\ ~Reached(call[c].after)
    /\ Retry(c)
    /\ UNCHANGED <<latest, sponsored>>

(* issueSponsorship, and the input submitted with it; the ledger decides (external) *)
Land(c) ==
    /\ call[c].pc = "sign" /\ Room /\ Accepts(Now, call[c].input) /\ InTime(call[c].input)
    /\ AppendRecord(call[c].input)
    /\ call' = [call EXCEPT ![c].pc = "landed", ![c].cursor = Len(log) + 1]
    /\ UNCHANGED <<latest, sponsored>>
RejectWrite(c) ==
    /\ call[c].pc = "sign"
    /\ Goto(c, "rejected")
    /\ UNCHANGED <<latest, sponsored>>

(* trackReceipts: whichever write settles last is the latest *)
Settle(c) ==
    /\ call[c].pc = "landed"
    /\ latest' = [latest EXCEPT ![call[c].input.by] = call[c].cursor]
    /\ Goto(c, "done")
    /\ UNCHANGED sponsored

(* The relay cannot be reached or cannot read the copy, or its answer is lost; or it cannot    *)
(* sign, which no client tries again.                                                          *)
AtRelay(c) == call[c].pc \in {"verify", "decide", "wait", "sign"}
RelayFails(c) ==
    /\ AtRelay(c) /\ faults < MaxFaults
    /\ Retry(c) \/ (call[c].pc = "sign" /\ Goto(c, "broken"))
    /\ faults' = faults + 1
    /\ UNCHANGED <<latest, sponsored>>

(* The window passes, or the relay restarts: the limit is kept in memory. *)
WindowPasses ==
    /\ \E a \in Accounts : sponsored[a] > 0
    /\ sponsored' = [a \in Accounts |-> 0]
    /\ UNCHANGED <<call, latest>>

RelayStep(c) == Verify(c) \/ Decide(c) \/ DecideAgain(c) \/ Settle(c) \/ RejectWrite(c)
CallRuns(c) == AtRelay(c) \/ call[c].pc = "landed"
=============================================================================
