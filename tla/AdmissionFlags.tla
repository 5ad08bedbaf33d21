--------------------------- MODULE AdmissionFlags ---------------------------
(***************************************************************************)
(* Admissions decided at the gates before the ledger records them          *)
(* (src/src/operators/reports.ts) and the flags the organiser is shown     *)
(* about them (src/src/derived/admission-flags.ts).  Ann's one pass may be *)
(* presented at every gate.                                                *)
(***************************************************************************)
EXTENDS DerivedCopy

VARIABLES
    gate,       \* what every gate did with the pass: when, its submission, its report's outcome
    view,       \* a read of the flags under way: the copy's head, and the reports listed
    flags       \* the flags last shown, each with what it was decided from

flagVars == <<gate, view, flags>>

Gates == {1, 2}
Pass == [kind |-> "accessPass", by |-> "ann", arg |-> "pass"]
NotPresented == [at |-> None, drift |-> FALSE, submission |-> "none", report |-> "none"]
NoView == [pc |-> "idle", head |-> [records |-> 0, at |-> None], listed |-> {}, todo |-> {}]
NoFlag == [cause |-> "none", head |-> NoView.head, listed |-> {}]

FlagInit ==
    /\ gate = [g \in Gates |-> NotPresented]
    /\ view = NoView
    /\ flags = [g \in Gates |-> NoFlag]

(* The gate admits the pass, within its window, and submits it; its clock may be off. *)
Present(g) ==
    /\ g \in world.gates /\ gate[g] = NotPresented /\ clock <= PassLife
    /\ \E drift \in BOOLEAN : gate' = [gate EXCEPT ![g].at = clock, ![g].drift = drift, ![g].submission = "sent"]
    /\ UNCHANGED <<view, flags>>

(* A report does not say when its pass ends: the latest that can be, as the flags take it *)
Deadline(g) == gate[g].at + PassLife

(* The ledger's verdict (external): recorded in time, or refused with the rule it breaks *)
RecordPass(g) ==
    /\ gate[g].submission = "sent" /\ Room /\ Accepts(Now, Pass) /\ InTime(Pass)
    /\ AppendRecord(Pass)
    /\ gate' = [gate EXCEPT ![g].submission = "accepted"]
    /\ UNCHANGED <<view, flags>>
RefusePass(g) ==
    /\ gate[g].submission = "sent" /\ (~Accepts(Now, Pass) \/ clock > PassLife)
    /\ gate' = [gate EXCEPT ![g].submission =
            IF clock > PassLife THEN "ERR-PassExpired"
            ELSE IF ConsumedPass(Now, Pass.arg) # {} THEN "ERR-PassReplayed"
            ELSE IF Now.holder # Pass.by THEN "ERR-InvalidPass" ELSE "other"]
    /\ UNCHANGED <<view, flags>>

(* The report: the verdict, or that none came back, although the pass may still be recorded *)
Report(g) ==
    /\ gate[g].submission # "none" /\ gate[g].report = "none"
    /\ gate' = [gate EXCEPT ![g].report = IF gate[g].submission = "sent" THEN "failed" ELSE gate[g].submission]
    /\ UNCHANGED <<view, flags>>

(* matchAdmissionFlags: the copy's position first, then the reports *)
ReadHead ==
    /\ view.pc = "idle" /\ \E g \in Gates : gate[g].report # "none"
    /\ view' = [NoView EXCEPT !.pc = "list", !.head = CopyHead]
    /\ UNCHANGED <<gate, flags>>
ListReports ==
    /\ view.pc = "list"
    /\ LET filed == {g \in Gates : gate[g].report # "none"} IN
       view' = [view EXCEPT !.pc = "match", !.listed = filed, !.todo = filed]
    /\ UNCHANGED <<gate, flags>>

WithinMutant(rows, head) == rows

(* What the copy held at the position read first *)
Within(rows, head) == {r \in rows : r.sequence <= head.records}

(* Why a report is flagged, from the facts f its queries see and the head read before them *)
Cause(g, listed, f, head) ==
    LET report == gate[g].report
        recorded == Within(ConsumedPass(f, Pass.arg), head) # {}
        transfers == {t \in Within(TransfersSince(f, gate[g].at), head) : t.from = Pass.by}
    IN  CASE report = "failed" /\ ~recorded /\ head.at # None /\ head.at > Deadline(g) -> "not-recorded"
          [] report \in {"accepted", "failed"} ->
                IF gate[g].drift THEN "gate-clock-outside-tolerance" ELSE "none"
          [] report = "ERR-PassReplayed" /\ listed # {g} -> "same-pass-at-two-gates"
          [] report = "ERR-InvalidPass" /\ transfers # {} -> "transfer-before-recording"
          [] report = "ERR-PassExpired" /\ gate[g].drift -> "gate-clock-outside-tolerance"
          [] OTHER -> "unexplained"

(* One report's queries, at whatever position the copy has reached by then *)
Match(g) ==
    /\ view.pc = "match" /\ g \in view.todo
    /\ flags' = [flags EXCEPT ![g] = [cause |-> Cause(g, view.listed, copy.facts, view.head),
                                      head |-> view.head, listed |-> view.listed]]
    /\ view' = IF view.todo = {g} THEN NoView ELSE [view EXCEPT !.todo = @ \ {g}]
    /\ UNCHANGED gate

FlagStep == ReadHead \/ ListReports \/ \E g \in Gates : Match(g)
GateStep(g) == Present(g) \/ RefusePass(g) \/ Report(g)
=============================================================================
