--------------------------- MODULE FinishSchedule ---------------------------
(***************************************************************************)
(* The scheduled finish of ONE event (src/events/finish-schedule.ts):      *)
(* several servers run the scheduler over one row of finish_schedules.     *)
(* A server claims a due finish under a session lock, runs it as any       *)
(* finish (src/events/status.ts), and may stop, fail or lose the ledger's  *)
(* verdict anywhere; a later pass reconciles what it left `running` with   *)
(* the ledger and with the audit log (src/audit/relay.ts), where a row     *)
(* precedes every signature.                                               *)
(***************************************************************************)
EXTENDS Naturals

CONSTANTS
    Servers,    \* server processes, each running the scheduler
    Nobody,     \* the holder of a free lock
    MaxSets,    \* bound: how often the organiser schedules
    MaxFaults,  \* bound: crashes, failed requests and lost verdicts
    MaxOps      \* bound: submissions

\* Every submission ends its schedule or takes a fault, so the last bound never binds first.
ASSUME BoundsAssumption ==
    /\ MaxSets \in Nat /\ MaxFaults \in Nat /\ MaxOps \in Nat
    /\ MaxOps >= MaxSets + MaxFaults
    /\ Nobody \notin Servers

Ops == 1..MaxOps

VARIABLES
    (* The ledger (external) *)
    evStatus,   \* the event's status
    sub,        \* each submission of the finish
    (* The Kippu store *)
    sched,      \* finish_schedules.status
    clock,      \* where the time stands against the schedule's finish_at
    noticed,    \* whether noticed_at is set
    audit,      \* audit_log.outcome of each submission, all under the schedule's one request id
    aged,       \* whether a submission's lifetime and the margin have passed since recorded_at
    closedBy,   \* who closed the event's sales, while they are closed
    lock,       \* the server holding the schedule's run lock
    (* The servers and the organiser *)
    pc,         \* how far each server's run or reconciliation has come
    op,         \* the submission its run has made
    releases,   \* whether its run found the event Active, and must reopen sales if refused
    asked,      \* an organiser's call to schedule has read the event
    other,      \* how far another organiser call (seal, cancel, finish) has come
    sets,       \* how often the organiser has scheduled
    faults      \* how much has failed

storeVars == <<sched, clock, noticed>>
runVars   == <<lock, pc, op, releases>>
vars == <<evStatus, sub, sched, clock, noticed, audit, aged, closedBy, lock, pc, op, releases,
          asked, other, sets, faults>>

ScheduleStatus == {"scheduled", "running", "finished", "refused", "cancelled"}
Outcome        == {"pending", "settled", "rejected", "failed"}
EventStatus    == {"Active", "Sealed", "Cancelled", "Finished"}
RunPc          == {"claimed", "releasing", "signing", "signed", "awaiting", "settled", "refused"}
SettlePc       == {"settling", "deciding"}

TypeOK ==
    /\ evStatus \in EventStatus
    /\ sub \in [Ops -> {"unsent", "inflight", "settled", "refused"}]
    /\ sched \in ScheduleStatus \cup {"none"}
    /\ clock \in {"early", "notice", "due"} /\ noticed \in BOOLEAN
    /\ audit \in [Ops -> Outcome \cup {"none"}] /\ aged \in [Ops -> BOOLEAN]
    /\ closedBy \in {"none", "run", "other"}
    /\ lock \in Servers \cup {Nobody}
    /\ pc \in [Servers -> RunPc \cup SettlePc \cup {"idle"}]
    /\ op \in [Servers -> Ops \cup {0}] /\ releases \in [Servers -> BOOLEAN]
    /\ asked \in BOOLEAN /\ other \in {"new", "released", "direct", "done"}
    /\ sets \in 0..MaxSets /\ faults \in 0..MaxFaults

Init ==
    /\ evStatus = "Active" /\ sub = [o \in Ops |-> "unsent"]
    /\ sched = "none" /\ clock = "early" /\ noticed = FALSE
    /\ audit = [o \in Ops |-> "none"] /\ aged = [o \in Ops |-> FALSE]
    /\ closedBy = "none" /\ lock = Nobody
    /\ pc = [s \in Servers |-> "idle"] /\ op = [s \in Servers |-> 0]
    /\ releases = [s \in Servers |-> FALSE]
    /\ asked = FALSE /\ other = "new" /\ sets = 0 /\ faults = 0

(***************************************************************************)
(* The organiser                                                           *)
(***************************************************************************)

\* schedule, first half: the event is read, and is neither Cancelled nor Finished.
ScheduleReads ==
    /\ ~asked /\ sets < MaxSets
    /\ evStatus \in {"Active", "Sealed"}
    /\ asked' = TRUE
    /\ UNCHANGED <<evStatus, sub, storeVars, audit, aged, closedBy, runVars, other, sets, faults>>

\* schedule, second half: the row is set, or reset, keeping its id; not while running or finished.
Schedule(at) ==
    /\ asked
    /\ asked' = FALSE /\ sets' = sets + 1
    /\ IF sched \in {"running", "finished"}
       THEN UNCHANGED storeVars
       ELSE sched' = "scheduled" /\ clock' = at /\ noticed' = FALSE
    /\ UNCHANGED <<evStatus, sub, audit, aged, closedBy, runVars, other, faults>>

CancelSchedule ==
    /\ sched = "scheduled"
    /\ sched' = "cancelled"
    /\ UNCHANGED <<evStatus, sub, clock, noticed, audit, aged, closedBy, runVars, asked, other,
                   sets, faults>>

\* Another call of the organiser's, manual: it closes the sales of an Active event first.
OtherBegins ==
    /\ other = "new"
    /\ IF evStatus = "Active"
       THEN /\ other' = "released"
            /\ closedBy' = IF closedBy = "none" THEN "other" ELSE closedBy
       ELSE other' = "direct" /\ UNCHANGED closedBy
    /\ UNCHANGED <<evStatus, sub, storeVars, audit, aged, runVars, asked, sets, faults>>

\* The ledger (external) permits Active to any status, Sealed to Cancelled or Finished.
Permitted(to) == evStatus = "Active" \/ (evStatus = "Sealed" /\ to # "Sealed")

OtherChanges(to) ==
    /\ other \in {"released", "direct"} /\ Permitted(to)
    /\ evStatus' = to
    /\ other' = "done"
    /\ UNCHANGED <<sub, storeVars, audit, aged, closedBy, runVars, asked, sets, faults>>

OtherRefused ==
    /\ other \in {"released", "direct"}
    /\ other' = "done"
    /\ closedBy' = IF other = "released" THEN "none" ELSE closedBy
    /\ UNCHANGED <<evStatus, sub, storeVars, audit, aged, runVars, asked, sets, faults>>

(***************************************************************************)
(* Time, and the ledger (external)                                         *)
(***************************************************************************)
Tick ==
    /\ sched # "none" /\ clock # "due"
    /\ clock' = IF clock = "early" THEN "notice" ELSE "due"
    /\ UNCHANGED <<evStatus, sub, sched, noticed, audit, aged, closedBy, runVars, asked, other,
                   sets, faults>>

LedgerFinishes(o) ==
    /\ sub[o] = "inflight" /\ Permitted("Finished")
    /\ sub' = [sub EXCEPT ![o] = "settled"]
    /\ evStatus' = "Finished"
    /\ UNCHANGED <<storeVars, audit, aged, closedBy, runVars, asked, other, sets, faults>>

\* A refusal: of the transition, of the sponsorship, or because the command's lifetime is over.
LedgerRefuses(o) ==
    /\ sub[o] = "inflight"
    /\ sub' = [sub EXCEPT ![o] = "refused"]
    /\ UNCHANGED <<evStatus, storeVars, audit, aged, closedBy, runVars, asked, other, sets, faults>>

\* OPERATION_EXPIRY_MARGIN_MS: once it has passed the ledger, whatever its clock, has decided; and
\* no reconciliation takes that long from its read of the event to its decision.
Age(o) ==
    /\ audit[o] # "none" /\ ~aged[o]
    /\ sub[o] # "inflight"
    /\ \A s \in Servers : pc[s] # "deciding"
    /\ aged' = [aged EXCEPT ![o] = TRUE]
    /\ UNCHANGED <<evStatus, sub, storeVars, audit, closedBy, runVars, asked, other, sets, faults>>

(***************************************************************************)
(* runDue: notices, then due finishes, each claimed under its run lock     *)
(***************************************************************************)
Notice(s) ==
    /\ pc[s] = "idle"
    /\ sched = "scheduled" /\ ~noticed /\ clock # "early"
    /\ noticed' = TRUE
    /\ UNCHANGED <<evStatus, sub, sched, clock, audit, aged, closedBy, runVars, asked, other, sets,
                   faults>>

Due == sched = "scheduled" /\ noticed /\ clock = "due"

\* Mutant: the lock is not tried.
ClaimUnlocked(s) ==
    /\ pc[s] = "idle" /\ Due
    /\ sched' = "running"
    /\ pc' = [pc EXCEPT ![s] = "claimed"]
    /\ UNCHANGED <<lock, evStatus, sub, clock, noticed, audit, aged, closedBy, op, releases, asked,
                   other, sets, faults>>

\* pg_try_advisory_lock, and the claim.
Claim(s) ==
    /\ pc[s] = "idle" /\ lock = Nobody /\ Due
    /\ lock' = s
    /\ sched' = "running"
    /\ pc' = [pc EXCEPT ![s] = "claimed"]
    /\ UNCHANGED <<evStatus, sub, clock, noticed, audit, aged, closedBy, op, releases, asked, other,
                   sets, faults>>

\* The pass ends for this schedule, and its lock is released.
Unlock(s) ==
    /\ lock' = IF lock = s THEN Nobody ELSE lock
    /\ pc' = [pc EXCEPT ![s] = "idle"]
    /\ UNCHANGED <<op, releases>>

Fault == faults < MaxFaults /\ faults' = faults + 1

(***************************************************************************)
(* run: status.finish, signed and submitted through relay                  *)
(***************************************************************************)
RunReads(s) ==
    /\ pc[s] = "claimed"
    /\ releases' = [releases EXCEPT ![s] = (evStatus = "Active")]
    /\ pc' = [pc EXCEPT ![s] = IF evStatus = "Active" THEN "releasing" ELSE "signing"]
    /\ UNCHANGED <<evStatus, sub, storeVars, audit, aged, closedBy, lock, op, asked, other, sets,
                   faults>>

\* releaseAll: a closure already in force stays as it is.
RunReleases(s) ==
    /\ pc[s] = "releasing"
    /\ closedBy' = IF closedBy = "none" THEN "run" ELSE closedBy
    /\ pc' = [pc EXCEPT ![s] = "signing"]
    /\ UNCHANGED <<evStatus, sub, storeVars, audit, aged, lock, op, releases, asked, other, sets,
                   faults>>

\* auditedSigner: the pending audit row precedes the signature.
RunSigns(s, o) ==
    /\ pc[s] = "signing"
    /\ audit[o] = "none" /\ \A q \in Ops : q < o => audit[q] # "none"
    /\ audit' = [audit EXCEPT ![o] = "pending"]
    /\ op' = [op EXCEPT ![s] = o]
    /\ pc' = [pc EXCEPT ![s] = "signed"]
    /\ UNCHANGED <<evStatus, sub, storeVars, aged, closedBy, lock, releases, asked, other, sets,
                   faults>>

\* A command past its lifetime is refused whenever it arrives.
RunSubmits(s) ==
    /\ pc[s] = "signed"
    /\ sub' = [sub EXCEPT ![op[s]] = IF aged[op[s]] THEN "refused" ELSE "inflight"]
    /\ pc' = [pc EXCEPT ![s] = "awaiting"]
    /\ UNCHANGED <<evStatus, storeVars, audit, aged, closedBy, lock, op, releases, asked, other,
                   sets, faults>>

\* Mutant: the ledger's word is recorded, which audit_log does not take.
RunHearsVerbatim(s) ==
    /\ pc[s] = "awaiting" /\ sub[op[s]] \in {"settled", "refused"}
    /\ audit' = [audit EXCEPT ![op[s]] = sub[op[s]]]
    /\ pc' = [pc EXCEPT ![s] = sub[op[s]]]
    /\ UNCHANGED <<evStatus, sub, storeVars, aged, closedBy, lock, op, releases, asked, other, sets,
                   faults>>

\* The verdict: the audit row records it first.
RunHears(s) ==
    LET verdict == sub[op[s]] IN
    /\ pc[s] = "awaiting" /\ verdict \in {"settled", "refused"}
    /\ audit' = [audit EXCEPT ![op[s]] = IF verdict = "settled" THEN "settled" ELSE "rejected"]
    /\ pc' = [pc EXCEPT ![s] = verdict]
    /\ UNCHANGED <<evStatus, sub, storeVars, aged, closedBy, lock, op, releases, asked, other, sets,
                   faults>>

\* onAuditFailure: the outcome could not be recorded, and the run goes on.
RunHearsUnrecorded(s) ==
    /\ pc[s] = "awaiting" /\ sub[op[s]] \in {"settled", "refused"}
    /\ Fault
    /\ pc' = [pc EXCEPT ![s] = sub[op[s]]]
    /\ UNCHANGED <<evStatus, sub, storeVars, audit, aged, closedBy, lock, op, releases, asked,
                   other, sets>>

RunFinished(s) ==
    /\ pc[s] = "settled"
    /\ sched' = "finished"
    /\ Unlock(s)
    /\ UNCHANGED <<evStatus, sub, clock, noticed, audit, aged, closedBy, asked, other, sets, faults>>

\* A refused finish reopens sales, if it had closed them, and then is recorded as refused.
RunReopens(s) ==
    /\ pc[s] = "refused" /\ releases[s]
    /\ closedBy' = "none"
    /\ releases' = [releases EXCEPT ![s] = FALSE]
    /\ UNCHANGED <<evStatus, sub, storeVars, audit, aged, lock, pc, op, asked, other, sets, faults>>

RunRefused(s) ==
    /\ pc[s] = "refused" /\ ~releases[s]
    /\ sched' = "refused"
    /\ Unlock(s)
    /\ UNCHANGED <<evStatus, sub, clock, noticed, audit, aged, closedBy, asked, other, sets, faults>>

\* Mutant: a run whose verdict is lost submits again.
RunFailsRetrying(s) ==
    /\ pc[s] = "awaiting"
    /\ Fault
    /\ audit' = [audit EXCEPT ![op[s]] = "failed"]
    /\ pc' = [pc EXCEPT ![s] = "signing"]
    /\ UNCHANGED <<evStatus, sub, storeVars, aged, closedBy, lock, op, releases, asked, other, sets>>

\* Any request of the run fails, or its verdict is lost: it stays running, for reconciliation.
RunFails(s) ==
    /\ pc[s] \in RunPc
    /\ Fault
    /\ audit' = IF pc[s] \in {"signed", "awaiting"}
                THEN [audit EXCEPT ![op[s]] = "failed"] ELSE audit
    /\ Unlock(s)
    /\ UNCHANGED <<evStatus, sub, storeVars, aged, closedBy, asked, other, sets>>

(***************************************************************************)
(* reconcile and settle: a schedule left running that no server holds      *)
(***************************************************************************)
Reconcile(s) ==
    /\ pc[s] = "idle" /\ lock = Nobody /\ sched = "running"
    /\ lock' = s
    /\ pc' = [pc EXCEPT ![s] = "settling"]
    /\ UNCHANGED <<evStatus, sub, storeVars, audit, aged, closedBy, op, releases, asked, other,
                   sets, faults>>

\* Mutant: an ended event is taken for a finished one.
SettleReadsEnded(s) ==
    /\ pc[s] = "settling"
    /\ IF evStatus \in {"Cancelled", "Finished"}
       THEN sched' = "finished" /\ Unlock(s)
       ELSE /\ pc' = [pc EXCEPT ![s] = "deciding"]
            /\ UNCHANGED <<sched, lock, op, releases>>
    /\ UNCHANGED <<evStatus, sub, clock, noticed, audit, aged, closedBy, asked, other, sets, faults>>

\* 1. The ledger has the event Finished, whoever finished it.
SettleReads(s) ==
    /\ pc[s] = "settling"
    /\ IF evStatus = "Finished"
       THEN sched' = "finished" /\ Unlock(s)
       ELSE /\ pc' = [pc EXCEPT ![s] = "deciding"]
            /\ UNCHANGED <<sched, lock, op, releases>>
    /\ UNCHANGED <<evStatus, sub, clock, noticed, audit, aged, closedBy, asked, other, sets, faults>>

\* Mutant: a lost verdict is taken for a refusal.
AuditRefusedOrFailed == \E o \in Ops : audit[o] \in {"rejected", "failed"}

\* 2. A submission under the schedule's request id was refused: sales it closed reopen first.
AuditRefused == \E o \in Ops : audit[o] = "rejected"

SettleReopens(s) ==
    /\ pc[s] = "deciding" /\ AuditRefused /\ closedBy = "run"
    /\ closedBy' = "none"
    /\ UNCHANGED <<evStatus, sub, storeVars, audit, aged, runVars, asked, other, sets, faults>>

SettleRefuses(s) ==
    /\ pc[s] = "deciding" /\ AuditRefused /\ closedBy # "run"
    /\ sched' = "refused"
    /\ Unlock(s)
    /\ UNCHANGED <<evStatus, sub, clock, noticed, audit, aged, closedBy, asked, other, sets, faults>>

\* Mutant: the lifetime is not looked at.
MayLandForever == \E o \in Ops : audit[o] \in {"pending", "failed"}

\* 3. A submission without a verdict is within its lifetime: wait.
MayLand == \E o \in Ops : audit[o] \in {"pending", "failed"} /\ ~aged[o]

SettleWaits(s) ==
    /\ pc[s] = "deciding" /\ ~AuditRefused /\ MayLand
    /\ Unlock(s)
    /\ UNCHANGED <<evStatus, sub, storeVars, audit, aged, closedBy, asked, other, sets, faults>>

\* 4. Nothing of the run can land any more: it is scheduled, and due, again.
SettleResumes(s) ==
    /\ pc[s] = "deciding" /\ ~AuditRefused /\ ~MayLand
    /\ sched' = "scheduled"
    /\ Unlock(s)
    /\ UNCHANGED <<evStatus, sub, clock, noticed, audit, aged, closedBy, asked, other, sets, faults>>

SettleFails(s) ==
    /\ pc[s] \in SettlePc
    /\ Fault
    /\ Unlock(s)
    /\ UNCHANGED <<evStatus, sub, storeVars, audit, aged, closedBy, asked, other, sets>>

\* The server stops: its session lock goes with its connection.
Crash(s) ==
    /\ pc[s] # "idle"
    /\ Fault
    /\ Unlock(s)
    /\ UNCHANGED <<evStatus, sub, storeVars, audit, aged, closedBy, asked, other, sets>>

(***************************************************************************)
(* The specification                                                       *)
(***************************************************************************)
RunStep(s) ==
    \/ RunReads(s) \/ RunReleases(s) \/ (\E o \in Ops : RunSigns(s, o)) \/ RunSubmits(s)
    \/ RunHears(s) \/ RunFinished(s) \/ RunReopens(s) \/ RunRefused(s)

SettleStep(s) ==
    SettleReads(s) \/ SettleReopens(s) \/ SettleRefuses(s) \/ SettleWaits(s) \/ SettleResumes(s)

Next ==
    \/ ScheduleReads \/ CancelSchedule \/ (\E at \in {"early", "notice"} : Schedule(at))
    \/ OtherBegins \/ OtherRefused \/ (\E to \in EventStatus \ {"Active"} : OtherChanges(to))
    \/ Tick
    \/ \E o \in Ops : LedgerFinishes(o) \/ LedgerRefuses(o) \/ Age(o)
    \/ \E s \in Servers :
         \/ Notice(s) \/ Claim(s) \/ Reconcile(s)
         \/ RunStep(s) \/ RunHearsUnrecorded(s) \/ RunFails(s)
         \/ SettleStep(s) \/ SettleFails(s) \/ Crash(s)

Spec == Init /\ [][Next]_vars

(***************************************************************************)
(* Fairness: time passes, the ledger decides, a scheduler passes every 30  *)
(* seconds, and what is under way goes on.  A command ages even though     *)
(* Age waits for reconciliations under way, so it is strongly fair.        *)
(***************************************************************************)
Fairness ==
    /\ WF_vars(Tick)
    /\ \A o \in Ops : WF_vars(LedgerFinishes(o) \/ LedgerRefuses(o)) /\ SF_vars(Age(o))
    /\ WF_vars(\E s \in Servers : Notice(s))
    /\ WF_vars(\E s \in Servers : Claim(s))
    /\ WF_vars(\E s \in Servers : Reconcile(s))
    /\ \A s \in Servers : WF_vars(RunStep(s)) /\ WF_vars(SettleStep(s))

FairSpec == Spec /\ Fairness

InFlight == {o \in Ops : sub[o] = "inflight"}

\* Nothing is submitted twice while the first submission can still land, through crashes, lost
\* verdicts and two servers (settle, case 3).
OneInFlight == \A o, q \in InFlight : o = q

\* A schedule shown as finished is of an event the ledger has Finished (run, settle case 1).
FinishedIsFinished == sched = "finished" => evStatus = "Finished"

\* Once a schedule is refused, cancelled or waiting to run again, nothing of an earlier run can
\* land any more: what the organiser is told is what stays true (settle, cases 2 and 4).
NothingLandsLater == sched \in {"scheduled", "refused", "cancelled"} => InFlight = {}

\* A scheduled finish reopens sales only when its own submission can no longer land: tickets are
\* never sold of an event about to finish (reopenSales in submit, and in settle case 2).
ReopensWhenOver ==
    [][closedBy = "run" /\ closedBy' = "none" /\ other' = other => InFlight = {}]_vars

\* Every schedule comes to an end, however its servers stop on the way: it finishes, is refused or
\* cancelled, and never stays running (T-021-17).
ScheduleEnds == sched \in {"scheduled", "running"} ~> sched \notin {"scheduled", "running"}
=============================================================================
