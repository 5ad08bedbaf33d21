---------------------------- MODULE FinishProofs ----------------------------
(***************************************************************************)
(* Theorems about FinishSchedule, for every number of servers, of faults   *)
(* and of submissions.  FinishedIsFinished holds however often the         *)
(* schedule is set; the rest of a schedule that is set once, since a       *)
(* schedule set again keeps its request id, and with it the verdicts of    *)
(* the runs before (finish-schedule.ts, schedule).                         *)
(***************************************************************************)
EXTENDS FinishSchedule, TLAPS

Signed == {"signed", "awaiting", "settled", "refused"}
Unsigned == {"claimed", "releasing", "signing"}

(* One server at a time has the schedule, and only while it is running. *)
LockInv ==
    /\ \A s \in Servers : pc[s] # "idle" => lock = s /\ sched = "running"
    /\ lock # Nobody => lock \in Servers /\ pc[lock] # "idle"

(* What a server's run knows of its own submission, and of the event *)
OwnInv ==
    \A s \in Servers :
        /\ pc[s] \in Signed => op[s] \in Ops /\ audit[op[s]] # "none"
        /\ pc[s] = "settled" => evStatus = "Finished"
        /\ pc[s] \in {"signed", "awaiting"} => audit[op[s]] = "pending"
        /\ pc[s] = "signed" => sub[op[s]] = "unsent"
        /\ pc[s] = "refused" => sub[op[s]] = "refused"

SettledInv ==
    /\ \A o \in Ops : sub[o] = "settled" => evStatus = "Finished"
    /\ sched = "finished" => evStatus = "Finished"

(* A submission that can still land is without a verdict and within its lifetime. *)
LifeInv ==
    \A o \in Ops :
        /\ audit[o] = "none" => sub[o] = "unsent"
        /\ sub[o] = "inflight" => audit[o] \in {"pending", "failed"} /\ ~aged[o]

BaseInv == TypeOK /\ LockInv /\ OwnInv /\ SettledInv /\ LifeInv

(* The schedule is set once, and before that there is nothing. *)
OnceInv ==
    /\ asked => sets = 0
    /\ sets = 0 => sched = "none" /\ InFlight = {} /\ \A o \in Ops : audit[o] = "none"
    /\ sched = "none" => sets = 0

(* While a run has not submitted, nothing is in flight; afterwards, only its own. *)
FlightInv ==
    /\ \A s \in Servers : pc[s] \in Unsigned => InFlight = {}
    /\ \A s \in Servers : pc[s] \in Signed => InFlight \subseteq {op[s]}
    /\ OneInFlight
    /\ NothingLandsLater

(* A run whose refusal is recorded is the last. *)
LastInv ==
    AuditRefused => /\ InFlight = {} /\ sched # "scheduled"
                    /\ \A s \in Servers : pc[s] \notin Unsigned \cup {"signed", "awaiting"}

SetOnceInv == OnceInv /\ FlightInv /\ LastInv

(* The steps by who takes them: the organiser and time, the ledger, a server *)
Organiser ==
    \/ ScheduleReads \/ CancelSchedule \/ (\E at \in {"early", "notice"} : Schedule(at))
    \/ OtherBegins \/ OtherRefused \/ (\E to \in EventStatus \ {"Active"} : OtherChanges(to))
    \/ Tick
Ledger == \E o \in Ops : LedgerFinishes(o) \/ LedgerRefuses(o) \/ Age(o)
Server(s) ==
    \/ Notice(s) \/ Claim(s) \/ Reconcile(s)
    \/ RunStep(s) \/ RunHearsUnrecorded(s) \/ RunFails(s)
    \/ SettleStep(s) \/ SettleFails(s) \/ Crash(s)

\* Every step is the organiser's, the ledger's or a server's.
LEMMA NextSplit == Next <=> Organiser \/ Ledger \/ \E s \in Servers : Server(s)
  BY DEF Next, Organiser, Ledger, Server

(* A call that has read the event to schedule it is one the bound lets schedule. *)
AskedInv == asked => sets < MaxSets

\* Every step keeps the row, the audit log and every server's run well typed.
LEMMA TypesKept == ASSUME TypeOK, AskedInv, [Next]_vars PROVE TypeOK'
<1> USE BoundsAssumption
<1>1. CASE Organiser
  <2>1. CASE ScheduleReads
    BY <2>1 DEF TypeOK, ScheduleReads, storeVars, runVars
  <2>2. CASE CancelSchedule
    BY <2>2 DEF TypeOK, CancelSchedule, storeVars, runVars, ScheduleStatus
  <2>3. CASE OtherRefused
    <3>1. closedBy' \in {"none", "run", "other"} /\ other' \in {"new", "released", "direct", "done"}
      BY <2>3 DEF TypeOK, OtherRefused
    <3> QED
      BY <2>3, <3>1 DEF TypeOK, OtherRefused, storeVars, runVars
  <2>4. ASSUME NEW at \in {"early", "notice"}, Schedule(at) PROVE TypeOK'
    <3>1. asked' = FALSE /\ sets' \in 0..MaxSets
      BY <2>4 DEF TypeOK, Schedule, AskedInv
    <3>2. sched' \in ScheduleStatus \cup {"none"} /\ clock' \in {"early", "notice", "due"}
            /\ noticed' \in BOOLEAN
      BY <2>4 DEF TypeOK, Schedule, storeVars, ScheduleStatus
    <3> QED
      BY <2>4, <3>1, <3>2 DEF TypeOK, Schedule, runVars
  <2>5. CASE OtherBegins \/ Tick
    BY <2>5 DEF TypeOK, OtherBegins, Tick, storeVars, runVars
  <2>6. ASSUME NEW to \in EventStatus \ {"Active"}, OtherChanges(to) PROVE TypeOK'
    BY <2>6 DEF TypeOK, OtherChanges, storeVars, runVars
  <2> QED
    BY <1>1, <2>1, <2>2, <2>3, <2>4, <2>5, <2>6 DEF Organiser
<1>2. CASE Ledger
  <2> PICK o \in Ops : LedgerFinishes(o) \/ LedgerRefuses(o) \/ Age(o)
    BY <1>2 DEF Ledger
  <2>1. CASE LedgerFinishes(o)
    BY <2>1 DEF TypeOK, LedgerFinishes, storeVars, runVars, EventStatus
  <2>2. CASE LedgerRefuses(o)
    BY <2>2 DEF TypeOK, LedgerRefuses, storeVars, runVars
  <2>3. CASE Age(o)
    BY <2>3 DEF TypeOK, Age, storeVars, runVars
  <2> QED
    BY <2>1, <2>2, <2>3
<1>3. ASSUME NEW s \in Servers, Server(s) PROVE TypeOK'
  <2>1. CASE Notice(s) \/ Claim(s) \/ Reconcile(s)
    BY <2>1 DEF TypeOK, Notice, Claim, Reconcile, storeVars, runVars, ScheduleStatus, RunPc,
       SettlePc
  <2>2. CASE RunReads(s) \/ RunReleases(s) \/ RunReopens(s)
    BY <2>2 DEF TypeOK, RunReads, RunReleases, RunReopens, storeVars, runVars, RunPc, SettlePc
  <2>3. CASE \E o \in Ops : RunSigns(s, o)
    BY <2>3 DEF TypeOK, RunSigns, storeVars, runVars, RunPc, SettlePc, Outcome
  <2>4. CASE RunSubmits(s)
    BY <2>4 DEF TypeOK, RunSubmits, storeVars, runVars, RunPc, SettlePc
  <2>5. CASE RunHears(s)
    BY <2>5 DEF TypeOK, RunHears, storeVars, runVars, RunPc, SettlePc, Outcome
  <2>6. CASE RunHearsUnrecorded(s)
    <3>1. faults' \in 0..MaxFaults
      BY <2>6 DEF RunHearsUnrecorded, Fault, TypeOK
    <3>2. pc' \in [Servers -> RunPc \cup SettlePc \cup {"idle"}]
      BY <2>6 DEF RunHearsUnrecorded, TypeOK, RunPc
    <3>3. UNCHANGED <<evStatus, sub, sched, clock, noticed, audit, aged, closedBy, lock, op,
            releases, asked, other, sets>>
      BY <2>6 DEF RunHearsUnrecorded, storeVars
    <3> QED
      BY <3>1, <3>2, <3>3 DEF TypeOK
  <2>7. CASE RunFinished(s) \/ RunRefused(s)
    BY <2>7 DEF TypeOK, RunFinished, RunRefused, Unlock, storeVars, runVars, RunPc, SettlePc,
       ScheduleStatus
  <2>8. CASE RunFails(s)
    <3>1. audit' \in [Ops -> Outcome \cup {"none"}]
      BY <2>8 DEF TypeOK, RunFails, Outcome
    <3>2. pc' \in [Servers -> RunPc \cup SettlePc \cup {"idle"}] /\ lock' \in Servers \cup {Nobody}
      BY <2>8 DEF TypeOK, RunFails, Unlock
    <3>3. faults' \in 0..MaxFaults
      BY <2>8 DEF TypeOK, RunFails, Fault
    <3>4. UNCHANGED <<evStatus, sub, sched, clock, noticed, aged, closedBy, op, releases, asked,
            other, sets>>
      BY <2>8 DEF RunFails, Unlock, storeVars
    <3> QED
      BY <3>1, <3>2, <3>3, <3>4 DEF TypeOK
  <2>9. CASE SettleStep(s)
    BY <2>9 DEF TypeOK, SettleStep, SettleReads, SettleReopens, SettleRefuses, SettleWaits,
       SettleResumes, Unlock, storeVars,
       runVars, RunPc, SettlePc, ScheduleStatus
  <2>10. CASE SettleFails(s) \/ Crash(s)
    BY <2>10 DEF TypeOK, SettleFails, Crash, Unlock, Fault, storeVars, runVars, RunPc, SettlePc
  <2> QED
    BY <1>3, <2>1, <2>2, <2>3, <2>4, <2>5, <2>6, <2>7, <2>8, <2>9, <2>10 DEF Server, RunStep
<1>4. CASE UNCHANGED vars
  BY <1>4 DEF vars, storeVars, runVars, TypeOK
<1> QED
  BY <1>1, <1>2, <1>3, <1>4, NextSplit

(***************************************************************************)
(* The invariants, step by step                                            *)
(***************************************************************************)
\* The bound on what the organiser schedules is kept.
LEMMA AskedKept ==
    ASSUME AskedInv, [Next]_vars
    PROVE  AskedInv'
<1> USE BoundsAssumption DEF AskedInv, storeVars, runVars
<1>1. CASE Organiser
  BY <1>1 DEF Organiser, ScheduleReads, CancelSchedule, Schedule, OtherBegins, OtherRefused,
     OtherChanges, Permitted, Tick
<1>2. CASE Ledger
  BY <1>2 DEF Ledger, LedgerFinishes, LedgerRefuses, Age, Permitted
<1>3. ASSUME NEW s \in Servers, Server(s) PROVE AskedInv'
  <2>1. CASE Notice(s) \/ Claim(s) \/ Reconcile(s)
    BY <2>1 DEF Notice, Claim, Due, Reconcile
  <2>2. CASE RunReads(s) \/ RunReleases(s) \/ RunReopens(s)
    BY <2>2 DEF RunReads, RunReleases, RunReopens
  <2>3. CASE \E o \in Ops : RunSigns(s, o)
    BY <2>3 DEF RunSigns
  <2>4. CASE RunSubmits(s)
    BY <2>4 DEF RunSubmits
  <2>5. CASE RunHears(s) \/ RunHearsUnrecorded(s)
    BY <2>5 DEF RunHears, RunHearsUnrecorded
  <2>6. CASE RunFinished(s) \/ RunRefused(s)
    BY <2>6 DEF RunFinished, RunRefused, Unlock
  <2>7. CASE SettleReads(s) \/ SettleReopens(s)
    BY <2>7 DEF SettleReads, SettleReopens, Unlock
  <2>8. CASE SettleRefuses(s) \/ SettleWaits(s) \/ SettleResumes(s)
    BY <2>8 DEF SettleRefuses, SettleWaits, SettleResumes, Unlock
  <2>9. CASE RunFails(s) \/ SettleFails(s) \/ Crash(s)
    BY <2>9 DEF RunFails, SettleFails, Crash, Unlock
  <2> QED BY <1>3, <2>1, <2>2, <2>3, <2>4, <2>5, <2>6, <2>7, <2>8, <2>9 DEF Server, RunStep,
     SettleStep
<1>4. CASE UNCHANGED vars
  BY <1>4 DEF vars
<1> QED
  BY <1>1, <1>2, <1>3, <1>4, NextSplit

\* A server works on the schedule only while it holds the lock and the schedule is running, and
\* never leaves it idle with the lock taken (runDue, reconcile).
LEMMA LockKept ==
    ASSUME TypeOK, LockInv, [Next]_vars
    PROVE  LockInv'
<1> USE BoundsAssumption DEF TypeOK, LockInv, RunPc, SettlePc, storeVars, runVars
<1>1. CASE Organiser
  BY <1>1 DEF Organiser, ScheduleReads, CancelSchedule, Schedule, OtherBegins, OtherRefused,
     OtherChanges, Permitted, Tick
<1>2. CASE Ledger
  BY <1>2 DEF Ledger, LedgerFinishes, LedgerRefuses, Age, Permitted
<1>3. ASSUME NEW s \in Servers, Server(s) PROVE LockInv'
  <2>1. CASE Notice(s) \/ Claim(s) \/ Reconcile(s)
    BY <2>1 DEF Notice, Claim, Due, Reconcile
  <2>2. CASE RunReads(s) \/ RunReleases(s) \/ RunReopens(s)
    BY <2>2 DEF RunReads, RunReleases, RunReopens
  <2>3. CASE \E o \in Ops : RunSigns(s, o)
    BY <2>3 DEF RunSigns
  <2>4. CASE RunSubmits(s)
    BY <2>4 DEF RunSubmits
  <2>5. CASE RunHears(s) \/ RunHearsUnrecorded(s)
    BY <2>5 DEF RunHears, RunHearsUnrecorded
  <2>6. CASE RunFinished(s) \/ RunRefused(s)
    BY <2>6 DEF RunFinished, RunRefused, Unlock
  <2>7. CASE SettleReads(s) \/ SettleReopens(s)
    BY <2>7 DEF SettleReads, SettleReopens, Unlock
  <2>8. CASE SettleRefuses(s) \/ SettleWaits(s) \/ SettleResumes(s)
    BY <2>8 DEF SettleRefuses, SettleWaits, SettleResumes, Unlock
  <2>9. CASE RunFails(s) \/ SettleFails(s) \/ Crash(s)
    BY <2>9 DEF RunFails, SettleFails, Crash, Unlock
  <2> QED BY <1>3, <2>1, <2>2, <2>3, <2>4, <2>5, <2>6, <2>7, <2>8, <2>9 DEF Server, RunStep,
     SettleStep
<1>4. CASE UNCHANGED vars
  BY <1>4 DEF vars
<1> QED
  BY <1>1, <1>2, <1>3, <1>4, NextSplit

\* A run is finished by a settled submission or by the ledger's word, and Finished is for good.
LEMMA SettledKept ==
    ASSUME TypeOK, OwnInv, SettledInv, [Next]_vars
    PROVE  SettledInv'
<1> USE BoundsAssumption DEF TypeOK, OwnInv, SettledInv, Signed, RunPc, SettlePc, EventStatus,
   storeVars, runVars
<1>1. CASE Organiser
  BY <1>1 DEF Organiser, ScheduleReads, CancelSchedule, Schedule, OtherBegins, OtherRefused,
     OtherChanges, Permitted, Tick
<1>2. CASE Ledger
  BY <1>2 DEF Ledger, LedgerFinishes, LedgerRefuses, Age, Permitted
<1>3. ASSUME NEW s \in Servers, Server(s) PROVE SettledInv'
  <2>1. CASE Notice(s) \/ Claim(s) \/ Reconcile(s)
    BY <2>1 DEF Notice, Claim, Due, Reconcile
  <2>2. CASE RunReads(s) \/ RunReleases(s) \/ RunReopens(s)
    BY <2>2 DEF RunReads, RunReleases, RunReopens
  <2>3. CASE \E o \in Ops : RunSigns(s, o)
    BY <2>3 DEF RunSigns
  <2>4. CASE RunSubmits(s)
    BY <2>4 DEF RunSubmits
  <2>5. CASE RunHears(s) \/ RunHearsUnrecorded(s)
    BY <2>5 DEF RunHears, RunHearsUnrecorded
  <2>6. CASE RunFinished(s) \/ RunRefused(s)
    BY <2>6 DEF RunFinished, RunRefused, Unlock
  <2>7. CASE SettleReads(s) \/ SettleReopens(s)
    BY <2>7 DEF SettleReads, SettleReopens, Unlock
  <2>8. CASE SettleRefuses(s) \/ SettleWaits(s) \/ SettleResumes(s)
    BY <2>8 DEF SettleRefuses, SettleWaits, SettleResumes, Unlock
  <2>9. CASE RunFails(s) \/ SettleFails(s) \/ Crash(s)
    BY <2>9 DEF RunFails, SettleFails, Crash, Unlock
  <2> QED BY <1>3, <2>1, <2>2, <2>3, <2>4, <2>5, <2>6, <2>7, <2>8, <2>9 DEF Server, RunStep,
     SettleStep
<1>4. CASE UNCHANGED vars
  BY <1>4 DEF vars
<1> QED
  BY <1>1, <1>2, <1>3, <1>4, NextSplit

\* The lock keeps every other server off the run's own submission and its audit row.
LEMMA OwnKept ==
    ASSUME TypeOK, LockInv, OwnInv, SettledInv, LifeInv, [Next]_vars
    PROVE  OwnInv'
<1> USE BoundsAssumption DEF TypeOK, LockInv, OwnInv, SettledInv, LifeInv, Signed, storeVars,
   runVars
<1>1. CASE Organiser
  BY <1>1 DEF Organiser, ScheduleReads, CancelSchedule, Schedule, OtherBegins, OtherRefused,
     OtherChanges, Permitted, Tick
<1>2. CASE Ledger
  BY <1>2 DEF Ledger, LedgerFinishes, LedgerRefuses, Age, Permitted
<1>3. ASSUME NEW s \in Servers, Server(s) PROVE OwnInv'
  <2>1. CASE Notice(s) \/ Claim(s) \/ Reconcile(s)
    BY <2>1 DEF Notice, Claim, Due, Reconcile
  <2>2. CASE RunReads(s) \/ RunReleases(s) \/ RunReopens(s)
    BY <2>2 DEF RunReads, RunReleases, RunReopens
  <2>3. CASE \E o \in Ops : RunSigns(s, o)
    BY <2>3 DEF RunSigns
  <2>4. CASE RunSubmits(s)
    BY <2>4 DEF RunSubmits
  <2>5. CASE RunHears(s) \/ RunHearsUnrecorded(s)
    BY <2>5 DEF RunHears, RunHearsUnrecorded
  <2>6. CASE RunFinished(s) \/ RunRefused(s)
    BY <2>6 DEF RunFinished, RunRefused, Unlock
  <2>7. CASE SettleReads(s) \/ SettleReopens(s)
    BY <2>7 DEF SettleReads, SettleReopens, Unlock
  <2>8. CASE SettleRefuses(s) \/ SettleWaits(s) \/ SettleResumes(s)
    BY <2>8 DEF SettleRefuses, SettleWaits, SettleResumes, Unlock
  <2>9. CASE RunFails(s) \/ SettleFails(s) \/ Crash(s)
    BY <2>9 DEF RunFails, SettleFails, Crash, Unlock
  <2> QED BY <1>3, <2>1, <2>2, <2>3, <2>4, <2>5, <2>6, <2>7, <2>8, <2>9 DEF Server, RunStep,
     SettleStep
<1>4. CASE UNCHANGED vars
  BY <1>4 DEF vars
<1> QED
  BY <1>1, <1>2, <1>3, <1>4, NextSplit

\* The audit row precedes the signature, and the lifetime outlasts the submission.
LEMMA LifeKept ==
    ASSUME TypeOK, LockInv, OwnInv, LifeInv, [Next]_vars
    PROVE  LifeInv'
<1> USE BoundsAssumption DEF TypeOK, LockInv, OwnInv, LifeInv, Signed, Outcome, storeVars,
   runVars
<1>1. CASE Organiser
  BY <1>1 DEF Organiser, ScheduleReads, CancelSchedule, Schedule, OtherBegins, OtherRefused,
     OtherChanges, Permitted, Tick
<1>2. CASE Ledger
  BY <1>2 DEF Ledger, LedgerFinishes, LedgerRefuses, Age, Permitted
<1>3. ASSUME NEW s \in Servers, Server(s) PROVE LifeInv'
  <2>1. CASE Notice(s) \/ Claim(s) \/ Reconcile(s)
    BY <2>1 DEF Notice, Claim, Due, Reconcile
  <2>2. CASE RunReads(s) \/ RunReleases(s) \/ RunReopens(s)
    BY <2>2 DEF RunReads, RunReleases, RunReopens
  <2>3. CASE \E o \in Ops : RunSigns(s, o)
    BY <2>3 DEF RunSigns
  <2>4. CASE RunSubmits(s)
    BY <2>4 DEF RunSubmits
  <2>5. CASE RunHears(s) \/ RunHearsUnrecorded(s)
    BY <2>5 DEF RunHears, RunHearsUnrecorded
  <2>6. CASE RunFinished(s) \/ RunRefused(s)
    BY <2>6 DEF RunFinished, RunRefused, Unlock
  <2>7. CASE SettleReads(s) \/ SettleReopens(s)
    BY <2>7 DEF SettleReads, SettleReopens, Unlock
  <2>8. CASE SettleRefuses(s) \/ SettleWaits(s) \/ SettleResumes(s)
    BY <2>8 DEF SettleRefuses, SettleWaits, SettleResumes, Unlock
  <2>9. CASE RunFails(s) \/ SettleFails(s) \/ Crash(s)
    BY <2>9 DEF RunFails, SettleFails, Crash, Unlock
  <2> QED BY <1>3, <2>1, <2>2, <2>3, <2>4, <2>5, <2>6, <2>7, <2>8, <2>9 DEF Server, RunStep,
     SettleStep
<1>4. CASE UNCHANGED vars
  BY <1>4 DEF vars
<1> QED
  BY <1>1, <1>2, <1>3, <1>4, NextSplit

\* Set once, the schedule is set before anything is signed under it.
LEMMA OnceKept ==
    ASSUME MaxSets <= 1, TypeOK, LockInv, OnceInv, [Next]_vars
    PROVE  OnceInv'
<1> USE BoundsAssumption DEF TypeOK, LockInv, OnceInv, InFlight, RunPc, SettlePc, storeVars,
   runVars
<1>1. CASE Organiser
  BY <1>1 DEF Organiser, ScheduleReads, CancelSchedule, Schedule, OtherBegins, OtherRefused,
     OtherChanges, Permitted, Tick
<1>2. CASE Ledger
  BY <1>2 DEF Ledger, LedgerFinishes, LedgerRefuses, Age, Permitted
<1>3. ASSUME NEW s \in Servers, Server(s) PROVE OnceInv'
  <2>1. CASE Notice(s) \/ Claim(s) \/ Reconcile(s)
    BY <2>1 DEF Notice, Claim, Due, Reconcile
  <2>2. CASE RunReads(s) \/ RunReleases(s) \/ RunReopens(s)
    BY <2>2 DEF RunReads, RunReleases, RunReopens
  <2>3. CASE \E o \in Ops : RunSigns(s, o)
    BY <2>3 DEF RunSigns
  <2>4. CASE RunSubmits(s)
    BY <2>4 DEF RunSubmits
  <2>5. CASE RunHears(s) \/ RunHearsUnrecorded(s)
    BY <2>5 DEF RunHears, RunHearsUnrecorded
  <2>6. CASE RunFinished(s) \/ RunRefused(s)
    BY <2>6 DEF RunFinished, RunRefused, Unlock
  <2>7. CASE SettleReads(s) \/ SettleReopens(s)
    BY <2>7 DEF SettleReads, SettleReopens, Unlock
  <2>8. CASE SettleRefuses(s) \/ SettleWaits(s) \/ SettleResumes(s)
    BY <2>8 DEF SettleRefuses, SettleWaits, SettleResumes, Unlock
  <2>9. CASE RunFails(s) \/ SettleFails(s) \/ Crash(s)
    BY <2>9 DEF RunFails, SettleFails, Crash, Unlock
  <2> QED BY <1>3, <2>1, <2>2, <2>3, <2>4, <2>5, <2>6, <2>7, <2>8, <2>9 DEF Server, RunStep,
     SettleStep
<1>4. CASE UNCHANGED vars
  BY <1>4 DEF vars
<1> QED
  BY <1>1, <1>2, <1>3, <1>4, NextSplit

\* A schedule waits to run again only when nothing of it may land (settle, cases 2 and 4), so a
\* run that has not submitted is the only one that can.
LEMMA FlightKept ==
    ASSUME MaxSets <= 1, TypeOK, LockInv, OwnInv, LifeInv,
           OnceInv, FlightInv, LastInv, [Next]_vars
    PROVE  FlightInv'
<1> USE BoundsAssumption DEF TypeOK, LockInv, LifeInv, Signed, Unsigned, InFlight, OwnInv,
   OnceInv, FlightInv, LastInv, OneInFlight, NothingLandsLater, AuditRefused, MayLand,
   storeVars, runVars
<1>1. CASE Organiser
  BY <1>1 DEF Organiser, ScheduleReads, CancelSchedule, Schedule, OtherBegins, OtherRefused,
     OtherChanges, Permitted, Tick
<1>2. CASE Ledger
  BY <1>2 DEF Ledger, LedgerFinishes, LedgerRefuses, Age, Permitted
<1>3. ASSUME NEW s \in Servers, Server(s) PROVE FlightInv'
  <2>1. CASE Notice(s) \/ Claim(s) \/ Reconcile(s)
    BY <2>1 DEF Notice, Claim, Due, Reconcile
  <2>2. CASE RunReads(s) \/ RunReleases(s) \/ RunReopens(s)
    BY <2>2 DEF RunReads, RunReleases, RunReopens
  <2>3. CASE \E o \in Ops : RunSigns(s, o)
    BY <2>3 DEF RunSigns
  <2>4. CASE RunSubmits(s)
    BY <2>4 DEF RunSubmits
  <2>5. CASE RunHears(s) \/ RunHearsUnrecorded(s)
    BY <2>5 DEF RunHears, RunHearsUnrecorded
  <2>6. CASE RunFinished(s) \/ RunRefused(s)
    BY <2>6 DEF RunFinished, RunRefused, Unlock
  <2>7. CASE SettleReads(s) \/ SettleReopens(s)
    BY <2>7 DEF SettleReads, SettleReopens, Unlock
  <2>8. CASE SettleRefuses(s) \/ SettleWaits(s) \/ SettleResumes(s)
    BY <2>8 DEF SettleRefuses, SettleWaits, SettleResumes, Unlock
  <2>9. CASE RunFails(s) \/ SettleFails(s) \/ Crash(s)
    BY <2>9 DEF RunFails, SettleFails, Crash, Unlock
  <2> QED BY <1>3, <2>1, <2>2, <2>3, <2>4, <2>5, <2>6, <2>7, <2>8, <2>9 DEF Server, RunStep,
     SettleStep
<1>4. CASE UNCHANGED vars
  BY <1>4 DEF vars
<1> QED
  BY <1>1, <1>2, <1>3, <1>4, NextSplit

\* A recorded refusal ends the schedule: it is never resumed, and no later run signs.
LEMMA LastKept ==
    ASSUME MaxSets <= 1, TypeOK, LockInv, OwnInv, LifeInv,
           OnceInv, FlightInv, LastInv, [Next]_vars
    PROVE  LastInv'
<1> USE BoundsAssumption DEF TypeOK, LockInv, LifeInv, Signed, Unsigned, InFlight, OwnInv,
   OnceInv, FlightInv, LastInv, AuditRefused, NothingLandsLater, storeVars, runVars
<1>1. CASE Organiser
  BY <1>1 DEF Organiser, ScheduleReads, CancelSchedule, Schedule, OtherBegins, OtherRefused,
     OtherChanges, Permitted, Tick
<1>2. CASE Ledger
  BY <1>2 DEF Ledger, LedgerFinishes, LedgerRefuses, Age, Permitted
<1>3. ASSUME NEW s \in Servers, Server(s) PROVE LastInv'
  <2>1. CASE Notice(s) \/ Claim(s) \/ Reconcile(s)
    BY <2>1 DEF Notice, Claim, Due, Reconcile
  <2>2. CASE RunReads(s) \/ RunReleases(s) \/ RunReopens(s)
    BY <2>2 DEF RunReads, RunReleases, RunReopens
  <2>3. CASE \E o \in Ops : RunSigns(s, o)
    BY <2>3 DEF RunSigns
  <2>4. CASE RunSubmits(s)
    BY <2>4 DEF RunSubmits
  <2>5. CASE RunHears(s) \/ RunHearsUnrecorded(s)
    BY <2>5 DEF RunHears, RunHearsUnrecorded
  <2>6. CASE RunFinished(s) \/ RunRefused(s)
    BY <2>6 DEF RunFinished, RunRefused, Unlock
  <2>7. CASE SettleReads(s) \/ SettleReopens(s)
    BY <2>7 DEF SettleReads, SettleReopens, Unlock
  <2>8. CASE SettleRefuses(s) \/ SettleWaits(s) \/ SettleResumes(s)
    BY <2>8 DEF SettleRefuses, SettleWaits, SettleResumes, Unlock
  <2>9. CASE RunFails(s) \/ SettleFails(s) \/ Crash(s)
    BY <2>9 DEF RunFails, SettleFails, Crash, Unlock
  <2> QED BY <1>3, <2>1, <2>2, <2>3, <2>4, <2>5, <2>6, <2>7, <2>8, <2>9 DEF Server, RunStep,
     SettleStep
<1>4. CASE UNCHANGED vars
  BY <1>4 DEF vars
<1> QED
  BY <1>1, <1>2, <1>3, <1>4, NextSplit

\* Sales reopen with the run's own submission refused (run), or with a refusal recorded (settle).
LEMMA ReopensKept ==
    ASSUME MaxSets <= 1, TypeOK, LockInv, OwnInv, LifeInv,
           FlightInv, LastInv, [Next]_vars
    PROVE  closedBy = "run" /\ closedBy' = "none" /\ other' = other => InFlight = {}
<1> USE BoundsAssumption DEF TypeOK, LockInv, LifeInv, Signed, Unsigned, InFlight, OwnInv,
   FlightInv, LastInv, AuditRefused, storeVars, runVars
<1>1. CASE Organiser
  BY <1>1 DEF Organiser, ScheduleReads, CancelSchedule, Schedule, OtherBegins, OtherRefused,
     OtherChanges, Permitted, Tick
<1>2. CASE Ledger
  BY <1>2 DEF Ledger, LedgerFinishes, LedgerRefuses, Age, Permitted
<1>3. ASSUME NEW s \in Servers, Server(s) PROVE closedBy = "run" /\ closedBy' = "none"
               /\ other' = other => InFlight = {}
  <2>1. CASE Notice(s) \/ Claim(s) \/ Reconcile(s)
    BY <2>1 DEF Notice, Claim, Due, Reconcile
  <2>2. CASE RunReads(s) \/ RunReleases(s) \/ RunReopens(s)
    BY <2>2 DEF RunReads, RunReleases, RunReopens
  <2>3. CASE \E o \in Ops : RunSigns(s, o)
    BY <2>3 DEF RunSigns
  <2>4. CASE RunSubmits(s)
    BY <2>4 DEF RunSubmits
  <2>5. CASE RunHears(s) \/ RunHearsUnrecorded(s)
    BY <2>5 DEF RunHears, RunHearsUnrecorded
  <2>6. CASE RunFinished(s) \/ RunRefused(s)
    BY <2>6 DEF RunFinished, RunRefused, Unlock
  <2>7. CASE SettleReads(s) \/ SettleReopens(s)
    BY <2>7 DEF SettleReads, SettleReopens, Unlock
  <2>8. CASE SettleRefuses(s) \/ SettleWaits(s) \/ SettleResumes(s)
    BY <2>8 DEF SettleRefuses, SettleWaits, SettleResumes, Unlock
  <2>9. CASE RunFails(s) \/ SettleFails(s) \/ Crash(s)
    BY <2>9 DEF RunFails, SettleFails, Crash, Unlock
  <2> QED BY <1>3, <2>1, <2>2, <2>3, <2>4, <2>5, <2>6, <2>7, <2>8, <2>9 DEF Server, RunStep,
     SettleStep
<1>4. CASE UNCHANGED vars
  BY <1>4 DEF vars
<1> QED
  BY <1>1, <1>2, <1>3, <1>4, NextSplit

(* The invariant of a schedule that is set however often *)
IInv == BaseInv /\ AskedInv

\* Before anything is scheduled, nothing is claimed, signed or in flight.
LEMMA IInvInit == Init => IInv
<1> SUFFICES ASSUME Init PROVE IInv
  OBVIOUS
<1>1. TypeOK
  <2>1. sets \in 0..MaxSets /\ faults \in 0..MaxFaults
    BY BoundsAssumption DEF Init
  <2>2. /\ sub \in [Ops -> {"unsent", "inflight", "settled", "refused"}]
        /\ audit \in [Ops -> Outcome \cup {"none"}] /\ aged \in [Ops -> BOOLEAN]
    BY DEF Init
  <2>3. /\ pc \in [Servers -> RunPc \cup SettlePc \cup {"idle"}]
        /\ op \in [Servers -> Ops \cup {0}] /\ releases \in [Servers -> BOOLEAN]
    BY DEF Init
  <2> QED
    BY <2>1, <2>2, <2>3 DEF Init, TypeOK, EventStatus
<1>2. AskedInv /\ LockInv /\ OwnInv /\ SettledInv /\ LifeInv
  BY BoundsAssumption DEF Init, AskedInv, LockInv, OwnInv, SettledInv, LifeInv, Signed
<1> QED
  BY <1>1, <1>2 DEF IInv, BaseInv

\* Every step keeps the invariant, however often the schedule is set.
LEMMA IInvKept == IInv /\ [Next]_vars => IInv'
  BY TypesKept, AskedKept, LockKept, OwnKept, SettledKept, LifeKept DEF IInv, BaseInv

\* It holds in every state of every behaviour.
LEMMA IInvAlways == Spec => []IInv
  BY IInvInit, IInvKept, PTL DEF Spec

\* The schedule's row, the audit rows and every server's progress keep a value the schema and the
\* types of finish-schedule.ts allow, whatever stops, fails or loses its verdict.
THEOREM TypeCorrect == Spec => []TypeOK
<1>1. IInv => TypeOK
  BY DEF IInv, BaseInv
<1> QED
  BY <1>1, IInvAlways, PTL

\* A schedule shown as finished is of an event the ledger has Finished, for any number of servers,
\* faults and calls of the organiser's (run, settle case 1), however often it is set.
THEOREM FinishedIsFinishedAlways == Spec => []FinishedIsFinished
<1>1. IInv => FinishedIsFinished
  BY DEF IInv, BaseInv, SettledInv, FinishedIsFinished
<1> QED
  BY <1>1, IInvAlways, PTL

\* Before the schedule is set there is nothing to be twice.
LEMMA SetOnceInit == ASSUME MaxSets <= 1, Init PROVE SetOnceInv
<1>1. InFlight = {}
  BY DEF Init, InFlight
<1> QED
  BY <1>1 DEF Init, SetOnceInv, OnceInv, FlightInv, LastInv, OneInFlight, NothingLandsLater,
     AuditRefused, Signed, Unsigned

\* A schedule set once keeps both invariants.
LEMMA SetOnceAlways == ASSUME MaxSets <= 1 PROVE Spec => [](IInv /\ SetOnceInv)
<1>1. Init => IInv /\ SetOnceInv
  BY IInvInit, SetOnceInit
<1>2. IInv /\ SetOnceInv /\ [Next]_vars => (IInv /\ SetOnceInv)'
  BY IInvKept, OnceKept, FlightKept, LastKept DEF IInv, BaseInv, SetOnceInv
<1> QED
  BY <1>1, <1>2, PTL DEF Spec

\* Of a schedule set once, nothing is submitted while an earlier submission can still land,
\* through any number of crashes, lost verdicts and servers (settle, case 3).  A schedule set
\* again keeps its request id, so an old refusal decides about a new run, and all three theorems
\* about a schedule set once end there (schedule, ON CONFLICT).
THEOREM OneInFlightAlways == ASSUME MaxSets <= 1 PROVE Spec => []OneInFlight
<1>1. IInv /\ SetOnceInv => OneInFlight
  BY DEF SetOnceInv, FlightInv
<1> QED
  BY <1>1, SetOnceAlways, PTL

\* Once a schedule that was set once is refused, cancelled or waiting to run again, nothing of an
\* earlier run can land any more (settle, cases 2 and 4).
THEOREM NothingLandsLaterAlways == ASSUME MaxSets <= 1 PROVE Spec => []NothingLandsLater
<1>1. IInv /\ SetOnceInv => NothingLandsLater
  BY DEF SetOnceInv, FlightInv
<1> QED
  BY <1>1, SetOnceAlways, PTL

\* A schedule that was set once reopens sales only when its own submission can no longer land
\* (reopenSales in submit, and in settle case 2).
THEOREM ReopensWhenOverAlways == ASSUME MaxSets <= 1 PROVE Spec => ReopensWhenOver
<1>1. IInv /\ SetOnceInv /\ [Next]_vars
         => [closedBy = "run" /\ closedBy' = "none" /\ other' = other => InFlight = {}]_vars
  BY ReopensKept DEF IInv, BaseInv, SetOnceInv
<1> QED
  BY <1>1, SetOnceAlways, PTL DEF Spec, ReopensWhenOver
=============================================================================
