---------------------------- MODULE DerivedCopy -----------------------------
(***************************************************************************)
(* Kippu's copy of ledger facts (src/src/derived): every server runs a     *)
(* reader that pulls the log from the copy's cursor, a batch at a time.    *)
(* What a batch changes and the new cursor are one transaction, under the  *)
(* lock of the cursor's row.                                               *)
(***************************************************************************)
EXTENDS LedgerLog

CONSTANTS
    Servers,    \* the servers that run a reader
    BatchSize,  \* records pulled per batch
    MaxFaults   \* bound on failures: of a batch, of a request, of an answer

ASSUME CopyAssumption == BatchSize \in Nat \ {0} /\ MaxFaults \in Nat

VARIABLES
    copy,       \* the committed copy: its facts, and how many records it reflects
    reader,     \* every server's reader: progress, the end of its page, its transaction's copy
    faults

EmptyCopy == [facts |-> NoFacts, records |-> 0]
Resting == [pc |-> "idle", until |-> 0, tx |-> EmptyCopy]

CopyInit ==
    /\ copy = [facts |-> FactsAt(world.read), records |-> world.read]
    /\ reader = [s \in Servers |-> Resting]
    /\ faults = 0

(* applyRegistration: a credential already there keeps its row *)
ProjectRegistration(f, e) == [f EXCEPT !.credentials = @ \cup {e.by}]

(* applyCommand: what each command changes, from its signed input *)
ProjectCommand(f, e, n, t) ==
    CASE e.kind = "registerCredential" -> ProjectRegistration(f, e)
      [] e.kind = "createEvent" -> [f EXCEPT !.owner = e.by, !.status = "Active", !.capacity = e.arg, !.issued = 0]
      [] e.kind = "setEventStatus" -> [f EXCEPT !.status = e.arg]
      [] e.kind = "setEventCapacity" -> [f EXCEPT !.capacity = e.arg]
      [] e.kind = "addZone" -> [f EXCEPT !.zones = @ \cup {e.arg}]
      [] e.kind = "removeZone" -> [f EXCEPT !.zones = {z \in @ : z # e.arg}]
      [] e.kind = "issueTicket" ->
            [f EXCEPT !.holder = "ann", !.restrictions = Issued(e.arg), !.attendances = 0, !.issued = @ + 1]
      [] e.kind = "transferTicket" ->
            [f EXCEPT !.holder = e.arg, !.transfers = @ \cup {[from |-> f.holder, at |-> t, sequence |-> n]}]
      [] e.kind = "removeRestriction" -> [f EXCEPT !.restrictions = @ \ {e.arg}]

(* applyAttendance: one more attendance, and the pass consumed *)
ProjectAttendance(f, e, n) ==
    [f EXCEPT !.attendances = @ + 1, !.passes = @ \cup {[pass |-> e.arg, sequence |-> n]}]

(* ledgerFactsProjection: one record, a command or a pass *)
Project(f, e, n, t) == IF e.kind = "accessPass" THEN ProjectAttendance(f, e, n) ELSE ProjectCommand(f, e, n, t)

(* exactlyOne: the row a record changes is there, or the one it inserts is not.  Otherwise the *)
(* record stops the reader.                                                                    *)
Projectable(f, e) ==
    CASE e.kind = "registerCredential" -> TRUE
      [] e.kind = "createEvent" -> f.owner = None
      [] e.kind = "issueTicket" -> f.owner # None /\ f.holder = None
      [] e.kind \in {"transferTicket", "removeRestriction"} -> f.holder # None
      [] e.kind = "accessPass" -> f.holder # None /\ e.arg \notin {p.pass : p \in f.passes}
      [] OTHER -> f.owner # None

At(s, pc) == reader[s].pc = pc
Set(s, r) == reader' = [reader EXCEPT ![s] = r]

(* step: BEGIN and the cursor's row FOR UPDATE, one transaction at a time *)
LockPosition(s) ==
    /\ At(s, "idle") /\ \A o \in Servers : At(o, "idle")
    /\ Set(s, [pc |-> "locked", until |-> copy.records, tx |-> copy])
    /\ UNCHANGED <<copy, faults>>

(* log.read: the page after the cursor; an empty one ends the transaction *)
PageEnd(from) == IF from + BatchSize < Len(log) THEN from + BatchSize ELSE Len(log)

ReadPage(s) ==
    /\ At(s, "locked")
    /\ IF PageEnd(copy.records) = copy.records
       THEN Set(s, Resting)
       ELSE Set(s, [reader[s] EXCEPT !.pc = "applying", !.until = PageEnd(copy.records)])
    /\ UNCHANGED <<copy, faults>>

(* The next record of the page, to derived_log and through the projections *)
Apply(s) ==
    LET tx == reader[s].tx
        n == tx.records + 1
    IN  /\ At(s, "applying") /\ tx.records < reader[s].until
        /\ IF Projectable(tx.facts, log[n].entry)
           THEN Set(s, [reader[s] EXCEPT !.tx = [facts |-> Project(tx.facts, log[n].entry, n, log[n].at),
                                                 records |-> n]])
           ELSE Set(s, Resting)
        /\ UNCHANGED <<copy, faults>>

CommitMutant(s) ==
    /\ At(s, "applying") /\ reader[s].tx.records = reader[s].until
    /\ copy' = [reader[s].tx EXCEPT !.records = Len(log)]
    /\ Set(s, Resting)
    /\ UNCHANGED faults

(* The cursor of the page's last record, the notification and COMMIT *)
Commit(s) ==
    /\ At(s, "applying") /\ reader[s].tx.records = reader[s].until
    /\ copy' = reader[s].tx
    /\ Set(s, Resting)
    /\ UNCHANGED faults

ReaderStep(s) == LockPosition(s) \/ ReadPage(s) \/ Apply(s) \/ Commit(s)

RollbackMutant(s) ==
    /\ ~At(s, "idle") /\ faults < MaxFaults
    /\ Set(s, [reader[s] EXCEPT !.pc = "broken"])
    /\ faults' = faults + 1
    /\ UNCHANGED copy

(* The ledger, a projection or the connection fails, or the server stops: nothing of the batch *)
(* is kept, and the reader, or the next one, starts again.                                     *)
Rollback(s) ==
    /\ ~At(s, "idle") /\ faults < MaxFaults
    /\ Set(s, Resting)
    /\ faults' = faults + 1
    /\ UNCHANGED copy

(* Reads of the copy, each one statement: what it answers for the facts f it sees *)
CredentialRow(f, account) == account \in f.credentials
EventRow(f) == [owner |-> f.owner, status |-> f.status]
TicketRow(f) == [holder |-> f.holder, restrictions |-> f.restrictions]
ConsumedPass(f, pass) == {p \in f.passes : p.pass = pass}
TransfersSince(f, t) == {x \in f.transfers : x.at >= t}
CopyHead == [records |-> copy.records, at |-> RecordedAt(copy.records)]

(* waitFor's check: the record at the cursor has been applied *)
Reached(cursor) == copy.records >= cursor
=============================================================================
