----------------------------- MODULE LedgerLog ------------------------------
(***************************************************************************)
(* The ledger as its readers meet it (external): a log of accepted inputs  *)
(* in one total order, each with the ledger's time, and the facts the      *)
(* inputs so far amount to.  One event with one ticket; an input says who  *)
(* signed it and what it is about.                                         *)
(***************************************************************************)
EXTENDS Naturals, Sequences, FiniteSets

CONSTANTS
    Worlds,     \* [start, read, inputs, asks, gates, time]: the log at first, how much of it has
                \* been read, what is submitted afterwards, and the bound on the clock
    MaxLog,     \* bound on the records after those a world starts with
    Args,       \* what an input may be about: an account, a status, a restriction, a pass, ...
    PassLife,   \* the last time the pass can be recorded: its window, from time 0, and the lag
    None        \* SQL's NULL

(* An input: what it does, who signed it, what it is about *)
Kinds == {"registerCredential", "createEvent", "setEventStatus", "setEventCapacity", "addZone", "removeZone",
          "issueTicket", "transferTicket", "removeRestriction", "accessPass"}
Accounts == {"org", "ann", "ben"}
Input == [kind : Kinds, by : Accounts, arg : Args]

ASSUME LogAssumption == MaxLog \in Nat /\ PassLife \in Nat /\ None \notin Nat \cup Accounts /\ "pass" \in Args

VARIABLES
    world,      \* the world of this behaviour; never changes
    log,        \* the records: the input, when it was recorded, the facts after it
    clock       \* the ledger's clock

Restrictions == {"cannotResale", "cannotTransfer"}

(* The restrictions a ticket is issued with: one that cannot be transferred cannot be resold. *)
Issued(arg) ==
    CASE arg = "bound" -> Restrictions [] arg = "unsellable" -> {"cannotResale"} [] OTHER -> {}

NoFacts ==
    [owner |-> None, status |-> None, capacity |-> None, issued |-> 0, zones |-> {}, holder |-> None,
     restrictions |-> {}, attendances |-> 0, credentials |-> {}, passes |-> {}, transfers |-> {}]

Facts ==
    [owner : Accounts \cup {None}, status : Args \cup {"Active", None}, capacity : Args \cup {None}, issued : Nat,
     zones : SUBSET Args, holder : Args \cup {"ann", None}, restrictions : SUBSET Restrictions, attendances : Nat,
     credentials : SUBSET Accounts, passes : SUBSET [pass : Args, sequence : Nat],
     transfers : SUBSET [from : Accounts, at : Nat, sequence : Nat]]
Record == [entry : Input, at : Nat, facts : Facts]

(* The facts after the first n records *)
FactsIn(l, n) == IF n = 0 THEN NoFacts ELSE l[n].facts
FactsAt(n) == FactsIn(log, n)
RecordedAt(n) == IF n = 0 THEN None ELSE log[n].at
Now == FactsAt(Len(log))

(* Removing cannotResale from a ticket that cannot be transferred removes both. *)
Removed(restrictions, named) ==
    IF named = "cannotResale" THEN {} ELSE restrictions \ {named}

(* What an accepted input does, recorded as the n-th at time t *)
Effect(f, e, n, t) ==
    CASE e.kind = "registerCredential" -> [f EXCEPT !.credentials = @ \cup {e.by}]
      [] e.kind = "createEvent" -> [f EXCEPT !.owner = e.by, !.status = "Active", !.capacity = e.arg]
      [] e.kind = "setEventStatus" -> [f EXCEPT !.status = e.arg]
      [] e.kind = "setEventCapacity" -> [f EXCEPT !.capacity = e.arg]
      [] e.kind = "addZone" -> [f EXCEPT !.zones = @ \cup {e.arg}]
      [] e.kind = "removeZone" -> [f EXCEPT !.zones = @ \ {e.arg}]
      [] e.kind = "issueTicket" ->
            [f EXCEPT !.holder = "ann", !.restrictions = Issued(e.arg), !.issued = @ + 1]
      [] e.kind = "transferTicket" ->
            [f EXCEPT !.holder = e.arg, !.transfers = @ \cup {[from |-> e.by, at |-> t, sequence |-> n]}]
      [] e.kind = "removeRestriction" -> [f EXCEPT !.restrictions = Removed(@, e.arg)]
      [] e.kind = "accessPass" ->
            [f EXCEPT !.attendances = @ + 1, !.passes = @ \cup {[pass |-> e.arg, sequence |-> n]}]

OwnerCommands ==
    {"setEventStatus", "setEventCapacity", "addZone", "removeZone", "issueTicket", "removeRestriction"}

(* The ledger's rules, as far as Kippu relies on them *)
Accepts(f, e) ==
    /\ e.by \in f.credentials \/ e.kind = "registerCredential"
    /\ CASE e.kind = "registerCredential" -> TRUE
         [] e.kind = "createEvent" -> f.owner = None
         [] e.kind = "setEventStatus" -> f.owner = e.by /\ f.status = "Active"
         [] e.kind = "setEventCapacity" -> f.owner = e.by /\ f.status = "Active"
         [] e.kind = "addZone" -> f.owner = e.by /\ e.arg \notin f.zones
         [] e.kind = "removeZone" -> f.owner = e.by /\ e.arg \in f.zones
         [] e.kind = "issueTicket" -> f.owner = e.by /\ f.status = "Active" /\ f.holder = None
         [] e.kind = "transferTicket" -> f.holder = e.by /\ "cannotTransfer" \notin f.restrictions
         [] e.kind = "removeRestriction" -> f.owner = e.by /\ e.arg \in f.restrictions
         [] e.kind = "accessPass" -> f.holder = e.by /\ f.status \notin {"Cancelled", "Finished"}
                                     /\ e.arg \notin {p.pass : p \in f.passes}

(* The record e would be, after a log whose facts are f and whose length is n *)
RecordOf(f, e, n, t) == [entry |-> e, at |-> t, facts |-> Effect(f, e, n + 1, t)]

(* A log: every record is of an input the ledger accepted after the records before it. *)
IsLog(l) ==
    \A n \in 1 .. Len(l) :
        /\ Accepts(FactsIn(l, n - 1), l[n].entry)
        /\ l[n] = RecordOf(FactsIn(l, n - 1), l[n].entry, n - 1, l[n].at)

ASSUME WorldsAssumption ==
    \A w \in Worlds :
        /\ w.start \in Seq(Record) /\ IsLog(w.start) /\ \A n \in 1 .. Len(w.start) : w.start[n].at = 0
        /\ w.read \in 0 .. Len(w.start) /\ w.inputs \subseteq Input /\ w.asks \subseteq Input /\ w.time \in Nat

LedgerInit == world \in Worlds /\ log = world.start /\ clock = 0

(* An accepted input is appended; everything else is refused and leaves no trace. *)
Room == Len(log) < Len(world.start) + MaxLog
AppendRecord(e) == log' = Append(log, RecordOf(Now, e, Len(log), clock))

(* A pass is recorded within its window and the lag, and refused as ERR-PassExpired after.     *)
InTime(e) == e.kind = "accessPass" => clock <= PassLife

(* Someone else's write, whose submission is not followed here *)
OtherWrite(e) ==
    /\ e \in world.inputs /\ Room /\ Accepts(Now, e) /\ InTime(e)
    /\ AppendRecord(e)
    /\ UNCHANGED <<world, clock>>

Tick == clock < world.time /\ clock' = clock + 1 /\ UNCHANGED <<world, log>>
=============================================================================
