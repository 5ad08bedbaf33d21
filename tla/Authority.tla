------------------------------ MODULE Authority -----------------------------
(***************************************************************************)
(* Ledger writes signed for one organiser (src/src/authority/authority.ts, *)
(* src/src/audit): the organiser's ledger account is provisioned by the    *)
(* first requests that need it, every write has an audit row before it is  *)
(* signed, and the row is completed before the verdict is passed on.       *)
(* Requests share PostgreSQL's locks and a pool of connections: a request  *)
(* that waits for a lock inside a transaction keeps its connection.        *)
(***************************************************************************)
EXTENDS Naturals, FiniteSets

CONSTANTS
    MaxCalls,   \* bound on the requests
    MaxFaults,  \* bound on lost verdicts, failed statements and requests that stop midway
    PoolSize,   \* connections of the store's pool (pg.Pool's max)
    Mixes,      \* the kinds of requests that meet: for each request in turn, the kinds it may be
    None        \* SQL's NULL

ASSUME BoundsAssumption ==
    MaxCalls \in Nat \ {0} /\ MaxFaults \in Nat /\ PoolSize \in Nat \ {0} /\ None \notin Nat

(* Requests, numbered as they arrive; row 0 is what was there before them. *)
Calls == 1 .. MaxCalls
Rows == 0 .. MaxCalls
Stages == {"register", "write"}
Ops == Rows \X Stages

VARIABLES
    mix,         \* the mix of this behaviour; never changes
    call,        \* every request: operation, progress, the stage it relays, its key, its verdict
    row,         \* organiser_ledger_accounts: the organiser's row
    keys,        \* keys the KMS has made, by the request that asked
    audit,       \* audit_log, by operation
    ledger,      \* what became of each operation on the ledger
    signedBy,    \* the key an operation was signed with
    faults

authorityVars == <<row, keys, audit, ledger, signedBy>>

Idle == [op |-> "none", pc |-> "idle", stage |-> "register", key |-> None, verdict |-> "none", arg |-> 0]

Before(provisioned, o, value, none) == IF provisioned /\ o = <<0, "register">> THEN value ELSE none

(* A new organiser, or one whose account an earlier request provisioned *)
AuthorityInit(provisioned) ==
    /\ call = [c \in Calls |-> Idle]
    /\ row = [key |-> IF provisioned THEN 0 ELSE None, registration |-> provisioned, registered |-> provisioned]
    /\ keys = IF provisioned THEN {0} ELSE {}
    /\ audit = [o \in Ops |-> Before(provisioned, o, "settled", "none")]
    /\ ledger = [o \in Ops |-> Before(provisioned, o, "landed", "none")]
    /\ signedBy = [o \in Ops |-> Before(provisioned, o, 0, None)]
    /\ faults = 0

Running(c) == call[c].pc \notin {"idle", "done", "refused", "stopped"}
Arrives(c, op) == op \in mix[c] /\ call[c].pc = "idle" /\ \A d \in Calls : d < c => call[d].pc # "idle"
At(c, op, pc) == call[c].op = op /\ call[c].pc = pc
Goto(c, pc) == call' = [call EXCEPT ![c].pc = pc]
Start(c, op, arg) == call' = [call EXCEPT ![c] = [Idle EXCEPT !.op = op, !.pc = "begun", !.arg = arg]]
Current(c) == <<c, call[c].stage>>

(* Requests inside a transaction, or waiting for a lock in one: each has a connection.  The  *)
(* transaction of an approval stays open around everything its relay does.                   *)
OwnTransaction(c) == call[c].pc \in {"createWait", "locked", "created", "lockWait", "rejectWait",
                                     "termsWait", "choosing", "holdWait", "holdRead"}
OuterTransaction(c) == call[c].op = "approve" /\ call[c].pc \notin {"idle", "begun", "lockWait"} /\ Running(c)
Connections == Cardinality({c \in Calls : OwnTransaction(c)}) + Cardinality({c \in Calls : OuterTransaction(c)})

FreeConnectionMutant == Connections + 1 < PoolSize

(* A statement on the pool, or a transaction on a connection of its own, can start. *)
FreeConnection == Connections < PoolSize

(* provision: the account's row, if it is there *)
ReadAccount(c) ==
    /\ call[c].pc = "provision" /\ FreeConnection
    /\ call' = [call EXCEPT ![c].key = row.key,
                            ![c].stage = IF row.registered THEN "write" ELSE "register",
                            ![c].pc = IF row.key = None THEN "createWait"
                                      ELSE IF row.registered THEN "record" ELSE "sign"]
    /\ UNCHANGED <<authorityVars, faults>>

LockOrganiserMutant(c) ==
    /\ call[c].pc = "createWait"
    /\ Goto(c, "locked")
    /\ UNCHANGED <<authorityVars, faults>>

(* accountRow: the organiser's row FOR NO KEY UPDATE, and the account looked for again *)
LockOrganiser(c) ==
    /\ call[c].pc = "createWait"
    /\ \A d \in Calls : call[d].pc \notin {"locked", "created"}
    /\ Goto(c, "locked")
    /\ UNCHANGED <<authorityVars, faults>>

CreateKey(c) ==
    /\ call[c].pc = "locked"
    /\ IF row.key # None
       THEN /\ call' = [call EXCEPT ![c].key = row.key, ![c].pc = "provision"]
            /\ UNCHANGED keys
       ELSE /\ keys' = keys \cup {c}
            /\ Goto(c, "created")
    /\ UNCHANGED <<row, audit, ledger, signedBy, faults>>

(* The INSERT, once per organiser, and the commit; a second key's INSERT would fail. *)
InsertAccount(c) ==
    /\ call[c].pc = "created"
    /\ IF row.key = None
       THEN /\ row' = [row EXCEPT !.key = c]
            /\ call' = [call EXCEPT ![c].key = c, ![c].pc = "sign"]
       ELSE /\ call' = [call EXCEPT ![c].stage = "register", ![c].verdict = "failed", ![c].pc = "after"]
            /\ UNCHANGED row
    /\ UNCHANGED <<keys, audit, ledger, signedBy, faults>>

(* The self-registration, signed once and stored *)
SignRegistration(c) ==
    /\ call[c].pc = "sign" /\ FreeConnection
    /\ row' = [row EXCEPT !.registration = TRUE]
    /\ Goto(c, "record")
    /\ UNCHANGED <<keys, audit, ledger, signedBy, faults>>

(* auditedSigner: the audit row, and only then the signature *)
Record(c) ==
    /\ call[c].pc = "record" /\ FreeConnection
    /\ audit' = [audit EXCEPT ![Current(c)] = "pending"]
    /\ Goto(c, "submit")
    /\ UNCHANGED <<row, keys, ledger, signedBy, faults>>

Submit(c) ==
    /\ call[c].pc = "submit"
    /\ ledger' = [ledger EXCEPT ![Current(c)] = "sent"]
    /\ signedBy' = [signedBy EXCEPT ![Current(c)] = call[c].key]
    /\ Goto(c, "await")
    /\ UNCHANGED <<row, keys, audit, faults>>

(* The verdict arrives, or none will: the SDK's submission fails and the write may still land. *)
Observe(c) ==
    /\ call[c].pc = "await" /\ ledger[Current(c)] \in {"landed", "refused"}
    /\ call' = [call EXCEPT ![c].verdict = ledger[Current(c)], ![c].pc = "complete"]
    /\ UNCHANGED <<authorityVars, faults>>
Lose(c) ==
    /\ call[c].pc = "await" /\ faults < MaxFaults
    /\ call' = [call EXCEPT ![c].verdict = "failed", ![c].pc = "complete"]
    /\ faults' = faults + 1
    /\ UNCHANGED authorityVars

OutcomeMutant(verdict) == IF verdict = "landed" THEN "settled" ELSE "rejected"

Outcome(verdict) == [landed |-> "settled", refused |-> "rejected", failed |-> "failed"][verdict]

(* Where a relay goes once its row is completed: a registration that landed is marked, and   *)
(* anything else is its caller's.                                                             *)
Completed(c) == Goto(c, IF call[c].stage = "register" /\ call[c].verdict = "landed" THEN "mark" ELSE "after")

Complete(c) ==
    /\ call[c].pc = "complete" /\ FreeConnection
    /\ audit' = [audit EXCEPT ![Current(c)] = Outcome(call[c].verdict)]
    /\ Completed(c)
    /\ UNCHANGED <<row, keys, ledger, signedBy, faults>>

(* Completing the row fails: reported, and the verdict passed on all the same *)
CompleteFails(c) ==
    /\ call[c].pc = "complete" /\ faults < MaxFaults
    /\ faults' = faults + 1
    /\ Completed(c)
    /\ UNCHANGED authorityVars

(* registered_at, and the account read again for the write itself *)
MarkRegistered(c) ==
    /\ call[c].pc = "mark" /\ FreeConnection
    /\ row' = [row EXCEPT !.registered = TRUE]
    /\ call' = [call EXCEPT ![c].stage = "write", ![c].key = row.key, ![c].verdict = "none", ![c].pc = "record"]
    /\ UNCHANGED <<keys, audit, ledger, signedBy, faults>>

RelayStep(c) ==
    \/ ReadAccount(c) \/ LockOrganiser(c) \/ CreateKey(c) \/ InsertAccount(c) \/ SignRegistration(c)
    \/ Record(c) \/ Submit(c) \/ Observe(c) \/ Complete(c) \/ MarkRegistered(c)

(* The ledger (external): a registration is accepted; a write is when its key is registered   *)
(* there and the ledger's other rules, not modelled here, allow it.                           *)
RegisteredKeys == {signedBy[o] : o \in {p \in Ops : p[2] = "register" /\ ledger[p] = "landed"}}
MayLand(o) == o[2] = "register" \/ signedBy[o] \in RegisteredKeys

(* The process stops, or a statement fails with nothing to undo it: the request ends here. *)
Stop(c) ==
    /\ Running(c) /\ faults < MaxFaults
    /\ Goto(c, "stopped")
    /\ faults' = faults + 1
    /\ UNCHANGED authorityVars
=============================================================================
