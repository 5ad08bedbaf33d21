------------------------------ MODULE Accounts ------------------------------
(***************************************************************************)
(* One Kippu account, its sessions and the proofs that open them, and the  *)
(* calls that run on its rows at once (src/src/auth, operators, reviewers). *)
(* The account is an organiser's, a holder's, an operator's or a           *)
(* reviewer's: rows of different accounts are never shared, so a behaviour  *)
(* follows one.  Row locks are not variables: the call that holds one is   *)
(* read off how far its transaction is.                                    *)
(***************************************************************************)
EXTENDS Naturals, FiniteSets

CONSTANTS
    MaxCalls,      \* bound on the requests
    None,          \* SQL's NULL
    MaxTime,       \* bound on the clock
    CodeLife,      \* ENROLMENT_CODE_MS, REVIEWER_ENROLMENT_CODE_MS
    CeremonyLife,  \* CEREMONY_MS, HOLDER_CHALLENGE_MS
    SessionLife,   \* ORGANISER_, OPERATOR_, HOLDER_, REVIEWER_SESSION_MS
    ReportLife     \* REVOKED_OPERATOR_REPORTING_MS

ASSUME LivesAssumption ==
    /\ {MaxCalls, MaxTime, CodeLife, CeremonyLife, SessionLife, ReportLife} \subseteq Nat \ {0}
    /\ None \notin Nat

(* Requests, numbered as they arrive; what a request inserts carries its number as its id. *)
Calls == 1 .. MaxCalls
(* Row 0 is what requests before them left. *)
Rows == 0 .. MaxCalls

VARIABLES
    kind,        \* what the account is
    now,         \* the database and server clock
    account,     \* organisers, holders, operators or reviewers: the account's row
    codes,       \* operator_enrolment_codes, reviewer_enrolment_codes
    ceremonies,  \* webauthn_ceremonies, reviewer_ceremonies, holder_link_challenges
    sessions,    \* sessions
    grants,      \* operator_grants on one gate of one event
    reports,     \* admission_reports
    call,        \* every request: its operation, its progress, what it has read
    covered      \* history: proofs issued before a committed revocation of everything

vars == <<kind, now, account, codes, ceremonies, sessions, grants, reports, call, covered>>
rows == <<account, codes, ceremonies, sessions, grants, reports, covered>>

Kinds == {"organiser", "holder", "operator", "reviewer"}
Times == 0 .. MaxTime
Ids == Rows \cup {None}

NoCode == [st |-> "none", until |-> 0]
NoCeremony == [st |-> "none", for |-> "signIn", code |-> None, until |-> 0]
NoSession == [st |-> "none", code |-> None, ceremony |-> None, until |-> 0, revoked |-> None]
NoGrant == [st |-> "none", from |-> 0, until |-> 0, revoked |-> None]
NoReport == [st |-> "none", presented |-> 0, session |-> None]
Idle == [op |-> "none", pc |-> "idle", arg |-> None, at |-> 0, voids |-> {}, ends |-> {},
         revoked |-> None]

(* Where the behaviour begins: with nothing; with a first challenge or code given out; or   *)
(* with a first session opened from it.                                                     *)
Stages == {"nothing", "invited", "in"}
ByCode == {"operator", "reviewer"}
FirstCode(stage) == [st |-> IF stage = "in" THEN "redeemed" ELSE "issued", until |-> CodeLife]
FirstCeremony(stage) ==
    [st |-> IF stage = "in" THEN "gone" ELSE "open", until |-> CeremonyLife,
     for |-> [organiser |-> "signUp", holder |-> "link", reviewer |-> "enrolment"][kind],
     code |-> IF kind = "reviewer" THEN 0 ELSE None]
FirstSession ==
    [NoSession EXCEPT !.st = "open", !.until = SessionLife,
                      !.code = IF kind \in ByCode THEN 0 ELSE None,
                      !.ceremony = IF kind = "operator" THEN None ELSE 0]
First(there, row, none) == [r \in Rows |-> IF there /\ r = 0 THEN row ELSE none]

Init ==
    /\ kind \in Kinds
    /\ now = 0
    /\ \E stage \in Stages :
         /\ account = [owner |-> IF stage = "in" /\ kind = "organiser" THEN 0 ELSE None,
                       exists |-> stage = "in" \/ kind = "operator" \/ (kind = "reviewer" /\ stage = "invited"),
                       enrolled |-> stage = "in" /\ kind = "reviewer", disabled |-> FALSE]
         /\ codes = First(stage # "nothing" /\ kind \in ByCode, FirstCode(stage), NoCode)
         /\ ceremonies = First(/\ stage # "nothing" /\ kind # "operator"
                               /\ ~(kind = "reviewer" /\ stage = "invited"),
                               FirstCeremony(stage), NoCeremony)
         /\ sessions = First(stage = "in", FirstSession, NoSession)
         /\ grants = First(stage # "nothing" /\ kind = "operator",
                           [NoGrant EXCEPT !.st = "made", !.until = 1], NoGrant)
    /\ reports = NoReport
    /\ call = [c \in Calls |-> Idle]
    /\ covered = {}

Running(c) == call[c].pc \notin {"idle", "done", "refused", "error"}
Arrives(c) == call[c].pc = "idle" /\ \A d \in Calls : d < c => call[d].pc # "idle"
At(c, op, pc) == call[c].op = op /\ call[c].pc = pc

(* A request arrives.  arg names the row it is about; at is the time it reads first. *)
Start(c, op, arg) ==
    call' = [call EXCEPT ![c] = [Idle EXCEPT !.op = op, !.pc = "begun", !.arg = arg, !.at = now]]
Goto(c, pc) == call' = [call EXCEPT ![c].pc = pc]
(* Answered, and whatever its transaction locked is given back. *)
End(c, pc) == call' = [call EXCEPT ![c].pc = pc, ![c].voids = {}, ![c].ends = {}]

(* The process stops, the connection is lost, a statement fails: the transaction rolls back. *)
Fail(c) == Running(c) /\ End(c, "error") /\ UNCHANGED <<kind, now, rows>>

(* Row locks, as PostgreSQL holds them to the end of the transaction *)
Spends(c) == call[c].pc \in {"spent", "inserted"}
HoldsCode(c, k) ==
    \/ Spends(c) /\ k = (IF call[c].op = "redeem" THEN call[c].arg ELSE ceremonies[call[c].arg].code)
    \/ k \in call[c].voids
(* SELECT ... FOR UPDATE of the account's row, by assertOperator or reviewerByEmail *)
HoldsAccount(c) == call[c].pc \in {"locked", "voided", "ended"}
(* FOR KEY SHARE of it: the foreign key check of an inserted session or passkey *)
SharesAccount(c) == call[c].pc = "inserted"

CodeFree(c, k) == \A d \in Calls \ {c} : ~HoldsCode(d, k)
AccountUnlocked(c) == \A d \in Calls \ {c} : ~HoldsAccount(d)

Redeemable(k) == codes[k].st = "issued" /\ codes[k].until > now

(* Two transactions that wait for each other: one spent a code and needs the account's  *)
(* row for its foreign key, the other has the row and needs the code.  PostgreSQL finds *)
(* the cycle and aborts either.                                                          *)
Crossed(c, d) ==
    /\ call[c].pc = "spent" /\ HoldsAccount(d) /\ call[d].pc = "locked"
    /\ call[d].op \in {"revokeSessions", "reissueCode", "disable"}
    /\ \E k \in Rows : codes[k].st = "issued" /\ HoldsCode(c, k)
DeadlockAborts(c) ==
    /\ \E d \in Calls : Crossed(c, d) \/ Crossed(d, c)
    /\ End(c, "error")
    /\ UNCHANGED <<kind, now, rows>>

Tick == now < MaxTime /\ now' = now + 1 /\ UNCHANGED <<kind, rows, call>>
=============================================================================
