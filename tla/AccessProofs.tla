---------------------------- MODULE AccessProofs ----------------------------
(***************************************************************************)
(* Theorems about Access, for every number of requests, every bound on the *)
(* clock and every lifetime of codes, challenges and sessions: the types,  *)
(* proofs spent once, one account per email, revocation, and the evidence  *)
(* of a revoked operator.                                                   *)
(***************************************************************************)
EXTENDS Access, FiniteSetTheorems, TLAPS

AnswerOps == {"completeSignUp", "completeSignIn", "completeLink", "completeEnrolment"}
SessionOps == {"signOut", "check", "report"}
LockOps == {"issueCode", "revokeSessions", "reissueCode", "disable"}
OpNames == {"none", "signUp", "signIn", "beginLink", "redeem", "grant", "revokeGrant", "create",
            "beginEnrolment", "beginSignIn"} \cup AnswerOps \cup SessionOps \cup LockOps
For == [completeSignUp |-> "signUp", completeSignIn |-> "signIn", completeLink |-> "link",
        completeEnrolment |-> "enrolment"]

Answered == {"consumed", "verified", "spent", "inserted"}
Locked == {"locked", "voided", "ended"}
Over == {"done", "refused", "error"}
Pcs == {"idle", "begun", "read", "unknown", "known"} \cup Answered \cup Locked \cup Over

Request == [op : OpNames, pc : Pcs, arg : Ids, at : Times, voids : SUBSET Rows, ends : SUBSET Rows,
            revoked : Times \cup {None}]

Types == TypeOK /\ call \in [Calls -> Request]

(* What a request has yet to insert is not there. *)
Fresh ==
    \A c \in Calls : call[c].pc \notin Over =>
        codes[c].st = "none" /\ ceremonies[c].st = "none" /\ sessions[c].st = "none"

(* What a request is about is there, and what it has read is still so. *)
RequestInv(c) ==
    LET r == call[c] IN
    /\ r.pc = "idle" => r.op = "none"
    /\ r.at <= now
    /\ r.op \in AnswerOps =>
         r.arg \in Rows /\ ceremonies[r.arg].st # "none" /\ ceremonies[r.arg].for = For[r.op]
    /\ r.op \in AnswerOps /\ r.pc \in Answered => ceremonies[r.arg].st = "gone"
    /\ r.op \in {"redeem", "beginEnrolment"} => r.arg \in Rows /\ codes[r.arg].st # "none"
    /\ r.op \in SessionOps => r.arg \in Rows /\ sessions[r.arg].st = "open"
    /\ r.op = "report" /\ r.revoked # None => sessions[r.arg].revoked = r.revoked
    /\ r.pc \in {"consumed", "verified"} => r.op \in AnswerOps
    /\ Spends(c) => r.op \in {"redeem", "completeEnrolment"}
    /\ r.pc \in Locked => r.op \in LockOps
    /\ r.voids # {} => r.pc \in {"voided", "ended"}
    /\ r.ends # {} => r.pc = "ended"
    /\ r.op = "revokeSessions" => kind = "operator"

CeremonyInv ==
    \A k \in Rows : ceremonies[k].st # "none" =>
        /\ ceremonies[k].for = "enrolment" => ceremonies[k].code \in Rows
             /\ codes[ceremonies[k].code].st # "none"
        /\ ceremonies[k].for = "signUp" => kind = "organiser"

(* Row locks: who spends or voids a code has it alone, and it is still issued. *)
LocksInv ==
    /\ \A c \in Calls, k \in Rows : HoldsCode(c, k) => codes[k].st = "issued"
    /\ \A c, d \in Calls, k \in Rows : HoldsCode(c, k) /\ HoldsCode(d, k) => c = d
    /\ \A c, d \in Calls : HoldsAccount(c) /\ (HoldsAccount(d) \/ SharesAccount(d)) => c = d
    /\ \A c \in Calls : \A s \in call[c].ends : sessions[s].st = "open"
         /\ sessions[s].revoked = None

(* A challenge is answered by one request, or by none any more once it has opened a session. *)
AnswersInv ==
    /\ \A c, d \in Calls : /\ call[c].op \in AnswerOps /\ call[c].pc \in Answered
                           /\ call[d].op \in AnswerOps /\ call[d].pc \in Answered
                           /\ call[c].arg = call[d].arg
                           => c = d
    /\ \A s \in Rows : sessions[s].st = "open" /\ sessions[s].ceremony # None =>
         /\ ceremonies[sessions[s].ceremony].st = "gone"
         /\ \A c \in Calls : call[c].op \in AnswerOps /\ call[c].pc \in Answered =>
                call[c].arg # sessions[s].ceremony
    /\ \A s, t \in Rows : /\ sessions[s].st = "open" /\ sessions[t].st = "open"
                          /\ sessions[s].ceremony = sessions[t].ceremony
                          /\ sessions[s].ceremony # None
                          => s = t

CodesInv ==
    /\ \A s \in Rows : sessions[s].st = "open" /\ sessions[s].code # None =>
         codes[sessions[s].code].st = "redeemed"
    /\ \A s, t \in Rows : /\ sessions[s].st = "open" /\ sessions[t].st = "open"
                          /\ sessions[s].code = sessions[t].code
                          /\ sessions[s].code # None
                          => s = t
    /\ \A k \in Rows : codes[k].st = "redeemed" =>
         \E s \in Rows : sessions[s].st = "open" /\ sessions[s].code = k

OwnerInv ==
    \A s \in Rows :
        /\ sessions[s].st = "open" /\ sessions[s].ceremony # None
        /\ ceremonies[sessions[s].ceremony].for = "signUp"
        => account.exists /\ account.owner = sessions[s].ceremony

(* A revocation that has the operator's row sees every code and every session there is. *)
RevocationInv ==
    /\ kind = "operator" => \A s \in Rows : sessions[s].st = "open" => sessions[s].ceremony = None
    /\ \A c \in Calls : call[c].op = "revokeSessions" /\ call[c].pc \in {"voided", "ended"} =>
         \A k \in Rows : codes[k].st = "issued" => k \in call[c].voids
    /\ \A c \in Calls : call[c].op = "revokeSessions" /\ call[c].pc = "ended" =>
         \A s \in Rows : /\ sessions[s].st = "open" /\ sessions[s].revoked = None
                         /\ sessions[s].until > call[c].at
                         => s \in call[c].ends
    /\ covered # {} => kind = "operator" \/ account.disabled
    /\ \A k \in covered : codes[k].st # "none" \/ ceremonies[k].st # "none"
    /\ kind = "operator" =>
         /\ \A k \in covered : codes[k].st # "issued"
         /\ \A s \in Rows : sessions[s].st = "open" /\ sessions[s].code \in covered =>
              sessions[s].revoked # None \/ sessions[s].until <= now

RowsInv == Fresh /\ (\A c \in Calls : RequestInv(c)) /\ CeremonyInv /\ LocksInv
IInv == RowsInv /\ AnswersInv /\ CodesInv /\ OwnerInv /\ RevocationInv

CodeOf(c) == IF call[c].op = "redeem" THEN call[c].arg ELSE ceremonies[call[c].arg].code

(* What becomes of request c, and of no other *)
Becomes(c, o, p, a, t, v, e, r) ==
    /\ call' \in [Calls -> Request]
    /\ \A d \in Calls \ {c} : call'[d] = call[d]
    /\ call'[c].op = o /\ call'[c].pc = p /\ call'[c].arg = a /\ call'[c].at = t
    /\ call'[c].voids = v /\ call'[c].ends = e /\ call'[c].revoked = r

Moves(c, p) == Becomes(c, call[c].op, p, call[c].arg, call[c].at, call[c].voids, call[c].ends,
      call[c].revoked)
Leaves(c, p) == Becomes(c, call[c].op, p, call[c].arg, call[c].at, {}, {}, call[c].revoked)

(* Requests answered by the statement they arrive with *)
Immediate(c) ==
    /\ call[c].pc = "idle"
    /\ \E o \in {"beginLink", "grant", "revokeGrant", "create"}, p \in {"done", "refused"} :
         Becomes(c, o, p, None, 0, {}, {}, None)

\* Lifetimes are positive and within the clock's bound; rows and requests are numbered from 1.
LEMMA Lives ==
    /\ MaxCalls \in Nat \ {0} /\ MaxTime \in Nat \ {0} /\ CodeLife \in Nat \ {0}
    /\ CeremonyLife \in Nat \ {0} /\ SessionLife \in Nat \ {0} /\ ReportLife \in Nat \ {0}
    /\ None \notin Nat /\ None \notin Rows /\ None \notin Times
    /\ 0 \in Times /\ 0 \in Rows /\ Calls \subseteq Rows /\ Calls \subseteq Nat
    /\ Rows \subseteq Nat
  BY LivesAssumption DEF Rows, Times, Calls

\* The fields of a request, one by one
LEMMA RequestFields ==
    ASSUME NEW r \in Request
    PROVE  /\ r.op \in OpNames /\ r.pc \in Pcs /\ r.arg \in Ids /\ r.at \in Times
           /\ r.voids \in SUBSET Rows /\ r.ends \in SUBSET Rows /\ r.revoked \in Times \cup {None}
  BY DEF Request

\* A request that arrives, wherever its first step leaves it
LEMMA BeginEffect ==
    ASSUME call \in [Calls -> Request], NEW c \in Calls, NEW o \in OpNames, NEW p \in Pcs,
           NEW a \in Ids, NEW t \in Times,
           call' = [call EXCEPT ![c] = [Idle EXCEPT !.op = o, !.pc = p, !.arg = a, !.at = t]]
    PROVE  Becomes(c, o, p, a, t, {}, {}, None)
  BY DEF Becomes, Request, Idle, Ids

\* A request answered as it arrives
LEMMA ImmediateEffect ==
    ASSUME call \in [Calls -> Request], NEW c \in Calls, NEW o \in OpNames, NEW p \in Pcs,
           call' = [call EXCEPT ![c] = [Idle EXCEPT !.op = o, !.pc = p]]
    PROVE  Becomes(c, o, p, None, 0, {}, {}, None)
  BY Lives DEF Becomes, Request, Idle, Ids

\* A request that arrives at its beginning
LEMMA StartEffect ==
    ASSUME call \in [Calls -> Request], now \in Times, NEW c \in Calls, NEW o \in OpNames,
           NEW a \in Ids, Start(c, o, a)
    PROVE  Becomes(c, o, "begun", a, now, {}, {}, None)
  BY BeginEffect DEF Start, Pcs

\* A step that goes on with a request and changes nothing else of it
LEMMA GotoEffect ==
    ASSUME call \in [Calls -> Request], NEW c \in Calls, NEW p \in Pcs, Goto(c, p)
    PROVE  Moves(c, p)
  BY DEF Goto, Moves, Becomes, Request

\* A step that ends a request forgets what it was about to void and end.
LEMMA EndEffect ==
    ASSUME call \in [Calls -> Request], NEW c \in Calls, NEW p \in Pcs, End(c, p)
    PROVE  Leaves(c, p)
  BY DEF End, Leaves, Becomes, Request

\* A step that collects the codes a request voids
LEMMA VoidEffect ==
    ASSUME call \in [Calls -> Request], NEW c \in Calls, NEW p \in Pcs, NEW v \in SUBSET Rows,
           call' = [call EXCEPT ![c].pc = p, ![c].voids = v]
    PROVE  Becomes(c, call[c].op, p, call[c].arg, call[c].at, v, call[c].ends, call[c].revoked)
  BY DEF Becomes, Request

\* A step that collects the sessions a request ends
LEMMA EndsEffect ==
    ASSUME call \in [Calls -> Request], NEW c \in Calls, NEW p \in Pcs, NEW e \in SUBSET Rows,
           call' = [call EXCEPT ![c].pc = p, ![c].ends = e]
    PROVE  Becomes(c, call[c].op, p, call[c].arg, call[c].at, call[c].voids, e, call[c].revoked)
  BY DEF Becomes, Request

\* A step that reads the session's revocation (fastify-context.ts)
LEMMA KnownEffect ==
    ASSUME call \in [Calls -> Request], NEW c \in Calls, NEW p \in Pcs, NEW r \in Times \cup {None},
           call' = [call EXCEPT ![c].pc = p, ![c].revoked = r]
    PROVE  Becomes(c, call[c].op, p, call[c].arg, call[c].at, call[c].voids, call[c].ends, r)
  BY DEF Becomes, Request

(* The turns a request takes, by what they do to the rows and the locks *)
Quiet == UNCHANGED <<kind, now, account, codes, ceremonies, sessions, covered>>

Arrival(c) ==
    /\ Quiet /\ call[c].pc = "idle"
    /\ \E o \in OpNames \ {"none"}, a \in Ids, t \in Times :
         /\ t <= now
         /\ o \in AnswerOps => a \in Rows /\ ceremonies[a].st # "none" /\ ceremonies[a].for = For[o]
         /\ o \in {"redeem", "beginEnrolment"} => a \in Rows /\ codes[a].st # "none"
         /\ o \in SessionOps => a \in Rows /\ sessions[a].st = "open"
         /\ o = "revokeSessions" => kind = "operator"
         /\ Becomes(c, o, "begun", a, t, {}, {}, None)
Passing(c) ==
    /\ Quiet /\ call[c].pc \in {"begun", "unknown"}
    /\ \E p \in {"read", "unknown", "known"}, r \in Times \cup {None} :
         /\ r = call[c].revoked \/ (call[c].op = "report" /\ r = sessions[call[c].arg].revoked)
         /\ Becomes(c, call[c].op, p, call[c].arg, call[c].at, call[c].voids, call[c].ends, r)
Verifies(c) == Quiet /\ call[c].pc = "consumed" /\ Moves(c, "verified")
LocksRow(c) ==
    /\ Quiet /\ call[c].op \in LockOps /\ call[c].pc = "begun"
    /\ AccountUnlocked(c) /\ \A d \in Calls \ {c} : ~SharesAccount(d)
    /\ Moves(c, "locked")
Spending(c) ==
    /\ Quiet
    /\ \/ call[c].op = "redeem" /\ call[c].pc = "begun"
       \/ call[c].op = "completeEnrolment" /\ call[c].pc = "verified"
    /\ CodeFree(c, CodeOf(c)) /\ codes[CodeOf(c)].st = "issued"
    /\ Moves(c, "spent")
Inserting(c) == Quiet /\ call[c].pc = "spent" /\ AccountUnlocked(c) /\ Moves(c, "inserted")
Voiding(c) ==
    /\ Quiet /\ call[c].op \in LockOps /\ call[c].pc = "locked"
    /\ \A k \in Rows : codes[k].st = "issued" => CodeFree(c, k)
    /\ Becomes(c, call[c].op, "voided", call[c].arg, call[c].at,
          {k \in Rows : codes[k].st = "issued"},
               call[c].ends, call[c].revoked)
Ending(c) ==
    /\ Quiet /\ call[c].pc = "voided"
    /\ Becomes(c, call[c].op, "ended", call[c].arg, call[c].at, call[c].voids,
               {s \in Rows : /\ sessions[s].st = "open" /\ sessions[s].revoked = None
                             /\ sessions[s].until > call[c].at}, call[c].revoked)
Answers(c) == Quiet /\ ((\E p \in Over : Leaves(c, p)) \/ Immediate(c))

Opening(c) ==
    /\ call[c].pc \notin Over
    /\ \E for \in {"signUp", "signIn", "link", "enrolment"}, code \in Ids :
         /\ for = "enrolment" => code \in Rows /\ codes[code].st # "none"
         /\ for = "signUp" => kind = "organiser"
         /\ ceremonies' = [ceremonies EXCEPT ![c] = NewCeremony(for, code)]
    /\ Leaves(c, "done") \/ Immediate(c)
    /\ UNCHANGED <<kind, now, account, codes, sessions, covered>>
Consuming(c) ==
    /\ call[c].op \in AnswerOps /\ call[c].pc = "begun" /\ ceremonies[call[c].arg].st = "open"
    /\ ceremonies' = [ceremonies EXCEPT ![call[c].arg].st = "gone"]
    /\ Moves(c, "consumed") \/ Leaves(c, "refused")
    /\ UNCHANGED <<kind, now, account, codes, sessions, covered>>
SigningIn(c) ==
    /\ kind # "operator" /\ call[c].op \in AnswerOps /\ call[c].pc = "verified"
    /\ account' \in [owner : Ids, exists : BOOLEAN, enrolled : BOOLEAN, disabled : BOOLEAN]
    /\ account'.disabled = account.disabled
    /\ call[c].op = "completeSignUp" => ~account.exists /\ account'.exists
         /\ account'.owner = call[c].arg
    /\ call[c].op # "completeSignUp" => account'.owner = account.owner /\ (account.exists
          => account'.exists)
    /\ sessions' = [sessions EXCEPT ![c] = NewSession(None, call[c].arg)]
    /\ Leaves(c, "done")
    /\ UNCHANGED <<kind, now, codes, ceremonies, covered>>
SigningOut(c) ==
    /\ call[c].op = "signOut" /\ call[c].pc = "begun"
    /\ \A d \in Calls : call[c].arg \notin call[d].ends
    /\ sessions' = [sessions EXCEPT ![call[c].arg].revoked = IF @ = None THEN now ELSE @]
    /\ Leaves(c, "done")
    /\ UNCHANGED <<kind, now, account, codes, ceremonies, covered>>
Issuing(c) ==
    /\ call[c].op # "revokeSessions"
    /\ kind \in {"operator", "reviewer"}
    /\ kind = "operator" => call[c].pc = "locked" /\ account' = account
    /\ kind = "reviewer" => call[c].pc \in {"idle", "voided"}
    /\ account' \in [owner : Ids, exists : BOOLEAN, enrolled : BOOLEAN, disabled : BOOLEAN]
    /\ account'.disabled = account.disabled
    /\ codes' \in [Rows -> CodeRow]
    /\ \A k \in Rows : codes'[k].st = IF k = c THEN "issued"
                                      ELSE IF k \in call[c].voids THEN "voided" ELSE codes[k].st
    /\ Leaves(c, "done") \/ Immediate(c)
    /\ UNCHANGED <<kind, now, ceremonies, sessions, covered>>
Revoking(c) ==
    /\ call[c].pc = "ended"
    /\ codes' = Voided(c) /\ sessions' = Ended(c) /\ covered' = covered \cup Issued
    /\ \/ /\ kind = "operator" /\ call[c].op = "revokeSessions"
          /\ UNCHANGED <<account, ceremonies>>
       \/ /\ kind = "reviewer" /\ call[c].op = "disable"
          /\ account' = [account EXCEPT !.disabled = TRUE]
          /\ ceremonies' = [k \in Rows |-> IF ceremonies[k].st = "open"
                                            THEN [ceremonies[k] EXCEPT !.st = "gone"]
                                            ELSE ceremonies[k]]
    /\ Leaves(c, "done")
    /\ UNCHANGED <<kind, now>>
Committing(c) ==
    /\ call[c].pc = "inserted"
    /\ codes' = [codes EXCEPT ![CodeOf(c)].st = "redeemed"]
    /\ \/ /\ kind = "operator" /\ call[c].op = "redeem"
          /\ sessions' = [sessions EXCEPT ![c] = NewSession(CodeOf(c), None)]
          /\ account' = account
       \/ /\ kind = "reviewer" /\ call[c].op = "completeEnrolment"
          /\ sessions' = [sessions EXCEPT ![c] = NewSession(CodeOf(c), call[c].arg)]
          /\ account' = [account EXCEPT !.enrolled = TRUE]
    /\ Leaves(c, "done")
    /\ UNCHANGED <<kind, now, ceremonies, covered>>

Turn(c) ==
    \/ Arrival(c) \/ Passing(c) \/ Verifies(c) \/ LocksRow(c) \/ Spending(c) \/ Inserting(c)
    \/ Voiding(c) \/ Ending(c) \/ Answers(c) \/ Opening(c) \/ Consuming(c) \/ SigningIn(c)
    \/ SigningOut(c) \/ Issuing(c) \/ Revoking(c) \/ Committing(c)

\* What the types say, one by one
LEMMA Typed ==
    ASSUME Types
    PROVE  /\ kind \in Kinds /\ now \in Times /\ now \in Nat
           /\ account \in [owner : Ids, exists : BOOLEAN, enrolled : BOOLEAN, disabled : BOOLEAN]
           /\ codes \in [Rows -> CodeRow] /\ ceremonies \in [Rows -> CeremonyRow]
           /\ sessions \in [Rows -> SessionRow] /\ grants \in [Rows -> GrantRow]
           /\ covered \subseteq Rows /\ call \in [Calls -> Request]
  BY DEF Types, TypeOK, Times

\* Requests that arrive and wait
LEMMA ArrivalTurn ==
    ASSUME Types, NEW c \in Calls, NEW o \in OpNames \ {"none"}, NEW a \in Ids, Arrives(c),
           Start(c, o, a), UNCHANGED <<kind, now, rows>>,
           o \in AnswerOps => a \in Rows /\ ceremonies[a].st # "none" /\ ceremonies[a].for = For[o],
           o \in {"redeem", "beginEnrolment"} => a \in Rows /\ codes[a].st # "none",
           o \in SessionOps => a \in Rows /\ sessions[a].st = "open",
           o = "revokeSessions" => kind = "operator"
    PROVE  Arrival(c)
<1>1. now \in Times /\ now <= now
  BY Typed, Lives DEF Times
<1>2. Becomes(c, o, "begun", a, now, {}, {}, None)
  BY StartEffect, Typed, <1>1
<1> QED
  BY <1>1, <1>2 DEF Arrival, Arrives, Quiet, rows

\* A reference is a row's, or none.
LEMMA NoneIsId == None \in Ids /\ Rows \subseteq Ids
  BY DEF Ids

\* Requests wait, and no table changes.
LEMMA QuietRows == ASSUME UNCHANGED <<kind, now, rows>> PROVE Quiet
  BY DEF Quiet, rows

\* A refusal is a turn that ends its request and leaves every table alone.
LEMMA RefuseTurn ==
    ASSUME Types, NEW c \in Calls, Refuse(c)
    PROVE  Answers(c)
<1>1. Leaves(c, "refused")
  BY EndEffect, Typed DEF Refuse, Pcs, Over
<1> QED
  BY <1>1, QuietRows DEF Answers, Refuse, Over

\* So is a failure, a deadlock's abort among them.
LEMMA FailTurn ==
    ASSUME Types, NEW c \in Calls, Fail(c) \/ DeadlockAborts(c)
    PROVE  Answers(c)
<1>1. Leaves(c, "error")
  BY EndEffect, Typed DEF Fail, DeadlockAborts, Pcs, Over
<1> QED
  BY <1>1, QuietRows DEF Answers, Fail, DeadlockAborts, Over

\* A request that passes a check changes no table.
LEMMA PassTurn ==
    ASSUME Types, NEW c \in Calls, NEW p \in {"read", "unknown", "known"}, call[c].pc \in {"begun",
           "unknown"},
           Goto(c, p), UNCHANGED <<kind, now, rows>>
    PROVE  Passing(c)
<1>1. Moves(c, p)
  BY GotoEffect, Typed DEF Pcs
<1>2. call[c].revoked \in Times \cup {None}
  BY Typed, RequestFields
<1> QED
  BY <1>1, <1>2, QuietRows DEF Passing, Moves

\* A challenge is opened for a request that begins one (openCeremony).
LEMMA OpenTurn ==
    ASSUME Types, NEW c \in Calls, NEW for \in {"signUp", "signIn", "link", "enrolment"},
           NEW code \in Ids,
           OpenCeremony(c, for, code), call[c].pc \notin Over,
           for = "enrolment" => code \in Rows /\ codes[code].st # "none",
           for = "signUp" => kind = "organiser"
    PROVE  Opening(c)
<1>1. Leaves(c, "done")
  BY EndEffect, Typed DEF OpenCeremony, Pcs, Over
<1> QED
  BY <1>1 DEF Opening, OpenCeremony

\* An answer consumes its challenge, or is refused (consumeCeremony).
LEMMA AnswerTurn ==
    ASSUME Types, NEW c \in Calls, RequestInv(c), NEW o \in AnswerOps, Answer(c, o, For[o])
    PROVE  Turn(c)
<1>1. CASE \E k \in Rows : /\ Arrives(c) /\ ceremonies[k].st # "none" /\ ceremonies[k].for = For[o]
                           /\ Start(c, o, k) /\ UNCHANGED <<kind, now, rows>>
  <2>1. PICK k \in Rows : /\ Arrives(c) /\ ceremonies[k].st # "none" /\ ceremonies[k].for = For[o]
                          /\ Start(c, o, k) /\ UNCHANGED <<kind, now, rows>>
    BY <1>1
  <2>2. o \in OpNames \ {"none"} /\ k \in Ids /\ o \notin {"redeem", "beginEnrolment",
          "revokeSessions"} /\ o \notin SessionOps
    BY NoneIsId DEF OpNames, AnswerOps, SessionOps
  <2>3. Arrival(c)
    BY <2>1, <2>2, ArrivalTurn
  <2> QED
    BY <2>3 DEF Turn
<1>2. CASE At(c, o, "begun") /\ ConsumeCeremony(c, call[c].arg)
  <2>1. (Goto(c, "consumed") => Moves(c, "consumed")) /\ (End(c, "refused") => Leaves(c, "refused"))
    BY GotoEffect, EndEffect, Typed DEF Pcs, Over, Answered
  <2>2. Consuming(c)
    BY <1>2, <2>1 DEF Consuming, ConsumeCeremony, At
  <2> QED
    BY <2>2 DEF Turn
<1>3. CASE At(c, o, "begun") /\ ceremonies[call[c].arg].st = "gone" /\ Refuse(c)
  BY <1>3, RefuseTurn DEF Turn
<1> QED
  BY <1>1, <1>2, <1>3 DEF Answer

\* A signature that verifies lets its request go on.
LEMMA VerifyTurn ==
    ASSUME Types, NEW c \in Calls, NEW o, NEW may, Verify(c, o, may)
    PROVE  Turn(c)
<1>1. CASE Goto(c, "verified") /\ UNCHANGED <<kind, now, rows>>
  <2>1. Moves(c, "verified")
    BY <1>1, GotoEffect, Typed DEF Pcs, Answered
  <2> QED
    BY <1>1, <2>1, QuietRows DEF Verify, Verifies, Turn, At
<1>2. CASE Refuse(c)
  BY <1>2, RefuseTurn DEF Turn
<1> QED
  BY <1>1, <1>2 DEF Verify

\* An answer to a sign-in opens its session.
LEMMA SignInTurn ==
    ASSUME Types, NEW c \in Calls, kind # "operator", NEW o \in AnswerOps, NEW acc, OpenSession(c,
           o, acc),
           acc \in [owner : Ids, exists : BOOLEAN, enrolled : BOOLEAN, disabled : BOOLEAN],
           acc.disabled = account.disabled,
           o = "completeSignUp" => ~account.exists /\ acc.exists /\ acc.owner = call[c].arg,
           o # "completeSignUp" => acc.owner = account.owner /\ (account.exists => acc.exists)
    PROVE  SigningIn(c)
<1>1. Leaves(c, "done")
  BY EndEffect, Typed DEF OpenSession, Pcs, Over
<1> QED
  BY <1>1 DEF SigningIn, OpenSession, At

\* A request takes the account's row.
LEMMA LockTurn ==
    ASSUME Types, NEW c \in Calls, NEW o \in LockOps, LockAccount(c, {o})
    PROVE  LocksRow(c)
<1>1. Moves(c, "locked")
  BY GotoEffect, Typed DEF LockAccount, Pcs, Locked
<1> QED
  BY <1>1, QuietRows DEF LockAccount, LocksRow

\* A code is redeemed by the UPDATE that finds it issued (redeemOperatorEnrolmentCode).
LEMMA SpendTurn ==
    ASSUME Types, NEW c \in Calls, SpendCode(c, CodeOf(c)),
           \/ call[c].op = "redeem" /\ call[c].pc = "begun"
           \/ call[c].op = "completeEnrolment" /\ call[c].pc = "verified"
    PROVE  Turn(c)
<1>1. CASE Goto(c, "spent") /\ Redeemable(CodeOf(c))
  <2>1. Moves(c, "spent")
    BY <1>1, GotoEffect, Typed DEF Pcs, Answered
  <2> QED
    BY <1>1, <2>1, QuietRows DEF SpendCode, Spending, Turn, Redeemable
<1>2. CASE End(c, "refused")
  <2>1. Leaves(c, "refused")
    BY <1>2, EndEffect, Typed DEF Pcs, Over
  <2> QED
    BY <2>1, QuietRows DEF Turn, Answers, SpendCode, Over
<1> QED
  BY <1>1, <1>2 DEF SpendCode

\* A session is inserted in the transaction of what it was opened by.
LEMMA InsertTurn ==
    ASSUME Types, NEW c \in Calls, InsertSession(c)
    PROVE  Inserting(c)
<1>1. Moves(c, "inserted")
  BY GotoEffect, Typed DEF InsertSession, Pcs, Answered
<1> QED
  BY <1>1, QuietRows DEF InsertSession, Inserting

\* The codes still issued are voided under the account's row.
LEMMA VoidTurn ==
    ASSUME Types, NEW c \in Calls, call[c].op \in LockOps, VoidCodes(c)
    PROVE  Voiding(c)
<1>1. Becomes(c, call[c].op, "voided", call[c].arg, call[c].at,
        {k \in Rows : codes[k].st = "issued"},
               call[c].ends, call[c].revoked)
  BY VoidEffect, Typed DEF VoidCodes, Pcs, Locked
<1> QED
  BY <1>1, QuietRows DEF VoidCodes, Voiding

\* The sessions still open are collected to be ended.
LEMMA EndTurn ==
    ASSUME Types, NEW c \in Calls, EndSessions(c)
    PROVE  Ending(c)
<1>1. Becomes(c, call[c].op, "ended", call[c].arg, call[c].at, call[c].voids,
               {s \in Rows : /\ sessions[s].st = "open" /\ sessions[s].revoked = None
                             /\ sessions[s].until > call[c].at}, call[c].revoked)
  BY EndsEffect, Typed DEF EndSessions, Pcs, Locked
<1> QED
  BY <1>1, QuietRows DEF EndSessions, Ending

\* Every step of organisers and holders (auth/service.ts) is a turn.
LEMMA AuthTurn ==
    ASSUME Types, NEW c \in Calls, RequestInv(c), AuthStep(c)
    PROVE  Turn(c)
<1> USE Typed, NoneIsId
<1>1. CASE BeginOrganiserSignUp(c)
  <2>1. CASE Arrives(c) /\ Start(c, "signUp", None) /\ UNCHANGED <<kind, now, rows>>
    <3>1. Arrival(c)
      BY <2>1, ArrivalTurn DEF OpNames, AnswerOps, SessionOps, LockOps
    <3> QED
      BY <3>1 DEF Turn
  <2>2. CASE Refuse(c)
    BY <2>2, RefuseTurn DEF Turn
  <2>3. CASE At(c, "signUp", "begun") /\ Goto(c, "read") /\ UNCHANGED <<kind, now, rows>>
    <3>1. Passing(c)
      BY <2>3, PassTurn DEF At
    <3> QED
      BY <3>1 DEF Turn
  <2>4. CASE At(c, "signUp", "read") /\ OpenCeremony(c, "signUp", None)
    <3>1. Opening(c)
      BY <1>1, <2>4, OpenTurn DEF Over, At, BeginOrganiserSignUp
    <3> QED
      BY <3>1 DEF Turn
  <2> QED
    BY <1>1, <2>1, <2>2, <2>3, <2>4 DEF BeginOrganiserSignUp
<1>2. CASE BeginOrganiserSignIn(c)
  <2>1. CASE Arrives(c) /\ Start(c, "signIn", None) /\ UNCHANGED <<kind, now, rows>>
    <3>1. Arrival(c)
      BY <2>1, ArrivalTurn DEF OpNames, AnswerOps, SessionOps, LockOps
    <3> QED
      BY <3>1 DEF Turn
  <2>2. CASE Refuse(c)
    BY <2>2, RefuseTurn DEF Turn
  <2>3. CASE At(c, "signIn", "begun") /\ OpenCeremony(c, "signIn", None)
    <3>1. Opening(c)
      BY <2>3, OpenTurn DEF Over, At
    <3> QED
      BY <3>1 DEF Turn
  <2> QED
    BY <1>2, <2>1, <2>2, <2>3 DEF BeginOrganiserSignIn
<1>3. CASE BeginHolderLink(c)
  <2>1. Immediate(c)
    BY <1>3, ImmediateEffect DEF BeginHolderLink, Immediate, Arrives, OpNames, Pcs, Over
  <2>2. Opening(c)
    BY <1>3, <2>1 DEF BeginHolderLink, Opening, Arrives, Over
  <2> QED
    BY <2>2 DEF Turn
<1>4. CASE CompleteOrganiserSignUp(c)
  <2>1. CASE Answer(c, "completeSignUp", "signUp")
    BY <2>1, AnswerTurn DEF AnswerOps, For
  <2>2. CASE Verify(c, "completeSignUp", TRUE)
    BY <2>2, VerifyTurn
  <2>3. CASE InsertOrganiser(c)
    <3>1. CASE account.exists
      BY <2>3, <3>1, RefuseTurn DEF InsertOrganiser, Turn
    <3>2. CASE ~account.exists
      <4> DEFINE acc == [account EXCEPT !.exists = TRUE, !.owner = call[c].arg]
      <4>1. OpenSession(c, "completeSignUp", acc) /\ At(c, "completeSignUp", "verified")
        BY <2>3, <3>2 DEF InsertOrganiser, OpenSession
      <4>2. call[c].arg \in Ids
        BY RequestFields
      <4>3. /\ acc \in [owner : Ids, exists : BOOLEAN, enrolled : BOOLEAN, disabled : BOOLEAN]
            /\ acc.disabled = account.disabled /\ acc.exists /\ acc.owner = call[c].arg
        BY <4>2
      <4> HIDE DEF acc
      <4>4. SigningIn(c)
        BY <1>4, <3>2, <4>1, <4>3, SignInTurn DEF CompleteOrganiserSignUp, AnswerOps
      <4> QED
        BY <4>4 DEF Turn
    <3> QED
      BY <3>1, <3>2
  <2> QED
    BY <1>4, <2>1, <2>2, <2>3 DEF CompleteOrganiserSignUp
<1>5. CASE CompleteOrganiserSignIn(c)
  <2>1. CASE Answer(c, "completeSignIn", "signIn")
    BY <2>1, AnswerTurn DEF AnswerOps, For
  <2>2. CASE Verify(c, "completeSignIn", account.exists)
    BY <2>2, VerifyTurn
  <2>3. CASE OpenSession(c, "completeSignIn", account)
    <3>1. SigningIn(c)
      BY <1>5, <2>3, SignInTurn DEF CompleteOrganiserSignIn, AnswerOps
    <3> QED
      BY <3>1 DEF Turn
  <2> QED
    BY <1>5, <2>1, <2>2, <2>3 DEF CompleteOrganiserSignIn
<1>6. CASE CompleteHolderLink(c)
  <2>1. CASE Answer(c, "completeLink", "link")
    BY <2>1, AnswerTurn DEF AnswerOps, For
  <2>2. CASE Verify(c, "completeLink", now < ceremonies[call[c].arg].until)
    BY <2>2, VerifyTurn
  <2>3. CASE OpenSession(c, "completeLink", [account EXCEPT !.exists = TRUE])
    <3> DEFINE acc == [account EXCEPT !.exists = TRUE]
    <3>1. /\ acc \in [owner : Ids, exists : BOOLEAN, enrolled : BOOLEAN, disabled : BOOLEAN]
          /\ acc.disabled = account.disabled /\ acc.exists /\ acc.owner = account.owner
          /\ OpenSession(c, "completeLink", acc)
      BY <2>3
    <3> HIDE DEF acc
    <3>2. SigningIn(c)
      BY <1>6, <3>1, SignInTurn DEF CompleteHolderLink, AnswerOps
    <3> QED
      BY <3>2 DEF Turn
  <2> QED
    BY <1>6, <2>1, <2>2, <2>3 DEF CompleteHolderLink
<1>7. CASE SignOut(c)
  <2>1. CASE \E s \in Rows : Arrives(c) /\ Authentic(s) /\ Start(c, "signOut", s)
               /\ UNCHANGED <<kind, now, rows>>
    <3>1. PICK s \in Rows : Arrives(c) /\ Authentic(s) /\ Start(c, "signOut", s)
            /\ UNCHANGED <<kind, now, rows>>
      BY <2>1
    <3>2. sessions[s].st = "open"
      BY <3>1 DEF Authentic
    <3>3. Arrival(c)
      BY <3>1, <3>2, ArrivalTurn DEF OpNames, AnswerOps, SessionOps, LockOps
    <3> QED
      BY <3>3 DEF Turn
  <2>2. CASE /\ At(c, "signOut", "begun") /\ \A d \in Calls : call[c].arg \notin call[d].ends
             /\ sessions' = [sessions EXCEPT ![call[c].arg].revoked = IF @ = None THEN now ELSE @]
             /\ End(c, "done")
             /\ UNCHANGED <<kind, now, account, codes, ceremonies, grants, reports, covered>>
    <3>1. Leaves(c, "done")
      BY <2>2, EndEffect DEF Pcs, Over
    <3>2. SigningOut(c)
      BY <2>2, <3>1 DEF SigningOut, At
    <3> QED
      BY <3>2 DEF Turn
  <2> QED
    BY <1>7, <2>1, <2>2 DEF SignOut
<1> QED
  BY <1>1, <1>2, <1>3, <1>4, <1>5, <1>6, <1>7, AuthStep(c) DEF AuthStep

\* A code is inserted, alone or after the codes before it are void
LEMMA IssueTurn ==
    ASSUME Types, NEW c \in Calls, NEW until \in 0 .. MaxTime + CodeLife,
           codes' = [Voided(c) EXCEPT ![c] = [st |-> "issued", until |-> until]],
           call[c].op # "revokeSessions", kind \in {"operator", "reviewer"},
           kind = "operator" => call[c].pc = "locked" /\ account' = account,
           kind = "reviewer" => call[c].pc \in {"idle", "voided"},
           account' \in [owner : Ids, exists : BOOLEAN, enrolled : BOOLEAN, disabled : BOOLEAN],
           account'.disabled = account.disabled,
           Leaves(c, "done") \/ Immediate(c),
           UNCHANGED <<kind, now, ceremonies, sessions, covered>>
    PROVE  Issuing(c)
<1>1. c \in Rows
  BY Lives
<1>2. \A k \in Rows : [codes[k] EXCEPT !.st = "voided"] \in CodeRow /\ codes[k] \in CodeRow
  BY Typed DEF CodeRow
<1>3. [st |-> "issued", until |-> until] \in CodeRow
  BY DEF CodeRow
<1>4. codes' \in [Rows -> CodeRow]
  BY <1>1, <1>2, <1>3 DEF Voided
<1>5. \A k \in Rows : [codes[k] EXCEPT !.st = "voided"].st = "voided"
  BY Typed DEF CodeRow
<1>6. \A k \in Rows : codes'[k].st = IF k = c THEN "issued"
                                     ELSE IF k \in call[c].voids THEN "voided" ELSE codes[k].st
  BY <1>1, <1>5 DEF Voided
<1> QED
  BY <1>4, <1>6 DEF Issuing

\* A request that voids nothing leaves the codes as they were.
LEMMA NothingVoided ==
    ASSUME Types, NEW c \in Calls, call[c].voids = {}
    PROVE  Voided(c) = codes
  BY Typed DEF Voided

\* A code issued now is open now.
LEMMA Lifetimes ==
    ASSUME Types, NEW c \in Calls
    PROVE  call[c].at + CodeLife \in 0 .. MaxTime + CodeLife
               /\ now + CodeLife \in 0 .. MaxTime + CodeLife
<1>1. call[c].at \in 0 .. MaxTime /\ now \in 0 .. MaxTime
  BY Typed, RequestFields DEF Times
<1> QED
  BY <1>1, Lives

\* Every step of operators and admission reports (operators/service.ts, reports.ts) is a turn.
LEMMA OperatorTurn ==
    ASSUME Types, NEW c \in Calls, RequestInv(c), OperatorStep(c)
    PROVE  Turn(c)
<1> USE Typed, NoneIsId
<1>1. CASE IssueEnrolmentCode(c)
  <2>1. CASE Arrives(c) /\ Start(c, "issueCode", None) /\ UNCHANGED <<kind, now, rows>>
    <3>1. Arrival(c)
      BY <2>1, ArrivalTurn DEF OpNames, AnswerOps, SessionOps, LockOps
    <3> QED
      BY <3>1 DEF Turn
  <2>2. CASE LockAccount(c, {"issueCode"})
    <3>1. LocksRow(c)
      BY <2>2, LockTurn DEF LockOps
    <3> QED
      BY <3>1 DEF Turn
  <2>3. CASE /\ At(c, "issueCode", "locked")
             /\ codes' = [codes EXCEPT ![c] = [st |-> "issued", until |-> call[c].at + CodeLife]]
             /\ End(c, "done")
             /\ UNCHANGED <<kind, now, account, ceremonies, sessions, grants, reports, covered>>
    <3>1. Leaves(c, "done")
      BY <2>3, EndEffect DEF Pcs, Over
    <3>2. call[c].voids = {}
      BY <2>3 DEF At, RequestInv
    <3>3. Issuing(c)
      BY <1>1, <2>3, <3>1, <3>2, IssueTurn, NothingVoided, Lifetimes DEF At, IssueEnrolmentCode
    <3> QED
      BY <3>3 DEF Turn
  <2> QED
    BY <1>1, <2>1, <2>2, <2>3 DEF IssueEnrolmentCode
<1>2. CASE RevokeSessions(c)
  <2>1. CASE Arrives(c) /\ Start(c, "revokeSessions", None) /\ UNCHANGED <<kind, now, rows>>
    <3>1. Arrival(c)
      BY <1>2, <2>1, ArrivalTurn DEF OpNames, AnswerOps, SessionOps, LockOps, RevokeSessions
    <3> QED
      BY <3>1 DEF Turn
  <2>2. CASE LockAccount(c, {"revokeSessions"})
    <3>1. LocksRow(c)
      BY <2>2, LockTurn DEF LockOps
    <3> QED
      BY <3>1 DEF Turn
  <2>3. CASE call[c].op = "revokeSessions" /\ VoidCodes(c)
    BY <2>3, VoidTurn DEF LockOps, Turn
  <2>4. CASE call[c].op = "revokeSessions" /\ EndSessions(c)
    BY <2>4, EndTurn DEF Turn
  <2>5. CASE /\ At(c, "revokeSessions", "ended")
             /\ codes' = Voided(c) /\ sessions' = Ended(c)
             /\ covered' = covered \cup Issued
             /\ End(c, "done")
             /\ UNCHANGED <<kind, now, account, ceremonies, grants, reports>>
    <3>1. Leaves(c, "done")
      BY <2>5, EndEffect DEF Pcs, Over
    <3>2. Revoking(c)
      BY <1>2, <2>5, <3>1 DEF Revoking, At, RevokeSessions
    <3> QED
      BY <3>2 DEF Turn
  <2> QED
    BY <1>2, <2>1, <2>2, <2>3, <2>4, <2>5 DEF RevokeSessions
<1>3. CASE RedeemOperatorEnrolmentCode(c)
  <2>1. CASE \E k \in Rows : /\ Arrives(c) /\ codes[k].st # "none"
                             /\ Start(c, "redeem", k) /\ UNCHANGED <<kind, now, rows>>
    <3>1. PICK k \in Rows : /\ Arrives(c) /\ codes[k].st # "none"
                            /\ Start(c, "redeem", k) /\ UNCHANGED <<kind, now, rows>>
      BY <2>1
    <3>2. Arrival(c)
      BY <3>1, ArrivalTurn DEF OpNames, AnswerOps, SessionOps, LockOps
    <3> QED
      BY <3>2 DEF Turn
  <2>2. CASE At(c, "redeem", "begun") /\ SpendCode(c, call[c].arg)
    <3>1. CodeOf(c) = call[c].arg
      BY <2>2 DEF At, CodeOf
    <3> QED
      BY <2>2, <3>1, SpendTurn DEF At
  <2>3. CASE call[c].op = "redeem" /\ InsertSession(c)
    BY <2>3, InsertTurn DEF Turn
  <2>4. CASE call[c].op = "redeem" /\ CommitSession(c, call[c].arg, None, account)
    <3>1. CodeOf(c) = call[c].arg
      BY <2>4 DEF CodeOf
    <3>2. Leaves(c, "done")
      BY <2>4, EndEffect DEF CommitSession, Pcs, Over
    <3>3. Committing(c)
      BY <1>3, <2>4, <3>1, <3>2 DEF Committing, CommitSession, RedeemOperatorEnrolmentCode
    <3> QED
      BY <3>3 DEF Turn
  <2> QED
    BY <1>3, <2>1, <2>2, <2>3, <2>4 DEF RedeemOperatorEnrolmentCode
<1>4. CASE Grant(c)
  <2>1. Immediate(c)
    BY <1>4, ImmediateEffect DEF Grant, Immediate, Arrives, OpNames, Pcs, Over
  <2>2. Answers(c)
    BY <1>4, <2>1 DEF Grant, Answers, Quiet
  <2> QED
    BY <2>2 DEF Turn
<1>5. CASE RevokeGrant(c)
  <2>1. Immediate(c)
    BY <1>5, ImmediateEffect DEF RevokeGrant, Immediate, Arrives, OpNames, Pcs, Over
  <2>2. Answers(c)
    BY <1>5, <2>1 DEF RevokeGrant, Answers, Quiet
  <2> QED
    BY <2>2 DEF Turn
<1>6. CASE Check(c)
  <2>1. CASE \E s \in Rows : Arrives(c) /\ Authentic(s) /\ Start(c, "check", s)
               /\ UNCHANGED <<kind, now, rows>>
    <3>1. PICK s \in Rows : Arrives(c) /\ Authentic(s) /\ Start(c, "check", s)
            /\ UNCHANGED <<kind, now, rows>>
      BY <2>1
    <3>2. sessions[s].st = "open"
      BY <3>1 DEF Authentic
    <3>3. Arrival(c)
      BY <3>1, <3>2, ArrivalTurn DEF OpNames, AnswerOps, SessionOps, LockOps
    <3> QED
      BY <3>3 DEF Turn
  <2>2. CASE End(c, "done") /\ UNCHANGED <<kind, now, rows>>
    <3>1. Leaves(c, "done")
      BY <2>2, EndEffect DEF Pcs, Over
    <3> QED
      BY <2>2, <3>1, QuietRows DEF Answers, Over, Turn
  <2>3. CASE Refuse(c)
    BY <2>3, RefuseTurn DEF Turn
  <2> QED
    BY <1>6, <2>1, <2>2, <2>3 DEF Check
<1>7. CASE ReportAdmission(c)
  <2>1. CASE \E s \in Rows, presented \in 0 .. now :
            /\ Arrives(c) /\ sessions[s].st = "open"
            /\ call' = [call EXCEPT ![c] = [Idle EXCEPT !.op = "report", !.pc = "begun",
                                                       !.arg = s, !.at = presented]]
            /\ UNCHANGED <<kind, now, rows>>
    <3>1. PICK s \in Rows, presented \in 0 .. now :
            /\ Arrives(c) /\ sessions[s].st = "open"
            /\ call' = [call EXCEPT ![c] = [Idle EXCEPT !.op = "report", !.pc = "begun",
                                                       !.arg = s, !.at = presented]]
            /\ UNCHANGED <<kind, now, rows>>
      BY <2>1
    <3>2. presented \in Times /\ presented <= now
      BY Lives DEF Times
    <3>3. "report" \in OpNames \ {"none"} /\ "begun" \in Pcs
      BY DEF OpNames, SessionOps, Pcs
    <3>4. Becomes(c, "report", "begun", s, presented, {}, {}, None)
      BY <3>1, <3>2, <3>3, BeginEffect
    <3>5. s \in Ids
      BY NoneIsId
    <3>6. Arrival(c)
      BY <3>1, <3>2, <3>3, <3>4, <3>5, QuietRows DEF Arrival, Arrives, AnswerOps
    <3> QED
      BY <3>6 DEF Turn
  <2>2. CASE LookUpSession(c)
    <3>1. CASE At(c, "report", "begun") /\ Goto(c, "known") /\ UNCHANGED <<kind, now, rows>>
      BY <3>1, PassTurn DEF At, Turn
    <3>2. CASE At(c, "report", "begun") /\ Goto(c, "unknown") /\ UNCHANGED <<kind, now, rows>>
      BY <3>2, PassTurn DEF At, Turn
    <3>3. CASE /\ At(c, "report", "unknown") /\ RevokedLately(call[c].arg)
               /\ call' = [call EXCEPT ![c].pc = "known",
                     ![c].revoked = sessions[call[c].arg].revoked]
               /\ UNCHANGED <<kind, now, rows>>
      <4>1. call[c].arg \in Rows
        BY <3>3 DEF At, RequestInv, SessionOps
      <4>2. sessions[call[c].arg].revoked \in Times \cup {None}
        BY <4>1 DEF SessionRow
      <4>3. Becomes(c, call[c].op, "known", call[c].arg, call[c].at, call[c].voids, call[c].ends,
                    sessions[call[c].arg].revoked)
        BY <3>3, <4>2, KnownEffect DEF Pcs
      <4>4. Passing(c)
        BY <3>3, <4>2, <4>3, QuietRows DEF Passing, At
      <4> QED
        BY <4>4 DEF Turn
    <3>4. CASE Refuse(c)
      BY <3>4, RefuseTurn DEF Turn
    <3> QED
      BY <2>2, <3>1, <3>2, <3>3, <3>4 DEF LookUpSession
  <2>3. CASE /\ At(c, "report", "known") /\ End(c, "done")
             /\ UNCHANGED <<kind, now, account, codes, ceremonies, sessions, grants, covered>>
    <3>1. Leaves(c, "done")
      BY <2>3, EndEffect DEF Pcs, Over
    <3> QED
      BY <2>3, <3>1 DEF Answers, Over, Turn, Quiet
  <2>4. CASE Refuse(c)
    BY <2>4, RefuseTurn DEF Turn
  <2> QED
    BY <1>7, <2>1, <2>2, <2>3, <2>4 DEF ReportAdmission
<1> QED
  BY <1>1, <1>2, <1>3, <1>4, <1>5, <1>6, <1>7, OperatorStep(c) DEF OperatorStep

\* Every step of reviewers (reviewers/service.ts) is a turn.
LEMMA ReviewerTurn ==
    ASSUME Types, NEW c \in Calls, RequestInv(c), ReviewerStep(c)
    PROVE  Turn(c)
<1> USE Typed, NoneIsId
<1>1. CASE CreateReviewer(c)
  <2>1. CASE account.exists
    <3>1. Immediate(c)
      BY <1>1, <2>1, ImmediateEffect DEF CreateReviewer, Immediate, Arrives, OpNames, Pcs, Over
    <3> QED
      BY <1>1, <2>1, <3>1 DEF CreateReviewer, Answers, Quiet, Turn
  <2>2. CASE ~account.exists
    <3>1. Immediate(c)
      BY <1>1, <2>2, ImmediateEffect DEF CreateReviewer, Immediate, Arrives, OpNames, Pcs, Over
    <3>2. call[c].voids = {} /\ call[c].pc = "idle" /\ call[c].op = "none"
      BY <1>1 DEF CreateReviewer, Arrives, RequestInv
    <3>3. c \in Ids
      BY Lives DEF Ids
    <3>4. /\ account' \in [owner : Ids, exists : BOOLEAN, enrolled : BOOLEAN, disabled : BOOLEAN]
          /\ account'.disabled = account.disabled
      BY <1>1, <2>2, <3>3 DEF CreateReviewer
    <3>5. Issuing(c)
      BY <1>1, <2>2, <3>1, <3>2, <3>4, IssueTurn, NothingVoided, Lifetimes DEF CreateReviewer
    <3> QED
      BY <3>5 DEF Turn
  <2> QED
    BY <2>1, <2>2
<1>2. CASE ReissueCode(c)
  <2>1. CASE Arrives(c) /\ Start(c, "reissueCode", None) /\ UNCHANGED <<kind, now, rows>>
    <3>1. Arrival(c)
      BY <2>1, ArrivalTurn DEF OpNames, AnswerOps, SessionOps, LockOps
    <3> QED
      BY <3>1 DEF Turn
  <2>2. CASE LockAccount(c, {"reissueCode"})
    <3>1. LocksRow(c)
      BY <2>2, LockTurn DEF LockOps
    <3> QED
      BY <3>1 DEF Turn
  <2>3. CASE Refuse(c)
    BY <2>3, RefuseTurn DEF Turn
  <2>4. CASE call[c].op = "reissueCode" /\ VoidCodes(c)
    BY <2>4, VoidTurn DEF LockOps, Turn
  <2>5. CASE /\ At(c, "reissueCode", "voided")
             /\ codes' = [Voided(c) EXCEPT ![c] = [st |-> "issued", until |-> now + CodeLife]]
             /\ End(c, "done")
             /\ UNCHANGED <<kind, now, account, ceremonies, sessions, grants, reports, covered>>
    <3>1. Leaves(c, "done")
      BY <2>5, EndEffect DEF Pcs, Over
    <3>2. Issuing(c)
      BY <1>2, <2>5, <3>1, IssueTurn, Lifetimes DEF At, ReissueCode
    <3> QED
      BY <3>2 DEF Turn
  <2> QED
    BY <1>2, <2>1, <2>2, <2>3, <2>4, <2>5 DEF ReissueCode
<1>3. CASE Disable(c)
  <2>1. CASE Arrives(c) /\ Start(c, "disable", None) /\ UNCHANGED <<kind, now, rows>>
    <3>1. Arrival(c)
      BY <2>1, ArrivalTurn DEF OpNames, AnswerOps, SessionOps, LockOps
    <3> QED
      BY <3>1 DEF Turn
  <2>2. CASE LockAccount(c, {"disable"})
    <3>1. LocksRow(c)
      BY <2>2, LockTurn DEF LockOps
    <3> QED
      BY <3>1 DEF Turn
  <2>3. CASE call[c].op = "disable" /\ VoidCodes(c)
    BY <2>3, VoidTurn DEF LockOps, Turn
  <2>4. CASE call[c].op = "disable" /\ EndSessions(c)
    BY <2>4, EndTurn DEF Turn
  <2>5. CASE /\ At(c, "disable", "ended")
             /\ account' = [account EXCEPT !.disabled = TRUE]
             /\ codes' = Voided(c) /\ sessions' = Ended(c)
             /\ ceremonies' = [k \in Rows |-> IF ceremonies[k].st = "open"
                                               THEN [ceremonies[k] EXCEPT !.st = "gone"]
                                               ELSE ceremonies[k]]
             /\ covered' = covered \cup Issued
             /\ End(c, "done")
             /\ UNCHANGED <<kind, now, grants, reports>>
    <3>1. Leaves(c, "done")
      BY <2>5, EndEffect DEF Pcs, Over
    <3>2. Revoking(c)
      BY <1>3, <2>5, <3>1 DEF Revoking, At, Disable
    <3> QED
      BY <3>2 DEF Turn
  <2> QED
    BY <1>3, <2>1, <2>2, <2>3, <2>4, <2>5 DEF Disable
<1>4. CASE BeginEnrolment(c)
  <2>1. CASE \E k \in Rows : /\ Arrives(c) /\ codes[k].st # "none"
                             /\ Start(c, "beginEnrolment", k) /\ UNCHANGED <<kind, now, rows>>
    <3>1. PICK k \in Rows : /\ Arrives(c) /\ codes[k].st # "none"
                            /\ Start(c, "beginEnrolment", k) /\ UNCHANGED <<kind, now, rows>>
      BY <2>1
    <3>2. Arrival(c)
      BY <3>1, ArrivalTurn DEF OpNames, AnswerOps, SessionOps, LockOps
    <3> QED
      BY <3>2 DEF Turn
  <2>2. CASE At(c, "beginEnrolment", "begun") /\ Goto(c, "read") /\ UNCHANGED <<kind, now, rows>>
    BY <2>2, PassTurn DEF At, Turn
  <2>3. CASE Refuse(c)
    BY <2>3, RefuseTurn DEF Turn
  <2>4. CASE At(c, "beginEnrolment", "read") /\ OpenCeremony(c, "enrolment", call[c].arg)
    <3>1. call[c].arg \in Rows /\ codes[call[c].arg].st # "none"
      BY <2>4 DEF At, RequestInv
    <3>2. Opening(c)
      BY <2>4, <3>1, OpenTurn DEF Over, At
    <3> QED
      BY <3>2 DEF Turn
  <2> QED
    BY <1>4, <2>1, <2>2, <2>3, <2>4 DEF BeginEnrolment
<1>5. CASE CompleteEnrolment(c)
  <2>1. CASE Answer(c, "completeEnrolment", "enrolment")
    BY <2>1, AnswerTurn DEF AnswerOps, For
  <2>2. CASE Verify(c, "completeEnrolment", TRUE)
    BY <2>2, VerifyTurn
  <2>3. CASE At(c, "completeEnrolment", "verified") /\ SpendCode(c, ceremonies[call[c].arg].code)
    <3>1. CodeOf(c) = ceremonies[call[c].arg].code
      BY <2>3 DEF At, CodeOf
    <3> QED
      BY <2>3, <3>1, SpendTurn DEF At
  <2>4. CASE call[c].op = "completeEnrolment" /\ InsertSession(c)
    BY <2>4, InsertTurn DEF Turn
  <2>5. CASE /\ call[c].op = "completeEnrolment"
             /\ CommitSession(c, ceremonies[call[c].arg].code, call[c].arg,
                   [account EXCEPT !.enrolled = TRUE])
    <3>1. CodeOf(c) = ceremonies[call[c].arg].code
      BY <2>5 DEF CodeOf
    <3>2. Leaves(c, "done")
      BY <2>5, EndEffect DEF CommitSession, Pcs, Over
    <3>3. Committing(c)
      BY <1>5, <2>5, <3>1, <3>2 DEF Committing, CommitSession, CompleteEnrolment
    <3> QED
      BY <3>3 DEF Turn
  <2> QED
    BY <1>5, <2>1, <2>2, <2>3, <2>4, <2>5 DEF CompleteEnrolment
<1>6. CASE BeginSignIn(c)
  <2>1. CASE Arrives(c) /\ Start(c, "beginSignIn", None) /\ UNCHANGED <<kind, now, rows>>
    <3>1. Arrival(c)
      BY <2>1, ArrivalTurn DEF OpNames, AnswerOps, SessionOps, LockOps
    <3> QED
      BY <3>1 DEF Turn
  <2>2. CASE At(c, "beginSignIn", "begun") /\ Goto(c, "read") /\ UNCHANGED <<kind, now, rows>>
    BY <2>2, PassTurn DEF At, Turn
  <2>3. CASE Refuse(c)
    BY <2>3, RefuseTurn DEF Turn
  <2>4. CASE At(c, "beginSignIn", "read") /\ OpenCeremony(c, "signIn", None)
    <3>1. Opening(c)
      BY <2>4, OpenTurn DEF Over, At
    <3> QED
      BY <3>1 DEF Turn
  <2> QED
    BY <1>6, <2>1, <2>2, <2>3, <2>4 DEF BeginSignIn
<1>7. CASE CompleteSignIn(c)
  <2>1. CASE Answer(c, "completeSignIn", "signIn")
    BY <2>1, AnswerTurn DEF AnswerOps, For
  <2>2. CASE Verify(c, "completeSignIn", account.enrolled)
    BY <2>2, VerifyTurn
  <2>3. CASE OpenSession(c, "completeSignIn", account)
    <3>1. SigningIn(c)
      BY <1>7, <2>3, SignInTurn DEF CompleteSignIn, AnswerOps
    <3> QED
      BY <3>1 DEF Turn
  <2> QED
    BY <1>7, <2>1, <2>2, <2>3 DEF CompleteSignIn
<1> QED
  BY <1>1, <1>2, <1>3, <1>4, <1>5, <1>6, <1>7, ReviewerStep(c) DEF ReviewerStep

\* Every step of the system is a turn of one request, the clock's, or none.
LEMMA NextTurn ==
    ASSUME Types, \A c \in Calls : RequestInv(c), [Next]_vars
    PROVE  (\E c \in Calls : Turn(c)) \/ Tick \/ UNCHANGED vars
<1>1. ASSUME NEW c \in Calls, Step(c) \/ DeadlockAborts(c) \/ Fail(c)
      PROVE  Turn(c)
  BY <1>1, AuthTurn, OperatorTurn, ReviewerTurn, FailTurn DEF Step, Turn
<1> QED
  BY <1>1 DEF Next

(* ------------------------------- the types ----------------------------- *)
AccountRow == [owner : Ids, exists : BOOLEAN, enrolled : BOOLEAN, disabled : BOOLEAN]
ReportRow == [st : {"none", "made"}, presented : Times, session : Ids]
CoreTypes ==
    /\ kind \in Kinds /\ now \in Times /\ account \in AccountRow
    /\ codes \in [Rows -> CodeRow] /\ ceremonies \in [Rows -> CeremonyRow]
    /\ sessions \in [Rows -> SessionRow] /\ covered \subseteq Rows
OtherTypes == grants \in [Rows -> GrantRow] /\ reports \in ReportRow

\* The types, table by table
LEMMA TypesSplit == Types <=> CoreTypes /\ OtherTypes /\ call \in [Calls -> Request]
<1>1. ASSUME call \in [Calls -> Request]
      PROVE  \A c \in Calls : /\ call[c].arg \in Ids /\ call[c].at \in Times
                              /\ call[c].voids \subseteq Rows /\ call[c].ends \subseteq Rows
                              /\ call[c].revoked \in Times \cup {None}
  BY <1>1, RequestFields
<1> QED
  BY <1>1 DEF Types, TypeOK, CoreTypes, OtherTypes, AccountRow, ReportRow

\* Tables that stay as they are stay well typed.
LEMMA QuietTypes == ASSUME CoreTypes, Quiet PROVE CoreTypes'
  BY DEF CoreTypes, Quiet, AccountRow, CodeRow, CeremonyRow, SessionRow, Ids, Rows, Calls, Times,
     Kinds

\* A new session is a session.
LEMMA NewSessionTyped ==
    ASSUME Types, NEW code \in Ids, NEW ceremony \in Ids
    PROVE  NewSession(code, ceremony) \in SessionRow
<1>1. now + SessionLife \in 0 .. MaxTime + SessionLife
  BY Typed, Lives DEF Times
<1> QED
  BY <1>1 DEF NewSession, SessionRow

\* Every turn keeps the types of accounts, codes, challenges and sessions.
LEMMA CoreTypesKept ==
    ASSUME Types, NEW c \in Calls, RequestInv(c), Turn(c)
    PROVE  CoreTypes'
<1> USE Typed
<1>0. CoreTypes /\ c \in Rows
  BY TypesSplit, Lives
<1>1. CASE Quiet
  BY <1>0, <1>1, QuietTypes
<1>2. CASE Opening(c)
  <2>1. now + CeremonyLife \in 0 .. MaxTime + CeremonyLife
    BY Lives DEF Times
  <2>2. PICK for \in {"signUp", "signIn", "link", "enrolment"}, code \in Ids :
          ceremonies' = [ceremonies EXCEPT ![c] = NewCeremony(for, code)]
    BY <1>2 DEF Opening
  <2>3. NewCeremony(for, code) \in CeremonyRow
    BY <2>1 DEF NewCeremony, CeremonyRow
  <2>4. ceremonies' \in [Rows -> CeremonyRow]
    BY <2>2, <2>3
  <2> QED
    BY <1>0, <1>2, <2>4 DEF Opening, CoreTypes
<1>3. CASE Consuming(c)
  <2>1. \A k \in Rows : [ceremonies[k] EXCEPT !.st = "gone"] \in CeremonyRow
    BY DEF CeremonyRow
  <2>2. ceremonies' \in [Rows -> CeremonyRow]
    BY <1>3, <2>1 DEF Consuming
  <2> QED
    BY <1>0, <1>3, <2>2 DEF Consuming, CoreTypes
<1>4. CASE SigningIn(c)
  <2>1. call[c].arg \in Ids /\ None \in Ids
    BY RequestFields DEF Ids
  <2>2. sessions' \in [Rows -> SessionRow]
    BY <1>4, <2>1, NewSessionTyped DEF SigningIn
  <2> QED
    BY <1>0, <1>4, <2>2 DEF SigningIn, CoreTypes, AccountRow
<1>5. CASE SigningOut(c)
  <2>1. \A s \in Rows, t \in Times \cup {None} : [sessions[s] EXCEPT !.revoked = t] \in SessionRow
    BY DEF SessionRow
  <2>2. \A s \in Rows : sessions[s].revoked \in Times \cup {None}
    BY DEF SessionRow
  <2>3. sessions' \in [Rows -> SessionRow]
    BY <1>5, <2>1, <2>2 DEF SigningOut
  <2> QED
    BY <1>0, <1>5, <2>3 DEF SigningOut, CoreTypes
<1>6. CASE Issuing(c)
  BY <1>0, <1>6 DEF Issuing, CoreTypes, AccountRow
<1>7. CASE Revoking(c)
  <2>1. \A k \in Rows : [codes[k] EXCEPT !.st = "voided"] \in CodeRow /\ codes[k] \in CodeRow
    BY DEF CodeRow
  <2>2. \A k \in Rows : [ceremonies[k] EXCEPT !.st = "gone"] \in CeremonyRow
          /\ ceremonies[k] \in CeremonyRow
    BY DEF CeremonyRow
  <2>3. \A s \in Rows,
          t \in Times \cup {None} : [sessions[s] EXCEPT !.revoked = t] \in SessionRow
                /\ sessions[s] \in SessionRow
    BY DEF SessionRow
  <2>4. call[c].at \in Times
    BY RequestFields
  <2>5. codes' \in [Rows -> CodeRow]
    BY <1>7, <2>1 DEF Revoking, Voided
  <2>6. sessions' \in [Rows -> SessionRow]
    BY <1>7, <2>3, <2>4 DEF Revoking, Ended
  <2>7. covered' \subseteq Rows
    BY <1>7 DEF Revoking, Issued
  <2>8. account' \in AccountRow
    BY <1>7 DEF Revoking, AccountRow
  <2>9. ceremonies' \in [Rows -> CeremonyRow]
    BY <1>7, <2>2 DEF Revoking
  <2> QED
    BY <1>0, <1>7, <2>5, <2>6, <2>7, <2>8, <2>9 DEF Revoking, CoreTypes
<1>8. CASE Committing(c)
  <2>1. \A k \in Rows : [codes[k] EXCEPT !.st = "redeemed"] \in CodeRow
    BY DEF CodeRow
  <2>2. codes' \in [Rows -> CodeRow]
    BY <1>8, <2>1 DEF Committing
  <2>3. call[c].arg \in Ids /\ None \in Ids
    BY RequestFields DEF Ids
  <2>4. \A k \in Rows : ceremonies[k].code \in Ids
    BY DEF CeremonyRow
  <2>5. CodeOf(c) \in Ids
    BY <1>8, <2>3, <2>4 DEF Committing, CodeOf, RequestInv, AnswerOps
  <2>6. sessions' \in [Rows -> SessionRow]
    BY <1>8, <2>3, <2>5, NewSessionTyped DEF Committing
  <2>7. account' \in AccountRow
    BY <1>8 DEF Committing, AccountRow
  <2> QED
    BY <1>0, <1>8, <2>2, <2>6, <2>7 DEF Committing, CoreTypes
<1> QED
  BY <1>1, <1>2, <1>3, <1>4, <1>5, <1>6, <1>7, <1>8
     DEF Turn, Arrival, Passing, Verifies, LocksRow, Spending, Inserting, Voiding, Ending, Answers

\* Every turn keeps its request well typed.
LEMMA CallTyped ==
    ASSUME NEW c \in Calls, Turn(c)
    PROVE  call' \in [Calls -> Request] /\ \A d \in Calls \ {c} : call'[d] = call[d]
  BY DEF Turn, Arrival, Passing, Verifies, LocksRow, Spending, Inserting, Voiding, Ending, Answers,
     Opening,
         Consuming, SigningIn, SigningOut, Issuing, Revoking, Committing, Becomes, Moves, Leaves,
               Immediate

\* The operators' grants and reports
\* The operators' grants and reports
LEMMA OtherTypesKept ==
    ASSUME Types, \A c \in Calls : RequestInv(c), [Next]_vars
    PROVE  OtherTypes'
<1> USE Typed
<1>0. OtherTypes
  BY TypesSplit
<1>1. CASE UNCHANGED <<grants, reports>>
  BY <1>0, <1>1 DEF OtherTypes
<1>2. ASSUME NEW c \in Calls, Grant(c) PROVE OtherTypes'
  <2>1. PICK from \in {now, now + 1} :
          grants' = [grants EXCEPT ![c] = [st |-> "made", from |-> from, until |-> from + 1,
                revoked |-> None]]
    BY <1>2 DEF Grant
  <2>2. from \in 0 .. MaxTime + 1 /\ from + 1 \in 0 .. MaxTime + 2
    BY Lives DEF Times
  <2>3. [st |-> "made", from |-> from, until |-> from + 1, revoked |-> None] \in GrantRow
    BY <2>2 DEF GrantRow
  <2> QED
    BY <1>0, <1>2, <2>1, <2>3 DEF Grant, OtherTypes
<1>3. ASSUME NEW c \in Calls, RevokeGrant(c) PROVE OtherTypes'
  <2>1. \A g \in Rows, t \in Times \cup {None} : [grants[g] EXCEPT !.revoked = t] \in GrantRow
    BY DEF GrantRow
  <2>2. \A g \in Rows : grants[g].revoked \in Times \cup {None}
    BY DEF GrantRow
  <2>3. PICK g \in Rows : grants' = [grants EXCEPT ![g].revoked = IF @ = None THEN now ELSE @]
    BY <1>3 DEF RevokeGrant
  <2>4. grants' \in [Rows -> GrantRow]
    BY <2>1, <2>2, <2>3
  <2> QED
    BY <1>0, <1>3, <2>4 DEF RevokeGrant, OtherTypes
<1>4. ASSUME NEW c \in Calls, ReportAdmission(c) PROVE OtherTypes'
  <2>1. CASE UNCHANGED <<grants, reports>>
    BY <1>0, <2>1 DEF OtherTypes
  <2>2. CASE /\ UNCHANGED grants
             /\ reports' = IF reports = NoReport
                           THEN [st |-> "made", presented |-> call[c].at, session |-> call[c].arg]
                           ELSE reports
    <3>1. call[c].at \in Times /\ call[c].arg \in Ids
      BY RequestFields
    <3> QED
      BY <1>0, <2>2, <3>1 DEF OtherTypes, ReportRow
  <2> QED
    BY <1>4, <2>1, <2>2 DEF ReportAdmission, LookUpSession, Refuse, rows
<1>5. ASSUME NEW c \in Calls, AuthStep(c) PROVE UNCHANGED <<grants, reports>>
  BY <1>5 DEF AuthStep, BeginOrganiserSignUp, BeginOrganiserSignIn, BeginHolderLink,
     CompleteOrganiserSignUp,
     CompleteOrganiserSignIn, CompleteHolderLink, SignOut, Answer, Verify, InsertOrganiser,
           OpenSession,
     OpenCeremony, ConsumeCeremony, Refuse, rows
<1>6. ASSUME NEW c \in Calls, ReviewerStep(c) PROVE UNCHANGED <<grants, reports>>
  BY <1>6 DEF ReviewerStep, CreateReviewer, ReissueCode, Disable, BeginEnrolment,
     CompleteEnrolment, BeginSignIn,
     CompleteSignIn, Answer, Verify, OpenSession, OpenCeremony, ConsumeCeremony, Refuse,
           LockAccount, VoidCodes,
     EndSessions, SpendCode, InsertSession, CommitSession, rows
<1>7. ASSUME NEW c \in Calls, OperatorStep(c) PROVE OtherTypes'
  <2>1. CASE IssueEnrolmentCode(c) \/ RevokeSessions(c) \/ RedeemOperatorEnrolmentCode(c)
               \/ Check(c)
    BY <1>1, <2>1 DEF IssueEnrolmentCode, RevokeSessions, RedeemOperatorEnrolmentCode, Check,
       Refuse, LockAccount,
       VoidCodes, EndSessions, SpendCode, InsertSession, CommitSession, rows
  <2> QED
    BY <1>2, <1>3, <1>4, <1>7, <2>1 DEF OperatorStep
<1>8. ASSUME NEW c \in Calls, DeadlockAborts(c) \/ Fail(c) PROVE UNCHANGED <<grants, reports>>
  BY <1>8 DEF DeadlockAborts, Fail, rows
<1>9. CASE Tick \/ UNCHANGED vars
  BY <1>1, <1>9 DEF Tick, vars, rows
<1> QED
  BY <1>1, <1>5, <1>6, <1>7, <1>8, <1>9 DEF Next, Step

\* The types, put together again
LEMMA TypesJoin ==
    ASSUME CoreTypes', OtherTypes', call' \in [Calls -> Request]
    PROVE  Types'
<1>1. \A c \in Calls : /\ call'[c].arg \in Ids /\ call'[c].at \in Times
                       /\ call'[c].voids \subseteq Rows /\ call'[c].ends \subseteq Rows
                       /\ call'[c].revoked \in Times \cup {None}
  BY RequestFields
<1> QED
  BY <1>1 DEF Types, TypeOK, CoreTypes, OtherTypes, AccountRow, ReportRow

\* Every step keeps every table and every request well typed.
LEMMA TypesKept ==
    ASSUME Types, \A c \in Calls : RequestInv(c), [Next]_vars
    PROVE  Types'
<1>0. CoreTypes /\ call \in [Calls -> Request]
  BY TypesSplit
<1>1. OtherTypes'
  BY OtherTypesKept
<1>2. CASE \E c \in Calls : Turn(c)
  BY <1>1, <1>2, CoreTypesKept, CallTyped, TypesJoin
<1>3. CASE Tick
  <2>1. now' \in Times
    BY <1>3, Lives, Typed DEF Tick, Times
  <2>2. CoreTypes'
    BY <1>0, <1>3, <2>1 DEF Tick, CoreTypes, rows, AccountRow, CodeRow, CeremonyRow, SessionRow,
       Ids, Rows, Calls,
       Times, Kinds
  <2> QED
    BY <1>0, <1>1, <1>3, <2>2, TypesJoin DEF Tick
<1>4. CASE UNCHANGED vars
  <2>1. Quiet /\ call' = call
    BY <1>4 DEF vars, Quiet
  <2> QED
    BY <1>0, <1>1, <2>1, QuietTypes, TypesJoin
<1> QED
  BY <1>2, <1>3, <1>4, NextTurn

(* ------------------------- rows, requests, locks ----------------------- *)
(* Nothing is un-spent, un-answered, re-opened or un-revoked. *)
RowsKept ==
    /\ kind' = kind /\ now <= now' /\ now' \in Nat
    /\ \A k \in Rows : ceremonies[k].st # "none" =>
         /\ ceremonies'[k].st # "none" /\ ceremonies'[k].for = ceremonies[k].for
         /\ ceremonies'[k].code = ceremonies[k].code
         /\ ceremonies[k].st = "gone" => ceremonies'[k].st = "gone"
    /\ \A k \in Rows : /\ codes[k].st # "none" => codes'[k].st # "none"
                       /\ codes[k].st = "redeemed" => codes'[k].st = "redeemed"
    /\ \A s \in Rows : sessions[s].st = "open" =>
         /\ sessions'[s].st = "open" /\ sessions'[s].code = sessions[s].code
         /\ sessions'[s].ceremony = sessions[s].ceremony /\ sessions'[s].until = sessions[s].until
         /\ sessions[s].revoked # None => sessions'[s].revoked = sessions[s].revoked

\* Tables that stay as they are keep their rows.
LEMMA QuietKeeps == ASSUME Types, Quiet PROVE RowsKept
  BY Typed DEF Quiet, RowsKept

\* A code that is issued and held is redeemed or voided by its holder alone.
LEMMA CodeLocked ==
    ASSUME Types, NEW c \in Calls, RequestInv(c), CeremonyInv, Spends(c) \/ Spending(c)
    PROVE  CodeOf(c) \in Rows /\ codes[CodeOf(c)].st # "none"
<1>1. call[c].op \in {"redeem", "completeEnrolment"}
  BY DEF RequestInv, Spending
<1>2. CASE call[c].op = "redeem"
  BY <1>2 DEF RequestInv, CodeOf
<1>3. CASE call[c].op = "completeEnrolment"
  BY <1>3 DEF RequestInv, CodeOf, CeremonyInv, AnswerOps, For
<1> QED
  BY <1>1, <1>2, <1>3

\* Nothing is unspent, unanswered, reopened or restored, whatever the turn.
LEMMA RowsKeptByTurn ==
    ASSUME Types, RowsInv, NEW c \in Calls, Turn(c)
    PROVE  RowsKept
<1> USE Typed
<1>0. c \in Rows /\ RequestInv(c)
  BY Lives DEF RowsInv
<1>1. CASE Quiet
  BY <1>1, QuietKeeps
<1>2. CASE Opening(c)
  BY <1>0, <1>2 DEF Opening, RowsKept, RowsInv, Fresh, Over
<1>3. CASE Consuming(c)
  BY <1>0, <1>3 DEF Consuming, RowsKept, CeremonyRow
<1>4. CASE SigningIn(c)
  BY <1>0, <1>4 DEF SigningIn, RowsKept, RowsInv, Fresh, Over
<1>5. CASE SigningOut(c)
  BY <1>0, <1>5 DEF SigningOut, RowsKept, SessionRow
<1>6. CASE Issuing(c)
  <2>1. call[c].pc \notin Over
    BY <1>6, Typed DEF Issuing, Over, Kinds
  <2>2. \A k \in call[c].voids : codes[k].st = "issued"
    BY RequestFields DEF RowsInv, LocksInv, HoldsCode
  <2> QED
    BY <1>0, <1>6, <2>1, <2>2 DEF Issuing, RowsKept, RowsInv, Fresh, Over
<1>7. CASE Revoking(c)
  <2>1. \A k \in call[c].voids : codes[k].st = "issued"
    BY RequestFields DEF RowsInv, LocksInv, HoldsCode
  <2>2. \A s \in call[c].ends : sessions[s].revoked = None
    BY DEF RowsInv, LocksInv
  <2>3. \A k \in Rows : codes'[k].st = IF k \in call[c].voids THEN "voided" ELSE codes[k].st
    BY <1>7 DEF Revoking, Voided, CodeRow
  <2>4. \A s \in Rows : /\ sessions'[s].st = sessions[s].st /\ sessions'[s].code = sessions[s].code
                        /\ sessions'[s].ceremony = sessions[s].ceremony
                        /\ sessions'[s].until = sessions[s].until
                        /\ s \notin call[c].ends => sessions'[s].revoked = sessions[s].revoked
    BY <1>7 DEF Revoking, Ended, SessionRow
  <2>5. \A k \in Rows : /\ ceremonies'[k].for = ceremonies[k].for
                        /\ ceremonies'[k].code = ceremonies[k].code
                        /\ ceremonies[k].st # "open" => ceremonies'[k].st = ceremonies[k].st
                        /\ ceremonies[k].st = "open" => ceremonies'[k].st # "none"
    BY <1>7 DEF Revoking, CeremonyRow
  <2> QED
    BY <1>0, <1>7, <2>1, <2>2, <2>3, <2>4, <2>5 DEF RowsKept, Revoking
<1>8. CASE Committing(c)
  <2>1. \A s \in Rows \ {c} : sessions'[s] = sessions[s]
    BY <1>8 DEF Committing
  <2>2. sessions[c].st = "none"
    BY <1>8 DEF Committing, RowsInv, Fresh, Over
  <2>3. \A k \in Rows : codes'[k].st = IF k = CodeOf(c) THEN "redeemed" ELSE codes[k].st
    BY <1>8 DEF Committing, CodeRow
  <2>4. kind' = kind /\ now' = now /\ ceremonies' = ceremonies
    BY <1>8 DEF Committing
  <2> QED
    BY <1>0, <2>1, <2>2, <2>3, <2>4 DEF RowsKept
<1> QED
  BY <1>1, <1>2, <1>3, <1>4, <1>5, <1>6, <1>7, <1>8
     DEF Turn, Arrival, Passing, Verifies, LocksRow, Spending, Inserting, Voiding, Ending, Answers

\* A row is inserted once, by the request it is numbered for.
LEMMA FreshKept ==
    ASSUME Types, RowsInv, NEW c \in Calls, Turn(c)
    PROVE  Fresh'
<1> USE Typed
<1>1. c \in Rows /\ Calls \subseteq Rows /\ RequestInv(c) /\ Fresh
  BY Lives DEF RowsInv
<1>2. \A d \in Calls \ {c} : call'[d] = call[d]
  BY CallTyped
<1> SUFFICES ASSUME NEW d \in Calls, call'[d].pc \notin Over
             PROVE  codes'[d].st = "none" /\ ceremonies'[d].st = "none" /\ sessions'[d].st = "none"
  BY DEF Fresh
<1>3. call'[c].pc \notin Over => call[c].pc \notin Over
  BY DEF Turn, Arrival, Passing, Verifies, LocksRow, Spending, Inserting, Voiding, Ending, Answers,
     Opening,
     Consuming, SigningIn, SigningOut, Issuing, Revoking, Committing, Becomes, Moves, Leaves,
           Immediate, Over
<1>4. call[d].pc \notin Over
  BY <1>2, <1>3
<1>5. d \in Rows /\ codes[d].st = "none" /\ ceremonies[d].st = "none" /\ sessions[d].st = "none"
  BY <1>1, <1>4 DEF Fresh
<1>6. CASE Quiet
  BY <1>5, <1>6 DEF Quiet
<1>7. CASE Opening(c)
  <2>1. call'[c].pc \in Over
    BY <1>7 DEF Opening, Leaves, Immediate, Becomes, Over
  <2> QED
    BY <1>5, <1>7, <2>1 DEF Opening
<1>8. CASE Consuming(c)
  <2>1. call[c].arg # d
    BY <1>1, <1>5, <1>8 DEF Consuming
  <2> QED
    BY <1>5, <1>8, <2>1 DEF Consuming
<1>9. CASE SigningIn(c)
  <2>1. call'[c].pc \in Over
    BY <1>9 DEF SigningIn, Leaves, Becomes, Over
  <2> QED
    BY <1>5, <1>9, <2>1 DEF SigningIn
<1>10. CASE SigningOut(c)
  BY <1>5, <1>10 DEF SigningOut, SessionRow
<1>11. CASE Issuing(c)
  <2>1. call'[c].pc \in Over
    BY <1>11 DEF Issuing, Leaves, Immediate, Becomes, Over
  <2>2. d \notin call[c].voids
    BY <1>5 DEF RowsInv, LocksInv, HoldsCode
  <2> QED
    BY <1>5, <1>11, <2>1, <2>2 DEF Issuing
<1>12. CASE Revoking(c)
  <2>1. d \notin call[c].voids
    BY <1>5 DEF RowsInv, LocksInv, HoldsCode
  <2>2. d \notin call[c].ends
    BY <1>5 DEF RowsInv, LocksInv
  <2>3. codes'[d] = codes[d] /\ sessions'[d] = sessions[d]
    BY <1>5, <1>12, <2>1, <2>2 DEF Revoking, Voided, Ended
  <2>4. ceremonies'[d] = ceremonies[d]
    BY <1>5, <1>12 DEF Revoking
  <2> QED
    BY <1>5, <2>3, <2>4
<1>13. CASE Committing(c)
  <2>1. call'[c].pc \in Over
    BY <1>13 DEF Committing, Leaves, Becomes, Over
  <2>2. CodeOf(c) # d
    BY <1>1, <1>5, <1>13, CodeLocked DEF Committing, Spends, RowsInv
  <2>3. sessions'[d] = sessions[d] /\ codes'[d] = codes[d] /\ ceremonies' = ceremonies
    BY <1>5, <1>13, <2>1, <2>2 DEF Committing
  <2> QED
    BY <1>5, <2>3
<1> QED
  BY <1>6, <1>7, <1>8, <1>9, <1>10, <1>11, <1>12, <1>13
     DEF Turn, Arrival, Passing, Verifies, LocksRow, Spending, Inserting, Voiding, Ending, Answers

\* What a request has read is still so after anyone else's turn.
LEMMA OthersKept ==
    ASSUME Types, RowsKept, NEW d \in Calls, RequestInv(d), call'[d] = call[d]
    PROVE  RequestInv(d)'
<1>1. call[d].at \in Nat /\ now \in Nat
  BY Typed, RequestFields, Lives DEF Times
<1> QED
  BY <1>1 DEF RequestInv, RowsKept, Spends, AnswerOps, SessionOps

\* What a request has read is so after its own turn.
LEMMA OwnKept ==
    ASSUME Types, RowsInv, NEW c \in Calls, Turn(c), RowsKept
    PROVE  RequestInv(c)'
<1> DEFINE r == call[c]
<1>0. RequestInv(c)
  BY DEF RowsInv
<1>1. /\ call[c].at \in Nat /\ now \in Nat /\ r.op \in OpNames /\ r.pc \in Pcs
  BY Typed, RequestFields, Lives DEF Times
<1>2. CASE Arrival(c)
  BY <1>2, <1>1, Typed DEF Arrival, RequestInv, Quiet, Becomes, Spends, Answered, Locked
<1>3. CASE Passing(c)
  BY <1>0, <1>1, <1>3 DEF Passing, RequestInv, Quiet, Becomes, Spends, Answered, Locked, AnswerOps
<1>4. CASE Verifies(c)
  BY <1>0, <1>1, <1>4 DEF Verifies, RequestInv, Quiet, Moves, Becomes, Spends, Answered, Locked
<1>5. CASE LocksRow(c)
  BY <1>0, <1>1, <1>5 DEF LocksRow, RequestInv, Quiet, Moves, Becomes, Spends, Answered, Locked,
     LockOps, AnswerOps
<1>6. CASE Spending(c)
  BY <1>0, <1>1, <1>6 DEF Spending, RequestInv, Quiet, Moves, Becomes, Spends, Answered, Locked,
     AnswerOps
<1>7. CASE Inserting(c)
  BY <1>0, <1>1, <1>7 DEF Inserting, RequestInv, Quiet, Moves, Becomes, Spends, Answered, Locked
<1>8. CASE Voiding(c)
  BY <1>0, <1>1, <1>8 DEF Voiding, RequestInv, Quiet, Becomes, Spends, Answered, Locked
<1>9. CASE Ending(c)
  BY <1>0, <1>1, <1>9 DEF Ending, RequestInv, Quiet, Becomes, Spends, Answered, Locked
<1>10. ASSUME NEW p \in Over, Leaves(c, p) PROVE RequestInv(c)'
  BY <1>0, <1>1, <1>10 DEF Leaves, RequestInv, RowsKept, Becomes, Spends, Answered, Locked, Over,
     AnswerOps, SessionOps
<1>11. ASSUME Immediate(c) PROVE RequestInv(c)'
  BY <1>0, <1>1, <1>11 DEF Immediate, RequestInv, RowsKept, Becomes, Spends, Answered, Locked,
     Over, AnswerOps, SessionOps, LockOps
<1>12. CASE Consuming(c) /\ Moves(c, "consumed")
  <2>1. ceremonies'[r.arg].st = "gone"
    BY <1>0, <1>12, Typed DEF Consuming, RequestInv, CeremonyRow
  <2> QED
    BY <1>0, <1>1, <1>12, <2>1 DEF Consuming, RequestInv, RowsKept, Moves, Becomes, Spends,
       Answered, Locked, AnswerOps, SessionOps
<1> QED
  BY <1>2, <1>3, <1>4, <1>5, <1>6, <1>7, <1>8, <1>9, <1>10, <1>11, <1>12
     DEF Turn, Answers, Opening, Consuming, SigningIn, SigningOut, Issuing, Revoking, Committing,
        Over

\* What a challenge was opened for stays there.
LEMMA CeremonyKept ==
    ASSUME Types, RowsInv, NEW c \in Calls, Turn(c), RowsKept
    PROVE  CeremonyInv'
<1>1. CASE Opening(c)
  <2>1. PICK for \in {"signUp", "signIn", "link", "enrolment"}, code \in Ids :
         /\ for = "enrolment" => code \in Rows /\ codes[code].st # "none"
         /\ for = "signUp" => kind = "organiser"
         /\ ceremonies' = [ceremonies EXCEPT ![c] = NewCeremony(for, code)]
    BY <1>1 DEF Opening
  <2>2. ceremonies'[c].for = for /\ ceremonies'[c].code = code
    BY <2>1, Typed, Lives DEF NewCeremony
  <2>3. \A k \in Rows \ {c} : ceremonies'[k] = ceremonies[k]
    BY <2>1, Typed
  <2> QED
    BY <2>1, <2>2, <2>3 DEF CeremonyInv, RowsInv, RowsKept
<1>2. CASE ~Opening(c)
  <2>1. \A k \in Rows : ceremonies'[k].st # "none" => ceremonies[k].st # "none"
    BY <1>2, Typed DEF Turn, Arrival, Passing, Verifies, LocksRow, Spending, Inserting, Voiding,
       Ending, Answers, Quiet,
       Consuming, SigningIn, SigningOut, Issuing, Revoking, Committing, CeremonyRow
  <2> QED
    BY <2>1 DEF CeremonyInv, RowsInv, RowsKept
<1> QED
  BY <1>1, <1>2

\* What a request holds is read off its own progress: nobody else's step changes it.
LEMMA HoldsKept ==
    ASSUME Types, RowsInv, RowsKept, NEW d \in Calls, call'[d] = call[d], NEW k \in Rows
    PROVE  HoldsCode(d, k)' <=> HoldsCode(d, k)
<1>1. RequestInv(d)
  BY DEF RowsInv
<1> QED
  BY <1>1 DEF HoldsCode, Spends, RowsKept, RequestInv, AnswerOps

\* What a request takes, it takes free and issued, and changes no row by taking it.
LEMMA OwnHolds ==
    ASSUME Types, RowsInv, RowsKept, NEW c \in Calls, Turn(c), NEW k \in Rows, HoldsCode(c, k)'
    PROVE  /\ codes[k].st = "issued" /\ codes' = codes
           /\ \A d \in Calls \ {c} : ~HoldsCode(d, k)
<1>1. RequestInv(c) /\ LocksInv /\ RequestInv(c)'
  BY OwnKept DEF RowsInv
<1>2. CASE Quiet
  <2>1. HoldsCode(c, k) \/ (Spending(c) /\ k = CodeOf(c)) \/ (Voiding(c) /\ codes[k].st = "issued")
    <3>1. CASE Spending(c)
      BY <1>1, <1>2, <3>1 DEF Spending, HoldsCode, Spends, CodeOf, Quiet, Moves, Becomes, RequestInv
    <3>2. CASE Voiding(c)
      BY <1>1, <1>2, <3>2 DEF Voiding, HoldsCode, Spends, Quiet, Becomes
    <3>3. CASE Inserting(c) \/ Verifies(c) \/ LocksRow(c)
      BY <1>1, <1>2, <3>3 DEF Inserting, Verifies, LocksRow, HoldsCode, Spends, Quiet, Moves,
         Becomes, RequestInv
    <3>4. CASE Passing(c)
      BY <1>1, <1>2, <3>4 DEF Passing, HoldsCode, Spends, Quiet, Becomes, RequestInv
    <3>5. CASE Ending(c)
      BY <1>1, <1>2, <3>5 DEF Ending, HoldsCode, Spends, Quiet, Becomes, RequestInv
    <3>6. CASE Arrival(c) \/ Answers(c)
      BY <1>1, <1>2, <3>6 DEF Arrival, Answers, HoldsCode, Spends, Quiet, Becomes, RequestInv,
         Leaves, Immediate, Over
    <3>7. CASE Opening(c) \/ Consuming(c) \/ SigningIn(c) \/ SigningOut(c) \/ Issuing(c)
                 \/ Revoking(c) \/ Committing(c)
      BY <1>1, <1>2, <3>7 DEF Opening, Consuming, SigningIn, SigningOut, Issuing, Revoking,
         Committing, HoldsCode, Spends, Becomes,
         RequestInv, Moves, Leaves, Immediate, Over
    <3> QED
      BY <3>1, <3>2, <3>3, <3>4, <3>5, <3>6, <3>7 DEF Turn
  <2> QED
    BY <1>1, <1>2, <2>1 DEF LocksInv, Spending, Voiding, CodeFree, Quiet
<1>3. CASE ~Quiet
  <2>1. Opening(c) \/ Consuming(c) \/ SigningIn(c) \/ SigningOut(c) \/ Issuing(c) \/ Revoking(c)
          \/ Committing(c)
    BY <1>3 DEF Turn, Arrival, Passing, Verifies, LocksRow, Spending, Inserting, Voiding, Ending,
       Answers
  <2>2. call'[c].voids = {} /\ ~Spends(c)'
    BY <1>1, <2>1 DEF Opening, Consuming, SigningIn, SigningOut, Issuing, Revoking, Committing,
       Spends, Becomes,
       RequestInv, Moves, Leaves, Immediate, Over
  <2> QED
    BY <2>2 DEF HoldsCode
<1> QED
  BY <1>2, <1>3

\* A request that goes on holding a code held it before.
LEMMA HeldKept ==
    ASSUME Types, RowsInv, RowsKept, NEW c \in Calls, Turn(c), NEW d \in Calls \ {c},
           NEW k \in Rows, HoldsCode(d, k)
    PROVE  codes'[k].st = "issued"
<1>1. codes[k].st = "issued" /\ ~HoldsCode(c, k) /\ c \in Rows
  BY Lives DEF RowsInv, LocksInv
<1>2. CASE codes' = codes
  BY <1>1, <1>2
<1>3. CASE Issuing(c)
  BY <1>1, <1>3 DEF Issuing, HoldsCode
<1>4. CASE Revoking(c)
  BY <1>1, <1>4 DEF Revoking, Voided, HoldsCode
<1>5. CASE Committing(c)
  <2>1. k # CodeOf(c)
    BY <1>1, <1>5 DEF Committing, HoldsCode, Spends, CodeOf
  <2> QED
    BY <1>1, <1>5, <2>1, Typed DEF Committing
<1> QED
  BY <1>2, <1>3, <1>4, <1>5 DEF Turn, Arrival, Passing, Verifies, LocksRow, Spending, Inserting,
     Voiding, Ending, Answers, Quiet,
     Opening, Consuming, SigningIn, SigningOut

\* Row locks are exclusive, and what is locked to be spent or voided is still issued.
LEMMA LocksKept ==
    ASSUME Types, RowsInv, NEW c \in Calls, Turn(c), RowsKept
    PROVE  LocksInv'
<1> USE Typed
<1>1. LocksInv /\ RequestInv(c) /\ RequestInv(c)' /\ \A d \in Calls \ {c} : call'[d] = call[d]
  BY OwnKept, CallTyped DEF RowsInv
<1>2. ASSUME NEW d \in Calls, NEW k \in Rows, HoldsCode(d, k)'
      PROVE  codes'[k].st = "issued"
  <2>1. CASE d = c
    BY <1>2, <2>1, OwnHolds
  <2>2. CASE d # c
    BY <1>1, <1>2, <2>2, HoldsKept, HeldKept
  <2> QED
    BY <2>1, <2>2
<1>3. ASSUME NEW d \in Calls, NEW e \in Calls, NEW k \in Rows, HoldsCode(d, k)', HoldsCode(e, k)'
      PROVE  d = e
  <2>1. CASE d # c /\ e # c
    BY <1>1, <1>3, <2>1, HoldsKept DEF LocksInv
  <2>2. CASE d = c /\ e # c
    BY <1>1, <1>3, <2>2, HoldsKept, OwnHolds
  <2>3. CASE d # c /\ e = c
    BY <1>1, <1>3, <2>3, HoldsKept, OwnHolds
  <2> QED
    BY <2>1, <2>2, <2>3
<1>4. HoldsAccount(c)' => HoldsAccount(c) \/ LocksRow(c)
  BY <1>1 DEF Turn, Arrival, Passing, Verifies, LocksRow, Spending, Inserting, Voiding, Ending,
     Answers, Opening,
     Consuming, SigningIn, SigningOut, Issuing, Revoking, Committing, Becomes, Moves, Leaves,
           Immediate, Over, HoldsAccount
<1>5. SharesAccount(c)' => Inserting(c)
  BY <1>1 DEF Turn, Arrival, Passing, Verifies, LocksRow, Spending, Inserting, Voiding, Ending,
     Answers, Opening,
     Consuming, SigningIn, SigningOut, Issuing, Revoking, Committing, Becomes, Moves, Leaves,
           Immediate, Over, SharesAccount
<1>6. \A d \in Calls \ {c} : (HoldsAccount(d)' <=> HoldsAccount(d))
        /\ (SharesAccount(d)' <=> SharesAccount(d))
  BY <1>1 DEF HoldsAccount, SharesAccount
<1>7. ~(HoldsAccount(c)' /\ SharesAccount(c)')
  BY DEF HoldsAccount, SharesAccount
<1>8. ASSUME NEW d \in Calls, NEW e \in Calls, HoldsAccount(d)', HoldsAccount(e)'
               \/ SharesAccount(e)'
      PROVE  d = e
  BY <1>1, <1>4, <1>5, <1>6, <1>7, <1>8 DEF LocksInv, LocksRow, Inserting, AccountUnlocked
<1>9. ASSUME NEW d \in Calls, NEW s \in call'[d].ends
      PROVE  sessions'[s].st = "open" /\ sessions'[s].revoked = None
  <2>0. s \in Rows
    BY CallTyped, RequestFields
  <2>1. CASE d = c
    <3>1. sessions' = sessions /\ (s \in call[c].ends \/ (sessions[s].st = "open"
            /\ sessions[s].revoked = None))
      BY <1>1, <1>9, <2>1 DEF Turn, Arrival, Passing, Verifies, LocksRow, Spending, Inserting,
         Voiding, Ending, Answers, Opening,
         Consuming, SigningIn, SigningOut, Issuing, Revoking, Committing, Becomes, Moves, Leaves,
               Immediate, Over, RequestInv, Quiet
    <3> QED
      BY <1>1, <3>1 DEF LocksInv
  <2>2. CASE d # c
    <3>1. s \in call[d].ends /\ sessions[s].st = "open" /\ sessions[s].revoked = None
      BY <1>1, <1>9, <2>2 DEF LocksInv
    <3>2. sessions'[s].st = "open"
      BY <2>0, <3>1 DEF RowsKept
    <3>3. CASE sessions' = sessions
      BY <3>1, <3>3
    <3>4. CASE SigningIn(c)
      BY <2>0, <3>1, <3>4, Lives DEF SigningIn, RowsInv, Fresh, Over
    <3>5. CASE SigningOut(c)
      BY <2>0, <2>2, <3>1, <3>5 DEF SigningOut
    <3>6. CASE Revoking(c)
      <4>1. HoldsAccount(d) /\ HoldsAccount(c)
        BY <3>1, <3>6 DEF Revoking, HoldsAccount, RowsInv, RequestInv
      <4> QED
        BY <1>1, <2>2, <4>1 DEF LocksInv
    <3>7. CASE Committing(c)
      BY <2>0, <3>1, <3>7, Lives DEF Committing, RowsInv, Fresh, Over
    <3> QED
      BY <3>2, <3>3, <3>4, <3>5, <3>6, <3>7 DEF Turn, Arrival, Passing, Verifies, LocksRow,
         Spending, Inserting, Voiding, Ending, Answers, Quiet,
         Opening, Consuming, Issuing
  <2> QED
    BY <2>1, <2>2
<1> QED
  BY <1>2, <1>3, <1>8, <1>9 DEF LocksInv

\* Every turn keeps what requests and rows say of each other.
LEMMA RowsInvKept ==
    ASSUME Types, RowsInv, NEW c \in Calls, Turn(c)
    PROVE  RowsInv' /\ RowsKept
<1>1. RowsKept
  BY RowsKeptByTurn
<1>2. \A d \in Calls : RequestInv(d)'
  BY <1>1, OwnKept, OthersKept, CallTyped DEF RowsInv
<1> QED
  BY <1>1, <1>2, FreshKept, CeremonyKept, LocksKept DEF RowsInv

(* --------------------- sessions, answers and codes --------------------- *)
Answering(c) == call[c].op \in AnswerOps /\ call[c].pc \in Answered

\* A session is there because it was, or because this turn signs someone in.
LEMMA Opened ==
    ASSUME Types, RowsInv, NEW c \in Calls, Turn(c), NEW s \in Rows, sessions'[s].st = "open"
    PROVE  sessions[s].st = "open" \/ (s = c /\ (SigningIn(c) \/ Committing(c)))
<1> USE Typed
<1>1. CASE SigningOut(c)
  BY <1>1 DEF SigningOut, SessionRow
<1>2. CASE Revoking(c)
  BY <1>2 DEF Revoking, Ended, SessionRow
<1>3. CASE SigningIn(c) \/ Committing(c)
  BY <1>3 DEF SigningIn, Committing
<1>4. CASE sessions' = sessions
  BY <1>4
<1> QED
  BY <1>1, <1>2, <1>3, <1>4 DEF Turn, Arrival, Passing, Verifies, LocksRow, Spending, Inserting,
     Voiding, Ending, Answers, Quiet,
     Opening, Consuming, Issuing

\* What a sign-in opens
LEMMA SigningInOpens ==
    ASSUME Types, NEW c \in Calls, SigningIn(c)
    PROVE  /\ sessions'[c] = NewSession(None, call[c].arg)
           /\ sessions'[c].code = None /\ sessions'[c].ceremony = call[c].arg
           /\ sessions'[c].revoked = None
           /\ sessions'[c].until = now + SessionLife
           /\ codes' = codes /\ ceremonies' = ceremonies /\ kind # "operator"
  BY Typed, Lives DEF SigningIn, NewSession

\* What a transaction's commit opens
LEMMA CommittingOpens ==
    ASSUME Types, NEW c \in Calls, Committing(c)
    PROVE  /\ sessions'[c].st = "open" /\ sessions'[c].code = CodeOf(c)
           /\ sessions'[c].revoked = None
           /\ sessions'[c].until = now + SessionLife
           /\ \/ kind = "operator" /\ call[c].op = "redeem" /\ sessions'[c].ceremony = None
              \/ kind = "reviewer" /\ call[c].op = "completeEnrolment"
                    /\ sessions'[c].ceremony = call[c].arg
           /\ ceremonies' = ceremonies
  BY Typed, Lives DEF Committing, NewSession

\* A request is answering because it was, or because this turn consumes an open challenge.
LEMMA AnsweringOn ==
    ASSUME Types, RowsInv, NEW c \in Calls, Turn(c), Answering(c)'
    PROVE  /\ call'[c].arg = call[c].arg
           /\ Answering(c) \/ (call[c].arg \in Rows /\ ceremonies[call[c].arg].st = "open")
           /\ sessions' = sessions
<1>1. RequestInv(c) /\ RequestInv(c)'
  BY OwnKept, RowsKeptByTurn DEF RowsInv
<1>2. CASE Arrival(c) \/ Passing(c) \/ Voiding(c) \/ Ending(c)
  BY <1>2 DEF Arrival, Passing, Voiding, Ending, Answering, Answered, Becomes
<1>3. CASE Verifies(c) \/ LocksRow(c) \/ Inserting(c)
  BY <1>1, <1>3 DEF Verifies, LocksRow, Inserting, Answering, Answered, Becomes, Moves, Quiet
<1>4. CASE Spending(c)
  BY <1>1, <1>4 DEF Spending, Answering, Answered, Becomes, Moves, Quiet, AnswerOps
<1>5. CASE Consuming(c)
  BY <1>1, <1>5 DEF Consuming, Answering, Answered, Becomes, Moves, Leaves, RequestInv
<1>6. CASE Answers(c) \/ Opening(c) \/ SigningIn(c) \/ SigningOut(c) \/ Issuing(c)
             \/ Revoking(c) \/ Committing(c)
  BY <1>6 DEF Answers, Opening, SigningIn, SigningOut, Issuing, Revoking, Committing, Answering,
     Answered, Becomes, Leaves,
     Immediate, Over
<1> QED
  BY <1>2, <1>3, <1>4, <1>5, <1>6 DEF Turn

\* A challenge goes with its first answer: DELETE returns its row to one request (consumeCeremony).
LEMMA AnswersKept ==
    ASSUME Types, RowsInv, AnswersInv, NEW c \in Calls, Turn(c)
    PROVE  AnswersInv'
<1> USE Typed
<1>0. /\ RowsInv' /\ RowsKept /\ c \in Rows
      /\ \A d \in Calls \ {c} : call'[d] = call[d]
      /\ \A d \in Calls : RequestInv(d)
  BY RowsInvKept, CallTyped, Lives DEF RowsInv
<1>1. \A d \in Calls : Answering(d) => call[d].arg \in Rows /\ ceremonies[call[d].arg].st = "gone"
  BY <1>0 DEF Answering, RequestInv
<1>2. \A d \in Calls \ {c} : Answering(d)' <=> Answering(d)
  BY <1>0 DEF Answering
<1>3. \A d, e \in Calls : Answering(d) /\ Answering(e) /\ call[d].arg = call[e].arg => d = e
  BY DEF AnswersInv, Answering
<1>4. \A s \in Rows : sessions[s].st = "open" /\ sessions[s].ceremony # None =>
         /\ sessions[s].ceremony \in Rows /\ ceremonies[sessions[s].ceremony].st = "gone"
         /\ \A d \in Calls : Answering(d) => call[d].arg # sessions[s].ceremony
  BY DEF AnswersInv, Answering, SessionRow, Ids
<1>5. \A d, e \in Calls : Answering(d)' /\ Answering(e)' /\ call'[d].arg = call'[e].arg => d = e
  BY <1>0, <1>1, <1>2, <1>3, AnsweringOn
<1>6. ASSUME SigningIn(c) \/ Committing(c), sessions'[c].ceremony # None
      PROVE  Answering(c) /\ sessions'[c].ceremony = call[c].arg /\ ~Answering(c)'
                 /\ ceremonies' = ceremonies
  <2>1. CASE SigningIn(c)
    BY <2>1, SigningInOpens DEF SigningIn, Answering, Answered, Leaves, Becomes
  <2>2. CASE Committing(c)
    BY <1>6, <2>2, CommittingOpens DEF Committing, Answering, Answered, Leaves, Becomes, AnswerOps
  <2> QED
    BY <1>6, <2>1, <2>2
<1>7. ASSUME NEW s \in Rows, sessions'[s].st = "open", sessions'[s].ceremony # None
      PROVE  /\ ceremonies'[sessions'[s].ceremony].st = "gone"
             /\ \A d \in Calls : Answering(d)' => call'[d].arg # sessions'[s].ceremony
  <2>1. CASE sessions[s].st = "open"
    <3>1. sessions'[s].ceremony = sessions[s].ceremony
      BY <1>0, <2>1 DEF RowsKept
    <3> QED
      BY <1>0, <1>1, <1>2, <1>4, <1>7, <2>1, <3>1, AnsweringOn DEF RowsKept
  <2>2. CASE s = c /\ (SigningIn(c) \/ Committing(c))
    BY <1>0, <1>1, <1>2, <1>3, <1>6, <1>7, <2>2
  <2> QED
    BY <1>7, <2>1, <2>2, Opened
<1>8. ASSUME NEW s \in Rows, NEW t \in Rows, sessions'[s].st = "open", sessions'[t].st = "open",
             sessions'[s].ceremony = sessions'[t].ceremony, sessions'[s].ceremony # None
      PROVE  s = t
  <2>1. CASE sessions[s].st = "open" /\ sessions[t].st = "open"
    BY <1>0, <1>8, <2>1 DEF RowsKept, AnswersInv
  <2>2. ASSUME NEW u \in Rows, sessions[u].st = "open", SigningIn(c)
                 \/ Committing(c), sessions'[u].ceremony = sessions'[c].ceremony,
               sessions'[c].ceremony # None
        PROVE  FALSE
    <3>1. sessions'[u].ceremony = sessions[u].ceremony
      BY <1>0, <2>2 DEF RowsKept
    <3> QED
      BY <1>4, <1>6, <2>2, <3>1
  <2> QED
    BY <1>8, <2>1, <2>2, Opened
<1> QED
  BY <1>5, <1>7, <1>8 DEF AnswersInv, Answering

\* A code goes with its first redemption, in the transaction that inserts the session.
LEMMA CodesKept ==
    ASSUME Types, RowsInv, CodesInv, NEW c \in Calls, Turn(c)
    PROVE  CodesInv'
<1> USE Typed
<1>0. RowsInv' /\ RowsKept /\ c \in Rows /\ RequestInv(c) /\ CeremonyInv
  BY RowsInvKept, Lives DEF RowsInv
<1>1. \A s \in Rows : sessions[s].st = "open" /\ sessions[s].code # None
        => sessions[s].code \in Rows
  BY DEF SessionRow, Ids
<1>2. Committing(c) => /\ codes[CodeOf(c)].st = "issued" /\ CodeOf(c) \in Rows
                       /\ sessions'[c].st = "open" /\ sessions'[c].code = CodeOf(c)
                       /\ codes'[CodeOf(c)].st = "redeemed"
                       /\ \A k \in Rows \ {CodeOf(c)} : codes'[k] = codes[k]
  <2>1. Committing(c) => Spends(c)
    BY DEF Committing, Spends
  <2>2. Spends(c) => CodeOf(c) \in Rows /\ codes[CodeOf(c)].st = "issued"
    BY <1>0, CodeLocked DEF RowsInv, LocksInv, HoldsCode, CodeOf
  <2>3. ASSUME Committing(c)
        PROVE  codes'[CodeOf(c)].st = "redeemed"
                   /\ \A k \in Rows \ {CodeOf(c)} : codes'[k] = codes[k]
    <3>1. codes[CodeOf(c)] \in CodeRow /\ CodeOf(c) \in Rows
      BY <2>1, <2>2, <2>3
    <3> QED
      BY <2>3, <3>1 DEF Committing, CodeRow
  <2> QED
    BY <2>1, <2>2, <2>3, CommittingOpens
<1>3. ASSUME NEW s \in Rows, sessions'[s].st = "open", sessions'[s].code # None
      PROVE  codes'[sessions'[s].code].st = "redeemed"
  <2>1. CASE sessions[s].st = "open"
    BY <1>0, <1>1, <1>3, <2>1 DEF RowsKept, CodesInv
  <2>2. CASE s = c /\ (SigningIn(c) \/ Committing(c))
    BY <1>2, <1>3, <2>2, SigningInOpens
  <2> QED
    BY <1>3, <2>1, <2>2, Opened
<1>4. ASSUME NEW s \in Rows, NEW t \in Rows, sessions'[s].st = "open", sessions'[t].st = "open",
             sessions'[s].code = sessions'[t].code, sessions'[s].code # None
      PROVE  s = t
  <2>1. CASE sessions[s].st = "open" /\ sessions[t].st = "open"
    BY <1>0, <1>4, <2>1 DEF RowsKept, CodesInv
  <2>2. ASSUME NEW u \in Rows, sessions[u].st = "open", SigningIn(c)
                 \/ Committing(c), sessions'[u].code = sessions'[c].code,
               sessions'[c].code # None
        PROVE  FALSE
    <3>1. sessions'[u].code = sessions[u].code
      BY <1>0, <2>2 DEF RowsKept
    <3>2. codes[sessions[u].code].st = "redeemed"
      BY <2>2, <3>1 DEF CodesInv
    <3> QED
      BY <1>2, <2>2, <3>1, <3>2, SigningInOpens
  <2> QED
    BY <1>4, <2>1, <2>2, Opened
<1>5. ASSUME NEW k \in Rows, codes'[k].st = "redeemed"
      PROVE  \E s \in Rows : sessions'[s].st = "open" /\ sessions'[s].code = k
  <2>1. CASE codes[k].st = "redeemed"
    <3>1. PICK s \in Rows : sessions[s].st = "open" /\ sessions[s].code = k
      BY <2>1 DEF CodesInv
    <3> QED
      BY <1>0, <3>1 DEF RowsKept
  <2>2. CASE Committing(c)
    BY <1>0, <1>2, <1>5, <2>1, <2>2
  <2>3. CASE codes[k].st # "redeemed" /\ ~Committing(c)
    BY <1>5, <2>3 DEF Turn, Arrival, Passing, Verifies, LocksRow, Spending, Inserting, Voiding,
       Ending, Answers, Quiet,
       Opening, Consuming, SigningIn, SigningOut, Issuing, Revoking, Voided, CodeRow
  <2> QED
    BY <2>1, <2>2, <2>3
<1> QED
  BY <1>3, <1>4, <1>5 DEF CodesInv

\* The unique email lets one sign-up insert the account, and only that one opens a session.
LEMMA OwnerKept ==
    ASSUME Types, RowsInv, AnswersInv, OwnerInv, NEW c \in Calls, Turn(c)
    PROVE  OwnerInv'
<1> USE Typed
<1>0. /\ RowsInv' /\ RowsKept /\ c \in Rows /\ RequestInv(c) /\ CeremonyInv
      /\ \A s \in Rows : sessions[s].st = "open" /\ sessions[s].ceremony # None
            => sessions[s].ceremony \in Rows
  BY RowsInvKept, Lives DEF RowsInv, SessionRow, Ids
<1> SUFFICES ASSUME NEW s \in Rows, sessions'[s].st = "open", sessions'[s].ceremony # None,
                    ceremonies'[sessions'[s].ceremony].for = "signUp"
             PROVE  account'.exists /\ account'.owner = sessions'[s].ceremony
  BY DEF OwnerInv
<1>1. CASE sessions[s].st = "open"
  <2>1. /\ sessions[s].ceremony \in Rows /\ sessions'[s].ceremony = sessions[s].ceremony
        /\ ceremonies[sessions[s].ceremony].st # "none"
        /\ ceremonies[sessions[s].ceremony].for = "signUp"
    BY <1>0, <1>1 DEF RowsKept, AnswersInv
  <2>2. account.exists /\ account.owner = sessions[s].ceremony /\ kind = "organiser"
    BY <1>0, <1>1, <2>1 DEF OwnerInv, CeremonyInv
  <2>3. account'.exists /\ account'.owner = account.owner
    BY <2>2 DEF Turn, Arrival, Passing, Verifies, LocksRow, Spending, Inserting, Voiding, Ending,
       Answers, Quiet,
       Opening, Consuming, SigningIn, SigningOut, Issuing, Revoking, Committing
  <2> QED
    BY <2>1, <2>2, <2>3
<1>2. CASE s = c /\ SigningIn(c)
  <2>1. sessions'[c].ceremony = call[c].arg /\ ceremonies' = ceremonies
    BY <1>2, SigningInOpens
  <2>2. ceremonies[call[c].arg].for = For[call[c].op] /\ call[c].op \in AnswerOps
    BY <1>0, <1>2 DEF SigningIn, RequestInv
  <2>3. call[c].op = "completeSignUp"
    BY <1>2, <2>1, <2>2 DEF For, AnswerOps
  <2> QED
    BY <1>2, <2>1, <2>3 DEF SigningIn
<1>3. CASE s = c /\ Committing(c)
  <2>1. sessions'[c].ceremony = call[c].arg /\ ceremonies' = ceremonies
          /\ call[c].op = "completeEnrolment"
    BY <1>3, CommittingOpens
  <2>2. ceremonies[call[c].arg].for = "enrolment"
    BY <1>0, <2>1 DEF RequestInv, AnswerOps, For
  <2> QED
    BY <1>3, <2>1, <2>2
<1> QED
  BY <1>1, <1>2, <1>3, Opened

\* An operator's sessions come of codes alone.
LEMMA OperatorSessionsKept ==
    ASSUME Types, RowsInv, RevocationInv, NEW c \in Calls, Turn(c), kind = "operator",
           NEW s \in Rows, sessions'[s].st = "open"
    PROVE  sessions'[s].ceremony = None
<1>1. RowsKept
  BY RowsInvKept
<1>2. CASE sessions[s].st = "open"
  BY <1>1, <1>2 DEF RowsKept, RevocationInv
<1>3. CASE s = c /\ (SigningIn(c) \/ Committing(c))
  BY <1>3, SigningInOpens, CommittingOpens
<1> QED
  BY <1>2, <1>3, Opened

\* A code is issued because it was, or because this turn inserts it.
LEMMA IssuedOn ==
    ASSUME Types, RowsInv, NEW c \in Calls, Turn(c), NEW k \in Rows, codes'[k].st = "issued"
    PROVE  codes[k].st = "issued" \/ (Issuing(c) /\ k = c)
<1> USE Typed
<1>1. CASE Revoking(c)
  BY <1>1 DEF Revoking, Voided, CodeRow
<1>2. CASE Committing(c)
  BY <1>2 DEF Committing, CodeRow
<1>3. CASE Issuing(c)
  BY <1>3 DEF Issuing
<1>4. CASE codes' = codes
  BY <1>4
<1> QED
  BY <1>1, <1>2, <1>3, <1>4 DEF Turn, Arrival, Passing, Verifies, LocksRow, Spending, Inserting,
     Voiding, Ending, Answers, Quiet,
     Opening, Consuming, SigningIn, SigningOut

\* While a revocation has the operator's row nothing is inserted behind it.
LEMMA RevocationSees ==
    ASSUME Types, RowsInv, RevocationInv, NEW c \in Calls, Turn(c), NEW d \in Calls,
           call'[d].op = "revokeSessions"
    PROVE  /\ call'[d].pc \in {"voided", "ended"} => \A k \in Rows : codes'[k].st = "issued"
                  => k \in call'[d].voids
           /\ call'[d].pc = "ended" =>
                \A s \in Rows : /\ sessions'[s].st = "open" /\ sessions'[s].revoked = None
                                /\ sessions'[s].until > call'[d].at
                                => s \in call'[d].ends
<1>0. RowsInv' /\ RowsKept /\ LocksInv /\ (\A e \in Calls \ {c} : call'[e] = call[e])
        /\ \A e \in Calls : RequestInv(e)
  BY RowsInvKept, CallTyped DEF RowsInv
<1>1. CASE d = c
  <2>1. CASE Voiding(c)
    BY <1>1, <2>1 DEF Voiding, Quiet, Becomes
  <2>2. CASE Ending(c)
    BY <1>1, <2>2 DEF Ending, Quiet, Becomes, RevocationInv
  <2>3. CASE ~Voiding(c) /\ ~Ending(c)
    <3>1. call'[c].pc \notin {"voided", "ended"}
      BY <2>3 DEF Turn, Arrival, Passing, Verifies, LocksRow, Spending, Inserting, Answers,
         Opening, Consuming, SigningIn,
         SigningOut, Issuing, Revoking, Committing, Becomes, Moves, Leaves, Immediate, Over
    <3> QED
      BY <1>1, <3>1
  <2> QED
    BY <2>1, <2>2, <2>3
<1>2. CASE d # c /\ call[d].pc \in {"voided", "ended"}
  <2>1. call'[d] = call[d] /\ kind = "operator" /\ HoldsAccount(d)
    BY <1>0, <1>2 DEF HoldsAccount, RequestInv
  <2>2. ~HoldsAccount(c) /\ ~SharesAccount(c)
    BY <1>0, <1>2, <2>1 DEF LocksInv
  <2>3. ~Issuing(c) /\ ~SigningIn(c) /\ ~Committing(c)
    BY <2>1, <2>2 DEF Issuing, SigningIn, Committing, HoldsAccount, SharesAccount
  <2>4. \A k \in Rows : codes'[k].st = "issued" => codes[k].st = "issued"
    BY <2>3, IssuedOn
  <2>5. \A s \in Rows : sessions'[s].st = "open" /\ sessions'[s].revoked = None =>
          sessions[s].st = "open" /\ sessions[s].revoked = None
                /\ sessions'[s].until = sessions[s].until
    BY <1>0, <2>3, Opened DEF RowsKept
  <2> QED
    BY <1>2, <2>1, <2>4, <2>5 DEF RevocationInv
<1>3. CASE d # c /\ call[d].pc \notin {"voided", "ended"}
  BY <1>0, <1>3
<1> QED
  BY <1>1, <1>2, <1>3

\* Every turn keeps a revocation's view complete, and what it covered covered.
LEMMA RevocationKept ==
    ASSUME Types, RowsInv, RevocationInv, NEW c \in Calls, Turn(c)
    PROVE  RevocationInv'
<1> USE Typed
<1>0. RowsKept /\ c \in Rows /\ RequestInv(c) /\ LocksInv /\ CeremonyInv /\ Fresh
  BY RowsInvKept, Lives DEF RowsInv
<1>1. covered' = covered \/ (Revoking(c) /\ covered' = covered \cup Issued)
  BY DEF Turn, Arrival, Passing, Verifies, LocksRow, Spending, Inserting, Voiding, Ending, Answers,
     Quiet,
     Opening, Consuming, SigningIn, SigningOut, Issuing, Revoking, Committing
<1>2. account.disabled => account'.disabled
  BY DEF Turn, Arrival, Passing, Verifies, LocksRow, Spending, Inserting, Voiding, Ending, Answers,
     Quiet,
     Opening, Consuming, SigningIn, SigningOut, Issuing, Revoking, Committing
<1>3. Revoking(c) => kind = "operator" \/ account'.disabled
  BY DEF Revoking
<1>4. covered' # {} => kind' = "operator" \/ account'.disabled
  BY <1>0, <1>1, <1>2, <1>3 DEF RevocationInv, RowsKept
<1>5. \A k \in covered' : k \in Rows /\ (codes'[k].st # "none" \/ ceremonies'[k].st # "none")
  BY <1>0, <1>1 DEF RevocationInv, RowsKept, Issued
<1>6. ASSUME kind = "operator", NEW k \in covered', codes'[k].st = "issued"
      PROVE  FALSE
  <2>1. CASE codes[k].st = "issued"
    <3>1. k \notin covered /\ k \in Rows
      BY <1>5, <1>6, <2>1 DEF RevocationInv
    <3>2. Revoking(c) /\ k \in call[c].voids
      BY <1>1, <1>6, <2>1, <3>1 DEF Revoking, RevocationInv
    <3> QED
      BY <1>6, <3>1, <3>2 DEF Revoking, Voided, CodeRow
  <2>2. CASE Issuing(c) /\ k = c
    <3>1. k \in covered
      BY <1>1, <1>6, <2>2 DEF Issuing, Revoking
    <3>2. codes[c].st = "none" /\ ceremonies[c].st = "none"
      BY <1>0, <1>6, <2>2 DEF Issuing, Fresh, Over
    <3> QED
      BY <2>2, <3>1, <3>2 DEF RevocationInv
  <2> QED
    BY <1>5, <1>6, <2>1, <2>2, IssuedOn
<1>7. ASSUME kind = "operator", NEW s \in Rows, sessions'[s].st = "open",
               sessions'[s].code \in covered'
      PROVE  sessions'[s].revoked # None \/ sessions'[s].until <= now'
  <2>1. CASE sessions[s].st = "open"
    <3>0. /\ sessions'[s].code = sessions[s].code /\ sessions'[s].until = sessions[s].until
          /\ sessions[s].revoked # None => sessions'[s].revoked = sessions[s].revoked
          /\ sessions[s].until \in Nat /\ now \in Nat /\ now' \in Nat /\ now <= now'
      BY <1>0, <2>1 DEF RowsKept, SessionRow
    <3>1. CASE sessions[s].code \in covered
      BY <1>7, <2>1, <3>0, <3>1 DEF RevocationInv
    <3>2. CASE sessions[s].code \notin covered
      <4>1. Revoking(c) /\ call[c].op = "revokeSessions" /\ call[c].pc = "ended"
        BY <1>1, <1>7, <3>0, <3>2 DEF Revoking
      <4>2. CASE s \in call[c].ends
        <5>1. sessions'[s].revoked = call[c].at
          BY <4>1, <4>2 DEF Revoking, Ended, SessionRow
        <5> QED
          BY <5>1, RequestFields, Lives
      <4>3. CASE s \notin call[c].ends
        <5>1. sessions[s].revoked # None \/ ~(sessions[s].until > call[c].at)
          BY <2>1, <4>1, <4>3 DEF RevocationInv
        <5>2. call[c].at <= now /\ call[c].at \in Nat
          BY <1>0, RequestFields, Lives DEF RequestInv, Times
        <5> QED
          BY <3>0, <5>1, <5>2
      <4> QED
        BY <4>2, <4>3
    <3> QED
      BY <3>1, <3>2
  <2>2. CASE s = c /\ SigningIn(c)
    BY <1>7, <2>2 DEF SigningIn
  <2>3. CASE s = c /\ Committing(c)
    <3>1. Spends(c) /\ covered' = covered
      BY <2>3 DEF Committing, Spends
    <3>2. CodeOf(c) \in Rows
      BY <1>0, <3>1, CodeLocked
    <3>3. codes[CodeOf(c)].st = "issued"
      BY <1>0, <3>1, <3>2 DEF LocksInv, HoldsCode, CodeOf
    <3>4. sessions'[c].code = CodeOf(c)
      BY <2>3, CommittingOpens
    <3> QED
      BY <1>7, <2>3, <3>1, <3>3, <3>4 DEF RevocationInv
  <2> QED
    BY <1>7, <2>1, <2>2, <2>3, Opened
<1>8. kind' = kind
  BY <1>0 DEF RowsKept
<1>9. ASSUME NEW d \in Calls, call'[d].op = "revokeSessions"
      PROVE  /\ call'[d].pc \in {"voided", "ended"} => \A k \in Rows : codes'[k].st = "issued"
                    => k \in call'[d].voids
             /\ call'[d].pc = "ended" =>
                  \A s \in Rows : /\ sessions'[s].st = "open" /\ sessions'[s].revoked = None
                                  /\ sessions'[s].until > call'[d].at
                                  => s \in call'[d].ends
  BY <1>9, RevocationSees
<1>10. kind' = "operator" => \A s \in Rows : sessions'[s].st = "open"
         => sessions'[s].ceremony = None
  BY <1>8, OperatorSessionsKept
<1> QED
  BY <1>4, <1>5, <1>6, <1>7, <1>8, <1>9, <1>10 DEF RevocationInv

(* ------------------------------ the theorems --------------------------- *)
FirstFor == [organiser |-> "signUp", holder |-> "link", reviewer |-> "enrolment"]

\* Where a behaviour begins, row by row
LEMMA InitRows ==
    ASSUME Init
    PROVE  /\ kind \in Kinds /\ now = 0 /\ covered = {} /\ reports = NoReport
           /\ call = [c \in Calls |-> Idle] /\ account \in AccountRow
           /\ codes \in [Rows -> CodeRow] /\ ceremonies \in [Rows -> CeremonyRow]
           /\ sessions \in [Rows -> SessionRow] /\ grants \in [Rows -> GrantRow]
           /\ \A r \in Rows \ {0} : codes[r].st = "none" /\ ceremonies[r].st = "none"
                /\ sessions[r].st = "none"
           /\ kind = "operator" => ceremonies[0].st = "none" /\ sessions[0].ceremony = None
           /\ ceremonies[0].st # "none" =>
                /\ ceremonies[0].for = "enrolment" => ceremonies[0].code = 0 /\ codes[0].st # "none"
                /\ ceremonies[0].for = "signUp" => kind = "organiser"
           /\ sessions[0].st = "open" =>
                /\ sessions[0].ceremony # None => sessions[0].ceremony = 0
                     /\ ceremonies[0].st = "gone"
                /\ sessions[0].code # None => sessions[0].code = 0 /\ codes[0].st = "redeemed"
                /\ kind = "organiser" => account.exists /\ account.owner = 0
           /\ codes[0].st = "redeemed" => sessions[0].st = "open" /\ sessions[0].code = 0
<1>1. PICK stage \in Stages :
         /\ account = [owner |-> IF stage = "in" /\ kind = "organiser" THEN 0 ELSE None,
                       exists |-> stage = "in" \/ kind = "operator" \/ (kind = "reviewer"
                             /\ stage = "invited"),
                       enrolled |-> stage = "in" /\ kind = "reviewer", disabled |-> FALSE]
         /\ codes = First(stage # "nothing" /\ kind \in ByCode, FirstCode(stage), NoCode)
         /\ ceremonies = First(/\ stage # "nothing" /\ kind # "operator"
                               /\ ~(kind = "reviewer" /\ stage = "invited"),
                               FirstCeremony(stage), NoCeremony)
         /\ sessions = First(stage = "in", FirstSession, NoSession)
         /\ grants = First(stage # "nothing" /\ kind = "operator",
                           [NoGrant EXCEPT !.st = "made", !.until = 1], NoGrant)
  BY DEF Init
<1>2. /\ kind \in Kinds /\ now = 0 /\ covered = {} /\ reports = NoReport
      /\ call = [c \in Calls |-> Idle]
  BY DEF Init
<1>3. account \in AccountRow
  BY <1>1, Lives DEF AccountRow, Ids
<1>4. /\ NoCode \in CodeRow /\ NoCeremony \in CeremonyRow /\ NoSession \in SessionRow
      /\ NoGrant \in GrantRow
      /\ [NoGrant EXCEPT !.st = "made", !.until = 1] \in GrantRow
  <2>1. /\ 0 \in 0 .. MaxTime + CodeLife /\ 0 \in 0 .. MaxTime + CeremonyLife
        /\ 0 \in 0 .. MaxTime + SessionLife
        /\ 0 \in 0 .. MaxTime + 1 /\ 0 \in 0 .. MaxTime + 2 /\ 1 \in 0 .. MaxTime + 2
        /\ None \in Ids
    BY Lives DEF Ids
  <2>2. NoCode \in CodeRow /\ NoCeremony \in CeremonyRow /\ NoSession \in SessionRow
          /\ NoGrant \in GrantRow
    BY <2>1 DEF NoCode, NoCeremony, NoSession, NoGrant, CodeRow, CeremonyRow, SessionRow, GrantRow
  <2>3. \A g \in GrantRow : [g EXCEPT !.st = "made", !.until = 1] \in GrantRow
    BY <2>1 DEF GrantRow
  <2>4. [NoGrant EXCEPT !.st = "made", !.until = 1] \in GrantRow
    BY <2>2, <2>3
  <2> QED
    BY <2>2, <2>4
<1>5. FirstCode(stage) \in CodeRow
  BY Lives DEF FirstCode, CodeRow
<1>6. kind # "operator" => /\ FirstCeremony(stage) \in CeremonyRow
                           /\ FirstCeremony(stage).for = FirstFor[kind]
                           /\ FirstCeremony(stage).st = (IF stage = "in" THEN "gone" ELSE "open")
                           /\ FirstCeremony(stage).code = (IF kind = "reviewer" THEN 0 ELSE None)
  <2>1. CeremonyLife \in 0 .. MaxTime + CeremonyLife
    BY Lives
  <2>2. kind # "operator" => FirstFor[kind] \in {"signUp", "signIn", "link", "enrolment"}
    BY <1>2 DEF FirstFor, Kinds
  <2>3. (IF kind = "reviewer" THEN 0 ELSE None) \in Ids
    BY Lives DEF Ids
  <2> QED
    BY <2>1, <2>2, <2>3 DEF FirstCeremony, FirstFor, CeremonyRow
<1>7. /\ FirstSession \in SessionRow /\ FirstSession.st = "open"
      /\ FirstSession.code = (IF kind \in ByCode THEN 0 ELSE None)
      /\ FirstSession.ceremony = (IF kind = "operator" THEN None ELSE 0)
  <2> DEFINE code == IF kind \in ByCode THEN 0 ELSE None
             ceremony == IF kind = "operator" THEN None ELSE 0
  <2>1. code \in Ids /\ ceremony \in Ids /\ SessionLife \in 0 .. MaxTime + SessionLife
    BY Lives DEF Ids
  <2> HIDE DEF code, ceremony
  <2> DEFINE Opens(a, b, s) == [s EXCEPT !.st = "open", !.until = SessionLife, !.code = a,
        !.ceremony = b]
  <2>2. \A a \in Ids, b \in Ids, s \in SessionRow :
          /\ Opens(a, b, s) \in SessionRow /\ Opens(a, b, s).st = "open" /\ Opens(a, b, s).code = a
          /\ Opens(a, b, s).ceremony = b
    BY <2>1 DEF SessionRow
  <2>3. FirstSession = Opens(code, ceremony, NoSession)
    BY DEF FirstSession, code, ceremony
  <2> HIDE DEF Opens
  <2>4. FirstSession \in SessionRow /\ FirstSession.st = "open" /\ FirstSession.code = code
        /\ FirstSession.ceremony = ceremony
    BY <1>4, <2>1, <2>2, <2>3
  <2> QED
    BY <2>4 DEF code, ceremony
<1>8. /\ codes \in [Rows -> CodeRow] /\ sessions \in [Rows -> SessionRow]
      /\ grants \in [Rows -> GrantRow]
  BY <1>1, <1>4, <1>5, <1>7 DEF First
<1>9. ceremonies \in [Rows -> CeremonyRow]
  BY <1>1, <1>4, <1>6 DEF First
<1>10. \A r \in Rows \ {0} : codes[r].st = "none" /\ ceremonies[r].st = "none"
         /\ sessions[r].st = "none"
  BY <1>1 DEF First, NoCode, NoCeremony, NoSession
<1>11. /\ codes[0].st = (IF stage # "nothing"
            /\ kind \in ByCode THEN IF stage = "in" THEN "redeemed" ELSE "issued" ELSE "none")
       /\ sessions[0] = IF stage = "in" THEN FirstSession ELSE NoSession
       /\ ceremonies[0] = IF stage # "nothing" /\ kind # "operator" /\ ~(kind = "reviewer"
            /\ stage = "invited")
                          THEN FirstCeremony(stage) ELSE NoCeremony
  BY <1>1, Lives DEF First, NoCode, FirstCode
<1>12. NoCeremony.st = "none" /\ NoSession.st = "none" /\ NoSession.ceremony = None
  BY DEF NoCeremony, NoSession
<1>13. kind = "operator" => ceremonies[0].st = "none" /\ sessions[0].ceremony = None
  BY <1>7, <1>11, <1>12
<1>14. ceremonies[0].st # "none" =>
                /\ ceremonies[0].for = "enrolment" => ceremonies[0].code = 0 /\ codes[0].st # "none"
                /\ ceremonies[0].for = "signUp" => kind = "organiser"
  BY <1>2, <1>6, <1>11, <1>12 DEF FirstFor, Kinds, ByCode
<1>15. sessions[0].st = "open" =>
                /\ sessions[0].ceremony # None => sessions[0].ceremony = 0
                     /\ ceremonies[0].st = "gone"
                /\ sessions[0].code # None => sessions[0].code = 0 /\ codes[0].st = "redeemed"
                /\ kind = "organiser" => account.exists /\ account.owner = 0
  BY <1>1, <1>2, <1>6, <1>7, <1>11, <1>12 DEF Kinds, ByCode
<1>16. codes[0].st = "redeemed" => sessions[0].st = "open" /\ sessions[0].code = 0
  BY <1>7, <1>11
<1> QED
  BY <1>2, <1>3, <1>8, <1>9, <1>10, <1>13, <1>14, <1>15, <1>16

\* Every kind of account begins with nothing spent, answered or revoked.
LEMMA InitHolds == Init => Types /\ IInv
<1> SUFFICES ASSUME Init PROVE Types /\ IInv
  OBVIOUS
<1>1. /\ call \in [Calls -> Request] /\ 0 \in Rows /\ None \notin Rows
      /\ \A c \in Calls : /\ call[c].op = "none" /\ call[c].pc = "idle" /\ call[c].at = 0
                          /\ call[c].voids = {} /\ call[c].ends = {} /\ c # 0 /\ c \in Rows
  BY InitRows, Lives DEF Idle, Request, OpNames, Pcs, Ids, Calls
<1>2. Types
  BY InitRows, Lives, <1>1, TypesSplit DEF CoreTypes, OtherTypes, ReportRow, NoReport, Ids
<1>3. Fresh
  BY InitRows, <1>1 DEF Fresh
<1>4. \A c \in Calls : RequestInv(c)
  BY InitRows, <1>1 DEF RequestInv, AnswerOps, SessionOps, Spends, Answered, Locked
<1>5. CeremonyInv
  BY InitRows, <1>1 DEF CeremonyInv
<1>6. LocksInv
  BY <1>1 DEF LocksInv, HoldsCode, Spends, HoldsAccount, SharesAccount
<1>7. AnswersInv
  BY InitRows, <1>1 DEF AnswersInv, AnswerOps
<1>8. CodesInv
  BY InitRows, <1>1 DEF CodesInv
<1>9. OwnerInv
  BY InitRows, <1>1 DEF OwnerInv, Kinds
<1>10. RevocationInv
  BY InitRows, <1>1 DEF RevocationInv
<1> QED
  BY <1>2, <1>3, <1>4, <1>5, <1>6, <1>7, <1>8, <1>9, <1>10 DEF IInv, RowsInv

\* The clock, or nothing, moves.
LEMMA TimePasses ==
    ASSUME Types, IInv, UNCHANGED <<kind, rows, call>>, now' \in Nat, now <= now'
    PROVE  IInv'
<1> USE Typed DEF rows
<1>1. Fresh'
  BY DEF IInv, RowsInv, Fresh
<1>2. \A c \in Calls : RequestInv(c)'
  <2> SUFFICES ASSUME NEW c \in Calls PROVE RequestInv(c)'
    OBVIOUS
  <2>1. call[c].at \in Nat
    BY RequestFields, Lives DEF Times
  <2> QED
    BY <2>1 DEF IInv, RowsInv, RequestInv, Spends
<1>3. CeremonyInv'
  BY DEF IInv, RowsInv, CeremonyInv
<1>4. LocksInv'
  BY DEF IInv, RowsInv, LocksInv, HoldsCode, Spends, HoldsAccount, SharesAccount
<1>5. AnswersInv' /\ CodesInv' /\ OwnerInv'
  BY DEF IInv, AnswersInv, CodesInv, OwnerInv
<1>6. RevocationInv'
  <2>1. \A s \in Rows : sessions[s].until \in Nat
    BY DEF SessionRow
  <2> QED
    BY <2>1 DEF IInv, RevocationInv
<1> QED
  BY <1>1, <1>2, <1>3, <1>4, <1>5, <1>6 DEF IInv, RowsInv

\* Every step keeps the types and the invariant.
LEMMA Inductive == Types /\ IInv /\ [Next]_vars => Types' /\ IInv'
<1> SUFFICES ASSUME Types, IInv, [Next]_vars
             PROVE  Types' /\ IInv'
  OBVIOUS
<1>1. \A c \in Calls : RequestInv(c)
  BY DEF IInv, RowsInv
<1>2. Types'
  BY <1>1, TypesKept
<1>3. CASE \E c \in Calls : Turn(c)
  <2>1. PICK c \in Calls : Turn(c)
    BY <1>3
  <2>2. RowsInv /\ AnswersInv /\ CodesInv /\ OwnerInv /\ RevocationInv
    BY DEF IInv
  <2>3. RowsInv' /\ AnswersInv' /\ CodesInv' /\ OwnerInv' /\ RevocationInv'
    BY <2>1, <2>2, RowsInvKept, AnswersKept, CodesKept, OwnerKept, RevocationKept
  <2> QED
    BY <1>2, <2>3 DEF IInv
<1>4. CASE Tick \/ UNCHANGED vars
  <2>1. UNCHANGED <<kind, rows, call>> /\ now' \in Nat /\ now <= now'
    BY <1>4, Typed DEF Tick, vars, rows
  <2> QED
    BY <1>2, <2>1, TimePasses
<1> QED
  BY <1>1, <1>3, <1>4, NextTurn

\* Every account, code, challenge, session, grant and report, and every request wherever it is,
\* keeps a value its table's CHECK constraints and types allow.
THEOREM TypeCorrect == Spec => []TypeOK
<1>1. Types => TypeOK
  BY DEF Types
<1> QED
  BY <1>1, InitHolds, Inductive, PTL DEF Spec

\* The invariant holds in every state of every behaviour.
LEMMA IInvAlways == Spec => [](Types /\ IInv)
  BY InitHolds, Inductive, PTL DEF Spec

\* A code or a session of before is covered, and so is what a covered code could open.
LEMMA RevokedMeansOutHolds == Types /\ IInv => RevokedMeansOut
<1> SUFFICES ASSUME Types, IInv, NEW s \in Rows, Authentic(s),
                    NEW k \in {sessions[s].code, sessions[s].ceremony} \cap covered
             PROVE  FALSE
  BY DEF RevokedMeansOut
<1>1. /\ sessions[s].st = "open" /\ sessions[s].revoked = None /\ sessions[s].until > now
      /\ ~account.disabled /\ now \in Nat /\ sessions[s].until \in Nat
  BY Typed DEF Authentic, SessionRow
<1>2. kind = "operator"
  BY <1>1 DEF IInv, RevocationInv
<1>3. sessions[s].ceremony = None
  BY <1>1, <1>2 DEF IInv, RevocationInv
<1>4. None \notin covered
  BY Typed, Lives
<1>5. sessions[s].code \in covered
  BY <1>3, <1>4
<1> QED
  BY <1>1, <1>2, <1>5 DEF IInv, RevocationInv

\* Once access has been revoked, no session answers that comes of a code or a challenge from
\* before, opened then or since (operators/service.ts revokeSessions, reviewers/service.ts
\* disable), for every number of requests and every interleaving of their statements.
THEOREM RevokedMeansOutAlways == Spec => []RevokedMeansOut
  BY IInvAlways, RevokedMeansOutHolds, PTL

\* A set with at most one member has a cardinality of 0 or 1.
LEMMA AtMostOne ==
    ASSUME NEW S, \A x, y \in S : x = y
    PROVE  Cardinality(S) <= 1 /\ (S # {} => Cardinality(S) = 1) /\ (S = {} => Cardinality(S) = 0)
<1>1. CASE S = {}
  BY <1>1, FS_EmptySet
<1>2. CASE S # {}
  <2>1. PICK x : S = {x}
    BY <1>2
  <2> QED
    BY <1>2, <2>1, FS_Singleton
<1> QED
  BY <1>1, <1>2

\* Two sessions of one code are one session.
LEMMA CodesSpentOnceHolds == Types /\ IInv => CodesSpentOnce
<1> SUFFICES ASSUME Types, IInv, NEW k \in Rows, codes[k].st # "none"
             PROVE  Cardinality({s \in Rows : sessions[s].st = "open" /\ sessions[s].code = k})
                        = (IF codes[k].st = "redeemed" THEN 1 ELSE 0)
  BY DEF CodesSpentOnce
<1> DEFINE S == {s \in Rows : sessions[s].st = "open" /\ sessions[s].code = k}
<1>1. k # None
  BY Lives
<1>2. \A x, y \in S : x = y
  BY <1>1 DEF IInv, CodesInv
<1>3. codes[k].st = "redeemed" => S # {}
  BY DEF IInv, CodesInv
<1>4. codes[k].st # "redeemed" => S = {}
  BY <1>1 DEF IInv, CodesInv
<1> HIDE DEF S
<1>5. Cardinality(S) = (IF codes[k].st = "redeemed" THEN 1 ELSE 0)
  BY <1>2, <1>3, <1>4, AtMostOne
<1> QED
  BY <1>5 DEF S

\* A code opens one session, however many requests present it and whatever revokes, reissues or
\* fails beside them (redeemOperatorEnrolmentCode, completeEnrolment, issueCode, revokeSessions).
THEOREM CodesSpentOnceAlways == Spec => []CodesSpentOnce
  BY IInvAlways, CodesSpentOnceHolds, PTL

\* Two sessions of one challenge are one session.
LEMMA AnsweredOnceHolds == Types /\ IInv => AnsweredOnce
<1> SUFFICES ASSUME Types, IInv, NEW k \in Rows, ceremonies[k].st # "none"
             PROVE  Cardinality({s \in Rows : sessions[s].st = "open"
                        /\ sessions[s].ceremony = k}) <= 1
  BY DEF AnsweredOnce
<1> DEFINE S == {s \in Rows : sessions[s].st = "open" /\ sessions[s].ceremony = k}
<1>1. k # None
  BY Lives
<1>2. \A x, y \in S : x = y
  BY <1>1 DEF IInv, AnswersInv
<1> HIDE DEF S
<1>3. Cardinality(S) <= 1
  BY <1>2, AtMostOne
<1> QED
  BY <1>3 DEF S

\* The answer to a challenge opens at most one session, presented however often (consumeCeremony).
THEOREM AnsweredOnceAlways == Spec => []AnsweredOnce
  BY IInvAlways, AnsweredOnceHolds, PTL

\* The account is owned by one sign-up.
LEMMA OneAccountPerEmailHolds == Types /\ IInv => OneAccountPerEmail
  BY DEF OneAccountPerEmail, IInv, OwnerInv

\* One sign-up owns the account of an email, for every number of sign-ups that race for it
\* (completeOrganiserSignUp).
THEOREM OneAccountPerEmailAlways == Spec => []OneAccountPerEmail
  BY IInvAlways, OneAccountPerEmailHolds, PTL

\* A report is refused by its own step alone, and for one of two reasons.
LEMMA RefusedWhy ==
    ASSUME Types, NEW c \in Calls, \A d \in Calls : RequestInv(d), [Next]_vars, ReportRefused(c)
    PROVE  \/ call[c].pc = "unknown" /\ ~RevokedLately(call[c].arg)
           \/ call[c].pc = "known" /\ ~Reportable(c)
<1>0. call[c].op = "report" /\ call[c].pc \notin {"idle", "done", "refused", "error"}
        /\ call'[c].pc = "refused"
  BY DEF ReportRefused, Running
<1>1. ~Tick /\ ~UNCHANGED vars
  BY <1>0 DEF Tick, vars
<1>2. ASSUME NEW d \in Calls, Step(d) \/ DeadlockAborts(d) \/ Fail(d)
      PROVE  d = c
  <2>1. Turn(d)
    BY <1>2, AuthTurn, OperatorTurn, ReviewerTurn, FailTurn DEF Step, Turn
  <2> QED
    BY <1>0, <2>1, CallTyped
<1>3. ~(DeadlockAborts(c) \/ Fail(c))
  BY <1>0, EndEffect, Typed DEF DeadlockAborts, Fail, Leaves, Becomes, Pcs, Over
<1>4. Step(c)
  BY <1>1, <1>2, <1>3 DEF Next
<1>5. ~AuthStep(c)
  BY <1>0 DEF AuthStep, BeginOrganiserSignUp, BeginOrganiserSignIn, BeginHolderLink,
     CompleteOrganiserSignUp,
     CompleteOrganiserSignIn, CompleteHolderLink, SignOut, Answer, Verify, InsertOrganiser,
           OpenSession, At, Arrives
<1>6. ~ReviewerStep(c)
  BY <1>0 DEF ReviewerStep, CreateReviewer, ReissueCode, Disable, BeginEnrolment,
     CompleteEnrolment, BeginSignIn,
     CompleteSignIn, Answer, Verify, OpenSession, LockAccount, At, Arrives
<1>7. ReportAdmission(c)
  BY <1>0, <1>4, <1>5, <1>6 DEF Step, OperatorStep, IssueEnrolmentCode, RevokeSessions,
     RedeemOperatorEnrolmentCode, Grant,
     RevokeGrant, Check, LockAccount, At, Arrives
<1>8. ~(End(c, "done") \/ Goto(c, "known") \/ Goto(c, "unknown"))
  BY <1>0, EndEffect, GotoEffect, Typed DEF Leaves, Moves, Becomes, Pcs, Over
<1>9. ~(call' = [call EXCEPT ![c].pc = "known", ![c].revoked = sessions[call[c].arg].revoked])
  BY <1>0, Typed DEF Request
<1> QED
  BY <1>0, <1>7, <1>8, <1>9 DEF ReportAdmission, LookUpSession, At, Arrives

\* A revoked operator's report that can be checked is not refused by any turn.
LEMMA EvidenceStep ==
    ASSUME Types, IInv, [Next]_vars, NEW c \in Calls, ReportRefused(c)
    PROVE  LET s == sessions[call[c].arg] IN
           ~(/\ RevokedLately(call[c].arg) /\ call[c].at < s.revoked
             /\ \E g \in Rows : Covers(g, call[c].at))
<1>1. \A d \in Calls : RequestInv(d)
  BY DEF IInv, RowsInv
<1>2. call[c].op = "report"
  BY DEF ReportRefused
<1>3. call[c].revoked # None => sessions[call[c].arg].revoked = call[c].revoked
  BY <1>1, <1>2 DEF RequestInv
<1> QED
  BY <1>1, <1>3, RefusedWhy DEF Reportable

\* A report of a pass presented before the revocations is not refused while its session may
\* still report, wherever in the request the revocation commits (fastify-context.ts, reports.ts
\* record).
THEOREM EvidenceKeptAlways == Spec => EvidenceKept
<1>1. Types /\ IInv /\ [Next]_vars
        => [\A c \in Calls : ReportRefused(c) =>
              LET s == sessions[call[c].arg] IN
              ~(/\ RevokedLately(call[c].arg) /\ call[c].at < s.revoked
                /\ \E g \in Rows : Covers(g, call[c].at))]_vars
  BY EvidenceStep
<1> QED
  BY <1>1, InitHolds, Inductive, PTL DEF Spec, EvidenceKept

=============================================================================
