----------------------------- MODULE Reviewers ------------------------------
(***************************************************************************)
(* A reviewer's account (src/src/reviewers/service.ts): created, given a   *)
(* new code and disabled from the command line; enrolled with a code and a *)
(* passkey, and signed in with the passkey afterwards.                     *)
(***************************************************************************)
EXTENDS Operators

(* create: the row and its first code in one transaction; an email once *)
CreateReviewer(c) ==
    /\ kind = "reviewer" /\ Arrives(c)
    /\ IF account.exists
       THEN /\ call' = [call EXCEPT ![c] = [Idle EXCEPT !.op = "create", !.pc = "refused"]]
            /\ UNCHANGED <<account, codes>>
       ELSE /\ account' = [account EXCEPT !.exists = TRUE, !.owner = c]
            /\ codes' = [codes EXCEPT ![c] = [st |-> "issued", until |-> now + CodeLife]]
            /\ call' = [call EXCEPT ![c] = [Idle EXCEPT !.op = "create", !.pc = "done"]]
    /\ UNCHANGED <<kind, now, ceremonies, sessions, grants, reports, covered>>

(* reissueCode: the codes not spent are void, and one new code stands *)
ReissueCode(c) ==
    /\ kind = "reviewer"
    /\ \/ Arrives(c) /\ account.exists /\ Start(c, "reissueCode", None) /\ UNCHANGED <<kind, now, rows>>
       \/ LockAccount(c, {"reissueCode"})
       \/ At(c, "reissueCode", "locked") /\ account.disabled /\ Refuse(c)
       \/ call[c].op = "reissueCode" /\ ~account.disabled /\ VoidCodes(c)
       \/ /\ At(c, "reissueCode", "voided")
          /\ codes' = [Voided(c) EXCEPT ![c] = [st |-> "issued", until |-> now + CodeLife]]
          /\ End(c, "done")
          /\ UNCHANGED <<kind, now, account, ceremonies, sessions, grants, reports, covered>>

(* disable: for good; codes void, sessions ended, challenges deleted, in one transaction *)
Disable(c) ==
    /\ kind = "reviewer"
    /\ \/ Arrives(c) /\ account.exists /\ Start(c, "disable", None) /\ UNCHANGED <<kind, now, rows>>
       \/ LockAccount(c, {"disable"})
       \/ call[c].op = "disable" /\ VoidCodes(c)
       \/ call[c].op = "disable" /\ EndSessions(c)
       \/ /\ At(c, "disable", "ended")
          /\ account' = [account EXCEPT !.disabled = TRUE]
          /\ codes' = Voided(c) /\ sessions' = Ended(c)
          /\ ceremonies' = [k \in Rows |-> IF ceremonies[k].st = "open"
                                            THEN [ceremonies[k] EXCEPT !.st = "gone"] ELSE ceremonies[k]]
          /\ covered' = covered \cup Issued
          /\ End(c, "done")
          /\ UNCHANGED <<kind, now, grants, reports>>

(* beginEnrolment: the code can be redeemed when it is read; the challenge is inserted    *)
(* afterwards, and its foreign key waits for a transaction that has the reviewer's row.   *)
BeginEnrolment(c) ==
    /\ kind = "reviewer"
    /\ \/ \E k \in Rows : /\ Arrives(c) /\ codes[k].st # "none"
                           /\ Start(c, "beginEnrolment", k) /\ UNCHANGED <<kind, now, rows>>
       \/ /\ At(c, "beginEnrolment", "begun") /\ Redeemable(call[c].arg) /\ ~account.disabled
          /\ Goto(c, "read") /\ UNCHANGED <<kind, now, rows>>
       \/ /\ At(c, "beginEnrolment", "begun") /\ (~Redeemable(call[c].arg) \/ account.disabled)
          /\ Refuse(c)
       \/ /\ At(c, "beginEnrolment", "read") /\ AccountUnlocked(c)
          /\ OpenCeremony(c, "enrolment", call[c].arg)

(* completeEnrolment: the first to complete spends the code *)
CompleteEnrolment(c) ==
    /\ kind = "reviewer"
    /\ \/ Answer(c, "completeEnrolment", "enrolment")
       \/ Verify(c, "completeEnrolment", TRUE)
       \/ At(c, "completeEnrolment", "verified") /\ SpendCode(c, ceremonies[call[c].arg].code)
       \/ call[c].op = "completeEnrolment" /\ InsertSession(c)
       \/ /\ call[c].op = "completeEnrolment"
          /\ CommitSession(c, ceremonies[call[c].arg].code, call[c].arg, [account EXCEPT !.enrolled = TRUE])

(* beginSignIn *)
BeginSignIn(c) ==
    /\ kind = "reviewer"
    /\ \/ Arrives(c) /\ account.exists /\ Start(c, "beginSignIn", None) /\ UNCHANGED <<kind, now, rows>>
       \/ /\ At(c, "beginSignIn", "begun") /\ account.enrolled /\ ~account.disabled
          /\ Goto(c, "read") /\ UNCHANGED <<kind, now, rows>>
       \/ At(c, "beginSignIn", "begun") /\ (~account.enrolled \/ account.disabled) /\ Refuse(c)
       \/ At(c, "beginSignIn", "read") /\ AccountUnlocked(c) /\ OpenCeremony(c, "signIn", None)

(* completeSignIn: the session's INSERT waits for a transaction that has the reviewer's row, *)
(* and does not look at it.                                                                  *)
CompleteSignIn(c) ==
    /\ kind = "reviewer"
    /\ \/ Answer(c, "completeSignIn", "signIn")
       \/ Verify(c, "completeSignIn", account.enrolled)
       \/ AccountUnlocked(c) /\ OpenSession(c, "completeSignIn", account)

ReviewerStep(c) ==
    \/ CreateReviewer(c) \/ ReissueCode(c) \/ Disable(c)
    \/ BeginEnrolment(c) \/ CompleteEnrolment(c) \/ BeginSignIn(c) \/ CompleteSignIn(c)
=============================================================================
