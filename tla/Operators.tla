----------------------------- MODULE Operators ------------------------------
(***************************************************************************)
(* An operator's enrolment codes, sessions, grants and admission reports   *)
(* (src/src/operators/service.ts, reports.ts; redeeming a code is          *)
(* src/src/auth/service.ts).                                               *)
(***************************************************************************)
EXTENDS Auth

(* assertOperator and reviewerByEmail: FOR UPDATE, which waits for every other holder. *)
LockAccount(c, ops) ==
    /\ call[c].op \in ops /\ call[c].pc = "begun"
    /\ AccountUnlocked(c) /\ \A d \in Calls \ {c} : ~SharesAccount(d)
    /\ Goto(c, "locked")
    /\ UNCHANGED <<kind, now, rows>>

VoidCodesMutant(c) ==
    /\ call[c].pc = "locked"
    /\ call' = [call EXCEPT ![c].pc = "voided",
                            ![c].voids = {k \in Rows : codes[k].st = "issued" /\ CodeFree(c, k)}]
    /\ UNCHANGED <<kind, now, rows>>

(* UPDATE ... SET voided_at WHERE redeemed_at IS NULL AND voided_at IS NULL: a code some  *)
(* transaction has is waited for, and then looked at again.                               *)
VoidCodes(c) ==
    /\ call[c].pc = "locked"
    /\ LET open == {k \in Rows : codes[k].st = "issued"} IN
       /\ \A k \in open : CodeFree(c, k)
       /\ call' = [call EXCEPT ![c].pc = "voided", ![c].voids = open]
    /\ UNCHANGED <<kind, now, rows>>

(* UPDATE sessions SET revoked_at = at WHERE revoked_at IS NULL AND expires_at > at *)
EndSessions(c) ==
    /\ call[c].pc = "voided"
    /\ call' = [call EXCEPT ![c].pc = "ended",
                            ![c].ends = {s \in Rows : /\ sessions[s].st = "open"
                                                       /\ sessions[s].revoked = None
                                                       /\ sessions[s].until > call[c].at}]
    /\ UNCHANGED <<kind, now, rows>>

Voided(c) == [k \in Rows |-> IF k \in call[c].voids THEN [codes[k] EXCEPT !.st = "voided"] ELSE codes[k]]
Ended(c) == [s \in Rows |-> IF s \in call[c].ends THEN [sessions[s] EXCEPT !.revoked = call[c].at]
                             ELSE sessions[s]]
Issued == {k \in Rows : codes[k].st # "none" \/ ceremonies[k].st # "none"}

(* issueEnrolmentCode *)
IssueEnrolmentCode(c) ==
    /\ kind = "operator"
    /\ \/ Arrives(c) /\ Start(c, "issueCode", None) /\ UNCHANGED <<kind, now, rows>>
       \/ LockAccount(c, {"issueCode"})
       \/ /\ At(c, "issueCode", "locked")
          /\ codes' = [codes EXCEPT ![c] = [st |-> "issued", until |-> call[c].at + CodeLife]]
          /\ End(c, "done")
          /\ UNCHANGED <<kind, now, account, ceremonies, sessions, grants, reports, covered>>

(* revokeSessions: the operator, then its codes, then its sessions, and one commit *)
RevokeSessions(c) ==
    /\ kind = "operator"
    /\ \/ Arrives(c) /\ Start(c, "revokeSessions", None) /\ UNCHANGED <<kind, now, rows>>
       \/ LockAccount(c, {"revokeSessions"})
       \/ call[c].op = "revokeSessions" /\ VoidCodes(c)
       \/ call[c].op = "revokeSessions" /\ EndSessions(c)
       \/ /\ At(c, "revokeSessions", "ended")
          /\ codes' = Voided(c) /\ sessions' = Ended(c)
          /\ covered' = covered \cup Issued
          /\ End(c, "done")
          /\ UNCHANGED <<kind, now, account, ceremonies, grants, reports>>

SpendCodeMutant(c, k) ==
    /\ IF Redeemable(k) THEN Goto(c, "spent") ELSE End(c, "refused")
    /\ UNCHANGED <<kind, now, rows>>

(* The UPDATE that spends a code: it waits for the row and takes it if nobody has yet. *)
SpendCode(c, k) ==
    /\ CodeFree(c, k)
    /\ IF Redeemable(k) THEN Goto(c, "spent") ELSE End(c, "refused")
    /\ UNCHANGED <<kind, now, rows>>

(* The session's INSERT, whose foreign key waits for the account's row *)
InsertSession(c) ==
    /\ call[c].pc = "spent" /\ AccountUnlocked(c)
    /\ Goto(c, "inserted")
    /\ UNCHANGED <<kind, now, rows>>

CommitSession(c, code, ceremony, acc) ==
    /\ call[c].pc = "inserted"
    /\ codes' = [codes EXCEPT ![code].st = "redeemed"]
    /\ sessions' = [sessions EXCEPT ![c] = NewSession(code, ceremony)]
    /\ account' = acc
    /\ End(c, "done")
    /\ UNCHANGED <<kind, now, ceremonies, grants, reports, covered>>

(* redeemOperatorEnrolmentCode *)
RedeemOperatorEnrolmentCode(c) ==
    /\ kind = "operator"
    /\ \/ \E k \in Rows : /\ Arrives(c) /\ codes[k].st # "none"
                           /\ Start(c, "redeem", k) /\ UNCHANGED <<kind, now, rows>>
       \/ At(c, "redeem", "begun") /\ SpendCode(c, call[c].arg)
       \/ call[c].op = "redeem" /\ InsertSession(c)
       \/ call[c].op = "redeem" /\ CommitSession(c, call[c].arg, None, account)

(* grant, for a window that starts now or next *)
Grant(c) ==
    /\ kind = "operator" /\ Arrives(c)
    /\ \E from \in {now, now + 1} :
         grants' = [grants EXCEPT ![c] = [st |-> "made", from |-> from, until |-> from + 1, revoked |-> None]]
    /\ call' = [call EXCEPT ![c] = [Idle EXCEPT !.op = "grant", !.pc = "done"]]
    /\ UNCHANGED <<kind, now, account, codes, ceremonies, sessions, reports, covered>>

(* revokeGrant: revoked once, the first time *)
RevokeGrant(c) ==
    /\ kind = "operator" /\ Arrives(c)
    /\ \E g \in Rows :
         /\ grants[g].st = "made"
         /\ grants' = [grants EXCEPT ![g].revoked = IF @ = None THEN now ELSE @]
    /\ call' = [call EXCEPT ![c] = [Idle EXCEPT !.op = "revokeGrant", !.pc = "done"]]
    /\ UNCHANGED <<kind, now, account, codes, ceremonies, sessions, reports, covered>>

Active(g) == grants[g].st = "made" /\ grants[g].revoked = None
             /\ grants[g].from <= now /\ now < grants[g].until

(* check: the session first, then one read of the grants *)
Check(c) ==
    /\ kind = "operator"
    /\ \/ \E s \in Rows : Arrives(c) /\ Authentic(s)
                           /\ Start(c, "check", s) /\ UNCHANGED <<kind, now, rows>>
       \/ At(c, "check", "begun") /\ (\E g \in Rows : Active(g))
          /\ End(c, "done") /\ UNCHANGED <<kind, now, rows>>
       \/ At(c, "check", "begun") /\ ~(\E g \in Rows : Active(g)) /\ Refuse(c)

LookUpSessionMutant(c) ==
    \/ /\ At(c, "report", "begun") /\ RevokedLately(call[c].arg)
       /\ call' = [call EXCEPT ![c].pc = "known", ![c].revoked = sessions[call[c].arg].revoked]
       /\ UNCHANGED <<kind, now, rows>>
    \/ At(c, "report", "begun") /\ ~RevokedLately(call[c].arg) /\ Goto(c, "unknown")
       /\ UNCHANGED <<kind, now, rows>>
    \/ At(c, "report", "unknown") /\ Authentic(call[c].arg) /\ Goto(c, "known")
       /\ UNCHANGED <<kind, now, rows>>
    \/ At(c, "report", "unknown") /\ ~Authentic(call[c].arg) /\ Refuse(c)

(* The context of a report: a live session, or else one revoked lately, in that order. *)
(* at is when the pass was presented, by the device's clock.                            *)
LookUpSession(c) ==
    \/ /\ At(c, "report", "begun")
       /\ Goto(c, IF Authentic(call[c].arg) THEN "known" ELSE "unknown")
       /\ UNCHANGED <<kind, now, rows>>
    \/ /\ At(c, "report", "unknown") /\ RevokedLately(call[c].arg)
       /\ call' = [call EXCEPT ![c].pc = "known", ![c].revoked = sessions[call[c].arg].revoked]
       /\ UNCHANGED <<kind, now, rows>>
    \/ At(c, "report", "unknown") /\ ~RevokedLately(call[c].arg) /\ Refuse(c)

(* record's conditions: presented before the session's revocation, and under a grant not *)
(* revoked by then                                                                       *)
Covers(g, presented) ==
    grants[g].st = "made" /\ (grants[g].revoked # None => presented < grants[g].revoked)
Reportable(c) ==
    /\ call[c].revoked # None => call[c].at < call[c].revoked
    /\ \E g \in Rows : Covers(g, call[c].at)

(* reportAdmission: sending the same report again answers the one recorded first. *)
ReportAdmission(c) ==
    /\ kind = "operator"
    /\ \/ \E s \in Rows, presented \in 0 .. now :
            /\ Arrives(c) /\ sessions[s].st = "open"
            /\ call' = [call EXCEPT ![c] = [Idle EXCEPT !.op = "report", !.pc = "begun",
                                                       !.arg = s, !.at = presented]]
            /\ UNCHANGED <<kind, now, rows>>
       \/ LookUpSession(c)
       \/ /\ At(c, "report", "known") /\ Reportable(c)
          /\ reports' = IF reports = NoReport
                        THEN [st |-> "made", presented |-> call[c].at, session |-> call[c].arg]
                        ELSE reports
          /\ End(c, "done")
          /\ UNCHANGED <<kind, now, account, codes, ceremonies, sessions, grants, covered>>
       \/ At(c, "report", "known") /\ ~Reportable(c) /\ Refuse(c)

OperatorStep(c) ==
    \/ IssueEnrolmentCode(c) \/ RevokeSessions(c) \/ RedeemOperatorEnrolmentCode(c)
    \/ Grant(c) \/ RevokeGrant(c) \/ Check(c) \/ ReportAdmission(c)
=============================================================================
