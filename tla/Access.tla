------------------------------- MODULE Access -------------------------------
(***************************************************************************)
(* Every way into Kippu and out again, at once: sign-in, enrolment codes,  *)
(* revocation and disabling, sign-out, checks and reports of one account.  *)
(***************************************************************************)
EXTENDS Reviewers

Step(c) == AuthStep(c) \/ OperatorStep(c) \/ ReviewerStep(c)

Next ==
    \/ Tick
    \/ \E c \in Calls : Step(c) \/ DeadlockAborts(c) \/ Fail(c)

(* Requests that have begun are carried on, one or the other, and PostgreSQL looks for      *)
(* deadlocks.  No request need arrive, and the clock need not move.                         *)
Progress == \E c \in Calls : (Running(c) /\ Step(c)) \/ DeadlockAborts(c)
Fairness == WF_vars(Progress)

Spec == Init /\ [][Next]_vars /\ Fairness

CodeRow == [st : {"none", "issued", "redeemed", "voided"}, until : 0 .. MaxTime + CodeLife]
CeremonyRow == [st : {"none", "open", "gone"}, for : {"signUp", "signIn", "link", "enrolment"},
                code : Ids, until : 0 .. MaxTime + CeremonyLife]
SessionRow == [st : {"none", "open"}, code : Ids, ceremony : Ids,
               until : 0 .. MaxTime + SessionLife, revoked : Times \cup {None}]
GrantRow == [st : {"none", "made"}, from : 0 .. MaxTime + 1, until : 0 .. MaxTime + 2,
             revoked : Times \cup {None}]

(* The shapes of the rows and of the calls. *)
TypeOK ==
    /\ kind \in Kinds /\ now \in Times
    /\ account \in [owner : Ids, exists : BOOLEAN, enrolled : BOOLEAN, disabled : BOOLEAN]
    /\ codes \in [Rows -> CodeRow]
    /\ ceremonies \in [Rows -> CeremonyRow]
    /\ sessions \in [Rows -> SessionRow]
    /\ grants \in [Rows -> GrantRow]
    /\ reports \in [st : {"none", "made"}, presented : Times, session : Ids]
    /\ \A c \in Calls : /\ call[c].arg \in Ids /\ call[c].at \in Times
                        /\ call[c].voids \subseteq Rows /\ call[c].ends \subseteq Rows
                        /\ call[c].revoked \in Times \cup {None}
    /\ covered \subseteq Rows

(* Once revokeSessions or disable has committed, no session answers that was opened, then or  *)
(* since, from a code or challenge given out before: neither a redemption that had spent its   *)
(* code while the revocation ran, nor a sign-in that had consumed its challenge, gets through  *)
(* (operators/service.ts revokeSessions, reviewers/service.ts disable, auth authenticate).     *)
RevokedMeansOut ==
    \A s \in Rows : Authentic(s) => {sessions[s].code, sessions[s].ceremony} \cap covered = {}

(* A code opens exactly one session if it was redeemed and none if it is void or unspent,      *)
(* however many answers race for it and whoever voids it meanwhile (redeemOperatorEnrolment-   *)
(* Code, completeEnrolment, issueCode, revokeSessions).                                        *)
CodesSpentOnce ==
    \A k \in Rows : codes[k].st # "none" =>
        Cardinality({s \in Rows : sessions[s].st = "open" /\ sessions[s].code = k})
            = (IF codes[k].st = "redeemed" THEN 1 ELSE 0)

(* A challenge opens at most one session, however often and at once it is answered             *)
(* (consumeCeremony deletes it before anything is verified).                                   *)
AnsweredOnce ==
    \A k \in Rows : ceremonies[k].st # "none" =>
        Cardinality({s \in Rows : sessions[s].st = "open" /\ sessions[s].ceremony = k}) <= 1

(* Of sign-ups racing for one email, one makes the account; the others open no session         *)
(* (completeOrganiserSignUp).                                                                  *)
OneAccountPerEmail ==
    \A s \in Rows :
        /\ sessions[s].st = "open" /\ sessions[s].ceremony # None
        /\ ceremonies[sessions[s].ceremony].for = "signUp"
        => account.owner = sessions[s].ceremony

ReportRefused(c) == call[c].op = "report" /\ Running(c) /\ call'[c].pc = "refused"

(* A report of a pass presented before its session's revocation, and before every grant's, is  *)
(* not refused while a revoked session may still report, even if the revocation commits in the *)
(* middle of the request (fastify-context.ts looks for a live session first, then for one       *)
(* revoked; reports.ts record).                                                                *)
EvidenceKept ==
    [][\A c \in Calls : ReportRefused(c) =>
          LET s == sessions[call[c].arg] IN
          ~(/\ RevokedLately(call[c].arg) /\ call[c].at < s.revoked
            /\ \E g \in Rows : Covers(g, call[c].at))]_vars

(* In the end no request is left waiting, also when a redemption and a revocation wait for each     *)
(* other's rows (operators/service.ts revokeSessions, auth redeemOperatorEnrolmentCode).        *)
CallsEnd == <>[](\A c \in Calls : ~Running(c))
=============================================================================
