-------------------------------- MODULE Auth --------------------------------
(***************************************************************************)
(* Signing in (src/src/auth/service.ts): a challenge is opened, answered   *)
(* once, verified, and only then does a transaction open the session.  The *)
(* challenge is consumed by the first answer whatever comes of it, before  *)
(* anything is verified.                                                   *)
(***************************************************************************)
EXTENDS Accounts

(* issueSession: the row a transaction inserts; the token's hash is the call. *)
NewSession(code, ceremony) ==
    [st |-> "open", code |-> code, ceremony |-> ceremony, until |-> now + SessionLife, revoked |-> None]

(* authenticate: not revoked, not expired, and no disabled reviewer's *)
Authentic(s) ==
    /\ sessions[s].st = "open" /\ sessions[s].revoked = None /\ sessions[s].until > now
    /\ ~account.disabled

(* authenticateRevokedOperator *)
RevokedLately(s) ==
    /\ kind = "operator" /\ sessions[s].st = "open" /\ sessions[s].revoked # None
    /\ sessions[s].revoked + ReportLife > now

NewCeremony(for, code) == [st |-> "open", for |-> for, code |-> code, until |-> now + CeremonyLife]

(* openCeremony, and beginHolderLink's INSERT *)
OpenCeremony(c, for, code) ==
    /\ ceremonies' = [ceremonies EXCEPT ![c] = NewCeremony(for, code)]
    /\ End(c, "done")
    /\ UNCHANGED <<kind, now, account, codes, sessions, grants, reports, covered>>

RefuseMutant(c) == UNCHANGED <<kind, now, rows, call>>

(* Answered with an error; a transaction under way is rolled back. *)
Refuse(c) == End(c, "refused") /\ UNCHANGED <<kind, now, rows>>

(* beginOrganiserSignUp: nobody has the email yet, as far as this read sees *)
BeginOrganiserSignUp(c) ==
    /\ kind = "organiser"
    /\ \/ Arrives(c) /\ Start(c, "signUp", None) /\ UNCHANGED <<kind, now, rows>>
       \/ At(c, "signUp", "begun") /\ account.exists /\ Refuse(c)
       \/ At(c, "signUp", "begun") /\ ~account.exists /\ Goto(c, "read") /\ UNCHANGED <<kind, now, rows>>
       \/ At(c, "signUp", "read") /\ OpenCeremony(c, "signUp", None)

(* beginOrganiserSignIn *)
BeginOrganiserSignIn(c) ==
    /\ kind = "organiser"
    /\ \/ Arrives(c) /\ Start(c, "signIn", None) /\ UNCHANGED <<kind, now, rows>>
       \/ At(c, "signIn", "begun") /\ ~account.exists /\ Refuse(c)
       \/ At(c, "signIn", "begun") /\ account.exists /\ OpenCeremony(c, "signIn", None)

(* beginHolderLink: a challenge for the account, whoever asks *)
BeginHolderLink(c) ==
    /\ kind = "holder" /\ Arrives(c)
    /\ ceremonies' = [ceremonies EXCEPT ![c] = NewCeremony("link", None)]
    /\ call' = [call EXCEPT ![c] = [Idle EXCEPT !.op = "beginLink", !.pc = "done"]]
    /\ UNCHANGED <<kind, now, account, codes, sessions, grants, reports, covered>>

ConsumeCeremonyMutant(c, k) ==
    /\ ceremonies[k].st = "open"
    /\ IF ceremonies[k].for = "link" \/ (ceremonies[k].until > now /\ ~account.disabled)
       THEN Goto(c, "consumed") ELSE End(c, "refused")
    /\ UNCHANGED <<kind, now, rows>>

(* consumeCeremony, and completeHolderLink's DELETE: gone, whatever the answer is worth. *)
(* An expired one is refused here; a link's expiry is checked with its proof.            *)
ConsumeCeremony(c, k) ==
    /\ ceremonies[k].st = "open"
    /\ ceremonies' = [ceremonies EXCEPT ![k].st = "gone"]
    /\ IF ceremonies[k].for = "link" \/ (ceremonies[k].until > now /\ ~account.disabled)
       THEN Goto(c, "consumed") ELSE End(c, "refused")
    /\ UNCHANGED <<kind, now, account, codes, sessions, grants, reports, covered>>

(* An answer names a challenge of its kind; one already answered is unknown. *)
Answer(c, op, for) ==
    \/ \E k \in Rows :
         /\ Arrives(c) /\ ceremonies[k].st # "none" /\ ceremonies[k].for = for
         /\ Start(c, op, k) /\ UNCHANGED <<kind, now, rows>>
    \/ At(c, op, "begun") /\ ConsumeCeremony(c, call[c].arg)
    \/ At(c, op, "begun") /\ ceremonies[call[c].arg].st = "gone" /\ Refuse(c)

(* The answer verifies or not (WebAuthn, or the profile's proof of control). *)
Verify(c, op, mayVerify) ==
    /\ At(c, op, "consumed")
    /\ \/ mayVerify /\ Goto(c, "verified") /\ UNCHANGED <<kind, now, rows>>
       \/ Refuse(c)

OpenSession(c, op, acc) ==
    /\ At(c, op, "verified")
    /\ account' = acc
    /\ sessions' = [sessions EXCEPT ![c] = NewSession(None, call[c].arg)]
    /\ End(c, "done")
    /\ UNCHANGED <<kind, now, codes, ceremonies, grants, reports, covered>>

InsertOrganiserMutant(c) ==
    OpenSession(c, "completeSignUp", [account EXCEPT !.exists = TRUE, !.owner = call[c].arg])

(* completeOrganiserSignUp's transaction: the organiser, its passkey and its session, or *)
(* none of them when the email has been taken since.                                     *)
InsertOrganiser(c) ==
    IF account.exists THEN At(c, "completeSignUp", "verified") /\ Refuse(c)
    ELSE OpenSession(c, "completeSignUp", [account EXCEPT !.exists = TRUE, !.owner = call[c].arg])

CompleteOrganiserSignUp(c) ==
    /\ kind = "organiser"
    /\ Answer(c, "completeSignUp", "signUp") \/ Verify(c, "completeSignUp", TRUE) \/ InsertOrganiser(c)

CompleteOrganiserSignIn(c) ==
    /\ kind = "organiser"
    /\ \/ Answer(c, "completeSignIn", "signIn")
       \/ Verify(c, "completeSignIn", account.exists)
       \/ OpenSession(c, "completeSignIn", account)

(* completeHolderLink: the credential must be on the ledger and the proof unexpired. *)
CompleteHolderLink(c) ==
    /\ kind = "holder"
    /\ \/ Answer(c, "completeLink", "link")
       \/ Verify(c, "completeLink", now < ceremonies[call[c].arg].until)
       \/ OpenSession(c, "completeLink", [account EXCEPT !.exists = TRUE])

(* signOut, by an authenticated session; it waits for a revocation that has the row. *)
SignOut(c) ==
    \/ \E s \in Rows :
         Arrives(c) /\ Authentic(s) /\ Start(c, "signOut", s) /\ UNCHANGED <<kind, now, rows>>
    \/ /\ At(c, "signOut", "begun") /\ \A d \in Calls : call[c].arg \notin call[d].ends
       /\ sessions' = [sessions EXCEPT ![call[c].arg].revoked = IF @ = None THEN now ELSE @]
       /\ End(c, "done")
       /\ UNCHANGED <<kind, now, account, codes, ceremonies, grants, reports, covered>>

AuthStep(c) ==
    \/ BeginOrganiserSignUp(c) \/ BeginOrganiserSignIn(c) \/ BeginHolderLink(c)
    \/ CompleteOrganiserSignUp(c) \/ CompleteOrganiserSignIn(c) \/ CompleteHolderLink(c)
    \/ SignOut(c)
=============================================================================
