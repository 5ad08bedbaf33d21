-------------------------- MODULE RedemptionProofs --------------------------
(***************************************************************************)
(* Theorems about the invitation of Relayed and what Kippu records as      *)
(* settled, for every number of holders, of requests and of faults, and the *)
(* proof that the redemptions implement OneTicket.                         *)
(***************************************************************************)
EXTENDS RelayedProofs

Redeeming == {"claimed", "lockWait", "provision", "createWait", "locked", "created", "sign",
      "after", "settle"}
             \cup Signing
Ended == {"settle", "done", "refused", "stopped"}

RedeemAt(c) ==
    /\ call[c].pc \in Redeeming => invitation.status = "redeeming" /\ invitation.holder = c
    /\ Write(c) \notin {"none", "refused"} => invitation.holder = c
          /\ invitation.status \notin {"none", "open"}
    /\ call[c].pc = "settle" =>
         /\ call[c].verdict # "none"
         /\ call[c].verdict = "landed" => Write(c) = "landed"
         /\ call[c].verdict = "refused" => Write(c) \in {"none", "refused"}

IssuanceAt(c) ==
    /\ issuance[c] = "settled" => Write(c) = "landed"
    /\ issuance[c] \in {"rejected", "deleted"} => call[c].pc \in Ended
          /\ Write(c) \in {"none", "refused"}

InvitationInv ==
    /\ \A c \in Redemptions : RedeemAt(c)
    /\ \A c \in Calls : IssuanceAt(c)
    /\ invitation.status = "redeemed" => invitation.holder \in Redemptions
          /\ Write(invitation.holder) = "landed"

RecordedInv ==
    /\ \A r \in Rows : requests[r].status = "approved" => requests[r].proof \in Calls
          /\ Write(requests[r].proof) = "landed"
    /\ \A c \in links : Write(c) = "landed"

\* Goto keeps what a request is and what it was told.
LEMMA GotoKeeps ==
    ASSUME call \in [Calls -> Request], NEW c \in Calls, NEW p, Goto(c, p)
    PROVE  call'[c].op = call[c].op /\ call'[c].arg = call[c].arg
               /\ call'[c].verdict = call[c].verdict /\ call'[c].pc = p
  BY DEF Goto, Request

\* What a request is that starts
LEMMA StartKeeps ==
    ASSUME call \in [Calls -> Request], NEW c \in Calls, NEW o, NEW a, Start(c, o, a)
    PROVE  call'[c].op = o /\ call'[c].arg = a /\ call'[c].pc = "begun"
  BY DEF Start, Idle

\* Which requests a turn of each group may be of
LEMMA TurnOps ==
    ASSUME TypeOK, NEW c \in Calls
    PROVE  /\ RedeemTurn(c) => call'[c].op \in {"invite", "redeem"}
           /\ RaiseTurn(c) => call'[c].op \in {"approve", "request", "reject"}
           /\ SetupTurn(c) => call'[c].op \in Writes \cup {"positions"}
           /\ TermsTurn(c) => call'[c].op \in {"setSaleAsset", "hold", "createEvent",
                 "defineClass", "setClassPrice"}
<1>0. call \in [Calls -> Request]
  BY DEF TypeOK
<1> USE DEF At, Arrives
<1>1. ASSUME RedeemTurn(c) PROVE call'[c].op \in {"invite", "redeem"}
  <2>1. CASE CreateInvitation(c)
    BY <1>0, <2>1 DEF CreateInvitation, Idle
  <2>2. CASE ArriveToRedeem(c)
    BY <1>0, <2>2, StartKeeps DEF ArriveToRedeem
  <2>3. CASE Claim(c) \/ BeginReservation(c) \/ CompleteIssuance(c) \/ Settle(c)
    BY <1>0, <2>3, GotoKeeps DEF Claim, BeginReservation, CompleteIssuance, Settle
  <2>4. CASE Reserve(c) \/ ReserveFails(c)
    BY <1>0, <2>4 DEF Reserve, ReserveFails, Goto, Request
  <2> QED BY <1>1, <2>1, <2>2, <2>3, <2>4 DEF RedeemTurn, RedeemStep
<1>2. ASSUME RaiseTurn(c) PROVE call'[c].op \in {"approve", "request", "reject"}
  BY <1>0, <1>2, StartKeeps, GotoKeeps
     DEF RaiseTurn, ArriveToApprove, ApproveStep, FindRequest, LockRequest, Decide,
        RequestIncrease, Reject
<1>3. ASSUME SetupTurn(c) PROVE call'[c].op \in Writes \cup {"positions"}
  <2>1. CASE ArriveToWrite(c)
    BY <1>0, <2>1 DEF ArriveToWrite, Idle
  <2>2. CASE SetupStep(c) \/ AddSeatPositions(c)
    BY <1>0, <2>2, StartKeeps, GotoKeeps
       DEF SetupStep, NotSettled, LinkEvent, ForgetPositions, NothingFurther, AddSeatPositions,
          Writes
  <2> QED BY <1>3, <2>1, <2>2 DEF SetupTurn
<1>4. ASSUME TermsTurn(c)
      PROVE  call'[c].op \in {"setSaleAsset", "hold", "createEvent", "defineClass", "setClassPrice"}
  <2>1. CASE ArriveToSetAsset(c) \/ ArriveToHold(c) \/ DefineClass(c) \/ SetPrice(c)
    BY <1>0, <2>1, StartKeeps, GotoKeeps DEF ArriveToSetAsset, ArriveToHold, DefineClass, SetPrice
  <2>2. CASE TermsStep(c)
    BY <1>0, <2>2, GotoKeeps
       DEF TermsStep, RecordAtCreation, BeginTerms, ClearPrices, ChooseAsset, BeginHold, ReadTerms,
          PlaceHold
  <2> QED BY <1>4, <2>1, <2>2 DEF TermsTurn
<1> QED BY <1>1, <1>2, <1>3, <1>4

\* A request's write is sent once, by its relay, and settled once, by the ledger.
LEMMA Writings ==
    ASSUME TypeOK, RelayInv, [Next]_vars, NEW c \in Calls
    PROVE  \/ Write(c)' = Write(c)
           \/ Write(c) = "none" /\ Write(c)' = "sent" /\ call[c].pc = "submit"
                 /\ call'[c].op = call[c].op
           \/ Write(c) = "sent" /\ Write(c)' \in {"landed", "refused"} /\ UNCHANGED call
<1>0. call \in [Calls -> Request] /\ ledger \in [Ops -> {"none", "sent", "landed", "refused"}]
        /\ <<c, "write">> \in Ops
  BY DEF TypeOK, AuthorityTypes, Ops, Calls, Rows, Stages
<1>1. CASE UNCHANGED vars
  BY <1>1 DEF vars, authorityVars, Write
<1>2. ASSUME NEW d \in Calls, RelayTurn(d)
      PROVE  Write(c)' = Write(c) \/ (Write(c) = "none" /\ Write(c)' = "sent"
                 /\ call[c].pc = "submit" /\ call'[c].op = call[c].op)
  <2>1. RelayMove(d) /\ RelayAt(d, call[d]) /\ Current(d) \in Ops /\ call[d].stage \in Stages
    BY <1>0, <1>2, RelayMoves, CurrentIsOp, RequestFields DEF RelayTurn, RelayInv
  <2>2. CASE call[d].pc = "submit"
    <3>1. ledger' = [ledger EXCEPT ![Current(d)] = "sent"] /\ ledger[Current(d)] = "none"
      BY <2>1, <2>2 DEF RelayMove, RelayAt, Current
    <3>2. CASE <<c, "write">> = Current(d)
      <4>1. c = d
        BY <2>1, <3>2, StageOps DEF Current
      <4> QED BY <1>0, <2>1, <2>2, <3>1, <3>2, <4>1 DEF Write, RelayMove
    <3> QED BY <1>0, <3>1, <3>2 DEF Write
  <2> QED BY <2>1, <2>2 DEF RelayMove, Write
<1>3. ASSUME NEW d \in Calls, CallerTurn(d) \/ StopTurn(d) PROVE Write(c)' = Write(c)
  BY <1>0, <1>3, CallerMoves, StopEffect DEF authorityVars, Write
<1>4. ASSUME NEW o \in Ops, Land(o) \/ RefuseOp(o)
      PROVE  Write(c)' = Write(c) \/ (Write(c) = "sent" /\ Write(c)' \in {"landed", "refused"}
                 /\ UNCHANGED call)
  BY <1>0, <1>4, LedgerTypes DEF Write
<1> QED BY <1>1, <1>2, <1>3, <1>4, Turns

\* A request that has not come yet, or has not signed, has written nothing.
LEMMA IdleWroteNothing ==
    ASSUME RelayInv, NEW c \in Calls, call[c].pc \in Early
    PROVE  Write(c) = "none"
  BY DEF RelayInv, RelayAt, Untouched, Write

\* The verdict an operation's caller hears is the ledger's (relay.ts passes it on after the row).
LEMMA VerdictTold ==
    ASSUME TypeOK, RelayInv, NEW c \in Calls, call[c].pc = "after"
    PROVE  /\ call[c].verdict \in Verdicts
           /\ call[c].verdict = "landed" => Write(c) = "landed"
           /\ call[c].verdict = "refused" => Write(c) \in {"none", "refused"}
           /\ call[c].stage = "register" => Write(c) = "none"
  BY RequestFields DEF TypeOK, Heard, RelayInv, RelayAt, Untouched, Write, Stages

\* The invitation's invariant holds before anyone redeems it.
LEMMA InvitationInvInit == Init => InvitationInv
<1> SUFFICES ASSUME Init PROVE InvitationInv
  OBVIOUS
<1>1. PICK there \in BOOLEAN : AuthorityInit(there) /\ InvitationInit(there)
  BY DEF Init
<1>2. \A c \in Calls : call[c].op = "none" /\ issuance[c] = "none"
  BY <1>1 DEF AuthorityInit, InvitationInit, Idle
<1>3. invitation.status # "redeemed"
  BY <1>1 DEF InvitationInit
<1> QED BY <1>2, <1>3 DEF InvitationInv, Redemptions, IssuanceAt

\* What a step of another request leaves of the invitation's facts about request c
LEMMA OthersRedeem ==
    ASSUME TypeOK, RelayInv, InvitationInv, [Next]_vars, NEW c \in Calls, call'[c] = call[c],
           UNCHANGED invitationVars
    PROVE  (c \in Redemptions => RedeemAt(c)') /\ IssuanceAt(c)'
<1>1. IssuanceAt(c)
  BY DEF InvitationInv
<1>2. c \in Redemptions => RedeemAt(c)
  BY DEF InvitationInv
<1>3. Write(c)' = Write(c) \/ (Write(c) = "none" /\ Write(c)' = "sent" /\ call[c].pc = "submit")
      \/ (Write(c) = "sent" /\ Write(c)' \in {"landed", "refused"})
  BY Writings
<1>4. IssuanceAt(c)'
  BY <1>1, <1>3 DEF IssuanceAt, invitationVars, Ended
<1>5. ASSUME c \in Redemptions PROVE RedeemAt(c)'
  BY <1>2, <1>3, <1>5 DEF RedeemAt, invitationVars, Redeeming, Signing
<1> QED BY <1>4, <1>5

\* What is landed stays landed, and a redemption stays one.
LEMMA RedeemedStays ==
    ASSUME TypeOK, RelayInv, InvitationInv, [Next]_vars, invitation.status = "redeemed",
           UNCHANGED invitation,
           \A c \in Calls : call[c].pc # "idle" => call'[c].op = call[c].op
    PROVE  (invitation.holder \in Redemptions /\ Write(invitation.holder) = "landed")'
<1>1. invitation.holder \in Redemptions /\ Write(invitation.holder) = "landed"
        /\ invitation.holder \in Calls
  BY DEF InvitationInv, Redemptions
<1>2. (Write(invitation.holder) = "landed")'
  <2>1. ASSUME NEW c \in Calls, Write(c) = "landed" PROVE Write(c)' = "landed"
    BY <2>1, Writings
  <2> QED BY <1>1, <2>1 DEF Write
<1>3. call[invitation.holder].pc # "idle"
  BY <1>1, IdleWroteNothing DEF Early
<1> QED BY <1>1, <1>2, <1>3 DEF Redemptions

\* A request's operation is what it arrived for.
LEMMA OpsKept ==
    ASSUME TypeOK, [Next]_vars, NEW c \in Calls, call[c].pc # "idle"
    PROVE  call'[c].op = call[c].op /\ call'[c].arg = call[c].arg
<1>1. ASSUME NEW d \in Calls, CallerTurn(d) PROVE call'[c].op = call[c].op
               /\ call'[c].arg = call[c].arg
  BY <1>1, CallerMoves DEF CallerMove, TypeOK
<1>2. ASSUME NEW d \in Calls, RelayTurn(d) PROVE call'[c].op = call[c].op
               /\ call'[c].arg = call[c].arg
  BY <1>2, RelayMoves DEF RelayMove, RelayTurn
<1>3. ASSUME NEW d \in Calls, StopTurn(d) PROVE call'[c].op = call[c].op
               /\ call'[c].arg = call[c].arg
  BY <1>3, StopEffect DEF Becomes
<1>4. ASSUME NEW o \in Ops, Land(o) \/ RefuseOp(o) PROVE UNCHANGED call
  BY <1>4, LedgerTypes
<1> QED BY <1>1, <1>2, <1>3, <1>4, Turns DEF vars

\* A redemption that goes on was one before.
LEMMA StillRedeeming ==
    ASSUME TypeOK, [Next]_vars, NEW c \in Calls, call'[c].op = "redeem", call[c].pc # "idle"
    PROVE  c \in Redemptions
  BY OpsKept DEF Redemptions

\* Every turn but a redemption's own keeps the invitation's invariant.
LEMMA OthersKeepInvitation ==
    ASSUME TypeOK, RelayInv, InvitationInv, [Next]_vars, UNCHANGED invitationVars, NEW c \in Calls,
           \A d \in Calls \ {c} : call'[d] = call[d],
           c \in Redemptions' => RedeemAt(c)',
           call[c].pc \in Ended => call'[c].pc \in Ended
    PROVE  InvitationInv'
<1>1. ASSUME NEW d \in Calls, d # c PROVE (d \in Redemptions' => RedeemAt(d)') /\ IssuanceAt(d)'
  BY <1>1, OthersRedeem DEF Redemptions
<1>2. IssuanceAt(c)'
  <2>1. IssuanceAt(c)
    BY DEF InvitationInv
  <2>2. Write(c)' = Write(c) \/ (Write(c) = "none" /\ Write(c)' = "sent" /\ call[c].pc = "submit")
        \/ (Write(c) = "sent" /\ Write(c)' \in {"landed", "refused"})
    BY Writings
  <2> QED BY <2>1, <2>2 DEF IssuanceAt, invitationVars, Ended
<1>3. (invitation.status = "redeemed" => invitation.holder \in Redemptions
        /\ Write(invitation.holder) = "landed")'
  BY RedeemedStays, OpsKept DEF invitationVars
<1>4. \A d \in Redemptions' : d \in Calls
  BY DEF Redemptions
<1> QED BY <1>1, <1>2, <1>3, <1>4 DEF InvitationInv

\* A redemption's own turns: one claims the invitation, and it reopens on a refusal only (redeem).
LEMMA RedeemKeepsInvitation ==
    ASSUME TypeOK, RelayInv, InvitationInv, NEW c \in Calls, RedeemTurn(c)
    PROVE  InvitationInv'
<1>0. call \in [Calls -> Request] /\ InvitationTypes /\ None \notin Calls
  BY BoundsAssumption DEF TypeOK, Calls
<1>1. CallerMove(c) /\ UNCHANGED authorityVars /\ \A d \in Calls : Write(d)' = Write(d)
  BY <1>0, CallerMoves DEF CallerTurn, authorityVars, Write
<1>2. \A d \in Calls \ {c} : call'[d] = call[d] /\ issuance'[d] = issuance[d]
  <2>1. \A d \in Calls \ {c} : issuance'[d] = issuance[d]
    BY <1>0 DEF RedeemTurn, CreateInvitation, ArriveToRedeem, RedeemStep, Claim, BeginReservation,
       Reserve,
                CompleteIssuance, Settle, ReserveFails, invitationVars, InvitationTypes
  <2> QED BY <1>1, <2>1 DEF CallerMove
<1>3. ASSUME NEW d \in Calls, d # c PROVE IssuanceAt(d)'
  BY <1>1, <1>2, <1>3 DEF InvitationInv, IssuanceAt
<1>4. \A d \in Redemptions' : d \in Calls /\ (d # c => d \in Redemptions)
  BY <1>2 DEF Redemptions
<1>5. IssuanceAt(c) /\ (c \in Redemptions => RedeemAt(c))
  BY DEF InvitationInv
<1>6. SUFFICES /\ IssuanceAt(c)'
               /\ c \in Redemptions' => RedeemAt(c)'
               /\ \A d \in Redemptions \ {c} : RedeemAt(d)'
               /\ (invitation.status = "redeemed" => invitation.holder \in Redemptions
                     /\ Write(invitation.holder) = "landed")'
  BY <1>3, <1>4 DEF InvitationInv
<1>7. ASSUME UNCHANGED invitation
      PROVE  /\ \A d \in Redemptions \ {c} : RedeemAt(d)'
             /\ (invitation.status = "redeemed" => invitation.holder \in Redemptions
                   /\ Write(invitation.holder) = "landed")'
  <2>1. ASSUME NEW d \in Redemptions \ {c} PROVE RedeemAt(d)'
    <3>1. d \in Calls /\ RedeemAt(d) /\ call'[d] = call[d] /\ Write(d)' = Write(d)
      BY <1>1, <1>2 DEF InvitationInv, Redemptions
    <3> QED BY <1>7, <3>1 DEF RedeemAt
  <2>2. \A d \in Calls : call[d].pc # "idle" => call'[d].op = call[d].op
    BY <1>1, <1>2 DEF CallerMove
  <2>3. ASSUME invitation.status = "redeemed"
        PROVE  (invitation.holder \in Redemptions /\ Write(invitation.holder) = "landed")'
    <3>1. invitation.holder \in Redemptions /\ Write(invitation.holder) = "landed"
            /\ invitation.holder \in Calls
      BY <2>3 DEF InvitationInv, Redemptions
    <3>2. call[invitation.holder].pc # "idle"
      BY <3>1, IdleWroteNothing DEF Early
    <3> QED BY <1>1, <1>7, <2>2, <3>1, <3>2 DEF Redemptions, Write, authorityVars
  <2> QED BY <1>7, <2>1, <2>3
<1> USE DEF At, Arrives, Redeeming, Signing
<1>8. CASE CreateInvitation(c)
  <2>1. /\ invitation.status = "none" /\ invitation'.status = "open"
             /\ invitation'.holder = invitation.holder
        /\ call[c].pc = "idle" /\ call'[c].op = "invite" /\ issuance' = issuance
              /\ call'[c].pc = "done"
    BY <1>0, <1>8 DEF CreateInvitation, Idle, InvitationTypes
  <2>2. c \notin Redemptions'
    BY <2>1 DEF Redemptions
  <2>3. ASSUME NEW d \in Redemptions \ {c} PROVE RedeemAt(d)'
    <3>1. d \in Calls /\ RedeemAt(d) /\ call'[d] = call[d] /\ Write(d)' = Write(d)
      BY <1>1, <1>2 DEF InvitationInv, Redemptions
    <3> QED BY <2>1, <3>1 DEF RedeemAt
  <2>4. IssuanceAt(c)'
    BY <1>1, <1>5, <2>1 DEF IssuanceAt, Ended
  <2> QED BY <2>1, <2>2, <2>3, <2>4
<1>9. CASE ArriveToRedeem(c)
  <2>1. call[c].pc = "idle" /\ call'[c].pc = "begun" /\ UNCHANGED invitationVars
          /\ Write(c) = "none"
    BY <1>0, <1>9, StartKeeps, IdleWroteNothing DEF ArriveToRedeem, Early
  <2> QED BY <1>1, <1>5, <1>7, <2>1 DEF IssuanceAt, RedeemAt, invitationVars, Ended
<1>10. CASE Claim(c)
  <2>1. /\ call[c].pc = "begun" /\ call[c].op = "redeem" /\ UNCHANGED issuance
             /\ Write(c) = "none" /\ c \in Redemptions
        /\ call'[c].verdict = call[c].verdict
    BY <1>0, <1>10, IdleWroteNothing, GotoKeeps DEF Claim, Early, Redemptions
  <2>2. CASE invitation.status = "open"
    <3>1. invitation'.status = "redeeming" /\ invitation'.holder = c /\ call'[c].pc = "claimed"
      BY <1>0, <1>10, <2>2, GotoKeeps DEF Claim
    <3>2. ASSUME NEW d \in Redemptions \ {c} PROVE RedeemAt(d)'
      <4>1. d \in Calls /\ RedeemAt(d) /\ call'[d] = call[d] /\ Write(d)' = Write(d)
        BY <1>1, <1>2 DEF InvitationInv, Redemptions
      <4> QED BY <2>2, <4>1 DEF RedeemAt
    <3> QED BY <1>1, <1>5, <2>1, <3>1, <3>2 DEF IssuanceAt, RedeemAt, Ended
  <2>3. CASE invitation.status # "open"
    <3>1. UNCHANGED invitation /\ call'[c].pc = "refused"
      BY <1>0, <1>10, <2>3, GotoKeeps DEF Claim
    <3> QED BY <1>1, <1>5, <1>7, <2>1, <3>1 DEF IssuanceAt, RedeemAt, Ended
  <2> QED BY <2>2, <2>3
<1>11. CASE BeginReservation(c)
  <2>1. call[c].pc = "claimed" /\ call'[c].pc = "lockWait" /\ UNCHANGED invitationVars
          /\ c \in Redemptions
    BY <1>0, <1>11, GotoKeeps DEF BeginReservation, Redemptions
  <2> QED BY <1>1, <1>5, <1>7, <2>1 DEF IssuanceAt, RedeemAt, invitationVars, Ended
<1>12. CASE Reserve(c) \/ ReserveFails(c)
  <2>1. call[c].pc = "lockWait" /\ UNCHANGED invitation /\ c \in Redemptions /\ Write(c) = "none"
    BY <1>0, <1>12, IdleWroteNothing DEF Reserve, ReserveFails, Redemptions, Early, invitationVars
  <2>2. \/ issuance'[c] = "reserved" /\ call'[c].pc = "provision"
        \/ issuance' = issuance /\ call'[c].pc = "settle"
              /\ call'[c].verdict \in {"refused", "failed"}
    BY <1>0, <1>12 DEF Reserve, ReserveFails, Goto, Request, InvitationTypes, invitationVars
  <2> QED BY <1>1, <1>5, <1>7, <2>1, <2>2 DEF IssuanceAt, RedeemAt, Ended
<1>13. CASE CompleteIssuance(c)
  <2>1. /\ call[c].pc = "after" /\ call'[c].pc = "settle" /\ UNCHANGED invitation
             /\ c \in Redemptions
        /\ call'[c].verdict = call[c].verdict
        /\ issuance'[c] = IF call[c].stage = "register" THEN "deleted" ELSE Outcome(call[c].verdict)
    BY <1>0, <1>13, GotoKeeps DEF CompleteIssuance, Redemptions, InvitationTypes
  <2>2. /\ call[c].verdict \in Verdicts
        /\ call[c].verdict = "landed" => Write(c) = "landed"
        /\ call[c].verdict = "refused" => Write(c) \in {"none", "refused"}
        /\ call[c].stage = "register" => Write(c) = "none"
    BY <2>1, VerdictTold
  <2>3. IssuanceAt(c)'
    BY <1>1, <2>1, <2>2 DEF IssuanceAt, Outcome, Verdicts, Ended
  <2>4. RedeemAt(c)'
    BY <1>1, <1>5, <2>1, <2>2 DEF RedeemAt, Verdicts
  <2> QED BY <1>7, <2>1, <2>3, <2>4
<1>14. CASE Settle(c)
  <2>1. /\ call[c].pc = "settle" /\ call'[c].pc \in {"done", "refused"} /\ c \in Redemptions
             /\ issuance' = issuance
        /\ invitation.holder = c /\ invitation.status = "redeeming" /\ call'[c].op = "redeem"
    BY <1>0, <1>5, <1>14, GotoKeeps DEF Settle, Redemptions, RedeemAt
  <2>2. \/ invitation'.status = "redeemed" /\ invitation'.holder = c /\ Write(c) = "landed"
        \/ invitation'.status = "open" /\ Write(c) \in {"none", "refused"}
        \/ invitation'.status = "failed" /\ invitation'.holder = c
    BY <1>0, <1>5, <1>14, <2>1 DEF Settle, RedeemAt, InvitationTypes
  <2>3. ASSUME NEW d \in Redemptions \ {c} PROVE RedeemAt(d)'
    <3>1. d \in Calls /\ d # c /\ RedeemAt(d) /\ call'[d] = call[d] /\ Write(d)' = Write(d)
      BY <1>1, <1>2 DEF InvitationInv, Redemptions
    <3> QED BY <2>1, <3>1 DEF RedeemAt
  <2>4. IssuanceAt(c)'
    BY <1>1, <1>5, <2>1 DEF IssuanceAt, Ended
  <2>5. RedeemAt(c)'
    BY <1>1, <2>1, <2>2 DEF RedeemAt
  <2>6. (invitation.status = "redeemed" => invitation.holder \in Redemptions
          /\ Write(invitation.holder) = "landed")'
    BY <1>1, <2>1, <2>2 DEF Redemptions, Write, authorityVars
  <2> QED BY <2>3, <2>4, <2>5, <2>6
<1> QED BY <1>8, <1>9, <1>10, <1>11, <1>12, <1>13, <1>14 DEF RedeemTurn, RedeemStep

\* Every step keeps the invitation's invariant.
LEMMA InvitationInvKept ==
    ASSUME TypeOK, RelayInv, InvitationInv, [Next]_vars
    PROVE  InvitationInv'
<1>0. call \in [Calls -> Request]
  BY DEF TypeOK
<1>1. CASE UNCHANGED vars
  BY <1>1 DEF vars, authorityVars, invitationVars, InvitationInv, RedeemAt, IssuanceAt,
     Redemptions, Write
<1>2. ASSUME NEW c \in Calls, RaiseTurn(c) \/ SetupTurn(c) \/ TermsTurn(c) PROVE InvitationInv'
  <2>1. CallerMove(c) /\ UNCHANGED invitationVars
    BY <1>0, <1>2, CallerMoves DEF CallerTurn, RaiseTurn, SetupTurn, TermsTurn
  <2>2. call'[c].op # "redeem"
    BY <1>2, TurnOps DEF Writes
  <2>3. call[c].pc \in Ended => call'[c].pc \in Ended
    BY <1>0, <1>2, GotoKeeps
       DEF RaiseTurn, SetupTurn, TermsTurn, ArriveToApprove, ApproveStep, FindRequest, LockRequest,
          Decide, RequestIncrease,
           Reject, ArriveToWrite, SetupStep, NotSettled, LinkEvent, ForgetPositions,
                 NothingFurther, AddSeatPositions,
           ArriveToSetAsset, ArriveToHold, TermsStep, DefineClass, SetPrice, RecordAtCreation,
                 BeginTerms, ClearPrices,
           ChooseAsset, BeginHold, ReadTerms, PlaceHold, At, Arrives, Ended
  <2> QED BY <2>1, <2>2, <2>3, OthersKeepInvitation DEF CallerMove, Redemptions
<1>3. ASSUME NEW c \in Calls, RelayTurn(c) PROVE InvitationInv'
  <2>1. RelayMove(c) /\ UNCHANGED invitationVars /\ call[c].pc \notin Ended
    BY <1>3, RelayMoves DEF RelayTurn, RelayMove, RelayPcs, Ended, Signing
  <2>2. ASSUME c \in Redemptions' PROVE RedeemAt(c)'
    <3>1. c \in Redemptions /\ RedeemAt(c)
      BY <2>1, <2>2 DEF RelayMove, Redemptions, InvitationInv
    <3>2. call[c].pc \in Redeeming /\ call'[c].pc # "settle"
      BY <2>1 DEF RelayMove, RelayPcs, Redeeming, Signing
    <3> QED BY <2>1, <3>1, <3>2 DEF RedeemAt, invitationVars
  <2> QED BY <2>1, <2>2, OthersKeepInvitation DEF RelayMove
<1>4. ASSUME NEW c \in Calls, StopTurn(c) PROVE InvitationInv'
  <2>1. /\ Becomes(c, call[c].op, "stopped", call[c].stage, call[c].key, call[c].verdict,
             call[c].arg)
        /\ UNCHANGED invitationVars /\ Write(c)' = Write(c)
    BY <1>4, StopEffect DEF authorityVars, Write
  <2>2. ASSUME c \in Redemptions' PROVE RedeemAt(c)'
    <3>1. RedeemAt(c)
      BY <2>1, <2>2 DEF Becomes, Redemptions, InvitationInv
    <3> QED BY <2>1, <3>1 DEF RedeemAt, invitationVars, Redeeming, Signing, Becomes
  <2>3. call'[c].pc \in Ended
    BY <2>1 DEF Becomes, Ended
  <2> QED BY <2>1, <2>2, <2>3, OthersKeepInvitation DEF Becomes
<1>5. ASSUME NEW o \in Ops, Land(o) \/ RefuseOp(o) PROVE InvitationInv'
  <2>1. UNCHANGED <<call, invitationVars>>
    BY <1>5, LedgerTypes
  <2>2. (invitation.status = "redeemed" => invitation.holder \in Redemptions
          /\ Write(invitation.holder) = "landed")'
    BY <2>1, RedeemedStays DEF invitationVars
  <2>3. \A c \in Calls : (c \in Redemptions => RedeemAt(c)') /\ IssuanceAt(c)'
    BY <2>1, OthersRedeem
  <2> QED BY <2>1, <2>2, <2>3 DEF InvitationInv, Redemptions
<1> QED BY <1>1, <1>2, <1>3, <1>4, <1>5, RedeemKeepsInvitation, Turns DEF CallerTurn

\* Nothing is recorded at first.
LEMMA RecordedInvInit == Init => RecordedInv
<1> SUFFICES ASSUME Init PROVE RecordedInv
  OBVIOUS
<1>1. PICK there \in BOOLEAN : ProofInit(there) /\ SetupInit(there)
  BY DEF Init
<1> QED BY <1>1 DEF ProofInit, SetupInit, RecordedInv

\* A request is approved, and an event linked, on a verdict that landed; what landed stays.
LEMMA RecordedInvKept ==
    ASSUME TypeOK, RelayInv, RecordedInv, [Next]_vars
    PROVE  RecordedInv'
<1>0. call \in [Calls -> Request] /\ RequestTypes /\ links \subseteq Calls
  BY DEF TypeOK, SetupTypes
<1>1. \A c \in Calls : Write(c) = "landed" => Write(c)' = "landed"
  BY Writings
<1>2. \A r \in Rows : /\ requests'[r] = requests[r] \/ requests'[r].status # "approved"
                           \/ (requests'[r].proof \in Calls /\ Write(requests'[r].proof) = "landed")
  <2>1. ASSUME NEW c \in Calls, RaiseTurn(c), NEW r \in Rows
        PROVE  requests'[r] = requests[r] \/ requests'[r].status # "approved"
               \/ (requests'[r].proof \in Calls /\ Write(requests'[r].proof) = "landed")
    <3>1. CASE ArriveToApprove(c) \/ FindRequest(c) \/ LockRequest(c)
      BY <3>1 DEF ArriveToApprove, FindRequest, LockRequest
    <3>2. CASE RequestIncrease(c) \/ Reject(c)
      BY <1>0, <3>2 DEF RequestIncrease, Reject, RequestTypes
    <3>3. CASE Decide(c)
      <4>1. call[c].pc = "after" /\ (call[c].verdict = "landed" => Write(c) = "landed")
        BY <3>3, VerdictTold DEF Decide, At
      <4>2. CASE call[c].verdict = "landed"
        BY <1>0, <3>3, <4>1, <4>2 DEF Decide, RequestTypes
      <4>3. CASE call[c].verdict # "landed"
        BY <3>3, <4>3 DEF Decide
      <4> QED BY <4>2, <4>3
    <3> QED BY <2>1, <3>1, <3>2, <3>3 DEF RaiseTurn, ApproveStep
  <2> QED BY <2>1, Turns, LedgerTypes
          DEF vars, CallerTurn, RelayTurn, StopTurn, RedeemTurn, SetupTurn, TermsTurn
<1>3. ASSUME NEW c \in links' \ links PROVE c \in Calls /\ Write(c) = "landed"
  <2>1. ASSUME NEW d \in Calls, SetupTurn(d) PROVE links' = links \/ LinkEvent(d)
    BY <2>1 DEF SetupTurn, SetupStep, ArriveToWrite, NotSettled, ForgetPositions, NothingFurther,
       AddSeatPositions, setupVars
  <2>2. links' = links \/ \E d \in Calls : LinkEvent(d)
    BY <2>1, Turns, LedgerTypes DEF vars, CallerTurn, RelayTurn, StopTurn, RedeemTurn, RaiseTurn,
       TermsTurn, setupVars
  <2>3. LinkEvent(c) /\ c \in Calls
    BY <2>2 DEF LinkEvent
  <2> QED BY <2>3, VerdictTold DEF LinkEvent, At
<1>4. ASSUME NEW r \in Rows, requests'[r].status = "approved"
      PROVE  requests'[r].proof \in Calls /\ ledger'[<<requests'[r].proof, "write">>] = "landed"
  <2>1. requests'[r].proof \in Calls /\ Write(requests'[r].proof) = "landed"
    BY <1>2, <1>4 DEF RecordedInv
  <2> QED BY <1>1, <2>1 DEF Write
<1>5. ASSUME NEW c \in links' PROVE Write(c)' = "landed"
  BY <1>0, <1>1, <1>3, <1>5 DEF RecordedInv
<1> QED BY <1>4, <1>5 DEF RecordedInv, Write

\* An open invitation has issued nothing, and no submission of it can still land, for any number
\* of holders and faults (invitations.ts redeem).
THEOREM OpenIssuedNothingAlways == Spec => []OpenIssuedNothing
<1>1. InvitationInv => OpenIssuedNothing
  BY DEF InvitationInv, RedeemAt, OpenIssuedNothing
<1> QED BY <1>1, TypesInit, TypesKept, RelayInvInit, RelayInvKept, InvitationInvInit,
   InvitationInvKept, PTL DEF Spec

\* What Kippu records as settled is on the ledger, and an issuance that no longer counts was never
\* issued (issuance.ts complete, proofs/service.ts approve, create-event.ts).
THEOREM RecordedIsOnLedgerAlways == Spec => []RecordedIsOnLedger
<1>1. InvitationInv /\ RecordedInv => RecordedIsOnLedger
  BY DEF InvitationInv, IssuanceAt, RecordedInv, RecordedIsOnLedger
<1> QED BY <1>1, TypesInit, TypesKept, RelayInvInit, RelayInvKept, InvitationInvInit,
   InvitationInvKept,
           RecordedInvInit, RecordedInvKept, PTL DEF Spec

(* ----------------------------- the refinement --------------------------- *)
Tickets == {c \in Redemptions : Write(c) = "landed"}

\* No ticket is issued at first.
LEMMA TicketsInit == Init => Invited!Init
<1> SUFFICES ASSUME Init PROVE Tickets = {}
  BY DEF Invited!Init, Tickets
<1>1. PICK there \in BOOLEAN : AuthorityInit(there)
  BY DEF Init
<1> QED BY <1>1 DEF AuthorityInit, Tickets, Redemptions, Idle

\* A step of the system issues the invitation's one ticket, or none.
LEMMA TicketsStep ==
    ASSUME TypeOK, RelayInv, InvitationInv, [Next]_vars
    PROVE  [Invited!Next]_Tickets
<1>1. \A c \in Tickets : c \in Calls /\ c = invitation.holder
  BY DEF Tickets, Redemptions, InvitationInv, RedeemAt
<1>2. Tickets \subseteq Tickets'
  <2>1. ASSUME NEW c \in Tickets PROVE c \in Tickets'
    <3>1. c \in Calls /\ call[c].op = "redeem" /\ Write(c) = "landed" /\ Write(c)' = "landed"
      BY Writings DEF Tickets, Redemptions
    <3>2. call'[c].op = "redeem"
      BY <3>1, OpsKept, IdleWroteNothing DEF Early
    <3> QED BY <3>1, <3>2 DEF Tickets, Redemptions
  <2> QED BY <2>1
<1>3. ASSUME NEW c \in Tickets' \ Tickets PROVE c \in Calls /\ Tickets = {} /\ Tickets' = {c}
  <2>1. c \in Calls /\ call'[c].op = "redeem" /\ Write(c)' = "landed"
    BY DEF Tickets, Redemptions
  <2>2. Write(c) # "landed"
    <3>1. Write(c) = "landed" => call[c].pc # "idle"
      BY <2>1, IdleWroteNothing DEF Early
    <3> QED BY <1>3, <2>1, <3>1, StillRedeeming DEF Tickets
  <2>3. Write(c) = "sent" /\ UNCHANGED call /\ c \in Redemptions
    BY <2>1, <2>2, Writings DEF Redemptions
  <2>4. invitation.holder = c
    BY <2>3 DEF InvitationInv, RedeemAt
  <2>5. ASSUME NEW d \in Tickets' PROVE d = c
    <3>1. d \in Redemptions /\ d \in Calls /\ Write(d)' = "landed"
      BY <2>3 DEF Tickets, Redemptions
    <3>2. Write(d) \in {"sent", "landed"}
      BY <3>1, Writings
    <3> QED BY <2>4, <3>1, <3>2 DEF InvitationInv, RedeemAt
  <2> QED BY <1>1, <2>1, <2>2, <2>4, <2>5 DEF Tickets
<1>4. CASE Tickets' = Tickets
  BY <1>4
<1>5. CASE \E c : c \in Tickets' \ Tickets
  BY <1>3, <1>5 DEF Invited!Next, Tickets
<1> QED BY <1>2, <1>4, <1>5

\* The redemptions implement OneTicket: an invitation issues one ticket at most, to one holder and
\* for good (invitations.ts redeem).
THEOREM IssuesOneTicketProved == Spec => IssuesOneTicket
<1>1. [Invited!Next]_Tickets <=> [Invited!Next]_({c \in Redemptions : Write(c) = "landed"})
  BY DEF Tickets
<1> QED BY <1>1, TypesInit, TypesKept, RelayInvInit, RelayInvKept, InvitationInvInit,
   InvitationInvKept, TicketsInit,
           TicketsStep, PTL DEF Spec, IssuesOneTicket, Invited!Spec
=============================================================================
