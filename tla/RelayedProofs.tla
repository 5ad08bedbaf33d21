---------------------------- MODULE RelayedProofs ---------------------------
(***************************************************************************)
(* Theorems about Relayed, for every number of requests, of faults and of  *)
(* connections and every mix of requests: the types, the audit log and the *)
(* organiser's key.  A step of the system is one request's turn or the     *)
(* ledger's; a turn is one of the relay's (RelayMove) or of what calls it  *)
(* (CallerMove), and the invariants are preserved turn by turn.            *)
(***************************************************************************)
EXTENDS Relayed, FiniteSetTheorems, TLAPS

Verdicts == {"landed", "refused", "failed"}
OpNames == {"none", "invite", "redeem", "request", "approve", "reject", "positions", "defineClass",
            "setClassPrice", "setSaleAsset", "hold"} \cup Writes

(* Before a request's first signature, and in a request that signs nothing *)
Early == {"idle", "begun", "claimed", "lockWait", "provision", "createWait", "locked", "created",
      "sign",
          "stored", "rejectWait", "read", "termsWait", "choosing", "holdWait", "holdRead"}
Signing == {"record", "submit", "await", "complete", "mark"}
Late == {"after", "settle", "linked", "done", "refused", "stopped"}

Request == [op : OpNames, pc : Early \cup Signing \cup Late, stage : Stages, key : Rows \cup {None},
            verdict : {"none"} \cup Verdicts, arg : Rows \cup SaleAssets]

AuthorityTypes ==
    /\ row \in [key : Rows \cup {None}, registration : BOOLEAN, registered : BOOLEAN]
    /\ keys \subseteq Rows
    /\ audit \in [Ops -> {"none", "pending", "settled", "rejected", "failed"}]
    /\ ledger \in [Ops -> {"none", "sent", "landed", "refused"}]
    /\ signedBy \in [Ops -> Rows \cup {None}]
InvitationTypes ==
    /\ invitation \in [status : {"none", "open", "redeeming", "redeemed", "failed"},
          holder : Calls \cup {None}]
    /\ issuance \in [Calls -> {"none", "reserved", "settled", "rejected", "failed", "deleted"}]
RequestTypes ==
    requests \in [Rows -> [status : {"none", "pending", "approved", "rejected"},
          proof : Calls \cup {None}]]
SetupTypes == links \subseteq Calls /\ zone \in BOOLEAN /\ positions \in BOOLEAN
Class == [st : {"none", "defined"}, priced : BOOLEAN, in : SaleAssets \cup {None}]
Hold == [st : {"none", "read", "placed"}, asset : SaleAssets \cup {None},
      in : SaleAssets \cup {None}]
TermsTypes ==
    /\ saleAsset \in SaleAssets \cup {None}
    /\ classes \in [Rows -> Class]
    /\ clearing \subseteq Rows
    /\ holds \in [Calls -> Hold]

Heard == \A c \in Calls : call[c].pc \in {"complete", "after"} => call[c].verdict \in Verdicts

ArgOf(op) == IF op = "setSaleAsset" THEN SaleAssets ELSE Rows
Asked == \A c \in Calls : call[c].arg \in ArgOf(call[c].op)

TypeOK ==
    /\ call \in [Calls -> Request] /\ Heard /\ Asked
    /\ AuthorityTypes /\ InvitationTypes /\ RequestTypes /\ SetupTypes /\ TermsTypes
    /\ faults \in 0 .. MaxFaults

(* ------------------------------ the relay ------------------------------ *)
Untouched(o) == audit[o] = "none" /\ ledger[o] = "none"

RelayAt(c, r) ==
    LET o == <<c, r.stage>> IN
    /\ r.pc \in Early => r.stage = "register" /\ Untouched(<<c, "register">>)
    /\ r.stage = "register" => Untouched(<<c, "write">>)
    /\ r.pc \in Signing \cup {"sign"} => r.key = row.key /\ row.key # None
    /\ r.pc = "record" => Untouched(o)
    /\ r.pc = "submit" => audit[o] = "pending" /\ ledger[o] = "none"
    /\ r.pc = "await" => audit[o] = "pending" /\ ledger[o] # "none"
    /\ r.pc = "complete" => audit[o] = "pending"
    /\ r.pc \in {"complete", "after"} => r.verdict # "none" /\ (r.verdict # "failed"
          => ledger[o] = r.verdict)
    /\ r.pc = "mark" => r.stage = "register"
    /\ r.pc = "after" /\ r.verdict = "landed" => r.stage = "write"

RelayInv ==
    /\ \A c \in Calls : RelayAt(c, call[c])
    /\ AuditTellsTruth
    /\ row.registered => row.key # None
    /\ \A o \in Ops : ledger[o] # "none" => row.key # None

(* ------------------------------- the key ------------------------------- *)
KeyInv ==
    /\ \A c, d \in Calls : call[c].pc \in {"locked", "created"}
          /\ call[d].pc \in {"locked", "created"} => c = d
    /\ \A c \in Calls : call[c].pc = "created" => c \in keys /\ row.key = None
    /\ row.key # None => row.key \in keys
    /\ IsFiniteSet(keys)
    /\ Cardinality(keys) <= faults + (IF row.key # None
          \/ \E c \in Calls : call[c].pc = "created" THEN 1 ELSE 0)

Pcs == Early \cup Signing \cup Late
Args == Rows \cup SaleAssets

(* What becomes of request c, and of no other *)
Becomes(c, o, p, s, k, v, a) ==
    /\ call' \in [Calls -> Request]
    /\ \A d \in Calls \ {c} : call'[d] = call[d]
    /\ call'[c].op = o /\ call'[c].pc = p /\ call'[c].stage = s /\ call'[c].key = k
    /\ call'[c].verdict = v /\ call'[c].arg = a

\* The fields of a request, one by one
LEMMA RequestFields ==
    ASSUME NEW r \in Request
    PROVE  /\ r.op \in OpNames /\ r.pc \in Pcs /\ r.stage \in Stages /\ r.key \in Rows \cup {None}
           /\ r.verdict \in {"none"} \cup Verdicts /\ r.arg \in Args
  BY DEF Request, Pcs, Args

\* Goto changes a request's progress and nothing else of it.
LEMMA GotoEffect ==
    ASSUME call \in [Calls -> Request], NEW c \in Calls, NEW p \in Pcs, Goto(c, p)
    PROVE  Becomes(c, call[c].op, p, call[c].stage, call[c].key, call[c].verdict, call[c].arg)
  BY DEF Goto, Becomes, Request, Pcs

\* A step that gives a request its verdict (Reserve, Observe, Lose)
LEMMA VerdictEffect ==
    ASSUME call \in [Calls -> Request], NEW c \in Calls, NEW p \in Pcs,
           NEW v \in {"none"} \cup Verdicts,
           call' = [call EXCEPT ![c].verdict = v, ![c].pc = p]
    PROVE  Becomes(c, call[c].op, p, call[c].stage, call[c].key, v, call[c].arg)
  BY DEF Becomes, Request, Pcs

\* A step that gives a request its key (accountRow, authority.ts)
LEMMA KeyEffect ==
    ASSUME call \in [Calls -> Request], NEW c \in Calls, NEW p \in Pcs, NEW k \in Rows \cup {None},
           call' = [call EXCEPT ![c].key = k, ![c].pc = p]
    PROVE  Becomes(c, call[c].op, p, call[c].stage, k, call[c].verdict, call[c].arg)
  BY DEF Becomes, Request, Pcs

\* A step that gives a request its key and the stage it relays (provision, authority.ts)
LEMMA ReadEffect ==
    ASSUME call \in [Calls -> Request], NEW c \in Calls, NEW p \in Pcs, NEW s \in Stages,
           NEW k \in Rows \cup {None},
           call' = [call EXCEPT ![c].key = k, ![c].stage = s, ![c].pc = p]
    PROVE  Becomes(c, call[c].op, p, s, k, call[c].verdict, call[c].arg)
  BY DEF Becomes, Request, Pcs

\* The step that fails a request whose INSERT finds another key's row (authority.ts)
LEMMA FailEffect ==
    ASSUME call \in [Calls -> Request], NEW c \in Calls, NEW p \in Pcs, NEW s \in Stages,
           NEW v \in {"none"} \cup Verdicts,
           call' = [call EXCEPT ![c].stage = s, ![c].verdict = v, ![c].pc = p]
    PROVE  Becomes(c, call[c].op, p, s, call[c].key, v, call[c].arg)
  BY DEF Becomes, Request, Pcs

\* The step from the registration to the write itself (markRegistered, authority.ts)
LEMMA MarkEffect ==
    ASSUME call \in [Calls -> Request], NEW c \in Calls, NEW p \in Pcs, NEW s \in Stages,
           NEW k \in Rows \cup {None},
           NEW v \in {"none"} \cup Verdicts,
           call' = [call EXCEPT ![c].stage = s, ![c].key = k, ![c].verdict = v, ![c].pc = p]
    PROVE  Becomes(c, call[c].op, p, s, k, v, call[c].arg)
  BY DEF Becomes, Request, Pcs

\* A request that starts, with an argument
LEMMA StartEffect ==
    ASSUME call \in [Calls -> Request], NEW c \in Calls, NEW o \in OpNames, NEW p \in Pcs,
           NEW a \in Args,
           call' = [call EXCEPT ![c] = [Idle EXCEPT !.op = o, !.pc = p, !.arg = a]]
    PROVE  Becomes(c, o, p, "register", None, "none", a)
  BY DEF Becomes, Idle, Request, Pcs, Args, Stages

\* A request that starts without one, wherever its first step leaves it
LEMMA ArriveEffect ==
    ASSUME call \in [Calls -> Request], NEW c \in Calls, NEW o \in OpNames, NEW p \in Pcs,
           call' = [call EXCEPT ![c] = [Idle EXCEPT !.op = o, !.pc = p]]
    PROVE  Becomes(c, o, p, "register", None, "none", 0)
<1>1. 0 \in Args
  BY BoundsAssumption DEF Args, Rows
<1> QED BY <1>1 DEF Becomes, Idle, Request, Pcs, Args, Stages

(* A step of request c outside the relay: it arrives, goes on before its relay, or after it *)
BeforeRelay == {"begun", "claimed", "lockWait", "stored", "rejectWait", "read", "termsWait",
      "choosing",
            "holdWait", "holdRead"}
CallerMove(c) ==
    /\ call' \in [Calls -> Request]
    /\ \A d \in Calls \ {c} : call'[d] = call[d]
    /\ \/ /\ call[c].pc = "idle" /\ call'[c].pc \in {"begun", "provision", "done"}
          /\ call'[c].stage = "register" /\ call'[c].verdict = "none" /\ call'[c].op \in mix[c]
          /\ call'[c].arg \in ArgOf(call'[c].op)
       \/ /\ call'[c].op = call[c].op /\ call'[c].stage = call[c].stage
               /\ call'[c].key = call[c].key
          /\ call'[c].arg = call[c].arg
          /\ \/ call[c].pc \in BeforeRelay /\ call'[c].pc \in BeforeRelay \cup {"provision",
                  "settle", "done", "refused"}
             \/ call[c].pc \in {"after", "settle", "linked"}
                   /\ call'[c].pc \in {"settle", "linked", "done", "refused"}
    /\ call'[c].verdict = "failed" => call[c].verdict = "failed" \/ faults' = faults + 1

\* A request that starts at its beginning
LEMMA BeginEffect ==
    ASSUME call \in [Calls -> Request], NEW c \in Calls, NEW o \in OpNames, NEW a \in Args,
           Start(c, o, a)
    PROVE  Becomes(c, o, "begun", "register", None, "none", a)
<1>1. "begun" \in Pcs
  BY DEF Pcs, Early
<1> QED BY <1>1, StartEffect DEF Start

\* What a request may be about
LEMMA ArgsAre == 0 \in Args /\ 0 \in Rows /\ Rows \subseteq Args /\ SaleAssets \subseteq Args
  BY BoundsAssumption DEF Args, Rows

\* The steps of a redemption outside its relay (invitations.ts, issuance.ts)
LEMMA RedeemMoves ==
    ASSUME call \in [Calls -> Request], NEW c \in Calls,
           CreateInvitation(c) \/ ArriveToRedeem(c) \/ RedeemStep(c) \/ ReserveFails(c)
    PROVE  CallerMove(c)
<1> USE ArgsAre DEF CallerMove, Becomes, BeforeRelay, Late, Early, Signing, Pcs, At, Arrives, ArgOf
<1>1. CASE CreateInvitation(c)
  <2>1. Becomes(c, "invite", "done", "register", None, "none", 0)
    BY <1>1, ArriveEffect DEF CreateInvitation, OpNames
  <2> QED BY <1>1, <2>1 DEF CreateInvitation
<1>2. CASE ArriveToRedeem(c)
  <2>1. Becomes(c, "redeem", "begun", "register", None, "none", 0)
    BY <1>2, BeginEffect DEF ArriveToRedeem, OpNames
  <2> QED BY <1>2, <2>1 DEF ArriveToRedeem
<1>3. CASE Claim(c)
  BY <1>3, GotoEffect DEF Claim
<1>4. CASE BeginReservation(c)
  BY <1>4, GotoEffect DEF BeginReservation
<1>5. CASE Reserve(c)
  <2>1. call[c].pc = "lockWait" /\ faults' = faults
    BY <1>5 DEF Reserve
  <2>2. CASE Goto(c, "provision")
    BY <2>1, <2>2, GotoEffect
  <2>3. CASE call' = [call EXCEPT ![c].verdict = "refused", ![c].pc = "settle"]
    <3>1. Becomes(c, call[c].op, "settle", call[c].stage, call[c].key, "refused", call[c].arg)
      BY <2>3, VerdictEffect DEF Verdicts
    <3> QED BY <2>1, <3>1
  <2> QED BY <1>5, <2>2, <2>3 DEF Reserve
<1>6. CASE CompleteIssuance(c)
  BY <1>6, GotoEffect DEF CompleteIssuance
<1>7. CASE Settle(c)
  BY <1>7, GotoEffect DEF Settle
<1>8. CASE ReserveFails(c)
  <2>1. Becomes(c, call[c].op, "settle", call[c].stage, call[c].key, "failed", call[c].arg)
    BY <1>8, VerdictEffect DEF ReserveFails, Verdicts
  <2> QED BY <1>8, <2>1 DEF ReserveFails
<1> QED BY <1>1, <1>2, <1>3, <1>4, <1>5, <1>6, <1>7, <1>8 DEF RedeemStep

\* The steps of capacity requests outside the relay (proofs/service.ts)
LEMMA RaiseMoves ==
    ASSUME call \in [Calls -> Request], NEW c \in Calls,
           ArriveToApprove(c) \/ ApproveStep(c) \/ RequestIncrease(c) \/ Reject(c)
    PROVE  CallerMove(c)
<1> USE ArgsAre DEF CallerMove, Becomes, BeforeRelay, Late, Early, Signing, Pcs, At, Arrives, ArgOf
<1>1. CASE ArriveToApprove(c)
  BY <1>1, BeginEffect, ArgsAre DEF ArriveToApprove, OpNames
<1>2. CASE FindRequest(c)
  BY <1>2, GotoEffect DEF FindRequest
<1>3. CASE LockRequest(c)
  BY <1>3, GotoEffect DEF LockRequest
<1>4. CASE Decide(c)
  BY <1>4, GotoEffect DEF Decide
<1>5. CASE RequestIncrease(c)
  <2>1. CASE Arrives(c, "request") /\ Start(c, "request", 0)
    BY <2>1, BeginEffect, ArgsAre DEF OpNames
  <2>2. CASE call[c].pc \in {"begun", "stored"}
    <3>1. PICK p \in {"stored", "refused", "done"} : Goto(c, p)
      BY <1>5, <2>2 DEF RequestIncrease
    <3> QED BY <2>2, <3>1, GotoEffect
  <2> QED BY <1>5, <2>1, <2>2 DEF RequestIncrease
<1>6. CASE Reject(c)
  <2>1. CASE \E r \in Rows : Arrives(c, "reject") /\ Start(c, "reject", r)
    <3>1. PICK r \in Rows : Arrives(c, "reject") /\ Start(c, "reject", r)
      BY <2>1
    <3>2. Becomes(c, "reject", "begun", "register", None, "none", r)
      BY <3>1, BeginEffect DEF OpNames
    <3> QED BY <3>1, <3>2
  <2>2. CASE call[c].pc \in {"begun", "rejectWait"}
    <3>1. PICK p \in {"rejectWait", "refused", "done"} : Goto(c, p)
      BY <1>6, <2>2 DEF Reject
    <3> QED BY <2>2, <3>1, GotoEffect
  <2> QED BY <1>6, <2>1, <2>2 DEF Reject
<1> QED BY <1>1, <1>2, <1>3, <1>4, <1>5, <1>6 DEF ApproveStep

\* The steps of an event's set-up outside the relay (create-event.ts, zones.ts, restrictions.ts)
LEMMA SetupMoves ==
    ASSUME call \in [Calls -> Request], NEW c \in Calls,
           ArriveToWrite(c) \/ SetupStep(c) \/ AddSeatPositions(c)
    PROVE  CallerMove(c)
<1> USE ArgsAre DEF CallerMove, Becomes, BeforeRelay, Late, Early, Signing, Pcs, At, Arrives, ArgOf
<1>1. CASE ArriveToWrite(c)
  <2>1. PICK op \in Writes :
          Arrives(c, op) /\ call' = [call EXCEPT ![c] = [Idle EXCEPT !.op = op, !.pc = "provision"]]
    BY <1>1 DEF ArriveToWrite
  <2>2. op \in OpNames /\ "provision" \in Pcs
    BY DEF OpNames
  <2>3. Becomes(c, op, "provision", "register", None, "none", 0)
    <3> HIDE DEF Pcs, Becomes
    <3> QED BY <2>1, <2>2, ArriveEffect
  <2>4. call'[c].arg \in ArgOf(call'[c].op)
    BY <2>1, <2>3 DEF Writes
  <2> HIDE DEF ArgOf
  <2> QED BY <2>1, <2>3, <2>4
<1>2. CASE NotSettled(c)
  BY <1>2, GotoEffect DEF NotSettled
<1>3. CASE LinkEvent(c)
  BY <1>3, GotoEffect DEF LinkEvent
<1>4. CASE ForgetPositions(c)
  BY <1>4, GotoEffect DEF ForgetPositions
<1>5. CASE NothingFurther(c)
  BY <1>5, GotoEffect DEF NothingFurther
<1>6. CASE AddSeatPositions(c)
  BY <1>6, BeginEffect, ArgsAre, GotoEffect DEF AddSeatPositions, OpNames
<1> QED BY <1>1, <1>2, <1>3, <1>4, <1>5, <1>6 DEF SetupStep

\* The steps of sale terms (sale-assets.ts, classes.ts, holds.ts)
LEMMA TermsMoves ==
    ASSUME call \in [Calls -> Request], NEW c \in Calls,
           \/ ArriveToSetAsset(c) \/ ArriveToHold(c) \/ TermsStep(c) \/ DefineClass(c)
                 \/ SetPrice(c)
    PROVE  CallerMove(c)
<1> USE ArgsAre DEF CallerMove, Becomes, BeforeRelay, Late, Early, Signing, Pcs, At, Arrives, ArgOf
<1>1. CASE ArriveToSetAsset(c)
  BY <1>1, BeginEffect, ArgsAre DEF ArriveToSetAsset, OpNames
<1>2. CASE ArriveToHold(c)
  BY <1>2, BeginEffect, ArgsAre DEF ArriveToHold, OpNames
<1>3. CASE RecordAtCreation(c)
  BY <1>3, GotoEffect DEF RecordAtCreation
<1>4. CASE BeginTerms(c)
  BY <1>4, GotoEffect DEF BeginTerms
<1>5. CASE ClearPrices(c)
  BY <1>5, GotoEffect DEF ClearPrices
<1>6. CASE ChooseAsset(c)
  BY <1>6, GotoEffect DEF ChooseAsset
<1>7. CASE BeginHold(c)
  BY <1>7, GotoEffect DEF BeginHold
<1>8. CASE ReadTerms(c)
  BY <1>8, GotoEffect DEF ReadTerms
<1>9. CASE PlaceHold(c)
  BY <1>9, GotoEffect DEF PlaceHold
<1>10. CASE DefineClass(c)
  BY <1>10, BeginEffect, ArgsAre, GotoEffect DEF DefineClass, OpNames
<1>11. CASE SetPrice(c)
  <2>1. CASE \E r \in Rows : Arrives(c, "setClassPrice") /\ Start(c, "setClassPrice", r)
    <3>1. PICK r \in Rows : Arrives(c, "setClassPrice") /\ Start(c, "setClassPrice", r)
      BY <2>1
    <3>2. Becomes(c, "setClassPrice", "begun", "register", None, "none", r)
      BY <3>1, BeginEffect DEF OpNames
    <3> QED BY <3>1, <3>2
  <2>2. CASE At(c, "setClassPrice", "begun") /\ Goto(c, "done")
    <3>1. PICK p \in {"done"} : Goto(c, p)
      BY <1>11, <2>2 DEF SetPrice
    <3> QED BY <2>2, <3>1, GotoEffect
  <2> QED BY <1>11, <2>1, <2>2 DEF SetPrice
<1> QED BY <1>1, <1>2, <1>3, <1>4, <1>5, <1>6, <1>7, <1>8, <1>9, <1>10, <1>11 DEF TermsStep

(* A step of request c's relay: it signs, submits and hears of one operation at a time *)
RelayPcs == {"provision", "createWait", "locked", "created", "sign"} \cup Signing
RelayMove(c) ==
    /\ call' \in [Calls -> Request]
    /\ \A d \in Calls \ {c} : call'[d] = call[d]
    /\ call'[c].op = call[c].op /\ call'[c].arg = call[c].arg
    /\ call[c].pc \in RelayPcs /\ call'[c].pc \in RelayPcs \cup {"after"}
    /\ call'[c].pc \in {"complete", "after"} => call'[c].verdict \in Verdicts
    /\ call'[c].verdict = "failed" =>
         call[c].verdict = "failed" \/ faults' = faults + 1 \/ (call[c].pc = "created"
               /\ row.key # None)
    /\ call[c].pc = "submit" => ledger' = [ledger EXCEPT ![Current(c)] = "sent"]
    /\ call[c].pc # "submit" => ledger' = ledger

\* Every step of the relay (authority.ts, audit/relay.ts), a lost verdict, a completion that fails
LEMMA RelayMoves ==
    ASSUME TypeOK, NEW c \in Calls, RelayStep(c) \/ Lose(c) \/ CompleteFails(c)
    PROVE  RelayMove(c)
<1> USE DEF RelayMove, Becomes, RelayPcs, Early, Signing, Late, Pcs, authorityVars
<1>0. call \in [Calls -> Request] /\ row.key \in Rows \cup {None} /\ c \in Rows
      /\ ledger[Current(c)] \in {"none", "sent", "landed", "refused"}
            /\ Stages = {"register", "write"}
      /\ (call[c].pc \in {"complete", "after"} => call[c].verdict \in Verdicts)
  <2>1. Current(c) \in Ops /\ c \in Rows
    BY RequestFields DEF Current, Ops, TypeOK, Calls, Rows
  <2> QED BY <2>1 DEF TypeOK, Heard, AuthorityTypes, Stages
<1>1. CASE ReadAccount(c)
  <2>1. PICK s \in Stages, p \in {"createWait", "record", "sign"} :
          call' = [call EXCEPT ![c].key = row.key, ![c].stage = s, ![c].pc = p]
    BY <1>0, <1>1 DEF ReadAccount
  <2>2. p \in Pcs
    OBVIOUS
  <2>3. Becomes(c, call[c].op, p, s, row.key, call[c].verdict, call[c].arg)
    <3> HIDE DEF Pcs, Becomes
    <3> QED BY <1>0, <2>1, <2>2, ReadEffect
  <2> QED BY <1>1, <2>1, <2>3 DEF ReadAccount
<1>2. CASE LockOrganiser(c)
  BY <1>0, <1>2, GotoEffect DEF LockOrganiser
<1>3. CASE CreateKey(c)
  BY <1>0, <1>3, GotoEffect, KeyEffect DEF CreateKey
<1>4. CASE InsertAccount(c)
  <2>1. CASE row.key = None
    <3>1. Becomes(c, call[c].op, "sign", call[c].stage, c, call[c].verdict, call[c].arg)
      BY <1>0, <1>4, <2>1, KeyEffect DEF InsertAccount
    <3> QED BY <1>4, <3>1 DEF InsertAccount
  <2>2. CASE row.key # None
    <3>1. Becomes(c, call[c].op, "after", "register", call[c].key, "failed", call[c].arg)
      BY <1>0, <1>4, <2>2, FailEffect DEF InsertAccount, Verdicts
    <3> QED BY <1>4, <2>2, <3>1 DEF InsertAccount, Verdicts
  <2> QED BY <2>1, <2>2
<1>5. CASE SignRegistration(c)
  BY <1>0, <1>5, GotoEffect DEF SignRegistration
<1>6. CASE Record(c)
  BY <1>0, <1>6, GotoEffect DEF Record
<1>7. CASE Submit(c)
  BY <1>0, <1>7, GotoEffect DEF Submit
<1>8. CASE Observe(c)
  <2>1. PICK v \in {"landed", "refused"} : call' = [call EXCEPT ![c].verdict = v,
          ![c].pc = "complete"]
    BY <1>8 DEF Observe
  <2>2. Becomes(c, call[c].op, "complete", call[c].stage, call[c].key, v, call[c].arg)
    <3>1. v \in {"none"} \cup Verdicts /\ "complete" \in Pcs
      BY DEF Verdicts
    <3> HIDE DEF Pcs, Becomes
    <3> QED BY <1>0, <2>1, <3>1, VerdictEffect
  <2> QED BY <1>8, <2>1, <2>2 DEF Observe, Verdicts
<1>9. CASE Complete(c)
  <2>1. PICK p \in {"mark", "after"} : Goto(c, p)
    BY <1>9 DEF Complete, Completed
  <2> QED BY <1>0, <1>9, <2>1, GotoEffect DEF Complete
<1>10. CASE MarkRegistered(c)
  <2>1. "record" \in Pcs /\ "write" \in Stages /\ row.key \in Rows \cup {None}
          /\ "none" \in {"none"} \cup Verdicts
    BY <1>0 DEF Stages
  <2>2. call' = [call EXCEPT ![c].stage = "write", ![c].key = row.key, ![c].verdict = "none",
          ![c].pc = "record"]
    BY <1>10 DEF MarkRegistered
  <2>3. Becomes(c, call[c].op, "record", "write", row.key, "none", call[c].arg)
    <3> HIDE DEF Pcs, Becomes
    <3> QED BY <1>0, <2>1, <2>2, MarkEffect
  <2> QED BY <1>10, <2>3 DEF MarkRegistered
<1>11. CASE Lose(c)
  <2>1. Becomes(c, call[c].op, "complete", call[c].stage, call[c].key, "failed", call[c].arg)
    BY <1>0, <1>11, VerdictEffect DEF Lose, Verdicts
  <2> QED BY <1>11, <2>1 DEF Lose, Verdicts
<1>12. CASE CompleteFails(c)
  <2>1. PICK p \in {"mark", "after"} : Goto(c, p)
    BY <1>12 DEF CompleteFails, Completed
  <2> QED BY <1>0, <1>12, <2>1, GotoEffect DEF CompleteFails
<1> QED BY <1>1, <1>2, <1>3, <1>4, <1>5, <1>6, <1>7, <1>8, <1>9, <1>10, <1>11, <1>12 DEF RelayStep


\* What a request relays is an operation the ledger may see.
LEMMA CurrentIsOp == ASSUME call \in [Calls -> Request],
      NEW c \in Calls PROVE Current(c) \in Ops /\ c \in Rows
  BY RequestFields DEF Current, Ops, Calls, Rows

\* The relay keeps the types of the organiser's row, the keys, the audit log and the ledger.
LEMMA RelayTypes ==
    ASSUME TypeOK, NEW c \in Calls, RelayStep(c) \/ Lose(c) \/ CompleteFails(c) \/ Stop(c)
    PROVE  AuthorityTypes' /\ faults' \in 0 .. MaxFaults
<1> USE DEF AuthorityTypes, authorityVars
<1>0. call \in [Calls -> Request] /\ Current(c) \in Ops /\ c \in Rows
        /\ call[c].key \in Rows \cup {None}
      /\ AuthorityTypes /\ faults \in 0 .. MaxFaults
      /\ (call[c].pc = "complete" => call[c].verdict \in Verdicts)
  BY CurrentIsOp, RequestFields DEF TypeOK, Heard
<1>1. CASE ReadAccount(c) \/ LockOrganiser(c) \/ Observe(c)
  BY <1>0, <1>1 DEF ReadAccount, LockOrganiser, Observe
<1>2. CASE CreateKey(c)
  BY <1>0, <1>2 DEF CreateKey
<1>3. CASE InsertAccount(c)
  BY <1>0, <1>3 DEF InsertAccount
<1>4. CASE SignRegistration(c)
  BY <1>0, <1>4 DEF SignRegistration
<1>5. CASE Record(c)
  BY <1>0, <1>5 DEF Record
<1>6. CASE Submit(c)
  BY <1>0, <1>6 DEF Submit
<1>7. CASE Complete(c)
  BY <1>0, <1>7 DEF Complete, Outcome, Verdicts
<1>8. CASE MarkRegistered(c)
  BY <1>0, <1>8 DEF MarkRegistered
<1>9. CASE Lose(c) \/ CompleteFails(c) \/ Stop(c)
  BY <1>0, <1>9, BoundsAssumption DEF Lose, CompleteFails, Stop
<1> QED BY <1>1, <1>2, <1>3, <1>4, <1>5, <1>6, <1>7, <1>8, <1>9 DEF RelayStep

(* The turns a step of the system can be: one request's, or the ledger's. *)
RelayTurn(c) ==
    (RelayStep(c) \/ Lose(c) \/ CompleteFails(c))
          /\ UNCHANGED <<invitationVars, requests, setupVars, termsVars>>
RedeemTurn(c) ==
    /\ CreateInvitation(c) \/ ArriveToRedeem(c) \/ RedeemStep(c) \/ ReserveFails(c)
    /\ UNCHANGED <<authorityVars, requests, setupVars, termsVars>>
RaiseTurn(c) ==
    /\ ArriveToApprove(c) \/ ApproveStep(c) \/ RequestIncrease(c) \/ Reject(c)
    /\ UNCHANGED <<authorityVars, invitationVars, setupVars, termsVars>>
SetupTurn(c) ==
    /\ ArriveToWrite(c) \/ SetupStep(c) \/ AddSeatPositions(c)
    /\ UNCHANGED <<authorityVars, invitationVars, requests, termsVars>>
TermsTurn(c) ==
    /\ ArriveToSetAsset(c) \/ ArriveToHold(c) \/ TermsStep(c) \/ DefineClass(c) \/ SetPrice(c)
    /\ UNCHANGED <<authorityVars, invitationVars, requests, setupVars>>
StopTurn(c) == Stop(c) /\ UNCHANGED <<invitationVars, requests, setupVars, termsVars>>
CallerTurn(c) == RedeemTurn(c) \/ RaiseTurn(c) \/ SetupTurn(c) \/ TermsTurn(c)

\* Every step of the system is one turn.
LEMMA Turns ==
    ASSUME Next
    PROVE  /\ UNCHANGED mix
           /\ \/ \E c \in Calls : RelayTurn(c) \/ CallerTurn(c) \/ StopTurn(c)
              \/ \E o \in Ops : Land(o) \/ RefuseOp(o)
<1>1. ASSUME NEW c \in Calls, Arrive(c) \/ Step(c) \/ Fault(c)
      PROVE  RelayTurn(c) \/ CallerTurn(c) \/ StopTurn(c)
  <2>1. CASE Arrive(c)
    BY <2>1 DEF Arrive, CallerTurn, RedeemTurn, RaiseTurn, SetupTurn, TermsTurn
  <2>2. CASE Step(c)
    BY <2>2 DEF Step, RelayTurn, CallerTurn, RedeemTurn, RaiseTurn, SetupTurn, TermsTurn
  <2>3. CASE Fault(c)
    BY <2>3 DEF Fault, RelayTurn, CallerTurn, RedeemTurn, StopTurn
  <2> QED BY <1>1, <2>1, <2>2, <2>3
<1> QED BY <1>1 DEF Next, Ledger

\* A caller's turn moves its own request and leaves the authority's tables alone.
LEMMA CallerMoves ==
    ASSUME call \in [Calls -> Request], NEW c \in Calls, CallerTurn(c)
    PROVE  CallerMove(c) /\ UNCHANGED authorityVars
  BY RedeemMoves, RaiseMoves, SetupMoves, TermsMoves DEF CallerTurn, RedeemTurn, RaiseTurn,
     SetupTurn, TermsTurn

\* A redemption keeps the types of the invitation and its issuances.
LEMMA RedeemTypes ==
    ASSUME TypeOK, NEW c \in Calls, RedeemTurn(c)
    PROVE  InvitationTypes' /\ faults' \in 0 .. MaxFaults
<1> USE DEF InvitationTypes
<1>0. InvitationTypes /\ faults \in 0 .. MaxFaults /\ MaxFaults \in Nat
      /\ (call[c].pc = "after" => call[c].verdict \in Verdicts)
  BY BoundsAssumption DEF TypeOK, Heard
<1>1. CASE CreateInvitation(c) \/ Claim(c) \/ Settle(c)
  BY <1>0, <1>1 DEF CreateInvitation, Claim, Settle
<1>2. CASE ArriveToRedeem(c) \/ BeginReservation(c)
  BY <1>0, <1>2 DEF ArriveToRedeem, BeginReservation, invitationVars
<1>3. CASE Reserve(c)
  BY <1>0, <1>3 DEF Reserve
<1>4. CASE CompleteIssuance(c)
  BY <1>0, <1>4 DEF CompleteIssuance, Outcome, Verdicts, At
<1>5. CASE ReserveFails(c)
  BY <1>0, <1>5 DEF ReserveFails, invitationVars
<1> QED BY <1>1, <1>2, <1>3, <1>4, <1>5 DEF RedeemTurn, RedeemStep

\* Requests, approvals and rejections keep the types of capacity_proof_requests.
LEMMA RaiseTypes ==
    ASSUME TypeOK, NEW c \in Calls, RaiseTurn(c)
    PROVE  RequestTypes' /\ faults' = faults
<1> USE DEF RequestTypes
<1>0. RequestTypes /\ c \in Rows
  BY CurrentIsOp DEF TypeOK
<1>1. CASE ArriveToApprove(c) \/ FindRequest(c) \/ LockRequest(c)
  BY <1>0, <1>1 DEF ArriveToApprove, FindRequest, LockRequest
<1>2. CASE Decide(c)
  BY <1>0, <1>2 DEF Decide
<1>3. CASE RequestIncrease(c)
  BY <1>0, <1>3 DEF RequestIncrease
<1>4. CASE Reject(c)
  BY <1>0, <1>4 DEF Reject
<1> QED BY <1>1, <1>2, <1>3, <1>4 DEF RaiseTurn, ApproveStep

\* An event's set-up keeps the types of its links, its zone and its positions.
LEMMA SetupTypesKept ==
    ASSUME TypeOK, NEW c \in Calls, SetupTurn(c)
    PROVE  SetupTypes' /\ faults' = faults
  BY DEF TypeOK, SetupTypes, SetupTurn, SetupStep, setupVars, ArriveToWrite, NotSettled, LinkEvent,
     ForgetPositions,
         NothingFurther, AddSeatPositions

\* Sale terms keep the types of the asset, the classes and the holds.
LEMMA TermsTypesKept ==
    ASSUME TypeOK, NEW c \in Calls, TermsTurn(c)
    PROVE  TermsTypes' /\ faults' = faults
<1> USE DEF TermsTypes
<1>0. TermsTypes /\ c \in Rows
  BY CurrentIsOp DEF TypeOK
<1>1. CASE \/ ArriveToSetAsset(c) \/ ArriveToHold(c) \/ BeginTerms(c) \/ BeginHold(c)
                \/ ClearPrices(c)
           \/ RecordAtCreation(c)
  BY <1>0, <1>1 DEF ArriveToSetAsset, ArriveToHold, BeginTerms, BeginHold, ClearPrices,
     RecordAtCreation, termsVars
<1>2. CASE DefineClass(c)
  <2>1. classes' = classes \/ classes' = [classes EXCEPT ![c] = [st |-> "defined", priced |-> TRUE,
          in |-> saleAsset]]
    BY <1>2 DEF DefineClass, termsVars
  <2>2. [st |-> "defined", priced |-> TRUE, in |-> saleAsset] \in Class
    BY <1>0 DEF Class
  <2>3. UNCHANGED <<saleAsset, clearing, holds, faults>>
    BY <1>2 DEF DefineClass, termsVars
  <2> QED BY <1>0, <2>1, <2>2, <2>3
<1>3. CASE SetPrice(c)
  <2> DEFINE r == call[c].arg
  <2>1. classes' = classes \/ classes' = [classes EXCEPT ![r] = [@ EXCEPT !.priced = TRUE,
          !.in = saleAsset]]
    BY <1>3 DEF SetPrice, termsVars
  <2>2. UNCHANGED <<saleAsset, clearing, holds, faults>>
    BY <1>3 DEF SetPrice, termsVars
  <2>3. \A k \in Class : [k EXCEPT !.priced = TRUE, !.in = saleAsset] \in Class
    BY <1>0 DEF Class
  <2> HIDE DEF r
  <2> QED BY <1>0, <2>1, <2>2, <2>3
<1>4. CASE ChooseAsset(c)
  <2>1. \A k \in Class : [k EXCEPT !.priced = FALSE] \in Class
    BY DEF Class
  <2>2. call[c].arg \in SaleAssets
    BY <1>4 DEF ChooseAsset, At, TypeOK, Asked, ArgOf
  <2> QED BY <1>0, <1>4, <2>1, <2>2 DEF ChooseAsset
<1>5. CASE ReadTerms(c)
  <2>1. holds' = holds \/ \E n \in SaleAssets \cup {None} :
          holds' = [holds EXCEPT ![c] = [st |-> "read", asset |-> saleAsset, in |-> n]]
    <3>1. call[c].arg \in Rows
      BY <1>5 DEF ReadTerms, At, TypeOK, Asked, ArgOf
    <3>2. classes[call[c].arg].in \in SaleAssets \cup {None}
      BY <1>0, <3>1 DEF Class
    <3> QED BY <1>5, <3>2 DEF ReadTerms
  <2>2. \A n \in SaleAssets \cup {None} : [st |-> "read", asset |-> saleAsset, in |-> n] \in Hold
    BY <1>0 DEF Hold
  <2>3. UNCHANGED <<saleAsset, classes, clearing, faults>>
    BY <1>5 DEF ReadTerms
  <2> QED BY <1>0, <2>1, <2>2, <2>3
<1>6. CASE PlaceHold(c)
  <2>1. \A h \in Hold : [h EXCEPT !.st = "placed"] \in Hold
    BY DEF Hold
  <2> QED BY <1>0, <1>6, <2>1 DEF PlaceHold
<1> QED BY <1>1, <1>2, <1>3, <1>4, <1>5, <1>6 DEF TermsTurn, TermsStep

\* The ledger settles what was sent, and touches nothing of Kippu's.
LEMMA LedgerTypes ==
    ASSUME TypeOK, NEW o \in Ops, Land(o) \/ RefuseOp(o)
    PROVE  /\ ledger \in [Ops -> {"none", "sent", "landed", "refused"}] /\ zone' \in BOOLEAN
           /\ ledger[o] = "sent"
           /\ ledger' = [ledger EXCEPT ![o] = "landed"]
                 \/ ledger' = [ledger EXCEPT ![o] = "refused"]
           /\ UNCHANGED <<call, row, keys, audit, signedBy, faults, invitationVars, requests,
                 links, positions, termsVars>>
  BY DEF TypeOK, AuthorityTypes, SetupTypes, Land, RefuseOp, setupVars

\* A request that stops ends where it is.
LEMMA StopEffect ==
    ASSUME TypeOK, NEW c \in Calls, StopTurn(c)
    PROVE  /\ Becomes(c, call[c].op, "stopped", call[c].stage, call[c].key, call[c].verdict,
              call[c].arg)
           /\ faults' = faults + 1
           /\ UNCHANGED <<authorityVars, invitationVars, requests, setupVars, termsVars>>
  BY GotoEffect DEF StopTurn, Stop, TypeOK, Pcs, Late

\* Every step keeps every table and every request well typed.
LEMMA TypesKept ==
    ASSUME TypeOK, [Next]_vars
    PROVE  TypeOK'
<1>0. /\ call \in [Calls -> Request] /\ Heard /\ Asked
      /\ AuthorityTypes /\ InvitationTypes /\ RequestTypes /\ SetupTypes /\ TermsTypes
            /\ faults \in 0 .. MaxFaults
  BY DEF TypeOK
<1> USE DEF authorityVars, invitationVars, setupVars, termsVars
<1>1. CASE UNCHANGED vars
  BY <1>0, <1>1 DEF vars, TypeOK, Heard, Asked, AuthorityTypes, InvitationTypes, RequestTypes,
     SetupTypes, TermsTypes
<1>2. ASSUME NEW c \in Calls, RelayTurn(c) \/ CallerTurn(c) \/ StopTurn(c)
      PROVE  TypeOK'
  <2>1. call' \in [Calls -> Request] /\ Heard' /\ Asked'
    <3>1. CASE RelayTurn(c)
      <4>1. RelayMove(c)
        BY <3>1, RelayMoves DEF RelayTurn
      <4> QED BY <1>0, <4>1 DEF RelayMove, Heard, Asked
    <3>2. CASE CallerTurn(c)
      BY <1>0, <3>2, CallerMoves DEF CallerMove, Heard, Asked, BeforeRelay, Late
    <3>3. CASE StopTurn(c)
      BY <1>0, <3>3, StopEffect DEF Becomes, Heard, Asked
    <3> QED BY <1>2, <3>1, <3>2, <3>3
  <2>2. AuthorityTypes' /\ faults' \in 0 .. MaxFaults
    <3>1. CASE RelayTurn(c) \/ StopTurn(c)
      BY <3>1, RelayTypes DEF RelayTurn, StopTurn
    <3>2. CASE CallerTurn(c)
      <4>1. faults' \in 0 .. MaxFaults
        BY <1>0, <3>2, RedeemTypes, RaiseTypes, SetupTypesKept, TermsTypesKept DEF CallerTurn
      <4>2. UNCHANGED authorityVars
        BY <1>0, <3>2, CallerMoves
      <4> QED BY <1>0, <4>1, <4>2 DEF AuthorityTypes
    <3> QED BY <1>2, <3>1, <3>2
  <2>3. InvitationTypes'
    BY <1>0, <1>2, RedeemTypes DEF InvitationTypes, RelayTurn, StopTurn, CallerTurn, RaiseTurn,
       SetupTurn, TermsTurn
  <2>4. RequestTypes'
    BY <1>0, <1>2, RaiseTypes DEF RequestTypes, RelayTurn, StopTurn, CallerTurn, RedeemTurn,
       SetupTurn, TermsTurn
  <2>5. SetupTypes'
    BY <1>0, <1>2, SetupTypesKept DEF SetupTypes, RelayTurn, StopTurn, CallerTurn, RedeemTurn,
       RaiseTurn, TermsTurn
  <2>6. TermsTypes'
    BY <1>0, <1>2, TermsTypesKept DEF TermsTypes, RelayTurn, StopTurn, CallerTurn, RedeemTurn,
       RaiseTurn, SetupTurn
  <2> QED BY <2>1, <2>2, <2>3, <2>4, <2>5, <2>6 DEF TypeOK
<1>3. ASSUME NEW o \in Ops, Land(o) \/ RefuseOp(o)
      PROVE  TypeOK'
  BY <1>0, <1>3, LedgerTypes
     DEF TypeOK, Heard, Asked, AuthorityTypes, InvitationTypes, RequestTypes, SetupTypes, TermsTypes
<1> QED BY <1>1, <1>2, <1>3, Turns

\* Both initial states, of a new organiser and of one with an event, are well typed.
LEMMA TypesInit == Init => TypeOK
<1> SUFFICES ASSUME Init PROVE TypeOK
  OBVIOUS
<1> DEFINE there == "createEvent" \notin mix[1]
<1>1. PICK stocked \in BOOLEAN : /\ AuthorityInit(there) /\ InvitationInit(there)
        /\ ProofInit(there)
                                  /\ SetupInit(there) /\ TermsInit(there, stocked)
  BY DEF Init
<1>2. there \in BOOLEAN /\ 0 \in Rows /\ MaxFaults \in Nat
  BY BoundsAssumption DEF Rows
<1> HIDE DEF there
<1>3. call \in [Calls -> Request] /\ Heard /\ Asked /\ faults \in 0 .. MaxFaults
  BY <1>1, <1>2 DEF AuthorityInit, Idle, Request, OpNames, Early, Stages, Heard, Asked, ArgOf
<1>4. AuthorityTypes
  BY <1>1, <1>2 DEF AuthorityInit, AuthorityTypes, Before
<1>5. InvitationTypes /\ RequestTypes /\ SetupTypes
  BY <1>1, <1>2 DEF InvitationInit, ProofInit, SetupInit, InvitationTypes, RequestTypes, SetupTypes
<1>6. TermsTypes
  <2>1. NoHold \in Hold /\ NoClass \in Class /\ "COPM/2" \in SaleAssets
        /\ [st |-> "defined", priced |-> TRUE, in |-> "COPM/2"] \in Class
    BY DEF NoHold, Hold, NoClass, Class, SaleAssets
  <2> QED BY <1>1, <1>2, <2>1 DEF TermsInit, TermsTypes
<1> QED BY <1>3, <1>4, <1>5, <1>6 DEF TypeOK

\* Every table, and every request wherever it is, keeps a value its CHECK constraint or its type
\* allows, whatever requests meet (authority, invitations, proofs, set-up and terms together).
THEOREM TypeCorrect == Spec => []TypeOK
<1> QED BY TypesInit, TypesKept, PTL DEF Spec

(* ------------------------------ the relay ------------------------------ *)
\* A request's two operations are two operations, and no other request's.
LEMMA StageOps ==
    ASSUME NEW c \in Calls, NEW d \in Calls, NEW s \in Stages, NEW t \in Stages
    PROVE  <<c, s>> \in Ops /\ (<<c, s>> = <<d, t>> => c = d /\ s = t) /\ "register" \in Stages
               /\ "write" \in Stages
  BY DEF Ops, Calls, Rows, Stages

\* The relay's invariant holds when nothing has been relayed but what an earlier request did.
LEMMA RelayInvInit == Init => RelayInv
<1> SUFFICES ASSUME Init PROVE RelayInv
  OBVIOUS
<1> DEFINE there == "createEvent" \notin mix[1]
<1>1. AuthorityInit(there) /\ there \in BOOLEAN
  BY DEF Init
<1> HIDE DEF there
<1>2. \A c \in Calls : <<c, "register">> \in Ops /\ <<c, "write">> \in Ops /\ c # 0
  BY DEF Calls, Ops, Rows, Stages
<1>3. \A c \in Calls : RelayAt(c, call[c])
  BY <1>1, <1>2 DEF AuthorityInit, RelayAt, Untouched, Idle, Early, Signing, Before
<1>4. \A o \in Ops : /\ audit[o] = Before(there, o, "settled", "none")
        /\ ledger[o] = Before(there, o, "landed", "none")
                     /\ signedBy[o] = Before(there, o, 0, None)
  BY <1>1 DEF AuthorityInit
<1>5. row.key = (IF there THEN 0 ELSE None) /\ row.registered = there /\ None # 0
  BY <1>1, BoundsAssumption DEF AuthorityInit
<1> QED BY <1>1, <1>3, <1>4, <1>5 DEF RelayInv, AuditTellsTruth, Before

\* A caller's turn signs and submits nothing.
LEMMA CallerKeepsRelay ==
    ASSUME TypeOK, RelayInv, NEW c \in Calls, CallerTurn(c)
    PROVE  RelayInv'
<1>1. CallerMove(c) /\ UNCHANGED authorityVars
  BY CallerMoves DEF TypeOK
<1>2. UNCHANGED <<row, audit, ledger, signedBy>>
  BY <1>1 DEF authorityVars
<1>3. RelayAt(c, call[c])' 
  <2> HIDE DEF CallerTurn
  <2>1. RelayAt(c, call[c])
    BY DEF RelayInv
  <2>2. /\ call'[c].pc \notin Signing \cup {"sign", "complete", "after"}
        /\ call'[c].pc \in Early => call[c].pc \in Early
        /\ call'[c].stage = "register" => call[c].stage = "register" \/ call[c].pc \in Early
        /\ call'[c].pc \in Early => call'[c].stage = "register"
    BY <1>1, <2>1 DEF CallerMove, RelayAt, BeforeRelay, Early, Signing, Late
  <2> QED BY <1>2, <2>1, <2>2 DEF RelayAt, Untouched, Signing
<1>4. ASSUME NEW d \in Calls, d # c PROVE RelayAt(d, call[d])'
  BY <1>1, <1>2, <1>4 DEF RelayInv, RelayAt, CallerMove, Untouched
<1> QED BY <1>2, <1>3, <1>4 DEF RelayInv, AuditTellsTruth

\* A request that stops leaves its row and its submission as they are.
LEMMA StopKeepsRelay ==
    ASSUME TypeOK, RelayInv, NEW c \in Calls, StopTurn(c)
    PROVE  RelayInv'
<1>1. /\ Becomes(c, call[c].op, "stopped", call[c].stage, call[c].key, call[c].verdict, call[c].arg)
      /\ UNCHANGED <<row, audit, ledger, signedBy>>
  BY StopEffect DEF authorityVars
<1>2. ASSUME NEW d \in Calls PROVE RelayAt(d, call[d])'
  BY <1>1 DEF RelayInv, RelayAt, Becomes, Untouched, Early, Signing
<1> QED BY <1>1, <1>2 DEF RelayInv, AuditTellsTruth

\* The ledger settles only what was sent, after its row and its signature.
LEMMA LedgerKeepsRelay ==
    ASSUME TypeOK, RelayInv, NEW o \in Ops, Land(o) \/ RefuseOp(o)
    PROVE  RelayInv'
<1>1. /\ ledger \in [Ops -> {"none", "sent", "landed", "refused"}] /\ ledger[o] = "sent"
           /\ ledger'[o] # "none"
      /\ \A p \in Ops \ {o} : ledger'[p] = ledger[p]
      /\ UNCHANGED <<call, row, audit, signedBy>>
  BY LedgerTypes
<1>2. ASSUME NEW c \in Calls PROVE RelayAt(c, call[c])'
  <2>1. RelayAt(c, call[c]) /\ call[c].stage \in Stages /\ <<c, call[c].stage>> \in Ops
        /\ <<c, "register">> \in Ops /\ <<c, "write">> \in Ops
        /\ (call[c].pc \in {"complete", "after"} => call[c].verdict \in Verdicts)
    BY CurrentIsOp, RequestFields, StageOps DEF RelayInv, TypeOK, Heard, Current, Stages
  <2>2. \A p \in Ops : (ledger[p] = "none" => ledger'[p] = "none") /\ (ledger[p] # "none"
          => ledger'[p] # "none")
                       /\ (ledger[p] \in {"landed", "refused"} => ledger'[p] = ledger[p])
    BY <1>1
  <2> QED BY <1>1, <2>1, <2>2 DEF RelayAt, Untouched, Verdicts
<1>3. AuditTellsTruth'
  BY <1>1 DEF RelayInv, AuditTellsTruth
<1> QED BY <1>1, <1>2, <1>3 DEF RelayInv

(* A step of one request's relay changes its current operation, and the key only the first time. *)
RelayChanges(c) ==
    /\ \A p \in Ops \ {Current(c)} : audit'[p] = audit[p] /\ ledger'[p] = ledger[p]
          /\ signedBy'[p] = signedBy[p]
    /\ row'.key = row.key \/ row.key = None

\* Whatever a relay does to its current operation, it leaves the relays of others as they were.
LEMMA OthersRelay ==
    ASSUME TypeOK, RelayInv, NEW c \in Calls, RelayMove(c), RelayChanges(c),
           RelayAt(c, call[c])',
           LET o == Current(c) IN
               /\ ledger'[o] # "none" => audit'[o] # "none" /\ signedBy'[o] = row'.key
                     /\ row'.key # None
               /\ audit'[o] = "settled" => ledger'[o] = "landed"
               /\ audit'[o] = "rejected" => ledger'[o] = "refused",
           row'.registered => row'.key # None
    PROVE  RelayInv'
<1>1. ASSUME NEW d \in Calls, d # c PROVE RelayAt(d, call[d])'
  <2>1. RelayAt(d, call[d]) /\ call'[d] = call[d] /\ call[d].stage \in Stages
    BY <1>1, RequestFields DEF RelayInv, RelayMove, TypeOK
  <2>2. \A s \in Stages : audit'[<<d, s>>] = audit[<<d, s>>] /\ ledger'[<<d, s>>] = ledger[<<d, s>>]
    BY <1>1, StageOps, CurrentIsOp, RequestFields DEF RelayChanges, Current, TypeOK
  <2>3. \A s \in Stages : Untouched(<<d, s>>)' = Untouched(<<d, s>>)
    BY <2>2 DEF Untouched
  <2>4. "register" \in Stages /\ "write" \in Stages
    BY DEF Stages
  <2> QED BY <2>1, <2>2, <2>3, <2>4 DEF RelayAt, RelayChanges
<1>2. ASSUME NEW o \in Ops
      PROVE  /\ ledger'[o] # "none" => audit'[o] # "none" /\ signedBy'[o] = row'.key
                    /\ row'.key # None
             /\ audit'[o] = "settled" => ledger'[o] = "landed"
             /\ audit'[o] = "rejected" => ledger'[o] = "refused"
  <2>1. CASE o # Current(c)
    BY <2>1 DEF RelayInv, AuditTellsTruth, RelayChanges
  <2> QED BY <2>1
<1>3. RelayAt(c, call[c])'
  OBVIOUS
<1> QED BY <1>1, <1>2, <1>3 DEF RelayInv, AuditTellsTruth

\* The relay itself: the row is written before the signature, and completed with the verdict.
LEMMA RelayKeepsRelay ==
    ASSUME TypeOK, RelayInv, NEW c \in Calls, RelayTurn(c)
    PROVE  RelayInv'
<1> DEFINE o == Current(c)
<1>0. /\ call \in [Calls -> Request] /\ AuthorityTypes /\ o \in Ops /\ c \in Rows
           /\ o = <<c, call[c].stage>>
      /\ <<c, "register">> \in Ops /\ <<c, "write">> \in Ops /\ call[c].stage \in Stages /\ c # None
      /\ call[c].verdict \in {"none"} \cup Verdicts
  <2>1. c # None
    BY BoundsAssumption DEF Calls
  <2> QED BY <2>1, CurrentIsOp, StageOps, RequestFields DEF TypeOK, Current
<1>1. RelayMove(c) /\ call' \in [Calls -> Request]
  BY RelayMoves DEF RelayTurn, RelayMove
<1>2. RelayAt(c, call[c]) /\ AuditTellsTruth /\ (row.registered => row.key # None)
      /\ \A p \in Ops : ledger[p] # "none" => row.key # None
  BY DEF RelayInv
<1>3. SUFFICES /\ RelayChanges(c)
               /\ RelayAt(c, call[c])'
               /\ ledger'[o] # "none" => audit'[o] # "none" /\ signedBy'[o] = row'.key
                     /\ row'.key # None
               /\ audit'[o] = "settled" => ledger'[o] = "landed"
               /\ audit'[o] = "rejected" => ledger'[o] = "refused"
               /\ row'.registered => row'.key # None
  BY <1>1, OthersRelay
<1>4. /\ ledger[o] # "none" => audit[o] # "none" /\ signedBy[o] = row.key /\ row.key # None
      /\ audit[o] = "settled" => ledger[o] = "landed"
      /\ audit[o] = "rejected" => ledger[o] = "refused"
  BY <1>0, <1>2 DEF AuditTellsTruth
<1> USE DEF RelayChanges, authorityVars, Untouched, AuthorityTypes, Early, Signing
<1>5. CASE ReadAccount(c)
  <2>1. /\ call'[c].stage = (IF row.registered THEN "write" ELSE "register")
             /\ call'[c].key = row.key
        /\ call'[c].pc = (IF row.key = None THEN "createWait"
                          ELSE IF row.registered THEN "record" ELSE "sign")
        /\ UNCHANGED <<row, audit, ledger, signedBy>> /\ call[c].pc = "provision"
    BY <1>0, <1>5 DEF ReadAccount, Request
  <2>2. Untouched(<<c, "register">>) /\ Untouched(<<c, "write">>)
    BY <1>2, <2>1 DEF RelayAt
  <2> QED BY <1>0, <1>2, <1>4, <2>1, <2>2 DEF RelayAt
<1>6. CASE LockOrganiser(c)
  <2>1. /\ call'[c].stage = call[c].stage /\ call'[c].pc = "locked" /\ call[c].pc = "createWait"
        /\ UNCHANGED <<row, audit, ledger, signedBy>>
    BY <1>0, <1>6 DEF LockOrganiser, Goto, Request
  <2> QED BY <1>0, <1>2, <1>4, <2>1 DEF RelayAt, Verdicts
<1>7. CASE CreateKey(c)
  <2>1. /\ call'[c].stage = call[c].stage /\ call'[c].pc \in {"created", "provision"}
             /\ call[c].pc = "locked"
        /\ UNCHANGED <<row, audit, ledger, signedBy>>
    BY <1>0, <1>7 DEF CreateKey, Goto, Request
  <2> QED BY <1>0, <1>2, <1>4, <2>1 DEF RelayAt, Verdicts
<1>8. CASE InsertAccount(c)
  <2>1. call[c].pc = "created" /\ UNCHANGED <<audit, ledger, signedBy>>
    BY <1>8 DEF InsertAccount
  <2>2. Untouched(<<c, "register">>) /\ Untouched(<<c, "write">>) /\ call[c].stage = "register"
    BY <1>2, <2>1 DEF RelayAt
  <2>3. CASE row.key = None
    <3>1. /\ row'.key = c /\ row'.registered = row.registered
          /\ call'[c].stage = "register" /\ call'[c].pc = "sign" /\ call'[c].key = c
      BY <1>0, <1>8, <2>2, <2>3 DEF InsertAccount, Request
    <3> QED BY <1>0, <1>2, <1>4, <2>1, <2>2, <2>3, <3>1 DEF RelayAt
  <2>4. CASE row.key # None
    <3>1. row' = row /\ call'[c].stage = "register" /\ call'[c].pc = "after"
            /\ call'[c].verdict = "failed"
      BY <1>0, <1>8, <2>4 DEF InsertAccount, Request
    <3> QED BY <1>0, <1>2, <1>4, <2>1, <2>2, <2>4, <3>1 DEF RelayAt
  <2> QED BY <2>3, <2>4
<1>9. CASE SignRegistration(c)
  <2>1. /\ call'[c].stage = call[c].stage /\ call'[c].pc = "record" /\ call'[c].key = call[c].key
        /\ call[c].pc = "sign" /\ row'.key = row.key /\ row'.registered = row.registered
        /\ UNCHANGED <<audit, ledger, signedBy>>
    BY <1>0, <1>9 DEF SignRegistration, Goto, Request
  <2> QED BY <1>0, <1>2, <1>4, <2>1 DEF RelayAt, Verdicts
<1>10. CASE Record(c)
  <2>1. /\ call'[c].stage = call[c].stage /\ call'[c].pc = "submit" /\ call'[c].key = call[c].key
        /\ call[c].pc = "record" /\ UNCHANGED <<row, ledger, signedBy>>
        /\ audit'[o] = "pending" /\ \A p \in Ops \ {o} : audit'[p] = audit[p]
    BY <1>0, <1>10 DEF Record, Goto, Request
  <2>2. ledger[o] = "none" /\ <<c, call'[c].stage>> = o /\ (call[c].stage = "register"
          => <<c, "write">> # o)
    BY <1>0, <1>2, <2>1, StageOps DEF RelayAt
  <2> QED BY <1>0, <1>2, <1>4, <2>1, <2>2 DEF RelayAt, Verdicts
<1>11. CASE Submit(c)
  <2>1. /\ call'[c].stage = call[c].stage /\ call'[c].pc = "await" /\ call'[c].key = call[c].key
        /\ call[c].pc = "submit" /\ UNCHANGED <<row, audit>>
        /\ ledger'[o] = "sent" /\ signedBy'[o] = call[c].key
        /\ \A p \in Ops \ {o} : ledger'[p] = ledger[p] /\ signedBy'[p] = signedBy[p]
    BY <1>0, <1>11 DEF Submit, Goto, Request
  <2>2. audit[o] = "pending" /\ <<c, call'[c].stage>> = o /\ (call[c].stage = "register"
          => <<c, "write">> # o)
    BY <1>0, <1>2, <2>1, StageOps DEF RelayAt
  <2> QED BY <1>0, <1>2, <1>4, <2>1, <2>2 DEF RelayAt, Verdicts
<1>12. CASE Observe(c)
  <2>1. /\ call'[c].stage = call[c].stage /\ call'[c].pc = "complete" /\ call'[c].key = call[c].key
        /\ call'[c].verdict = ledger[o] /\ ledger[o] \in {"landed", "refused"}
        /\ call[c].pc = "await" /\ UNCHANGED <<row, audit, ledger, signedBy>>
    BY <1>0, <1>12 DEF Observe, Goto, Request
  <2> QED BY <1>0, <1>2, <1>4, <2>1 DEF RelayAt, Verdicts
<1>13. CASE Lose(c)
  <2>1. /\ call'[c].stage = call[c].stage /\ call'[c].pc = "complete" /\ call'[c].key = call[c].key
        /\ call'[c].verdict = "failed"
        /\ call[c].pc = "await" /\ UNCHANGED <<row, audit, ledger, signedBy>>
    BY <1>0, <1>13 DEF Lose, Goto, Request
  <2> QED BY <1>0, <1>2, <1>4, <2>1 DEF RelayAt, Verdicts
<1>14. CASE Complete(c)
  <2>1. /\ call'[c].stage = call[c].stage /\ call'[c].key = call[c].key
             /\ call'[c].verdict = call[c].verdict
        /\ call[c].pc = "complete" /\ UNCHANGED <<row, ledger, signedBy>>
        /\ \/ call'[c].pc = "mark" /\ call[c].stage = "register"
           \/ call'[c].pc = "after" /\ (call[c].stage = "register" => call[c].verdict # "landed")
        /\ audit'[o] = Outcome(call[c].verdict) /\ \A p \in Ops \ {o} : audit'[p] = audit[p]
    BY <1>0, <1>14 DEF Complete, Goto, Request, Completed
  <2>2. /\ audit[o] = "pending" /\ call[c].verdict \in Verdicts /\ (call[c].verdict # "failed"
             => ledger[o] = call[c].verdict)
        /\ (call[c].stage = "register" => <<c, "write">> # o)
    BY <1>0, <1>2, <2>1, StageOps DEF RelayAt, Verdicts
  <2>3. /\ Outcome(call[c].verdict) # "none"
        /\ Outcome(call[c].verdict) = "settled" => call[c].verdict = "landed"
        /\ Outcome(call[c].verdict) = "rejected" => call[c].verdict = "refused"
    BY <2>2 DEF Outcome, Verdicts
  <2>4. /\ RelayChanges(c) /\ row' = row /\ ledger' = ledger /\ signedBy' = signedBy
             /\ audit'[o] # "none"
        /\ audit'[o] = "settled" => ledger'[o] = "landed"
        /\ audit'[o] = "rejected" => ledger'[o] = "refused"
    BY <1>0, <2>1, <2>2, <2>3
  <2>5. CASE call'[c].pc = "mark"
    BY <1>0, <1>2, <1>4, <2>1, <2>2, <2>4, <2>5 DEF RelayAt
  <2>6. CASE call'[c].pc = "after"
    BY <1>0, <1>2, <1>4, <2>1, <2>2, <2>4, <2>6 DEF RelayAt, Verdicts, Stages
  <2> QED BY <2>1, <2>5, <2>6
<1>15. CASE CompleteFails(c)
  <2>1. /\ call'[c].stage = call[c].stage /\ call'[c].key = call[c].key
             /\ call'[c].verdict = call[c].verdict
        /\ call[c].pc = "complete" /\ UNCHANGED <<row, ledger, signedBy>>
        /\ \/ call'[c].pc = "mark" /\ call[c].stage = "register"
           \/ call'[c].pc = "after" /\ (call[c].stage = "register" => call[c].verdict # "landed")
        /\ audit' = audit
    BY <1>0, <1>15 DEF CompleteFails, Goto, Request, Completed
  <2>2. RelayChanges(c)
    BY <1>0, <2>1
  <2>3. CASE call'[c].pc = "mark"
    BY <1>0, <1>2, <1>4, <2>1, <2>2, <2>3 DEF RelayAt
  <2>4. CASE call'[c].pc = "after"
    BY <1>0, <1>2, <1>4, <2>1, <2>2, <2>4 DEF RelayAt, Verdicts, Stages
  <2> QED BY <2>1, <2>3, <2>4
<1>16. CASE MarkRegistered(c)
  <2>1. /\ call'[c].stage = "write" /\ call'[c].key = row.key /\ call'[c].pc = "record"
        /\ call[c].pc = "mark" /\ row'.key = row.key /\ UNCHANGED <<audit, ledger, signedBy>>
    BY <1>0, <1>16 DEF MarkRegistered, Goto, Request
  <2>2. Untouched(<<c, "write">>) /\ row.key # None
    BY <1>2, <2>1 DEF RelayAt
  <2> QED BY <1>0, <1>2, <1>4, <2>1, <2>2 DEF RelayAt, Verdicts
<1> QED BY <1>5, <1>6, <1>7, <1>8, <1>9, <1>10, <1>11, <1>12, <1>13, <1>14, <1>15, <1>16
        DEF RelayTurn, RelayStep

\* Every step keeps the relay's invariant.
LEMMA RelayInvKept ==
    ASSUME TypeOK, RelayInv, [Next]_vars
    PROVE  RelayInv'
<1>1. CASE UNCHANGED vars
  BY <1>1 DEF vars, authorityVars, RelayInv, RelayAt, Untouched, AuditTellsTruth
<1>2. CASE Next
  BY <1>2, Turns, RelayKeepsRelay, CallerKeepsRelay, StopKeepsRelay, LedgerKeepsRelay
<1> QED BY <1>1, <1>2

\* Every operation the ledger has seen has an audit row and the organiser's one key, and a row
\* that says settled or rejected says what the ledger did (audit/relay.ts, authority.ts).
THEOREM AuditTellsTruthAlways == Spec => []AuditTellsTruth
<1>1. RelayInv => AuditTellsTruth
  BY DEF RelayInv
<1> QED BY <1>1, TypesInit, TypesKept, RelayInvInit, RelayInvKept, PTL DEF Spec

(* ------------------------------- the key ------------------------------- *)
Making(c) == call[c].pc \in {"locked", "created"}
Made == row.key # None \/ \E c \in Calls : call[c].pc = "created"

\* The key's invariant holds before any request, with the organiser's one key or with none.
LEMMA KeyInvInit == Init => KeyInv
<1> SUFFICES ASSUME Init PROVE KeyInv
  OBVIOUS
<1> DEFINE there == "createEvent" \notin mix[1]
<1>1. AuthorityInit(there) /\ there \in BOOLEAN
  BY DEF Init
<1> HIDE DEF there
<1>2. /\ \A c \in Calls : call[c].pc = "idle"
      /\ row.key = (IF there THEN 0 ELSE None) /\ keys = (IF there THEN {0} ELSE {})
            /\ faults = 0 /\ None # 0
  BY <1>1, BoundsAssumption DEF AuthorityInit, Idle
<1>3. IsFiniteSet(keys) /\ Cardinality(keys) = (IF there THEN 1 ELSE 0)
  BY <1>1, <1>2, FS_Singleton, FS_EmptySet
<1> QED BY <1>2, <1>3 DEF KeyInv

\* A step that makes no key, forgets none, and counts the request that stops while it makes one
LEMMA KeysLeft ==
    ASSUME TypeOK, KeyInv, NEW c \in Calls,
           \A d \in Calls \ {c} : call'[d] = call[d],
           Making(c)' => Making(c), call'[c].pc = "created" => call[c].pc = "created",
           call[c].pc = "created" => call'[c].pc = "created" \/ faults' = faults + 1,
           keys' = keys, row'.key = row.key, faults' \in {faults, faults + 1}
    PROVE  KeyInv'
<1>1. faults \in Nat /\ faults' \in Nat /\ Cardinality(keys) \in Nat
  BY FS_CardinalityType, BoundsAssumption DEF TypeOK, KeyInv
<1>2. CASE faults' = faults
  BY <1>1, <1>2 DEF KeyInv, Making
<1>3. CASE faults' = faults + 1
  <2>1. Cardinality(keys) <= faults + 1
    BY <1>1 DEF KeyInv
  <2> QED BY <1>1, <1>3, <2>1 DEF KeyInv, Making
<1> QED BY <1>2, <1>3

\* Only the holder of the organiser's row makes a key, and only when there is none (accountRow).
LEMMA RelayKeepsKey ==
    ASSUME TypeOK, KeyInv, NEW c \in Calls, RelayTurn(c)
    PROVE  KeyInv'
<1>0. /\ call \in [Calls -> Request] /\ row \in [key : Rows \cup {None}, registration : BOOLEAN,
           registered : BOOLEAN]
      /\ c # None /\ faults \in Nat
  BY BoundsAssumption DEF TypeOK, AuthorityTypes, Calls
<1>1. call' \in [Calls -> Request] /\ \A d \in Calls \ {c} : call'[d] = call[d]
  BY RelayMoves DEF RelayTurn, RelayMove
<1> USE DEF Making, authorityVars
<1>2. CASE LockOrganiser(c)
  <2>1. /\ \A d \in Calls : ~Making(d)
        /\ call'[c].pc = "locked" /\ UNCHANGED <<row, keys, faults>>
    BY <1>0, <1>2 DEF LockOrganiser, Goto, Request
  <2>2. \A d \in Calls : call'[d].pc # "created" /\ call[d].pc # "created"
    BY <1>1, <2>1
  <2>3. \A d \in Calls : Making(d)' => d = c
    BY <1>1, <2>1
  <2> QED BY <2>1, <2>2, <2>3 DEF KeyInv
<1>3. CASE CreateKey(c)
  <2>1. call[c].pc = "locked" /\ UNCHANGED <<row, faults>> /\ Cardinality(keys) \in Nat
    BY <1>3, FS_CardinalityType DEF CreateKey, KeyInv
  <2>2. CASE row.key # None
    <3>1. call'[c].pc = "provision" /\ keys' = keys
      BY <1>0, <1>3, <2>2 DEF CreateKey, Request
    <3> QED BY <1>0, <1>1, <2>1, <3>1, KeysLeft
  <2>3. CASE row.key = None
    <3>1. call'[c].pc = "created" /\ keys' = keys \cup {c}
      BY <1>0, <1>3, <2>3 DEF CreateKey, Goto, Request
    <3>2. ~Made /\ Made' /\ \A d \in Calls : Making(d)' => Making(d)
      BY <1>0, <1>1, <2>1, <2>3, <3>1 DEF KeyInv, Made
    <3>3. IsFiniteSet(keys') /\ Cardinality(keys') <= faults + 1
      <4>1. Cardinality(keys) <= faults
        BY <1>0, <2>1, <3>2 DEF KeyInv, Made
      <4>2. /\ IsFiniteSet(keys')
            /\ Cardinality(keys') = IF c \in keys THEN Cardinality(keys) ELSE Cardinality(keys) + 1
        BY <3>1, FS_AddElement DEF KeyInv
      <4> QED BY <1>0, <2>1, <4>1, <4>2
    <3>4. \A d \in Calls : call'[d].pc = "created" => d = c
      BY <2>1, <1>1, <3>2 DEF KeyInv
    <3> QED BY <1>1, <2>1, <2>3, <3>1, <3>2, <3>3, <3>4 DEF KeyInv, Made
  <2> QED BY <2>2, <2>3
<1>4. CASE InsertAccount(c)
  <2>1. /\ call[c].pc = "created" /\ row.key = None /\ c \in keys /\ UNCHANGED <<keys, faults>>
        /\ \A d \in Calls : Making(d) => d = c
    BY <1>4 DEF InsertAccount, KeyInv
  <2>2. row'.key = c /\ call'[c].pc = "sign"
    BY <1>0, <1>4, <2>1 DEF InsertAccount, Request
  <2>3. \A d \in Calls : ~Making(d)'
    BY <1>1, <2>1, <2>2
  <2> QED BY <1>0, <2>1, <2>2, <2>3 DEF KeyInv
<1>5. CASE ReadAccount(c) \/ Record(c) \/ Submit(c) \/ Observe(c) \/ Lose(c)
  <2>1. call[c].pc \in {"provision", "record", "submit", "await"} /\ ~Making(c)'
    BY <1>0, <1>5 DEF ReadAccount, Record, Submit, Observe, Lose, Goto, Request
  <2>2. UNCHANGED <<keys, row>> /\ faults' \in {faults, faults + 1}
    BY <1>5 DEF ReadAccount, Record, Submit, Observe, Lose
  <2> QED BY <1>1, <2>1, <2>2, KeysLeft
<1>6. CASE SignRegistration(c) \/ Complete(c) \/ MarkRegistered(c) \/ CompleteFails(c)
  <2>1. call[c].pc \in {"sign", "complete", "mark"} /\ ~Making(c)'
    BY <1>0, <1>6 DEF SignRegistration, Complete, MarkRegistered, CompleteFails, Completed, Goto,
       Request
  <2>2. keys' = keys /\ row'.key = row.key /\ faults' \in {faults, faults + 1}
    BY <1>0, <1>6 DEF SignRegistration, Complete, MarkRegistered, CompleteFails
  <2> QED BY <1>1, <2>1, <2>2, KeysLeft
<1> QED BY <1>2, <1>3, <1>4, <1>5, <1>6 DEF RelayTurn, RelayStep

\* Outside the relay only a failed reservation counts as a fault.
LEMMA CallerFaults ==
    ASSUME TypeOK, NEW c \in Calls, CallerTurn(c)
    PROVE  faults' = faults \/ (faults' = faults + 1 /\ ReserveFails(c))
<1>1. CASE RedeemTurn(c)
  BY <1>1 DEF RedeemTurn, CreateInvitation, ArriveToRedeem, RedeemStep, Claim, BeginReservation,
     Reserve,
              CompleteIssuance, Settle, ReserveFails
<1> QED BY <1>1, RaiseTypes, SetupTypesKept, TermsTypesKept DEF CallerTurn

\* Every step keeps the key's invariant.
LEMMA KeyInvKept ==
    ASSUME TypeOK, KeyInv, [Next]_vars
    PROVE  KeyInv'
<1> USE DEF authorityVars
<1>1. CASE UNCHANGED vars
  BY <1>1 DEF vars, KeyInv
<1>2. ASSUME NEW c \in Calls, CallerTurn(c) PROVE KeyInv'
  <2>1. CallerMove(c) /\ UNCHANGED authorityVars /\ faults' \in {faults, faults + 1}
    BY <1>2, CallerMoves, CallerFaults DEF TypeOK
  <2>2. call'[c].pc \notin {"locked", "created"} /\ call[c].pc # "created"
    BY <2>1 DEF CallerMove, BeforeRelay, Late
  <2> QED BY <2>1, <2>2, KeysLeft DEF CallerMove, Making
<1>3. ASSUME NEW c \in Calls, StopTurn(c) PROVE KeyInv'
  <2>1. call'[c].pc = "stopped" /\ faults' = faults + 1 /\ UNCHANGED <<keys, row>>
        /\ \A d \in Calls \ {c} : call'[d] = call[d]
    BY <1>3, StopEffect DEF Becomes
  <2> QED BY <2>1, KeysLeft DEF Making
<1>4. ASSUME NEW o \in Ops, Land(o) \/ RefuseOp(o) PROVE KeyInv'
  BY <1>4, LedgerTypes DEF KeyInv
<1> QED BY <1>1, <1>2, <1>3, <1>4, Turns, RelayKeepsKey

\* Concurrent first requests make one key between them, and each fault leaves at most one more
\* behind (authority.ts accountRow).
THEOREM OneKeyAlways == Spec => []OneKey
<1>1. TypeOK /\ KeyInv => OneKey
  <2> SUFFICES ASSUME TypeOK, KeyInv PROVE OneKey
    OBVIOUS
  <2>1. faults \in Nat /\ Cardinality(keys) \in Nat
    BY FS_CardinalityType, BoundsAssumption DEF TypeOK, KeyInv
  <2> QED BY <2>1 DEF KeyInv, OneKey
<1> QED BY <1>1, TypesInit, TypesKept, KeyInvInit, KeyInvKept, PTL DEF Spec
=============================================================================
