-------------------------- MODULE EventLockProofs ---------------------------
(***************************************************************************)
(* Theorems about what the event's allocation lock protects in Relayed: an *)
(* approval's request from its check to its commit, and the sale terms a   *)
(* hold is placed on, for every number of requests.                        *)
(***************************************************************************)
EXTENDS RedemptionProofs

(* The requests that hold the event's allocation lock *)
Locks(c) == OuterTransaction(c) \/ call[c].pc \in {"choosing", "holdRead"}

LockInv == \A c, d \in Calls : Locks(c) /\ Locks(d) => c = d

\* Where a request that holds the event's lock can be
LEMMA OuterPcs ==
    ASSUME TypeOK, NEW c \in Calls
    PROVE  /\ EventLocked <=> \E d \in Calls : Locks(d)
           /\ OuterTransaction(c) => call[c].op = "approve"
           /\ call[c].pc \in {"idle", "begun", "lockWait", "done", "refused", "stopped"}
                 => ~Locks(c)
  BY DEF EventLocked, Locks, OuterTransaction, Running

\* Only the turns of sale terms take the event's lock without an approval.
LEMMA OtherPcs ==
    ASSUME TypeOK, NEW c \in Calls, RedeemTurn(c) \/ RaiseTurn(c) \/ SetupTurn(c)
    PROVE  call'[c].pc \notin {"choosing", "holdRead"}
               /\ call'[c].op \notin {"hold", "setSaleAsset", "defineClass"}
<1>0. call \in [Calls -> Request]
  BY DEF TypeOK
<1> USE DEF At, Arrives
<1>1. CASE RedeemTurn(c)
  <2>1. CASE CreateInvitation(c)
    BY <1>0, <1>1, <2>1, TurnOps DEF CreateInvitation, Idle
  <2>2. CASE Reserve(c) \/ ReserveFails(c)
    <3>1. call'[c].pc \in {"provision", "settle"}
      BY <1>0, <2>2 DEF Reserve, ReserveFails, Goto, Request
    <3> QED BY <1>1, <3>1, TurnOps
  <2>3. CASE ArriveToRedeem(c) \/ Claim(c) \/ BeginReservation(c) \/ CompleteIssuance(c)
               \/ Settle(c)
    BY <1>0, <1>1, <2>3, TurnOps, StartKeeps, GotoKeeps
       DEF ArriveToRedeem, Claim, BeginReservation, CompleteIssuance, Settle
  <2> QED BY <1>1, <2>1, <2>2, <2>3 DEF RedeemTurn, RedeemStep
<1>2. CASE RaiseTurn(c)
  <2>1. call'[c].pc \notin {"choosing", "holdRead"}
    BY <1>0, <1>2, StartKeeps, GotoKeeps
       DEF RaiseTurn, ArriveToApprove, ApproveStep, FindRequest, LockRequest, Decide,
          RequestIncrease, Reject
  <2> QED BY <1>2, <2>1, TurnOps
<1>3. CASE SetupTurn(c)
  <2>1. CASE ArriveToWrite(c)
    BY <1>0, <1>3, <2>1, TurnOps DEF ArriveToWrite, Idle, Writes
  <2>2. CASE SetupStep(c) \/ AddSeatPositions(c)
    BY <1>0, <1>3, <2>2, TurnOps, StartKeeps, GotoKeeps
       DEF SetupStep, NotSettled, LinkEvent, ForgetPositions, NothingFurther, AddSeatPositions,
          Writes
  <2> QED BY <1>3, <2>1, <2>2 DEF SetupTurn
<1> QED BY <1>1, <1>2, <1>3

\* A caller takes the event's lock only when nobody holds it (lockEvent).
LEMMA CallerLocks ==
    ASSUME TypeOK, NEW c \in Calls, CallerTurn(c)
    PROVE  Locks(c)' => Locks(c) \/ \A d \in Calls : ~Locks(d)
<1>0. call \in [Calls -> Request]
  BY DEF TypeOK
<1> USE DEF At, Arrives
<1>1. CASE RedeemTurn(c) \/ SetupTurn(c)
  <2>1. call'[c].op # "approve" /\ call'[c].pc \notin {"choosing", "holdRead"}
    BY <1>1, OtherPcs, TurnOps DEF Writes
  <2> QED BY <2>1 DEF Locks, OuterTransaction
<1>2. CASE RaiseTurn(c)
  <2>1. CASE LockRequest(c)
    BY <2>1, OuterPcs DEF LockRequest
  <2>2. CASE ArriveToApprove(c) \/ FindRequest(c) \/ Decide(c)
    BY <1>0, <2>2, StartKeeps, GotoKeeps DEF ArriveToApprove, FindRequest, Decide, Locks,
       OuterTransaction, Running
  <2>3. CASE RequestIncrease(c) \/ Reject(c)
    BY <1>0, <2>3, StartKeeps, GotoKeeps DEF RequestIncrease, Reject, Locks, OuterTransaction
  <2> QED BY <1>2, <2>1, <2>2, <2>3 DEF RaiseTurn, ApproveStep
<1>3. CASE TermsTurn(c)
  <2>1. CASE ClearPrices(c) \/ ReadTerms(c)
    <3>1. CASE EventLocked
      BY <2>1, <3>1 DEF ClearPrices, ReadTerms
    <3> QED BY <3>1, OuterPcs
  <2>2. call'[c].op # "approve"
    BY <1>3, TurnOps
  <2>3. CASE \/ ArriveToSetAsset(c) \/ ArriveToHold(c) \/ DefineClass(c) \/ SetPrice(c)
                  \/ RecordAtCreation(c)
             \/ BeginTerms(c) \/ ChooseAsset(c) \/ BeginHold(c) \/ PlaceHold(c)
    <3>1. call'[c].pc \in {"begun", "done", "termsWait", "holdWait"}
      BY <1>0, <2>3, StartKeeps, GotoKeeps
         DEF ArriveToSetAsset, ArriveToHold, DefineClass, SetPrice, RecordAtCreation, BeginTerms,
            ChooseAsset,
             BeginHold, PlaceHold
    <3> QED BY <2>2, <3>1 DEF Locks, OuterTransaction
  <2> QED BY <1>3, <2>1, <2>3 DEF TermsTurn, TermsStep
<1> QED BY <1>1, <1>2, <1>3 DEF CallerTurn

\* An approval keeps the event's lock through its relay.
LEMMA RelayLocks ==
    ASSUME TypeOK, NEW c \in Calls, RelayTurn(c)
    PROVE  Locks(c)' <=> Locks(c)
<1>1. RelayMove(c)
  BY RelayMoves DEF RelayTurn
<1> QED BY <1>1 DEF RelayMove, RelayPcs, Signing, Locks, OuterTransaction, Running

\* Nobody holds the event's lock at first.
LEMMA LockInvInit == Init => LockInv
<1> SUFFICES ASSUME Init PROVE LockInv
  OBVIOUS
<1>1. PICK there \in BOOLEAN : AuthorityInit(there)
  BY DEF Init
<1> QED BY <1>1 DEF AuthorityInit, Idle, LockInv, Locks, OuterTransaction

\* Every step keeps the event's lock exclusive.
LEMMA LockInvKept ==
    ASSUME TypeOK, LockInv, [Next]_vars
    PROVE  LockInv'
<1>1. CASE UNCHANGED vars \/ \E o \in Ops : Land(o) \/ RefuseOp(o)
  <2>1. UNCHANGED call
    BY <1>1, LedgerTypes DEF vars
  <2> QED BY <2>1 DEF LockInv, Locks, OuterTransaction, Running
<1>2. ASSUME NEW c \in Calls, RelayTurn(c) \/ CallerTurn(c) \/ StopTurn(c) PROVE LockInv'
  <2>1. /\ \A d \in Calls \ {c} : call'[d] = call[d]
        /\ Locks(c)' => Locks(c) \/ \A d \in Calls : ~Locks(d)
    <3>1. CASE RelayTurn(c)
      BY <3>1, RelayLocks, RelayMoves DEF RelayTurn, RelayMove
    <3>2. CASE CallerTurn(c)
      BY <3>2, CallerLocks, CallerMoves DEF CallerMove, TypeOK
    <3>3. CASE StopTurn(c)
      BY <3>3, StopEffect DEF Becomes, Locks, OuterTransaction, Running
    <3> QED BY <1>2, <3>1, <3>2, <3>3
  <2>2. \A d \in Calls \ {c} : Locks(d)' = Locks(d)
    BY <2>1 DEF Locks, OuterTransaction, Running
  <2> QED BY <2>1, <2>2 DEF LockInv
<1> QED BY <1>1, <1>2, Turns

(* -------------------------- raising the capacity ------------------------ *)
(* What an approval wrote is still undecided, or is the proof of the request it approved. *)
RaisedAt(c) ==
    call[c].op = "approve" /\ Write(c) \notin {"none", "refused"} =>
        OuterTransaction(c) \/ (requests[call[c].arg].status = "approved"
              /\ requests[call[c].arg].proof = c)

RaiseInv ==
    /\ \A c \in Calls : OuterTransaction(c) => requests[call[c].arg].status = "pending"
    /\ \A c \in Calls : requests[c].status # "none" => call[c].op = "request" /\ call[c].pc = "done"
    /\ faults = 0 => \A c \in Calls : call[c].pc # "stopped" /\ call[c].verdict # "failed"
          /\ RaisedAt(c)

\* No approval is under way at first.
LEMMA RaiseInvInit == Init => RaiseInv
<1> SUFFICES ASSUME Init PROVE RaiseInv
  OBVIOUS
<1>1. PICK there \in BOOLEAN : AuthorityInit(there) /\ ProofInit(there)
  BY DEF Init
<1>2. \A c \in Calls : c \in Rows /\ c # 0
  BY DEF Calls, Rows
<1> QED BY <1>1, <1>2 DEF AuthorityInit, ProofInit, Idle, RaiseInv, RaisedAt, OuterTransaction

\* What a step of another request leaves of an approval, when no request is decided
LEMMA OthersRaise ==
    ASSUME TypeOK, RelayInv, RaiseInv, [Next]_vars, NEW c \in Calls, UNCHANGED requests,
           call'[c] = call[c],
           faults' = 0 => faults = 0
    PROVE  /\ OuterTransaction(c)' => requests'[call'[c].arg].status = "pending"
           /\ requests'[c].status # "none" => call'[c].op = "request" /\ call'[c].pc = "done"
           /\ faults' = 0 => call'[c].pc # "stopped" /\ call'[c].verdict # "failed" /\ RaisedAt(c)'
<1>1. OuterTransaction(c)' = OuterTransaction(c)
  BY DEF OuterTransaction, Running
<1>2. ASSUME faults' = 0 PROVE call'[c].pc # "stopped" /\ call'[c].verdict # "failed"
               /\ RaisedAt(c)'
  <2>1. RaisedAt(c) /\ call[c].pc # "stopped" /\ call[c].verdict # "failed"
    BY <1>2 DEF RaiseInv
  <2>2. \/ Write(c)' = Write(c) \/ (Write(c) = "none" /\ call[c].pc = "submit")
        \/ (Write(c) = "sent" /\ Write(c)' \in {"landed", "refused"})
    BY Writings
  <2> QED BY <1>1, <2>1, <2>2 DEF RaisedAt, OuterTransaction, Running
<1> QED BY <1>1, <1>2 DEF RaiseInv

\* A step that decides no request keeps the invariant, if it keeps what it says of its own request.
LEMMA OwnRaise ==
    ASSUME TypeOK, RelayInv, RaiseInv, [Next]_vars, NEW c \in Calls, UNCHANGED requests,
           \A d \in Calls \ {c} : call'[d] = call[d], faults' = 0 => faults = 0,
           OuterTransaction(c)' => requests[call'[c].arg].status = "pending",
           requests[c].status # "none" => call'[c].op = call[c].op /\ call'[c].pc = call[c].pc,
           faults' = 0 => call'[c].pc # "stopped" /\ call'[c].verdict # "failed" /\ RaisedAt(c)'
    PROVE  RaiseInv'
<1>1. \A d \in Calls \ {c} :
           /\ OuterTransaction(d)' => requests'[call'[d].arg].status = "pending"
           /\ requests'[d].status # "none" => call'[d].op = "request" /\ call'[d].pc = "done"
           /\ faults' = 0 => call'[d].pc # "stopped" /\ call'[d].verdict # "failed" /\ RaisedAt(d)'
  BY OthersRaise
<1> QED BY <1>1 DEF RaiseInv

\* Faults are counted one at a time, and never forgotten.
LEMMA FaultsGrow ==
    ASSUME TypeOK, [Next]_vars
    PROVE  faults \in Nat /\ faults' \in {faults, faults + 1}
<1>1. ASSUME NEW c \in Calls, RelayTurn(c) PROVE faults' \in {faults, faults + 1}
  BY <1>1 DEF RelayTurn, RelayStep, ReadAccount, LockOrganiser, CreateKey, InsertAccount,
     SignRegistration, Record, Submit,
              Observe, Complete, MarkRegistered, Lose, CompleteFails
<1>2. ASSUME NEW c \in Calls, CallerTurn(c) \/ StopTurn(c) PROVE faults' \in {faults, faults + 1}
  BY <1>2, CallerFaults, StopEffect
<1>3. faults \in Nat
  BY BoundsAssumption DEF TypeOK
<1> QED BY <1>1, <1>2, <1>3, Turns, LedgerTypes DEF vars

\* The relay of an approval, and of any other request
LEMMA RelayKeepsRaise ==
    ASSUME TypeOK, RelayInv, KeyInv, RaiseInv, [Next]_vars, NEW c \in Calls, RelayTurn(c)
    PROVE  RaiseInv'
<1>1. RelayMove(c) /\ UNCHANGED requests /\ (OuterTransaction(c)' <=> OuterTransaction(c))
  <2>1. RelayMove(c)
    BY RelayMoves DEF RelayTurn
  <2> QED BY <2>1 DEF RelayTurn, RelayMove, RelayPcs, Signing, OuterTransaction, Running
<1>2. ASSUME faults' = 0 PROVE faults = 0 /\ call'[c].pc # "stopped"
               /\ call'[c].verdict # "failed" /\ RaisedAt(c)'
  <2>1. faults = 0 /\ faults' = faults
    BY <1>2, FaultsGrow
  <2>2. call[c].verdict # "failed" /\ RaisedAt(c)
    BY <2>1 DEF RaiseInv
  <2>3. call'[c].verdict # "failed"
    BY <1>1, <2>1, <2>2, FaultsGrow DEF RelayMove, KeyInv
  <2>4. /\ call[c].op = "approve" => OuterTransaction(c)
        /\ call'[c].pc # "stopped"
    BY <1>1 DEF RelayMove, RelayPcs, Signing, OuterTransaction, Running
  <2> QED BY <1>1, <2>1, <2>3, <2>4 DEF RaisedAt, RelayMove
<1>3. requests[c].status = "none"
  BY <1>1 DEF RaiseInv, RelayMove, RelayPcs, Signing
<1>4. OuterTransaction(c)' => requests[call'[c].arg].status = "pending"
  BY <1>1 DEF RaiseInv, RelayMove
<1> QED BY <1>1, <1>2, <1>3, <1>4, OwnRaise DEF RelayMove

\* The callers that neither ask for capacity nor decide a request
LEMMA CallerKeepsRaise ==
    ASSUME TypeOK, RelayInv, RaiseInv, [Next]_vars, NEW c \in Calls, RedeemTurn(c)
               \/ SetupTurn(c) \/ TermsTurn(c)
    PROVE  RaiseInv'
<1>1. CallerMove(c) /\ UNCHANGED requests
  BY CallerMoves DEF TypeOK, CallerTurn, RedeemTurn, SetupTurn, TermsTurn
<1>2. call'[c].op \notin {"approve", "request"}
  BY TurnOps DEF Writes
<1>3. call[c].pc # "idle" => call'[c].op = call[c].op
  BY <1>1 DEF CallerMove
<1>4. requests[c].status = "none"
  BY <1>2, <1>3 DEF RaiseInv
<1>5. ASSUME faults' = 0 PROVE faults = 0 /\ call'[c].pc # "stopped"
               /\ call'[c].verdict # "failed" /\ RaisedAt(c)'
  <2>1. faults = 0 /\ faults' = faults
    BY <1>5, FaultsGrow
  <2>2. call'[c].pc # "stopped" /\ call'[c].verdict # "failed"
    <3>1. call[c].pc # "stopped" /\ call[c].verdict # "failed"
      BY <2>1 DEF RaiseInv
    <3> QED BY <1>1, <2>1, <3>1, FaultsGrow DEF CallerMove, BeforeRelay
  <2> QED BY <1>2, <2>1, <2>2 DEF RaisedAt
<1> QED BY <1>1, <1>2, <1>4, <1>5, OwnRaise DEF CallerMove, OuterTransaction

\* A step that decides or stores one request, with no approval of another at stake
LEMMA DecidingRaise ==
    ASSUME TypeOK, RelayInv, RaiseInv, [Next]_vars, NEW c \in Calls, NEW r \in Rows,
           \A d \in Calls \ {c} : call'[d] = call[d], faults' = faults,
           \A q \in Rows \ {r} : requests'[q] = requests[q],
           requests[r].status # "approved",
           ~OuterTransaction(c)',
           \A d \in Calls \ {c} : OuterTransaction(d) => call[d].arg # r,
           requests[c].status # "none" => call'[c] = call[c],
           r = c => requests'[r].status = "none" \/ (call'[c].op = "request"
                 /\ call'[c].pc = "done"),
           r # c => requests[r].status # "none" \/ requests'[r].status = "none",
           faults = 0 => call'[c].pc # "stopped" /\ call'[c].verdict # "failed" /\ RaisedAt(c)'
    PROVE  RaiseInv'
<1>1. ASSUME NEW d \in Calls, d # c
      PROVE  /\ OuterTransaction(d)' => requests'[call'[d].arg].status = "pending"
             /\ requests'[d].status # "none" => call'[d].op = "request" /\ call'[d].pc = "done"
             /\ faults' = 0 => call'[d].pc # "stopped" /\ call'[d].verdict # "failed"
                   /\ RaisedAt(d)'
  <2>1. call'[d] = call[d] /\ (OuterTransaction(d)' <=> OuterTransaction(d)) /\ d \in Rows
    BY <1>1 DEF OuterTransaction, Running, Calls, Rows
  <2>2. OuterTransaction(d) => call[d].arg \in Rows \ {r}
    BY <1>1 DEF OuterTransaction, TypeOK, Asked, ArgOf
  <2>3. OuterTransaction(d)' => requests'[call'[d].arg].status = "pending"
    BY <2>1, <2>2 DEF RaiseInv
  <2>4. requests'[d].status # "none" => call'[d].op = "request" /\ call'[d].pc = "done"
    <3>1. CASE d = r
      BY <1>1, <2>1, <3>1 DEF RaiseInv
    <3>2. CASE d # r
      BY <2>1, <3>2 DEF RaiseInv
    <3> QED BY <3>1, <3>2
  <2>5. ASSUME faults' = 0 PROVE RaisedAt(d)'
    <3>1. RaisedAt(d)
      BY <2>5 DEF RaiseInv
    <3>2. \/ Write(d)' = Write(d) \/ (Write(d) = "none" /\ call[d].pc = "submit")
          \/ (Write(d) = "sent" /\ Write(d)' \in {"landed", "refused"})
      BY Writings
    <3>3. call[d].op = "approve" => call[d].arg \in Rows
      BY DEF TypeOK, Asked, ArgOf
    <3>4. call[d].op = "approve" /\ call[d].pc = "submit" => OuterTransaction(d)
      BY DEF OuterTransaction, Running
    <3> QED BY <2>1, <3>1, <3>2, <3>3, <3>4 DEF RaisedAt
  <2> QED BY <2>1, <2>3, <2>4, <2>5 DEF RaiseInv
<1>2. c \in Rows
  BY DEF Calls, Rows
<1>3. requests'[c].status # "none" => call'[c].op = "request" /\ call'[c].pc = "done"
  BY <1>2 DEF RaiseInv
<1> QED BY <1>1, <1>3 DEF RaiseInv

\* Requests, approvals, rejections: the row is checked and decided under one lock (approve, reject).
LEMMA RaiseKeepsRaise ==
    ASSUME TypeOK, RelayInv, LockInv, RaiseInv, [Next]_vars, NEW c \in Calls, RaiseTurn(c)
    PROVE  RaiseInv'
<1>0. /\ call \in [Calls -> Request] /\ RequestTypes /\ c \in Rows /\ c # None
      /\ CallerMove(c) /\ UNCHANGED ledger /\ faults' = faults
  BY CallerMoves, RaiseTypes, CurrentIsOp, BoundsAssumption
     DEF TypeOK, CallerTurn, authorityVars, Calls
<1>1. Write(c)' = Write(c) /\ (faults = 0 => call[c].pc # "stopped"
        /\ call[c].verdict # "failed" /\ RaisedAt(c))
      /\ \A d \in Calls \ {c} : call'[d] = call[d]
  BY <1>0 DEF Write, RaiseInv, CallerMove
<1>2. faults = 0 => call'[c].pc # "stopped" /\ call'[c].verdict # "failed"
  <2>1. faults \in Nat
    BY FaultsGrow
  <2> QED BY <1>0, <1>1, <2>1 DEF CallerMove, BeforeRelay
<1> USE DEF At, Arrives
<1>3. CASE ArriveToApprove(c) \/ FindRequest(c) \/ LockRequest(c)
  <2>1. /\ call[c].pc \in Early /\ UNCHANGED requests /\ call[c].pc # "done" 
        /\ OuterTransaction(c)' => requests[call'[c].arg].status = "pending"
    BY <1>0, <1>3, StartKeeps, GotoKeeps DEF ArriveToApprove, FindRequest, LockRequest, Early,
       OuterTransaction, Running
  <2>2. Write(c)' = "none"
    BY <1>1, <2>1, IdleWroteNothing
  <2> QED BY <1>0, <1>1, <1>2, <2>1, <2>2, OwnRaise DEF RaiseInv, RaisedAt
<1>4. CASE Decide(c)
  <2> DEFINE r == call[c].arg
  <2>1. /\ call[c].op = "approve" /\ call[c].pc = "after" /\ call'[c].op = "approve"
             /\ call'[c].arg = r
        /\ call'[c].pc \in {"done", "refused"} /\ OuterTransaction(c)
    BY <1>0, <1>4, GotoKeeps DEF Decide, OuterTransaction, Running
  <2>2. r \in Rows /\ requests[r].status = "pending" /\ ~OuterTransaction(c)'
          /\ requests[c].status = "none"
    BY <2>1 DEF TypeOK, Asked, ArgOf, RaiseInv, OuterTransaction, Running
  <2>3. CASE call[c].verdict = "landed"
    <3>1. requests' = [requests EXCEPT ![r] = [status |-> "approved", proof |-> c]]
      BY <1>4, <2>3 DEF Decide
    <3>2. RaisedAt(c)' /\ r # c /\ \A q \in Rows \ {r} : requests'[q] = requests[q]
      BY <1>0, <2>1, <2>2, <3>1 DEF RaisedAt, RequestTypes
    <3>3. \A d \in Calls \ {c} : ~OuterTransaction(d)
      BY <2>1 DEF LockInv, Locks
    <3> HIDE DEF r
    <3> QED BY <1>0, <1>1, <1>2, <2>1, <2>2, <3>2, <3>3, DecidingRaise
  <2>4. CASE call[c].verdict # "landed"
    <3>1. UNCHANGED requests /\ (faults = 0 => Write(c) \in {"none", "refused"})
      BY <1>1, <1>4, <2>1, <2>4, VerdictTold DEF Decide, Verdicts
    <3> QED BY <1>0, <1>1, <1>2, <2>2, <3>1, OwnRaise DEF RaisedAt
  <2> QED BY <2>3, <2>4
<1>5. CASE RequestIncrease(c) \/ Reject(c)
  <2>1. call'[c].op \in {"request", "reject"} /\ RaisedAt(c)' /\ ~OuterTransaction(c)'
    BY <1>0, <1>5, StartKeeps, GotoKeeps DEF RequestIncrease, Reject, RaisedAt, OuterTransaction
  <2>2. requests[c].status = "none"
    BY <1>5 DEF RequestIncrease, Reject, RaiseInv
  <2>3. CASE UNCHANGED requests
    BY <1>0, <1>1, <1>2, <2>1, <2>2, <2>3, OwnRaise
  <2>4. CASE At(c, "request", "stored") /\ requests' = [requests EXCEPT ![c].status = "pending"]
               /\ Goto(c, "done")
    <3>1. /\ call'[c].op = "request" /\ call'[c].pc = "done"
               /\ \A q \in Rows \ {c} : requests'[q] = requests[q]
          /\ \A d \in Calls : OuterTransaction(d) => call[d].arg # c
      BY <1>0, <2>2, <2>4, GotoKeeps DEF RequestTypes, RaiseInv
    <3> QED BY <1>0, <1>1, <1>2, <2>1, <2>2, <3>1, DecidingRaise
  <2>5. CASE /\ At(c, "reject", "rejectWait") /\ ~RowLocked(c, call[c].arg)
                  /\ requests[call[c].arg].status = "pending"
             /\ requests' = [requests EXCEPT ![call[c].arg].status = "rejected"] /\ Goto(c, "done")
    <3> DEFINE r == call[c].arg
    <3>1. /\ r \in Rows /\ r # c /\ \A q \in Rows \ {r} : requests'[q] = requests[q]
          /\ \A d \in Calls \ {c} : OuterTransaction(d) => call[d].arg # r
      BY <1>0, <2>2, <2>5 DEF RequestTypes, TypeOK, Asked, ArgOf, RowLocked
    <3>2. requests[r].status = "pending"
      BY <2>5
    <3> HIDE DEF r
    <3> QED BY <1>0, <1>1, <1>2, <2>1, <2>2, <3>1, <3>2, DecidingRaise
  <2> QED BY <1>5, <2>3, <2>4, <2>5 DEF RequestIncrease, Reject
<1> QED BY <1>3, <1>4, <1>5 DEF RaiseTurn, ApproveStep

\* Every step keeps what an approval wrote undecided, or recorded as its request's proof.
LEMMA RaiseInvKept ==
    ASSUME TypeOK, RelayInv, KeyInv, LockInv, RaiseInv, [Next]_vars
    PROVE  RaiseInv'
<1>1. ASSUME NEW c \in Calls, StopTurn(c) PROVE RaiseInv'
  <2>1. /\ Becomes(c, call[c].op, "stopped", call[c].stage, call[c].key, call[c].verdict,
             call[c].arg)
        /\ faults' = faults + 1 /\ UNCHANGED requests /\ Running(c)
    BY <1>1, StopEffect DEF StopTurn, Stop
  <2>2. faults \in Nat /\ faults' # 0
    BY <2>1, FaultsGrow
  <2>3. requests[c].status = "none"
    BY <2>1 DEF RaiseInv, Running
  <2> QED BY <2>1, <2>2, <2>3, OwnRaise DEF Becomes, OuterTransaction, Running
<1>2. CASE UNCHANGED vars \/ \E o \in Ops : Land(o) \/ RefuseOp(o)
  <2>1. UNCHANGED <<call, requests, faults>>
    BY <1>2, LedgerTypes DEF vars
  <2> QED BY <2>1, OthersRaise DEF RaiseInv
<1> QED BY <1>1, <1>2, Turns, RelayKeepsRaise, CallerKeepsRaise, RaiseKeepsRaise DEF CallerTurn

\* Unless something was lost, a request raises the capacity at most once, and never once rejected,
\* for any number of approvals and rejections (proofs/service.ts approve, reject).
THEOREM RaisedOnceAlways == Spec => []RaisedOnce
<1>1. TypeOK /\ LockInv /\ RaiseInv => RaisedOnce
  <2> SUFFICES ASSUME TypeOK, LockInv, RaiseInv, faults = 0, NEW r \in Rows
               PROVE  LET raised == {c \in Approvals(r) : Write(c) = "landed"} IN
                      /\ Cardinality(raised) <= 1
                      /\ requests[r].status = "rejected" => raised = {}
    BY DEF RaisedOnce
  <2> DEFINE raised == {c \in Approvals(r) : Write(c) = "landed"}
  <2>1. ASSUME NEW c \in raised
        PROVE  \/ OuterTransaction(c) /\ requests[r].status = "pending"
               \/ requests[r].status = "approved" /\ requests[r].proof = c
    BY DEF Approvals, RaiseInv, RaisedAt
  <2>2. \A c, d \in raised : c = d
    <3>1. ASSUME NEW c \in raised, NEW d \in raised PROVE c = d
      <4>1. c \in Calls /\ d \in Calls
        BY DEF Approvals
      <4> HIDE DEF raised
      <4> QED BY <2>1, <4>1 DEF LockInv, Locks
    <3> QED BY <3>1
  <2>3. Cardinality(raised) <= 1
    <3>1. CASE raised = {}
      BY <3>1, FS_EmptySet
    <3>2. CASE raised # {}
      <4>1. PICK c : raised = {c}
        <5> HIDE DEF raised
        <5> QED BY <2>2, <3>2
      <4> HIDE DEF raised
      <4> QED BY <4>1, FS_Singleton
    <3> QED BY <3>1, <3>2
  <2>4. requests[r].status = "rejected" => raised = {}
    <3> HIDE DEF raised
    <3> QED BY <2>1
  <2> QED BY <2>3, <2>4
<1> QED BY <1>1, TypesInit, TypesKept, RelayInvInit, RelayInvKept, KeyInvInit, KeyInvKept,
   LockInvInit, LockInvKept,
           RaiseInvInit, RaiseInvKept, PTL DEF Spec

(* ------------------------------- the terms ------------------------------ *)
(* No asset is chosen while a class is defined or the event is created. *)
TermsApart ==
    \A m \in Mixes : \A c, d \in Calls :
        "setSaleAsset" \in m[c] => "defineClass" \notin m[d] /\ "createEvent" \notin m[1]

Defined == {r \in Rows : classes[r].st = "defined"}

TermsAt(c) ==
    /\ call[c].op # "none" => call[c].op \in mix[c]
    /\ call[c].pc = "choosing" =>
         call[c].op = "setSaleAsset" /\ ~HasHadHold /\ (saleAsset # None
               => Defined \subseteq clearing)
    /\ call[c].op = "hold" => call[c].arg \in Defined
    /\ call[c].pc = "holdRead" \/ holds[c].st = "placed" =>
         saleAsset # None /\ holds[c].asset = saleAsset /\ holds[c].in \in {None, saleAsset}

TermsInv ==
    /\ mix \in Mixes
    /\ \A r \in Defined : classes[r].priced => classes[r].in \in {None, saleAsset}
    /\ \A c \in Calls : TermsAt(c)
    /\ "createEvent" \in mix[1] => saleAsset = None \/ (call[1].op = "createEvent"
          /\ call[1].pc = "done")

\* The first terms: no asset, or one with every price set in it.
LEMMA TermsInvInit == Init => TermsInv
<1> SUFFICES ASSUME Init PROVE TermsInv
  OBVIOUS
<1> DEFINE there == "createEvent" \notin mix[1]
<1>1. PICK stocked \in BOOLEAN : AuthorityInit(there) /\ TermsInit(there, stocked)
  BY DEF Init
<1>2. mix \in Mixes
  BY DEF Init
<1>3. \A c \in Calls : call[c].op = "none" /\ call[c].pc = "idle" /\ holds[c].st = "none"
  BY <1>1 DEF AuthorityInit, Idle, TermsInit, NoHold
<1>4. \A r \in Defined : classes[r].in = saleAsset
  BY <1>1 DEF TermsInit, NoClass, Defined
<1>5. "createEvent" \in mix[1] => saleAsset = None
  BY <1>1 DEF TermsInit
<1> QED BY <1>2, <1>3, <1>4, <1>5 DEF TermsInv, TermsAt

\* Every turn but those of the sale terms
LEMMA OthersKeepTerms ==
    ASSUME TypeOK, TermsInv, NEW c \in Calls, UNCHANGED <<mix, termsVars>>,
           \A d \in Calls \ {c} : call'[d] = call[d],
           call'[c].pc \notin {"choosing", "holdRead"},
           call'[c].op = "hold" => call[c].op = "hold" /\ call'[c].arg = call[c].arg,
           call'[c].op = call[c].op \/ call'[c].op \in mix[c],
           call[c].pc = "done" => call'[c].pc = "done" /\ call'[c].op = call[c].op
    PROVE  TermsInv'
<1> USE DEF termsVars
<1>1. HasHadHold' = HasHadHold /\ Defined' = Defined
  BY DEF HasHadHold, Defined
<1>2. ASSUME NEW d \in Calls PROVE TermsAt(d)'
  <2>1. TermsAt(d)
    BY DEF TermsInv
  <2>2. CASE d # c
    BY <1>1, <2>1, <2>2 DEF TermsAt
  <2>3. CASE d = c
    BY <1>1, <2>1, <2>3 DEF TermsAt
  <2> QED BY <2>2, <2>3
<1>3. 1 \in Calls
  BY BoundsAssumption DEF Calls
<1>4. call[1].op = "createEvent" /\ call[1].pc = "done" => call'[1].op = "createEvent"
        /\ call'[1].pc = "done"
  BY <1>3
<1> QED BY <1>1, <1>2, <1>4 DEF TermsInv

\* A turn that leaves the asset, the holds and which classes are defined, but not their prices
LEMMA PricesKeepTerms ==
    ASSUME TypeOK, TermsInv, NEW c \in Calls, UNCHANGED <<mix, saleAsset, clearing, holds>>,
           Defined' = Defined,
           \A r \in Defined : classes'[r].priced =>
               (classes[r].priced /\ classes'[r].in = classes[r].in) \/ classes'[r].in = saleAsset,
           \A d \in Calls \ {c} : call'[d] = call[d],
           call'[c].pc \notin {"choosing", "holdRead"},
           call'[c].op = "hold" => call'[c].arg \in Defined,
           call'[c].op = call[c].op \/ call'[c].op \in mix[c],
           call[c].pc # "done"
    PROVE  TermsInv'
<1>1. HasHadHold' = HasHadHold
  BY DEF HasHadHold
<1>2. ASSUME NEW d \in Calls PROVE TermsAt(d)'
  <2>1. TermsAt(d)
    BY DEF TermsInv
  <2>2. CASE d # c
    BY <1>1, <2>1, <2>2 DEF TermsAt
  <2>3. CASE d = c
    BY <1>1, <2>1, <2>3 DEF TermsAt
  <2> QED BY <2>2, <2>3
<1>3. ASSUME NEW r \in Defined, classes'[r].priced PROVE classes'[r].in \in {None, saleAsset'}
  BY <1>3 DEF TermsInv
<1> QED BY <1>2, <1>3, BoundsAssumption DEF TermsInv, Calls

\* The turns of the sale terms (sale-assets.ts set, classes.ts setPrice, allocation.ts saleTerms)
LEMMA TermsKeepTerms ==
    ASSUME TermsApart, TypeOK, LockInv, TermsInv, NEW c \in Calls, TermsTurn(c), UNCHANGED mix
    PROVE  TermsInv'
<1>0. /\ call \in [Calls -> Request] /\ TermsTypes /\ c \in Rows /\ CallerMove(c)
           /\ call[c].pc # "done" /\ 1 \in Calls
  BY BoundsAssumption, CallerMoves, CurrentIsOp DEF TypeOK, CallerTurn, CallerMove, BeforeRelay,
     Calls
<1>1. /\ \A d \in Calls \ {c} : call'[d] = call[d]
      /\ \A d \in Calls : TermsAt(d)
      /\ call'[c].op \in mix[c] \/ call'[c].op = call[c].op
  BY <1>0 DEF CallerMove, TermsInv
<1> USE DEF At, Arrives, termsVars
<1>2. CASE \/ ArriveToSetAsset(c) \/ BeginTerms(c) \/ ArriveToHold(c) \/ BeginHold(c)
           \/ ((DefineClass(c) \/ SetPrice(c)) /\ call[c].pc = "idle")
  <2>1. /\ UNCHANGED termsVars /\ call'[c].pc \in {"begun", "termsWait", "holdWait"}
        /\ call'[c].op = "hold" => call'[c].arg \in Defined
    BY <1>0, <1>1, <1>2, StartKeeps, GotoKeeps
       DEF ArriveToSetAsset, BeginTerms, ArriveToHold, BeginHold, DefineClass, SetPrice, TermsAt,
          Defined
  <2>2. Defined' = Defined
    BY <2>1 DEF Defined
  <2> QED BY <1>0, <1>1, <2>1, <2>2, PricesKeepTerms
<1>3. CASE SetPrice(c) /\ call[c].pc = "begun"
  <2> DEFINE q == call[c].arg
  <2>1. /\ classes' = [classes EXCEPT ![q].priced = TRUE, ![q].in = saleAsset] /\ q \in Rows
        /\ UNCHANGED <<saleAsset, clearing, holds>> /\ call'[c].pc = "done"
              /\ call'[c].op = "setClassPrice"
    BY <1>0, <1>3, GotoKeeps DEF SetPrice, TypeOK, Asked, ArgOf
  <2> HIDE DEF q
  <2>2. /\ \A r \in Rows : classes'[r].st = classes[r].st
        /\ \A r \in Rows \ {q} : classes'[r] = classes[r]
        /\ classes'[q].in = saleAsset
    BY <1>0, <2>1 DEF TermsTypes, Class
  <2>3. Defined' = Defined
    BY <2>2 DEF Defined
  <2>4. \A r \in Defined : classes'[r].priced =>
            (classes[r].priced /\ classes'[r].in = classes[r].in) \/ classes'[r].in = saleAsset
    BY <2>2 DEF Defined
  <2> QED BY <1>0, <1>1, <2>1, <2>3, <2>4, PricesKeepTerms
<1>4. CASE ReadTerms(c) \/ PlaceHold(c)
  <2>1. CASE ReadTerms(c) /\ ~OnSale
    <3>1. UNCHANGED termsVars /\ call'[c].pc = "refused" /\ call'[c].op = "hold"
            /\ call[c].op = "hold" /\ call'[c].arg = call[c].arg
      BY <1>0, <2>1, GotoKeeps DEF ReadTerms
    <3> QED BY <1>0, <1>1, <3>1, OthersKeepTerms
  <2>2. CASE (ReadTerms(c) /\ OnSale) \/ PlaceHold(c)
    <3>1. /\ UNCHANGED <<saleAsset, classes, clearing>>
               /\ \A d \in Calls \ {c} : holds'[d] = holds[d]
          /\ call[c].op = "hold" /\ call'[c].op = "hold" /\ call'[c].arg = call[c].arg
                /\ call'[c].pc \in {"holdRead", "done"}
          /\ \A d \in Calls : call[d].pc # "choosing"
          /\ saleAsset # None /\ holds'[c].asset = saleAsset /\ holds'[c].in \in {None, saleAsset}
      <4>1. CASE ReadTerms(c) /\ OnSale
        <5>1. /\ holds' = [holds EXCEPT ![c] = [st |-> "read", asset |-> saleAsset,
                   in |-> classes[call[c].arg].in]]
              /\ ~EventLocked /\ saleAsset # None /\ call[c].op = "hold"
                    /\ UNCHANGED <<saleAsset, classes, clearing>>
              /\ call'[c].pc = "holdRead" /\ call'[c].op = "hold" /\ call'[c].arg = call[c].arg
          BY <1>0, <4>1, GotoKeeps DEF ReadTerms, OnSale
        <5>2. call[c].arg \in Defined /\ classes[call[c].arg].priced
          BY <1>1, <4>1, <5>1 DEF TermsAt, OnSale, Defined
        <5>3. classes[call[c].arg].in \in {None, saleAsset}
          BY <5>2 DEF TermsInv
        <5> QED BY <1>0, <5>1, <5>3 DEF EventLocked, TermsTypes
      <4>2. CASE PlaceHold(c)
        <5>1. /\ holds' = [holds EXCEPT ![c].st = "placed"] /\ call[c].pc = "holdRead"
                   /\ call[c].op = "hold"
              /\ call'[c].pc = "done" /\ call'[c].op = "hold" /\ call'[c].arg = call[c].arg
              /\ UNCHANGED <<saleAsset, classes, clearing>>
          BY <1>0, <4>2, GotoKeeps DEF PlaceHold
        <5>2. \A d \in Calls : call[d].pc # "choosing"
          BY <5>1 DEF LockInv, Locks
        <5> QED BY <1>0, <1>1, <5>1, <5>2 DEF TermsAt, TermsTypes, Hold
      <4> QED BY <2>2, <4>1, <4>2
    <3>2. Defined' = Defined
      BY <3>1 DEF Defined
    <3>3. ASSUME NEW d \in Calls, d # c PROVE TermsAt(d)'
      BY <1>1, <3>1, <3>2, <3>3 DEF TermsAt
    <3>4. TermsAt(c)'
      BY <1>1, <3>1, <3>2 DEF TermsAt
    <3> QED BY <1>0, <1>1, <3>1, <3>2, <3>3, <3>4 DEF TermsInv
  <2> QED BY <1>4, <2>1, <2>2
<1>5. CASE DefineClass(c) /\ call[c].pc = "begun"
  <2>1. /\ classes' = [classes EXCEPT ![c] = [st |-> "defined", priced |-> TRUE, in |-> saleAsset]]
        /\ UNCHANGED <<saleAsset, clearing, holds>> /\ call'[c].pc = "done"
              /\ call[c].op = "defineClass"
        /\ call'[c].op = "defineClass"
    BY <1>0, <1>5, GotoKeeps DEF DefineClass
  <2>2. /\ \A r \in Rows \ {c} : classes'[r] = classes[r]
        /\ classes'[c].st = "defined" /\ classes'[c].in = saleAsset
    BY <1>0, <2>1 DEF TermsTypes, Class
  <2>3. Defined \subseteq Defined' /\ HasHadHold' = HasHadHold
    BY <2>1, <2>2 DEF Defined, HasHadHold
  <2>4. ASSUME NEW d \in Calls PROVE call[d].pc # "choosing"
    <3>1. "defineClass" \in mix[c] /\ mix \in Mixes
      BY <1>1, <2>1 DEF TermsAt, TermsInv
    <3>2. call[d].pc = "choosing" => "setSaleAsset" \in mix[d]
      BY <1>1 DEF TermsAt
    <3> QED BY <3>1, <3>2 DEF TermsApart
  <2>5. ASSUME NEW d \in Calls PROVE TermsAt(d)'
    <3>1. CASE d # c
      BY <1>1, <2>1, <2>3, <2>4, <3>1 DEF TermsAt
    <3>2. CASE d = c
      BY <1>1, <2>1, <2>3, <3>2 DEF TermsAt
    <3> QED BY <3>1, <3>2
  <2>6. \A r \in Defined' : classes'[r].priced => classes'[r].in \in {None, saleAsset'}
    BY <2>1, <2>2 DEF TermsInv, Defined
  <2> QED BY <1>0, <1>1, <2>1, <2>5, <2>6 DEF TermsInv
<1>6. CASE ClearPrices(c)
  <2>1. /\ UNCHANGED <<saleAsset, classes, holds>> /\ ~EventLocked
             /\ call[c].op = "setSaleAsset" /\ call'[c].op = "setSaleAsset"
        /\ \/ call'[c].pc \in {"done", "refused"} /\ UNCHANGED clearing
           \/ call'[c].pc = "choosing" /\ ~HasHadHold /\ (saleAsset # None => clearing' = Defined)
    BY <1>0, <1>6, GotoKeeps DEF ClearPrices, Defined
  <2>2. Defined' = Defined /\ HasHadHold' = HasHadHold /\ \A d \in Calls : call[d].pc # "choosing"
    BY <2>1 DEF Defined, HasHadHold, EventLocked
  <2>3. ASSUME NEW d \in Calls PROVE TermsAt(d)'
    <3>1. CASE d # c
      BY <1>1, <2>1, <2>2, <3>1 DEF TermsAt
    <3>2. CASE d = c
      BY <1>1, <2>1, <2>2, <3>2 DEF TermsAt
    <3> QED BY <3>1, <3>2
  <2> QED BY <1>0, <1>1, <2>1, <2>2, <2>3 DEF TermsInv
<1>7. CASE ChooseAsset(c)
  <2>1. /\ saleAsset' = call[c].arg /\ saleAsset' \in SaleAssets /\ UNCHANGED <<clearing, holds>>
        /\ classes' = [r \in Rows |-> IF r \in clearing THEN [classes[r] EXCEPT !.priced = FALSE]
                                      ELSE classes[r]]
        /\ call[c].pc = "choosing" /\ call[c].op = "setSaleAsset"
              /\ call'[c].op = "setSaleAsset" /\ call'[c].pc = "done"
    BY <1>0, <1>7, GotoKeeps DEF ChooseAsset, TypeOK, Asked, ArgOf
  <2>2. ASSUME NEW r \in Rows
        PROVE  /\ classes'[r].st = classes[r].st /\ classes'[r].in = classes[r].in
               /\ r \in clearing => classes'[r].priced = FALSE
               /\ classes'[r].priced => classes[r].priced
    <3>1. classes[r] \in Class
      BY <1>0 DEF TermsTypes
    <3>2. CASE r \in clearing
      BY <2>1, <3>1, <3>2 DEF Class
    <3>3. CASE r \notin clearing
      BY <2>1, <3>1, <3>3 DEF Class
    <3> QED BY <3>2, <3>3
  <2>3. /\ Defined' = Defined /\ HasHadHold' = HasHadHold
        /\ ~HasHadHold /\ (saleAsset # None => Defined \subseteq clearing)
              /\ "setSaleAsset" \in mix[c]
    BY <1>1, <2>1, <2>2 DEF Defined, HasHadHold, TermsAt
  <2>4. ASSUME NEW r \in Defined, classes'[r].priced PROVE classes'[r].in = None
    BY <2>2, <2>3, <2>4 DEF TermsInv, Defined
  <2>5. ASSUME NEW d \in Calls PROVE TermsAt(d)'
    <3>1. d # c => call[d].pc \notin {"choosing", "holdRead"}
      BY <2>1 DEF LockInv, Locks
    <3>2. holds[d].st # "placed"
      BY <2>3 DEF HasHadHold
    <3>3. CASE d # c
      BY <1>1, <2>1, <2>3, <3>1, <3>2, <3>3 DEF TermsAt
    <3>4. CASE d = c
      BY <1>1, <2>1, <2>3, <3>2, <3>4 DEF TermsAt
    <3> QED BY <3>3, <3>4
  <2>6. mix \in Mixes /\ "createEvent" \notin mix[1]
    BY <1>0, <2>3 DEF TermsInv, TermsApart
  <2> QED BY <2>3, <2>4, <2>5, <2>6 DEF TermsInv
<1>8. CASE RecordAtCreation(c)
  <2>1. /\ UNCHANGED <<classes, clearing, holds>> /\ call[c].pc = "linked"
             /\ call[c].op = "createEvent"
        /\ call'[c].op = "createEvent" /\ call'[c].pc = "done"
        /\ saleAsset' = saleAsset \/ c = 1
    BY <1>0, <1>8, GotoKeeps DEF RecordAtCreation
  <2>2. Defined' = Defined /\ HasHadHold' = HasHadHold
    BY <2>1 DEF Defined, HasHadHold
  <2>3. saleAsset' = saleAsset \/ saleAsset = None
    BY <1>1, <2>1 DEF TermsInv, TermsAt
  <2>4. ASSUME NEW d \in Calls PROVE TermsAt(d)'
    <3>1. CASE d # c
      <4>1. call[d].pc = "choosing" => saleAsset' = saleAsset
        <5>1. call[d].pc = "choosing" => "setSaleAsset" \in mix[d]
          BY <1>1 DEF TermsAt
        <5>2. c = 1 => "createEvent" \in mix[1]
          BY <1>1, <2>1 DEF TermsAt
        <5> QED BY <1>0, <2>1, <5>1, <5>2 DEF TermsInv, TermsApart
      <4> QED BY <1>1, <2>1, <2>2, <2>3, <3>1, <4>1 DEF TermsAt
    <3>2. CASE d = c
      BY <1>1, <2>1, <2>2, <2>3, <3>2 DEF TermsAt
    <3> QED BY <3>1, <3>2
  <2>5. \A r \in Defined : classes'[r].priced => classes'[r].in \in {None, saleAsset'}
    BY <2>1, <2>3 DEF TermsInv
  <2>6. "createEvent" \in mix[1] => saleAsset' = None \/ (call'[1].op = "createEvent"
          /\ call'[1].pc = "done")
    <3>1. CASE c = 1
      BY <2>1, <3>1
    <3>2. CASE c # 1
      BY <1>0, <1>1, <2>1, <3>2 DEF TermsInv
    <3> QED BY <3>1, <3>2
  <2> QED BY <2>2, <2>4, <2>5, <2>6 DEF TermsInv
<1>9. DefineClass(c) \/ SetPrice(c) => call[c].pc \in {"idle", "begun"}
  BY DEF DefineClass, SetPrice
<1> QED BY <1>2, <1>3, <1>4, <1>5, <1>6, <1>7, <1>8, <1>9 DEF TermsTurn, TermsStep

\* Every step keeps holds on the terms in force.
LEMMA TermsInvKept ==
    ASSUME TermsApart, TypeOK, LockInv, TermsInv, [Next]_vars
    PROVE  TermsInv'
<1>1. ASSUME NEW c \in Calls, RelayTurn(c), UNCHANGED mix PROVE TermsInv'
  <2>1. RelayMove(c) /\ UNCHANGED termsVars
    BY <1>1, RelayMoves DEF RelayTurn
  <2> QED BY <1>1, <2>1, OthersKeepTerms DEF RelayMove, RelayPcs, Signing
<1>2. ASSUME NEW c \in Calls, RedeemTurn(c) \/ RaiseTurn(c)
               \/ SetupTurn(c), UNCHANGED mix PROVE TermsInv'
  <2>1. CallerMove(c) /\ UNCHANGED termsVars
    BY <1>2, CallerMoves DEF TypeOK, CallerTurn, RedeemTurn, RaiseTurn, SetupTurn
  <2>2. call'[c].op = call[c].op \/ call'[c].op \in mix[c]
    BY <2>1 DEF CallerMove
  <2>3. call[c].pc # "done"
    BY <2>1 DEF CallerMove, BeforeRelay
  <2> QED BY <1>2, <2>1, <2>2, <2>3, OtherPcs, OthersKeepTerms DEF CallerMove
<1>3. ASSUME NEW c \in Calls, StopTurn(c), UNCHANGED mix PROVE TermsInv'
  <2>1. Becomes(c, call[c].op, "stopped", call[c].stage, call[c].key, call[c].verdict,
          call[c].arg) /\ UNCHANGED termsVars
        /\ call[c].pc # "done"
    BY <1>3, StopEffect DEF StopTurn, Stop, Running
  <2> QED BY <1>3, <2>1, OthersKeepTerms DEF Becomes
<1>4. CASE UNCHANGED vars \/ (UNCHANGED mix /\ \E o \in Ops : Land(o) \/ RefuseOp(o))
  <2>1. UNCHANGED <<mix, call, termsVars>>
    BY <1>4, LedgerTypes DEF vars
  <2> QED BY <2>1 DEF termsVars, TermsInv, TermsAt, Defined, HasHadHold
<1> QED BY <1>1, <1>2, <1>3, <1>4, Turns, TermsKeepTerms DEF CallerTurn

\* A hold is on the terms in force, for good, however changes of asset, new prices and holds meet.
\* The requests that choose an asset do not meet one that defines a class or creates the event:
\* neither takes the event's lock, and MCRelayedTerms shows what follows (sale-assets.ts set,
\* classes.ts define).
THEOREM TermsHonouredAlways == ASSUME TermsApart PROVE Spec => []TermsHonoured
<1>1. TermsInv => TermsHonoured
  BY DEF TermsInv, TermsAt, TermsHonoured
<1>2. TypeOK /\ LockInv /\ TermsInv /\ [Next]_vars => TermsInv'
  BY TermsInvKept
<1> QED BY <1>1, <1>2, TypesInit, TypesKept, LockInvInit, LockInvKept, TermsInvInit, PTL DEF Spec
=============================================================================
