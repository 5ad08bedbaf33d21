----------------------------- MODULE CopyProofs -----------------------------
(***************************************************************************)
(* Theorems about Copy, for every number of servers, of requests and of    *)
(* failures, every batch size and every world in which no ticket that may  *)
(* not be transferred loses its other restriction (RestrictionsApart): the *)
(* projection removes only the restriction named (ledger-facts.ts).        *)
(***************************************************************************)
EXTENDS Copy, WellFoundedInduction, TLAPS

(***************************************************************************)
(* Every position of a log                                                 *)
(***************************************************************************)
(* The order in which the log's positions are well founded *)
LessThan == {ss \in Nat \X Nat : ss[1] < ss[2]}

\* Of some positions there is a least one: what holds of the first position, and of each if of the
\* one before, holds of all.
LEMMA Least ==
    ASSUME NEW T \in SUBSET Nat, T # {}
    PROVE  \E x \in T : \A y \in T : x <= y
<1>0. T \subseteq Nat
  OBVIOUS
<1>1. IsWellFoundedOn(LessThan, Nat)
  BY NatLessThanWellFounded DEF OpToRel, LessThan
<1>2. PICK x \in T : \A y \in T : ~(<<y, x>> \in LessThan)
  BY <1>0, <1>1, WFMin
<1>3. ASSUME NEW y \in T PROVE x <= y
  <2>1. x \in Nat /\ y \in Nat /\ <<y, x>> \in Nat \X Nat /\ ~(<<y, x>> \in LessThan)
    BY <1>2
  <2>2. ~(y < x)
    BY <2>1 DEF LessThan
  <2> QED
    BY <2>1, <2>2
<1> QED
  BY <1>3

(* The rows of a position's facts are those of an earlier one's, m, and rows after m. *)
Extends(rows, earlier, m) ==
    earlier \subseteq rows /\ \A r \in rows : r.sequence <= m => r \in earlier

(* What is so of the facts after n records, and of every position before *)
Good(l, n) ==
    LET f == FactsIn(l, n) IN
    /\ f \in Facts
    /\ f.owner = None => f.issued = 0
    /\ "cannotTransfer" \in f.restrictions =>
         \E k \in 1 .. n : l[k].entry.kind = "issueTicket" /\ l[k].entry.arg = "bound"
    /\ \A p \in f.passes : p.sequence \in 1 .. n /\ l[p.sequence].entry.kind = "accessPass"
    /\ \A x \in f.transfers : x.sequence \in 1 .. n
    /\ \A m \in 0 .. n : /\ Extends(f.passes, FactsIn(l, m).passes, m)
                         /\ Extends(f.transfers, FactsIn(l, m).transfers, m)

\* Before any record there are facts to start from.
LEMMA NoFactsType == NoFacts \in Facts
  BY DEF NoFacts, Facts, Restrictions

(* What an input does to the facts that matter here: g is f after e, the n-th, at time t *)
EffectOn(g, f, e, n, t) ==
    /\ g \in Facts
    /\ g.passes = IF e.kind = "accessPass"
                  THEN f.passes \cup {[pass |-> e.arg, sequence |-> n]} ELSE f.passes
    /\ g.transfers = IF e.kind = "transferTicket"
                     THEN f.transfers \cup {[from |-> e.by, at |-> t, sequence |-> n]}
                     ELSE f.transfers
    /\ g.owner = IF e.kind = "createEvent" THEN e.by ELSE f.owner
    /\ g.issued = IF e.kind = "issueTicket" THEN f.issued + 1 ELSE f.issued
    /\ g.restrictions = IF e.kind = "issueTicket" THEN Issued(e.arg)
                        ELSE IF e.kind = "removeRestriction"
                        THEN Removed(f.restrictions, e.arg) ELSE f.restrictions

\* Every input keeps the facts well typed, and changes the rows of passes and of transfers, the
\* owner, the issued count and the restrictions as its kind says and no other.
LEMMA EffectIs ==
    ASSUME NEW f \in Facts, NEW e \in Input, NEW n \in Nat, NEW t \in Nat
    PROVE  EffectOn(Effect(f, e, n, t), f, e, n, t)
<1> SUFFICES ASSUME NEW g, g = Effect(f, e, n, t) PROVE EffectOn(g, f, e, n, t)
  OBVIOUS
<1> USE DEF EffectOn
<1>1. CASE e.kind = "registerCredential"
  BY <1>1 DEF Effect, Facts, Input, Accounts
<1>2. CASE e.kind = "createEvent"
  <2> DEFINE h == [f EXCEPT !.owner = e.by, !.status = "Active", !.capacity = e.arg]
  <2>1. g = h
    BY <1>2 DEF Effect
  <2>2. e.by \in Accounts \cup {None} /\ e.arg \in Args \cup {None}
    BY DEF Facts, Input, Accounts
  <2>3. h \in Facts
    BY <2>2 DEF Facts
  <2>4. /\ h.passes = f.passes
        /\ h.transfers = f.transfers
        /\ h.owner = e.by
        /\ h.issued = f.issued
        /\ h.restrictions = f.restrictions
    BY DEF Facts
  <2> HIDE DEF h
  <2> QED
    BY <1>2, <2>1, <2>3, <2>4
<1>3. CASE e.kind = "setEventStatus"
  BY <1>3 DEF Effect, Facts, Input, Accounts
<1>4. CASE e.kind = "setEventCapacity"
  BY <1>4 DEF Effect, Facts, Input, Accounts
<1>5. CASE e.kind = "addZone"
  BY <1>5 DEF Effect, Facts, Input, Accounts
<1>6. CASE e.kind = "removeZone"
  BY <1>6 DEF Effect, Facts, Input, Accounts
<1>7. CASE e.kind = "issueTicket"
  <2> DEFINE h == [f EXCEPT !.holder = "ann", !.restrictions = Issued(e.arg), !.issued = @ + 1]
  <2>1. g = h
    BY <1>7 DEF Effect
  <2>2. Issued(e.arg) \in SUBSET Restrictions /\ f.issued + 1 \in Nat
    BY DEF Facts, Input, Accounts, Issued, Restrictions
  <2>3. h \in Facts
    BY <2>2 DEF Facts
  <2>4. /\ h.passes = f.passes
        /\ h.transfers = f.transfers
        /\ h.owner = f.owner
        /\ h.issued = f.issued + 1
        /\ h.restrictions = Issued(e.arg)
    BY DEF Facts
  <2> HIDE DEF h
  <2> QED
    BY <1>7, <2>1, <2>3, <2>4
<1>8. CASE e.kind = "transferTicket"
  <2> DEFINE h == [f EXCEPT !.holder = e.arg, !.transfers = @ \cup {[from |-> e.by, at |-> t,
        sequence |-> n]}]
  <2>1. g = h
    BY <1>8 DEF Effect
  <2>2. /\ e.arg \in Args
        /\ f.transfers \cup {[from |-> e.by, at |-> t,
              sequence |-> n]} \in SUBSET [from : Accounts, at : Nat, sequence : Nat]
    BY DEF Facts, Input, Accounts
  <2>3. h \in Facts
    BY <2>2 DEF Facts
  <2>4. /\ h.passes = f.passes
        /\ h.transfers = f.transfers \cup {[from |-> e.by, at |-> t, sequence |-> n]}
        /\ h.owner = f.owner
        /\ h.issued = f.issued
        /\ h.restrictions = f.restrictions
    BY DEF Facts
  <2> HIDE DEF h
  <2> QED
    BY <1>8, <2>1, <2>3, <2>4
<1>9. CASE e.kind = "removeRestriction"
  BY <1>9 DEF Effect, Facts, Input, Accounts, Removed
<1>10. CASE e.kind = "accessPass"
  <2> DEFINE h == [f EXCEPT !.attendances = @ + 1, !.passes = @ \cup {[pass |-> e.arg,
        sequence |-> n]}]
  <2>1. g = h
    BY <1>10 DEF Effect
  <2>2. /\ f.attendances + 1 \in Nat
        /\ f.passes \cup {[pass |-> e.arg, sequence |-> n]} \in SUBSET [pass : Args, sequence : Nat]
    BY DEF Facts, Input, Accounts
  <2>3. h \in Facts
    BY <2>2 DEF Facts
  <2>4. /\ h.passes = f.passes \cup {[pass |-> e.arg, sequence |-> n]}
        /\ h.transfers = f.transfers
        /\ h.owner = f.owner
        /\ h.issued = f.issued
        /\ h.restrictions = f.restrictions
    BY DEF Facts
  <2> HIDE DEF h
  <2> QED
    BY <1>10, <2>1, <2>3, <2>4
<1> QED
  BY <1>1, <1>2, <1>3, <1>4, <1>5, <1>6, <1>7, <1>8, <1>9, <1>10 DEF Kinds, Input

\* The facts at every position of a log are well typed.
LEMMA FactsTyped ==
    ASSUME NEW l \in Seq(Record), NEW n \in 0 .. Len(l)
    PROVE  FactsIn(l, n) \in Facts
<1>1. CASE n = 0
  BY <1>1, NoFactsType DEF FactsIn
<1>2. CASE n # 0
  <2>1. l[n] \in Record
    BY <1>2
  <2> QED
    BY <1>2, <2>1 DEF FactsIn, Record
<1> QED
  BY <1>1, <1>2

\* What is so of a position is so of the next: rows are only added, numbered by their record.
LEMMA GoodStep ==
    ASSUME NEW l \in Seq(Record), IsLog(l), NEW n \in 1 .. Len(l), Good(l, n - 1)
    PROVE  Good(l, n)
<1> DEFINE f == FactsIn(l, n - 1)
           e == l[n].entry
           g == FactsIn(l, n)
<1>0. n \in Nat /\ n # 0 /\ n - 1 \in Nat /\ l[n] \in Record
  OBVIOUS
<1>1. /\ n \in Nat /\ n # 0 /\ n - 1 \in Nat /\ l[n] \in Record /\ e \in Input /\ l[n].at \in Nat
  BY <1>0 DEF Record
<1>2. Accepts(f, e) /\ l[n] = RecordOf(f, e, n - 1, l[n].at)
  BY DEF IsLog
<1>3. g = Effect(f, e, n, l[n].at)
  <2>1. n - 1 + 1 = n
    BY <1>1
  <2>2. l[n].facts = Effect(f, e, n - 1 + 1, l[n].at)
    BY <1>2 DEF RecordOf
  <2> QED
    BY <1>1, <2>1, <2>2 DEF FactsIn
<1>4. /\ f \in Facts
      /\ f.owner = None => f.issued = 0
      /\ "cannotTransfer" \in f.restrictions =>
           \E k \in 1 .. n - 1 : l[k].entry.kind = "issueTicket" /\ l[k].entry.arg = "bound"
      /\ \A p \in f.passes : p.sequence \in 1 .. n - 1 /\ l[p.sequence].entry.kind = "accessPass"
      /\ \A x \in f.transfers : x.sequence \in 1 .. n - 1
      /\ \A m \in 0 .. n - 1 : /\ Extends(f.passes, FactsIn(l, m).passes, m)
                               /\ Extends(f.transfers, FactsIn(l, m).transfers, m)
  BY DEF Good
<1> HIDE DEF f, e, g
<1>5. EffectOn(g, f, e, n, l[n].at)
  BY <1>1, <1>3, <1>4, EffectIs
<1> USE DEF EffectOn
<1>6. g.owner = None => g.issued = 0
  <2>1. e.by \in Accounts /\ e.by # None
    BY <1>1, LogAssumption DEF Input
  <2>2. e.kind = "issueTicket" => f.owner = e.by
    BY <1>2 DEF Accepts
  <2> QED
    BY <1>4, <1>5, <2>1, <2>2
<1>7. "cannotTransfer" \in g.restrictions =>
        \E k \in 1 .. n : l[k].entry.kind = "issueTicket" /\ l[k].entry.arg = "bound"
  <2> SUFFICES ASSUME "cannotTransfer" \in g.restrictions
               PROVE  \E k \in 1 .. n : l[k].entry.kind = "issueTicket" /\ l[k].entry.arg = "bound"
    OBVIOUS
  <2>1. CASE e.kind = "issueTicket"
    <3>1. e.arg = "bound"
      BY <1>5, <2>1 DEF Issued
    <3> QED
      BY <1>1, <2>1, <3>1 DEF e
  <2>2. CASE e.kind # "issueTicket"
    <3>1. "cannotTransfer" \in f.restrictions
      BY <1>5, <2>2 DEF Removed
    <3> QED
      BY <1>1, <1>4, <3>1
  <2> QED
    BY <2>1, <2>2
<1>8. \A p \in g.passes : p.sequence \in 1 .. n /\ l[p.sequence].entry.kind = "accessPass"
  <2> TAKE p \in g.passes
  <2>1. CASE p \in f.passes
    BY <1>1, <1>4, <2>1
  <2>2. CASE p \notin f.passes
    <3>1. e.kind = "accessPass" /\ p = [pass |-> e.arg, sequence |-> n]
      BY <1>5, <2>2
    <3> QED
      BY <1>1, <3>1 DEF e
  <2> QED
    BY <2>1, <2>2
<1>9. \A x \in g.transfers : x.sequence \in 1 .. n
  BY <1>1, <1>4, <1>5
<1>10. ASSUME NEW m \in 0 .. n
       PROVE  /\ Extends(g.passes, FactsIn(l, m).passes, m)
              /\ Extends(g.transfers, FactsIn(l, m).transfers, m)
  <2>1. CASE m = n
    BY <2>1 DEF Extends, g
  <2>2. CASE m # n
    <3>1. m \in 0 .. n - 1 /\ m < n
      BY <1>1, <2>2
    <3>2. /\ Extends(f.passes, FactsIn(l, m).passes, m)
          /\ Extends(f.transfers, FactsIn(l, m).transfers, m)
      BY <1>4, <3>1
    <3> QED
      BY <1>1, <1>5, <3>1, <3>2 DEF Extends
  <2> QED
    BY <2>1, <2>2
<1> QED
  BY <1>5, <1>6, <1>7, <1>8, <1>9, <1>10 DEF Good, g

\* It is so before any record.
LEMMA GoodAtFirst == ASSUME NEW l PROVE Good(l, 0)
<1>1. \A m \in 0 .. 0 : FactsIn(l, m) = NoFacts
  BY DEF FactsIn
<1> QED
  BY <1>1, NoFactsType DEF Good, FactsIn, NoFacts, Extends

\* So it is of every position of every log, by a least counterexample.
LEMMA LogIsGood ==
    ASSUME NEW l \in Seq(Record), IsLog(l)
    PROVE  \A n \in 0 .. Len(l) : Good(l, n)
<1> DEFINE T == {n \in 0 .. Len(l) : ~Good(l, n)}
<1>1. SUFFICES ASSUME T # {} PROVE FALSE
  OBVIOUS
<1>2. T \in SUBSET Nat
  OBVIOUS
<1>3. PICK x \in T : \A y \in T : x <= y
  <2> HIDE DEF T
  <2> QED
    BY <1>1, <1>2, Least
<1>4. x \in 1 .. Len(l)
  BY GoodAtFirst
<1>5. x - 1 \in 0 .. Len(l) /\ ~(x <= x - 1)
  BY <1>4
<1>6. Good(l, x - 1)
  BY <1>3, <1>5
<1> QED
  BY <1>4, <1>6, GoodStep

(***************************************************************************)
(* What Kippu makes of a record                                            *)
(***************************************************************************)
(* The inputs of a world: its log's at first, those submitted later, and the gates' pass *)
InputsOf(w) == {w.start[n].entry : n \in 1 .. Len(w.start)} \cup w.inputs \cup w.asks \cup {Pass}

(* No world has both a ticket that may not be transferred and the removal of cannotResale. *)
RestrictionsApart ==
    \A w \in Worlds : \A e, d \in InputsOf(w) :
        ~(/\ e.kind = "issueTicket" /\ e.arg = "bound"
          /\ d.kind = "removeRestriction" /\ d.arg = "cannotResale")

\* What ledger-facts.ts makes of an accepted record is what the ledger did, the removal of
\* cannotResale from a ticket that may not be transferred apart.
LEMMA ProjectIsEffect ==
    ASSUME NEW f \in Facts, NEW e \in Input, NEW n, NEW t, Accepts(f, e),
           f.owner = None => f.issued = 0,
           ~("cannotTransfer" \in f.restrictions /\ e.kind = "removeRestriction"
                 /\ e.arg = "cannotResale")
    PROVE  Project(f, e, n, t) = Effect(f, e, n, t)
<1> USE DEF Project, ProjectCommand, ProjectRegistration, ProjectAttendance, Effect
<1>1. CASE e.kind = "registerCredential"
  BY <1>1
<1>2. CASE e.kind = "createEvent"
  <2>1. f.issued = 0
    BY <1>2 DEF Accepts
  <2> DEFINE h == [f EXCEPT !.owner = e.by, !.status = "Active", !.capacity = e.arg]
  <2>2. [h EXCEPT !.issued = 0] = h
    BY <2>1 DEF Facts
  <2>3. Project(f, e, n, t) = [h EXCEPT !.issued = 0]
    BY <1>2
  <2> QED
    BY <1>2, <2>2, <2>3
<1>3. CASE e.kind \in {"setEventStatus", "setEventCapacity", "addZone"}
  BY <1>3
<1>4. CASE e.kind = "removeZone"
  <2>1. {z \in f.zones : z # e.arg} = f.zones \ {e.arg}
    OBVIOUS
  <2> QED
    BY <1>4, <2>1
<1>5. CASE e.kind = "issueTicket"
  BY <1>5
<1>6. CASE e.kind = "transferTicket"
  BY <1>6 DEF Accepts
<1>7. CASE e.kind = "removeRestriction"
  <2>1. f.restrictions \ {e.arg} = Removed(f.restrictions, e.arg)
    BY <1>7 DEF Removed, Facts, Restrictions
  <2> QED
    BY <1>7, <2>1
<1>8. CASE e.kind = "accessPass"
  BY <1>8
<1> QED
  BY <1>1, <1>2, <1>3, <1>4, <1>5, <1>6, <1>7, <1>8 DEF Input, Kinds

\* Appending a record changes no earlier one.
LEMMA AppendKeeps ==
    ASSUME NEW l \in Seq(Record), NEW r \in Record
    PROVE  /\ Append(l, r) \in Seq(Record) /\ Len(Append(l, r)) = Len(l) + 1
           /\ Append(l, r)[Len(l) + 1] = r
           /\ \A n \in 1 .. Len(l) : Append(l, r)[n] = l[n]
           /\ \A n \in 0 .. Len(l) : FactsIn(Append(l, r), n) = FactsIn(l, n)
  BY DEF FactsIn

\* A log with an input accepted after it is a log.
LEMMA AppendIsLog ==
    ASSUME NEW l \in Seq(Record), IsLog(l), NEW e \in Input, NEW t \in Nat,
           Accepts(FactsIn(l, Len(l)), e)
    PROVE  LET r == RecordOf(FactsIn(l, Len(l)), e, Len(l), t) IN r \in Record
               /\ IsLog(Append(l, r))
<1> DEFINE f == FactsIn(l, Len(l))
           r == RecordOf(f, e, Len(l), t)
<1>1. Len(l) \in Nat /\ Len(l) \in 0 .. Len(l) /\ Len(l) + 1 \in Nat
  OBVIOUS
<1>2. f \in Facts
  BY <1>1, FactsTyped
<1>3. r = [entry |-> e, at |-> t, facts |-> Effect(f, e, Len(l) + 1, t)]
  BY DEF RecordOf
<1>4. Effect(f, e, Len(l) + 1, t) \in Facts
  BY <1>1, <1>2, EffectIs DEF EffectOn
<1> HIDE DEF f
<1>5. r \in Record /\ r.entry = e /\ r.at = t
  BY <1>3, <1>4 DEF Record
<1> USE DEF f
<1> HIDE DEF r
<1> DEFINE k == Append(l, r)
<1>6. /\ Len(k) = Len(l) + 1 /\ k[Len(l) + 1] = r
      /\ \A n \in 1 .. Len(l) : k[n] = l[n]
      /\ \A n \in 0 .. Len(l) : FactsIn(k, n) = FactsIn(l, n)
  BY <1>5, AppendKeeps
<1> HIDE DEF k
<1>7. ASSUME NEW n \in 1 .. Len(k)
      PROVE  /\ Accepts(FactsIn(k, n - 1), k[n].entry)
             /\ k[n] = RecordOf(FactsIn(k, n - 1), k[n].entry, n - 1, k[n].at)
  <2>1. CASE n \in 1 .. Len(l)
    <3>1. n - 1 \in 0 .. Len(l)
      BY <2>1
    <3> QED
      BY <1>6, <2>1, <3>1 DEF IsLog
  <2>2. CASE n = Len(l) + 1
    <3>1. n - 1 = Len(l)
      BY <1>1, <2>2
    <3>2. FactsIn(k, n - 1) = f
      BY <1>1, <1>6, <3>1
    <3> QED
      BY <1>5, <1>6, <2>2, <3>1, <3>2 DEF r
  <2> QED
    BY <1>1, <1>6, <2>1, <2>2
<1> QED
  BY <1>5, <1>7 DEF IsLog, k, r

(***************************************************************************)
(* The invariant                                                           *)
(***************************************************************************)
LogInv ==
    /\ world \in Worlds /\ clock \in Nat
    /\ log \in Seq(Record) /\ IsLog(log)
    /\ \A n \in 1 .. Len(log) :
         /\ log[n].entry \in InputsOf(world) /\ log[n].at <= clock
         /\ log[n].entry.kind = "accessPass" => log[n].at <= PassLife
    /\ \A n \in 1 .. Len(log) : \A m \in 1 .. n : log[m].at <= log[n].at

(* The copy, committed or in a reader's transaction, is a prefix of the log. *)
Copied == [facts : Facts, records : Nat]
Prefix(c) == c.records \in 0 .. Len(log) /\ c.facts = FactsIn(log, c.records)

CopyInv == copy \in Copied /\ Prefix(copy)

(* One reader at a time has the cursor's row, and what it prepared is not behind the copy. *)
ReaderRecord == [pc : {"idle", "locked", "applying"}, until : Nat, tx : Copied]
ReaderOk(r) ==
    /\ Prefix(r.tx) /\ copy.records <= r.tx.records /\ r.tx.records <= r.until
    /\ r.until <= Len(log)
    /\ r.pc = "locked" => r.tx = copy
ReaderInv ==
    /\ reader \in [Servers -> ReaderRecord]
    /\ \A s \in Servers : reader[s].pc # "idle" =>
         ReaderOk(reader[s]) /\ \A o \in Servers : o # s => reader[o].pc = "idle"

(* The sponsor relay's requests *)
CallPcs ==
    {"idle", "verify", "decide", "wait", "sign", "landed", "done", "refused", "unavailable",
     "rejected", "broken"}
CallRecord ==
    [pc : CallPcs, input : Input \cup {None}, after : Nat \cup {None}, attempt : Nat,
     round : {0, 1, 2}, rated : BOOLEAN, cursor : Nat \cup {None}]
SponsorType == call \in [Calls -> CallRecord] /\ latest \in [Accounts -> Nat \cup {None}]

(* The copy has reached the cursor before a request is decided again, and a refusal was right  *)
(* of some position.                                                                           *)
CallOk(r) ==
    /\ r.pc # "idle" => r.input \in world.asks /\ r.round # 0
    /\ r.pc = "landed" => r.cursor \in Nat
    /\ r.pc \in {"verify", "decide"} /\ r.round = 2 /\ r.after # None => r.after <= copy.records
    /\ r.pc = "refused" /\ r.after # None /\ ~r.rated =>
         \E n \in r.after .. copy.records :
             ~(Verified(FactsIn(log, n), r.input) /\ Entitlement(FactsIn(log, n), r.input))
SponsorInv == SponsorType /\ \A c \in Calls : CallOk(call[c])

(* The gates, and the flags with the position each was decided at *)
Verdicts ==
    {"none", "sent", "failed", "accepted", "ERR-PassExpired", "ERR-PassReplayed",
     "ERR-InvalidPass", "other"}
GateRecord == [at : Nat \cup {None}, drift : BOOLEAN, submission : Verdicts, report : Verdicts]
Position == [records : Nat, at : Nat \cup {None}]
HeadOk(h) == h \in Position /\ h.records <= copy.records /\ h.at = RecordedAt(h.records)
Filed == {g \in Gates : gate[g].report # "none"}

GateOk(x) ==
    /\ x.submission # "none" => x.at \in Nat
    /\ x.report # "none" => x.submission # "none"
    /\ x.submission = "accepted" => ConsumedPass(Now, Pass.arg) # {}
GateInv == gate \in [Gates -> GateRecord] /\ \A g \in Gates : GateOk(gate[g])
ViewRecord ==
    [pc : {"idle", "list", "match"}, head : Position, listed : SUBSET Gates, todo : SUBSET Gates]
ViewInv ==
    /\ view \in ViewRecord
    /\ HeadOk(view.head) /\ view.todo \subseteq view.listed /\ view.listed \subseteq Filed
Causes ==
    {"none", "not-recorded", "gate-clock-outside-tolerance", "same-pass-at-two-gates",
     "transfer-before-recording", "unexplained"}
FlagRecord == [cause : Causes, head : Position, listed : SUBSET Gates]
FlagOk(g, r) ==
    /\ HeadOk(r.head)
    /\ r.cause # "none" =>
         g \in Filed /\ r.cause = Cause(g, r.listed, FactsIn(log, r.head.records), r.head)
FlagsInv == flags \in [Gates -> FlagRecord] /\ \A g \in Gates : FlagOk(g, flags[g])
FlagInv == GateInv /\ ViewInv /\ FlagsInv

IInv == LogInv /\ CopyInv /\ ReaderInv /\ SponsorInv /\ FlagInv

(***************************************************************************)
(* The log grows                                                           *)
(***************************************************************************)
(* A step leaves the log alone, or appends one input of the world that the ledger accepts. *)
Grown(e) ==
    /\ e \in Input /\ e \in InputsOf(world) /\ Accepts(Now, e) /\ InTime(e)
    /\ AppendRecord(e) /\ clock' = clock /\ world' = world
LogMoves ==
    /\ world' = world
    /\ (log' = log /\ clock' \in Nat /\ clock <= clock') \/ \E e \in Input : Grown(e)

(* Nothing recorded changes. *)
Kept ==
    /\ world' = world /\ Len(log') \in Nat /\ Len(log) <= Len(log')
    /\ \A n \in 1 .. Len(log) : log'[n] = log[n]
    /\ \A n \in 0 .. Len(log) : FactsIn(log', n) = FactsIn(log, n)

\* Every step leaves the log alone or appends one accepted input of the world, at the ledger's time.
LEMMA LogMoved == ASSUME IInv, [Next]_vars PROVE LogMoves
<1> USE DEF LogMoves
<1>1. world \in Worlds /\ clock \in Nat
  BY DEF IInv, LogInv
<1>2. world.inputs \subseteq Input /\ world.asks \subseteq Input
  BY <1>1, WorldsAssumption
<1>3. CASE Ledger
  <2>1. CASE Tick
    BY <1>1, <2>1 DEF Tick
  <2>2. ASSUME NEW e \in world.inputs, OtherWrite(e) PROVE LogMoves
    BY <1>2, <2>2 DEF OtherWrite, Grown, InputsOf
  <2> QED
    BY <1>3, <2>1, <2>2 DEF Ledger
<1>4. ASSUME NEW c \in Calls, Lands(c) PROVE LogMoves
  <2>1. call[c].input \in world.asks
    BY <1>4 DEF IInv, SponsorInv, CallOk, Lands, Land
  <2> QED
    BY <1>2, <1>4, <2>1 DEF Lands, Land, Grown, InputsOf
<1>5. ASSUME NEW g \in Gates, Gate(g) PROVE LogMoves
  <2>1. CASE UNCHANGED ledgerVars
    BY <1>1, <2>1 DEF ledgerVars
  <2>2. CASE RecordPass(g) /\ world' = world /\ clock' = clock
    <3>1. Pass \in Input /\ Pass \in InputsOf(world)
      BY LogAssumption DEF Pass, Input, Kinds, Accounts, InputsOf
    <3> QED
      BY <2>2, <3>1 DEF RecordPass, Grown
  <2> QED
    BY <1>5, <2>1, <2>2 DEF Gate
<1>6. CASE UNCHANGED ledgerVars
  BY <1>1, <1>6 DEF ledgerVars
<1>7. Next => Ledger \/ (\E c \in Calls : Lands(c)) \/ (\E g \in Gates : Gate(g))
        \/ UNCHANGED ledgerVars
  BY DEF Next, Window, ShowFlags, Read, ReadFails, Request, Relay, Lags, Fails
<1> QED
  BY <1>3, <1>4, <1>5, <1>6, <1>7 DEF vars

\* What such an append makes of the log.
LEMMA GrownLog ==
    ASSUME LogInv, NEW e \in Input, Grown(e)
    PROVE  /\ Len(log') = Len(log) + 1 /\ log' \in Seq(Record) /\ IsLog(log') /\ Kept
           /\ log'[Len(log')].entry = e /\ log'[Len(log')].at = clock
           /\ Now' = Effect(Now, e, Len(log) + 1, clock)
<1> DEFINE r == RecordOf(FactsIn(log, Len(log)), e, Len(log), clock)
<1>1. log \in Seq(Record) /\ IsLog(log) /\ clock \in Nat /\ Len(log) \in Nat
  BY DEF LogInv
<1>2. Accepts(FactsIn(log, Len(log)), e) /\ log' = Append(log, r) /\ world' = world
  BY DEF Grown, AppendRecord, Now, FactsAt, LogMoves
<1>3. r \in Record /\ IsLog(Append(log, r))
  BY <1>1, <1>2, AppendIsLog
<1>4. r.entry = e /\ r.at = clock /\ r.facts = Effect(Now, e, Len(log) + 1, clock)
  BY DEF RecordOf, Now, FactsAt
<1> HIDE DEF r
<1>5. /\ log' \in Seq(Record) /\ Len(log') = Len(log) + 1
      /\ log'[Len(log) + 1] = r
      /\ \A n \in 1 .. Len(log) : log'[n] = log[n]
      /\ \A n \in 0 .. Len(log) : FactsIn(log', n) = FactsIn(log, n)
  BY <1>1, <1>2, <1>3, AppendKeeps
<1>6. Kept
  BY <1>1, <1>2, <1>5 DEF Kept
<1>7. Now' = r.facts
  BY <1>1, <1>5 DEF Now, FactsAt, FactsIn
<1> QED
  BY <1>2, <1>3, <1>4, <1>5, <1>6, <1>7

\* Every step keeps the log a log in the order of time, and everything recorded in it.
LEMMA LogStep == ASSUME LogInv, LogMoves PROVE LogInv' /\ Kept
<1>0. /\ world \in Worlds /\ clock \in Nat /\ log \in Seq(Record) /\ IsLog(log) /\ Len(log) \in Nat
      /\ \A n \in 1 .. Len(log) :
           /\ log[n] \in Record /\ log[n].at \in Nat
           /\ log[n].entry \in InputsOf(world) /\ log[n].at <= clock
           /\ log[n].entry.kind = "accessPass" => log[n].at <= PassLife
      /\ \A n \in 1 .. Len(log) : \A m \in 1 .. n : log[m].at <= log[n].at
  <2>1. log \in Seq(Record)
    BY DEF LogInv
  <2>2. \A n \in 1 .. Len(log) : log[n] \in Record
    BY <2>1
  <2>3. \A n \in 1 .. Len(log) : log[n] \in Record /\ log[n].at \in Nat
    BY <2>2 DEF Record
  <2> QED
    BY <2>1, <2>3 DEF LogInv
<1>1. CASE log' = log /\ clock' \in Nat /\ clock <= clock' /\ world' = world
  <2>1. \A n \in 1 .. Len(log) : log[n].at <= clock'
    BY <1>0, <1>1
  <2>2. LogInv'
    BY <1>0, <1>1, <2>1 DEF LogInv
  <2> QED
    BY <1>0, <1>1, <2>2 DEF Kept
<1>2. ASSUME NEW e \in Input, Grown(e), world' = world PROVE LogInv' /\ Kept
  <2>1. /\ Len(log') = Len(log) + 1 /\ log' \in Seq(Record) /\ IsLog(log') /\ Kept
        /\ log'[Len(log')].entry = e /\ log'[Len(log')].at = clock
    BY <1>2, GrownLog
  <2>2. clock' = clock /\ e \in InputsOf(world) /\ (e.kind = "accessPass" => clock <= PassLife)
    BY <1>2 DEF Grown, InTime
  <2>3. \A n \in 1 .. Len(log) : log'[n] = log[n]
    BY <2>1 DEF Kept
  <2>4. \A n \in 1 .. Len(log') : n \in 1 .. Len(log) \/ n = Len(log')
    BY <1>0, <2>1
  <2>5. ASSUME NEW n \in 1 .. Len(log')
        PROVE  /\ log'[n].entry \in InputsOf(world) /\ log'[n].at <= clock
               /\ log'[n].entry.kind = "accessPass" => log'[n].at <= PassLife
    BY <1>0, <2>1, <2>2, <2>3, <2>4
  <2>6. ASSUME NEW n \in 1 .. Len(log'), NEW m \in 1 .. n PROVE log'[m].at <= log'[n].at
    <3>1. CASE n \in 1 .. Len(log)
      <4>1. m \in 1 .. Len(log)
        BY <1>0, <3>1
      <4> QED
        BY <1>0, <2>3, <3>1, <4>1
    <3>2. CASE n = Len(log')
      <4>1. m \in 1 .. Len(log')
        BY <1>0, <2>1, <3>2
      <4> QED
        BY <2>1, <2>5, <3>2, <4>1
    <3> QED
      BY <2>4, <3>1, <3>2
  <2> QED
    BY <1>0, <1>2, <2>1, <2>2, <2>5, <2>6 DEF LogInv
<1> QED
  BY <1>1, <1>2 DEF LogMoves

(***************************************************************************)
(* The copy is the ledger at a position                                    *)
\* The projections take the facts of a position to those of the next.
LEMMA NextFacts ==
    ASSUME RestrictionsApart, LogInv, NEW n \in 1 .. Len(log)
    PROVE  Project(FactsIn(log, n - 1), log[n].entry, n, log[n].at) = FactsIn(log, n)
<1> DEFINE f == FactsIn(log, n - 1)
           e == log[n].entry
<1>1. /\ log \in Seq(Record) /\ IsLog(log) /\ world \in Worlds /\ log[n] \in Record
      /\ n \in Nat /\ n # 0 /\ n - 1 \in 0 .. Len(log) /\ n - 1 + 1 = n
  BY DEF LogInv
<1>2. e \in Input /\ log[n].at \in Nat
  BY <1>1 DEF Record
<1>3. Accepts(f, e) /\ log[n] = RecordOf(f, e, n - 1, log[n].at)
  BY <1>1 DEF IsLog
<1>4. FactsIn(log, n) = Effect(f, e, n, log[n].at)
  BY <1>1, <1>3 DEF RecordOf, FactsIn
<1>5. Good(log, n - 1)
  BY <1>1, LogIsGood
<1>6. ~("cannotTransfer" \in f.restrictions /\ e.kind = "removeRestriction"
        /\ e.arg = "cannotResale")
  <2> SUFFICES ASSUME "cannotTransfer" \in f.restrictions, e.kind = "removeRestriction",
        e.arg = "cannotResale"
               PROVE  FALSE
    OBVIOUS
  <2>1. PICK k \in 1 .. n - 1 : log[k].entry.kind = "issueTicket" /\ log[k].entry.arg = "bound"
    BY <1>5 DEF Good
  <2>2. k \in 1 .. Len(log)
    BY <1>1, <2>1
  <2>3. log[k].entry \in InputsOf(world) /\ e \in InputsOf(world)
    BY <2>2 DEF LogInv
  <2> QED
    BY <1>1, <2>1, <2>3 DEF RestrictionsApart
<1>7. f \in Facts /\ (f.owner = None => f.issued = 0)
  BY <1>5 DEF Good
<1> HIDE DEF f, e
<1>8. Project(f, e, n, log[n].at) = Effect(f, e, n, log[n].at)
  BY <1>2, <1>3, <1>6, <1>7, ProjectIsEffect
<1> QED
  BY <1>4, <1>8 DEF f, e

\* Only a reader changes the copy, or what a reader has prepared.
LEMMA CopyMoved ==
    ASSUME [Next]_vars
    PROVE  \/ UNCHANGED copyVars
           \/ UNCHANGED ledgerVars /\ \E s \in Servers : ReaderStep(s) \/ Rollback(s)
  BY DEF Next, vars, Ledger, Window, ShowFlags, Read, ReadFails, Request, Relay, Lags, Lands,
     Fails, Gate

\* A reader's step keeps the copy, and what it prepares, a prefix of the log.
LEMMA ReaderMoves ==
    ASSUME RestrictionsApart, LogInv, CopyInv, ReaderInv, UNCHANGED ledgerVars,
           NEW s \in Servers, ReaderStep(s) \/ Rollback(s)
    PROVE  CopyInv' /\ ReaderInv' /\ copy.records <= copy'.records
<1>1. /\ log' = log /\ Len(log) \in Nat /\ Len(log') = Len(log) /\ log \in Seq(Record)
      /\ copy \in Copied /\ Prefix(copy) /\ reader \in [Servers -> ReaderRecord]
      /\ reader[s] \in ReaderRecord
      /\ reader[s].pc # "idle" => ReaderOk(reader[s])
      /\ \A o \in Servers : o # s /\ reader[s].pc # "idle" => reader[o].pc = "idle"
  BY DEF ledgerVars, LogInv, CopyInv, ReaderInv
<1>2. Resting \in ReaderRecord /\ Resting.pc = "idle"
  BY NoFactsType DEF Resting, ReaderRecord, Copied, EmptyCopy
(* One reader moves to r, the others rest, and the copy is as it was or what it had prepared. *)
<1>3. ASSUME NEW r \in ReaderRecord, reader' = [reader EXCEPT ![s] = r], copy' = copy,
             r.pc # "idle" => ReaderOk(r) /\ \A o \in Servers : o # s => reader[o].pc = "idle"
      PROVE  CopyInv' /\ ReaderInv' /\ copy.records <= copy'.records
  <2>1. reader' \in [Servers -> ReaderRecord] /\ reader'[s] = r
        /\ \A o \in Servers : o # s => reader'[o] = reader[o]
    BY <1>1, <1>3
  <2>2. CopyInv'
    BY <1>1, <1>3 DEF CopyInv, Prefix
  <2>3. ASSUME NEW o \in Servers, reader'[o].pc # "idle"
        PROVE  ReaderOk(reader[o])' /\ \A z \in Servers : z # o => reader'[z].pc = "idle"
    <3>1. CASE o = s
      BY <1>1, <1>3, <2>1, <2>3, <3>1 DEF ReaderOk, Prefix
    <3>2. CASE o # s
      <4>1. reader[o].pc # "idle" /\ reader'[o] = reader[o]
        BY <2>1, <2>3, <3>2
      <4>2. ReaderOk(reader[o]) /\ \A z \in Servers : z # o => reader[z].pc = "idle"
        BY <4>1 DEF ReaderInv
      <4>3. ReaderOk(reader[o])'
        BY <1>1, <1>3, <4>1, <4>2 DEF ReaderOk, Prefix
      <4>4. r.pc = "idle"
        BY <1>3, <3>2, <4>1
      <4> QED
        BY <2>1, <4>1, <4>2, <4>3, <4>4
    <3> QED
      BY <3>1, <3>2
  <2>4. copy.records <= copy'.records
    BY <1>1, <1>3 DEF Copied
  <2> QED
    BY <2>1, <2>2, <2>3, <2>4 DEF ReaderInv
<1>4. CASE LockPosition(s)
  <2> DEFINE r == [pc |-> "locked", until |-> copy.records, tx |-> copy]
  <2>1. r \in ReaderRecord /\ ReaderOk(r)
    BY <1>1 DEF ReaderRecord, Copied, ReaderOk, Prefix
  <2>2. reader' = [reader EXCEPT ![s] = r] /\ copy' = copy
    BY <1>4 DEF LockPosition, Set
  <2>3. \A o \in Servers : reader[o].pc = "idle"
    BY <1>4 DEF LockPosition, At
  <2> HIDE DEF r
  <2> QED
    BY <1>3, <2>1, <2>2, <2>3
<1>5. CASE ReadPage(s)
  <2>0. reader[s].pc = "locked" /\ copy' = copy /\ ReaderOk(reader[s]) /\ reader[s].tx = copy
    BY <1>1, <1>5 DEF ReadPage, At, ReaderOk
  <2>1. CASE reader' = [reader EXCEPT ![s] = Resting]
    BY <1>2, <1>3, <2>0, <2>1
  <2>2. CASE reader' = [reader EXCEPT ![s] = [reader[s] EXCEPT !.pc = "applying",
               !.until = PageEnd(copy.records)]]
    <3> DEFINE r == [reader[s] EXCEPT !.pc = "applying", !.until = PageEnd(copy.records)]
    <3>1. PageEnd(copy.records) \in Nat /\ copy.records <= PageEnd(copy.records)
            /\ PageEnd(copy.records) <= Len(log)
      BY <1>1, CopyAssumption DEF PageEnd, Copied, Prefix
    <3>2. r \in ReaderRecord /\ r.pc = "applying" /\ r.tx = copy /\ r.until = PageEnd(copy.records)
      BY <1>1, <2>0, <3>1 DEF ReaderRecord
    <3> HIDE DEF r
    <3>3. ReaderOk(r)
      BY <1>1, <3>1, <3>2 DEF ReaderOk, Copied
    <3> QED
      BY <1>1, <1>3, <2>0, <2>2, <3>2, <3>3 DEF r
  <2> QED
    BY <1>5, <2>1, <2>2 DEF ReadPage, Set
<1>6. CASE Apply(s)
  <2> DEFINE tx == reader[s].tx
             n == tx.records + 1
  <2>0. /\ reader[s].pc = "applying" /\ copy' = copy /\ ReaderOk(reader[s])
        /\ tx \in Copied /\ tx.records \in Nat /\ reader[s].until \in Nat /\ copy.records \in Nat
        /\ tx.records < reader[s].until /\ reader[s].until <= Len(log) /\ copy.records <= tx.records
        /\ tx.facts = FactsIn(log, tx.records)
    BY <1>1, <1>6 DEF Apply, At, ReaderOk, ReaderRecord, Prefix, Copied
  <2>1. CASE reader' = [reader EXCEPT ![s] = Resting]
    BY <1>2, <1>3, <2>0, <2>1
  <2>2. CASE reader' = [reader EXCEPT ![s] = [reader[s] EXCEPT !.tx =
                            [facts |-> Project(tx.facts, log[n].entry, n, log[n].at),
                                  records |-> n]]]
    <3> DEFINE r == [reader[s] EXCEPT !.tx =
                            [facts |-> Project(tx.facts, log[n].entry, n, log[n].at),
                                  records |-> n]]
    <3>1. n \in 1 .. Len(log) /\ n - 1 = tx.records /\ n <= reader[s].until /\ copy.records <= n
          /\ n \in 0 .. Len(log) /\ n \in Nat
      BY <1>1, <2>0
    <3>2. Project(tx.facts, log[n].entry, n, log[n].at) = FactsIn(log, n)
      <4> HIDE DEF n
      <4> QED
        BY <2>0, <3>1, NextFacts
    <3>3. FactsIn(log, n) \in Facts
      <4> HIDE DEF n
      <4> QED
        BY <1>1, <3>1, FactsTyped
    <3>4. r = [reader[s] EXCEPT !.tx = [facts |-> FactsIn(log, n), records |-> n]]
      BY <3>2
    <3> HIDE DEF n
    <3>5. [facts |-> FactsIn(log, n), records |-> n] \in Copied
      BY <3>1, <3>3 DEF Copied
    <3>6. /\ r \in ReaderRecord /\ r.pc = "applying" /\ r.until = reader[s].until
          /\ r.tx = [facts |-> FactsIn(log, n), records |-> n]
      BY <1>1, <2>0, <3>4, <3>5 DEF ReaderRecord
    <3>7. ReaderOk(r)
      BY <2>0, <3>1, <3>6 DEF ReaderOk, Prefix
    <3> HIDE DEF r
    <3> QED
      BY <1>1, <1>3, <2>0, <2>2, <3>6, <3>7 DEF r, n
  <2> QED
    BY <1>6, <2>1, <2>2 DEF Apply, Set
<1>7. CASE Commit(s)
  <2>1. reader[s].pc = "applying" /\ ReaderOk(reader[s]) /\ copy' = reader[s].tx
        /\ reader' = [reader EXCEPT ![s] = Resting]
    BY <1>1, <1>7 DEF Commit, At, Set
  <2>2. CopyInv' /\ copy.records <= copy'.records
    BY <1>1, <2>1 DEF ReaderOk, CopyInv, Prefix, ReaderRecord
  <2>3. reader' \in [Servers -> ReaderRecord]
    BY <1>1, <1>2, <2>1
  <2>4. \A o \in Servers : reader'[o].pc = "idle"
    BY <1>1, <1>2, <2>1
  <2> QED
    BY <2>2, <2>3, <2>4 DEF ReaderInv
<1>8. CASE Rollback(s)
  BY <1>2, <1>3, <1>8 DEF Rollback, Set
<1> QED
  BY <1>4, <1>5, <1>6, <1>7, <1>8 DEF ReaderStep

\* Every step does, and the copy never goes back.
LEMMA CopyStep ==
    ASSUME RestrictionsApart, IInv, [Next]_vars, Kept
    PROVE  CopyInv' /\ ReaderInv' /\ copy.records <= copy'.records
<1>1. LogInv /\ CopyInv /\ ReaderInv
  BY DEF IInv
<1>2. CASE UNCHANGED copyVars
  <2>1. copy' = copy /\ reader' = reader /\ Len(log) \in Nat /\ Len(log') \in Nat
          /\ Len(log) <= Len(log')
        /\ \A n \in 0 .. Len(log) : FactsIn(log', n) = FactsIn(log, n)
    BY <1>1, <1>2 DEF copyVars, Kept, LogInv
  <2>2. ASSUME NEW c \in Copied, Prefix(c)
        PROVE  c.records \in 0 .. Len(log') /\ c.facts = FactsIn(log', c.records)
    BY <2>1, <2>2 DEF Prefix
  <2>3. CopyInv' /\ copy.records <= copy'.records
    BY <1>1, <2>1, <2>2 DEF CopyInv, Prefix, Copied
  <2>4. ASSUME NEW s \in Servers, reader[s].pc # "idle" PROVE ReaderOk(reader[s])'
    <3>1. reader[s] \in ReaderRecord /\ ReaderOk(reader[s]) /\ reader[s].tx \in Copied
      BY <1>1, <2>4 DEF ReaderInv, ReaderRecord
    <3>2. reader[s].until \in Nat /\ reader[s].until <= Len(log')
      BY <2>1, <3>1 DEF ReaderOk, ReaderRecord
    <3> QED
      BY <2>1, <2>2, <3>1, <3>2 DEF ReaderOk, Prefix
  <2> QED
    BY <1>1, <2>1, <2>3, <2>4 DEF ReaderInv
<1> QED
  BY <1>1, <1>2, CopyMoved, ReaderMoves

(***************************************************************************)
(* A refusal is right of some position                                     *)
(***************************************************************************)
(* A step of one request, by its client, the relay or the ledger *)
CallTurn(c) ==
    (\E e \in world.asks : Ask(c, e)) \/ RelayStep(c) \/ Lagging(c) \/ Land(c) \/ RelayFails(c)

\* Only a client or the relay changes a request, and neither changes the copy.
LEMMA SponsorMoved ==
    ASSUME [Next]_vars
    PROVE  \/ UNCHANGED <<call, latest>>
           \/ copy' = copy /\ world' = world /\ \E c \in Calls : CallTurn(c)
<1> USE DEF ledgerVars, copyVars, sponsorVars
<1>1. CASE Ledger \/ ShowFlags \/ Window
  BY <1>1 DEF Ledger, ShowFlags, Window, WindowPasses
<1>2. ASSUME NEW s \in Servers, Read(s) \/ ReadFails(s) PROVE UNCHANGED <<call, latest>>
  BY <1>2 DEF Read, ReadFails
<1>3. ASSUME NEW g \in Gates, Gate(g) PROVE UNCHANGED <<call, latest>>
  BY <1>3 DEF Gate
<1>4. ASSUME NEW c \in Calls, Request(c) \/ Relay(c) \/ Lags(c) \/ Lands(c) \/ Fails(c)
      PROVE  copy' = copy /\ world' = world /\ CallTurn(c)
  BY <1>4 DEF Request, Relay, Lags, Lands, Fails, CallTurn
<1> QED
  BY <1>1, <1>2, <1>3, <1>4 DEF Next, vars

\* What is so of a request stays so as the log and the copy grow.
LEMMA CallKept ==
    ASSUME LogInv, CopyInv, Kept, copy.records <= copy'.records, copy'.records \in Nat,
           NEW r \in CallRecord, CallOk(r)
    PROVE  CallOk(r)'
<1>1. /\ world' = world /\ copy.records \in Nat /\ copy.records <= Len(log) /\ Len(log) \in Nat
      /\ \A n \in 0 .. Len(log) : FactsIn(log', n) = FactsIn(log, n)
      /\ r.after \in Nat \cup {None}
  BY DEF LogInv, CopyInv, Copied, Prefix, Kept, CallRecord
<1>2. r.pc \in {"verify", "decide"} /\ r.round = 2 /\ r.after # None => r.after <= copy'.records
  BY <1>1 DEF CallOk
<1>3. ASSUME r.pc = "refused", r.after # None, ~r.rated
      PROVE  \E n \in r.after .. copy'.records :
                 ~(Verified(FactsIn(log', n), r.input) /\ Entitlement(FactsIn(log', n), r.input))
  <2>1. PICK n \in r.after .. copy.records :
               ~(Verified(FactsIn(log, n), r.input) /\ Entitlement(FactsIn(log, n), r.input))
    BY <1>3 DEF CallOk
  <2>2. n \in 0 .. Len(log) /\ n \in r.after .. copy'.records
    BY <1>1, <1>3
  <2> QED
    BY <1>1, <2>1, <2>2
<1> QED
  BY <1>1, <1>2, <1>3 DEF CallOk

\* A step of a request leaves it as it should be: a final refusal is of what the copy says, and the
\* copy has reached the cursor.
LEMMA SponsorTurn ==
    ASSUME LogInv, CopyInv, SponsorInv, NEW c \in Calls,
           CallTurn(c)
    PROVE  /\ latest' \in [Accounts -> Nat \cup {None}]
           /\ \E r \in CallRecord : call' = [call EXCEPT ![c] = r] /\ CallOk(r)
<1>1. /\ call \in [Calls -> CallRecord] /\ call[c] \in CallRecord /\ CallOk(call[c])
      /\ latest \in [Accounts -> Nat \cup {None}] /\ world.asks \subseteq Input
      /\ copy.records \in Nat /\ copy.facts = FactsIn(log, copy.records) /\ Len(log) + 1 \in Nat
  BY WorldsAssumption DEF SponsorInv, SponsorType, LogInv, CopyInv, Copied, Prefix
(* Steps to a pc of which nothing is claimed *)
<1>2. ASSUME NEW p \in CallPcs \ {"idle", "verify", "decide", "refused", "landed"},
               call[c].pc # "idle",
             call' = [call EXCEPT ![c].pc = p]
      PROVE  \E r \in CallRecord : call' = [call EXCEPT ![c] = r] /\ CallOk(r)
  <2> DEFINE r == [call[c] EXCEPT !.pc = p]
  <2>1. r \in CallRecord /\ call' = [call EXCEPT ![c] = r]
    BY <1>1, <1>2 DEF CallRecord
  <2>2. r.pc = p /\ r.input = call[c].input /\ r.round = call[c].round
    BY <1>1 DEF CallRecord
  <2> HIDE DEF r
  <2>3. CallOk(r)
    BY <1>1, <1>2, <2>2 DEF CallOk
  <2> QED
    BY <2>1, <2>3
<1>3. ASSUME NEW rated \in BOOLEAN, Refuse(c, rated), call[c].pc \in {"verify", "decide"},
             ~rated => ~(Verified(copy.facts, call[c].input)
                   /\ Entitlement(copy.facts, call[c].input))
      PROVE  \E r \in CallRecord : call' = [call EXCEPT ![c] = r] /\ CallOk(r)
  <2> DEFINE p == IF call[c].round = 1 /\ call[c].after # None THEN "wait" ELSE "refused"
             r == [call[c] EXCEPT !.rated = rated, !.pc = p]
  <2>0. p \in CallPcs /\ p \in {"wait", "refused"}
    BY DEF CallPcs
  <2>1. r \in CallRecord
    BY <1>1, <2>0 DEF CallRecord
  <2>2. call' = [call EXCEPT ![c] = r]
    BY <1>1, <1>3 DEF Refuse, CallRecord
  <2>3. /\ r.pc = p /\ r.rated = rated /\ r.input = call[c].input /\ r.round = call[c].round
        /\ r.after = call[c].after /\ r.after \in Nat \cup {None} /\ r.round \in {0, 1, 2}
    BY <1>1 DEF CallRecord
  <2>4. r.input \in world.asks /\ r.round # 0
    BY <1>1, <1>3, <2>3 DEF CallOk
  <2>5. p = "refused" /\ r.after # None => r.round = 2 /\ r.after <= copy.records
    BY <1>1, <1>3, <2>3, <2>4 DEF CallOk
  <2> HIDE DEF r, p
  <2>6. p = "refused" /\ r.after # None /\ ~rated =>
             /\ copy.records \in r.after .. copy.records
             /\ ~(Verified(FactsIn(log, copy.records), r.input)
                  /\ Entitlement(FactsIn(log, copy.records), r.input))
    BY <1>1, <1>3, <2>3, <2>5
  <2>7. CallOk(r)
    BY <2>0, <2>3, <2>4, <2>6 DEF CallOk
  <2> QED
    BY <2>1, <2>2, <2>7
<1>4. ASSUME Retry(c), call[c].pc # "idle"
      PROVE  \E r \in CallRecord : call' = [call EXCEPT ![c] = r] /\ CallOk(r)
  <2> DEFINE p == IF call[c].attempt < Attempts THEN "verify" ELSE "unavailable"
             r == [call[c] EXCEPT !.attempt = @ + 1, !.round = 1, !.pc = p]
  <2>0. p \in CallPcs /\ p \in {"verify", "unavailable"}
    BY DEF CallPcs
  <2>1. r \in CallRecord
    <3>1. call[c].attempt \in Nat /\ call[c].attempt + 1 \in Nat
      BY <1>1 DEF CallRecord
    <3> HIDE DEF p
    <3> QED
      BY <1>1, <2>0, <3>1 DEF CallRecord
  <2>2. call' = [call EXCEPT ![c] = r]
    BY <1>1, <1>4 DEF Retry, CallRecord
  <2>3. r.pc = p /\ r.input = call[c].input /\ r.round = 1
    BY <1>1 DEF CallRecord
  <2> HIDE DEF r, p
  <2>4. CallOk(r)
    BY <1>1, <1>4, <2>0, <2>3 DEF CallOk
  <2> QED
    BY <2>1, <2>2, <2>4
<1>5. ASSUME NEW e \in world.asks, Ask(c, e)
      PROVE  \E r \in CallRecord : call' = [call EXCEPT ![c] = r] /\ CallOk(r)
  <2> DEFINE r == [NoCall EXCEPT !.pc = "verify", !.input = e, !.after = latest[e.by],
        !.attempt = 1, !.round = 1]
  <2>1. e \in Input /\ latest[e.by] \in Nat \cup {None}
    BY <1>1 DEF Input
  <2>2. r \in CallRecord
    BY <2>1 DEF CallRecord, CallPcs, NoCall
  <2>3. r.pc = "verify" /\ r.input = e /\ r.round = 1
    BY DEF NoCall
  <2>4. call' = [call EXCEPT ![c] = r]
    BY <1>5 DEF Ask
  <2> HIDE DEF r
  <2>5. CallOk(r)
    BY <2>3 DEF CallOk
  <2> QED
    BY <2>2, <2>4, <2>5
<1>6. CASE Verify(c)
  <2>1. CASE Goto(c, "decide")
    <3> DEFINE r == [call[c] EXCEPT !.pc = "decide"]
    <3>1. r \in CallRecord /\ call' = [call EXCEPT ![c] = r]
      BY <1>1, <2>1 DEF CallRecord, CallPcs, Goto
    <3>2. r.pc = "decide" /\ r.input = call[c].input /\ r.round = call[c].round
            /\ r.after = call[c].after
      BY <1>1 DEF CallRecord
    <3> HIDE DEF r
    <3>3. CallOk(r)
      BY <1>1, <1>6, <3>2 DEF CallOk, Verify
    <3> QED
      BY <1>1, <1>6, <3>1, <3>3 DEF Verify
  <2> QED
    BY <1>1, <1>3, <1>6, <2>1 DEF Verify
<1>7. CASE Decide(c)
  BY <1>1, <1>2, <1>3, <1>7 DEF Decide, Goto, CallPcs
<1>8. CASE DecideAgain(c)
  <2> DEFINE r == [call[c] EXCEPT !.pc = "verify", !.round = 2]
  <2>1. r \in CallRecord /\ call' = [call EXCEPT ![c] = r]
    BY <1>1, <1>8 DEF CallRecord, CallPcs, DecideAgain
  <2>2. /\ r.pc = "verify" /\ r.input = call[c].input /\ r.round = 2 /\ r.after = call[c].after
        /\ r.after \in Nat \cup {None}
    BY <1>1 DEF CallRecord
  <2>3. call[c].pc = "wait" /\ (call[c].after # None => call[c].after <= copy.records)
    BY <1>1, <1>8, <2>2 DEF DecideAgain, Reached
  <2> HIDE DEF r
  <2>4. CallOk(r)
    BY <1>1, <2>2, <2>3 DEF CallOk
  <2> QED
    BY <1>1, <1>8, <2>1, <2>4 DEF DecideAgain
<1>9. CASE Settle(c)
  <2>1. call[c].pc = "landed" /\ call[c].cursor \in Nat /\ call[c].input \in Input
    BY <1>1, <1>9 DEF Settle, CallOk
  <2>2. latest' \in [Accounts -> Nat \cup {None}]
    BY <1>1, <1>9, <2>1 DEF Settle, Input
  <2> QED
    BY <1>2, <1>9, <2>1, <2>2 DEF Settle, Goto, CallPcs
<1>10. CASE RejectWrite(c)
  BY <1>1, <1>2, <1>10 DEF RejectWrite, Goto, CallPcs
<1>11. CASE Lagging(c)
  BY <1>1, <1>4, <1>11 DEF Lagging
<1>12. CASE Land(c)
  <2> DEFINE r == [call[c] EXCEPT !.pc = "landed", !.cursor = Len(log) + 1]
  <2>1. r \in CallRecord
    BY <1>1 DEF CallRecord, CallPcs
  <2>2. call' = [call EXCEPT ![c] = r] /\ call[c].pc = "sign"
    BY <1>1, <1>12 DEF CallRecord, Land
  <2>3. r.pc = "landed" /\ r.input = call[c].input /\ r.round = call[c].round
          /\ r.cursor = Len(log) + 1
    BY <1>1 DEF CallRecord
  <2> HIDE DEF r
  <2>4. CallOk(r)
    BY <1>1, <2>2, <2>3 DEF CallOk
  <2> QED
    BY <1>1, <1>12, <2>1, <2>2, <2>4 DEF Land
<1>13. CASE RelayFails(c)
  BY <1>1, <1>2, <1>4, <1>13 DEF RelayFails, AtRelay, Goto, CallPcs
<1> QED
  BY <1>5, <1>1, <1>6, <1>7, <1>8, <1>9, <1>10, <1>11, <1>12, <1>13 DEF RelayStep, Ask, CallTurn

\* Every step keeps all of the requests as they should be.
LEMMA SponsorStep ==
    ASSUME IInv, [Next]_vars, Kept, CopyInv', copy.records <= copy'.records
    PROVE  SponsorInv'
<1>1. /\ LogInv /\ CopyInv /\ SponsorInv /\ call \in [Calls -> CallRecord] /\ copy'.records \in Nat
      /\ \A c \in Calls : CallOk(call[c])
  BY DEF IInv, SponsorInv, SponsorType, CopyInv, Copied
<1>2. ASSUME NEW r \in CallRecord, CallOk(r) PROVE CallOk(r)'
  BY <1>1, <1>2, CallKept
<1>3. CASE UNCHANGED <<call, latest>>
  BY <1>1, <1>2, <1>3 DEF SponsorInv, SponsorType
<1>4. ASSUME NEW c \in Calls,
             CallTurn(c)
      PROVE  SponsorInv'
  <2>1. /\ latest' \in [Accounts -> Nat \cup {None}]
        /\ \E r \in CallRecord : call' = [call EXCEPT ![c] = r] /\ CallOk(r)
    BY <1>1, <1>4, SponsorTurn
  <2>2. PICK r \in CallRecord : call' = [call EXCEPT ![c] = r] /\ CallOk(r)
    BY <2>1
  <2>3. call' \in [Calls -> CallRecord] /\ \A d \in Calls : call'[d] = IF d = c THEN r ELSE call[d]
    BY <1>1, <2>2
  <2>4. ASSUME NEW d \in Calls PROVE call'[d] \in CallRecord /\ CallOk(call[d])'
    <3>1. \E q \in CallRecord : call'[d] = q /\ CallOk(q)
      BY <1>1, <2>2, <2>3
    <3>2. PICK q \in CallRecord : call'[d] = q /\ CallOk(q)
      BY <3>1
    <3>3. CallOk(q)'
      BY <1>2, <3>2
    <3> QED
      BY <3>2, <3>3 DEF CallOk
  <2> QED
    BY <2>1, <2>3, <2>4 DEF SponsorInv, SponsorType
<1> QED
  BY <1>3, <1>4, SponsorMoved

(***************************************************************************)
(* A flag is right of the position shown with it                           *)
\* Only the gates and the flags' queries change either, and they change no copy.
LEMMA FlagMoved ==
    ASSUME [Next]_vars
    PROVE  \/ UNCHANGED flagVars
           \/ FlagStep /\ UNCHANGED <<ledgerVars, copyVars>>
           \/ \E g \in Gates : \/ GateStep(g) /\ UNCHANGED <<ledgerVars, copyVars>>
                               \/ RecordPass(g) /\ copy' = copy /\ clock' = clock /\ world' = world
  BY DEF Next, vars, copyVars, Ledger, Window, ShowFlags, Read, ReadFails, Request, Relay, Lags,
     Lands, Fails, Gate

\* A position shown is one the copy has passed, with the time it was recorded.
LEMMA HeadKept ==
    ASSUME LogInv, CopyInv, Kept, copy.records <= copy'.records, copy'.records \in Nat,
           NEW h \in Position, HeadOk(h)
    PROVE  HeadOk(h)'
<1>1. /\ copy.records \in Nat /\ copy.records <= Len(log) /\ Len(log) \in Nat /\ h.records \in Nat
      /\ h.records <= copy.records /\ h.at = RecordedAt(h.records) /\ Len(log') \in Nat
      /\ \A n \in 1 .. Len(log) : log'[n] = log[n]
  BY DEF LogInv, CopyInv, Copied, Prefix, Kept, HeadOk, Position
<1>2. h.records <= copy'.records
  BY <1>1
<1>3. h.at = RecordedAt(h.records)'
  <2>1. CASE h.records = 0
    BY <1>1, <2>1 DEF RecordedAt
  <2>2. CASE h.records # 0
    <3>1. h.records \in 1 .. Len(log)
      BY <1>1, <2>2
    <3> QED
      BY <1>1, <2>2, <3>1 DEF RecordedAt
  <2> QED
    BY <2>1, <2>2
<1> QED
  BY <1>2, <1>3 DEF HeadOk

\* A cause stays the same while the report does.
LEMMA CauseKept ==
    ASSUME NEW g \in Gates, NEW l, NEW f, NEW h,
           gate'[g].report = gate[g].report, gate'[g].at = gate[g].at,
                 gate'[g].drift = gate[g].drift
    PROVE  Cause(g, l, f, h)' = Cause(g, l, f, h)
  BY DEF Cause, Deadline

\* A flag stays right as the log and the copy grow and gates report.
LEMMA FlagKept ==
    ASSUME LogInv, CopyInv, Kept, copy.records <= copy'.records, copy'.records \in Nat,
           NEW g \in Gates, NEW r \in FlagRecord, FlagOk(g, r),
           gate[g].report # "none" => /\ gate'[g].report = gate[g].report
                                      /\ gate'[g].at = gate[g].at /\ gate'[g].drift = gate[g].drift
    PROVE  FlagOk(g, r)'
<1>1. r.head \in Position /\ HeadOk(r.head)
  BY DEF FlagRecord, FlagOk
<1>2. HeadOk(r.head)'
  BY <1>1, HeadKept
<1>3. FactsIn(log', r.head.records) = FactsIn(log, r.head.records)
  <2>1. r.head.records \in 0 .. Len(log)
    BY <1>1 DEF HeadOk, Position, CopyInv, Copied, Prefix, LogInv
  <2> QED
    BY <2>1 DEF Kept
<1>4. ASSUME r.cause # "none"
      PROVE  (g \in Filed)' /\ r.cause = Cause(g, r.listed, FactsIn(log, r.head.records), r.head)'
  <2>1. g \in Filed /\ r.cause = Cause(g, r.listed, FactsIn(log, r.head.records), r.head)
    BY <1>4 DEF FlagOk
  <2>2. /\ gate[g].report # "none" /\ gate'[g].report = gate[g].report
        /\ gate'[g].at = gate[g].at /\ gate'[g].drift = gate[g].drift
    BY <2>1 DEF Filed
  <2>3. PICK f : f = FactsIn(log, r.head.records)
    OBVIOUS
  <2>4. Cause(g, r.listed, f, r.head)' = Cause(g, r.listed, f, r.head)
    BY <2>2, CauseKept
  <2>5. Cause(g, r.listed, FactsIn(log, r.head.records), r.head)' = Cause(g, r.listed, f, r.head)'
    BY <1>3, <2>3 DEF Cause, Deadline
  <2> QED
    BY <2>1, <2>2, <2>3, <2>4, <2>5 DEF Filed
<1> QED
  BY <1>2, <1>4 DEF FlagOk

\* What a flag's queries see at a later position is, within the head, what the head held.
LEMMA CauseAtHead ==
    ASSUME LogInv, NEW g \in Gates, NEW listed, NEW h \in Position,
           NEW n \in 0 .. Len(log), h.records <= n
    PROVE  Cause(g, listed, FactsIn(log, n), h) = Cause(g, listed, FactsIn(log, h.records), h)
<1> DEFINE m == h.records
           f == FactsIn(log, n)
           d == FactsIn(log, m)
<1>1. log \in Seq(Record) /\ IsLog(log) /\ m \in 0 .. n /\ m \in 0 .. Len(log)
  BY DEF LogInv, Position
<1>2. Good(log, n) /\ Good(log, m)
  BY <1>1, LogIsGood
<1>3. Extends(f.passes, d.passes, m) /\ Extends(f.transfers, d.transfers, m)
  BY <1>1, <1>2 DEF Good
<1> HIDE DEF f, d
<1>4. Within(ConsumedPass(f, Pass.arg), h) = Within(ConsumedPass(d, Pass.arg), h)
  BY <1>3 DEF Extends, Within, ConsumedPass
<1>5. Within(TransfersSince(f, gate[g].at), h) = Within(TransfersSince(d, gate[g].at), h)
  BY <1>3 DEF Extends, Within, TransfersSince
<1>6. Cause(g, listed, f, h) = Cause(g, listed, d, h)
  BY <1>4, <1>5 DEF Cause
<1> QED
  BY <1>6 DEF f, d

\* A cause is one of six.
LEMMA CauseType ==
    ASSUME NEW g, NEW listed, NEW f, NEW h
    PROVE  Cause(g, listed, f, h) \in Causes
  BY DEF Cause, Causes

(* A gate's report is made once, of a pass it admitted; a pass the ledger accepted is recorded. *)
GateKeeps ==
    \A g \in Gates : gate[g].report # "none" =>
        /\ gate'[g].report = gate[g].report
        /\ gate'[g].at = gate[g].at /\ gate'[g].drift = gate[g].drift

\* A recorded pass stays recorded.
LEMMA PassesGrow ==
    ASSUME LogInv, LogInv', Kept, ConsumedPass(Now, Pass.arg) # {}
    PROVE  ConsumedPass(Now, Pass.arg)' # {}
<1>1. /\ log' \in Seq(Record) /\ IsLog(log') /\ Len(log) \in Nat /\ Len(log') \in Nat
      /\ Len(log) <= Len(log')
  BY DEF LogInv, Kept
<1>2. Good(log', Len(log'))
  <2>1. PICK l \in Seq(Record) : l = log'
    BY <1>1
  <2>2. IsLog(l) /\ Len(l) \in 0 .. Len(l)
    BY <1>1, <2>1
  <2>3. Good(l, Len(l))
    BY <2>2, LogIsGood
  <2> QED
    BY <2>1, <2>3
<1>3. Len(log) \in 0 .. Len(log')
  BY <1>1
<1>4. FactsIn(log', Len(log)).passes \subseteq FactsIn(log', Len(log')).passes
  BY <1>2, <1>3 DEF Good, Extends
<1>5. FactsIn(log', Len(log)) = FactsIn(log, Len(log))
  BY <1>1 DEF Kept
<1> QED
  BY <1>4, <1>5 DEF ConsumedPass, Now, FactsAt

\* Gates that do nothing stay as they should be.
LEMMA GateStays == ASSUME LogInv, LogInv', Kept, GateInv, UNCHANGED gate PROVE GateInv' /\ GateKeeps
  BY PassesGrow DEF GateInv, GateOk, GateKeeps

\* A gate reports once, about a pass it admitted, and what the ledger accepted is recorded.
LEMMA GateMoves ==
    ASSUME LogInv, LogInv', Kept, GateInv, NEW g \in Gates,
           \/ GateStep(g)
           \/ RecordPass(g) /\ clock' = clock /\ world' = world
    PROVE  GateInv' /\ GateKeeps /\ UNCHANGED <<view, flags>>
<1>1. /\ gate \in [Gates -> GateRecord] /\ gate[g] \in GateRecord /\ GateOk(gate[g])
      /\ clock \in Nat
      /\ \A o \in Gates : gate[o].submission = "accepted" => ConsumedPass(Now, Pass.arg)' # {}
  BY PassesGrow DEF GateInv, GateOk, LogInv
<1>2. ASSUME NEW x \in GateRecord, gate' = [gate EXCEPT ![g] = x],
             x.submission # "none" => x.at \in Nat, x.report # "none" => x.submission # "none",
             x.submission = "accepted" => ConsumedPass(Now, Pass.arg)' # {},
             gate[g].report # "none" => x.report = gate[g].report /\ x.at = gate[g].at
                   /\ x.drift = gate[g].drift
      PROVE  GateInv' /\ GateKeeps
  <2>1. gate' \in [Gates -> GateRecord] /\ \A o \in Gates : gate'[o] = IF o = g THEN x ELSE gate[o]
    BY <1>1, <1>2
  <2>2. ASSUME NEW o \in Gates PROVE GateOk(gate[o])'
    <3>1. CASE o = g
      BY <1>2, <2>1, <3>1 DEF GateOk
    <3>2. CASE o # g
      BY <1>1, <2>1, <3>2 DEF GateInv, GateOk
    <3> QED
      BY <3>1, <3>2
  <2> QED
    BY <1>2, <2>1, <2>2 DEF GateInv, GateKeeps
<1>3. CASE Present(g)
  <2>1. PICK drift \in BOOLEAN :
               gate' = [gate EXCEPT ![g].at = clock, ![g].drift = drift, ![g].submission = "sent"]
    BY <1>3 DEF Present
  <2> DEFINE x == [gate[g] EXCEPT !.at = clock, !.drift = drift, !.submission = "sent"]
  <2>2. x \in GateRecord /\ x.at = clock /\ x.submission = "sent" /\ x.report = gate[g].report
    BY <1>1 DEF GateRecord, Verdicts
  <2>3. gate' = [gate EXCEPT ![g] = x]
    BY <1>1, <2>1 DEF GateRecord
  <2>4. gate[g].report = "none"
    BY <1>3 DEF Present, NotPresented
  <2> HIDE DEF x
  <2> QED
    BY <1>1, <1>2, <1>3, <2>2, <2>3, <2>4 DEF Present
<1>4. ASSUME NEW v \in Verdicts, gate[g].submission = "sent",
               gate' = [gate EXCEPT ![g].submission = v],
             v # "none", v = "accepted" => ConsumedPass(Now, Pass.arg)' # {}
      PROVE  GateInv' /\ GateKeeps
  <2> DEFINE x == [gate[g] EXCEPT !.submission = v]
  <2>1. /\ x \in GateRecord /\ x.submission = v /\ x.at = gate[g].at /\ x.report = gate[g].report
        /\ x.drift = gate[g].drift
    BY <1>1 DEF GateRecord
  <2>2. gate' = [gate EXCEPT ![g] = x] /\ gate[g].at \in Nat
    BY <1>1, <1>4 DEF GateRecord, GateOk
  <2> HIDE DEF x
  <2> QED
    BY <1>2, <1>4, <2>1, <2>2
<1>5. CASE RecordPass(g) /\ clock' = clock /\ world' = world
  <2>1. Pass \in Input /\ Grown(Pass) /\ Pass.kind = "accessPass"
    <3>1. Pass \in Input /\ Pass \in InputsOf(world) /\ Pass.kind = "accessPass"
      BY LogAssumption DEF Pass, Input, Kinds, Accounts, InputsOf
    <3> QED
      BY <1>5, <3>1 DEF RecordPass, Grown
  <2>2. Now' = Effect(Now, Pass, Len(log) + 1, clock)
    BY <2>1, GrownLog
  <2>3. Now \in Facts /\ Len(log) + 1 \in Nat
    <3>1. log \in Seq(Record) /\ Len(log) \in 0 .. Len(log)
      BY DEF LogInv
    <3> QED
      BY <3>1, FactsTyped DEF Now, FactsAt
  <2>4. EffectOn(Effect(Now, Pass, Len(log) + 1, clock), Now, Pass, Len(log) + 1, clock)
    BY <1>1, <2>1, <2>3, EffectIs
  <2>5. [pass |-> Pass.arg, sequence |-> Len(log) + 1] \in Now'.passes
    BY <2>1, <2>2, <2>4 DEF EffectOn
  <2>6. ConsumedPass(Now, Pass.arg)' # {}
    <3>1. [pass |-> Pass.arg, sequence |-> Len(log) + 1].pass = Pass.arg
      OBVIOUS
    <3> QED
      BY <2>5, <3>1 DEF ConsumedPass, Pass
  <2> QED
    BY <1>4, <1>5, <2>6 DEF RecordPass, Verdicts
<1>6. CASE RefusePass(g)
  <2> DEFINE v == IF clock > PassLife THEN "ERR-PassExpired"
                  ELSE IF ConsumedPass(Now, Pass.arg) # {} THEN "ERR-PassReplayed"
                  ELSE IF Now.holder # Pass.by THEN "ERR-InvalidPass" ELSE "other"
  <2>1. v \in Verdicts /\ v \notin {"none", "accepted"}
    BY DEF Verdicts
  <2>2. gate[g].submission = "sent" /\ gate' = [gate EXCEPT ![g].submission = v]
    BY <1>6 DEF RefusePass
  <2> HIDE DEF v
  <2> QED
    BY <1>4, <1>6, <2>1, <2>2 DEF RefusePass
<1>7. CASE Report(g)
  <2> DEFINE v == IF gate[g].submission = "sent" THEN "failed" ELSE gate[g].submission
             x == [gate[g] EXCEPT !.report = v]
  <2>1. v \in Verdicts
    BY <1>1 DEF GateRecord, Verdicts
  <2>2. gate[g].submission # "none" /\ gate[g].report = "none" /\ gate' = [gate EXCEPT ![g] = x]
    BY <1>1, <1>7 DEF Report, GateRecord
  <2> HIDE DEF v
  <2>3. x \in GateRecord /\ x.submission = gate[g].submission /\ x.at = gate[g].at
    BY <1>1, <2>1 DEF GateRecord
  <2> HIDE DEF x
  <2> QED
    BY <1>1, <1>2, <1>7, <2>2, <2>3 DEF Report, GateOk
<1> QED
  BY <1>3, <1>5, <1>6, <1>7 DEF GateStep, Present, RefusePass, Report, RecordPass

\* The flags' queries, one statement each, leave the view and the flags as they should be.
LEMMA FlagMoves ==
    ASSUME LogInv, CopyInv, FlagInv, FlagStep, UNCHANGED <<ledgerVars, copyVars>>
    PROVE  FlagInv'
<1>1. /\ log' = log /\ copy' = copy /\ gate' = gate /\ GateInv /\ view \in ViewRecord
      /\ HeadOk(view.head)
      /\ view.todo \subseteq view.listed /\ view.listed \subseteq Filed
      /\ flags \in [Gates -> FlagRecord] /\ \A g \in Gates : FlagOk(g, flags[g])
  BY DEF FlagInv, ViewInv, FlagsInv, ledgerVars, copyVars, FlagStep, ReadHead, ListReports, Match
<1>2. GateInv'
  BY <1>1 DEF GateInv, GateOk, Now, FactsAt
<1>3. ASSUME NEW h \in Position, HeadOk(h) PROVE HeadOk(h)'
  BY <1>1, <1>3 DEF HeadOk, RecordedAt
<1>4. ASSUME NEW g \in Gates, NEW r \in FlagRecord, FlagOk(g, r) PROVE FlagOk(g, r)'
  BY <1>1, <1>4 DEF FlagOk, HeadOk, RecordedAt, Filed, Cause, Deadline
<1>5. UNCHANGED flags => FlagsInv'
  BY <1>1, <1>4 DEF FlagsInv
<1>6. NoView \in ViewRecord /\ HeadOk(NoView.head)' /\ NoView.listed = {} /\ NoView.todo = {}
  BY <1>1 DEF NoView, ViewRecord, Position, HeadOk, RecordedAt, CopyInv, Copied
<1>7. CASE ReadHead
  <2> DEFINE v == [NoView EXCEPT !.pc = "list", !.head = CopyHead]
  <2>1. CopyHead \in Position /\ HeadOk(CopyHead)
    <3>1. /\ copy.records \in Nat /\ copy.records \in 0 .. Len(log) /\ log \in Seq(Record)
      BY DEF CopyInv, Copied, Prefix, LogInv
    <3>2. copy.records # 0 => log[copy.records] \in Record
      BY <3>1
    <3>3. RecordedAt(copy.records) \in Nat \cup {None}
      BY <3>2 DEF RecordedAt, Record
    <3> QED
      BY <3>1, <3>3 DEF CopyHead, Position, HeadOk
  <2>2. v \in ViewRecord /\ v.head = CopyHead /\ v.listed = {} /\ v.todo = {}
    BY <2>1 DEF NoView, ViewRecord, Position
  <2>3. view' = v /\ UNCHANGED flags
    BY <1>7 DEF ReadHead
  <2> HIDE DEF v
  <2>4. HeadOk(view.head)'
    <3>1. PICK h \in Position : h = CopyHead
      BY <2>1
    <3> QED
      BY <1>3, <2>1, <2>2, <2>3, <3>1 DEF HeadOk
  <2> QED
    BY <1>2, <1>5, <2>2, <2>3, <2>4 DEF FlagInv, ViewInv
<1>8. CASE ListReports
  <2> DEFINE v == [view EXCEPT !.pc = "match", !.listed = Filed, !.todo = Filed]
  <2>1. v \in ViewRecord /\ v.head = view.head /\ v.listed = Filed /\ v.todo = Filed
    BY <1>1 DEF ViewRecord, Filed
  <2>2. view' = v /\ UNCHANGED flags
    BY <1>8 DEF ListReports, Filed
  <2> HIDE DEF v
  <2>3. HeadOk(view.head)' /\ Filed' = Filed
    BY <1>1, <2>1, <2>2 DEF HeadOk, RecordedAt, Filed
  <2> QED
    BY <1>2, <1>5, <2>1, <2>2, <2>3 DEF FlagInv, ViewInv
<1>9. ASSUME NEW g \in Gates, Match(g) PROVE FlagInv'
  <2> DEFINE r == [cause |-> Cause(g, view.listed, copy.facts, view.head), head |-> view.head,
        listed |-> view.listed]
  <2>1. g \in view.todo /\ g \in Filed /\ flags' = [flags EXCEPT ![g] = r]
    BY <1>1, <1>9 DEF Match
  <2>2. /\ r \in FlagRecord /\ r.head = view.head /\ r.listed = view.listed
        /\ r.cause = Cause(g, view.listed, copy.facts, view.head)
    BY <1>1, CauseType DEF FlagRecord, ViewRecord
  <2>3. r.cause = Cause(g, view.listed, FactsIn(log, view.head.records), view.head)
    <3>1. /\ copy.records \in 0 .. Len(log) /\ copy.facts = FactsIn(log, copy.records)
          /\ view.head \in Position /\ view.head.records <= copy.records
      BY <1>1 DEF CopyInv, Prefix, HeadOk
    <3> HIDE DEF r
    <3> QED
      BY <2>2, <3>1, CauseAtHead
  <2> HIDE DEF r
  <2>4. FlagOk(g, r)
    BY <1>1, <2>1, <2>2, <2>3 DEF FlagOk
  <2>5. FlagsInv'
    <3>1. flags' \in [Gates -> FlagRecord]
            /\ \A o \in Gates : flags'[o] = IF o = g THEN r ELSE flags[o]
      BY <1>1, <2>1, <2>2
    <3>2. ASSUME NEW o \in Gates PROVE FlagOk(o, flags[o])'
      <4>1. \E q \in FlagRecord : flags'[o] = q /\ FlagOk(o, q)
        BY <1>1, <2>2, <2>4, <3>1
      <4>2. PICK q \in FlagRecord : flags'[o] = q /\ FlagOk(o, q)
        BY <4>1
      <4>3. FlagOk(o, q)'
        BY <1>4, <4>2
      <4> QED
        BY <4>2, <4>3 DEF FlagOk
    <3> QED
      BY <3>1, <3>2 DEF FlagsInv
  <2>6. ViewInv'
    <3>1. CASE view' = NoView
      BY <1>6, <3>1 DEF ViewInv, HeadOk
    <3>2. CASE view' = [view EXCEPT !.todo = @ \ {g}]
      BY <1>1, <3>2 DEF ViewInv, ViewRecord, HeadOk, RecordedAt, Filed
    <3> QED
      BY <1>9, <3>1, <3>2 DEF Match
  <2> QED
    BY <1>2, <2>5, <2>6 DEF FlagInv
<1> QED
  BY <1>7, <1>8, <1>9 DEF FlagStep

\* Every step does.
LEMMA FlagInvStep ==
    ASSUME IInv, [Next]_vars, LogInv', Kept, CopyInv', copy.records <= copy'.records
    PROVE  FlagInv'
<1>1. LogInv /\ CopyInv /\ FlagInv /\ GateInv /\ ViewInv /\ FlagsInv /\ copy'.records \in Nat
  BY DEF IInv, FlagInv, CopyInv, Copied
<1>2. ASSUME UNCHANGED <<view, flags>>, GateInv', GateKeeps PROVE FlagInv'
  <2>1. ASSUME NEW h \in Position, HeadOk(h) PROVE HeadOk(h)'
    BY <1>1, <2>1, HeadKept
  <2>2. ViewInv'
    <3>1. PICK h \in Position : h = view.head
      BY <1>1 DEF ViewInv, ViewRecord
    <3>2. HeadOk(h)'
      BY <1>1, <2>1, <3>1 DEF ViewInv
    <3>3. Filed \subseteq Filed'
      BY <1>2 DEF GateKeeps, Filed
    <3> QED
      BY <1>1, <1>2, <3>1, <3>2, <3>3 DEF ViewInv, HeadOk
  <2>3. FlagsInv'
    <3>1. ASSUME NEW g \in Gates PROVE FlagOk(g, flags[g])'
      <4>1. PICK r \in FlagRecord : r = flags[g]
        BY <1>1 DEF FlagsInv
      <4>2. FlagOk(g, r)
        BY <1>1, <4>1 DEF FlagsInv
      <4>3. FlagOk(g, r)'
        BY <1>1, <1>2, <4>2, FlagKept DEF GateKeeps
      <4> QED
        BY <1>2, <4>1, <4>3 DEF FlagOk
    <3> QED
      BY <1>1, <1>2, <3>1 DEF FlagsInv
  <2> QED
    BY <1>2, <2>2, <2>3 DEF FlagInv
<1>3. CASE UNCHANGED flagVars
  BY <1>1, <1>2, <1>3, GateStays DEF flagVars
<1>4. CASE FlagStep /\ UNCHANGED <<ledgerVars, copyVars>>
  BY <1>1, <1>4, FlagMoves
<1>5. ASSUME NEW g \in Gates, GateStep(g) \/ (RecordPass(g) /\ clock' = clock
               /\ world' = world) PROVE FlagInv'
  BY <1>1, <1>2, <1>5, GateMoves
<1> QED
  BY <1>3, <1>4, <1>5, FlagMoved

(***************************************************************************)
(* Theorems                                                                *)
\* Every world starts as it should be.
LEMMA InitInv == Init => IInv
<1> SUFFICES ASSUME Init PROVE IInv
  OBVIOUS
<1>1. /\ world \in Worlds /\ log = world.start /\ clock = 0 /\ log \in Seq(Record) /\ IsLog(log)
      /\ \A n \in 1 .. Len(log) : log[n].at = 0 /\ log[n].entry \in InputsOf(world)
      /\ world.read \in 0 .. Len(log) /\ Len(log) \in Nat
  BY WorldsAssumption DEF Init, LedgerInit, InputsOf
<1>2. LogInv
  BY <1>1, LogAssumption DEF LogInv
<1>3. copy = [facts |-> FactsIn(log, world.read), records |-> world.read]
        /\ reader = [s \in Servers |-> Resting]
  BY DEF Init, CopyInit, FactsAt
<1>4. CopyInv
  <2>1. FactsIn(log, world.read) \in Facts
    BY <1>1, FactsTyped
  <2> QED
    BY <1>1, <1>3, <2>1 DEF CopyInv, Copied, Prefix
<1>5. ReaderInv
  <2>1. Resting \in ReaderRecord /\ Resting.pc = "idle"
    BY NoFactsType DEF Resting, ReaderRecord, Copied, EmptyCopy
  <2> QED
    BY <1>3, <2>1 DEF ReaderInv
<1>6. SponsorInv
  BY DEF Init, SponsorInit, SponsorInv, SponsorType, CallRecord, CallPcs, CallOk, NoCall
<1>7. FlagInv
  <2>1. /\ NoView.head \in Position /\ HeadOk(NoView.head)
    BY <1>1, <1>3 DEF NoView, Position, HeadOk, RecordedAt
  <2>2. GateInv
    BY DEF Init, FlagInit, GateInv, GateRecord, NotPresented, Verdicts, GateOk
  <2>3. ViewInv
    BY <2>1 DEF Init, FlagInit, ViewInv, ViewRecord, NoView
  <2>4. NoFlag \in FlagRecord /\ NoFlag.cause = "none" /\ NoFlag.head = NoView.head
    BY <2>1 DEF NoFlag, FlagRecord, Causes
  <2>5. FlagsInv
    BY <2>1, <2>4 DEF Init, FlagInit, FlagsInv, FlagOk
  <2> QED
    BY <2>2, <2>3, <2>5 DEF FlagInv
<1> QED
  BY <1>2, <1>4, <1>5, <1>6, <1>7 DEF IInv

\* Every step keeps the invariant.
LEMMA StepInv == ASSUME RestrictionsApart, IInv, [Next]_vars PROVE IInv'
<1>1. LogInv' /\ Kept
  BY LogMoved, LogStep DEF IInv
<1>2. CopyInv' /\ ReaderInv' /\ copy.records <= copy'.records
  BY <1>1, CopyStep
<1>3. SponsorInv' /\ FlagInv'
  BY <1>1, <1>2, SponsorStep, FlagInvStep
<1> QED
  BY <1>1, <1>2, <1>3 DEF IInv

\* The invariant of the log, the copy, the readers, the relay, the gates and the flags always holds.
THEOREM Inductive == ASSUME RestrictionsApart PROVE Spec => []IInv
<1>1. Init => IInv
  BY InitInv
<1>2. IInv /\ [Next]_vars => IInv'
  BY StepInv
<1> QED
  BY <1>1, <1>2, PTL DEF Spec

\* The copy is the ledger as it was after a prefix of its log, whichever of any number of servers
\* read, stop or fail, and wherever in a batch of any size (reader.ts step, ledger-facts.ts).
THEOREM CopyFollowsLedgerAlways == ASSUME RestrictionsApart PROVE Spec => []CopyFollowsLedger
<1>1. IInv => CopyFollowsLedger
  BY DEF IInv, LogInv, CopyInv, Copied, Prefix, CopyFollowsLedger, FactsAt
<1> QED
  BY <1>1, Inductive, PTL

\* A final refusal of a request that named a cursor is of an input that was not entitled at some
\* point of the ledger at or after it, rate limits apart (sponsor/relay.ts sponsor and decide).
THEOREM EntitledNotRefusedAlways == ASSUME RestrictionsApart PROVE Spec => []EntitledNotRefused
<1>1. IInv => EntitledNotRefused
  BY DEF IInv, SponsorInv, CallOk, EntitledNotRefused, FactsAt
<1> QED
  BY <1>1, Inductive, PTL

\* A pass flagged as not recorded is not in the log, whose later records are all too late for it.
LEMMA NotRecorded ==
    ASSUME IInv, NEW g \in Gates, flags[g].cause = "not-recorded"
    PROVE  gate[g].submission # "accepted" /\ ConsumedPass(Now, Pass.arg) = {}
<1> DEFINE h == flags[g].head
           d == FactsIn(log, h.records)
<1>1. /\ log \in Seq(Record) /\ IsLog(log) /\ Len(log) \in Nat
      /\ \A n \in 1 .. Len(log) : log[n].entry.kind = "accessPass" => log[n].at <= PassLife
      /\ \A n \in 1 .. Len(log) : \A m \in 1 .. n : log[m].at <= log[n].at
  BY DEF IInv, LogInv
<1>2. /\ FlagOk(g, flags[g]) /\ flags[g] \in FlagRecord /\ gate[g] \in GateRecord /\ GateOk(gate[g])
      /\ copy.records <= Len(log) /\ copy.records \in Nat
  BY DEF IInv, FlagInv, FlagsInv, GateInv, CopyInv, Copied, Prefix, LogInv
<1>3. /\ h \in Position /\ h.records \in Nat /\ h.records <= copy.records
      /\ h.at = RecordedAt(h.records)
      /\ gate[g].report # "none" /\ Cause(g, flags[g].listed, d, h) = "not-recorded"
  BY <1>2 DEF FlagOk, FlagRecord, HeadOk, Position, Filed
<1>4. gate[g].at \in Nat
  BY <1>2, <1>3 DEF GateOk
<1> HIDE DEF d, h
<1>5. h.at # None /\ h.at > Deadline(g) /\ Within(ConsumedPass(d, Pass.arg), h) = {}
  BY <1>3 DEF Cause
<1> USE DEF d, h
<1>6. h.records \in 1 .. Len(log) /\ h.at = log[h.records].at
  BY <1>1, <1>2, <1>3, <1>5 DEF RecordedAt
<1>7. log[h.records].at > PassLife /\ log[h.records].at \in Nat
  <2>1. log[h.records] \in Record
    BY <1>1, <1>6
  <2>2. log[h.records].at \in Nat
    BY <2>1 DEF Record
  <2> QED
    BY <1>4, <1>5, <1>6, <2>2, LogAssumption DEF Deadline
<1>8. ConsumedPass(Now, Pass.arg) = {}
  <2> SUFFICES ASSUME NEW p \in ConsumedPass(Now, Pass.arg) PROVE FALSE
    OBVIOUS
  <2>1. Good(log, Len(log))
    BY <1>1, LogIsGood
  <2>2. p \in FactsIn(log, Len(log)).passes /\ p.pass = Pass.arg
    BY DEF ConsumedPass, Now, FactsAt
  <2>3. p.sequence \in 1 .. Len(log) /\ log[p.sequence].entry.kind = "accessPass"
    BY <2>1, <2>2 DEF Good
  <2>4. log[p.sequence].at <= PassLife
    BY <1>1, <2>3
  <2>5. CASE p.sequence <= h.records
    <3>1. h.records \in 0 .. Len(log)
      BY <1>6
    <3>2. p \in d.passes
      BY <2>1, <2>2, <2>5, <3>1 DEF Good, Extends
    <3> QED
      BY <1>5, <2>2, <2>5, <3>2 DEF Within, ConsumedPass
  <2>6. CASE ~(p.sequence <= h.records)
    <3>1. h.records \in 1 .. p.sequence
      BY <1>6, <2>3, <2>6
    <3>2. log[h.records].at <= log[p.sequence].at
      BY <1>1, <2>3, <3>1
    <3>3. log[p.sequence] \in Record
      BY <1>1, <2>3
    <3>4. log[p.sequence].at \in Nat
      BY <3>3 DEF Record
    <3> QED
      BY <1>7, <2>4, <3>2, <3>4, LogAssumption
  <2> QED
    BY <2>5, <2>6
<1> QED
  BY <1>2, <1>8 DEF GateOk

\* A flag says what the copy held at the position shown with it, although its queries run later, and
\* a pass flagged as not recorded never is (admission-flags.ts matchAdmissionFlags).
THEOREM FlagsTellTruthAlways == ASSUME RestrictionsApart PROVE Spec => []FlagsTellTruth
<1>1. IInv => FlagsTellTruth
  <2> SUFFICES ASSUME IInv, NEW g \in Gates, flags[g].cause # "none"
               PROVE  /\ flags[g].cause = Cause(g, flags[g].listed, FactsAt(flags[g].head.records),
                         flags[g].head)
                      /\ flags[g].cause = "not-recorded" =>
                            gate[g].submission # "accepted" /\ ConsumedPass(Now, Pass.arg) = {}
    BY DEF FlagsTellTruth
  <2>1. flags[g].cause = Cause(g, flags[g].listed, FactsAt(flags[g].head.records), flags[g].head)
    BY DEF IInv, FlagInv, FlagsInv, FlagOk, FactsAt
  <2> QED
    BY <2>1, NotRecorded
<1> QED
  BY <1>1, Inductive, PTL
=============================================================================
