----------------------------- MODULE SaleTerms ------------------------------
(***************************************************************************)
(* What an event's places sell for: its sale asset                         *)
(* (src/src/events/sale-assets.ts), its classes' prices                    *)
(* (src/src/classes/classes.ts), and the terms a hold is placed on         *)
(* (src/src/sales/allocation.ts saleTerms).  A change of asset and a hold  *)
(* take the event's allocation lock; a class or a price does not.          *)
(***************************************************************************)
EXTENDS EventSetup

VARIABLES
    saleAsset,  \* event_sale_assets
    classes,    \* ticket_classes: the Purchased ones, by the request that defined them
    clearing,   \* the classes whose prices the open change of asset has cleared
    holds       \* holds: the terms each was placed on

termsVars == <<saleAsset, classes, clearing, holds>>

SaleAssets == {"COPM/2", "DUSD/6"}

(* in is history: the asset in force when the price was set. *)
NoClass == [st |-> "none", priced |-> FALSE, in |-> None]
NoHold == [st |-> "none", asset |-> None, in |-> None]

(* A new event; or one with an asset, and with a class priced in it unless classes are to come *)
TermsInit(there, stocked) ==
    /\ saleAsset = IF there THEN "COPM/2" ELSE None
    /\ classes = [r \in Rows |-> IF there /\ stocked /\ r = 0
                                 THEN [st |-> "defined", priced |-> TRUE, in |-> "COPM/2"] ELSE NoClass]
    /\ clearing = {}
    /\ holds = [c \in Calls |-> NoHold]

(* ownedEvent: the event is on the ledger and the organiser's *)
OwnsEvent ==
    /\ row.registered
    /\ "createEvent" \in mix[1] => ledger[<<1, "write">>] = "landed"

(* createEvent, its last statement: the asset chosen with it, written over whatever is there *)
RecordAtCreation(c) ==
    /\ At(c, "createEvent", "linked") /\ FreeConnection
    /\ saleAsset' \in {saleAsset} \cup (IF c = 1 THEN SaleAssets ELSE {})
    /\ Goto(c, "done")
    /\ UNCHANGED <<classes, clearing, holds, faults>>

(* define: a Purchased class has a price from the first *)
DefineClass(c) ==
    \/ Arrives(c, "defineClass") /\ OwnsEvent /\ Start(c, "defineClass", 0) /\ UNCHANGED <<termsVars, faults>>
    \/ /\ At(c, "defineClass", "begun") /\ FreeConnection
       /\ classes' = [classes EXCEPT ![c] = [st |-> "defined", priced |-> TRUE, in |-> saleAsset]]
       /\ Goto(c, "done")
       /\ UNCHANGED <<saleAsset, clearing, holds, faults>>

Choosing == {c \in Calls : At(c, "setSaleAsset", "choosing")}

(* setPrice: one UPDATE, which waits for a change of asset that has cleared the row *)
SetPrice(c) ==
    \/ \E r \in Rows : /\ Arrives(c, "setClassPrice") /\ OwnsEvent /\ classes[r].st = "defined"
                       /\ Start(c, "setClassPrice", r) /\ UNCHANGED <<termsVars, faults>>
    \/ /\ At(c, "setClassPrice", "begun") /\ FreeConnection
       /\ Choosing # {} => call[c].arg \notin clearing
       /\ classes' = [classes EXCEPT ![call[c].arg].priced = TRUE, ![call[c].arg].in = saleAsset]
       /\ Goto(c, "done")
       /\ UNCHANGED <<saleAsset, clearing, holds, faults>>

HasHadHold == \E c \in Calls : holds[c].st = "placed"

ArriveToSetAsset(c) ==
    /\ Arrives(c, "setSaleAsset") /\ OwnsEvent
    /\ \E asset \in SaleAssets : Start(c, "setSaleAsset", asset)
    /\ UNCHANGED <<termsVars, faults>>

(* set: under the event's lock, refused once there was a hold; a change from one asset to       *)
(* another clears the prices it finds.                                                          *)
ClearPrices(c) ==
    /\ At(c, "setSaleAsset", "termsWait") /\ ~EventLocked
    /\ IF saleAsset = call[c].arg THEN Goto(c, "done") /\ UNCHANGED clearing
       ELSE IF HasHadHold THEN Goto(c, "refused") /\ UNCHANGED clearing
       ELSE /\ Goto(c, "choosing")
            /\ clearing' = IF saleAsset = None THEN {} ELSE {r \in Rows : classes[r].st = "defined"}
    /\ UNCHANGED <<saleAsset, classes, holds, faults>>

(* The asset, and the commit *)
ChooseAsset(c) ==
    /\ At(c, "setSaleAsset", "choosing")
    /\ saleAsset' = call[c].arg
    /\ classes' = [r \in Rows |-> IF r \in clearing THEN [classes[r] EXCEPT !.priced = FALSE] ELSE classes[r]]
    /\ Goto(c, "done")
    /\ UNCHANGED <<clearing, holds, faults>>

BeginTerms(c) ==
    /\ At(c, "setSaleAsset", "begun") /\ FreeConnection
    /\ Goto(c, "termsWait")
    /\ UNCHANGED <<termsVars, faults>>

(* A checkout asks to hold a place of a class. *)
ArriveToHold(c) ==
    /\ \E r \in Rows : Arrives(c, "hold") /\ classes[r].st = "defined" /\ Start(c, "hold", r)
    /\ UNCHANGED <<termsVars, faults>>
BeginHold(c) ==
    /\ At(c, "hold", "begun") /\ FreeConnection
    /\ Goto(c, "holdWait")
    /\ UNCHANGED <<termsVars, faults>>

(* saleTerms: the asset and the price, unless there is no asset or some class has no price *)
OnSale == saleAsset # None /\ \A r \in Rows : classes[r].st = "defined" => classes[r].priced

ReadTermsMutant(c) ==
    /\ At(c, "hold", "holdWait")
    /\ IF OnSale
       THEN /\ holds' = [holds EXCEPT ![c] = [st |-> "read", asset |-> saleAsset, in |-> classes[call[c].arg].in]]
            /\ Goto(c, "holdRead")
       ELSE Goto(c, "refused") /\ UNCHANGED holds
    /\ UNCHANGED <<saleAsset, classes, clearing, faults>>

ReadTerms(c) ==
    /\ At(c, "hold", "holdWait") /\ ~EventLocked
    /\ IF OnSale
       THEN /\ holds' = [holds EXCEPT ![c] = [st |-> "read", asset |-> saleAsset, in |-> classes[call[c].arg].in]]
            /\ Goto(c, "holdRead")
       ELSE Goto(c, "refused") /\ UNCHANGED holds
    /\ UNCHANGED <<saleAsset, classes, clearing, faults>>

(* place: the hold and its terms, and the commit *)
PlaceHold(c) ==
    /\ At(c, "hold", "holdRead")
    /\ holds' = [holds EXCEPT ![c].st = "placed"]
    /\ Goto(c, "done")
    /\ UNCHANGED <<saleAsset, classes, clearing, faults>>

TermsStep(c) ==
    \/ RecordAtCreation(c) \/ BeginTerms(c) \/ ClearPrices(c) \/ ChooseAsset(c)
    \/ BeginHold(c) \/ ReadTerms(c) \/ PlaceHold(c)
=============================================================================
