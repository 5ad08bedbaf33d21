------------------------------ MODULE MCSales ------------------------------
(***************************************************************************)
(* Small instances of Sales.                                               *)
(***************************************************************************)
EXTENDS Sales

CONSTANTS c1, c2, g1, h1, h2, h3, a1, a2, seat, vip, comp

\* Each hosted checkout is for a fixed hold: identifiers are random, so which one is immaterial.
MCHoldOf == [h \in Hosted |-> IF h = h3 THEN c2 ELSE c1]

\* Checkouts buy the sold class, grants are of the granted one.
MCClassOf == [t \in Targets |-> IF t \in Grants THEN comp ELSE vip]
MCNoSeats == [t \in Targets |-> NoSeat]
MCMixed   == [t \in Targets |-> IF t = c2 THEN NoSeat ELSE seat]

MCQuota      == [k \in {vip, comp} |-> NoLimit]
MCQuotaOne   == [k \in {vip, comp} |-> 1]
=============================================================================
