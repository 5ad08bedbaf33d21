----------------------------- MODULE MCCheckout -----------------------------
(***************************************************************************)
(* A checkout whose handoff the buyer and one other holder see.            *)
(***************************************************************************)
EXTENDS Checkout

CONSTANTS mine, theirs
=============================================================================
