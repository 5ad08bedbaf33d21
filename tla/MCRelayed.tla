----------------------------- MODULE MCRelayed ------------------------------
(* Three requests, of the kinds that share rows or locks, and one fault. *)
EXTENDS Relayed

MCMixes ==
    LET three(ops) == <<ops, ops, ops>> IN
    {three({"redeem", "approve"}), three({"approve", "reject", "request", "removeRestriction"}),
     three({"addZone", "removeZone", "positions"}),
     <<{"createEvent"}, {"createEvent", "invite"}, {"invite", "redeem"}>>,
     three({"setSaleAsset", "setClassPrice", "hold"}), <<{"createEvent"}, {"defineClass"}, {"hold"}>>}

(* A class is defined while the asset changes. *)
MCDefineMixes == {<<{"defineClass"}, {"setSaleAsset"}, {"hold"}>>}
=============================================================================
