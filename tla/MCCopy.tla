------------------------------- MODULE MCCopy -------------------------------
(* Worlds: a first event; a ticket that may not be transferred; a holder's first   *)
(* registration; the organiser's changes; the gates; and a restriction removed.    *)
EXTENDS Copy

In(kind, by, arg) == [kind |-> kind, by |-> by, arg |-> arg]
Registered(a) == In("registerCredential", a, a)
Created == In("createEvent", "org", "small")
Issue(terms) == In("issueTicket", "org", terms)
Transfer(from, to) == In("transferTicket", from, to)
Remove(restriction) == In("removeRestriction", "org", restriction)
Status(s) == In("setEventStatus", "org", s)

WithTicket(terms) == <<Registered("org"), Registered("ann"), Created, Issue(terms)>>

(* The log of inputs accepted one after the other, at time 0 *)
StartLog(start) ==
    LET built[n \in 0 .. Len(start)] ==
            IF n = 0 THEN << >>
            ELSE Append(built[n - 1], RecordOf(FactsIn(built[n - 1], n - 1), start[n], n - 1, 0))
    IN  built[Len(start)]

(* A world whose copy starts with the first n records of its log.  Time matters to one gate;   *)
(* two gates differ in their reports.                                                          *)
World(start, n, inputs, asks, gates) ==
    [start |-> StartLog(start), read |-> n, inputs |-> inputs, asks |-> asks, gates |-> gates,
     time |-> IF gates = {1} THEN 2 ELSE 0]

MCWorlds ==
    {World(<<Registered("org")>>, 1, {}, {Created, Issue("free")}, {}),
     World(WithTicket("bound"), 4, {}, {Remove("cannotTransfer"), Transfer("ann", "ben"), Pass}, {}),
     World(<<Registered("org"), Created, Issue("unsellable")>>, 2, {Status("Cancelled")},
           {Registered("ann"), Pass}, {}),
     World(<<Registered("org"), Created>>, 0,
           {In("addZone", "org", "floor"), In("removeZone", "org", "floor"),
            In("setEventCapacity", "org", "large"), Status("Finished")}, {}, {}),
     World(WithTicket("free"), 4, {Transfer("ann", "ben")}, {}, {1}),
     World(WithTicket("free"), 4, {Transfer("ann", "ben")}, {}, {1, 2})}

MCRestrictionWorlds ==
    {World(WithTicket("bound"), 4, {Remove("cannotResale"), Remove("cannotTransfer")}, {Transfer("ann", "ben")}, {})}
=============================================================================
