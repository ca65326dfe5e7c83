-------------------------- MODULE MCEventHandlers --------------------------
(* Every service that records events, with streams of two messages. *)
EXTENDS EventHandlers

AllEventServices ==
    {"statement", "audit", "notification", "search", "fraud", "analytics", "reports"}

Published(type, amount, day) == [type |-> type, amount |-> amount, day |-> day]

SomeStreams ==
    {<<Published("TRANSFER", 10, "mon"), Malformed>>,
     <<Published("WITHDRAWAL", 5, "mon"), Published("WITHDRAWAL", 1, "mon")>>,
     <<Published(None, None, None), Published("DEPOSIT", 10, "tue")>>}
=============================================================================
