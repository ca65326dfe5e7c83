--------------------------- MODULE EventHandlers ---------------------------
(***************************************************************************)
(* The services that record events, one per behaviour: Consumer with the   *)
(* Handle of that service and what its repository then keeps.              *)
(*                                                                         *)
(* Each delivery is handled by one statement, or one transaction, that     *)
(* writes rows under new ids or adds to a row of sums; a message that is   *)
(* delivered again is handled again.                                       *)
(***************************************************************************)
EXTENDS Consumer, Sequences, FiniteSets

CONSTANTS
    EventServices,
    Streams,        \* sequences of N messages
    Malformed,      \* a message that is not JSON
    None            \* an absent field

VARIABLES service, stream, store

handlerVars == <<vars, service, stream, store>>

HandlersInit ==
    /\ Init
    /\ service \in EventServices
    /\ stream \in Streams
    /\ store = [k \in {} |-> None]

Event(o) == stream[o + 1]

-----------------------------------------------------------------------------
(* What is written for a message: a set of rows, or an amount added to a sum. *)

Readable(e) == e # Malformed

\* fraud-service.  Amounts are counted in thousands.
Score(e) ==
    CASE e.amount >= 10                          -> 90
      [] e.amount >= 5 /\ e.type = "WITHDRAWAL"  -> 70
      [] OTHER                                   -> 0
Alerts(e) ==
    IF Readable(e) /\ e.amount # None /\ Score(e) > 0 THEN {[score |-> Score(e)]} ELSE {}

\* statement-service: a debit of the source and a credit of the destination.
Entries(e) ==
    IF ~Readable(e) THEN {}
    ELSE (IF e.type \in {"WITHDRAWAL", "TRANSFER"} THEN {"DEBIT"} ELSE {})
         \cup (IF e.type \in {"DEPOSIT", "TRANSFER"} THEN {"CREDIT"} ELSE {})

\* What cannot be read: search-service answers an error, and the JSONB column that
\* audit-service keeps a payload in refuses the row.
Accepted(e) == service \in {"search", "audit"} => Readable(e)

Rows(e) ==
    CASE service \in {"audit", "notification", "search"} -> {e}
      [] service = "fraud"                               -> Alerts(e)
      [] service = "statement"                           -> Entries(e)
      [] OTHER                                           -> {}

\* analytics-service sums by type, reports-service by day.
Bucket(e) ==
    CASE Readable(e) /\ service = "analytics" -> e.type
      [] Readable(e) /\ service = "reports"   -> e.day
      [] OTHER                                -> None

Total(k) == IF k \in DOMAIN store THEN store[k] ELSE [count |-> 0, sum |-> 0]

\* Bug variant of Add: the row is replaced by one of this message alone.
AddReplaces(k, e) == [count |-> 1, sum |-> e.amount]

Add(k, e) == [count |-> Total(k).count + 1, sum |-> Total(k).sum + e.amount]

\* The keys of what is written: the bucket, or rows with new ids, which are their message
\* and its delivery.
Keys(o, e) ==
    IF Bucket(e) # None THEN {Bucket(e)} ELSE {<<o, rows[o], row>> : row \in Rows(e)}

Written(o, e) ==
    [k \in DOMAIN store \cup Keys(o, e) |->
        IF k \notin Keys(o, e) THEN store[k]
        ELSE IF Bucket(e) # None THEN Add(k, e) ELSE [read |-> FALSE]]

\* The effect on the store is that of the handler, where it takes effect at all.
Record(c) ==
    \/ UNCHANGED <<rows, store>>
    \/ /\ rows' # rows
       /\ Accepted(Event(msg[c]))
       /\ store' = Written(msg[c], Event(msg[c]))

\* notification-service: POST /:id/read.
MarkRead ==
    /\ service = "notification"
    /\ \E k \in DOMAIN store : store' = [store EXCEPT ![k].read = TRUE]
    /\ UNCHANGED <<vars, service, stream>>

HandlersNext ==
    \/ \E c \in Consumers : Step(c) /\ Record(c) /\ UNCHANGED <<service, stream>>
    \/ MarkRead

\* A loop that runs, and whose handler answers.
Serve(c) ==
    /\ \/ Consume(c)
       \/ HandleFails(c) /\ ~Accepted(Event(msg[c]))
    /\ Record(c)
    /\ UNCHANGED <<service, stream>>

HandlersSpec ==
    /\ HandlersInit
    /\ [][HandlersNext]_handlerVars
    /\ \A c \in Consumers : WF_handlerVars(Serve(c))

-----------------------------------------------------------------------------
Settled == {o \in Offsets : o < committed /\ o \notin failed}

\* What the group has moved past without an error is in the store: every row the service
\* writes for the message, and each sum counts at least the messages that belong to it,
\* with replicas that crash, handle a message twice, or handle two at the same time.
SettledIsRecorded ==
    /\ \A o \in Settled : \A row \in Rows(Event(o)) :
          \E n \in 0..rows[o] : <<o, n, row>> \in DOMAIN store
    /\ \A o \in Settled :
          LET k == Bucket(Event(o))
              same == {p \in Settled : Bucket(Event(p)) = k}
          IN  k # None => Total(k).count >= Cardinality(same)
=============================================================================
