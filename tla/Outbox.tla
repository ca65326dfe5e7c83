------------------------------- MODULE Outbox -------------------------------
(***************************************************************************)
(* pkg/outbox: one service's rows of the shared outbox_events table and    *)
(* the relays that publish them to Kafka, one relay in every replica of    *)
(* the service and nothing that keeps them apart.                          *)
(*                                                                         *)
(* An event is written by a business transaction.  Its created_at is       *)
(* now(), which in Postgres is the time the transaction began: events are  *)
(* numbered in that order, and the number stands for created_at.  ended    *)
(* counts in the same units.  The topic is a log in the order the brokers  *)
(* append.                                                                 *)
(***************************************************************************)
EXTENDS Naturals, Sequences, FiniteSets

CONSTANTS
    N,          \* events the service may write, each by a transaction of its own
    Relays,     \* the replicas' relays
    Batch,      \* rows that one poll takes
    MaxFaults   \* failed calls in a behaviour

ASSUME OutboxAssumption ==
    N \in Nat /\ Batch \in Nat \ {0} /\ MaxFaults \in Nat

Events == 1..N

VARIABLES
    tx,         \* state of each event's transaction
    ended,      \* transactions begun when it committed
    now,        \* transactions begun
    sent,       \* events whose sent_at is set
    pc,         \* the call each relay is about to make
    pending,    \* events of its last poll that it has not dealt with
    log,        \* the topic
    adrift,     \* messages whose Publish failed and that may arrive yet
    faults      \* faults so far

table == <<tx, ended, now>>
relay == <<pc, pending>>
vars == <<table, sent, relay, log, adrift, faults>>

Committed == { e \in Events : tx[e] = "committed" }

\* Bug variants of Unsent: rows of transactions still running are read too, and a
\* poll looks only past the last row sent.
UnsentDirty == { e \in Events : tx[e] \in {"running", "committed"} } \ sent
UnsentPastLast == { e \in Committed \ sent : \A f \in sent : f < e }

Unsent == Committed \ sent

Published == { log[i] : i \in DOMAIN log }

\* The transaction of f began after that of e had committed.
Before(e, f) == tx[e] = "committed" /\ ended[e] < f

-----------------------------------------------------------------------------
Init ==
    /\ tx = [e \in Events |-> "none"]
    /\ ended = [e \in Events |-> 0]
    /\ now = 0
    /\ sent = {}
    /\ pc = [r \in Relays |-> "idle"]
    /\ pending = [r \in Relays |-> {}]
    /\ log = <<>>
    /\ adrift = {}
    /\ faults = 0

\* A business transaction begins, inserts its event and commits or rolls back.
Begin(e) ==
    /\ e = now + 1
    /\ now' = e
    /\ tx' = [tx EXCEPT ![e] = "running"]
    /\ UNCHANGED <<ended, sent, relay, log, adrift, faults>>

Commit(e) ==
    /\ tx[e] = "running"
    /\ tx' = [tx EXCEPT ![e] = "committed"]
    /\ ended' = [ended EXCEPT ![e] = now]
    /\ UNCHANGED <<now, sent, relay, log, adrift, faults>>

Abort(e) ==
    /\ tx[e] = "running"
    /\ tx' = [tx EXCEPT ![e] = "aborted"]
    /\ UNCHANGED <<ended, now, sent, relay, log, adrift, faults>>

-----------------------------------------------------------------------------
\* The first Batch rows of U by created_at.
IsBatch(S, U) ==
    /\ S \subseteq U
    /\ Cardinality(S) = IF Cardinality(U) < Batch THEN Cardinality(U) ELSE Batch
    /\ \A e \in S, f \in U \ S : e < f

\* A tick with something to do.  A query that fails or finds nothing changes nothing.
Poll(r) ==
    /\ pc[r] = "idle"
    /\ Unsent # {}
    /\ \E S \in SUBSET Unsent :
           IsBatch(S, Unsent) /\ pending' = [pending EXCEPT ![r] = S]
    /\ pc' = [pc EXCEPT ![r] = "publish"]
    /\ UNCHANGED <<table, sent, log, adrift, faults>>

\* The event of the relay's current row.
IsCurrent(r, e) ==
    /\ e \in pending[r]
    /\ \A f \in pending[r] : e <= f

\* Go on with the next row, or return from flush when there is none.
Advance(r, e) ==
    /\ pending' = [pending EXCEPT ![r] = @ \ {e}]
    /\ pc' = [pc EXCEPT ![r] = IF pending[r] = {e} THEN "idle" ELSE "publish"]

\* Return from flush: the rest of the batch is left to the next tick.
Stop(r) ==
    /\ pending' = [pending EXCEPT ![r] = {}]
    /\ pc' = [pc EXCEPT ![r] = "idle"]

Publish(r) ==
    /\ pc[r] = "publish"
    /\ \E e \in Events : IsCurrent(r, e) /\ log' = Append(log, e)
    /\ pc' = [pc EXCEPT ![r] = "mark"]
    /\ UNCHANGED <<table, sent, pending, adrift, faults>>

MarkSent(r) ==
    /\ pc[r] = "mark"
    /\ \E e \in Events :
           IsCurrent(r, e) /\ sent' = sent \cup {e} /\ Advance(r, e)
    /\ UNCHANGED <<table, log, adrift, faults>>

-----------------------------------------------------------------------------
(* Faults, MaxFaults of them: a call of a relay fails, or its replica dies in it. *)

Fault == faults < MaxFaults /\ faults' = faults + 1

\* Bug variants of PublishFails: the row is skipped, or marked all the same.
PublishSkips(r) ==
    /\ Fault
    /\ pc[r] = "publish"
    /\ \E e \in Events :
           /\ IsCurrent(r, e)
           /\ adrift' \in {adrift, adrift \cup {e}}
           /\ Advance(r, e)
    /\ UNCHANGED <<table, sent, log>>

PublishErrorIgnored(r) ==
    /\ Fault
    /\ pc[r] = "publish"
    /\ \E e \in Events :
           IsCurrent(r, e) /\ adrift' \in {adrift, adrift \cup {e}}
    /\ pc' = [pc EXCEPT ![r] = "mark"]
    /\ UNCHANGED <<table, sent, pending, log>>

\* The error does not tell whether the brokers have, or will have, the message.
PublishFails(r) ==
    /\ Fault
    /\ pc[r] = "publish"
    /\ \E e \in Events :
           IsCurrent(r, e) /\ adrift' \in {adrift, adrift \cup {e}}
    /\ Stop(r)
    /\ UNCHANGED <<table, sent, log>>

\* Nor whether the row was updated.
MarkFails(r) ==
    /\ Fault
    /\ pc[r] = "mark"
    /\ \E e \in Events :
           IsCurrent(r, e) /\ sent' \in {sent, sent \cup {e}}
    /\ Stop(r)
    /\ UNCHANGED <<table, log, adrift>>

\* A message given up on is appended after all.
Arrive(e) ==
    /\ e \in adrift
    /\ log' = Append(log, e)
    /\ adrift' = adrift \ {e}
    /\ UNCHANGED <<table, sent, relay, faults>>

-----------------------------------------------------------------------------
Flush(r) == Poll(r) \/ Publish(r) \/ MarkSent(r)

Next ==
    \/ \E e \in Events : Begin(e) \/ Commit(e) \/ Abort(e) \/ Arrive(e)
    \/ \E r \in Relays : Flush(r) \/ PublishFails(r) \/ MarkFails(r)

Spec == Init /\ [][Next]_vars

\* The ticker of every running relay keeps firing, and calls return.
FairSpec == Spec /\ \A r \in Relays : WF_vars(Flush(r))

-----------------------------------------------------------------------------
TypeOK ==
    /\ tx \in [Events -> {"none", "running", "committed", "aborted"}]
    /\ ended \in [Events -> Nat]
    /\ now \in Nat
    /\ sent \subseteq Committed
    /\ pc \in [Relays -> {"idle", "publish", "mark"}]
    /\ pending \in [Relays -> SUBSET Committed]
    /\ log \in Seq(Committed)
    /\ adrift \subseteq Committed
    /\ faults \in 0..MaxFaults
    /\ \A r \in Relays : pc[r] = "idle" <=> pending[r] = {}

\* No event is lost: a row that no relay will look at again is on the topic.
SentIsPublished == sent \subseteq Published

\* Cause before effect: an event whose transaction began after another event was
\* committed first appears on the topic after that other one has, although relays
\* overlap, give up, and leave messages behind that arrive late.
CausesFirst ==
    \A i \in DOMAIN log, e \in Events :
        Before(e, log[i]) => \E j \in 1..(i - 1) : log[j] = e

\* Every committed event is published and marked, once faults have ceased.
EveryEventSent == \A e \in Events : tx[e] = "committed" ~> e \in sent
=============================================================================
