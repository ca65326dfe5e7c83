---------------------------- MODULE OutboxProofs ----------------------------
(***************************************************************************)
(* Proofs about Outbox, for any number of events and relays and any batch: *)
(* its types, that nothing marked sent is missing from the topic, and that *)
(* causes are published before their effects.                              *)
(***************************************************************************)
EXTENDS Outbox, FiniteSetTheorems, SequenceTheorems, TLAPS

\* Transactions commit no earlier than they began, and none has begun or committed
\* after now.
Stamped ==
    \A e \in Events :
        /\ ended[e] <= now
        /\ tx[e] # "none" => e <= now
        /\ tx[e] = "committed" => e <= ended[e]

\* Everything that must precede f is on the topic.
CausesPublished(f) == \A e \in Events : Before(e, f) => e \in Published

\* A relay has everything that must precede an event of its batch in that batch,
\* unless it is on the topic.
BatchClosed ==
    \A r \in Relays : \A f \in pending[r], e \in Events :
        Before(e, f) => e \in pending[r] \/ e \in Published

\* The row that a relay marks is on the topic.
MarkedIsPublished ==
    \A r \in Relays, e \in Events :
        pc[r] = "mark" /\ IsCurrent(r, e) => e \in Published

\* Nothing is published, given up on or marked before its causes are published.
AdriftInOrder == \A f \in adrift : CausesPublished(f)

\* The inductive invariant: what each place an event can be in says of its causes.
OutboxInv ==
    /\ TypeOK
    /\ Stamped
    /\ SentIsPublished
    /\ MarkedIsPublished
    /\ BatchClosed
    /\ AdriftInOrder
    /\ CausesFirst

-----------------------------------------------------------------------------
\* The events are finitely many numbers.
LEMMA EventNumbers == Events \subseteq Nat /\ IsFiniteSet(Events)
  BY OutboxAssumption, FS_Interval DEF Events

\* The topic after one more message.
LEMMA Appended ==
    ASSUME NEW S, log \in Seq(S), NEW e \in S, log' = Append(log, e)
    PROVE  /\ log' \in Seq(S)
           /\ Published' = Published \cup {e}
           /\ Len(log') = Len(log) + 1
           /\ log'[Len(log')] = e
           /\ \A i \in DOMAIN log : i \in DOMAIN log' /\ log'[i] = log[i]
  BY DEF Published

\* The causes of an event of the topic are on the topic.
LEMMA PublishedInOrder ==
    ASSUME CausesFirst, log \in Seq(Events), NEW f \in Published
    PROVE  CausesPublished(f)
  <1>1. PICK i \in DOMAIN log : log[i] = f
    BY DEF Published
  <1>2. ASSUME NEW e \in Events, Before(e, f)
        PROVE  e \in Published
    <2>1. PICK j \in 1..(i - 1) : log[j] = e
      BY <1>1, <1>2 DEF CausesFirst
    <2>2. QED  BY <2>1, <1>1 DEF Published
  <1>3. QED  BY <1>2 DEF CausesPublished

\* A message whose causes are on the topic may be appended.
LEMMA AppendInOrder ==
    ASSUME CausesFirst, log \in Seq(Events), NEW f \in Events, CausesPublished(f),
           log' = Append(log, f), UNCHANGED table
    PROVE  CausesFirst'
  <1>1. SUFFICES ASSUME NEW i \in DOMAIN log', NEW e \in Events, Before(e, log[i])'
                 PROVE  \E j \in 1..(i - 1) : log'[j] = e
    BY DEF CausesFirst
  <1>2. /\ \A k \in DOMAIN log : k \in DOMAIN log' /\ log'[k] = log[k]
        /\ log'[Len(log')] = f /\ Len(log') = Len(log) + 1 /\ log' \in Seq(Events)
    BY Appended
  <1>3. Before(e, log'[i])
    BY <1>1 DEF Before, table
  <1>4. CASE i \in DOMAIN log
    <2>1. PICK j \in 1..(i - 1) : log[j] = e
      BY <1>2, <1>3, <1>4 DEF CausesFirst
    <2>2. QED  BY <2>1, <1>2, <1>4
  <1>5. CASE i = Len(log) + 1
    <2>1. e \in Published
      BY <1>2, <1>3, <1>5 DEF CausesPublished
    <2>2. PICK j \in DOMAIN log : log[j] = e
      BY <2>1 DEF Published
    <2>3. QED  BY <2>2, <1>2, <1>5
  <1>6. QED  BY <1>2, <1>4, <1>5

\* Nothing is written, sent or published at the start.
LEMMA InitInv == Init => OutboxInv
  BY OutboxAssumption DEF Init, OutboxInv, TypeOK, Stamped, SentIsPublished,
     MarkedIsPublished, BatchClosed, AdriftInOrder, CausesFirst, Published, Committed,
     IsCurrent, CausesPublished, Before

-----------------------------------------------------------------------------
(* One lemma for each kind of step. *)

\* What the writers do puts no event under an obligation to follow another: an event
\* that commits now ended after everything that has begun, and is in no batch.
LEMMA WriterStep ==
    ASSUME OutboxInv, NEW e \in Events, Begin(e) \/ Commit(e) \/ Abort(e)
    PROVE  OutboxInv'
  <1> USE DEF OutboxInv
  <1>1. UNCHANGED <<sent, pc, pending, log, adrift, faults>> /\ Published' = Published
    BY DEF Begin, Commit, Abort, Published, relay
  <1>2. Committed \subseteq Committed'
    BY DEF Begin, Commit, Abort, Committed, TypeOK, Stamped
  <1>3. TypeOK'
    <2>1. /\ tx' \in [Events -> {"none", "running", "committed", "aborted"}]
          /\ ended' \in [Events -> Nat] /\ now' \in Nat
      <3>1. CASE Begin(e)
        BY <3>1 DEF Begin, TypeOK
      <3>2. CASE Commit(e)
        BY <3>2 DEF Commit, TypeOK
      <3>3. CASE Abort(e)
        BY <3>3 DEF Abort, TypeOK
      <3>4. QED  BY <3>1, <3>2, <3>3
    <2>2. log' \in Seq(Committed')
      BY <1>1, <1>2, SeqMonotonic DEF TypeOK
    <2>3. /\ sent' \subseteq Committed' /\ adrift' \subseteq Committed'
          /\ pending' \in [Relays -> SUBSET Committed']
      BY <1>1, <1>2 DEF TypeOK
    <2>4. QED  BY <1>1, <2>1, <2>2, <2>3 DEF TypeOK
  <1>4. Stamped'
    <2>1. CASE Begin(e)
      BY <2>1, EventNumbers DEF Begin, Stamped, TypeOK
    <2>2. CASE Commit(e)
      BY <2>2, EventNumbers DEF Commit, Stamped, TypeOK
    <2>3. CASE Abort(e)
      BY <2>3, EventNumbers DEF Abort, Stamped, TypeOK
    <2>4. QED  BY <2>1, <2>2, <2>3
  <1>5. ASSUME NEW f \in Committed, NEW g \in Events, Before(g, f)'
        PROVE  Before(g, f)
    <2>1. CASE Commit(e) /\ g = e
      BY <1>5, <2>1, EventNumbers DEF Commit, Before, Stamped, TypeOK, Committed
    <2>2. CASE Commit(e) /\ g # e
      BY <1>5, <2>2 DEF Commit, Before, TypeOK
    <2>3. CASE Begin(e) \/ Abort(e)
      BY <1>2, <1>5, <2>3 DEF Begin, Abort, Before, TypeOK
    <2>4. QED  BY <2>1, <2>2, <2>3
  <1>6. SentIsPublished'
    BY <1>1 DEF SentIsPublished
  <1>7. MarkedIsPublished'
    <2>1. \A r \in Relays, f \in Events : IsCurrent(r, f)' => IsCurrent(r, f)
      BY <1>1, <1>2 DEF IsCurrent, TypeOK
    <2>2. QED  BY <1>1, <2>1 DEF MarkedIsPublished
  <1>8. BatchClosed' /\ AdriftInOrder'
    BY <1>1, <1>5 DEF BatchClosed, AdriftInOrder, CausesPublished, TypeOK
  <1>9. CausesFirst'
    BY <1>1, <1>5 DEF CausesFirst, TypeOK
  <1>10. QED  BY <1>3, <1>4, <1>6, <1>7, <1>8, <1>9

\* A poll takes the oldest unsent rows: what it leaves out is younger than what it
\* takes, so it is no cause of it, and what is sent is published.
LEMMA PollStep ==
    ASSUME OutboxInv, NEW r \in Relays, Poll(r)
    PROVE  OutboxInv'
  <1> USE DEF OutboxInv
  <1>1. PICK S \in SUBSET Unsent :
            IsBatch(S, Unsent) /\ pending' = [pending EXCEPT ![r] = S]
    BY DEF Poll
  <1>2. UNCHANGED <<table, sent, log, adrift, faults>> /\ pc' = [pc EXCEPT ![r] = "publish"]
    BY DEF Poll
  <1>3. Published' = Published /\ Committed' = Committed
    BY <1>2 DEF Published, Committed, table
  <1>4. S # {}
    <2>1. Cardinality(Unsent) # 0
      BY EventNumbers, FS_Subset, FS_EmptySet DEF Poll, Unsent, Committed
    <2>2. QED  BY <1>1, <2>1, OutboxAssumption, FS_EmptySet DEF IsBatch
  <1>5. TypeOK'
    BY <1>1, <1>2, <1>3, <1>4 DEF TypeOK, table, Unsent
  <1>6. ASSUME NEW f \in S, NEW e \in Events, Before(e, f)
        PROVE  e \in S \/ e \in Published
    <2>1. e \in Committed /\ e < f
      BY <1>6, EventNumbers DEF Before, Stamped, Committed, TypeOK, Unsent
    <2>2. e \in sent \/ e \in Unsent
      BY <2>1 DEF Unsent
    <2>3. e \in Unsent => e \in S
      BY <2>1, <1>1, EventNumbers DEF IsBatch, TypeOK, Unsent, Committed
    <2>4. QED  BY <2>2, <2>3 DEF SentIsPublished
  <1>7. BatchClosed'
    BY <1>1, <1>2, <1>3, <1>6 DEF BatchClosed, Before, table, TypeOK
  <1>8. MarkedIsPublished'
    BY <1>1, <1>2, <1>3 DEF MarkedIsPublished, IsCurrent, table, TypeOK
  <1>9. Stamped' /\ SentIsPublished' /\ AdriftInOrder' /\ CausesFirst'
    BY <1>2, <1>3 DEF Stamped, SentIsPublished, AdriftInOrder, CausesPublished, CausesFirst,
       Before, table
  <1>10. QED  BY <1>5, <1>7, <1>8, <1>9

\* The current row of a relay is the oldest of its batch, so that its causes are not
\* in the batch any more.
LEMMA CurrentInOrder ==
    ASSUME OutboxInv, NEW r \in Relays, NEW e \in Events, IsCurrent(r, e)
    PROVE  e \in Committed /\ CausesPublished(e)
  <1> USE DEF OutboxInv
  <1>1. e \in Committed
    BY DEF IsCurrent, TypeOK
  <1>2. ASSUME NEW c \in Events, Before(c, e)
        PROVE  c \in Published
    <2>1. c < e
      BY <1>2, EventNumbers DEF Before, Stamped, TypeOK
    <2>2. c \notin pending[r]
      BY <2>1, EventNumbers DEF IsCurrent, TypeOK
    <2>3. QED  BY <1>2, <2>2 DEF BatchClosed, IsCurrent
  <1>3. QED  BY <1>1, <1>2 DEF CausesPublished

\* A message whose causes are on the topic is appended, by a relay or by itself.
LEMMA AppendStep ==
    ASSUME OutboxInv, NEW e \in Committed, CausesPublished(e), log' = Append(log, e),
           UNCHANGED <<table, sent, pending>>, adrift' \subseteq adrift, faults' = faults,
           pc' \in [Relays -> {"idle", "publish", "mark"}],
           \A r \in Relays :
               \/ pc'[r] = pc[r]
               \/ pc[r] = "publish" /\ pc'[r] = "mark" /\ IsCurrent(r, e)
    PROVE  OutboxInv'
  <1> USE DEF OutboxInv
  <1>1. /\ log' \in Seq(Committed)
        /\ Published' = Published \cup {e}
    BY Appended DEF TypeOK
  <1>2. Committed' = Committed /\ \A f, g \in Events : Before(f, g)' <=> Before(f, g)
    BY DEF Committed, Before, table
  <1>3. TypeOK'
    BY <1>1, <1>2 DEF TypeOK, table
  <1>4. Stamped' /\ SentIsPublished'
    BY <1>1 DEF Stamped, SentIsPublished, table
  <1>5. MarkedIsPublished'
    <2>1. ASSUME NEW r \in Relays, NEW f \in Events, pc'[r] = "mark", IsCurrent(r, f)'
          PROVE  f \in Published'
      <3>1. IsCurrent(r, f)
        BY <2>1 DEF IsCurrent, table
      <3>2. CASE pc[r] = "mark"
        BY <3>1, <3>2, <1>1 DEF MarkedIsPublished
      <3>3. CASE pc[r] = "publish" /\ IsCurrent(r, e)
        <4>1. e = f
          BY <3>1, <3>3 DEF IsCurrent, TypeOK, Committed, Events
        <4>2. QED  BY <4>1, <1>1
      <3>4. QED  BY <2>1, <3>2, <3>3
    <2>2. QED  BY <2>1 DEF MarkedIsPublished
  <1>6. BatchClosed' /\ AdriftInOrder'
    BY <1>1, <1>2 DEF BatchClosed, AdriftInOrder, CausesPublished, TypeOK, Committed
  <1>7. CausesFirst'
    BY AppendInOrder DEF TypeOK, Committed
  <1>8. QED  BY <1>3, <1>4, <1>5, <1>6, <1>7

\* A relay is done with its current row, or gives up its batch.  It leaves a row for
\* good, and marks it, only when it has published it.
LEMMA RelayStep ==
    ASSUME OutboxInv, NEW r \in Relays, NEW e \in Events, IsCurrent(r, e),
           UNCHANGED <<table, log>>, faults' \in 0..MaxFaults,
           sent' \in {sent, sent \cup {e}}, adrift' \in {adrift, adrift \cup {e}},
           \/ pc[r] = "mark" /\ Advance(r, e)
           \/ pc[r] = "mark" /\ Stop(r)
           \/ Stop(r) /\ sent' = sent
    PROVE  OutboxInv'
  <1> USE DEF OutboxInv
  <1>1. /\ Committed' = Committed /\ Published' = Published
        /\ \A f, g \in Events : Before(f, g)' <=> Before(f, g)
    BY DEF Committed, Published, Before, table
  <1>2. e \in Committed /\ CausesPublished(e)
    BY CurrentInOrder
  <1>3. pc[r] = "mark" => e \in Published
    BY DEF MarkedIsPublished
  <1>4. /\ pending' \in [Relays -> SUBSET Committed]
        /\ pc' \in [Relays -> {"idle", "publish", "mark"}]
        /\ \A q \in Relays : pc'[q] = "idle" <=> pending'[q] = {}
        /\ \A q \in Relays : q # r => pending'[q] = pending[q] /\ pc'[q] = pc[q]
        /\ pc'[r] # "mark"
    <2>1. e \in pending[r]
      BY DEF IsCurrent
    <2>2. CASE Advance(r, e)
      <3>1. pending[r] = {e} <=> pending[r] \ {e} = {}
        BY <2>1
      <3>2. QED  BY <2>2, <3>1 DEF Advance, TypeOK
    <2>3. CASE Stop(r)
      BY <2>3 DEF Stop, TypeOK
    <2>4. QED  BY <2>2, <2>3
  <1>5. TypeOK'
    BY <1>1, <1>2, <1>4 DEF TypeOK, table
  <1>6. Stamped' /\ CausesFirst'
    BY <1>1 DEF Stamped, CausesFirst, table, TypeOK, Committed
  <1>7. SentIsPublished'
    BY <1>1, <1>3 DEF SentIsPublished
  <1>8. MarkedIsPublished'
    BY <1>1, <1>4 DEF MarkedIsPublished, IsCurrent, table
  <1>9. BatchClosed'
    <2>1. ASSUME NEW q \in Relays, NEW f \in pending'[q], NEW c \in Events, Before(c, f)
          PROVE  c \in pending'[q] \/ c \in Published
      <3>1. CASE q # r
        BY <2>1, <3>1, <1>4 DEF BatchClosed
      <3>2. CASE q = r /\ Stop(r)
        BY <3>2 DEF Stop, TypeOK
      <3>3. CASE q = r /\ pc[r] = "mark" /\ Advance(r, e)
        BY <2>1, <3>3, <1>3 DEF Advance, BatchClosed, TypeOK
      <3>4. QED  BY <3>1, <3>2, <3>3
    <2>2. QED  BY <2>1, <1>1, <1>4 DEF BatchClosed, Committed
  <1>10. AdriftInOrder'
    BY <1>1, <1>2 DEF AdriftInOrder, CausesPublished, TypeOK, Committed
  <1>11. QED  BY <1>5, <1>6, <1>7, <1>8, <1>9, <1>10

\* A step of a writer, a relay or the broker keeps the invariant.
LEMMA InvStep == OutboxInv /\ [Next]_vars => OutboxInv'
  <1> SUFFICES ASSUME OutboxInv, [Next]_vars
               PROVE  OutboxInv'
    OBVIOUS
  <1>1. ASSUME NEW e \in Events, Begin(e) \/ Commit(e) \/ Abort(e)
        PROVE  OutboxInv'
    BY <1>1, WriterStep
  <1>2. ASSUME NEW e \in Events, Arrive(e)
        PROVE  OutboxInv'
    <2>1. e \in Committed /\ CausesPublished(e)
      BY <1>2 DEF Arrive, OutboxInv, TypeOK, AdriftInOrder
    <2>2. QED  BY <1>2, <2>1, AppendStep DEF Arrive, relay, OutboxInv, TypeOK
  <1>3. ASSUME NEW r \in Relays, Poll(r)
        PROVE  OutboxInv'
    BY <1>3, PollStep
  <1>4. ASSUME NEW r \in Relays, Publish(r)
        PROVE  OutboxInv'
    <2>1. PICK e \in Events : IsCurrent(r, e) /\ log' = Append(log, e)
      BY <1>4 DEF Publish
    <2>2. e \in Committed /\ CausesPublished(e)
      BY <2>1, CurrentInOrder
    <2>3. pc' = [pc EXCEPT ![r] = "mark"] /\ pc[r] = "publish"
      BY <1>4 DEF Publish
    <2>4. UNCHANGED <<table, sent, pending, adrift, faults>>
      BY <1>4 DEF Publish
    <2>5. pc \in [Relays -> {"idle", "publish", "mark"}]
      BY DEF OutboxInv, TypeOK
    <2>6. QED  BY <2>1, <2>2, <2>3, <2>4, <2>5, AppendStep
  <1>5. ASSUME NEW r \in Relays, MarkSent(r)
        PROVE  OutboxInv'
    BY <1>5, RelayStep DEF MarkSent, OutboxInv, TypeOK
  <1>6. ASSUME NEW r \in Relays, PublishFails(r) \/ MarkFails(r)
        PROVE  OutboxInv'
    <2>1. faults' \in 0..MaxFaults
      BY <1>6, OutboxAssumption DEF PublishFails, MarkFails, Fault, OutboxInv, TypeOK
    <2>2. CASE PublishFails(r)
      BY <2>1, <2>2, RelayStep DEF PublishFails
    <2>3. CASE MarkFails(r)
      BY <2>1, <2>3, RelayStep DEF MarkFails
    <2>4. QED  BY <1>6, <2>2, <2>3
  <1>7. CASE UNCHANGED vars
    BY <1>7 DEF vars, table, relay, OutboxInv, TypeOK, Stamped, SentIsPublished,
       MarkedIsPublished, BatchClosed, AdriftInOrder, CausesFirst, Published, Committed,
       IsCurrent, CausesPublished, Before
  <1>8. QED  BY <1>1, <1>2, <1>3, <1>4, <1>5, <1>6, <1>7 DEF Next, Flush

\* The invariant holds in every reachable state.
LEMMA Invariance == Spec => []OutboxInv
  BY InitInv, InvStep, PTL DEF Spec

-----------------------------------------------------------------------------
\* The types of the table, the relays and the topic.
THEOREM OutboxTypeCorrect == Spec => []TypeOK
  BY Invariance, PTL DEF OutboxInv

\* At least once: an event that sent_at hides from every later poll is on the topic,
\* whichever calls of whichever relays failed.
THEOREM NothingLost == Spec => []SentIsPublished
  BY Invariance, PTL DEF OutboxInv

\* Cause before effect on the topic, for any number of relays that overlap.
THEOREM CausesComeFirst == Spec => []CausesFirst
  BY Invariance, PTL DEF OutboxInv
=============================================================================
