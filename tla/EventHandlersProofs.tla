------------------------ MODULE EventHandlersProofs ------------------------
(***************************************************************************)
(* Each service that records events is a Consumer, whatever its handler    *)
(* does with the messages; and with its handler, what the group has moved  *)
(* past is in its store.                                                   *)
(***************************************************************************)
EXTENDS EventHandlers, ConsumerProofs, FiniteSetTheorems

\* Composed with its handler and its store, the loop makes only steps of its own.
LEMMA HandlersImplementConsumer == HandlersSpec => Spec
  <1>1. HandlersInit => Init
    BY DEF HandlersInit
  <1>2. [HandlersNext]_handlerVars => [Next]_vars
    BY DEF HandlersNext, Next, MarkRead, handlerVars
  <1>3. QED
    BY <1>1, <1>2, PTL DEF HandlersSpec, Spec

\* No service that records events moves past a message that it has neither handled nor
\* failed on, whatever it accepts and writes.
THEOREM HandlersPassNothing == HandlersSpec => []PassedIsHandled
  BY HandlersImplementConsumer, NothingPassedOver, PTL

-----------------------------------------------------------------------------
(* What is in the store. *)

\* The messages of bucket k that have taken effect.
AddedTo(k) == {p \in Offsets : Added(p) /\ Bucket(Event(p)) = k}

\* Every row of a message that has taken effect is there, under the number of its first
\* delivery.
RowsAreThere ==
    \A o \in Offsets : Added(o) => \A row \in Rows(Event(o)) : <<o, 0, row>> \in DOMAIN store

\* A sum counts every message of its bucket that has taken effect, once or more.
SumsCount ==
    service \in {"analytics", "reports"} =>
        /\ \A k \in DOMAIN store : store[k].count \in Nat
        /\ \A k : k # None => Total(k).count >= Cardinality(AddedTo(k))

StoreInv == RowsAreThere /\ SumsCount

\* A service keeps sums or rows, not both.
LEMMA SumsOrRows ==
    ASSUME NEW e
    PROVE  /\ service \in {"analytics", "reports"} => Rows(e) = {}
           /\ service \notin {"analytics", "reports"} => Bucket(e) = None
  BY DEF Rows, Bucket

\* The messages of a bucket are finitely many.
LEMMA AddedIsFinite ==
    ASSUME NEW k
    PROVE  IsFiniteSet(AddedTo(k)) /\ Cardinality(AddedTo(k)) \in Nat
  <1>1. IsFiniteSet(Offsets)
    BY ConsumerAssumption, FS_Interval DEF Offsets
  <1>2. AddedTo(k) \subseteq Offsets
    BY DEF AddedTo
  <1>3. IsFiniteSet(AddedTo(k))
    BY <1>1, <1>2, FS_Subset
  <1>4. QED  BY <1>3, FS_CardinalityType

\* The store is empty, and no message has taken effect.
LEMMA StoreInit == HandlersInit => StoreInv
  <1> SUFFICES ASSUME HandlersInit
               PROVE  StoreInv
    OBVIOUS
  <1>1. \A o \in Offsets : ~Added(o)
    BY DEF HandlersInit, Init, Added
  <1>2. DOMAIN store = {}
    BY DEF HandlersInit
  <1>3. \A k : AddedTo(k) = {} /\ Total(k).count = 0
    BY <1>1, <1>2 DEF AddedTo, Total
  <1>4. QED
    BY <1>1, <1>2, <1>3, FS_EmptySet DEF StoreInv, RowsAreThere, SumsCount

\* Where a step of c changes rows, the message it is handling takes effect once more.
LEMMA EffectIs ==
    ASSUME TypeOK, NEW c \in Consumers, Step(c), rows' # rows
    PROVE  /\ msg[c] \in Offsets
           /\ rows' = [rows EXCEPT ![msg[c]] = @ + 1]
  BY DEF Step, Consume, FetchMessage, Handle, HandleFails, CommitMessages, FetchFails, CommitFails,
     Rebalance, Crash, statement, AddRows, TypeOK

\* A message takes effect where rows are kept: its rows are added, and none goes.
LEMMA RowsWritten ==
    ASSUME TypeOK, StoreInv, NEW o \in Offsets, rows' = [rows EXCEPT ![o] = @ + 1],
           store' = Written(o, Event(o)), UNCHANGED <<service, stream>>
    PROVE  RowsAreThere'
  <1> SUFFICES ASSUME NEW p \in Offsets, Added(p)', NEW row \in Rows(Event(p))
               PROVE  <<p, 0, row>> \in DOMAIN store'
    BY DEF RowsAreThere, Rows, Event, Alerts, Entries, Readable
  <1>1. DOMAIN store' = DOMAIN store \cup Keys(o, Event(o))
    BY DEF Written
  <1>2. CASE Added(p)
    BY <1>1, <1>2 DEF StoreInv, RowsAreThere
  <1>3. CASE ~Added(p)
    <2>1. p = o /\ rows[o] = 0
      BY <1>3 DEF Added, TypeOK
    <2>2. Bucket(Event(o)) = None
      BY <2>1, SumsOrRows
    <2>3. <<p, 0, row>> \in Keys(o, Event(o))
      BY <2>1, <2>2 DEF Keys
    <2>4. QED  BY <1>1, <2>3
  <1>4. QED  BY <1>2, <1>3

\* A message takes effect where sums are kept: the sum of its bucket counts one more, as
\* do the messages of that bucket at most.
LEMMA SumsWritten ==
    ASSUME TypeOK, StoreInv, NEW o \in Offsets, rows' = [rows EXCEPT ![o] = @ + 1],
           store' = Written(o, Event(o)), UNCHANGED <<service, stream>>
    PROVE  SumsCount'
  <1> DEFINE b == Bucket(Event(o))
  <1> SUFFICES ASSUME service \in {"analytics", "reports"}
               PROVE  /\ \A k \in DOMAIN store' : store'[k].count \in Nat
                      /\ \A k : k # None => Total(k)'.count >= Cardinality(AddedTo(k)')
    BY DEF SumsCount
  <1>1. \A e : Bucket(e)' = Bucket(e)
    BY DEF Bucket, Readable
  <1>2. /\ \A k \in DOMAIN store : store[k].count \in Nat
        /\ \A k : k # None => Total(k).count >= Cardinality(AddedTo(k))
    BY DEF StoreInv, SumsCount
  <1>3. \A k : Total(k).count \in Nat
    BY <1>2 DEF Total
  <1>4. ASSUME NEW k
        PROVE  /\ k = b => AddedTo(k)' \subseteq AddedTo(k) \cup {o}
               /\ k # b => AddedTo(k)' = AddedTo(k)
    BY <1>1 DEF AddedTo, Added, Event, TypeOK
  <1>5. CASE b = None
    <2>1. Keys(o, Event(o)) = {}
      BY <1>5, SumsOrRows DEF Keys
    <2>2. DOMAIN store' = DOMAIN store /\ \A k \in DOMAIN store : store'[k] = store[k]
      BY <2>1 DEF Written
    <2>3. QED
      BY <1>2, <1>4, <1>5, <2>2 DEF Total
  <1>6. CASE b # None
    <2>1. /\ DOMAIN store' = DOMAIN store \cup {b}
          /\ store'[b] = Add(b, Event(o))
          /\ \A k \in DOMAIN store : k # b => store'[k] = store[k]
      BY <1>6 DEF Written, Keys
    <2>2. Add(b, Event(o)).count = Total(b).count + 1
      BY DEF Add
    <2>3. \A k \in DOMAIN store' : store'[k].count \in Nat
      BY <1>2, <1>3, <2>1, <2>2
    <2>4. ASSUME NEW k, k # None
          PROVE  Total(k)'.count >= Cardinality(AddedTo(k)')
      <3>1. CASE k = b
        <4>1. Total(k)'.count = Total(k).count + 1
          BY <2>1, <2>2, <3>1 DEF Total
        <4>2. /\ IsFiniteSet(AddedTo(k) \cup {o})
              /\ Cardinality(AddedTo(k) \cup {o}) <= Cardinality(AddedTo(k)) + 1
              /\ Cardinality(AddedTo(k) \cup {o}) \in Nat
          <5>1. IsFiniteSet(AddedTo(k)) /\ Cardinality(AddedTo(k)) \in Nat
            BY AddedIsFinite
          <5>2. /\ IsFiniteSet(AddedTo(k) \cup {o})
                /\ Cardinality(AddedTo(k) \cup {o})
                       = IF o \in AddedTo(k) THEN Cardinality(AddedTo(k)) ELSE Cardinality(AddedTo(k)) + 1
            BY <5>1, FS_AddElement
          <5>3. QED  BY <5>1, <5>2
        <4>3. /\ Cardinality(AddedTo(k)') \in Nat
              /\ Cardinality(AddedTo(k)') <= Cardinality(AddedTo(k) \cup {o})
          BY <1>4, <3>1, <4>2, FS_Subset, FS_CardinalityType
        <4>4. QED
          BY <1>2, <1>3, <2>4, <4>1, <4>2, <4>3, AddedIsFinite
      <3>2. CASE k # b
        <4>1. Total(k)' = Total(k)
          BY <2>1, <3>2 DEF Total
        <4>2. QED  BY <1>2, <1>4, <2>4, <3>2, <4>1
      <3>3. QED  BY <3>1, <3>2
    <2>5. QED  BY <2>3, <2>4
  <1>7. QED  BY <1>5, <1>6

\* A step of a loop with its handler, or of a reader of notifications, keeps the store's
\* invariant.
LEMMA StoreStep == TypeOK /\ StoreInv /\ [HandlersNext]_handlerVars => StoreInv'
  <1> SUFFICES ASSUME TypeOK, StoreInv, [HandlersNext]_handlerVars
               PROVE  StoreInv'
    OBVIOUS
  <1>1. ASSUME UNCHANGED <<rows, service, stream, store>>
        PROVE  StoreInv'
    BY <1>1 DEF StoreInv, RowsAreThere, SumsCount, Added, AddedTo, Total, Rows, Bucket, Event,
       Alerts, Entries, Readable
  <1>2. ASSUME NEW c \in Consumers, Step(c), Record(c), UNCHANGED <<service, stream>>
        PROVE  StoreInv'
    <2>1. CASE UNCHANGED <<rows, store>>
      BY <1>1, <1>2, <2>1
    <2>2. CASE rows' # rows /\ store' = Written(msg[c], Event(msg[c]))
      <3>1. /\ msg[c] \in Offsets
            /\ rows' = [rows EXCEPT ![msg[c]] = @ + 1]
        BY <1>2, <2>2, EffectIs
      <3>2. QED
        BY <1>2, <2>2, <3>1, RowsWritten, SumsWritten DEF StoreInv
    <2>3. QED  BY <1>2, <2>1, <2>2 DEF Record
  <1>3. CASE MarkRead
    <2>1. /\ DOMAIN store' = DOMAIN store /\ service = "notification"
          /\ UNCHANGED <<rows, service, stream>>
      BY <1>3 DEF MarkRead, vars, statement
    <2>2. QED
      BY <2>1 DEF StoreInv, RowsAreThere, SumsCount, Added, Rows, Event
  <1>4. CASE UNCHANGED handlerVars
    BY <1>1, <1>4 DEF handlerVars, vars, statement
  <1>5. QED
    BY <1>2, <1>3, <1>4 DEF HandlersNext

\* The store's invariant is what SettledIsRecorded needs, once no message is passed over.
LEMMA StoreInvSuffices == TypeOK /\ PassedIsHandled /\ StoreInv => SettledIsRecorded
  <1> SUFFICES ASSUME TypeOK, PassedIsHandled, StoreInv
               PROVE  SettledIsRecorded
    OBVIOUS
  <1>1. \A o \in Settled : o \in Offsets /\ Added(o)
    BY DEF Settled, PassedIsHandled
  <1>2. ASSUME NEW o \in Settled, NEW row \in Rows(Event(o))
        PROVE  \E n \in 0..rows[o] : <<o, n, row>> \in DOMAIN store
    BY <1>1, <1>2 DEF StoreInv, RowsAreThere, TypeOK
  <1>3. ASSUME NEW o \in Settled, Bucket(Event(o)) # None
        PROVE  Total(Bucket(Event(o))).count
                   >= Cardinality({p \in Settled : Bucket(Event(p)) = Bucket(Event(o))})
    <2> DEFINE k == Bucket(Event(o))
               same == {p \in Settled : Bucket(Event(p)) = k}
    <2>1. service \in {"analytics", "reports"}
      BY <1>3, SumsOrRows
    <2>2. /\ Total(k).count \in Nat
          /\ Total(k).count >= Cardinality(AddedTo(k))
      BY <1>3, <2>1 DEF StoreInv, SumsCount, Total
    <2>3. same \subseteq AddedTo(k)
      BY <1>1 DEF AddedTo
    <2>4. Cardinality(same) <= Cardinality(AddedTo(k)) /\ Cardinality(same) \in Nat
      BY <2>3, AddedIsFinite, FS_Subset, FS_CardinalityType
    <2>5. QED  BY <2>2, <2>4, AddedIsFinite
  <1>4. QED  BY <1>2, <1>3 DEF SettledIsRecorded

\* What the group of a service has moved past without an error is in that service's
\* store: for any number of replicas and any streams of messages.
THEOREM RecordedOnceSettled == HandlersSpec => []SettledIsRecorded
  <1>1. HandlersSpec => [](TypeOK /\ PassedIsHandled)
    BY HandlersImplementConsumer, ConsumerTypeCorrect, NothingPassedOver, PTL
  <1>2. QED
    BY <1>1, StoreInit, StoreStep, StoreInvSuffices, PTL DEF HandlersSpec
=============================================================================
