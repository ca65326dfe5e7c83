--------------------------- MODULE ConsumerProofs ---------------------------
(***************************************************************************)
(* Proofs about Consumer, for any number of replicas and messages: its     *)
(* types, and that the group moves past no message that has been neither   *)
(* handled nor failed on.                                                  *)
(***************************************************************************)
EXTENDS Consumer, TLAPS

\* Every message below n has its rows, or has had a failure.
DoneBelow(n) == \A o \in Offsets : o < n => Added(o) \/ o \in failed

\* A loop works on a message after all messages before it, and the owner's reader is
\* not further than that message.
LoopInOrder(c) ==
    /\ loop[c] = "handle" => DoneBelow(msg[c])
    /\ loop[c] = "commit" => DoneBelow(msg[c] + 1)
    /\ owner = c =>
           \/ DoneBelow(position[c])
           \/ loop[c] = "handle" /\ position[c] = msg[c] + 1

\* The inductive invariant: PassedIsHandled for the committed offset, and the same of
\* every offset that some replica may still commit or read on from.
ConsumerInv ==
    /\ TypeOK
    /\ PassedIsHandled
    /\ \A c \in Consumers : LoopInOrder(c)

\* The group starts at the first message, with nothing handled.
LEMMA InitInv == Init => ConsumerInv
  <1> SUFFICES ASSUME Init
               PROVE  ConsumerInv
    OBVIOUS
  <1>1. TypeOK
    BY ConsumerAssumption DEF Init, TypeOK, Offsets
  <1>2. DoneBelow(0)
    BY ConsumerAssumption DEF DoneBelow, Offsets
  <1>3. PassedIsHandled /\ \A c \in Consumers : LoopInOrder(c)
    <2>1. committed = 0 /\ \A c \in Consumers : position[c] = 0 /\ loop[c] = "fetch"
      BY DEF Init
    <2>2. PassedIsHandled
      BY <1>2, <2>1 DEF PassedIsHandled, DoneBelow
    <2>3. QED  BY <1>2, <2>1, <2>2 DEF LoopInOrder
  <1>4. QED  BY <1>1, <1>3 DEF ConsumerInv

\* What is done stays done.
LEMMA DoneMonotonic ==
    ASSUME NEW n, \A o \in Offsets : Added(o) => Added(o)', failed \subseteq failed',
           DoneBelow(n)
    PROVE  DoneBelow(n)'
  BY DEF DoneBelow

\* Rows are added, never taken away.
LEMMA RowsGrow ==
    ASSUME TypeOK, NEW c \in Consumers,
           \/ UNCHANGED rows
           \/ loop[c] = "handle" /\ AddRows(c)
    PROVE  /\ rows' \in [Offsets -> Nat]
           /\ \A o \in Offsets : Added(o) => Added(o)'
           /\ UNCHANGED rows \/ rows'[msg[c]] > 0
  BY DEF TypeOK, AddRows, Added

\* A step of any reader keeps the types.
LEMMA TypeStep == TypeOK /\ [Next]_vars => TypeOK'
  <1> SUFFICES ASSUME TypeOK, [Next]_vars
               PROVE  TypeOK'
    OBVIOUS
  <1> USE ConsumerAssumption DEF TypeOK, Offsets, Goto, group, reader, statement
  <1>1. ASSUME NEW c \in Consumers, FetchMessage(c)
        PROVE  TypeOK'
    BY <1>1 DEF FetchMessage
  <1>2. ASSUME NEW c \in Consumers, Handle(c)
        PROVE  TypeOK'
    <2>1. rows' \in [Offsets -> Nat]
      BY <1>2, RowsGrow DEF Handle
    <2>2. QED  BY <1>2, <2>1 DEF Handle
  <1>3. ASSUME NEW c \in Consumers, CommitMessages(c)
        PROVE  TypeOK'
    BY <1>3 DEF CommitMessages, Offset
  <1>4. ASSUME NEW c \in Consumers, HandleFails(c)
        PROVE  TypeOK'
    <2>1. rows' \in [Offsets -> Nat]
      BY <1>4, RowsGrow DEF HandleFails
    <2>2. failed' = failed \cup {msg[c]} /\ loop[c] = "handle"
      BY <1>4 DEF HandleFails
    <2>3. loop' = [loop EXCEPT ![c] = "fetch"]
      BY <1>4 DEF HandleFails
    <2>4. UNCHANGED <<owner, committed, rebalances, position, msg, callFailures>>
      BY <1>4 DEF HandleFails
    <2>5. failed' \subseteq Offsets
      BY <2>2
    <2>6. /\ loop' \in [Consumers -> {"fetch", "handle", "commit", "stopped"}]
          /\ \A d \in Consumers : loop'[d] \in {"handle", "commit"} => msg'[d] \in Offsets
      BY <2>3, <2>4
    <2>7. QED  BY <2>1, <2>4, <2>5, <2>6
  <1>5. ASSUME NEW c \in Consumers, FetchFails(c)
        PROVE  TypeOK'
    BY <1>5 DEF FetchFails
  <1>6. ASSUME NEW c \in Consumers, CommitFails(c)
        PROVE  TypeOK'
    BY <1>6 DEF CommitFails, Offset
  <1>7. ASSUME NEW c \in Consumers, Rebalance(c)
        PROVE  TypeOK'
    BY <1>7 DEF Rebalance, Resume
  <1>8. ASSUME NEW c \in Consumers, Crash(c)
        PROVE  TypeOK'
    <2>1. rows' \in [Offsets -> Nat]
      BY <1>8, RowsGrow DEF Crash
    <2>2. PICK d \in Consumers : Resume(d)
      BY <1>8 DEF Crash
    <2>3. QED  BY <1>8, <2>1, <2>2 DEF Crash, Resume
  <1>9. CASE UNCHANGED vars
    BY <1>9 DEF vars
  <1>10. QED
    BY <1>1, <1>2, <1>3, <1>4, <1>5, <1>6, <1>7, <1>8, <1>9 DEF Next, Step, Consume

-----------------------------------------------------------------------------
\* A step of c that keeps the committed offset and who reads where: what the others
\* have done is still done, and c is in order after it.
LEMMA LocalStep ==
    ASSUME ConsumerInv, TypeOK', NEW c \in Consumers,
           UNCHANGED <<owner, committed>>, failed \subseteq failed',
           \A o \in Offsets : Added(o) => Added(o)',
           \A d \in Consumers \ {c} : UNCHANGED <<position[d], loop[d], msg[d]>>,
           LoopInOrder(c)'
    PROVE  ConsumerInv'
  <1>1. PassedIsHandled'
    BY DEF ConsumerInv, PassedIsHandled
  <1>2. \A d \in Consumers \ {c} : LoopInOrder(d)'
    BY DoneMonotonic DEF ConsumerInv, LoopInOrder, DoneBelow
  <1>3. QED  BY <1>1, <1>2 DEF ConsumerInv

\* The group takes up reading at the committed offset, which is in order.
LEMMA ResumeInOrder ==
    ASSUME ConsumerInv, TypeOK', NEW d \in Consumers, Resume(d), UNCHANGED <<committed, failed, msg>>,
           \A o \in Offsets : Added(o) => Added(o)',
           \A c \in Consumers : loop'[c] \in {loop[c], "fetch"}
    PROVE  ConsumerInv'
  <1>1. PassedIsHandled'
    BY DEF ConsumerInv, PassedIsHandled
  <1>2. owner' = d /\ position'[d] = committed
    BY DEF Resume, ConsumerInv, TypeOK
  <1>3. DoneBelow(position[d])'
    BY <1>1, <1>2 DEF PassedIsHandled, DoneBelow
  <1>4. ASSUME NEW c \in Consumers
        PROVE  LoopInOrder(c)'
    BY <1>2, <1>3 DEF ConsumerInv, LoopInOrder, DoneBelow
  <1>5. QED  BY <1>1, <1>4 DEF ConsumerInv

\* A commit by any replica, whoever has the partition: all it passes is done.
LEMMA CommitInOrder ==
    ASSUME ConsumerInv, TypeOK', NEW c \in Consumers, loop[c] = "commit",
           committed' \in {committed, Offset(c)}, NEW call \in {"fetch", "stopped"},
           Goto(c, call), UNCHANGED <<owner, position, msg, rows, failed>>
    PROVE  ConsumerInv'
  <1>1. \A n : DoneBelow(n)' <=> DoneBelow(n)
    BY DEF DoneBelow, Added
  <1>2. DoneBelow(committed) /\ DoneBelow(Offset(c))
    BY DEF ConsumerInv, PassedIsHandled, LoopInOrder, Offset, DoneBelow
  <1>3. PassedIsHandled'
    BY <1>2 DEF PassedIsHandled, DoneBelow, Added
  <1>4. \A d \in Consumers : LoopInOrder(d)'
    BY <1>1 DEF ConsumerInv, TypeOK, LoopInOrder, Goto
  <1>5. QED  BY <1>3, <1>4 DEF ConsumerInv

\* A step of any reader keeps the invariant.
LEMMA InvStep == ConsumerInv /\ [Next]_vars => ConsumerInv'
  <1> SUFFICES ASSUME ConsumerInv, [Next]_vars
               PROVE  ConsumerInv'
    OBVIOUS
  <1>1. TypeOK /\ TypeOK'
    BY TypeStep DEF ConsumerInv
  <1>2. ASSUME NEW c \in Consumers, FetchMessage(c)
        PROVE  ConsumerInv'
    <2>1. LoopInOrder(c)'
      BY <1>1, <1>2 DEF FetchMessage, ConsumerInv, LoopInOrder, TypeOK, Goto, DoneBelow,
         group, statement, Added
    <2>2. QED
      BY <1>1, <1>2, <2>1, LocalStep DEF FetchMessage, TypeOK, Goto, group, statement, Added
  <1>3. ASSUME NEW c \in Consumers, Handle(c) \/ HandleFails(c)
        PROVE  ConsumerInv'
    <2>1. /\ \A o \in Offsets : Added(o) => Added(o)'
          /\ UNCHANGED rows \/ rows'[msg[c]] > 0
      BY <1>1, <1>3, RowsGrow DEF Handle, HandleFails
    <2>2. /\ UNCHANGED <<owner, committed, position, msg>> /\ failed \subseteq failed'
          /\ loop[c] = "handle" /\ loop'[c] \in {"commit", "fetch"}
          /\ \A d \in Consumers \ {c} : loop'[d] = loop[d]
      BY <1>1, <1>3 DEF Handle, HandleFails, Goto, group, TypeOK
    <2>3. rows'[msg[c]] > 0 \/ msg[c] \in failed'
      BY <1>1, <1>3 DEF Handle, HandleFails, AddRows, TypeOK
    <2>4. DoneBelow(msg[c] + 1)'
      BY <1>1, <2>1, <2>2, <2>3 DEF ConsumerInv, LoopInOrder, DoneBelow, Added, TypeOK, Offsets
    <2>5. owner = c => DoneBelow(position[c])'
      BY <2>1, <2>2, <2>4, DoneMonotonic DEF ConsumerInv, LoopInOrder, DoneBelow
    <2>6. LoopInOrder(c)'
      BY <2>2, <2>4, <2>5 DEF LoopInOrder
    <2>7. QED  BY <1>1, <2>1, <2>2, <2>6, LocalStep
  <1>4. ASSUME NEW c \in Consumers, CommitMessages(c)
        PROVE  ConsumerInv'
    BY <1>1, <1>4, CommitInOrder DEF CommitMessages, statement
  <1>5. ASSUME NEW c \in Consumers, CommitFails(c)
        PROVE  ConsumerInv'
    BY <1>1, <1>5, CommitInOrder DEF CommitFails, statement
  <1>6. ASSUME NEW c \in Consumers, FetchFails(c)
        PROVE  ConsumerInv'
    <2>1. LoopInOrder(c)'
      BY <1>1, <1>6 DEF FetchFails, ConsumerInv, LoopInOrder, TypeOK, Goto, DoneBelow,
         group, statement, Added
    <2>2. QED
      BY <1>1, <1>6, <2>1, LocalStep DEF FetchFails, TypeOK, Goto, group, statement, Added
  <1>7. ASSUME NEW d \in Consumers, Rebalance(d)
        PROVE  ConsumerInv'
    BY <1>1, <1>7, ResumeInOrder DEF Rebalance, statement, Added
  <1>8. ASSUME NEW c \in Consumers, Crash(c)
        PROVE  ConsumerInv'
    <2>1. \A o \in Offsets : Added(o) => Added(o)'
      BY <1>1, <1>8, RowsGrow DEF Crash
    <2>2. PICK d \in Consumers : Resume(d)
      BY <1>8 DEF Crash
    <2>3. \A e \in Consumers : loop'[e] \in {loop[e], "fetch"}
      BY <1>1, <1>8 DEF Crash, Goto, TypeOK
    <2>4. UNCHANGED <<committed, failed, msg>>
      BY <1>8 DEF Crash
    <2>5. QED  BY <1>1, <2>1, <2>2, <2>3, <2>4, ResumeInOrder
  <1>9. CASE UNCHANGED vars
    BY <1>1, <1>9 DEF vars, group, reader, statement, ConsumerInv, PassedIsHandled,
       LoopInOrder, DoneBelow, Added
  <1>10. QED
    BY <1>2, <1>3, <1>4, <1>5, <1>6, <1>7, <1>8, <1>9 DEF Next, Step, Consume

\* The invariant holds in every reachable state.
LEMMA Invariance == Spec => []ConsumerInv
  BY InitInv, InvStep, PTL DEF Spec

-----------------------------------------------------------------------------
\* The types of the group's, the readers' and the statement's state.
THEOREM ConsumerTypeCorrect == Spec => []TypeOK
  BY Invariance, PTL DEF ConsumerInv

\* At least once, but for failures of the handler: the group moves past no message
\* that has neither its rows nor a failure.
THEOREM NothingPassedOver == Spec => []PassedIsHandled
  BY Invariance, PTL DEF ConsumerInv
=============================================================================
