------------------------------ MODULE Consumer ------------------------------
(***************************************************************************)
(* pkg/kafka: the consumers of one service's group on one partition of a   *)
(* topic, with a handler that adds rows for a message in one statement or  *)
(* one transaction.  EventHandlers adds what each service's handler does.  *)
(*                                                                         *)
(* Each replica runs one Consume loop over a reader.  The group gives the  *)
(* partition to one replica at a time; a replica that gets it reads on     *)
(* from the committed offset.  A loop that is busy with a message when its *)
(* partition is given away goes on with it, and the group accepts its      *)
(* commit.                                                                 *)
(***************************************************************************)
EXTENDS Naturals

CONSTANTS
    Consumers,          \* replicas of the service
    N,                  \* messages in the partition
    MaxCallFailures,    \* errors of FetchMessage and CommitMessages, and
    MaxRebalances       \* rebalances and crashes in a behaviour

ASSUME ConsumerAssumption ==
    /\ N \in Nat
    /\ MaxCallFailures \in Nat
    /\ MaxRebalances \in Nat

Offsets == 0..(N - 1)

VARIABLES
    owner,          \* the replica that has the partition
    committed,      \* the group's committed offset: the next message to read
    position,       \* the next offset each reader fetches
    loop,           \* the call each Consume loop is about to make
    msg,            \* the offset of its current message
    rows,           \* how often each message's rows have been added
    failed,         \* offsets of messages on which a handler has failed
    callFailures, rebalances

group == <<owner, committed, rebalances>>
reader == <<position, loop, msg>>
statement == <<rows, failed>>
vars == <<group, reader, statement, callFailures>>

-----------------------------------------------------------------------------
Init ==
    /\ owner \in Consumers
    /\ committed = 0
    /\ position = [c \in Consumers |-> 0]
    /\ loop = [c \in Consumers |-> "fetch"]
    /\ msg = [c \in Consumers |-> 0]
    /\ rows = [o \in Offsets |-> 0]
    /\ failed = {}
    /\ callFailures = 0
    /\ rebalances = 0

Goto(c, call) == loop' = [loop EXCEPT ![c] = call]

\* Bug variant of FetchMessage: ReadMessage, which commits what it fetches.
ReadMessage(c) ==
    /\ loop[c] = "fetch"
    /\ owner = c
    /\ position[c] \in Offsets
    /\ msg' = [msg EXCEPT ![c] = position[c]]
    /\ position' = [position EXCEPT ![c] = @ + 1]
    /\ committed' = position[c] + 1
    /\ Goto(c, "handle")
    /\ UNCHANGED <<owner, rebalances, statement, callFailures>>

FetchMessage(c) ==
    /\ loop[c] = "fetch"
    /\ owner = c
    /\ position[c] \in Offsets
    /\ msg' = [msg EXCEPT ![c] = position[c]]
    /\ position' = [position EXCEPT ![c] = @ + 1]
    /\ Goto(c, "handle")
    /\ UNCHANGED <<group, statement, callFailures>>

\* Service.Handle and repo.CreateMany, which adds both rows or none.
AddRows(c) == rows' = [rows EXCEPT ![msg[c]] = @ + 1]

Handle(c) ==
    /\ loop[c] = "handle"
    /\ AddRows(c)
    /\ Goto(c, "commit")
    /\ UNCHANGED <<group, position, msg, failed, callFailures>>

\* Bug variant of HandleFails: the error of the handler is dropped.
HandleErrorIgnored(c) ==
    /\ loop[c] = "handle"
    /\ Goto(c, "commit")
    /\ UNCHANGED <<group, position, msg, rows, failed, callFailures>>

\* The handler fails, with or without the effect of a commit it has sent.  The loop
\* goes on with the next message.
HandleFails(c) ==
    /\ loop[c] = "handle"
    /\ failed' = failed \cup {msg[c]}
    /\ AddRows(c) \/ UNCHANGED rows
    /\ Goto(c, "fetch")
    /\ UNCHANGED <<group, position, msg, callFailures>>

\* Bug variant of Offset: one is added to the offset of a message, and once more when
\* it is committed.
OffsetPlusTwo(c) == msg[c] + 2

Offset(c) == msg[c] + 1

CommitMessages(c) ==
    /\ loop[c] = "commit"
    /\ committed' = Offset(c)
    /\ Goto(c, "fetch")
    /\ UNCHANGED <<owner, rebalances, position, msg, statement, callFailures>>

\* Consume returns the error of a call to the reader; main logs it and keeps the reader in the group.
FetchFails(c) ==
    /\ loop[c] = "fetch"
    /\ callFailures < MaxCallFailures
    /\ callFailures' = callFailures + 1
    /\ Goto(c, "stopped")
    /\ UNCHANGED <<group, position, msg, statement>>

CommitFails(c) ==
    /\ loop[c] = "commit"
    /\ callFailures < MaxCallFailures
    /\ callFailures' = callFailures + 1
    /\ committed' \in {committed, Offset(c)}
    /\ Goto(c, "stopped")
    /\ UNCHANGED <<owner, rebalances, position, msg, statement>>

-----------------------------------------------------------------------------
\* The partition is given to d, whose reader resumes at the committed offset.
Resume(d) ==
    /\ owner' = d
    /\ position' = [position EXCEPT ![d] = committed]

Rebalance(d) ==
    /\ rebalances < MaxRebalances
    /\ rebalances' = rebalances + 1
    /\ Resume(d)
    /\ UNCHANGED <<committed, loop, msg, statement, callFailures>>

\* A replica dies and starts again: its loop begins anew, and the group rebalances.
\* What it was handling may have taken effect.
Crash(c) ==
    /\ rebalances < MaxRebalances
    /\ rebalances' = rebalances + 1
    /\ \E d \in Consumers : Resume(d)
    /\ \/ loop[c] = "handle" /\ AddRows(c)
       \/ UNCHANGED rows
    /\ Goto(c, "fetch")
    /\ UNCHANGED <<committed, msg, failed, callFailures>>

-----------------------------------------------------------------------------
Consume(c) == FetchMessage(c) \/ Handle(c) \/ CommitMessages(c)

Step(c) ==
    \/ Consume(c)
    \/ HandleFails(c) \/ FetchFails(c) \/ CommitFails(c)
    \/ Rebalance(c) \/ Crash(c)

Next == \E c \in Consumers : Step(c)

Spec == Init /\ [][Next]_vars

\* The loop of every replica runs, and its calls return.
FairSpec == Spec /\ \A c \in Consumers : WF_vars(Consume(c))

-----------------------------------------------------------------------------
TypeOK ==
    /\ owner \in Consumers
    /\ committed \in 0..N
    /\ position \in [Consumers -> 0..N]
    /\ loop \in [Consumers -> {"fetch", "handle", "commit", "stopped"}]
    /\ msg \in [Consumers -> Nat]
    /\ \A c \in Consumers : loop[c] \in {"handle", "commit"} => msg[c] \in Offsets
    /\ rows \in [Offsets -> Nat]
    /\ failed \subseteq Offsets
    /\ callFailures \in 0..MaxCallFailures
    /\ rebalances \in 0..MaxRebalances

Added(o) == rows[o] > 0

\* At least once: the group moves past a message only when its rows have been added,
\* or when a handler failed on it, whichever replicas crash, lose the partition in
\* the middle of a message or commit late.
PassedIsHandled ==
    \A o \in Offsets : o < committed => Added(o) \/ o \in failed

\* consumer.go, Handler: "Returning an error leaves the message uncommitted so it is
\* redelivered."  A message that the group has moved past is never redelivered.
CommittedOnlyOnSuccess == \A o \in Offsets : o < committed => Added(o)

\* Every message gets its rows in the end, although replicas crash and the partition
\* moves; the code makes exceptions of a message on which the handler failed, and of
\* all messages once a loop has ended.
EveryMessageSettled ==
    \A o \in Offsets :
        <>(Added(o) \/ o \in failed \/ \E c \in Consumers : loop[c] = "stopped")
=============================================================================
