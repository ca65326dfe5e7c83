---------------------- MODULE TransactionServiceProofs ----------------------
(***************************************************************************)
(* What holds of transaction-service for any requests, accounts, number of *)
(* attempts and faults.  Most of it speaks of the postings the ledger has  *)
(* applied; the balances, which are sums of entries, come last.            *)
(***************************************************************************)
EXTENDS TransactionService, SumLemmas

PostedKey(k) == \E p \in applied : p.key = k

\* The fields of the posting that a request asks the ledger for.
LEMMA PostingFields ==
    ASSUME NEW a
    PROVE  /\ Posting(a).id = a
           /\ Posting(a).key = a.req.key
           /\ Posting(a).entries = Entries(a.req)
BY DEF Posting

\* The fields of an attempt at a request.
LEMMA AttemptFields ==
    ASSUME NEW a \in Attempts
    PROVE  a.req \in Requests /\ a.req.key \in Keys
BY DEF Attempts, Keys

\* What a call of the ledger's Post does to the set of applied postings.
LEMMA LedgerPost ==
    ASSUME NEW a \in Attempts, L!Post(Posting(a))
    PROVE  /\ \/ applied' = applied
              \/ ~PostedKey(a.req.key) /\ applied' = applied \cup {Posting(a)}
           /\ L!PostOutcome(Posting(a)) \in {"applied", "duplicate"} =>
                  PostedKey(a.req.key)'
<1> DEFINE p == Posting(a)
<1>1. p.key = a.req.key
  BY PostingFields
<1>2. CASE L!PostOutcome(p) = "applied"
  <2>1. ~L!KeyApplied(p)
    BY <1>2 DEF L!PostOutcome
  <2>2. applied' = applied \cup {p}
    BY <1>2 DEF L!Post, L!Apply
  <2>3. QED
    BY <1>1, <2>1, <2>2 DEF L!KeyApplied, PostedKey
<1>3. CASE L!PostOutcome(p) # "applied"
  <2>1. applied' = applied
    BY <1>3 DEF L!Post, L!vars
  <2>2. L!PostOutcome(p) = "duplicate" => L!KeyApplied(p)
    BY DEF L!PostOutcome
  <2>3. QED
    BY <1>1, <1>3, <2>1, <2>2 DEF L!KeyApplied, PostedKey
<1>4. QED
  BY <1>2, <1>3

-----------------------------------------------------------------------------
(* The invariant. *)

Recording == {"record", "event", "commit"}

RecordingIsPosted ==
    \A a \in Attempts : pc[a] \in Recording => PostedKey(a.req.key)

OncePosted == \A p, q \in applied : p.key = q.key => p = q

OnceRecorded == \A q, r \in records : q.req.key = r.req.key => q = r

SuccessIsRecorded ==
    \A a \in Attempts :
        outcome[a] = "created" => body[a] \in records /\ body[a].req.key = a.req.key

RecordedKeyPosted == \A r \in records : PostedKey(r.req.key)

\* The uncommitted rows are those of the attempts between an INSERT and the commit, and
\* nobody else has a row under their keys.
Staged ==
    /\ newRecords = { a \in Attempts : pc[a] \in {"event", "commit"} }
    /\ newEvents = { EventOf(a) : a \in { b \in Attempts : pc[b] = "commit" } }

StagedAlone ==
    /\ \A a \in newRecords : RecordOf(a.req.key) = {}
    /\ \A a, b \in newRecords : a.req.key = b.req.key => a = b

ServiceInv ==
    /\ ServiceTypeOK
    /\ RecordingIsPosted
    /\ OncePosted
    /\ OnceRecorded
    /\ SuccessIsRecorded
    /\ RecordedKeyPosted
    /\ Staged
    /\ StagedAlone
    /\ EventPerRecord

\* No attempt has begun at the start.
LEMMA InvInit == Init => ServiceInv
<1> SUFFICES ASSUME Init PROVE ServiceInv
  OBVIOUS
<1>1. ServiceTypeOK
  BY BoundsAssumption DEF Init, ServiceTypeOK
<1>2. QED
  BY <1>1 DEF Init, ServiceInv, RecordingIsPosted, Recording, OncePosted, OnceRecorded,
              SuccessIsRecorded, RecordedKeyPosted, Staged, StagedAlone, EventPerRecord

\* An event tells whose it is.
LEMMA EventIsOf ==
    ASSUME NEW a, NEW b, EventOf(a) = EventOf(b)
    PROVE  a = b
<1>1. EventOf(a).txn = a /\ EventOf(b).txn = b
  BY DEF EventOf
<1>2. QED
  BY <1>1

\* Attempt a has no uncommitted rows after the step: it drops them, or has had none.
Leaves(a) ==
    \/ Discard(a)
    \/ pc[a] \notin {"event", "commit"} /\ UNCHANGED <<newRecords, newEvents>>

\* The uncommitted rows follow the calls.
LEMMA StagedStep ==
    ASSUME ServiceInv, NEW a \in Attempts, NEW call, pc' = [pc EXCEPT ![a] = call],
           \/ call \notin {"event", "commit"} /\ Leaves(a)
           \/ /\ pc[a] = "record" /\ call = "event"
              /\ newRecords' = newRecords \cup {a} /\ newEvents' = newEvents
           \/ /\ pc[a] = "event" /\ call = "commit"
              /\ newRecords' = newRecords /\ newEvents' = newEvents \cup {EventOf(a)}
    PROVE  Staged'
<1> DEFINE Between == { b \in Attempts : pc[b] \in {"event", "commit"} }
           Committing == { b \in Attempts : pc[b] = "commit" }
<1>1. newRecords = Between /\ newEvents = { EventOf(b) : b \in Committing }
  BY DEF ServiceInv, Staged
<1>2. pc'[a] = call /\ \A b \in Attempts : b # a => pc'[b] = pc[b]
  BY DEF ServiceInv, ServiceTypeOK
<1>3. \A b : EventOf(b) = EventOf(a) <=> b = a
  BY EventIsOf
<1>4. CASE call \notin {"event", "commit"} /\ Leaves(a)
  <2>1. Between' = Between \ {a} /\ Committing' = Committing \ {a}
    BY <1>2, <1>4
  <2>2. /\ newRecords' = newRecords \ {a} /\ newEvents' = newEvents \ {EventOf(a)}
    BY <1>1, <1>3, <1>4 DEF Leaves, Discard
  <2>3. { EventOf(b) : b \in Committing } \ {EventOf(a)} = { EventOf(b) : b \in Committing \ {a} }
    BY <1>3
  <2>4. newRecords' = Between' /\ newEvents' = { EventOf(b) : b \in Committing' }
    BY <1>1, <2>1, <2>2, <2>3
  <2>5. QED
    BY <2>4 DEF Staged
<1>5. CASE pc[a] = "record" /\ call = "event" /\ newRecords' = newRecords \cup {a} /\ newEvents' = newEvents
  <2>1. Between' = Between \cup {a} /\ Committing' = Committing
    BY <1>2, <1>5
  <2>2. QED
    BY <1>1, <1>5, <2>1 DEF Staged
<1>6. CASE pc[a] = "event" /\ call = "commit" /\ newRecords' = newRecords /\ newEvents' = newEvents \cup {EventOf(a)}
  <2>1. Between' = Between /\ Committing' = Committing \cup {a}
    BY <1>2, <1>6
  <2>2. QED
    BY <1>1, <1>6, <2>1 DEF Staged
<1>7. QED
  BY <1>4, <1>5, <1>6

\* A step of attempt a that commits nothing, posts nothing and does not succeed.
LEMMA QuietStep ==
    ASSUME ServiceInv, NEW a \in Attempts,
           applied' = applied, records' = records, outbox' = outbox, Leaves(a),
           NEW call \in {"unsent", "replay", "funds", "system", "post", "orphaned",
                         "answered", "dead"},
           NEW answer \in {"none", "bad_request", "insufficient_funds",
                           "ledger_unavailable", "error"},
           pc' = [pc EXCEPT ![a] = call],
           \/ /\ outcome[a] = "none"
              /\ outcome' = outcome /\ body' = body
           \/ /\ outcome[a] = "none" /\ call = "orphaned"
              /\ outcome' = [outcome EXCEPT ![a] = answer] /\ body' = body
           \/ /\ call = "answered"
              /\ outcome' = [outcome EXCEPT ![a] = answer]
              /\ body' = [body EXCEPT ![a] = NoAttempt],
           faults' \in 0..MaxFaults
    PROVE  ServiceInv'
<1>0. newRecords' \subseteq newRecords /\ newEvents' \subseteq newEvents
  BY DEF Leaves, Discard
<1>1. ServiceTypeOK'
  BY <1>0 DEF ServiceInv, ServiceTypeOK
<1>2. RecordingIsPosted'
  BY DEF ServiceInv, ServiceTypeOK, RecordingIsPosted, Recording, PostedKey
<1>3. SuccessIsRecorded'
  BY DEF ServiceInv, ServiceTypeOK, SuccessIsRecorded
<1>4. OncePosted' /\ OnceRecorded' /\ RecordedKeyPosted' /\ EventPerRecord'
  BY DEF ServiceInv, OncePosted, OnceRecorded, RecordedKeyPosted, PostedKey, EventPerRecord
<1>5. Staged'
  BY StagedStep
<1>6. StagedAlone'
  BY <1>0 DEF ServiceInv, StagedAlone, RecordOf
<1>7. QED
  BY <1>1, <1>2, <1>3, <1>4, <1>5, <1>6 DEF ServiceInv

\* A step in which attempt a calls the ledger's Post and nothing else happens to
\* the database; "record" is reached only once the key is posted.
LEMMA PostStep ==
    ASSUME ServiceInv, NEW a \in Attempts, UNCHANGED database, faults' = faults,
           pc[a] \in {"post", "orphaned"},
           L!Post(Posting(a)) \/ UNCHANGED ledger,
           \/ Goto(a, "record") /\ PostedKey(a.req.key)' /\ outcome[a] = "none"
           \/ Goto(a, "answered")
           \/ Refuse(a, "ledger_unavailable")
    PROVE  ServiceInv'
<1> USE DEF Goto, Refuse, Answer, database
<1>1. \/ applied' = applied
      \/ ~PostedKey(a.req.key) /\ applied' = applied \cup {Posting(a)}
  BY LedgerPost DEF ledger
<1>2. ServiceTypeOK'
  BY <1>1 DEF ServiceInv, ServiceTypeOK
<1>3. \A k : PostedKey(k) => PostedKey(k)'
  BY <1>1 DEF PostedKey
<1>4. RecordingIsPosted'
  BY <1>3 DEF ServiceInv, ServiceTypeOK, RecordingIsPosted, Recording
<1>5. OncePosted'
  BY <1>1, PostingFields DEF ServiceInv, OncePosted, PostedKey
<1>6. RecordedKeyPosted'
  BY <1>3 DEF ServiceInv, RecordedKeyPosted
<1>7. SuccessIsRecorded'
  BY DEF ServiceInv, ServiceTypeOK, SuccessIsRecorded
<1>8. OnceRecorded' /\ EventPerRecord' /\ StagedAlone'
  BY DEF ServiceInv, OnceRecorded, EventPerRecord, StagedAlone, RecordOf
<1>9. Staged'
  BY StagedStep DEF Leaves
<1>10. QED
  BY <1>2, <1>4, <1>5, <1>6, <1>7, <1>8, <1>9 DEF ServiceInv

\* An INSERT of Create: the record's, under a key that no other row has, or the event's.
LEMMA InsertStep ==
    ASSUME ServiceInv, NEW a \in Attempts, InsertRecord(a) \/ InsertEvent(a)
    PROVE  ServiceInv'
<1> USE DEF InsertRecord, InsertEvent, Goto
<1>1. UNCHANGED <<ledger, records, outbox, outcome, body, faults>>
  OBVIOUS
<1>2. ServiceTypeOK'
  <2>1. outcome[a] = "none"
    BY DEF ServiceInv, ServiceTypeOK
  <2>2. QED
    BY <2>1 DEF ServiceInv, ServiceTypeOK, ledger
<1>3. RecordingIsPosted'
  BY DEF ServiceInv, ServiceTypeOK, RecordingIsPosted, Recording, PostedKey, ledger
<1>4. SuccessIsRecorded' /\ OncePosted' /\ OnceRecorded' /\ RecordedKeyPosted' /\ EventPerRecord'
  BY <1>1 DEF ServiceInv, SuccessIsRecorded, OncePosted, OnceRecorded, RecordedKeyPosted,
              PostedKey, EventPerRecord, ledger
<1>5. Staged'
  BY StagedStep
<1>6. StagedAlone'
  BY DEF ServiceInv, StagedAlone, RecordOf, KeyPending
<1>7. QED
  BY <1>2, <1>3, <1>4, <1>5, <1>6 DEF ServiceInv

\* What the commit of attempt a adds to the tables.
LEMMA CommitAdds ==
    ASSUME ServiceInv, NEW a \in Attempts, pc[a] = "commit", Commit(a)
    PROVE  /\ records' = records \cup {a} /\ outbox' = outbox \cup {EventOf(a)}
           /\ Discard(a)
           /\ RecordOf(a.req.key) = {} /\ PostedKey(a.req.key)
           /\ \A b \in newRecords' : b.req.key # a.req.key
<1>1. a \in newRecords /\ EventOf(a) \in newEvents
  BY DEF ServiceInv, Staged
<1>2. RecordOf(a.req.key) = {} /\ \A b \in newRecords \ {a} : b.req.key # a.req.key
  BY <1>1 DEF ServiceInv, StagedAlone
<1>3. PostedKey(a.req.key)
  BY DEF ServiceInv, RecordingIsPosted, Recording
<1>4. QED
  BY <1>1, <1>2, <1>3 DEF Commit, Discard

\* A step in which attempt a commits its record and event, whether it learns of it or not.
LEMMA CommitStep ==
    ASSUME ServiceInv, NEW a \in Attempts, pc[a] = "commit", Commit(a), UNCHANGED ledger,
           faults' \in 0..MaxFaults,
           Answer(a, "created", a) \/ Refuse(a, "error")
    PROVE  ServiceInv'
<1> USE DEF Refuse, Answer, ledger
<1>1. /\ records' = records \cup {a} /\ outbox' = outbox \cup {EventOf(a)}
      /\ newRecords' \subseteq newRecords /\ newEvents' \subseteq newEvents
  BY CommitAdds DEF Discard
<1>2. \A r \in records : r.req.key # a.req.key
  BY CommitAdds DEF RecordOf
<1>3. ServiceTypeOK'
  BY <1>1, BoundsAssumption DEF ServiceInv, ServiceTypeOK
<1>4. RecordingIsPosted' /\ OncePosted'
  BY DEF ServiceInv, ServiceTypeOK, RecordingIsPosted, Recording, OncePosted, PostedKey
<1>5. OnceRecorded'
  BY <1>1, <1>2 DEF ServiceInv, OnceRecorded
<1>6. SuccessIsRecorded'
  BY <1>1 DEF ServiceInv, ServiceTypeOK, SuccessIsRecorded
<1>7. RecordedKeyPosted'
  BY <1>1, CommitAdds DEF ServiceInv, RecordedKeyPosted, PostedKey
<1>8. EventPerRecord'
  BY <1>1 DEF ServiceInv, EventPerRecord
<1>9. Staged'
  BY CommitAdds, StagedStep DEF Leaves
<1>10. StagedAlone'
  BY <1>1, CommitAdds DEF ServiceInv, StagedAlone, RecordOf
<1>11. QED
  BY <1>3, <1>4, <1>5, <1>6, <1>7, <1>8, <1>9, <1>10 DEF ServiceInv

\* A replayed key is answered with its record.
LEMMA ReplayStep ==
    ASSUME ServiceInv, NEW a \in Attempts, NEW r \in RecordOf(a.req.key),
           pc[a] = "replay",
           Answer(a, "created", r), UNCHANGED <<ledger, database, faults>>
    PROVE  ServiceInv'
<1> USE DEF Answer, ledger, database
<1>1. r \in records /\ r.req.key = a.req.key
  BY DEF RecordOf
<1>2. ServiceTypeOK'
  BY <1>1, BoundsAssumption DEF ServiceInv, ServiceTypeOK
<1>3. SuccessIsRecorded'
  BY <1>1 DEF ServiceInv, ServiceTypeOK, SuccessIsRecorded
<1>4. RecordingIsPosted'
  BY DEF ServiceInv, ServiceTypeOK, RecordingIsPosted, Recording, PostedKey
<1>5. OncePosted' /\ OnceRecorded' /\ RecordedKeyPosted' /\ EventPerRecord' /\ StagedAlone'
  BY DEF ServiceInv, OncePosted, OnceRecorded, RecordedKeyPosted, PostedKey, EventPerRecord,
         StagedAlone, RecordOf
<1>6. Staged'
  BY StagedStep DEF Leaves
<1>7. QED
  BY <1>2, <1>3, <1>4, <1>5, <1>6 DEF ServiceInv

\* A step of any attempt, and a crash, keep the invariant.
LEMMA InvStep ==
    ASSUME ServiceInv, [Next]_vars
    PROVE  ServiceInv'
<1> USE DEF ledger, database
<1>1. faults \in 0..MaxFaults /\ MaxFaults \in Nat
  BY BoundsAssumption DEF ServiceInv, ServiceTypeOK
<1>2. Fault => faults' \in 0..MaxFaults
  BY <1>1 DEF Fault
<1> DEFINE Unanswered(a) == pc[a] \notin {"answered", "orphaned"} =>
                              outcome[a] = "none" /\ body[a] = NoAttempt
<1>a. \A a \in Attempts : Unanswered(a)
  BY DEF ServiceInv, ServiceTypeOK
<1>3. ASSUME NEW x \in Accounts, OpenCustomerAccount(x) PROVE ServiceInv'
  BY <1>3 DEF OpenCustomerAccount, L!OpenAccount, attempt, ServiceInv, ServiceTypeOK,
     RecordingIsPosted, OncePosted, OnceRecorded, SuccessIsRecorded, RecordedKeyPosted,
     PostedKey, Staged, StagedAlone, RecordOf, EventPerRecord
<1>4. ASSUME NEW a \in Attempts, Send(a) PROVE ServiceInv'
  BY <1>1, <1>4, <1>a, QuietStep DEF Send, Goto, Refuse, Answer, Leaves
<1>5. ASSUME NEW a \in Attempts, Replay(a) PROVE ServiceInv'
  BY <1>1, <1>5, <1>a, QuietStep, ReplayStep DEF Replay, Goto, AfterReplay, Leaves
<1>6. ASSUME NEW a \in Attempts, CheckFunds(a) PROVE ServiceInv'
  <2>1. \/ Refuse(a, "ledger_unavailable") \/ Refuse(a, "insufficient_funds")
        \/ Goto(a, "system") \/ Goto(a, "post")
    BY <1>6 DEF CheckFunds
  <2>2. UNCHANGED <<ledger, database, faults>> /\ Leaves(a)
    BY <1>6 DEF CheckFunds, Leaves
  <2>3. QED
    BY <1>1, <1>6, <1>a, <2>1, <2>2, QuietStep DEF CheckFunds, Goto, Refuse, Answer
<1>7. ASSUME NEW a \in Attempts, OpenSystemAccount(a) PROVE ServiceInv'
  BY <1>1, <1>7, <1>a, QuietStep DEF OpenSystemAccount, L!OpenAccount, Goto, Leaves
<1>8. ASSUME NEW a \in Attempts, PostToLedger(a) PROVE ServiceInv'
  BY <1>8, LedgerPost, <1>a, PostStep DEF PostToLedger
<1>9. ASSUME NEW a \in Attempts, OrphanedPost(a) PROVE ServiceInv'
  BY <1>9, <1>a, PostStep DEF OrphanedPost
<1>10. ASSUME NEW a \in Attempts, Record(a) PROVE ServiceInv'
  BY <1>1, <1>10, CommitStep DEF Record
<1>11. ASSUME NEW a \in Attempts, RecordRefused(a) PROVE ServiceInv'
  BY <1>1, <1>11, <1>a, QuietStep DEF RecordRefused, Refuse, Answer, Leaves
<1>12. ASSUME NEW a \in Attempts, InsertRecord(a) \/ InsertEvent(a) PROVE ServiceInv'
  BY <1>12, InsertStep
<1>13. ASSUME NEW a \in Attempts, ReplayFails(a) PROVE ServiceInv'
  BY <1>2, <1>13, <1>a, QuietStep DEF ReplayFails, Goto, AfterReplay, Leaves
<1>14. ASSUME NEW a \in Attempts, LedgerUnreachable(a) PROVE ServiceInv'
  BY <1>2, <1>14, <1>a, QuietStep DEF LedgerUnreachable, Refuse, Answer, Leaves
<1>15. ASSUME NEW a \in Attempts, AbandonPost(a) PROVE ServiceInv'
  BY <1>2, <1>15, <1>a, QuietStep DEF AbandonPost, Leaves
<1>16. ASSUME NEW a \in Attempts, RecordFails(a) PROVE ServiceInv'
  BY <1>2, <1>16, <1>a, QuietStep DEF RecordFails, Rollback, Refuse, Answer, Leaves
<1>17. ASSUME NEW a \in Attempts, RecordAnswerLost(a) PROVE ServiceInv'
  BY <1>2, <1>17, CommitStep DEF RecordAnswerLost
<1>18. ASSUME NEW a \in Attempts, Crash(a) PROVE ServiceInv'
  BY <1>2, <1>18, <1>a, QuietStep DEF Crash, Rollback, InFlight, Goto, Leaves
<1>19. CASE UNCHANGED vars
  BY <1>19 DEF vars, attempt, ServiceInv, ServiceTypeOK,
     RecordingIsPosted, OncePosted, OnceRecorded, SuccessIsRecorded, RecordedKeyPosted,
     PostedKey, Staged, StagedAlone, RecordOf, EventPerRecord
<1>20. QED
  BY <1>3, <1>4, <1>5, <1>6, <1>7, <1>8, <1>9, <1>10, <1>11, <1>12, <1>13, <1>14,
     <1>15, <1>16, <1>17, <1>18, <1>19 DEF Next, Step, FaultOf

\* The invariant holds in every reachable state.
LEMMA Invariance == Spec => []ServiceInv
<1>1. ServiceInv /\ [Next]_vars => ServiceInv'
  BY InvStep
<1>2. QED
  BY <1>1, InvInit, PTL DEF Spec

\* Every variable of the service keeps its type.
THEOREM ServiceTypeCorrect == Spec => []ServiceTypeOK
<1>1. ServiceInv => ServiceTypeOK
  BY DEF ServiceInv
<1>2. QED
  BY <1>1, Invariance, PTL

\* The transactional outbox, through any interleaving of statements, commits, rollbacks
\* and lost answers: a record and its event are committed together or not at all.
THEOREM OutboxIsTransactional == Spec => []EventPerRecord
<1>1. ServiceInv => EventPerRecord
  BY DEF ServiceInv
<1>2. QED
  BY <1>1, Invariance, PTL

\* All successful answers to a key carry the one transaction recorded for it.
THEOREM SuccessesDoAgree == Spec => []SuccessesAgree
<1>1. ServiceInv => SuccessesAgree
  BY DEF ServiceInv, SuccessIsRecorded, OnceRecorded, SuccessesAgree
<1>2. QED
  BY <1>1, Invariance, PTL

\* Clients that keep a key for one request: a recorded movement is one the ledger
\* has made, between the recorded accounts and of the recorded amount.
THEOREM RecordsAreHonest == OneRequestPerKey => (Spec => []RecordedIsPosted)
<1> SUFFICES ASSUME OneRequestPerKey PROVE Spec => []RecordedIsPosted
  OBVIOUS
<1>1. ServiceInv => RecordedIsPosted
  <2> SUFFICES ASSUME ServiceInv, NEW r \in records
               PROVE  \E p \in applied : p.key = r.req.key /\ p.entries = Entries(r.req)
    BY DEF RecordedIsPosted
  <2>1. PICK p \in applied : p.key = r.req.key
    BY DEF ServiceInv, RecordedKeyPosted, PostedKey
  <2>2. PICK b \in Attempts : p = Posting(b)
    BY DEF ServiceInv, ServiceTypeOK
  <2>3. b.req.key = r.req.key /\ p.entries = Entries(b.req)
    BY <2>1, <2>2, PostingFields
  <2>4. r.req \in Requests /\ b.req \in Requests
    BY AttemptFields DEF ServiceInv, ServiceTypeOK
  <2>5. b.req = r.req
    BY <2>3, <2>4 DEF OneRequestPerKey
  <2>6. QED
    BY <2>1, <2>3, <2>5
<1>2. QED
  BY <1>1, Invariance, PTL

-----------------------------------------------------------------------------
(* Refinement: applied postings and records are the two sets of              *)
(* MoneyMovement, and every step adds at most one element to one of them.    *)

\* What a step does to the ledger and to the records: nothing, one posting, or one record of a posting.
LEMMA StepEffect ==
    ASSUME [Next]_vars
    PROVE  \/ applied' = applied /\ records' = records
           \/ /\ records' = records
              /\ \E a \in Attempts :
                     ~PostedKey(a.req.key) /\ applied' = applied \cup {Posting(a)}
           \/ /\ applied' = applied
              /\ \E a \in Attempts : pc[a] = "commit" /\ Commit(a)
<1> USE DEF ledger, database
<1>1. ASSUME NEW a \in Attempts, L!Post(Posting(a)) \/ UNCHANGED ledger, UNCHANGED database
      PROVE  \/ applied' = applied /\ records' = records
             \/ /\ records' = records
                /\ ~PostedKey(a.req.key) /\ applied' = applied \cup {Posting(a)}
  BY <1>1, LedgerPost
<1>2. ASSUME NEW a \in Attempts, Step(a)
      PROVE  \/ applied' = applied /\ records' = records
             \/ /\ records' = records
                /\ ~PostedKey(a.req.key) /\ applied' = applied \cup {Posting(a)}
             \/ /\ applied' = applied
                /\ pc[a] = "commit" /\ Commit(a)
  BY <1>1, <1>2 DEF Step, Replay, CheckFunds, OpenSystemAccount, L!OpenAccount,
     PostToLedger, OrphanedPost, InsertRecord, InsertEvent, Record, RecordRefused
<1>3. ASSUME NEW a \in Attempts, FaultOf(a)
      PROVE  \/ applied' = applied /\ records' = records
             \/ applied' = applied /\ pc[a] = "commit" /\ Commit(a)
  BY <1>3 DEF FaultOf, ReplayFails, LedgerUnreachable, AbandonPost, RecordFails, Rollback,
     RecordAnswerLost, Crash
<1>4. ASSUME NEW a \in Attempts, Send(a) PROVE applied' = applied /\ records' = records
  BY <1>4 DEF Send
<1>5. ASSUME NEW x \in Accounts, OpenCustomerAccount(x)
      PROVE  applied' = applied /\ records' = records
  BY <1>5 DEF OpenCustomerAccount, L!OpenAccount
<1>6. CASE UNCHANGED vars
  BY <1>6 DEF vars
<1>7. QED
  BY <1>2, <1>3, <1>4, <1>5, <1>6 DEF Next

Moved == { MovedOf(p) : p \in applied }
Recorded == { RecordedOf(r) : r \in records }

\* The keys whose money has moved are those the ledger has applied.
LEMMA KeysOfMoved ==
    ASSUME ServiceInv, NEW k
    PROVE  /\ M!HasKey(Moved, k) <=> PostedKey(k)
           /\ M!HasKey(Recorded, k) <=> RecordOf(k) # {}
<1>1. \A p \in applied : MovedOf(p).key = p.key
  BY PostingFields DEF ServiceInv, ServiceTypeOK, MovedOf
<1>2. \A r : RecordedOf(r).key = r.req.key
  BY DEF RecordedOf
<1>3. QED
  BY <1>1, <1>2 DEF M!HasKey, Moved, Recorded, PostedKey, RecordOf

\* Each step of the service is a step of MoneyMovement, or none.
LEMMA RefinementStep ==
    ASSUME ServiceInv, [Next]_vars
    PROVE  M!Next \/ UNCHANGED M!vars
<1> USE DEF Moved, Recorded
<1>1. CASE applied' = applied /\ records' = records
  BY <1>1 DEF M!vars
<1>2. ASSUME records' = records, NEW a \in Attempts, ~PostedKey(a.req.key),
             applied' = applied \cup {Posting(a)}
      PROVE  M!Next
  <2>1. MovedOf(Posting(a)) = [key |-> a.req.key, by |-> a]
    BY PostingFields DEF MovedOf
  <2>2. Moved' = Moved \cup {[key |-> a.req.key, by |-> a]}
    BY <1>2, <2>1
  <2>3. ~M!HasKey(Moved, a.req.key)
    BY <1>2, KeysOfMoved
  <2>4. M!Move(a.req.key, a)
    BY <1>2, <2>2, <2>3 DEF M!Move
  <2>5. QED
    BY <2>4, AttemptFields DEF M!Next
<1>3. ASSUME applied' = applied, NEW a \in Attempts, pc[a] = "commit", Commit(a)
      PROVE  M!Next
  <2>1. RecordOf(a.req.key) = {} /\ records' = records \cup {a} /\ PostedKey(a.req.key)
    BY <1>3, CommitAdds
  <2>2. Recorded' = Recorded \cup {[key |-> a.req.key, by |-> a]}
    BY <2>1 DEF RecordedOf
  <2>3. M!HasKey(Moved, a.req.key) /\ ~M!HasKey(Recorded, a.req.key)
    BY <2>1, KeysOfMoved
  <2>4. M!Record(a.req.key, a)
    BY <1>3, <2>2, <2>3 DEF M!Record
  <2>5. QED
    BY <2>4, AttemptFields DEF M!Next
<1>4. QED
  BY <1>1, <1>2, <1>3, StepEffect

\* transaction-service implements MoneyMovement: per key the money moves at most
\* once, and is recorded at most once, after it has moved.
THEOREM MovesMoneyOnce == Spec => ImplementsMoneyMovement
<1>1. Init => M!Init
  BY DEF Init, M!Init
<1>2. ServiceInv /\ [Next]_vars => [M!Next]_(M!vars)
  BY RefinementStep
<1>3. QED
  BY <1>1, <1>2, Invariance, PTL DEF Spec, M!Spec, ImplementsMoneyMovement

-----------------------------------------------------------------------------
(* The balances. *)

\* The balance b of account x after the two entries of attempt a, each of which rounds.
Paid(a, x, b) == IF a.req.from = x THEN Stored(b - a.req.amount, Unit) ELSE b
Posted(a, x, b) ==
    IF a.req.to = x THEN Stored(Paid(a, x, b) + a.req.amount, Unit) ELSE Paid(a, x, b)

\* The ledger's rounding is that of this module.
LEMMA LedgerStored == \A b : L!Stored(b, Unit) = Stored(b, Unit)
BY DEF L!Stored, Stored

\* The amount of an attempt.
LEMMA AmountIs ==
    ASSUME NEW a \in Attempts
    PROVE  a.req.amount \in Int /\ a.req.amount <= MaxAmount
BY AttemptFields, RequestsAssumption, AmountsAssumption

\* A posting of this service debits one account and credits one.
LEMMA PostingIs ==
    ASSUME NEW a \in Attempts, NEW x, NEW b \in Int
    PROVE  L!After(Posting(a), x, b)[Len(Posting(a).entries)] = Posted(a, x, b)
<1> DEFINE e == Posting(a).entries
           rhs(f, n) == IF n = 0 THEN b
                         ELSE IF e[n].account = x THEN Stored(f[n - 1] + L!Signed(e[n]), Unit)
                                                  ELSE f[n - 1]
           Is(f) == f = [n \in 0..2 |-> rhs(f, n)]
           g == [n \in 0..2 |-> IF n = 0 THEN b
                                ELSE IF n = 1 THEN Paid(a, x, b) ELSE Posted(a, x, b)]
<1>1. a.req.amount \in Int
  BY AmountIs
<1>2. e = << [account |-> a.req.from, direction |-> "DEBIT", amount |-> a.req.amount],
             [account |-> a.req.to, direction |-> "CREDIT", amount |-> a.req.amount] >>
  BY PostingFields DEF Entries
<1>3. /\ Len(e) = 2
      /\ L!Signed(e[1]) = -a.req.amount /\ L!Signed(e[2]) = a.req.amount
      /\ e[1].account = a.req.from /\ e[2].account = a.req.to
  BY <1>2 DEF L!Signed
<1> HIDE DEF e
<1>4. Is(g)
  <2>1. rhs(g, 0) = g[0]
    OBVIOUS
  <2>2. rhs(g, 1) = g[1]
    <3>1. b + (-a.req.amount) = b - a.req.amount
      BY <1>1, SMT
    <3>2. rhs(g, 1) = IF a.req.from = x THEN Stored(b + (-a.req.amount), Unit) ELSE b
      BY <1>3
    <3>3. QED
      BY <3>1, <3>2 DEF Paid
  <2>3. rhs(g, 2) = g[2]
    BY <1>3 DEF Posted
  <2>4. \A n \in 0..2 : n = 0 \/ n = 1 \/ n = 2
    OBVIOUS
  <2> HIDE DEF rhs
  <2>5. \A n \in 0..2 : g[n] = rhs(g, n)
    BY <2>1, <2>2, <2>3, <2>4
  <2>6. g = [n \in 0..2 |-> g[n]]
    OBVIOUS
  <2> HIDE DEF g
  <2>7. QED
    BY <2>5, <2>6
<1>5. L!After(Posting(a), x, b) = CHOOSE f : Is(f)
  BY <1>3, LedgerStored DEF L!After, e
<1>6. ASSUME NEW f, Is(f) PROVE f[2] = Posted(a, x, b)
  <2>1. f[0] = rhs(f, 0) /\ f[1] = rhs(f, 1) /\ f[2] = rhs(f, 2)
    BY <1>6
  <2>2. f[0] = b
    BY <2>1
  <2>3. f[1] = Paid(a, x, b)
    <3>1. b + (-a.req.amount) = b - a.req.amount
      BY <1>1, SMT
    <3>2. f[1] = IF a.req.from = x THEN Stored(b + (-a.req.amount), Unit) ELSE b
      BY <1>3, <2>1, <2>2
    <3>3. QED
      BY <3>1, <3>2 DEF Paid
  <2>4. QED
    BY <1>3, <2>1, <2>3 DEF Posted
<1> HIDE DEF Is
<1>7. Is(CHOOSE f : Is(f))
  BY <1>4
<1>8. QED
  BY <1>3, <1>5, <1>6, <1>7 DEF e

\* A balance in whole cents has a rounding: the posting costs the debited account no more
\* than its amount rounded up to cents, and takes nothing from any other.
Cost(a) == RoundedUp(a.req.amount, Unit)

LEMMA PostedIs ==
    ASSUME NEW a \in Attempts, NEW x, NEW b \in Int, Whole(b, Unit)
    PROVE  /\ Posted(a, x, b) \in Int /\ Whole(Posted(a, x, b), Unit)
           /\ a.req.amount > 0 /\ a.req.from # x => Posted(a, x, b) >= b
           /\ a.req.from = x /\ a.req.to # x => Posted(a, x, b) >= b - Cost(a)
<1>1. PICK m \in Int, c \in Int : m = a.req.amount /\ c = Cost(a) /\ m <= c /\ Whole(c, Unit)
  BY AmountIs, RoundedUpIs, AmountsAssumption DEF Cost
<1>2. PICK p \in Int : p = Paid(a, x, b) /\ Whole(p, Unit)
                       /\ (a.req.from # x => p = b) /\ (a.req.from = x => p >= b - c)
  <2>1. CASE a.req.from # x
    BY <2>1 DEF Paid
  <2>2. CASE a.req.from = x
    <3>1. PICK y \in Int, z \in Int : y = b - m /\ z = b - c
      OBVIOUS
    <3>2. Whole(z, Unit)
      <4>1. Whole(-c, Unit) /\ -c \in Int
        <5>1. Unit \in Nat \ {0} /\ c \in Int /\ Whole(c, Unit)
          BY <1>1, AmountsAssumption
        <5>2. QED
          BY <5>1, WholePlus
      <4>2. Whole(b + (-c), Unit)
        BY <4>1, WholePlus, AmountsAssumption
      <4>3. b + (-c) = z
        BY <3>1
      <4>4. QED
        BY <4>2, <4>3
    <3>3. z <= y
      BY <1>1, <3>1
    <3>4. z <= Stored(y, Unit) /\ Stored(y, Unit) \in Int /\ Whole(Stored(y, Unit), Unit)
      BY <3>2, <3>3, StoredAbove, StoredNear, AmountsAssumption
    <3>5. Paid(a, x, b) = Stored(y, Unit)
      BY <1>1, <2>2, <3>1 DEF Paid
    <3>6. QED
      BY <2>2, <3>1, <3>4, <3>5
  <2>3. QED
    BY <2>1, <2>2
<1>3. CASE a.req.to # x
  BY <1>1, <1>2, <1>3 DEF Posted
<1>4. CASE a.req.to = x
  <2>1. PICK y \in Int : y = p + m
    OBVIOUS
  <2>2. Posted(a, x, b) = Stored(y, Unit)
    BY <1>1, <1>2, <1>4, <2>1 DEF Posted
  <2>3. Stored(y, Unit) \in Int /\ Whole(Stored(y, Unit), Unit)
    BY StoredNear, AmountsAssumption
  <2>4. ASSUME m > 0, a.req.from # x PROVE b <= Stored(y, Unit)
    <3>1. b <= y
      BY <1>2, <2>1, <2>4
    <3>2. QED
      BY <3>1, StoredAbove, AmountsAssumption
  <2>5. QED
    BY <1>1, <1>4, <2>2, <2>3, <2>4
<1>5. QED
  BY <1>3, <1>4

\* The ledger opens accounts and keeps balances of whole cents.
LedgerTypeOK ==
    /\ open \subseteq Accounts
    /\ balance \in [Accounts -> Int]
    /\ \A x \in Accounts : Whole(balance[x], Unit)

\* The ledger's Post leaves the balances, or makes the posting.
LEMMA PostEffect ==
    ASSUME LedgerTypeOK, NEW a \in Attempts, L!Post(Posting(a)) \/ UNCHANGED ledger
    PROVE  /\ open' = open
           /\ \/ balance' = balance
              \/ balance' = [x \in Accounts |-> Posted(a, x, balance[x])]
<1>1. CASE UNCHANGED ledger
  BY <1>1 DEF ledger
<1>2. CASE L!Post(Posting(a)) /\ L!PostOutcome(Posting(a)) # "applied"
  BY <1>2 DEF L!Post, L!vars
<1>3. CASE L!Post(Posting(a)) /\ L!PostOutcome(Posting(a)) = "applied"
  <2>1. /\ open' = open
        /\ balance' = [x \in Accounts |->
                          L!After(Posting(a), x, balance[x])[Len(Posting(a).entries)]]
    BY <1>3 DEF L!Post, L!Apply
  <2>2. \A x \in Accounts : L!After(Posting(a), x, balance[x])[Len(Posting(a).entries)]
                               = Posted(a, x, balance[x])
    BY PostingIs DEF LedgerTypeOK
  <2>3. QED
    BY <2>1, <2>2
<1>4. QED
  BY <1>1, <1>2, <1>3

\* What a step of the service does to the accounts of the ledger.
LEMMA LedgerEffect ==
    ASSUME LedgerTypeOK, [Next]_vars
    PROVE  \/ open' = open /\ balance' = balance
           \/ balance' = balance /\ \E x \in Accounts : open' = open \cup {x}
           \/ /\ open' = open
              /\ \E a \in Attempts : balance' = [x \in Accounts |-> Posted(a, x, balance[x])]
<1> DEFINE Posts(a) == balance' = [x \in Accounts |-> Posted(a, x, balance[x])]
<1> USE DEF ledger
<1>1. ASSUME NEW a \in Attempts, L!Post(Posting(a)) \/ UNCHANGED ledger
      PROVE  open' = open /\ (balance' = balance \/ Posts(a))
  BY <1>1, PostEffect
<1> HIDE DEF Posts
<1>2. ASSUME NEW a \in Attempts, Step(a)
      PROVE  \/ open' = open /\ balance' = balance
             \/ balance' = balance /\ \E x \in Accounts : open' = open \cup {x}
             \/ open' = open /\ Posts(a)
  BY <1>1, <1>2, RequestsAssumption
     DEF Step, Replay, CheckFunds, OpenSystemAccount, L!OpenAccount, PostToLedger, OrphanedPost,
         InsertRecord, InsertEvent, Record, RecordRefused
<1>3. ASSUME NEW a \in Attempts, FaultOf(a) \/ Send(a) PROVE open' = open /\ balance' = balance
  BY <1>3 DEF FaultOf, ReplayFails, LedgerUnreachable, AbandonPost, RecordFails,
     RecordAnswerLost, Crash, Send
<1>4. ASSUME NEW x \in Accounts, OpenCustomerAccount(x)
      PROVE  balance' = balance /\ open' = open \cup {x}
  BY <1>4 DEF OpenCustomerAccount, L!OpenAccount
<1>5. CASE UNCHANGED vars
  BY <1>5 DEF vars
<1>6. QED
  BY <1>2, <1>3, <1>4, <1>5 DEF Next, Posts

\* The types of the ledger are kept.
LEMMA LedgerTypeStep == LedgerTypeOK /\ [Next]_vars => LedgerTypeOK'
<1> SUFFICES ASSUME LedgerTypeOK, [Next]_vars PROVE LedgerTypeOK'
  OBVIOUS
<1>1. ASSUME NEW a \in Attempts, balance' = [x \in Accounts |-> Posted(a, x, balance[x])]
      PROVE  balance' \in [Accounts -> Int] /\ \A x \in Accounts : Whole(balance'[x], Unit)
  <2>1. \A x \in Accounts : balance[x] \in Int /\ Whole(balance[x], Unit)
    BY DEF LedgerTypeOK
  <2>2. \A x \in Accounts : /\ Posted(a, x, balance[x]) \in Int
                            /\ Whole(Posted(a, x, balance[x]), Unit)
    BY <2>1, PostedIs
  <2>3. QED
    BY <1>1, <2>2
<1>2. QED
  BY <1>1, LedgerEffect DEF LedgerTypeOK

\* Nothing is a whole number of cents.
LEMMA LedgerTypeInit == Init => LedgerTypeOK
<1>1. Whole(0, Unit)
  <2>1. 0 = Unit * 0
    BY AmountsAssumption
  <2>2. QED
    BY <2>1, WholeIs, AmountsAssumption
<1>2. QED
  BY <1>1, BoundsAssumption DEF Init, LedgerTypeOK

\* Balances stay in whole cents.
LEMMA LedgerTypeCorrect == Spec => []LedgerTypeOK
<1>1. QED
  BY LedgerTypeInit, LedgerTypeStep, PTL DEF Spec

\* Every variable keeps its type, balances included.
THEOREM TypeCorrect == Spec => []TypeOK
<1>1. LedgerTypeOK /\ ServiceTypeOK => TypeOK
  BY DEF LedgerTypeOK, TypeOK
<1>2. QED
  BY <1>1, LedgerTypeCorrect, ServiceTypeCorrect, PTL

-----------------------------------------------------------------------------
(* Overdrafts.  The attempts that have passed the balance check of an       *)
(* account and have yet to reach the ledger may cost it more than it has,   *)
(* but for one of them only what the others cost.                           *)

Calling == {"system", "post", "orphaned"}

Checked(x) == { a \in Attempts : a.req.from = x /\ pc[a] \in Calling }

Costs == [a \in Attempts |-> Cost(a)]

Spare == (MaxInFlight - 1) * MaxAmount

Asked == \A a \in InFlight : Acceptable(a.req)

AtOnce == IsFiniteSet(InFlight) /\ Cardinality(InFlight) <= MaxInFlight

Covered ==
    \A x \in Accounts \ {Cash} : balance[x] - Sum(Costs, Checked(x)) >= -Spare

FundsInv == ServiceTypeOK /\ LedgerTypeOK /\ Asked /\ AtOnce /\ Covered

\* The calls during which an attempt is in flight.
Flying == {"replay", "funds"} \cup Calling \cup Recording

LEMMA InFlightIs ==
    ASSUME ServiceTypeOK
    PROVE  InFlight = { a \in Attempts : pc[a] \in Flying }
BY DEF InFlight, ServiceTypeOK, Flying, Calling, Recording

\* What an acceptable request costs.
LEMMA CostIs ==
    ASSUME NEW a \in Attempts, Acceptable(a.req)
    PROVE  /\ Cost(a) \in 0..MaxAmount /\ a.req.amount > 0
           /\ \A b \in Int : Whole(b, Unit) /\ b >= a.req.amount => b >= Cost(a)
<1>1. a.req.amount \in Int /\ a.req.amount > 0 /\ a.req.amount <= MaxAmount
  BY AmountIs DEF Acceptable
<1>2. MaxAmount \in Int /\ Whole(MaxAmount, Unit) /\ Unit \in Nat \ {0}
  BY AmountsAssumption
<1>3. /\ Cost(a) \in Int /\ a.req.amount <= Cost(a)
      /\ \A y \in Int : Whole(y, Unit) /\ a.req.amount <= y => Cost(a) <= y
  BY <1>1, <1>2, RoundedUpIs DEF Cost
<1>4. QED
  BY <1>1, <1>2, <1>3

\* The attempts that have passed the check are some of those in flight.
LEMMA CheckedIs ==
    ASSUME FundsInv, NEW x
    PROVE  /\ Checked(x) \subseteq InFlight /\ IsFiniteSet(Checked(x))
           /\ \A a \in Checked(x) : Costs[a] \in 0..MaxAmount
           /\ Sum(Costs, Checked(x)) \in Int /\ Sum(Costs, Checked(x)) >= 0
           /\ \A a \in InFlight \ Checked(x) : Sum(Costs, Checked(x)) <= Spare
<1>1. Checked(x) \subseteq InFlight
  BY InFlightIs DEF FundsInv, Checked, Flying
<1>2. IsFiniteSet(InFlight) /\ Cardinality(InFlight) <= MaxInFlight
  BY DEF FundsInv, AtOnce
<1>3. IsFiniteSet(Checked(x))
  BY <1>1, <1>2, FS_Subset
<1>4. \A a \in Checked(x) : Costs[a] \in 0..MaxAmount
  BY <1>1, CostIs DEF FundsInv, Asked, Costs, InFlight
<1>5. MaxAmount \in Nat /\ MaxInFlight \in Nat
  BY AmountsAssumption, BoundsAssumption
<1>6. /\ Sum(Costs, Checked(x)) \in Int /\ Sum(Costs, Checked(x)) >= 0
      /\ Sum(Costs, Checked(x)) <= MaxAmount * Cardinality(Checked(x))
  BY <1>3, <1>4, <1>5, SumAtMost
<1>7. ASSUME NEW a \in InFlight \ Checked(x) PROVE Sum(Costs, Checked(x)) <= Spare
  <2>1. PICK n \in Nat : n = Cardinality(Checked(x)) /\ n <= MaxInFlight - 1
    <3>1. Checked(x) \subseteq InFlight \ {a}
      BY <1>1
    <3>2. IsFiniteSet(InFlight \ {a}) /\ Cardinality(InFlight \ {a}) = Cardinality(InFlight) - 1
      BY <1>2, FS_RemoveElement
    <3>3. Cardinality(Checked(x)) <= Cardinality(InFlight \ {a})
      BY <3>1, <3>2, FS_Subset
    <3>4. /\ Cardinality(Checked(x)) \in Nat /\ Cardinality(InFlight) \in Nat
          /\ Cardinality(InFlight \ {a}) \in Nat
      BY <1>2, <1>3, <3>2, FS_CardinalityType
    <3>5. QED
      BY <1>2, <1>5, <3>2, <3>3, <3>4
  <2>2. PICK d \in Nat : d = MaxInFlight - 1 - n
    BY <1>5, <2>1
  <2>3. MaxAmount * d >= 0 /\ MaxAmount * d = (MaxInFlight - 1) * MaxAmount - MaxAmount * n
    BY <1>5, <2>2
  <2>4. QED
    BY <1>6, <2>1, <2>3, <1>5 DEF Spare
<1>8. QED
  BY <1>1, <1>3, <1>4, <1>6, <1>7

\* An attempt in flight makes a step: it takes nothing from account x that is not covered.
LEMMA CoveredStep ==
    ASSUME FundsInv, NEW a \in InFlight, NEW call, pc' = [pc EXCEPT ![a] = call],
           NEW x \in Accounts \ {Cash}, balance'[x] \in Int,
           \/ /\ balance'[x] >= balance[x]
              /\ call \notin Calling \/ a.req.from # x \/ pc[a] \in Calling
           \/ /\ balance'[x] = balance[x] /\ balance[x] >= a.req.amount
              /\ a.req.from = x /\ pc[a] \notin Calling
           \/ /\ balance'[x] >= balance[x] - Cost(a)
              /\ a.req.from = x /\ pc[a] \in Calling /\ call \notin Calling
    PROVE  balance'[x] - Sum(Costs, Checked(x)') >= -Spare
<1>1. a \in Attempts /\ Acceptable(a.req)
  BY DEF InFlight, FundsInv, Asked
<1>2. PICK b \in Int, c \in Int, s \in Int, n \in Int, k \in Int :
          /\ b = balance[x] /\ c = balance'[x] /\ s = Sum(Costs, Checked(x)) /\ n = Spare
          /\ k = Cost(a) /\ k = Costs[a] /\ k >= 0 /\ s >= 0
          /\ b - s >= -n
  <2>1. Spare \in Int
    BY AmountsAssumption, BoundsAssumption DEF Spare
  <2>2. balance[x] \in Int /\ balance[x] - Sum(Costs, Checked(x)) >= -Spare
    BY DEF FundsInv, LedgerTypeOK, Covered
  <2>3. Cost(a) \in 0..MaxAmount /\ Costs[a] = Cost(a)
    BY <1>1, CostIs DEF Costs
  <2>4. QED
    BY <2>1, <2>2, <2>3, CheckedIs, AmountsAssumption
<1>3. /\ pc'[a] = call /\ \A b1 \in Attempts : b1 # a => pc'[b1] = pc[b1]
      /\ IsFiniteSet(Checked(x)) /\ \A b1 \in Checked(x) \cup {a} : Costs[b1] \in Int
  <2>1. \A b1 \in Checked(x) : Costs[b1] \in Int
    BY CheckedIs, AmountsAssumption
  <2>2. QED
    BY <1>1, <1>2, <2>1, CheckedIs DEF FundsInv, ServiceTypeOK
<1>4. CASE Checked(x)' = Checked(x)
  <2>1. c >= b
    BY <1>1, <1>2, <1>3, <1>4 DEF Checked
  <2>2. QED
    BY <1>2, <1>4, <2>1
<1>5. CASE a \notin Checked(x) /\ Checked(x)' = Checked(x) \cup {a}
  <2>1. Sum(Costs, Checked(x)') = s + k
    <3>1. Sum(Costs, Checked(x) \cup {a}) = Sum(Costs, Checked(x)) + Costs[a]
      <4>1. PICK S, h : S = Checked(x) /\ h = Costs
        OBVIOUS
      <4>2. IsFiniteSet(S) /\ a \notin S /\ \A y \in S \cup {a} : h[y] \in Int
        BY <1>3, <1>5, <4>1
      <4>3. Sum(h, S \cup {a}) = Sum(h, S) + h[a]
        BY <4>2, SumAdd
      <4>4. QED
        BY <4>1, <4>3
    <3>2. QED
      BY <1>2, <1>5, <3>1
  <2>2. a.req.from = x /\ pc[a] \notin Calling /\ call \in Calling
    BY <1>1, <1>3, <1>5 DEF Checked
  <2>3. c = b /\ b >= a.req.amount
    BY <1>2, <2>2
  <2>4. Whole(b, Unit)
    BY <1>2 DEF FundsInv, LedgerTypeOK
  <2>5. b >= k
    BY <1>1, <1>2, <2>3, <2>4, CostIs
  <2>6. s <= n
    BY <1>2, <1>5, CheckedIs
  <2>7. c - (s + k) >= -n
    BY <2>3, <2>5, <2>6
  <2>8. QED
    BY <1>2, <2>1, <2>7
<1>6. CASE a \in Checked(x) /\ Checked(x)' = Checked(x) \ {a}
  <2>1. PICK t \in Int : t = Sum(Costs, Checked(x)') /\ s = k + t
    <3>1. IsFiniteSet(Checked(x) \ {a})
      BY <1>3, FS_RemoveElement
    <3>2. Sum(Costs, Checked(x) \ {a}) \in Int
      BY <1>3, <3>1, SumInt
    <3>3. Sum(Costs, Checked(x)) = Costs[a] + Sum(Costs, Checked(x) \ {a})
      BY <1>3, <1>6, SumRemove
    <3>4. QED
      BY <1>2, <1>6, <3>2, <3>3
  <2>2. c >= b - k
    <3>1. a.req.from = x /\ pc[a] \in Calling
      BY <1>6 DEF Checked
    <3>2. QED
      BY <1>2, <3>1
  <2>3. c - t >= -n
    BY <1>2, <2>1, <2>2
  <2>4. QED
    BY <1>2, <2>1, <2>3
<1>7. \/ Checked(x)' = Checked(x)
      \/ a \notin Checked(x) /\ Checked(x)' = Checked(x) \cup {a}
      \/ a \in Checked(x) /\ Checked(x)' = Checked(x) \ {a}
  <2>1. \A b1 \in Attempts : b1 # a => (b1 \in Checked(x)' <=> b1 \in Checked(x))
    BY <1>3 DEF Checked
  <2>2. Checked(x) \subseteq Attempts /\ Checked(x)' \subseteq Attempts
    BY DEF Checked
  <2>3. CASE a \in Checked(x) /\ a \notin Checked(x)'
    BY <2>1, <2>2, <2>3
  <2>4. CASE a \notin Checked(x) /\ a \in Checked(x)'
    BY <2>1, <2>2, <2>4
  <2>5. CASE a \in Checked(x) <=> a \in Checked(x)'
    BY <2>1, <2>2, <2>5
  <2>6. QED
    BY <2>3, <2>4, <2>5
<1>8. QED
  BY <1>4, <1>5, <1>6, <1>7

\* The same for the whole of the invariant.
LEMMA MoveStep ==
    ASSUME FundsInv, ServiceTypeOK', LedgerTypeOK',
           NEW a \in InFlight, NEW call, pc' = [pc EXCEPT ![a] = call],
           \A x \in Accounts \ {Cash} :
               \/ /\ balance'[x] >= balance[x]
                  /\ call \notin Calling \/ a.req.from # x \/ pc[a] \in Calling
               \/ /\ balance'[x] = balance[x] /\ balance[x] >= a.req.amount
                  /\ a.req.from = x /\ pc[a] \notin Calling
               \/ /\ balance'[x] >= balance[x] - Cost(a)
                  /\ a.req.from = x /\ pc[a] \in Calling /\ call \notin Calling
    PROVE  FundsInv'
<1>1. InFlight' \subseteq InFlight
  <2>1. \A b \in Attempts : b # a => pc'[b] = pc[b]
    BY DEF FundsInv, ServiceTypeOK
  <2>2. QED
    BY <2>1 DEF InFlight
<1>2. Asked'
  BY <1>1 DEF FundsInv, Asked
<1>3. AtOnce'
  <2>1. IsFiniteSet(InFlight) /\ Cardinality(InFlight) <= MaxInFlight /\ MaxInFlight \in Nat
    BY BoundsAssumption DEF FundsInv, AtOnce
  <2>2. IsFiniteSet(InFlight') /\ Cardinality(InFlight') <= Cardinality(InFlight)
    BY <1>1, <2>1, FS_Subset
  <2>3. Cardinality(InFlight) \in Nat /\ Cardinality(InFlight') \in Nat
    BY <2>1, <2>2, FS_CardinalityType
  <2>4. Cardinality(InFlight') <= MaxInFlight
    BY <2>1, <2>2, <2>3
  <2>5. QED
    BY <2>2, <2>4 DEF AtOnce
<1>4. Covered'
  <2>1. SUFFICES ASSUME NEW x \in Accounts \ {Cash}
                 PROVE  balance'[x] - Sum(Costs, Checked(x)') >= -Spare
    BY DEF Covered, Costs, Cost, Spare
  <2>2. balance'[x] \in Int
    BY DEF LedgerTypeOK
  <2>3. QED
    BY <2>2, CoveredStep
<1>5. QED
  BY <1>2, <1>3, <1>4 DEF FundsInv

\* A step that leaves the balances and passes no check.
LEMMA NoCheckStep ==
    ASSUME FundsInv, ServiceTypeOK', LedgerTypeOK',
           NEW a \in InFlight, NEW call, pc' = [pc EXCEPT ![a] = call],
           balance' = balance,
           call \notin Calling \/ a.req.from = Cash \/ pc[a] \in Calling
    PROVE  FundsInv'
<1>1. ASSUME NEW x \in Accounts \ {Cash}
      PROVE  /\ balance'[x] >= balance[x]
             /\ call \notin Calling \/ a.req.from # x \/ pc[a] \in Calling
  BY DEF FundsInv, LedgerTypeOK
<1>2. QED
  BY <1>1, MoveStep

\* The ledger is called, or the call arrives late.
LEMMA CallStep ==
    ASSUME FundsInv, ServiceTypeOK', LedgerTypeOK',
           NEW a \in InFlight, pc[a] \in {"post", "orphaned"},
           NEW call \in {"record", "answered"}, pc' = [pc EXCEPT ![a] = call],
           L!Post(Posting(a)) \/ UNCHANGED ledger
    PROVE  FundsInv'
<1>1. a \in Attempts /\ Acceptable(a.req) /\ a.req \in Requests
  BY AttemptFields DEF InFlight, FundsInv, Asked
<1>2. CASE balance' = balance
  BY <1>2, NoCheckStep DEF Calling
<1>3. CASE balance' = [x \in Accounts |-> Posted(a, x, balance[x])]
  <2>1. ASSUME NEW x \in Accounts \ {Cash}
        PROVE  \/ /\ balance'[x] >= balance[x]
                  /\ call \notin Calling \/ a.req.from # x \/ pc[a] \in Calling
               \/ /\ balance'[x] >= balance[x] - Cost(a)
                  /\ a.req.from = x /\ pc[a] \in Calling /\ call \notin Calling
    <3>1. /\ balance'[x] = Posted(a, x, balance[x])
          /\ balance[x] \in Int /\ Whole(balance[x], Unit)
      BY <1>3 DEF FundsInv, LedgerTypeOK
    <3>2. a.req.amount > 0
      BY <1>1 DEF Acceptable
    <3>3. a.req.from = x => a.req.to # x
      BY <1>1, RequestsAssumption DEF Acceptable, Type
    <3>4. /\ a.req.from # x => balance'[x] >= balance[x]
          /\ a.req.from = x => balance'[x] >= balance[x] - Cost(a)
      BY <1>1, <3>1, <3>2, <3>3, PostedIs
    <3>5. QED
      BY <3>4 DEF Calling
  <2>2. QED
    BY <2>1, MoveStep
<1>4. QED
  BY <1>1, <1>2, <1>3, PostEffect DEF FundsInv

\* A request is sent: one more is in flight, and has passed no check.
LEMMA SendStep ==
    ASSUME FundsInv, ServiceTypeOK', LedgerTypeOK', NEW a \in Attempts, Send(a)
    PROVE  FundsInv'
<1> USE DEF Send, Goto, Refuse, Answer
<1>1. /\ balance' = balance /\ \A b \in Attempts : b # a => pc'[b] = pc[b]
      /\ pc'[a] = (IF Acceptable(a.req) THEN "replay" ELSE "answered")
      /\ pc[a] = "unsent"
  BY DEF FundsInv, ServiceTypeOK, ledger
<1>2. InFlight' \subseteq InFlight \cup {a} /\ (a \in InFlight' => Acceptable(a.req))
  BY <1>1 DEF InFlight
<1>3. Asked'
  BY <1>2 DEF FundsInv, Asked
<1>4. AtOnce'
  <2>1. /\ IsFiniteSet(InFlight) /\ Cardinality(InFlight) < MaxInFlight /\ MaxInFlight \in Nat
    BY BoundsAssumption DEF FundsInv, AtOnce
  <2>2. a \notin InFlight
    BY <1>1 DEF InFlight
  <2>3. /\ IsFiniteSet(InFlight \cup {a})
        /\ Cardinality(InFlight \cup {a}) = Cardinality(InFlight) + 1
    BY <2>1, <2>2, FS_AddElement
  <2>4. IsFiniteSet(InFlight') /\ Cardinality(InFlight') <= Cardinality(InFlight \cup {a})
    BY <1>2, <2>3, FS_Subset
  <2>5. Cardinality(InFlight) \in Nat /\ Cardinality(InFlight') \in Nat
    BY <2>1, <2>4, FS_CardinalityType
  <2>6. Cardinality(InFlight') <= MaxInFlight
    BY <2>1, <2>3, <2>4, <2>5
  <2>7. QED
    BY <2>4, <2>6 DEF AtOnce
<1>5. \A x : Checked(x)' = Checked(x)
  BY <1>1 DEF Checked, Calling
<1>6. Covered'
  BY <1>1, <1>5 DEF FundsInv, Covered, Costs, Cost, Spare
<1>7. QED
  BY <1>3, <1>4, <1>6 DEF FundsInv

\* Every step keeps the accounts covered.
LEMMA FundsStep ==
    ASSUME FundsInv, ServiceTypeOK', LedgerTypeOK', [Next]_vars
    PROVE  FundsInv'
<1>1. \A a \in Attempts : a \in InFlight <=> pc[a] \in Flying
  BY InFlightIs DEF FundsInv
<1> USE DEF Flying, Calling, Recording
<1>2. ASSUME NEW a \in Attempts, Step(a) PROVE FundsInv'
  <2> USE DEF Goto, Refuse, Answer, ledger
  <2>1. CASE Replay(a)
    <3>1. a.req.type = "DEPOSIT" => a.req.from = Cash
      BY AttemptFields, RequestsAssumption
    <3>2. QED
      BY <1>1, <2>1, <3>1, NoCheckStep DEF Replay, AfterReplay
  <2>2. CASE CheckFunds(a)
    <3>1. PICK call : pc' = [pc EXCEPT ![a] = call] /\ (call \in Calling => Sufficient(a))
      BY <2>2 DEF CheckFunds
    <3>2. pc[a] = "funds" /\ balance' = balance
      BY <2>2 DEF CheckFunds
    <3>3. ASSUME NEW x \in Accounts \ {Cash}
          PROVE  \/ /\ balance'[x] >= balance[x]
                    /\ call \notin Calling \/ a.req.from # x \/ pc[a] \in Calling
                 \/ /\ balance'[x] = balance[x] /\ balance[x] >= a.req.amount
                    /\ a.req.from = x /\ pc[a] \notin Calling
                 \/ /\ balance'[x] >= balance[x] - Cost(a)
                    /\ a.req.from = x /\ pc[a] \in Calling /\ call \notin Calling
      <4>1. balance[x] >= balance[x]
        BY DEF FundsInv, LedgerTypeOK
      <4>2. QED
        BY <3>1, <3>2, <4>1 DEF Sufficient
    <3>4. a \in InFlight
      BY <1>1, <3>2
    <3> HIDE DEF Flying, Calling, Recording
    <3>5. QED
      BY <3>1, <3>3, <3>4, MoveStep
  <2>3. CASE OpenSystemAccount(a)
    BY <1>1, <2>3, NoCheckStep DEF OpenSystemAccount, L!OpenAccount
  <2>4. CASE PostToLedger(a)
    BY <1>1, <2>4, CallStep DEF PostToLedger
  <2>5. CASE OrphanedPost(a)
    BY <1>1, <2>5, CallStep DEF OrphanedPost
  <2>6. CASE Record(a) \/ RecordRefused(a) \/ InsertRecord(a) \/ InsertEvent(a)
    BY <1>1, <2>6, NoCheckStep DEF Record, RecordRefused, InsertRecord, InsertEvent
  <2>7. QED
    BY <1>2, <2>1, <2>2, <2>3, <2>4, <2>5, <2>6 DEF Step
<1>3. ASSUME NEW a \in Attempts, FaultOf(a) PROVE FundsInv'
  <2> USE DEF Goto, Refuse, Answer, ledger
  <2>1. CASE ReplayFails(a)
    <3>1. a.req.type = "DEPOSIT" => a.req.from = Cash
      BY AttemptFields, RequestsAssumption
    <3>2. QED
      BY <1>1, <2>1, <3>1, NoCheckStep DEF ReplayFails, AfterReplay
  <2>2. CASE LedgerUnreachable(a) \/ RecordFails(a) \/ RecordAnswerLost(a)
    BY <1>1, <2>2, NoCheckStep DEF LedgerUnreachable, RecordFails, RecordAnswerLost
  <2>3. CASE AbandonPost(a)
    BY <1>1, <2>3, NoCheckStep DEF AbandonPost
  <2>4. CASE Crash(a)
    BY <1>1, <2>4, NoCheckStep DEF Crash
  <2>5. QED
    BY <1>3, <2>1, <2>2, <2>3, <2>4 DEF FaultOf
<1>4. CASE pc' = pc /\ balance' = balance
  <2>1. InFlight' = InFlight /\ \A x : Checked(x)' = Checked(x)
    BY <1>4 DEF InFlight, Checked
  <2>2. QED
    BY <1>4, <2>1 DEF FundsInv, Asked, AtOnce, Covered, Costs, Cost, Spare
<1>5. (\E x \in Accounts \ {Cash} : OpenCustomerAccount(x)) \/ UNCHANGED vars
          => pc' = pc /\ balance' = balance
  BY DEF OpenCustomerAccount, L!OpenAccount, vars, attempt, ledger
<1>6. QED
  BY <1>2, <1>3, <1>4, <1>5, SendStep DEF Next

\* Nobody is in flight, and nothing is owed.
LEMMA FundsInit == Init => FundsInv
<1> SUFFICES ASSUME Init PROVE FundsInv
  OBVIOUS
<1>1. ServiceTypeOK /\ LedgerTypeOK
  BY InvInit, LedgerTypeInit DEF ServiceInv
<1>2. InFlight = {} /\ \A x : Checked(x) = {}
  BY DEF Init, InFlight, Checked, Calling
<1>3. AtOnce
  BY <1>2, FS_EmptySet, BoundsAssumption DEF AtOnce
<1>4. Spare \in Nat
  BY AmountsAssumption, BoundsAssumption DEF Spare
<1>5. Covered
  BY <1>2, <1>4, SumEmpty DEF Init, Covered
<1>6. QED
  BY <1>1, <1>2, <1>3, <1>5 DEF FundsInv, Asked

\* "After an overdraft check" that reserves nothing: however many attempts overlap, fail,
\* are given up and arrive late, and whatever is rounded, a customer is overdrawn by no more
\* than all but one of the attempts in flight can move.  One attempt at a time overdraws
\* nobody.
THEOREM OverdraftIsBounded == Spec => []OverdraftBounded
<1>1. FundsInv => OverdraftBounded
  <2> SUFFICES ASSUME FundsInv, NEW x \in Accounts \ {Cash}
               PROVE  balance[x] >= -((MaxInFlight - 1) * MaxAmount)
    BY DEF OverdraftBounded
  <2>1. Sum(Costs, Checked(x)) \in Int /\ Sum(Costs, Checked(x)) >= 0
    BY CheckedIs
  <2>2. balance[x] \in Int /\ balance[x] - Sum(Costs, Checked(x)) >= -Spare
    BY DEF FundsInv, LedgerTypeOK, Covered
  <2>3. Spare \in Int
    BY AmountsAssumption, BoundsAssumption DEF Spare
  <2>4. balance[x] >= -Spare
    BY <2>1, <2>2, <2>3
  <2>5. QED
    BY <2>4 DEF Spare
<1>2. FundsInv /\ ServiceTypeOK' /\ LedgerTypeOK' /\ [Next]_vars => FundsInv'
  BY FundsStep
<1>3. QED
  BY <1>1, <1>2, FundsInit, LedgerTypeCorrect, ServiceTypeCorrect, PTL DEF Spec
=============================================================================
