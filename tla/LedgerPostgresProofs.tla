------------------------ MODULE LedgerPostgresProofs ------------------------
(***************************************************************************)
(* What holds of the Postgres ledger for any accounts, postings, sessions  *)
(* and amounts.                                                            *)
(***************************************************************************)
EXTENDS LedgerPostgres, SumLemmas

\* The sums and the rounding of the two modules are the same.
LEMMA LedgerSum == \A h, S : L!Sum(h, S) = Sum(h, S)
BY DEF L!Sum, Sum, L!MapThenSumSet, MapThenSumSet, L!MapThenFoldSet, MapThenFoldSet

LEMMA LedgerStored == \A x : L!Stored(x, Unit) = Stored(x, Unit)
BY DEF L!Stored, Stored

\* What a column rounds an amount to is an integer.
LEMMA StoredInt == \A x \in Int : Stored(x, Unit) \in Int
BY StoredNear, UnitAssumption

\* The entry a call is about to apply is an entry of its posting.
LEMMA CurrentEntryType ==
    ASSUME TypeOK, NEW s \in Sessions, HasEntry(s), req[s] \in Postings
    PROVE  CurrentEntry(s) \in L!Entry
<1>1. req[s].entries \in Seq(L!Entry)
  BY PostingsAssumption
<1>2. next[s] \in 1..Len(req[s].entries)
  BY <1>1 DEF TypeOK, HasEntry
<1>3. QED
  BY <1>1, <1>2 DEF CurrentEntry

\* A session that ends, whatever the outcome, is of its type and busy no more.
LEMMA FinishType ==
    ASSUME TypeOK, NEW s \in Sessions,
           NEW answer \in {"duplicate", "applied", "failed"},
           Finish(s, answer)
    PROVE  /\ pc' \in [Sessions -> {"idle", "header", "entries", "header_only"}]
           /\ req' = req /\ next' = next /\ submitted' = submitted
           /\ inserted' \in [Sessions -> BOOLEAN]
           /\ DOMAIN written' = Sessions
           /\ \A t \in Sessions : written'[t] \in [DOMAIN written'[t] -> Int]
           /\ \A t \in Sessions : DOMAIN written'[t] \subseteq open
           /\ reply' \in [Sessions -> {"none", "bad_request", "duplicate", "applied", "failed"}]
<1>1. NoLocks \in [DOMAIN NoLocks -> Int] /\ DOMAIN NoLocks = {}
  BY DEF NoLocks
<1>2. QED
  BY <1>1 DEF TypeOK, Finish

\* A call inside its transaction has a posting, and only then.
Busy == \A s \in Sessions : pc[s] # "idle" => req[s] \in Postings

\* A commit leaves rows and sessions of their types.
LEMMA PublishType ==
    ASSUME TypeOK, NEW s \in Sessions, req[s] \in Postings, Publish(s)
    PROVE  /\ open' = open
           /\ balance' \in [Accounts -> Int]
           /\ headers' \subseteq { HeaderOf(p) : p \in Postings }
           /\ DOMAIN rows' = Postings
           /\ \A p \in Postings : rows'[p] \in [DOMAIN p.entries -> Nat]
<1>1. \A a \in Accounts : BalanceSeen(s, a) \in Int
  BY DEF TypeOK, BalanceSeen
<1>2. balance' \in [Accounts -> Int]
  BY <1>1 DEF Publish
<1>3. headers' \subseteq { HeaderOf(p) : p \in Postings }
  BY DEF TypeOK, Publish
<1>4. DOMAIN rows' = Postings
  BY DEF TypeOK, Publish
<1>5. ASSUME NEW p \in Postings PROVE rows'[p] \in [DOMAIN p.entries -> Nat]
  <2>1. CASE p # req[s]
    BY <2>1 DEF TypeOK, Publish
  <2>2. CASE p = req[s]
    <3>1. rows'[p] = [i \in DOMAIN p.entries |->
                        rows[p][i] + (IF i < next[s] THEN 1 ELSE 0)]
      BY <2>2 DEF TypeOK, Publish
    <3>2. \A i \in DOMAIN p.entries : rows[p][i] \in Nat
      BY DEF TypeOK
    <3>3. \A i \in DOMAIN p.entries :
              rows[p][i] + (IF i < next[s] THEN 1 ELSE 0) \in Nat
      BY <3>2
    <3>4. QED
      BY <3>1, <3>3
  <2>3. QED
    BY <2>1, <2>2
<1>6. QED
  BY <1>2, <1>3, <1>4, <1>5 DEF Publish

\* So does the update of one balance with its entry.
LEMMA ApplyEntryType ==
    ASSUME TypeOK, Busy, NEW s \in Sessions, ApplyEntry(s)
    PROVE  TypeOK'
<1> DEFINE a == CurrentEntry(s).account
           new == Stored(BalanceSeen(s, a) + L!Signed(CurrentEntry(s)), Unit)
<1>1. req[s] \in Postings
  BY DEF Busy, ApplyEntry, HasEntry
<1>2. CurrentEntry(s) \in L!Entry
  BY <1>1, CurrentEntryType DEF ApplyEntry
<1>3. a \in open
  BY DEF ApplyEntry, AccountExists
<1>4. BalanceSeen(s, a) \in Int
  BY <1>3 DEF TypeOK, BalanceSeen
<1>5. L!Signed(CurrentEntry(s)) \in Int
  BY <1>2 DEF L!Entry, L!Signed
<1>6. new \in Int
  BY <1>4, <1>5, StoredInt
<1> HIDE DEF new
<1>7. written' = [written EXCEPT ![s] =
          [b \in DOMAIN written[s] \cup {a} |-> IF b = a THEN new ELSE written[s][b]]]
  BY DEF ApplyEntry, new
<1>8. /\ DOMAIN written' = Sessions
      /\ \A t \in Sessions : written'[t] \in [DOMAIN written'[t] -> Int]
      /\ \A t \in Sessions : DOMAIN written'[t] \subseteq open
  <2> SUFFICES ASSUME NEW t \in Sessions
               PROVE  /\ written'[t] \in [DOMAIN written'[t] -> Int]
                      /\ DOMAIN written'[t] \subseteq open
    BY <1>7 DEF TypeOK
  <2>1. CASE t # s
    BY <2>1, <1>7 DEF TypeOK
  <2>2. CASE t = s
    <3>1. written'[t] = [b \in DOMAIN written[s] \cup {a} |->
                            IF b = a THEN new ELSE written[s][b]]
      BY <2>2, <1>7 DEF TypeOK
    <3>2. \A b \in DOMAIN written[s] : written[s][b] \in Int
      BY DEF TypeOK
    <3>3. QED
      BY <3>1, <3>2, <1>3, <1>6 DEF TypeOK
  <2>3. QED
    BY <2>1, <2>2
<1>9. next' \in [Sessions -> Nat \ {0}]
  BY DEF TypeOK, ApplyEntry
<1>10. UNCHANGED <<committed, pc, req, inserted, reply, submitted>>
  BY DEF ApplyEntry
<1>11. QED
  BY <1>8, <1>9, <1>10 DEF TypeOK, committed

\* Every step keeps the types, and that a session with a statement to run has a posting.
LEMMA TypeStep == TypeOK /\ Busy /\ [Next]_vars => TypeOK' /\ Busy'
<1> SUFFICES ASSUME TypeOK, Busy, [Next]_vars PROVE TypeOK' /\ Busy'
  OBVIOUS
<1> USE DEF vars, committed, session
<1>1. ASSUME NEW a \in Accounts, OpenAccount(a) PROVE TypeOK' /\ Busy'
  BY <1>1 DEF OpenAccount, TypeOK, Busy
<1>2. ASSUME NEW s \in Sessions, NEW p \in Postings, Submit(s, p) PROVE TypeOK' /\ Busy'
  <2>1. /\ pc' \in [Sessions -> {"idle", "header", "entries", "header_only"}]
        /\ next' \in [Sessions -> Nat \ {0}]
        /\ reply' \in [Sessions -> {"none", "bad_request", "duplicate", "applied", "failed"}]
    <3>1. CASE L!Valid(p)
      BY <1>2, <3>1 DEF Submit, TypeOK
    <3>2. CASE ~L!Valid(p)
      BY <1>2, <3>2 DEF Submit, TypeOK
    <3>3. QED
      BY <3>1, <3>2
  <2>2. /\ req' \in [Sessions -> Postings \cup {NoPosting}] /\ req' = [req EXCEPT ![s] = p]
        /\ submitted' \in [Postings -> 0..MaxSubmit]
        /\ UNCHANGED <<committed, inserted, written>>
    BY <1>2, MaxSubmitAssumption DEF Submit, TypeOK
  <2>3. TypeOK'
    BY <2>1, <2>2 DEF TypeOK
  <2>4. \A t \in Sessions \ {s} : pc'[t] = pc[t]
    BY <1>2 DEF Submit, TypeOK
  <2>5. QED
    BY <2>2, <2>3, <2>4 DEF TypeOK, Busy
<1>3. ASSUME NEW s \in Sessions, Rollback(s) PROVE TypeOK' /\ Busy'
  <2>1. Finish(s, "failed") /\ UNCHANGED committed
    BY <1>3 DEF Rollback
  <2>2. TypeOK'
    BY <2>1, FinishType DEF TypeOK
  <2>3. QED
    BY <2>1, <2>2 DEF Finish, Busy, TypeOK
<1>4. ASSUME NEW s \in Sessions, InsertHeader(s) PROVE TypeOK' /\ Busy'
  BY <1>4 DEF InsertHeader, TypeOK, Busy
<1>5. ASSUME NEW s \in Sessions, HeaderDuplicate(s) PROVE TypeOK' /\ Busy'
  <2>1. Finish(s, "duplicate") /\ UNCHANGED committed
    BY <1>5 DEF HeaderDuplicate
  <2>2. TypeOK'
    BY <2>1, FinishType DEF TypeOK
  <2>3. QED
    BY <2>1, <2>2 DEF Finish, Busy, TypeOK
<1>6. ASSUME NEW s \in Sessions, HeaderTakenForNew(s) PROVE TypeOK' /\ Busy'
  BY <1>6 DEF HeaderTakenForNew, TypeOK, Busy
<1>7. ASSUME NEW s \in Sessions, ApplyEntry(s) PROVE TypeOK' /\ Busy'
  <2>1. TypeOK'
    BY <1>7, ApplyEntryType
  <2>2. QED
    BY <1>7, <2>1 DEF ApplyEntry, Busy
<1>8. ASSUME NEW s \in Sessions, pc[s] # "idle", Publish(s),
             NEW answer \in {"applied", "duplicate", "failed"}, Finish(s, answer)
      PROVE  TypeOK' /\ Busy'
  <2>1. req[s] \in Postings
    BY <1>8 DEF Busy
  <2>2. TypeOK'
    BY <1>8, <2>1, PublishType, FinishType DEF TypeOK
  <2>3. QED
    BY <1>8, <2>2 DEF Finish, Busy, TypeOK
<1>9. CASE UNCHANGED vars
  BY <1>9 DEF TypeOK, Busy
<1>10. QED
  BY <1>1, <1>2, <1>3, <1>4, <1>5, <1>6, <1>7, <1>8, <1>9
     DEF Next, Step, HeaderIdTaken, AccountNotFound, Commit, CommitHeaderOnly, CommitUnacknowledged,
         DeadlockVictim, ConnectionLost

\* The state of the Postgres ledger keeps its types: in particular a call only
\* ever holds rows of accounts that exist.
THEOREM TypeCorrect == Spec => [](TypeOK /\ Busy)
<1>1. Init => TypeOK /\ Busy
  BY MaxSubmitAssumption, NoPostingAssumption DEF Init, TypeOK, Busy, NoLocks
<1>2. QED
  BY <1>1, TypeStep, PTL DEF Spec

-----------------------------------------------------------------------------
(* Once per key.  The invariant relates the uncommitted header of a call to  *)
(* the committed ones: the unique constraint, and its wait for uncommitted   *)
(* rows, leave at most one holder of a key.                                  *)

OwnCalls ==
    /\ \A p \in Postings : submitted[p] = 0 =>
           HeaderOf(p) \notin headers /\ \A s \in Sessions : req[s] # p
    /\ \A s, t \in Sessions : req[s] \in Postings /\ req[s] = req[t] => s = t

CallShape ==
    \A s \in Sessions :
        /\ pc[s] = "entries" <=> inserted[s]
        /\ pc[s] # "header_only"
        /\ pc[s] # "idle" => /\ next[s] <= Len(req[s].entries) + 1
                             /\ HeaderOf(req[s]) \notin headers

OneKeyHolder ==
    /\ \A s \in Sessions : inserted[s] => \A h \in headers : h.key # req[s].key
    /\ \A s, t \in Sessions :
           inserted[s] /\ inserted[t] /\ req[s].key = req[t].key => s = t

OnceInv == TypeOK /\ Busy /\ OwnCalls /\ CallShape /\ OneKeyHolder /\ AppliedOnce

\* With fresh ids, two postings with one header are one posting.
LEMMA HeaderOfInjective ==
    ASSUME FreshIds, NEW p \in Postings, NEW q \in Postings, HeaderOf(p) = HeaderOf(q)
    PROVE  p = q
<1>1. HeaderOf(p).id = p.id /\ HeaderOf(q).id = q.id
  BY DEF HeaderOf
<1>2. QED
  BY <1>1 DEF FreshIds

\* Ending a call without a commit.
LEMMA FinishKeepsOnce ==
    ASSUME OnceInv, NEW s \in Sessions, NEW answer, Finish(s, answer), UNCHANGED committed
    PROVE  OwnCalls' /\ CallShape' /\ OneKeyHolder' /\ AppliedOnce'
<1>1. OwnCalls'
  BY DEF OnceInv, OwnCalls, Finish, committed
<1>2. CallShape'
  BY DEF OnceInv, TypeOK, CallShape, Finish, committed
<1>3. OneKeyHolder'
  BY DEF OnceInv, TypeOK, OneKeyHolder, Finish, committed
<1>4. AppliedOnce'
  BY DEF OnceInv, AppliedOnce, committed
<1>5. QED
  BY <1>1, <1>2, <1>3, <1>4

\* The insertion of a header under the unique key keeps each posting single.
LEMMA InsertHeaderKeepsOnce ==
    ASSUME FreshIds, OnceInv, NEW s \in Sessions, InsertHeader(s)
    PROVE  OwnCalls' /\ CallShape' /\ OneKeyHolder' /\ AppliedOnce'
<1>1. UNCHANGED <<open, balance, headers, rows, req, next, submitted>>
  BY DEF InsertHeader, committed
<1>2. \A h \in headers : h.key # req[s].key
  BY DEF InsertHeader, KeyCommitted, StoredIds
<1>3. \A t \in Sessions : t # s /\ inserted[t] => req[t].key # req[s].key
  BY DEF InsertHeader, HeaderWaitsFor, HoldsHeader
<1>4. OwnCalls' /\ AppliedOnce'
  BY <1>1 DEF OnceInv, OwnCalls, AppliedOnce
<1>5. CallShape'
  <2>1. req[s].canonical
    BY DEF FreshIds, InsertHeader, OnceInv, Busy
  <2>2. QED
    BY <1>1, <2>1 DEF OnceInv, TypeOK, CallShape, InsertHeader
<1>6. OneKeyHolder'
  BY <1>1, <1>2, <1>3 DEF OnceInv, TypeOK, OneKeyHolder, InsertHeader
<1>7. QED
  BY <1>4, <1>5, <1>6

\* With fresh ids, a stored id never equals the id of a new call.
LEMMA NoSecondPosting ==
    ASSUME FreshIds, OnceInv, NEW s \in Sessions, HeaderTakenForNew(s)
    PROVE  FALSE
<1>1. PICK h \in headers : h.key = req[s].key /\ h.id = req[s].id
  BY DEF HeaderTakenForNew, StoredIds
<1>2. PICK q \in Postings : h = HeaderOf(q)
  BY DEF OnceInv, TypeOK
<1>3. req[s] \in Postings /\ pc[s] # "idle"
  BY DEF HeaderTakenForNew, OnceInv, Busy
<1>4. q.id = req[s].id
  BY <1>1, <1>2 DEF HeaderOf
<1>5. q = req[s]
  BY <1>3, <1>4 DEF FreshIds
<1>6. QED
  BY <1>2, <1>3, <1>5 DEF OnceInv, CallShape

\* So does a commit, which publishes a session's header and all its entries.
LEMMA CommitKeepsOnce ==
    ASSUME FreshIds, OnceInv, NEW s \in Sessions, NEW answer,
           pc[s] = "entries", ~HasEntry(s), Publish(s), Finish(s, answer)
    PROVE  OwnCalls' /\ CallShape' /\ OneKeyHolder' /\ AppliedOnce'
<1> DEFINE p == req[s]
<1>1. p \in Postings /\ inserted[s]
  BY DEF OnceInv, Busy, CallShape
<1>2. headers' = headers \cup {HeaderOf(p)}
  BY <1>1 DEF Publish
<1>3. \A q \in Postings : HeaderOf(q) \in headers' <=> HeaderOf(q) \in headers \/ q = p
  BY <1>1, <1>2, HeaderOfInjective
<1>4. HeaderOf(p) \notin headers
  BY DEF OnceInv, CallShape
<1>5. OwnCalls'
  BY <1>1, <1>3 DEF OnceInv, OwnCalls, Finish
<1>6. CallShape'
  <2>1. \A t \in Sessions : t # s /\ pc[t] # "idle" => HeaderOf(req[t]) \notin headers'
    BY <1>1, <1>3 DEF OnceInv, OwnCalls, CallShape, Busy
  <2>2. QED
    BY <2>1 DEF OnceInv, TypeOK, CallShape, Finish
<1>7. OneKeyHolder'
  <2>1. HeaderOf(p).key = req[s].key
    BY DEF HeaderOf
  <2>2. QED
    BY <1>1, <1>2, <2>1 DEF OnceInv, TypeOK, OneKeyHolder, Finish
<1>8. AppliedOnce'
  <2>1. ASSUME NEW g \in headers', NEW h \in headers', g.key = h.key PROVE g = h
    <3>1. HeaderOf(p).key = p.key
      BY DEF HeaderOf
    <3>2. \A k \in headers : k.key # p.key
      BY <1>1 DEF OnceInv, OneKeyHolder
    <3>3. QED
      BY <1>2, <2>1, <3>1, <3>2 DEF OnceInv, AppliedOnce
  <2>2. ASSUME NEW q \in Postings, NEW i \in DOMAIN q.entries
        PROVE  rows'[q][i] = IF HeaderOf(q) \in headers' THEN 1 ELSE 0
    <3>1. CASE q # p
      BY <1>3, <3>1 DEF OnceInv, TypeOK, AppliedOnce, Publish
    <3>2. CASE q = p
      <4>1. q.entries \in Seq(L!Entry)
        BY PostingsAssumption
      <4>2. i < next[s]
        BY <3>2, <4>1 DEF HasEntry, OnceInv, TypeOK
      <4>3. rows'[q][i] = rows[q][i] + 1
        BY <1>1, <3>2, <4>2 DEF Publish, OnceInv, TypeOK
      <4>4. rows[q][i] = 0
        BY <1>1, <1>4, <3>2 DEF OnceInv, AppliedOnce
      <4>5. QED
        BY <1>3, <3>2, <4>3, <4>4
    <3>3. QED
      BY <3>1, <3>2
  <2>3. QED
    BY <2>1, <2>2 DEF AppliedOnce
<1>9. QED
  BY <1>5, <1>6, <1>7, <1>8

\* So does every step.
LEMMA OnceStep ==
    ASSUME FreshIds, OnceInv, [Next]_vars
    PROVE  OnceInv'
<1>1. TypeOK' /\ Busy'
  BY TypeStep DEF OnceInv
<1>2. SUFFICES OwnCalls' /\ CallShape' /\ OneKeyHolder' /\ AppliedOnce'
  BY <1>1 DEF OnceInv
<1>3. ASSUME NEW a \in Accounts, OpenAccount(a)
      PROVE  OwnCalls' /\ CallShape' /\ OneKeyHolder' /\ AppliedOnce'
  BY <1>3 DEF OpenAccount, session, OnceInv, OwnCalls, CallShape, OneKeyHolder, AppliedOnce
<1>4. ASSUME NEW s \in Sessions, NEW p \in Postings, Submit(s, p)
      PROVE  OwnCalls' /\ CallShape' /\ OneKeyHolder' /\ AppliedOnce'
  <2>1. submitted[p] = 0
    BY <1>4 DEF Submit, OnceInv, TypeOK, FreshIds
  <2>2. HeaderOf(p) \notin headers /\ \A t \in Sessions : req[t] # p
    BY <2>1 DEF OnceInv, OwnCalls
  <2>3. OwnCalls'
    BY <1>4, <2>2 DEF Submit, committed, OnceInv, TypeOK, OwnCalls
  <2>4. CallShape'
    <3>1. Len(p.entries) \in Nat
      BY PostingsAssumption
    <3>2. QED
      BY <1>4, <2>2, <3>1 DEF Submit, committed, OnceInv, TypeOK, CallShape
  <2>5. OneKeyHolder'
    BY <1>4 DEF Submit, committed, OnceInv, TypeOK, CallShape, OneKeyHolder
  <2>6. AppliedOnce'
    BY <1>4 DEF Submit, committed, OnceInv, AppliedOnce
  <2>7. QED
    BY <2>3, <2>4, <2>5, <2>6
<1>5. ASSUME NEW s \in Sessions, Rollback(s)
      PROVE  OwnCalls' /\ CallShape' /\ OneKeyHolder' /\ AppliedOnce'
  BY <1>5, FinishKeepsOnce DEF Rollback
<1>6. ASSUME NEW s \in Sessions, HeaderDuplicate(s)
      PROVE  OwnCalls' /\ CallShape' /\ OneKeyHolder' /\ AppliedOnce'
  BY <1>6, FinishKeepsOnce DEF HeaderDuplicate
<1>7. ASSUME NEW s \in Sessions, ApplyEntry(s)
      PROVE  OwnCalls' /\ CallShape' /\ OneKeyHolder' /\ AppliedOnce'
  <2>1. next' = [next EXCEPT ![s] = @ + 1] /\ next[s] <= Len(req[s].entries)
    BY <1>7 DEF ApplyEntry, HasEntry
  <2>2. UNCHANGED <<open, balance, headers, rows, pc, req, inserted, submitted>>
    BY <1>7 DEF ApplyEntry, committed
  <2>3. OwnCalls' /\ OneKeyHolder' /\ AppliedOnce'
    BY <2>2 DEF OnceInv, OwnCalls, OneKeyHolder, AppliedOnce
  <2>4. \A t \in Sessions : pc[t] # "idle" => next'[t] <= Len(req[t].entries) + 1
    <3>1. req[s] \in Postings
      BY <1>7 DEF ApplyEntry, HasEntry, OnceInv, Busy
    <3>2. Len(req[s].entries) \in Nat
      BY <3>1, PostingsAssumption
    <3>3. QED
      BY <2>1, <3>2 DEF OnceInv, TypeOK, CallShape
  <2>5. QED
    BY <2>2, <2>3, <2>4 DEF OnceInv, CallShape
<1>8. CASE UNCHANGED vars
  BY <1>8 DEF vars, committed, session, OnceInv, OwnCalls, CallShape, OneKeyHolder, AppliedOnce
<1>9. \A s \in Sessions : pc[s] # "header_only"
  BY DEF OnceInv, CallShape
<1>10. QED
  BY <1>3, <1>4, <1>5, <1>6, <1>7, <1>8, <1>9, InsertHeaderKeepsOnce, NoSecondPosting, CommitKeepsOnce
     DEF Next, Step, HeaderIdTaken, AccountNotFound, Commit, CommitHeaderOnly, CommitUnacknowledged,
         DeadlockVictim, ConnectionLost

\* With fresh ids the invariant holds in every reachable state.
LEMMA OnceInvariant == FreshIds => (Spec => []OnceInv)
<1> SUFFICES ASSUME FreshIds PROVE Spec => []OnceInv
  OBVIOUS
<1>1. Init => OnceInv
  <2> SUFFICES ASSUME Init PROVE OnceInv
    OBVIOUS
  <2>1. TypeOK /\ Busy
    BY MaxSubmitAssumption, NoPostingAssumption DEF Init, TypeOK, Busy, NoLocks
  <2>2. OwnCalls /\ CallShape /\ OneKeyHolder /\ AppliedOnce
    BY NoPostingAssumption DEF Init, OwnCalls, CallShape, OneKeyHolder, AppliedOnce
  <2>3. QED
    BY <2>1, <2>2 DEF OnceInv
<1>2. OnceInv /\ [Next]_vars => OnceInv'
  BY OnceStep
<1>3. QED
  BY <1>1, <1>2, PTL DEF Spec

\* Post under fresh transaction ids: a posting is committed whole, once, and its
\* key with it, whatever calls, rollbacks, deadlocks and lost acknowledgements
\* there have been.
THEOREM PostedOnce == FreshIds => (Spec => []AppliedOnce)
<1> SUFFICES ASSUME FreshIds PROVE Spec => []AppliedOnce
  OBVIOUS
<1>1. OnceInv => AppliedOnce
  BY DEF OnceInv
<1>2. QED
  BY <1>1, OnceInvariant, PTL

-----------------------------------------------------------------------------
(* What the answers mean, ids used again and spelled otherwise included.    *)

\* Every committed header is that of a posting whose entries are committed with it,
\* unless the caller's spelling of its id has kept them out.
Heads ==
    \A h \in headers :
        \E p \in Postings :
            /\ h = HeaderOf(p)
            /\ p.canonical => \A i \in DOMAIN p.entries : rows[p][i] > 0

Stamped ==
    \A s \in Sessions :
        /\ pc[s] = "entries" => inserted[s] \/ HeaderOf(req[s]) \in headers
        /\ pc[s] = "header_only" => inserted[s] /\ ~req[s].canonical

Answered ==
    \A s \in Sessions :
        /\ reply[s] = "applied" =>
               /\ HeaderOf(req[s]) \in headers
               /\ \A i \in DOMAIN req[s].entries : rows[req[s]][i] > 0
        /\ reply[s] = "duplicate" => \E h \in headers : h.key = req[s].key

\* A reply is that to a posting the session was asked to make.
Asked == \A s \in Sessions : reply[s] \in {"applied", "duplicate"} => req[s] \in Postings

RepliesInv == TypeOK /\ Busy /\ Heads /\ Stamped /\ Answered /\ Asked

\* A commit takes no row away.
LEMMA PublishGrows ==
    ASSUME TypeOK, Busy, NEW s \in Sessions, pc[s] # "idle", Publish(s)
    PROVE  /\ headers \subseteq headers' /\ headers' \subseteq headers \cup {HeaderOf(req[s])}
           /\ inserted[s] => HeaderOf(req[s]) \in headers'
           /\ \A p \in Postings : \A i \in DOMAIN p.entries : rows[p][i] > 0 => rows'[p][i] > 0
           /\ pc[s] = "entries" /\ ~HasEntry(s) =>
                  \A i \in DOMAIN req[s].entries : rows'[req[s]][i] > 0
<1>1. req[s] \in Postings
  BY DEF Busy
<1>2. ASSUME NEW i \in DOMAIN req[s].entries
      PROVE  /\ rows'[req[s]][i] = rows[req[s]][i] + (IF i < next[s] THEN 1 ELSE 0)
             /\ rows[req[s]][i] \in Nat
  BY <1>1 DEF Publish, TypeOK
<1>3. \A p \in Postings : p # req[s] => rows'[p] = rows[p]
  BY DEF Publish, TypeOK
<1>4. ASSUME NEW p \in Postings, NEW i \in DOMAIN p.entries, rows[p][i] > 0
      PROVE  rows'[p][i] > 0
  BY <1>2, <1>3, <1>4
<1>5. ASSUME pc[s] = "entries", ~HasEntry(s), NEW i \in DOMAIN req[s].entries
      PROVE  rows'[req[s]][i] > 0
  <2>1. i \in 1..Len(req[s].entries) /\ Len(req[s].entries) \in Nat
    BY <1>1, PostingsAssumption
  <2>2. i < next[s]
    BY <1>5, <2>1 DEF HasEntry, TypeOK
  <2>3. QED
    BY <1>2, <2>2
<1>6. QED
  BY <1>4, <1>5 DEF Publish

\* A commit keeps the invariant, whichever of its answers is given.
LEMMA CommitKeepsReplies ==
    ASSUME RepliesInv, NEW s \in Sessions, Publish(s), ~HasEntry(s),
           NEW answer, Finish(s, answer),
           \/ pc[s] = "entries" /\ answer # "duplicate"
           \/ pc[s] = "header_only" /\ answer # "applied"
    PROVE  Heads' /\ Stamped' /\ Answered' /\ Asked'
<1> DEFINE p == req[s]
<1>1. TypeOK /\ Busy /\ p \in Postings /\ pc[s] # "idle"
  BY DEF RepliesInv, Busy
<1>2. /\ headers \subseteq headers' /\ headers' \subseteq headers \cup {HeaderOf(p)}
      /\ inserted[s] => HeaderOf(p) \in headers'
      /\ \A q \in Postings : \A i \in DOMAIN q.entries : rows[q][i] > 0 => rows'[q][i] > 0
      /\ pc[s] = "entries" => \A i \in DOMAIN p.entries : rows'[p][i] > 0
  BY <1>1, PublishGrows
<1>3. HeaderOf(p).key = p.key
  BY DEF HeaderOf
<1>4. HeaderOf(p) \in headers'
  BY <1>2 DEF RepliesInv, Stamped
<1>5. Heads'
  <2>1. ASSUME NEW h \in headers
        PROVE  \E q \in Postings :
                   h = HeaderOf(q) /\ (q.canonical => \A i \in DOMAIN q.entries : rows'[q][i] > 0)
    BY <1>2 DEF RepliesInv, Heads
  <2>2. p.canonical => \A i \in DOMAIN p.entries : rows'[p][i] > 0
    BY <1>2 DEF RepliesInv, Stamped
  <2>3. QED
    BY <1>1, <1>2, <2>1, <2>2 DEF Heads
<1>6. Stamped'
  BY <1>1, <1>2 DEF Finish, RepliesInv, Stamped, TypeOK
<1>7. Asked'
  BY <1>1 DEF Finish, RepliesInv, Asked, TypeOK
<1>8. Answered'
  <2> SUFFICES ASSUME NEW t \in Sessions
               PROVE  /\ reply'[t] = "applied" =>
                             /\ HeaderOf(req[t]) \in headers'
                             /\ \A i \in DOMAIN req[t].entries : rows'[req[t]][i] > 0
                      /\ reply'[t] = "duplicate" => \E h \in headers' : h.key = req[t].key
    BY DEF Answered, Finish
  <2>1. CASE t # s
    <3>1. reply'[t] = reply[t] /\ (reply[t] = "applied" => req[t] \in Postings)
      BY <1>1, <2>1 DEF Finish, TypeOK, RepliesInv, Asked
    <3>2. QED
      BY <1>2, <3>1 DEF RepliesInv, Answered
  <2>2. CASE t = s
    BY <1>1, <1>2, <1>3, <1>4, <2>2 DEF Finish, TypeOK
  <2>3. QED
    BY <2>1, <2>2
<1>9. QED
  BY <1>5, <1>6, <1>7, <1>8

\* So does every step.
LEMMA RepliesStep ==
    ASSUME RepliesInv, [Next]_vars
    PROVE  RepliesInv'
<1> DEFINE Inv == Heads' /\ Stamped' /\ Answered' /\ Asked'
<1>1. TypeOK /\ Busy /\ TypeOK' /\ Busy'
  BY TypeStep DEF RepliesInv
<1>2. SUFFICES Inv
  BY <1>1 DEF RepliesInv
<1> USE DEF RepliesInv, Heads, Stamped, Answered, Asked
<1>3. ASSUME NEW a \in Accounts, OpenAccount(a) PROVE Inv
  BY <1>3 DEF OpenAccount, session
<1>4. ASSUME NEW s \in Sessions, NEW p \in Postings, Submit(s, p) PROVE Inv
  <2>1. /\ pc'[s] \in {"idle", "header"} /\ reply'[s] \in {"none", "bad_request"}
        /\ UNCHANGED <<committed, inserted>>
    <3>1. CASE L!Valid(p)
      BY <1>1, <1>4, <3>1 DEF Submit, TypeOK
    <3>2. CASE ~L!Valid(p)
      BY <1>1, <1>4, <3>2 DEF Submit, TypeOK
    <3>3. QED
      BY <3>1, <3>2
  <2>2. \A t \in Sessions \ {s} : pc'[t] = pc[t] /\ reply'[t] = reply[t] /\ req'[t] = req[t]
    BY <1>1, <1>4 DEF Submit, TypeOK
  <2>3. QED
    BY <2>1, <2>2 DEF committed
<1>5. ASSUME NEW s \in Sessions, Rollback(s) PROVE Inv
  BY <1>1, <1>5 DEF Rollback, Finish, committed, TypeOK
<1>6. ASSUME NEW s \in Sessions, HeaderDuplicate(s) PROVE Inv
  <2>1. req[s] \in Postings /\ \E h \in headers : h.key = req[s].key
    BY <1>1, <1>6 DEF HeaderDuplicate, StoredIds, Busy
  <2>2. QED
    BY <1>1, <1>6, <2>1 DEF HeaderDuplicate, Finish, committed, TypeOK
<1>7. ASSUME NEW s \in Sessions, InsertHeader(s) PROVE Inv
  BY <1>1, <1>7 DEF InsertHeader, committed, TypeOK
<1>8. ASSUME NEW s \in Sessions, HeaderTakenForNew(s) PROVE Inv
  <2>1. PICK h \in headers : h.key = req[s].key /\ h.id = req[s].id
    BY <1>8 DEF HeaderTakenForNew, StoredIds
  <2>2. PICK p \in Postings : h = HeaderOf(p)
    BY <1>1 DEF TypeOK
  <2>3. HeaderOf(req[s]) \in headers
    BY <2>1, <2>2 DEF HeaderOf
  <2>4. QED
    BY <1>1, <1>8, <2>3 DEF HeaderTakenForNew, committed, TypeOK
<1>9. ASSUME NEW s \in Sessions, ApplyEntry(s) PROVE Inv
  BY <1>9 DEF ApplyEntry, committed
<1>10. CASE UNCHANGED vars
  BY <1>10 DEF vars, committed, session
<1> USE DEF HasEntry
<1>11. ASSUME NEW s \in Sessions, Commit(s) \/ CommitHeaderOnly(s) \/ CommitUnacknowledged(s)
       PROVE  Inv
  BY <1>11, CommitKeepsReplies DEF Commit, CommitHeaderOnly, CommitUnacknowledged
<1>12. QED
  BY <1>3, <1>4, <1>5, <1>6, <1>7, <1>8, <1>9, <1>10, <1>11
     DEF Next, Step, HeaderIdTaken, AccountNotFound, DeadlockVictim, ConnectionLost

\* An answer "applied" can be relied on: this posting is committed with all its entries.
\* So can "duplicate": a posting under the key is, unless a caller spelled an id otherwise
\* than Postgres prints it.  It takes no fresh ids.
THEOREM RepliesAreTruthful == Spec => []RepliesTruthful
<1>1. Init => RepliesInv
  <2> SUFFICES ASSUME Init PROVE RepliesInv
    OBVIOUS
  <2>1. TypeOK /\ Busy
    BY MaxSubmitAssumption, NoPostingAssumption DEF Init, TypeOK, Busy, NoLocks
  <2>2. Heads /\ Stamped /\ Answered /\ Asked
    BY DEF Init, Heads, Stamped, Answered, Asked
  <2>3. QED
    BY <2>1, <2>2 DEF RepliesInv
<1>2. RepliesInv /\ [Next]_vars => RepliesInv'
  BY RepliesStep
<1>3. RepliesInv => RepliesTruthful
  <2> SUFFICES ASSUME RepliesInv, NEW s \in Sessions, reply[s] = "duplicate"
               PROVE  \E p \in Postings :
                          /\ p.key = req[s].key
                          /\ HeaderOf(p) \in headers
                          /\ p.canonical => \A i \in DOMAIN p.entries : rows[p][i] > 0
    BY DEF RepliesTruthful, RepliesInv, Answered
  <2>1. PICK h \in headers : h.key = req[s].key
    BY DEF RepliesInv, Answered
  <2>2. PICK p \in Postings :
            h = HeaderOf(p) /\ (p.canonical => \A i \in DOMAIN p.entries : rows[p][i] > 0)
    BY DEF RepliesInv, Heads
  <2>3. p.key = req[s].key
    BY <2>1, <2>2 DEF HeaderOf
  <2>4. QED
    BY <2>2, <2>3
<1>4. QED
  BY <1>1, <1>2, <1>3, PTL DEF Spec

-----------------------------------------------------------------------------
(* The balances.  A call's uncommitted writes are what its posting makes, up *)
(* to the entry it has reached, of balances that nobody else can change: it  *)
(* holds the rows locked.  The commit then adds the posting as a whole.      *)

\* Which rows calls hold locked: those of the entries applied so far, at least.
Locks ==
    /\ \A s \in Sessions : pc[s] # "entries" => DOMAIN written[s] = {}
    /\ \A s \in Sessions : pc[s] \in {"header", "header_only"} => next[s] = 1
    /\ \A s \in Sessions : pc[s] = "entries" =>
           /\ next[s] <= Len(req[s].entries) + 1
           /\ \A i \in DOMAIN req[s].entries :
                  i < next[s] => req[s].entries[i].account \in DOMAIN written[s]
    /\ \A s, t \in Sessions : s # t => DOMAIN written[s] \cap DOMAIN written[t] = {}

\* What the entries of p add, one by one, and which of them are rounded.
Changes(p) == [i \in DOMAIN p.entries |-> L!Signed(p.entries[i])]
Fractions(p) == [i \in DOMAIN p.entries |-> Fraction(p.entries[i])]

\* The entries of its posting that s has applied to account a.
Done(s, a) == {i \in DOMAIN req[s].entries : i < next[s] /\ req[s].entries[i].account = a}

\* A call's balance of an account it has locked is what the atomic ledger would have
\* after as many entries, and near the exact sum.
Pending ==
    \A s \in Sessions : pc[s] = "entries" =>
        \A a \in DOMAIN written[s] :
            /\ written[s][a] = L!After(req[s], a, balance[a])[next[s] - 1]
            /\ Within(written[s][a],
                      balance[a] + Sum(Changes(req[s]), Done(s, a)),
                      Sum(Fractions(req[s]), Done(s, a)), Unit)

WholeBalances ==
    /\ \A a \in Accounts : Whole(balance[a], Unit)
    /\ \A s \in Sessions : \A a \in DOMAIN written[s] : Whole(written[s][a], Unit)

ValidCalls == \A s \in Sessions : pc[s] # "idle" => L!Valid(req[s])

BalanceInv ==
    /\ TypeOK /\ Busy /\ Locks /\ Pending /\ WholeBalances /\ ValidCalls
    /\ BalanceDerived /\ MoneyConserved

\* The entries of a posting: finitely many changes of accounts.
LEMMA EntriesOf ==
    ASSUME NEW p \in Postings
    PROVE  /\ IsFiniteSet(DOMAIN p.entries) /\ DOMAIN p.entries = 1..Len(p.entries)
           /\ Len(p.entries) \in Nat
           /\ \A i \in DOMAIN p.entries :
                 /\ p.entries[i].account \in Accounts /\ p.entries[i].amount \in Int
                 /\ p.entries[i].direction \in {"DEBIT", "CREDIT"}
                 /\ Changes(p)[i] = L!Signed(p.entries[i]) /\ Changes(p)[i] \in Int
                 /\ Fractions(p)[i] \in {0, 1}
                 /\ Fractions(p)[i] = 0 => Whole(Changes(p)[i], Unit)
<1>1. p.entries \in Seq(L!Entry)
  BY PostingsAssumption
<1>2. /\ DOMAIN p.entries = 1..Len(p.entries) /\ Len(p.entries) \in Nat
      /\ \A i \in DOMAIN p.entries : p.entries[i] \in L!Entry
  BY <1>1
<1>3. IsFiniteSet(DOMAIN p.entries)
  BY <1>2, FS_Interval
<1>4. ASSUME NEW i \in DOMAIN p.entries
      PROVE  /\ p.entries[i].account \in Accounts /\ p.entries[i].amount \in Int
             /\ p.entries[i].direction \in {"DEBIT", "CREDIT"}
  BY <1>2 DEF L!Entry, L!Direction
<1>5. ASSUME NEW i \in DOMAIN p.entries
      PROVE  /\ Changes(p)[i] = L!Signed(p.entries[i]) /\ Changes(p)[i] \in Int
             /\ Fractions(p)[i] \in {0, 1}
             /\ Fractions(p)[i] = 0 => Whole(Changes(p)[i], Unit)
  <2> DEFINE n == p.entries[i].amount
  <2>1. Changes(p)[i] \in {n, -n} /\ Changes(p)[i] = L!Signed(p.entries[i])
    BY DEF Changes, L!Signed
  <2>2. Fractions(p)[i] = IF Whole(n, Unit) THEN 0 ELSE 1
    BY DEF Fractions, Fraction
  <2>3. n \in Int
    BY <1>4
  <2> HIDE DEF n
  <2>4. Whole(n, Unit) => Whole(-n, Unit)
    BY <2>3, UnitAssumption, WholePlus
  <2>5. QED
    BY <2>1, <2>2, <2>3, <2>4
<1>6. QED
  BY <1>2, <1>3, <1>4, <1>5

\* The entries of p for account a.
Of(p, a) == {i \in DOMAIN p.entries : p.entries[i].account = a}

\* What p adds to the balance of a, but for rounding, and how often it is rounded.
Net(p, a) == Sum(Changes(p), Of(p, a))
Rounded(p, a) == Sum(Fractions(p), Of(p, a))

\* Sums over entries are integers.
LEMMA EntrySums ==
    ASSUME NEW p \in Postings, NEW I, I \subseteq DOMAIN p.entries
    PROVE  /\ IsFiniteSet(I)
           /\ Sum(Changes(p), I) \in Int /\ Sum(Fractions(p), I) \in Int
<1>1. IsFiniteSet(I)
  BY EntriesOf, FS_Subset
<1>2. \A i \in I : Changes(p)[i] \in Int /\ Fractions(p)[i] \in Int
  BY EntriesOf
<1>3. QED
  BY <1>1, <1>2, SumInt

\* A posting that service.Post lets through adds nothing to the balances together, but for
\* rounding.
LEMMA ValidIsBalanced ==
    ASSUME NEW p \in Postings, L!Valid(p)
    PROVE  /\ Sum([a \in Accounts |-> Net(p, a)], Accounts) = 0
           /\ Sum([a \in Accounts |-> Rounded(p, a)], Accounts)
                  = Sum(Fractions(p), DOMAIN p.entries)
<1> DEFINE S == DOMAIN p.entries
           amount == [i \in S |-> p.entries[i].amount]
           side(d) == [i \in S |-> IF p.entries[i].direction = d THEN amount[i] ELSE 0]
           class == [i \in S |-> p.entries[i].account]
<1>1. IsFiniteSet(S)
  BY EntriesOf
<1>2. ASSUME NEW d \in {"DEBIT", "CREDIT"}
      PROVE  Sum(side(d), S) = L!Total(p, d) /\ Sum(side(d), S) \in Int
  <2> DEFINE B == {i \in S : p.entries[i].direction = d}
  <2>1. /\ \A i \in B : amount[i] \in Int /\ side(d)[i] = amount[i]
        /\ \A i \in S \ B : side(d)[i] = 0
        /\ \A i \in S : side(d)[i] \in Int
    BY EntriesOf
  <2>2. B \subseteq S
    OBVIOUS
  <2>3. L!Total(p, d) = Sum(amount, B)
    BY LedgerSum DEF L!Total
  <2> HIDE DEF B, S, amount, side
  <2>4. Sum(side(d), S) = Sum(amount, B)
    BY <1>1, <2>1, <2>2, SumWhere
  <2>5. QED
    BY <1>1, <2>1, <2>3, <2>4, SumInt
<1>3. \A i \in S : /\ Changes(p)[i] \in Int /\ side("DEBIT")[i] \in Int
                   /\ side("CREDIT")[i] = Changes(p)[i] + side("DEBIT")[i]
                   /\ Fractions(p)[i] \in Int
  BY EntriesOf DEF L!Signed
<1>4. \A i \in S : class[i] \in Accounts
  BY EntriesOf
<1>5. \A a : Of(p, a) = Members(class, S, a)
  BY DEF Of, Members
<1>6. /\ [a \in Accounts |-> Net(p, a)]
             = [a \in Accounts |-> Sum(Changes(p), Members(class, S, a))]
      /\ [a \in Accounts |-> Rounded(p, a)]
             = [a \in Accounts |-> Sum(Fractions(p), Members(class, S, a))]
  BY <1>5 DEF Net, Rounded
<1> HIDE DEF S, amount, side, class
<1>7. /\ Sum([a \in Accounts |-> Net(p, a)], Accounts) = Sum(Changes(p), S)
      /\ Sum([a \in Accounts |-> Rounded(p, a)], Accounts) = Sum(Fractions(p), S)
  BY <1>1, <1>3, <1>4, <1>6, FiniteAssumption, SumByClass
<1>8. Sum(side("CREDIT"), S) = Sum(Changes(p), S) + Sum(side("DEBIT"), S)
  BY <1>1, <1>3, SumPlus
<1>9. L!Total(p, "DEBIT") = L!Total(p, "CREDIT")
  BY DEF L!Valid
<1>10. Sum(Changes(p), S) \in Int
  BY <1>1, <1>3, SumInt
<1>11. Sum([a \in Accounts |-> Net(p, a)], Accounts) = 0
  BY <1>2, <1>7, <1>8, <1>9, <1>10
<1>12. QED
  BY <1>7, <1>11 DEF S

\* One step of the atomic ledger's balances.
AfterEntry(f, p, a, b, n) ==
    IF n = 0 THEN b
    ELSE IF p.entries[n].account = a THEN Stored(f[n - 1] + L!Signed(p.entries[n]), Unit)
                                     ELSE f[n - 1]

Steps(f, p, a, b, N) == f = [n \in 0..N |-> AfterEntry(f, p, a, b, n)]

\* There is a function that takes these steps, whatever their number.
LEMMA AfterExists ==
    ASSUME NEW p, NEW a, NEW b, NEW N \in Nat
    PROVE  \E f : Steps(f, p, a, b, N)
<1> DEFINE body(f, n) == AfterEntry(f, p, a, b, n)
           Good(m) == \E f : f = [n \in 0..m |-> body(f, n)]
           Bad == {m \in Nat : ~Good(m)}
<1>1. SUFFICES ASSUME Bad # {} PROVE FALSE
  BY DEF Steps
<1>2. PICK m \in Bad : \A k \in Bad : ~(k < m)
  <2>1. Bad \subseteq Nat
    OBVIOUS
  <2> HIDE DEF Bad
  <2>2. QED
    BY <1>1, <2>1, Least
<1>3. Good(0)
  <2> DEFINE g == [n \in 0..0 |-> b]
  <2>1. g = [n \in 0..0 |-> body(g, n)]
    BY DEF AfterEntry
  <2>2. QED
    BY <2>1
<1>4. m \in Nat /\ m # 0 /\ ~Good(m)
  BY <1>2, <1>3
<1>5. Good(m - 1)
  BY <1>2, <1>4
<1>6. PICK f : f = [n \in 0..(m - 1) |-> body(f, n)]
  BY <1>5
<1> DEFINE g == [n \in 0..m |-> IF n = m THEN body(f, m) ELSE f[n]]
<1>7. ASSUME NEW n \in 0..m PROVE g[n] = body(g, n)
  <2>1. n # 0 => g[n - 1] = f[n - 1]
    BY <1>4
  <2>2. body(g, n) = body(f, n)
    BY <2>1 DEF AfterEntry
  <2>3. CASE n = m
    BY <2>2, <2>3
  <2>4. CASE n # m
    <3>1. n \in 0..(m - 1)
      BY <2>4, <1>4
    <3> HIDE DEF body
    <3>2. f[n] = body(f, n)
      BY <1>6, <3>1
    <3>3. QED
      BY <2>2, <2>4, <3>2
  <2>5. QED
    BY <2>3, <2>4
<1>8. g = [n \in 0..m |-> body(g, n)]
  <2>1. g = [n \in 0..m |-> g[n]]
    OBVIOUS
  <2> HIDE DEF g, body
  <2>2. QED
    BY <1>7, <2>1
<1>9. Good(m)
  <2> HIDE DEF body, g
  <2>1. QED
    BY <1>8
<1>10. QED
  BY <1>4, <1>9

\* The atomic ledger's balances take them.
LEMMA AfterIs ==
    ASSUME NEW p \in Postings, NEW a, NEW b
    PROVE  /\ L!After(p, a, b)[0] = b
           /\ \A n \in DOMAIN p.entries :
                  L!After(p, a, b)[n] = AfterEntry(L!After(p, a, b), p, a, b, n)
<1>1. PICK N \in Nat : N = Len(p.entries) /\ DOMAIN p.entries = 1..N
  BY EntriesOf
<1> DEFINE P(f) == Steps(f, p, a, b, N)
<1>2. \E f : P(f)
  BY AfterExists
<1>3. L!After(p, a, b) = CHOOSE f : P(f)
  BY <1>1, LedgerStored DEF L!After, AfterEntry, Steps
<1> HIDE DEF P
<1>4. P(CHOOSE f : P(f))
  BY <1>2
<1>5. P(L!After(p, a, b))
  BY <1>3, <1>4
<1>6. \A n \in 0..N : L!After(p, a, b)[n] = AfterEntry(L!After(p, a, b), p, a, b, n)
  BY <1>5 DEF P, Steps
<1>7. QED
  BY <1>1, <1>6 DEF AfterEntry

\* Entries for other accounts leave it as it was.
LEMMA AfterNone ==
    ASSUME NEW p \in Postings, NEW a, NEW b, NEW k \in 0..Len(p.entries),
           \A i \in DOMAIN p.entries : i <= k => p.entries[i].account # a
    PROVE  L!After(p, a, b)[k] = b
<1> DEFINE Bad == {n \in 0..k : L!After(p, a, b)[n] # b}
<1>1. SUFFICES ASSUME Bad # {} PROVE FALSE
  <2>1. k \in 0..k
    BY EntriesOf
  <2>2. QED
    BY <2>1
<1>2. PICK n \in Bad : \A m \in Bad : ~(m < n)
  <2>1. Bad \subseteq Nat
    BY EntriesOf
  <2> HIDE DEF Bad
  <2>2. QED
    BY <1>1, <2>1, Least
<1>3. n # 0
  BY <1>2, AfterIs
<1>4. n \in DOMAIN p.entries /\ n - 1 \in 0..k /\ n \in Nat
  BY <1>2, <1>3, EntriesOf
<1>5. L!After(p, a, b)[n - 1] = b
  BY <1>2, <1>4
<1>6. L!After(p, a, b)[n] = L!After(p, a, b)[n - 1]
  <2>1. p.entries[n].account # a
    BY <1>2, <1>4
  <2>2. QED
    BY <1>3, <1>4, <2>1, AfterIs DEF AfterEntry
<1>7. QED
  BY <1>2, <1>5, <1>6

\* The balance a call sees is the committed one and what it has made of it itself.
LEMMA SeenIs ==
    ASSUME TypeOK, Busy, Locks, Pending, WholeBalances,
           NEW s \in Sessions, pc[s] = "entries", NEW a \in Accounts
    PROVE  /\ BalanceSeen(s, a) = L!After(req[s], a, balance[a])[next[s] - 1]
           /\ Within(BalanceSeen(s, a), balance[a] + Sum(Changes(req[s]), Done(s, a)),
                     Sum(Fractions(req[s]), Done(s, a)), Unit)
           /\ BalanceSeen(s, a) \in Int /\ balance[a] \in Int /\ Whole(BalanceSeen(s, a), Unit)
           /\ Sum(Changes(req[s]), Done(s, a)) \in Int
           /\ Sum(Fractions(req[s]), Done(s, a)) \in Int
<1>1. req[s] \in Postings
  BY DEF Busy
<1>2. Sum(Changes(req[s]), Done(s, a)) \in Int /\ Sum(Fractions(req[s]), Done(s, a)) \in Int
  BY <1>1, EntrySums DEF Done
<1>3. BalanceSeen(s, a) \in Int /\ balance[a] \in Int /\ Whole(BalanceSeen(s, a), Unit)
  BY DEF TypeOK, BalanceSeen, WholeBalances
<1>4. CASE a \in DOMAIN written[s]
  BY <1>2, <1>3, <1>4 DEF Pending, BalanceSeen
<1>5. CASE a \notin DOMAIN written[s]
  <2>1. Done(s, a) = {}
    BY <1>5 DEF Locks, Done
  <2>2. Sum(Changes(req[s]), Done(s, a)) = 0 /\ Sum(Fractions(req[s]), Done(s, a)) = 0
    BY <2>1, SumEmpty
  <2>3. BalanceSeen(s, a) = balance[a]
    BY <1>5 DEF BalanceSeen
  <2>4. Within(BalanceSeen(s, a), balance[a] + 0, 0, Unit)
    BY <1>3, <2>3, UnitAssumption DEF Within
  <2>5. next[s] - 1 \in 0..Len(req[s].entries)
    BY <1>1, EntriesOf DEF TypeOK, Locks
  <2>6. \A i \in DOMAIN req[s].entries :
            i <= next[s] - 1 => req[s].entries[i].account # a
    <3> SUFFICES ASSUME NEW i \in DOMAIN req[s].entries, i <= next[s] - 1
                 PROVE  req[s].entries[i].account # a
      OBVIOUS
    <3>1. i \in Nat /\ next[s] \in Nat
      BY <1>1, EntriesOf DEF TypeOK
    <3>2. i < next[s]
      BY <3>1
    <3>3. QED
      BY <1>5, <3>2 DEF Locks
  <2>7. L!After(req[s], a, balance[a])[next[s] - 1] = balance[a]
    BY <1>1, <2>5, <2>6, AfterNone
  <2>8. QED
    BY <1>2, <1>3, <2>2, <2>3, <2>4, <2>7
<1>6. QED
  BY <1>4, <1>5

\* An error of n roundings, and one more.
LEMMA WithinMore ==
    ASSUME NEW x \in Int, NEW y \in Int, NEW d \in Int, NEW n \in Int, NEW m \in Int, NEW z \in Int,
           Within(x, y, n, Unit), Within(z, x + d, m, Unit)
    PROVE  Within(z, y + d, n + m, Unit)
<1>1. Unit * (n + m) = Unit * n + Unit * m
  BY UnitAssumption
<1>2. PICK u \in Int, v \in Int : u = Unit * n /\ v = Unit * m
  BY UnitAssumption
<1>3. QED
  BY <1>1, <1>2 DEF Within

\* An UPDATE adds its entry to the balance the call sees, and rounds.
LEMMA ApplyEntryKeepsBalances ==
    ASSUME BalanceInv, NEW s \in Sessions, ApplyEntry(s)
    PROVE  Locks' /\ Pending' /\ WholeBalances'
<1>0. PICK c, f : c = Changes(req[s])[next[s]] /\ f = Fractions(req[s])[next[s]]
  OBVIOUS
<1> DEFINE p == req[s]
           i == next[s]
           a == CurrentEntry(s).account
<1>1. TypeOK /\ Busy /\ Locks /\ Pending /\ WholeBalances /\ pc[s] = "entries"
  BY DEF BalanceInv, ApplyEntry, HasEntry
<1>2. p \in Postings
  BY <1>1 DEF Busy
<1>3. /\ i \in DOMAIN p.entries /\ i \in Nat \ {0} /\ a = p.entries[i].account
      /\ a \in Accounts /\ c \in Int /\ f \in {0, 1} /\ (f = 0 => Whole(c, Unit))
      /\ c = L!Signed(CurrentEntry(s)) /\ c = Changes(p)[i] /\ f = Fractions(p)[i]
      /\ i + 1 <= Len(p.entries) + 1
  <2>1. i \in 1..Len(p.entries) /\ Len(p.entries) \in Nat
    BY <1>1, <1>2, EntriesOf DEF ApplyEntry, HasEntry, TypeOK
  <2>2. QED
    BY <1>0, <1>2, <2>1, EntriesOf DEF CurrentEntry
<1>4. PICK v, C, F : /\ v = BalanceSeen(s, a) /\ v = L!After(p, a, balance[a])[i - 1]
                    /\ C = Sum(Changes(p), Done(s, a)) /\ F = Sum(Fractions(p), Done(s, a))
                    /\ Within(v, balance[a] + C, F, Unit) /\ Whole(v, Unit)
                    /\ v \in Int /\ C \in Int /\ F \in Int /\ balance[a] \in Int
  <2> HIDE DEF a, i
  <2>1. QED
    BY <1>1, <1>3, SeenIs DEF i
<1> DEFINE new == Stored(v + c, Unit)
<1>5. new \in Int /\ Whole(new, Unit) /\ Within(new, v + c, f, Unit)
  <2>1. c \in Int /\ f \in {0, 1} /\ v \in Int
    BY <1>3, <1>4
  <2>2. PICK x \in Int : x = v + c
    BY <2>1
  <2>3. f = 0 => Whole(x, Unit)
    BY <1>3, <1>4, <2>1, <2>2, WholePlus, UnitAssumption
  <2>4. /\ Stored(x, Unit) \in Int /\ Whole(Stored(x, Unit), Unit)
        /\ Within(Stored(x, Unit), x, 1, Unit) /\ (f = 0 => Stored(x, Unit) = x)
    BY <2>3, StoredNear, UnitAssumption
  <2>5. Within(x, x, 0, Unit)
    BY UnitAssumption DEF Within
  <2>6. QED
    BY <2>1, <2>2, <2>4, <2>5
<1>6. written' = [written EXCEPT ![s] =
          [b \in DOMAIN written[s] \cup {a} |-> IF b = a THEN new ELSE written[s][b]]]
  BY <1>3, <1>4 DEF ApplyEntry
<1>7. /\ next' = [next EXCEPT ![s] = i + 1]
      /\ UNCHANGED <<open, balance, headers, rows, pc, req>>
      /\ \A t \in Sessions : t # s => a \notin DOMAIN written[t]
  BY <1>3 DEF ApplyEntry, committed, RowWaitsFor
<1>8. /\ new = L!After(p, a, balance[a])[i]
      /\ Within(new, balance[a] + Sum(Changes(p), Done(s, a) \cup {i}),
                Sum(Fractions(p), Done(s, a) \cup {i}), Unit)
  <2>1. IsFiniteSet(Done(s, a)) /\ i \notin Done(s, a)
    BY <1>2, EntrySums, <1>1 DEF Done, TypeOK
  <2>2. \A j \in Done(s, a) \cup {i} : Changes(p)[j] \in Int /\ Fractions(p)[j] \in Int
    BY <1>2, <1>3, EntriesOf DEF Done
  <2>3. PICK C2, F2 : /\ C2 = Sum(Changes(p), Done(s, a) \cup {i}) /\ C2 = C + c
                      /\ F2 = Sum(Fractions(p), Done(s, a) \cup {i}) /\ F2 = F + f
    <3> HIDE DEF a, i, p
    <3>1. /\ Sum(Changes(p), Done(s, a) \cup {i}) = Sum(Changes(p), Done(s, a)) + Changes(p)[i]
          /\ Sum(Fractions(p), Done(s, a) \cup {i})
                = Sum(Fractions(p), Done(s, a)) + Fractions(p)[i]
      BY <2>1, <2>2, SumAdd
    <3>2. QED
      BY <1>3, <1>4, <3>1
  <2>4. L!After(p, a, balance[a])[i] = new
    <3>1. L!After(p, a, balance[a])[i] = AfterEntry(L!After(p, a, balance[a]), p, a, balance[a], i)
      BY <1>2, <1>3, AfterIs
    <3>2. i # 0 /\ p.entries[i].account = a /\ L!Signed(p.entries[i]) = c
      BY <1>3 DEF CurrentEntry
    <3> HIDE DEF a, i
    <3>3. QED
      BY <1>4, <3>1, <3>2 DEF AfterEntry
  <2>5. PICK y \in Int : y = balance[a] + C /\ y + c = balance[a] + C2
    <3>1. c \in Int
      BY <1>3
    <3>2. QED
      BY <1>4, <2>3, <3>1
  <2> HIDE DEF new
  <2>6. Within(new, y + c, F + f, Unit)
    <3>1. c \in Int /\ f \in Int
      BY <1>3
    <3>2. Within(v, y, F, Unit)
      BY <1>4, <2>5
    <3>3. QED
      BY <1>4, <1>5, <3>1, <3>2, WithinMore
  <2>7. QED
    BY <2>3, <2>4, <2>5, <2>6
<1>9. ASSUME NEW t \in Sessions
      PROVE  /\ t # s => written'[t] = written[t] /\ next'[t] = next[t]
             /\ t = s => /\ DOMAIN written'[s] = DOMAIN written[s] \cup {a}
                         /\ next'[s] = i + 1 /\ written'[s][a] = new
                         /\ \A b \in DOMAIN written[s] : b # a => written'[s][b] = written[s][b]
  BY <1>1, <1>6, <1>7 DEF TypeOK
<1>10. ASSUME NEW b
       PROVE  /\ Done(s, b)' = IF b = a THEN Done(s, b) \cup {i} ELSE Done(s, b)
              /\ b # a => L!After(p, b, balance[b])[i] = L!After(p, b, balance[b])[i - 1]
  <2>1. \A j \in DOMAIN p.entries : j < i + 1 <=> j < i \/ j = i
    BY <1>1, <1>2, EntriesOf DEF TypeOK
  <2>2. Done(s, b)' = {j \in DOMAIN p.entries : j < i + 1 /\ p.entries[j].account = b}
    BY <1>7, <1>9 DEF Done
  <2>3. Done(s, b)' = IF b = a THEN Done(s, b) \cup {i} ELSE Done(s, b)
    BY <1>3, <2>1, <2>2 DEF Done
  <2>4. b # a => L!After(p, b, balance[b])[i] = L!After(p, b, balance[b])[i - 1]
    BY <1>2, <1>3, AfterIs DEF AfterEntry
  <2>5. QED
    BY <2>3, <2>4
<1> HIDE DEF new, a, i
<1>11. Locks'
  <2>1. ASSUME NEW t \in Sessions, pc[t] = "entries", NEW j \in DOMAIN req[t].entries, j < next'[t]
        PROVE  req[t].entries[j].account \in DOMAIN written'[t]
    <3>1. CASE t # s
      BY <1>1, <1>9, <2>1, <3>1 DEF Locks
    <3>2. CASE t = s
      <4>1. PICK b : b = req[s].entries[j].account
        OBVIOUS
      <4>2. j \in Done(s, b)'
        BY <1>7, <2>1, <3>2, <4>1 DEF Done
      <4>3. j \in Done(s, b) \/ b = a
        BY <1>10, <4>2
      <4>4. QED
        BY <1>1, <1>9, <3>2, <4>1, <4>3 DEF Locks, Done
    <3>3. QED
      BY <3>1, <3>2
  <2>2. \A t \in Sessions : pc[t] # "entries" => DOMAIN written'[t] = {}
    BY <1>1, <1>9 DEF Locks
  <2>3. \A t \in Sessions : pc[t] \in {"header", "header_only"} => next'[t] = 1
    BY <1>1, <1>9 DEF Locks
  <2>4. \A t, u \in Sessions : t # u => DOMAIN written'[t] \cap DOMAIN written'[u] = {}
    BY <1>1, <1>7, <1>9 DEF Locks
  <2>5. \A t \in Sessions : pc[t] = "entries" => next'[t] <= Len(req[t].entries) + 1
    BY <1>1, <1>3, <1>9 DEF Locks
  <2>6. QED
    BY <1>7, <2>1, <2>2, <2>3, <2>4, <2>5 DEF Locks
<1>12. Pending'
  <2>1. ASSUME NEW t \in Sessions, pc[t] = "entries", NEW b \in DOMAIN written'[t]
        PROVE  /\ written'[t][b] = L!After(req[t], b, balance[b])[next'[t] - 1]
               /\ Within(written'[t][b], balance[b] + Sum(Changes(req[t]), Done(t, b)'),
                         Sum(Fractions(req[t]), Done(t, b)'), Unit)
    <3>1. CASE t # s
      <4>1. Done(t, b)' = Done(t, b)
        BY <1>7, <1>9, <3>1 DEF Done
      <4>2. QED
        BY <1>1, <1>9, <2>1, <3>1, <4>1 DEF Pending
    <3>2. CASE t = s
      <4>1. next'[s] - 1 = i
        BY <1>3, <1>9
      <4>2. CASE b = a
        BY <1>8, <1>9, <1>10, <3>2, <4>1, <4>2
      <4>3. CASE b # a
        <5>1. b \in DOMAIN written[s] /\ written'[s][b] = written[s][b] /\ Done(s, b)' = Done(s, b)
          BY <1>9, <1>10, <2>1, <3>2, <4>3
        <5>2. L!After(p, b, balance[b])[i] = L!After(p, b, balance[b])[i - 1]
          BY <1>10, <4>3
        <5>3. written[s][b] = L!After(p, b, balance[b])[i - 1]
          BY <1>1, <5>1 DEF Pending, i
        <5>4. QED
          BY <1>1, <3>2, <4>1, <5>1, <5>2, <5>3 DEF Pending
      <4>4. QED
        BY <4>2, <4>3
    <3>3. QED
      BY <3>1, <3>2
  <2>2. QED
    BY <1>7, <2>1 DEF Pending, Changes, Fractions
<1>13. WholeBalances'
  BY <1>1, <1>5, <1>7, <1>9 DEF WholeBalances
<1>14. QED
  BY <1>11, <1>12, <1>13

\* A commit adds the whole posting to the balances, as the atomic ledger would.
LEMMA CommitAdds ==
    ASSUME BalanceInv, NEW s \in Sessions, pc[s] = "entries", ~HasEntry(s), Publish(s)
    PROVE  /\ \A a \in Accounts :
                 /\ balance'[a] = L!After(req[s], a, balance[a])[Len(req[s].entries)]
                 /\ Within(balance'[a], balance[a] + Net(req[s], a), Rounded(req[s], a), Unit)
                 /\ balance'[a] \in Int /\ Whole(balance'[a], Unit)
                 /\ Net(req[s], a) \in Int /\ Rounded(req[s], a) \in Int
           /\ \A i \in DOMAIN req[s].entries :
                 /\ rows'[req[s]][i] = rows[req[s]][i] + 1
                 /\ req[s].entries[i].account \in open
           /\ \A q \in Postings : q # req[s] => rows'[q] = rows[q]
<1>1. req[s] \in Postings /\ TypeOK /\ Busy /\ Locks /\ Pending /\ WholeBalances
  BY DEF BalanceInv, Busy
<1>2. (\A i \in DOMAIN req[s].entries : i < next[s]) /\ next[s] - 1 = Len(req[s].entries)
  <2>1. next[s] \in Nat /\ next[s] <= Len(req[s].entries) + 1
    BY <1>1 DEF TypeOK, Locks
  <2>2. QED
    BY <1>1, <2>1, EntriesOf DEF HasEntry
<1>3. ASSUME NEW a \in Accounts
      PROVE  /\ balance'[a] = L!After(req[s], a, balance[a])[Len(req[s].entries)]
             /\ Within(balance'[a], balance[a] + Net(req[s], a), Rounded(req[s], a), Unit)
             /\ balance'[a] \in Int /\ Whole(balance'[a], Unit)
             /\ Net(req[s], a) \in Int /\ Rounded(req[s], a) \in Int
  <2>1. Done(s, a) = Of(req[s], a)
    BY <1>2 DEF Done, Of
  <2>2. balance'[a] = BalanceSeen(s, a)
    BY DEF Publish
  <2>3. QED
    BY <1>1, <1>2, <2>1, <2>2, SeenIs DEF Net, Rounded
<1>4. ASSUME NEW i \in DOMAIN req[s].entries
      PROVE  /\ rows'[req[s]][i] = rows[req[s]][i] + 1
             /\ req[s].entries[i].account \in open
  BY <1>1, <1>2 DEF Publish, TypeOK, Locks
<1>5. \A q \in Postings : q # req[s] => rows'[q] = rows[q]
  BY <1>1 DEF Publish, TypeOK
<1>6. QED
  BY <1>3, <1>4, <1>5

\* A commit of a header without entries leaves balances and entries as they were.
LEMMA HeaderOnlyPublishes ==
    ASSUME BalanceInv, NEW s \in Sessions, pc[s] = "header_only", Publish(s)
    PROVE  UNCHANGED <<open, balance>> /\ \A q \in Postings : rows'[q] = rows[q]
<1>1. req[s] \in Postings /\ TypeOK /\ next[s] = 1 /\ DOMAIN written[s] = {}
  BY DEF BalanceInv, Busy, Locks
<1>2. balance' = balance
  BY <1>1 DEF Publish, BalanceSeen, TypeOK
<1>3. rows'[req[s]] = rows[req[s]]
  <2>1. rows'[req[s]] = [i \in DOMAIN req[s].entries |->
                           rows[req[s]][i] + (IF i < next[s] THEN 1 ELSE 0)]
    BY <1>1 DEF Publish, TypeOK
  <2>2. ASSUME NEW i \in DOMAIN req[s].entries
        PROVE  rows[req[s]][i] + (IF i < next[s] THEN 1 ELSE 0) = rows[req[s]][i]
    <3>1. i \in Nat \ {0} /\ rows[req[s]][i] \in Nat
      BY <1>1, EntriesOf DEF TypeOK
    <3>2. QED
      BY <1>1, <3>1
  <2>3. rows[req[s]] = [i \in DOMAIN req[s].entries |-> rows[req[s]][i]]
    BY <1>1 DEF TypeOK
  <2>4. QED
    BY <2>1, <2>2, <2>3
<1>4. \A q \in Postings : rows'[q] = rows[q]
  BY <1>1, <1>3 DEF Publish, TypeOK
<1>5. QED
  BY <1>2, <1>4 DEF Publish

\* What entry rows r add up to, each row of entry i of q counting w[q][i], over the entries
\* D[q] of q.
Tally(r, w, D) ==
    Sum([q \in Postings |->
            Sum([i \in DOMAIN q.entries |-> r[q][i] * w[q][i]], D[q])], Postings)

Countable(r, w, D) ==
    \A q \in Postings :
        /\ D[q] \subseteq DOMAIN q.entries
        /\ \A i \in DOMAIN q.entries : r[q][i] \in Nat /\ w[q][i] \in Int

\* Rows k are rows r and one more for each entry of p.
OneMore(r, k, p) ==
    /\ \A i \in DOMAIN p.entries : k[p][i] = r[p][i] + 1
    /\ \A q \in Postings : q # p => k[q] = r[q]

\* One more row for each entry of p.
LEMMA TallyGrows ==
    ASSUME NEW r, NEW k, NEW w, NEW D, NEW p \in Postings,
           Countable(r, w, D), OneMore(r, k, p)
    PROVE  /\ Tally(k, w, D) = Tally(r, w, D) + Sum(w[p], D[p])
           /\ Tally(r, w, D) \in Int /\ Sum(w[p], D[p]) \in Int
<1> DEFINE g(q) == [i \in DOMAIN q.entries |-> r[q][i] * w[q][i]]
           h(q) == [i \in DOMAIN q.entries |-> k[q][i] * w[q][i]]
           G == [q \in Postings |-> Sum(g(q), D[q])]
           H == [q \in Postings |-> Sum(h(q), D[q])]
<1> USE DEF Countable, OneMore
<1>1. ASSUME NEW q \in Postings
      PROVE  /\ IsFiniteSet(D[q]) /\ D[q] \subseteq DOMAIN q.entries
             /\ \A i \in D[q] : g(q)[i] \in Int
             /\ G[q] \in Int
  <2>1. IsFiniteSet(D[q]) /\ D[q] \subseteq DOMAIN q.entries
    BY EntrySums
  <2>2. ASSUME NEW i \in D[q] PROVE g(q)[i] \in Int
    <3>1. i \in DOMAIN q.entries /\ r[q][i] \in Nat /\ w[q][i] \in Int
      BY <2>1
    <3>2. QED
      BY <3>1
  <2> HIDE DEF g
  <2>3. QED
    BY <2>1, <2>2, SumInt
<1>2. H[p] = G[p] + Sum(w[p], D[p]) /\ Sum(w[p], D[p]) \in Int
  <2>1. ASSUME NEW i \in D[p]
        PROVE  h(p)[i] = g(p)[i] + w[p][i] /\ w[p][i] \in Int
    <3>1. i \in DOMAIN p.entries /\ r[p][i] \in Nat /\ w[p][i] \in Int /\ k[p][i] = r[p][i] + 1
      BY <1>1
    <3>2. (r[p][i] + 1) * w[p][i] = r[p][i] * w[p][i] + w[p][i]
      BY <3>1
    <3>3. QED
      BY <3>1, <3>2
  <2> HIDE DEF g, h
  <2>2. Sum(h(p), D[p]) = Sum(g(p), D[p]) + Sum(w[p], D[p])
    BY <1>1, <2>1, SumPlus
  <2>3. Sum(w[p], D[p]) \in Int
    BY <1>1, <2>1, SumInt
  <2>4. QED
    BY <2>2, <2>3
<1>3. \A q \in Postings \ {p} : G[q] = H[q]
  OBVIOUS
<1>4. Tally(r, w, D) = Sum(G, Postings) /\ Tally(k, w, D) = Sum(H, Postings)
  BY DEF Tally
<1> HIDE DEF g, h, G, H
<1>5. \A q \in Postings : G[q] \in Int /\ H[q] \in Int
  BY <1>1, <1>2, <1>3
<1>6. Sum(H, Postings) = Sum(G, Postings) + H[p] - G[p]
  <2>1. IsFiniteSet(Postings) /\ p \in Postings
    BY FiniteAssumption
  <2>2. QED
    BY <1>3, <1>5, <2>1, SumChange
<1>7. Sum(G, Postings) \in Int
  BY <1>5, FiniteAssumption, SumInt
<1>8. QED
  BY <1>2, <1>4, <1>5, <1>6, <1>7

\* No rows, nothing.
LEMMA TallyNone ==
    ASSUME NEW r, NEW w, NEW D,
           \A q \in Postings :
               /\ D[q] \subseteq DOMAIN q.entries
               /\ \A i \in DOMAIN q.entries : r[q][i] = 0 /\ w[q][i] \in Int
    PROVE  Tally(r, w, D) = 0
<1> DEFINE g(q) == [i \in DOMAIN q.entries |-> r[q][i] * w[q][i]]
           G == [q \in Postings |-> Sum(g(q), D[q])]
<1>1. ASSUME NEW q \in Postings PROVE Sum(g(q), D[q]) = 0
  <2>1. IsFiniteSet(D[q]) /\ D[q] \subseteq DOMAIN q.entries
    BY EntrySums
  <2>2. ASSUME NEW i \in D[q] PROVE g(q)[i] = 0
    <3>1. i \in DOMAIN q.entries /\ r[q][i] = 0 /\ w[q][i] \in Int
      BY <2>1
    <3>2. QED
      BY <3>1
  <2> HIDE DEF g
  <2>3. Sum(g(q), D[q]) = Sum(g(q), {})
    BY <2>1, <2>2, SumWhere
  <2>4. QED
    BY <2>3, SumEmpty
<1>2. \A q \in Postings \ {} : G[q] = 0
  BY <1>1
<1>3. Tally(r, w, D) = Sum(G, Postings)
  BY DEF Tally
<1> HIDE DEF G
<1>4. Sum(G, Postings) = Sum(G, {})
  BY <1>2, FiniteAssumption, SumWhere
<1>5. QED
  BY <1>3, <1>4, SumEmpty

\* The same rows, the same.
LEMMA TallySame ==
    ASSUME NEW r, NEW k, NEW w, NEW D, \A q \in Postings : r[q] = k[q]
    PROVE  Tally(r, w, D) = Tally(k, w, D)
BY DEF Tally

AllChanges == [p \in Postings |-> Changes(p)]
AllFractions == [p \in Postings |-> Fractions(p)]
EntriesFor(a) == [p \in Postings |-> Of(p, a)]
AllEntries == [p \in Postings |-> DOMAIN p.entries]

\* The sums of BalanceDerived and MoneyConserved, in r for the entry rows.
Derived(r, b) ==
    \A a \in Accounts :
        Within(b[a], Tally(r, AllChanges, EntriesFor(a)),
               Tally(r, AllFractions, EntriesFor(a)), Unit)

Conserved(r, b) == Within(Sum(b, Accounts), 0, Tally(r, AllFractions, AllEntries), Unit)

LEMMA TalliesAre ==
    /\ BalanceDerived <=> Derived(rows, balance)
    /\ BalanceDerived' <=> Derived(rows', balance')
    /\ MoneyConserved <=> Conserved(rows, balance)
    /\ MoneyConserved' <=> Conserved(rows', balance')
<1>1. \A q \in Postings : \A a : /\ AllChanges[q] = Changes(q) /\ AllFractions[q] = Fractions(q)
                                 /\ EntriesFor(a)[q] = Of(q, a)
                                 /\ AllEntries[q] = DOMAIN q.entries
  BY DEF AllChanges, AllFractions, EntriesFor, AllEntries
<1>2. ASSUME NEW r, NEW q \in Postings
      PROVE  /\ [i \in DOMAIN q.entries |-> r[q][i] * AllChanges[q][i]]
                    = [i \in DOMAIN q.entries |-> r[q][i] * L!Signed(q.entries[i])]
             /\ [i \in DOMAIN q.entries |-> r[q][i] * AllFractions[q][i]]
                    = [i \in DOMAIN q.entries |-> r[q][i] * Fraction(q.entries[i])]
  BY <1>1 DEF Changes, Fractions
<1>3. ASSUME NEW a
      PROVE  /\ Sum([p \in Postings |-> Booked(p, a)], Postings)
                    = Tally(rows, AllChanges, EntriesFor(a))
             /\ Sum([p \in Postings |-> Booked(p, a)'], Postings)
                    = Tally(rows', AllChanges, EntriesFor(a))
             /\ Sum([p \in Postings |-> Roundings(p, a)], Postings)
                    = Tally(rows, AllFractions, EntriesFor(a))
             /\ Sum([p \in Postings |-> Roundings(p, a)'], Postings)
                    = Tally(rows', AllFractions, EntriesFor(a))
  <2> DEFINE C(r, q) == Sum([i \in DOMAIN q.entries |-> r[q][i] * AllChanges[q][i]],
                            EntriesFor(a)[q])
             F(r, q) == Sum([i \in DOMAIN q.entries |-> r[q][i] * AllFractions[q][i]],
                            EntriesFor(a)[q])
  <2>1. ASSUME NEW q \in Postings
        PROVE  /\ Booked(q, a) = C(rows, q) /\ Booked(q, a)' = C(rows', q)
               /\ Roundings(q, a) = F(rows, q) /\ Roundings(q, a)' = F(rows', q)
    <3>1. C(rows, q) = Sum([i \in DOMAIN q.entries |-> rows[q][i] * L!Signed(q.entries[i])],
                           Of(q, a))
      BY <1>1, <1>2
    <3>2. C(rows', q) = Sum([i \in DOMAIN q.entries |-> rows'[q][i] * L!Signed(q.entries[i])],
                            Of(q, a))
      BY <1>1, <1>2
    <3>3. F(rows, q) = Sum([i \in DOMAIN q.entries |-> rows[q][i] * Fraction(q.entries[i])],
                           Of(q, a))
      BY <1>1, <1>2
    <3>4. F(rows', q) = Sum([i \in DOMAIN q.entries |-> rows'[q][i] * Fraction(q.entries[i])],
                            Of(q, a))
      BY <1>1, <1>2
    <3> HIDE DEF C, F
    <3>5. QED
      BY <3>1, <3>2, <3>3, <3>4 DEF Booked, Roundings, Of
  <2>2. \A r : /\ Tally(r, AllChanges, EntriesFor(a)) = Sum([q \in Postings |-> C(r, q)], Postings)
               /\ Tally(r, AllFractions, EntriesFor(a)) = Sum([q \in Postings |-> F(r, q)], Postings)
    BY DEF Tally
  <2> HIDE DEF C, F
  <2>3. /\ [q \in Postings |-> Booked(q, a)] = [q \in Postings |-> C(rows, q)]
        /\ [q \in Postings |-> Booked(q, a)'] = [q \in Postings |-> C(rows', q)]
        /\ [q \in Postings |-> Roundings(q, a)] = [q \in Postings |-> F(rows, q)]
        /\ [q \in Postings |-> Roundings(q, a)'] = [q \in Postings |-> F(rows', q)]
    BY <2>1
  <2>4. QED
    BY <2>2, <2>3
<1>4. /\ Sum([p \in Postings |-> RoundingsOf(p)], Postings)
                = Tally(rows, AllFractions, AllEntries)
      /\ Sum([p \in Postings |-> RoundingsOf(p)'], Postings)
                = Tally(rows', AllFractions, AllEntries)
  <2> DEFINE F(r, q) == Sum([i \in DOMAIN q.entries |-> r[q][i] * AllFractions[q][i]],
                            AllEntries[q])
  <2>1. ASSUME NEW q \in Postings
        PROVE  RoundingsOf(q) = F(rows, q) /\ RoundingsOf(q)' = F(rows', q)
    BY <1>1, <1>2 DEF RoundingsOf
  <2>2. \A r : Tally(r, AllFractions, AllEntries) = Sum([q \in Postings |-> F(r, q)], Postings)
    BY DEF Tally
  <2> HIDE DEF F
  <2>3. /\ [q \in Postings |-> RoundingsOf(q)] = [q \in Postings |-> F(rows, q)]
        /\ [q \in Postings |-> RoundingsOf(q)'] = [q \in Postings |-> F(rows', q)]
    BY <2>1
  <2>4. QED
    BY <2>2, <2>3
<1>5. QED
  BY <1>3, <1>4 DEF BalanceDerived, MoneyConserved, Derived, Conserved

\* What tallies are taken of.
LEMMA Weights ==
    ASSUME NEW a, NEW q \in Postings
    PROVE  /\ EntriesFor(a)[q] = Of(q, a) /\ EntriesFor(a)[q] \subseteq DOMAIN q.entries
           /\ AllEntries[q] = DOMAIN q.entries
           /\ AllChanges[q] = Changes(q) /\ AllFractions[q] = Fractions(q)
           /\ \A i \in DOMAIN q.entries : AllChanges[q][i] \in Int /\ AllFractions[q][i] \in Int
<1>1. \A i \in DOMAIN q.entries : Changes(q)[i] \in Int /\ Fractions(q)[i] \in Int
  BY EntriesOf
<1>2. QED
  BY <1>1 DEF EntriesFor, AllEntries, AllChanges, AllFractions, Of

\* The entry rows that a commit writes add the posting to what is booked.
LEMMA CommitBooks ==
    ASSUME BalanceInv, NEW s \in Sessions, pc[s] = "entries", ~HasEntry(s), Publish(s)
    PROVE  Derived(rows', balance') /\ Conserved(rows', balance')
<1>0. PICK p : p = req[s]
  OBVIOUS
<1>1. p \in Postings /\ TypeOK /\ L!Valid(p)
  BY <1>0 DEF BalanceInv, Busy, ValidCalls
<1>2. Derived(rows, balance) /\ Conserved(rows, balance)
  BY TalliesAre DEF BalanceInv
<1>3. /\ \A i \in DOMAIN p.entries : rows'[p][i] = rows[p][i] + 1
      /\ \A q \in Postings : q # p => rows'[q] = rows[q]
  BY <1>0, CommitAdds
<1>4. \A q \in Postings : \A i \in DOMAIN q.entries : rows[q][i] \in Nat
  BY <1>1 DEF TypeOK
<1>5. ASSUME NEW a \in Accounts
      PROVE  /\ Within(balance'[a], balance[a] + Net(p, a), Rounded(p, a), Unit)
             /\ balance[a] \in Int /\ balance'[a] \in Int
             /\ Net(p, a) \in Int /\ Rounded(p, a) \in Int
  BY <1>0, <1>1, CommitAdds DEF TypeOK
<1>10. ASSUME NEW w, NEW D, Countable(rows, w, D)
       PROVE  /\ Tally(rows', w, D) = Tally(rows, w, D) + Sum(w[p], D[p])
              /\ Tally(rows, w, D) \in Int
  <2>1. PICK r, k : r = rows /\ k = rows'
    OBVIOUS
  <2>2. Countable(r, w, D) /\ OneMore(r, k, p) /\ p \in Postings
    BY <1>1, <1>3, <1>10, <2>1 DEF OneMore
  <2>3. Tally(k, w, D) = Tally(r, w, D) + Sum(w[p], D[p]) /\ Tally(r, w, D) \in Int
    BY <2>2, TallyGrows
  <2>4. QED
    BY <2>1, <2>3
<1>6. ASSUME NEW a \in Accounts
      PROVE  Within(balance'[a], Tally(rows', AllChanges, EntriesFor(a)),
                    Tally(rows', AllFractions, EntriesFor(a)), Unit)
  <2>1. /\ Tally(rows', AllChanges, EntriesFor(a))
              = Tally(rows, AllChanges, EntriesFor(a)) + Net(p, a)
        /\ Tally(rows, AllChanges, EntriesFor(a)) \in Int
    <3>0. Countable(rows, AllChanges, EntriesFor(a))
      BY <1>4, Weights DEF Countable
    <3>1. /\ Tally(rows', AllChanges, EntriesFor(a))
                = Tally(rows, AllChanges, EntriesFor(a)) + Sum(AllChanges[p], EntriesFor(a)[p])
          /\ Tally(rows, AllChanges, EntriesFor(a)) \in Int
      BY <3>0, <1>10
    <3>2. QED
      BY <1>1, <3>1, Weights DEF Net
  <2>2. /\ Tally(rows', AllFractions, EntriesFor(a))
              = Tally(rows, AllFractions, EntriesFor(a)) + Rounded(p, a)
        /\ Tally(rows, AllFractions, EntriesFor(a)) \in Int
    <3>0. Countable(rows, AllFractions, EntriesFor(a))
      BY <1>4, Weights DEF Countable
    <3>1. /\ Tally(rows', AllFractions, EntriesFor(a))
                = Tally(rows, AllFractions, EntriesFor(a)) + Sum(AllFractions[p], EntriesFor(a)[p])
          /\ Tally(rows, AllFractions, EntriesFor(a)) \in Int
      BY <3>0, <1>10
    <3>2. QED
      BY <1>1, <3>1, Weights DEF Rounded
  <2>3. Within(balance[a], Tally(rows, AllChanges, EntriesFor(a)),
               Tally(rows, AllFractions, EntriesFor(a)), Unit)
    BY <1>2 DEF Derived
  <2>4. PICK x, y, d, n, m, z :
            /\ x = balance[a] /\ z = balance'[a] /\ d = Net(p, a) /\ m = Rounded(p, a)
            /\ y = Tally(rows, AllChanges, EntriesFor(a))
            /\ n = Tally(rows, AllFractions, EntriesFor(a))
    OBVIOUS
  <2>5. /\ x \in Int /\ y \in Int /\ d \in Int /\ n \in Int /\ m \in Int /\ z \in Int
        /\ Within(x, y, n, Unit) /\ Within(z, x + d, m, Unit)
    BY <1>5, <2>1, <2>2, <2>3, <2>4
  <2>6. Within(z, y + d, n + m, Unit)
    BY <2>5, WithinMore
  <2>7. QED
    BY <2>1, <2>2, <2>4, <2>6
<1>7. Within(Sum(balance', Accounts), 0, Tally(rows', AllFractions, AllEntries), Unit)
  <2> DEFINE net == [a \in Accounts |-> Net(p, a)]
             rounded == [a \in Accounts |-> Rounded(p, a)]
             exact == [a \in Accounts |-> balance[a] + Net(p, a)]
             err == [a \in Accounts |-> balance'[a] - (balance[a] + Net(p, a))]
  <2>1. \A a \in Accounts : /\ balance[a] \in Int /\ net[a] \in Int
                            /\ exact[a] = balance[a] + net[a]
                            /\ exact[a] \in Int /\ err[a] \in Int
                            /\ balance'[a] = exact[a] + err[a]
                            /\ rounded[a] \in Int
    BY <1>5
  <2>2. \A a \in Accounts : Within(err[a], 0, rounded[a], Unit)
    <3>1. SUFFICES ASSUME NEW a \in Accounts PROVE Within(err[a], 0, rounded[a], Unit)
      OBVIOUS
    <3>2. PICK u, v, m : /\ u = balance'[a] /\ v = balance[a] + Net(p, a) /\ m = Rounded(p, a)
                         /\ u \in Int /\ v \in Int /\ m \in Int
      BY <1>5
    <3>3. Within(u, v, m, Unit) /\ err[a] = u - v /\ rounded[a] = m
      BY <1>5, <3>2
    <3>4. QED
      BY <3>2, <3>3, UnitAssumption DEF Within
  <2>3. Sum(net, Accounts) = 0 /\ Sum(rounded, Accounts) = Sum(Fractions(p), DOMAIN p.entries)
    BY <1>1, ValidIsBalanced
  <2> HIDE DEF net, rounded, exact, err
  <2>4. Sum(exact, Accounts) = Sum(balance, Accounts) + Sum(net, Accounts)
    BY <2>1, FiniteAssumption, SumPlus
  <2>5. Sum(balance', Accounts) = Sum(exact, Accounts) + Sum(err, Accounts)
    BY <2>1, FiniteAssumption, SumPlus
  <2>6. Within(Sum(err, Accounts), 0, Sum(rounded, Accounts), Unit)
    BY <2>1, <2>2, FiniteAssumption, UnitAssumption, SumWithin
  <2>7. /\ Tally(rows', AllFractions, AllEntries)
              = Tally(rows, AllFractions, AllEntries) + Sum(rounded, Accounts)
        /\ Tally(rows, AllFractions, AllEntries) \in Int
    <3>0. Countable(rows, AllFractions, AllEntries)
      BY <1>4, Weights DEF Countable
    <3>1. /\ Tally(rows', AllFractions, AllEntries)
                = Tally(rows, AllFractions, AllEntries) + Sum(AllFractions[p], AllEntries[p])
          /\ Tally(rows, AllFractions, AllEntries) \in Int
      BY <3>0, <1>10
    <3>2. QED
      BY <1>1, <2>3, <3>1, Weights
  <2>8. PICK x \in Int, e \in Int, n \in Int, m \in Int :
            /\ x = Sum(balance, Accounts) /\ e = Sum(err, Accounts)
            /\ n = Tally(rows, AllFractions, AllEntries) /\ m = Sum(rounded, Accounts)
    BY <2>1, <2>7, FiniteAssumption, SumInt
  <2>9. Within(x, 0, n, Unit)
    BY <1>2, <2>8 DEF Conserved
  <2>10. PICK z \in Int, d \in Int : z = x + e /\ d = 0
    OBVIOUS
  <2>11. Within(z, x + d, m, Unit)
    BY <2>6, <2>8, <2>10, UnitAssumption DEF Within
  <2>12. Within(z, 0 + d, n + m, Unit)
    BY <2>8, <2>9, <2>10, <2>11, WithinMore
  <2>13. Sum(balance', Accounts) = z
    BY <2>3, <2>4, <2>5, <2>8, <2>10
  <2>14. QED
    BY <2>7, <2>8, <2>10, <2>12, <2>13
<1>8. QED
  BY <1>6, <1>7 DEF Derived, Conserved

\* A step that writes no entries and no balances keeps what is said of them.
LEMMA SameBooks ==
    ASSUME BalanceInv, balance' = balance, \A q \in Postings : rows'[q] = rows[q]
    PROVE  BalanceDerived' /\ MoneyConserved'
<1>1. Derived(rows, balance) /\ Conserved(rows, balance)
  BY TalliesAre DEF BalanceInv
<1>2. \A w, D : Tally(rows', w, D) = Tally(rows, w, D)
  BY TallySame
<1>3. Derived(rows', balance') /\ Conserved(rows', balance')
  BY <1>1, <1>2 DEF Derived, Conserved
<1>4. QED
  BY <1>3, TalliesAre

\* A commit keeps what is said of the balances, those of the other calls included.
LEMMA CommitKeepsBalances ==
    ASSUME BalanceInv, NEW s \in Sessions, Publish(s), NEW answer, Finish(s, answer),
           (pc[s] = "entries" /\ ~HasEntry(s)) \/ pc[s] = "header_only"
    PROVE  /\ Locks' /\ Pending' /\ WholeBalances' /\ ValidCalls'
           /\ BalanceDerived' /\ MoneyConserved'
<1>1. TypeOK /\ Busy /\ Locks /\ Pending /\ WholeBalances /\ ValidCalls
  BY DEF BalanceInv
<1>2. /\ UNCHANGED <<open, req, next>>
      /\ pc' = [pc EXCEPT ![s] = "idle"] /\ written' = [written EXCEPT ![s] = NoLocks]
      /\ balance' = [a \in Accounts |-> BalanceSeen(s, a)]
  BY DEF Publish, Finish
<1>3. ASSUME NEW t \in Sessions
      PROVE  /\ t # s => pc'[t] = pc[t] /\ written'[t] = written[t]
             /\ t = s => pc'[t] = "idle" /\ DOMAIN written'[t] = {}
  BY <1>1, <1>2 DEF TypeOK, NoLocks
<1>4. Locks'
  BY <1>1, <1>2, <1>3 DEF Locks
<1>5. ASSUME NEW t \in Sessions, t # s, NEW a \in DOMAIN written[t]
      PROVE  balance'[a] = balance[a]
  BY <1>1, <1>2, <1>5 DEF Locks, TypeOK, BalanceSeen
<1>6. Pending'
  <2>1. \A t \in Sessions : \A a : Done(t, a)' = Done(t, a)
    BY <1>2 DEF Done
  <2> SUFFICES ASSUME NEW t \in Sessions, pc'[t] = "entries", NEW a \in DOMAIN written'[t]
               PROVE  /\ written'[t][a] = L!After(req[t], a, balance'[a])[next[t] - 1]
                      /\ Within(written'[t][a], balance'[a] + Sum(Changes(req[t]), Done(t, a)),
                                Sum(Fractions(req[t]), Done(t, a)), Unit)
    BY <1>2, <2>1 DEF Pending, Changes, Fractions
  <2>2. t # s
    BY <1>3
  <2>3. written'[t] = written[t] /\ pc[t] = "entries" /\ balance'[a] = balance[a]
    BY <1>3, <1>5, <2>2
  <2>4. QED
    BY <1>1, <2>3 DEF Pending
<1>7. WholeBalances'
  BY <1>1, <1>2, <1>3 DEF WholeBalances, BalanceSeen
<1>8. ValidCalls'
  BY <1>1, <1>2, <1>3 DEF ValidCalls
<1>9. BalanceDerived' /\ MoneyConserved'
  <2>1. CASE pc[s] = "entries"
    BY <2>1, CommitBooks, TalliesAre
  <2>2. CASE pc[s] = "header_only"
    BY <2>2, HeaderOnlyPublishes, SameBooks
  <2>3. QED
    BY <2>1, <2>2
<1>10. QED
  BY <1>4, <1>6, <1>7, <1>8, <1>9

\* What the invariant says of balances nobody has booked yet.
LEMMA BalanceInit == Init => BalanceInv
<1> SUFFICES ASSUME Init PROVE BalanceInv
  OBVIOUS
<1>1. TypeOK /\ Busy
  BY MaxSubmitAssumption, NoPostingAssumption DEF Init, TypeOK, Busy, NoLocks
<1>2. Locks /\ Pending /\ ValidCalls
  BY DEF Init, Locks, Pending, ValidCalls, NoLocks
<1>3. WholeBalances
  <2>1. 0 = Unit * 0
    BY UnitAssumption
  <2>2. Whole(0, Unit)
    BY <2>1, UnitAssumption, WholeIs
  <2>3. QED
    BY <2>2 DEF Init, WholeBalances, NoLocks
<1>4. \A q \in Postings : \A i \in DOMAIN q.entries : rows[q][i] = 0
  BY DEF Init
<1>5. Within(0, 0, 0, Unit)
  BY UnitAssumption DEF Within
<1>6. \A a : /\ Tally(rows, AllChanges, EntriesFor(a)) = 0
             /\ Tally(rows, AllFractions, EntriesFor(a)) = 0
             /\ Tally(rows, AllFractions, AllEntries) = 0
  BY <1>4, Weights, TallyNone
<1>7. Derived(rows, balance)
  BY <1>5, <1>6 DEF Derived, Init
<1>8. Conserved(rows, balance)
  <2>1. \A a \in Accounts \ {} : balance[a] = 0
    BY DEF Init
  <2>2. Sum(balance, Accounts) = Sum(balance, {})
    BY <2>1, FiniteAssumption, SumWhere
  <2>3. QED
    BY <1>5, <1>6, <2>2, SumEmpty DEF Conserved
<1>9. QED
  BY <1>1, <1>2, <1>3, <1>7, <1>8, TalliesAre DEF BalanceInv

\* Every step keeps it.
LEMMA BalanceStep ==
    ASSUME BalanceInv, [Next]_vars
    PROVE  BalanceInv'
<1> DEFINE Calls == Locks /\ Pending /\ WholeBalances /\ ValidCalls
           Inv == Calls' /\ BalanceDerived' /\ MoneyConserved'
<1>1. TypeOK /\ Busy /\ Calls /\ BalanceDerived /\ MoneyConserved
  BY DEF BalanceInv
<1>2. TypeOK' /\ Busy'
  BY <1>1, TypeStep
<1>3. SUFFICES Inv
  BY <1>2 DEF BalanceInv
<1>4. ASSUME balance' = balance, rows' = rows, Calls' PROVE Inv
  <2>1. BalanceDerived' /\ MoneyConserved'
    BY <1>4, SameBooks
  <2>2. QED
    BY <1>4, <2>1
  \* The session changes of a step that makes no write.
<1>5. ASSUME UNCHANGED committed, NEW s \in Sessions,
             \A t \in Sessions \ {s} : /\ pc'[t] = pc[t] /\ req'[t] = req[t] /\ next'[t] = next[t]
                                       /\ written'[t] = written[t],
             pc'[s] # "entries" => DOMAIN written'[s] = {},
             pc'[s] \in {"header", "header_only"} => next'[s] = 1,
             pc'[s] = "entries" => /\ next'[s] = 1 /\ DOMAIN written'[s] = {}
                                   /\ req'[s] = req[s] /\ next'[s] = next[s],
             pc'[s] # "idle" => L!Valid(req'[s])
      PROVE  Inv
  <2> USE <1>1, <1>5
  <2>1. Locks'
    <3>1. pc'[s] = "entries" => next'[s] = 1
      OBVIOUS
    <3>2. pc'[s] = "entries" => \A i \in DOMAIN req'[s].entries : ~(i < next'[s])
      <4> SUFFICES ASSUME pc'[s] = "entries", NEW i \in DOMAIN req[s].entries PROVE ~(i < 1)
        BY <3>1
      <4>1. req[s] \in Postings
        BY <1>2 DEF Busy
      <4>2. i \in 1..Len(req[s].entries)
        BY <4>1, EntriesOf
      <4>3. QED
        BY <4>2
    <3>3. DOMAIN written'[s] = {}
      OBVIOUS
    <3>4. pc'[s] = "entries" => next'[s] <= Len(req'[s].entries) + 1
      <4> SUFFICES ASSUME pc'[s] = "entries" PROVE 1 <= Len(req[s].entries) + 1
        BY <3>1
      <4>1. req[s] \in Postings
        BY <1>2 DEF Busy
      <4>2. QED
        BY <4>1, EntriesOf
    <3>5. QED
      BY <3>2, <3>3, <3>4 DEF Locks
  <2>2. Pending'
    <3>1. SUFFICES ASSUME NEW t \in Sessions, pc'[t] = "entries", NEW a \in DOMAIN written'[t]
                   PROVE  /\ written'[t][a] = L!After(req'[t], a, balance'[a])[next'[t] - 1]
                          /\ Within(written'[t][a],
                                    balance'[a] + Sum(Changes(req'[t]), Done(t, a)'),
                                    Sum(Fractions(req'[t]), Done(t, a)'), Unit)
      BY DEF Pending, Changes, Fractions
    <3>2. t # s /\ balance' = balance
      BY <3>1 DEF committed
    <3>3. Done(t, a)' = Done(t, a)
      BY <3>2 DEF Done
    <3>4. QED
      BY <3>1, <3>2, <3>3 DEF Pending
  <2>3. WholeBalances'
    BY DEF WholeBalances, committed
  <2>4. ValidCalls'
    BY DEF ValidCalls
  <2>5. QED
    BY <1>4, <2>1, <2>2, <2>3, <2>4 DEF committed
<1> HIDE DEF Inv
<1>6. ASSUME NEW a \in Accounts, OpenAccount(a) PROVE Inv
  BY <1>1, <1>4, <1>6
     DEF OpenAccount, session, Locks, Pending, Changes, Fractions, Done, WholeBalances,
         ValidCalls
<1>7. ASSUME NEW s \in Sessions, NEW p \in Postings, Submit(s, p) PROVE Inv
  <2>1. DOMAIN written[s] = {}
    BY <1>1, <1>7 DEF Submit, Locks
  <2>2. QED
    BY <1>1, <1>5, <1>7, <2>1 DEF Submit, TypeOK
<1>8. ASSUME NEW s \in Sessions, NEW answer, Finish(s, answer), UNCHANGED committed PROVE Inv
  BY <1>1, <1>5, <1>8 DEF Finish, TypeOK, NoLocks
<1>9. ASSUME NEW s \in Sessions, pc[s] = "header",
             NEW after \in {"entries", "header_only"}, pc' = [pc EXCEPT ![s] = after],
             UNCHANGED <<committed, req, next, written>>
      PROVE  Inv
  <2>1. DOMAIN written[s] = {} /\ L!Valid(req[s]) /\ next[s] = 1
    BY <1>1, <1>9 DEF Locks, ValidCalls
  <2>2. QED
    BY <1>1, <1>5, <1>9, <2>1 DEF TypeOK
<1>10. ASSUME NEW s \in Sessions, ApplyEntry(s) PROVE Inv
  <2>1. Locks' /\ Pending' /\ WholeBalances'
    BY <1>10, ApplyEntryKeepsBalances
  <2>2. ValidCalls'
    BY <1>1, <1>10 DEF ApplyEntry, ValidCalls
  <2>3. QED
    BY <1>4, <1>10, <2>1, <2>2 DEF ApplyEntry, committed
<1>11. ASSUME NEW s \in Sessions, Publish(s), NEW answer, Finish(s, answer),
              (pc[s] = "entries" /\ ~HasEntry(s)) \/ pc[s] = "header_only"
       PROVE  Inv
  BY <1>11, CommitKeepsBalances DEF Inv
<1>12. CASE UNCHANGED vars
  <2>1. UNCHANGED <<open, balance, headers, rows, pc, req, next, inserted, written, reply>>
    BY <1>12 DEF vars, committed, session
  <2>2. Pending'
    <3>1. \A t \in Sessions : \A a : Done(t, a)' = Done(t, a)
      BY <2>1 DEF Done
    <3>2. QED
      BY <1>1, <2>1, <3>1 DEF Pending, Changes, Fractions
  <2>3. Locks' /\ WholeBalances' /\ ValidCalls'
    BY <1>1, <2>1 DEF Locks, WholeBalances, ValidCalls
  <2>4. QED
    BY <1>4, <2>1, <2>2, <2>3
<1>13. QED
  BY <1>6, <1>7, <1>8, <1>9, <1>10, <1>11, <1>12
     DEF Next, Step, InsertHeader, HeaderTakenForNew, HeaderDuplicate, HeaderIdTaken,
         AccountNotFound, Commit, CommitHeaderOnly, CommitUnacknowledged, DeadlockVictim,
         ConnectionLost, Rollback

\* The invariant holds in every reachable state.
LEMMA BalanceInvariant == Spec => []BalanceInv
<1>1. BalanceInv /\ [Next]_vars => BalanceInv'
  BY BalanceStep
<1>2. QED
  BY <1>1, BalanceInit, PTL DEF Spec

\* No UPDATE is lost: a balance is always what the committed entries add up to, within half
\* a cent for each of them that is not whole cents, whatever the interleaving, whether or
\* not ids are used again, and however they are spelled.
THEOREM NoUpdateIsLost == Spec => []BalanceDerived
<1>1. BalanceInv => BalanceDerived
  BY DEF BalanceInv
<1>2. QED
  BY <1>1, BalanceInvariant, PTL

\* Double entry: the committed balances add up to zero, within half a cent for each
\* committed entry that is not whole cents.  Nothing else makes or loses money.
THEOREM NoMoneyIsMade == Spec => []MoneyConserved
<1>1. BalanceInv => MoneyConserved
  BY DEF BalanceInv
<1>2. QED
  BY <1>1, BalanceInvariant, PTL

-----------------------------------------------------------------------------
(* The atomic ledger.  A call takes effect when it commits: all its entries  *)
(* at once, of a valid posting of open accounts whose key nobody has used.   *)

\* The entry rows alone say which postings the atomic ledger has applied.
LEMMA SameRowsApplied == rows' = rows => AppliedPostings' = AppliedPostings
BY DEF AppliedPostings

\* A commit is the atomic ledger's Post.
LEMMA CommitIsPost ==
    ASSUME FreshIds, OnceInv, BalanceInv, NEW s \in Sessions, pc[s] = "entries", ~HasEntry(s),
           Publish(s)
    PROVE  L!Next
<1>0. PICK p : p = req[s]
  OBVIOUS
<1>1. p \in Postings /\ L!Valid(p)
  BY <1>0 DEF BalanceInv, Busy, ValidCalls
<1>2. AppliedPostings' = AppliedPostings \cup {p}
  <2>1. ASSUME NEW q \in Postings, q # p
        PROVE  q \in AppliedPostings' <=> q \in AppliedPostings
    BY <1>0, <2>1, CommitAdds DEF AppliedPostings
  <2>2. p \in AppliedPostings'
    <3>1. 1 \in DOMAIN p.entries
      BY <1>1, EntriesOf DEF L!Valid
    <3>2. rows'[p][1] = rows[p][1] + 1
      BY <1>0, <3>1, CommitAdds
    <3>3. rows[p][1] \in Nat
      BY <1>1, <3>1 DEF BalanceInv, TypeOK
    <3>4. rows'[p][1] > 0
      BY <3>2, <3>3
    <3>5. QED
      BY <1>1, <3>1, <3>4 DEF AppliedPostings
  <2>3. AppliedPostings \subseteq Postings /\ AppliedPostings' \subseteq Postings
    BY DEF AppliedPostings
  <2>4. QED
    BY <1>1, <2>1, <2>2, <2>3
<1>3. ~L!KeyApplied(p)
  <2>1. SUFFICES ASSUME NEW q \in AppliedPostings, q.key = p.key PROVE FALSE
    BY DEF L!KeyApplied
  <2>2. HeaderOf(q) \in headers
    BY <2>1 DEF OnceInv, AppliedOnce, AppliedPostings
  <2>3. HeaderOf(q).key = p.key
    BY <2>1 DEF HeaderOf
  <2>4. inserted[s]
    BY DEF OnceInv, CallShape
  <2>5. QED
    BY <1>0, <2>2, <2>3, <2>4 DEF OnceInv, OneKeyHolder
<1>4. L!AccountsOf(p) \subseteq open
  BY <1>0, CommitAdds DEF L!AccountsOf
<1>5. /\ balance' = [a \in Accounts |-> L!After(p, a, balance[a])[Len(p.entries)]]
      /\ open' = open
  <2>1. balance' = [a \in Accounts |-> balance'[a]] /\ open' = open
    BY DEF Publish
  <2>2. \A a \in Accounts : balance'[a] = L!After(p, a, balance[a])[Len(p.entries)]
    BY <1>0, CommitAdds
  <2>3. QED
    BY <2>1, <2>2
<1>6. L!PostOutcome(p) = "applied"
  BY <1>1, <1>3, <1>4 DEF L!PostOutcome
<1>7. L!Apply(p)
  BY <1>2, <1>5 DEF L!Apply
<1>8. QED
  BY <1>1, <1>6, <1>7 DEF L!Next, L!Post

\* Every other step of a call changes nothing in the atomic ledger.
LEMMA RefinementStep ==
    ASSUME FreshIds, OnceInv, BalanceInv, [Next]_vars
    PROVE  [L!Next]_(L!vars)
<1> DEFINE Goal == [L!Next]_(L!vars)
<1> SUFFICES Goal
  OBVIOUS
<1>1. ASSUME UNCHANGED committed PROVE Goal
  BY <1>1, SameRowsApplied DEF committed, L!vars
<1>2. ASSUME NEW a \in Accounts, OpenAccount(a) PROVE Goal
  BY <1>2, SameRowsApplied DEF OpenAccount, L!OpenAccount, L!Next
<1>3. ASSUME NEW s \in Sessions, pc[s] = "entries", ~HasEntry(s), Publish(s) PROVE Goal
  BY <1>3, CommitIsPost
  \* With fresh ids nothing is committed without entries.
<1>4. ASSUME NEW s \in Sessions PROVE pc[s] # "header_only"
  BY DEF OnceInv, CallShape
<1> HIDE DEF Goal
<1>5. CASE UNCHANGED vars
  BY <1>1, <1>5 DEF vars, committed
<1>6. QED
  BY <1>1, <1>2, <1>3, <1>4, <1>5
     DEF Next, Step, Submit, InsertHeader, HeaderTakenForNew, HeaderDuplicate, HeaderIdTaken,
         ApplyEntry, AccountNotFound, Commit, CommitHeaderOnly, CommitUnacknowledged,
         DeadlockVictim, ConnectionLost, Rollback

\* With fresh ids, concurrent sessions behave as the atomic ledger, rounding included: each
\* Post takes effect at one moment, or not at all.
THEOREM ActsAsLedger == FreshIds => (Spec => ImplementsLedger)
<1> SUFFICES ASSUME FreshIds PROVE Spec => ImplementsLedger
  OBVIOUS
<1>1. Init => L!Init
  BY DEF Init, L!Init, AppliedPostings
<1>2. OnceInv /\ BalanceInv /\ [Next]_vars => [L!Next]_(L!vars)
  BY RefinementStep
<1>3. Spec => []OnceInv
  BY OnceInvariant
<1>4. Spec => []BalanceInv
  BY BalanceInvariant
<1>5. QED
  BY <1>1, <1>2, <1>3, <1>4, PTL DEF Spec, ImplementsLedger, L!Spec
=============================================================================
