# Verification of the banking platform

TLA+ specifications of the Go services under `src/`, the TLC configurations that
check them on small instances, and TLAPS proofs of what matters most for every
instance. `PROJECT.json` links each definition to the lines it translates and
lists the runs, the mutants, the hazards and the theorems.

## 1. The system

Some thirty services over one Postgres database, one Kafka cluster, Redis and S3.
Money moves in one place only, the double-entry ledger of `ledger-service`; the
services that move money call it over gRPC and keep a record of their own. Every
record that others want to hear of is written with an event in the shared
`outbox_events` table, which a relay in each replica publishes to Kafka; consumer
services turn the events into statements, notifications, counters and so on.

```
 client ──HTTP──> transaction / payment / wallet / loan / ... ──gRPC──> ledger
                        │ one SQL transaction                              │
                        ▼                                                  ▼
              own rows + outbox_events                       ledger_* rows (Postgres)
                        │ relay, one per replica
                        ▼
                      Kafka ──> statement, fraud, analytics, search, audit, ...
```

### Components, their state, and what makes them correct

| Component | State | Operations | Hard part | Correct when |
|---|---|---|---|---|
| ledger-service | accounts with a balance; transaction headers with a unique key; entries | OpenAccount, Post, Balance | concurrent sessions, row locks, unknown account half-way, lost commit answers | books balance and balances are the sum of entries, as far as cents allow; a key takes effect once; answers are true |
| transaction-service | transactions with a unique key; outbox | Deposit, Withdraw, Transfer | retries, also overlapping; failure between ledger and record; stale balance | money moves once per key; a record implies a movement, and has its event; replays agree |
| payment-service | payments with a unique key; outbox | Pay | as above, on the same ledger keys | a recorded payment is posted |
| wallet-service | wallets with a balance; transactions with a unique key; outbox | TopUp, Spend | check and update of a balance by two requests | balance never negative, and the sum of its rounded transactions; a key applies once |
| loan-service | loans with a status | Apply, Approve, Disburse | read, check, write without a guard; ledger in between | a loan is disbursed once; only what is pending is reviewed |
| emi-service | instalment plans | CreatePlan, PayNext | two payers choose one instalment; two plans | instalments are paid in order |
| fixed- / recurring-deposit, investment, kyc, card, support | rows with a status or a counter | create, close, deposit, buy, sell, review, block, resolve | read-modify-write of a whole row | states move forward and agree with the counters; rows go to their owners |
| account-service | bank accounts | Open, Balance | ledger account first, own row second | every bank account has its ledger account |
| auth-service | users; refresh tokens in Redis | Register, Login, Refresh, Logout | rotation against concurrent rotation and logout; equal tokens | the store holds what was issued and not revoked (steps only, no property) |
| authz-service | roles per subject | Check, AssignRole, ListRoles | connections of one pool | everyone is answered |
| document-service | rows; objects in S3 | RequestUpload, Delete | two stores without a transaction; URLs that stay valid | a deletion leaves no object without its row |
| customer, profile, beneficiary, admin, currency-exchange, email, sms | rows of their own | create, read, update, seed | concurrent creation, seeding at every start | rows go to their owners |
| pkg/outbox | `outbox_events` | Insert, Relay | relays of several replicas, failed and late calls, order of visibility | nothing lost; causes first |
| pkg/kafka | offsets of a consumer group | Publish, Consume | rebalances, crashes, failed handlers and commits | nothing passed over |
| statement, fraud, analytics, reports, search, notification, audit | rows or sums derived from events | Handle | redelivery, reordering, two replicas at one row | what the group has passed is in the store |
| cmd/main.go, pkg/httpserver, grpcserver, health, postgres, redis | listeners, readiness, pools, version tables | start, probe, stop | signals and failures at any call; shared database; draining | a probe that answers ready has reached the stores; a signal ends the process |
| api-gateway | none of its own | start, stop; proxy | | as above |
| frontend, deployment, template | | | the number of replicas and the client's retries are assumptions of the models | |

`PROJECT.json` lists every component with its status, and under `hazards`, at the
line where it bites, what in this code is hard to test.

## 2. The modules

| Module | Models | State and actions |
|---|---|---|
| `Ledger` | `ledger-service`, in-memory repository behind `service.Post` | `open`, `balance`, `applied` for the maps of `InMemory`; `OpenAccount`, `Post`. One mutex, hence one atomic step; a balance keeps what its column keeps. The abstract specification of the next module, and the ledger that `TransactionService` calls. |
| `LedgerPostgres` | the Postgres repository | one action per SQL statement of `Post` and per outcome of it; committed rows (`open`, `balance`, `headers`, `rows`) apart from what each session has written and not committed (`inserted`, `written`). Implements `Ledger`. |
| `Decimals` | what a `NUMERIC` column keeps of an amount | `Stored` (round to the column's step, halves away from zero), `Whole`, `Within`; used by the ledger, wallet and investment modules. |
| `Summation` | the sum of a function over a set | `Sum`, with which the ledger and its proofs state what books add up to. |
| `MoneyMovement` | what a money-moving service promises for one key | abstract: `Move`, then `Record`, each once per key. |
| `TransactionService` | `transaction-service` with its Postgres repository, several replicas | one action per call of a handler: `Replay`, `CheckFunds`, `OpenSystemAccount`, `PostToLedger`, then `Create` by statement: `InsertRecord`, `InsertEvent`, `Record` (the commit), with what is not committed in `newRecords` and `newEvents`; fault actions for every call. Implements `MoneyMovement`. |
| `Outbox` | `pkg/outbox` and the producer | the writers' transactions (`Begin`, `Commit`, `Abort`) and one relay per replica (`Poll`, `Publish`, `MarkSent` and their failures). |
| `Consumer` | the `pkg/kafka` consumer | the Consume loop of each replica (`FetchMessage`, `Handle`, `CommitMessages` and their failures), `Rebalance`, `Crash`. |
| `EventHandlers` | the seven services that record events | `Consumer` with a `stream` of messages and a `store` of rows and sums: what each service's `Handle` accepts and writes. |
| `Rows` | requests to a service that keeps rows | `rows`, `outside` (another system's state) and `call`, the next call of each request; one operator per statement of the repositories (`Insert`, `Load`, `Save`, `Upsert`, `Delete`, `Get`, `Select`). |
| `LoanService`, `EmiService`, `FixedDepositService`, `RecurringDepositService`, `InvestmentService`, `KycService`, `AccountService`, `CustomerService`, `CardService`, `SupportService`, `BeneficiaryService`, `ProfileService`, `AdminService`, `WalletService`, `AuthService`, `AuthzService`, `DocumentService`, `PaymentService`, `MessageService`, `ExchangeService` | the service of that name (`MessageService`: email and sms; `ExchangeService`: currency-exchange) | the table's type, `Request` (the routes), one action per function of the service, divided at its calls, `Repository` (every call of it) |
| `RowServices` | the above, one per behaviour | `Init` chooses the service; the properties. |
| `Services` | run() of the 31 services' `cmd/main.go` | each program as the sequence of its calls from start to end; `ServiceNames`. |
| `Lifecycle` | a process running one of these programs | run() call by call with its defers, the servers' goroutines, readiness and a probe of it (`probe`), users of the pool, stores that come and go, signals, failures, kills and restarts. |

`MCLedgerPostgres`, `MCTransactionService`, `MCEventHandlers` and `MCLifecycle`
give the postings, requests, messages and the neighbouring service of the runs;
`Outbox`, `Consumer` and `RowServices` need only small sets, so their `.cfg` files
instantiate them directly. `LedgerPostgresProofs`, `TransactionServiceProofs`,
`OutboxProofs`, `ConsumerProofs`, `EventHandlersProofs`, `RowServicesProofs` and
`LifecycleProofs` hold the theorems, `SumLemmas` what they need of sums.

In the modules, a definition whose comment begins "Bug variant of" is never used:
it is a plausible mistake in the definition that follows it, and the mutants of
`PROJECT.json` put it in that definition's place to show that the property would
notice.

### How the models stand to the code

*LedgerPostgres.* A transaction at READ COMMITTED sees committed rows, and its own.
`INSERT ... ON CONFLICT (idempotency_key) DO NOTHING` waits for an uncommitted row
with the same key or id, then inserts, does nothing or fails on the primary key;
the `SELECT id` after it tells a duplicate by an id that is not the caller's.
`UPDATE ... SET balance = balance ± amount` waits for the row's writer and works
on the value it left. An `UPDATE` of no row is `AccountNotFound`, and the deferred
`Rollback` undoes everything. Any session may lose its connection at any point,
may lose only the answer to its commit, and may be the victim of the deadlock
detector. The insert of an entry row follows its UPDATE under the same row lock
and cannot block, so the two are one step. `service.Post` looks at an amount's sign and
not at its scale, and `NUMERIC(38,2)` rounds: every `UPDATE` keeps `Stored` of the
sum. `Unit` is the number of amount units in a cent; the runs have `Unit = 2`, so that
an odd amount ends in half a cent. The id column is a `UUID`: what the `SELECT` returns
is the canonical spelling, which is compared with the caller's text. A posting is
`canonical` or not; one that is not is taken for a duplicate of the header it has just
inserted, which is committed without entries (`CommitHeaderOnly`).

*TransactionService.* A request is known by its idempotency key; an attempt is one
run of the handler. Attempts of one request may overlap: that is a client that
retries while the first call still runs, or a load balancer with two replicas.
Each call to the repository or the ledger is a step, the ledger is atomic (which
`LedgerPostgres` shows it may be taken for when callers use fresh transaction ids,
as this service does). `AbandonPost` and `OrphanedPost` are a call whose caller
gave up while the ledger was working: it takes effect later or never. `Create` is a
transaction of statements: the record's `INSERT` waits for an uncommitted one with the
same key, the event's follows, then the commit; each can fail, be cut off by a crash,
or (the commit) take effect without an answer. The record's own rounded amount is read
by no decision and not kept apart from the request's.

*Outbox.* `created_at` is `now()`, in Postgres the start of the transaction, so
events are numbered by when their transactions began. `Publish` that fails may
have sent the message, and the message may be appended at any later time
(`adrift`). A crash of a replica is a failure of the call it was in: the new relay
starts with a new poll, which is what `Stop` leads to.

*Consumer.* One partition; `position` is what a reader would fetch next,
`committed` the group's offset. `kafka-go` lets a replica that lost the partition
finish its message and commit it, so `committed` may also move back. `Crash` and
`Rebalance` make the new owner resume at `committed`.

*EventHandlers.* A step of the loop that adds rows writes the store in the same
step: the handlers make one statement, or one transaction. New row ids are the
message and the number of its delivery. Amounts count thousands, as the fraud rules
do; a message may be malformed or lack its amount, its type or its date. `Accepted`
says what becomes of such a message: search answers an error for a malformed one, and
so does audit over Postgres, whose payload column is `JSONB NOT NULL`; notification
keeps it, the others drop it.

*Rows and the services.* A request runs up to its next call of the repository, the
ledger, the session store or S3 in one step: between two calls it works on copies
of its own. Any call may fail (`Fail`), which is also what a crash does to a
request. Repositories are modelled at the statement: single statements and the
in-memory sections under the mutex are atomic, as are the transactions of
`SaveSchedule`, wallet's `Apply` and payment's `Create`. `LoanService` and the
other modules share the variables of `Rows`; `outside` is, depending on the
service, the ledger's postings or accounts, the outbox, tokens, or objects and URLs. In-memory and Postgres repositories behave alike
except in wallet, payment, customer, support and authz; there Postgres is modelled.
Customers, keys, currencies and symbols are members of the same small sets, as the
head of each module says. The balance and the amounts of wallet are `NUMERIC(38,2)`,
the units of investment `NUMERIC(38,4)`, and neither service looks at the scale of what
it is asked for: `Unit` amount units make a step of the column, `Asked` are the amounts
in requests, and what is written is `Stored`. Input that is refused before the first call (an
empty name, a bad number) leaves no trace and is left out.

*Lifecycle.* Calls that cannot touch another part of the model are one action
(`Prepare`), and a call whose option is switched off is passed over (`Skip`). A probe
copies the flag and the list of checks, then pings one store after another; between two
of its steps a store may go down or come back, and the service may drain, close its
clients or be killed. The stores that have checks are Postgres and Redis; no service
registers one for S3, Kafka or the connection to the ledger. Each server, the relay and the consumers have one user of the pool
that is idle or in a query; `pool.Close` waits for those in a query. `StartFails`
lets every call that can answer an error do so. The container restarts the process
after every exit. The restart keeps the database and its version tables.

## 3. What is checked

| Run | Shows | Bounds |
|---|---|---|
| `ledger_postgres` | `AppliedOnce`, `BalanceDerived`, `MoneyConserved`, `RepliesTruthful`, and that the repository implements `Ledger` | 3 sessions, 6 postings with ids of their own: a retry under a fresh id, two writers of each row, one row updated twice, amounts of half a cent, an unopened account, an unbalanced posting; `Unit = 2` |
| `ledger_postgres_live` | every `Post` is answered, deadlocks included; balances (`BalanceDerived`) and answers (`RepliesTruthful`) are right although callers choose ids, spell them their own way, and submit ids and keys twice | 2 sessions, 4 postings submitted twice: opposite transfers of half cents, one id in two spellings, one id under two keys; `Unit = 2` |
| `transaction` | `RecordedIsPosted`, `EventPerRecord`, `SuccessesAgree`, how far overlapping attempts can overdraw (`OverdraftBounded`), and that the service implements `MoneyMovement` | 3 requests, 2 attempts each, 2 in flight, 2 faults at any call or statement; `Unit = 2`, amounts up to 4 |
| `transaction_sequential` | a deposit that moved money gets recorded (`DepositsComplete`) | 3 requests, 3 attempts each, 1 in flight, 1 fault |
| `outbox` | `SentIsPublished`, `CausesFirst`, `EveryEventSent` | 3 events, 2 relays, batch of 2, 1 fault |
| `consumer` | `PassedIsHandled`, `SettledIsRecorded`, `EveryMessageSettled` for each of seven services | 2 replicas, 3 streams of 2 messages (readable, malformed, incomplete, of one bucket and of two), 2 rebalances or crashes, 1 call failure, any number of handler failures |
| `lifecycle` | `QueriesFindTables`, `ReadyMeansReachable`, `StopsAfterSignal` for each of 31 services | one process, one user of each kind, one probe, all options on or without gRPC and Kafka; failures, lost stores, signals, kills and restarts without bound |
| `records` | the nine properties below, for 20 services | 2 requests at a time, without bound on how many follow, 2 customers and staff, 2 ids, quantities up to 2, amounts of a quarter, a half and a whole step of their column, failures without bound |
| `transaction_retry` | *violated*: "the same key replays the original result" | one withdrawal, one fault |
| `consumer_skip` | *violated*: an error of the handler "leaves the message uncommitted so it is redelivered" | one replica, one failure |
| `authz_pool` | *violated*: "ListRoles returns all defined roles with their permissions" | as `records`, a pool of 2 connections, no failures |
| `loan_review` | *violated*: "Approve transitions a loan from PENDING to APPROVED" | as `records` |

The properties of `records`, each about the services it names: no answer carries
another customer's row although the owner is compared in a call of its own
(`AnswersAreOwn`); a disbursed loan is posted, and no loan twice
(`DisbursedIsPostedOnce`); instalments are paid in order, with two payers and two
plans (`PaidInOrder`); a recurring deposit is matured exactly when it is paid up,
whoever overwrites whom (`MaturedWhenPaid`); accounts exist in the ledger
(`AccountsAreInLedger`); a wallet's balance is never negative and is the sum of its
recorded transactions, plus a cent for each spend that ended in half a cent, each key
once, each with its event (`BalancesAddUp`); a deletion leaves no object behind
(`ObjectsHaveRows`); a
recorded payment is posted (`PaymentsArePosted`); and a reviewed or closed row is
never pending or active again (`NeverReopened`).

*What rounding does to the properties.* `BalanceDerived` and `MoneyConserved` are exact
while amounts are whole cents. For others the exact statement is false: a transfer of
0.005 between two accounts of whole cents takes nothing from one (−0.005 + 1.00 is
rounded up to 1.00) and gives 0.01 to the other. What holds, and is checked and proved,
is that each entry that is not whole cents moves its balance from the entries' sum by
half a cent at the most, so that nothing else is lost or made. `RepliesTruthful`
makes one exception, for a posting whose id is spelled otherwise than Postgres prints it.
`OverdraftBounded` says what the overdraft check is worth when attempts overlap: it
reserves nothing, so all attempts in flight but one can overdraw an account, and no
more than they.

*Why the bounds are enough to be of interest.* A step of two units has an amount that is
exactly half of it; one of four has one below the half as well. Two sessions can deadlock, collide
on a key or on a row; the third waits for both or takes the place of a rolled-back
one. Two attempts in flight are what a race needs, a third finds what both left.
Three events with a batch of two leave a row to the next poll while an earlier
one is in doubt. Two messages let an offset be committed late, over the commit of
the replica that came after. In `records` a request becomes idle and another takes
its slot, so two slots give every interleaving of two requests after any history
of earlier ones; two ids let a row be confused with another, two customers an owner
with another. The proofs remove the bounds from the safety properties where they
exist (section 4).

*Fairness.* `LedgerPostgres`: each session's statement is eventually executed (Postgres
runs what it is sent, and its detector breaks deadlocks); nothing forces a caller
to submit or a connection to fail. `TransactionService`: a handler that is not
interrupted runs on, and the client sends its attempts — the property is about
clients that retry more often than calls fail, hence `MaxFaults < MaxAttempts`.
`Outbox`: the ticker of `Run` fires again and again, so polls happen and calls
return; faults are finitely many. `EventHandlers`: a loop runs, calls return, and a
handler answers, with an error where it must. `Lifecycle`: run() goes on, the
shutdown timeout expires, and queries end; that a request is ever answered is not
assumed, which is what the timeout is for. `RowServices` has fairness in
`HealthySpec` only: calls that can be made are made and answers are written. All of
it is weak fairness of the program's own steps and the clock, never of a fault.
`CHECK_DEADLOCK FALSE` is given where a finite number of events or messages runs
out, and in `authz_pool`, whose subject is everyone waiting.

*What the violations say.* Each is quoted under `findings`.

* A retried withdrawal whose money has already moved is answered
  `insufficient_funds` for good.
* A message on which a handler fails is lost to its group as soon as the next one
  is committed.
* Requests that list roles each keep a connection of the pool and wait for
  another one; as many of them as the pool has connections stop the service.
* A review of a loan that read `PENDING` is written over whatever happened in
  between, a disbursement included: the money has moved and the loan is `REJECTED`.

*Other behaviour that a reader of the code might not expect*, which the models have
and no property excludes: the same id and key submitted again to the Postgres ledger
is applied again (the services mint an id per attempt); one whose id is not in
canonical spelling commits a header without entries, and everything under its key is
answered as a duplicate from then on, although `postgres.go:40` says that an existing
key was applied already; transfers of half a cent make money; a wallet spend of 0.005
is recorded as 0.01 and takes nothing; an investment holding can have zero units;
withdrawals that overlap overdraw; a failed update of `sent_at`
publishes an event twice; one failed commit or fetch ends a consumer loop, which
keeps its partition in a process that stays ready; redelivered events add
rows and sums again; a starting replica of admin-service sets the defaults over
staff's settings; support-service's list without a limit is empty over Postgres
(`LIMIT 0`) and complete in memory; deposits, purchases and updates of one customer
record that overlap are lost; two refresh tokens issued in one second are one string,
which a late deletion of the first revokes; the flag and the stores may be gone by the
time a probe's 200 is written;
two payers are told they paid one instalment; an account may exist in the ledger
only; an object may be put after its document was deleted.

## 4. What is proved

For every value of the constants, by TLAPS: every invariant of the passing runs, the
action property `NeverReopened`, and that `LedgerPostgres` and `TransactionService`
implement their abstract specifications. The assumptions are the named
`ASSUME`s of the modules, which TLC evaluates in every run, and the hypotheses named
below, which the runs that check the property satisfy.

**`LedgerPostgresProofs`.** Any number of sessions, accounts and postings.

* `TypeCorrect`. `PostedOnce` (`AppliedOnce`), under `FreshIds`: every posting has a
  canonical id of its own and is submitted once. The hypothesis is needed, since the
  same id and key are applied again, and an id spelled otherwise leaves a header without
  entries; `service.Post` and the calling services meet it by minting an id per
  attempt. The invariant adds that a call between header and commit holds the only
  header under its key. `RepliesAreTruthful` needs no hypothesis: a committed canonical
  header has its entries whoever has used the id before.
* `NoUpdateIsLost` (`BalanceDerived`) and `NoMoneyIsMade` (`MoneyConserved`), without
  hypotheses: any `Unit`, any amounts, ids used again or not and spelled in any way.
  Neither is inductive. The invariant `BalanceInv` adds the lock discipline (`Locks`: no
  row is written by two sessions, and a call holds the rows of the entries it has
  applied) and what an uncommitted row contains (`Pending`: the committed balance and
  the call's own entries so far, each rounded as it was added). A commit then adds to
  each balance what it adds to the entries, within half a cent per rounding, and to all
  of them together zero within the same, because the service only lets balanced
  postings through.
* `ActsAsLedger` (`ImplementsLedger`), under `FreshIds`: the commit that takes
  effect is the abstract `Post`, rounding included, every other statement a stutter. It
  follows from `Locks`, `Pending` and the theorems before.

**`TransactionServiceProofs`.**

* `TypeCorrect`, `ServiceTypeCorrect`, `OutboxIsTransactional` (`EventPerRecord`),
  `SuccessesDoAgree` (`SuccessesAgree`), `RecordsAreHonest` (`RecordedIsPosted`, under
  `OneRequestPerKey`) and `MovesMoneyOnce` (`ImplementsMoneyMovement`). The strengthening
  is that an attempt about to record has its key in the ledger: money moves before
  `InsertRecord` is reachable. For the outbox it says which of the record and its event an
  attempt holds uncommitted at each statement, so that only the commit shows them, together.
* `OverdraftIsBounded` (`OverdraftBounded`), for any number of attempts in flight and any
  amounts. The balance is read in one call and spent in a later one; the invariant
  `FundsInv` takes from each balance what all attempts past their check can still spend,
  those included that were given up and post late: what is left is no less than the
  bound. With one attempt in flight nobody is overdrawn.

**`OutboxProofs`.** `OutboxTypeCorrect`, `NothingLost` (`SentIsPublished`) and
`CausesComeFirst` (`CausesFirst`), for any number of relays, any batch, and messages
that arrive late. The invariant says, for each place an event can be in (a batch,
adrift, the topic), where its causes must be then.

**`ConsumerProofs`.** `ConsumerTypeCorrect` and `NothingPassedOver` (`PassedIsHandled`).
The invariant bounds each reader's position by what has been settled below it.

**`EventHandlersProofs`.** `HandlersPassNothing`: `EventHandlers` implements `Consumer`, step by
step, so every consuming service passes nothing over, whatever its streams.
`RecordedOnceSettled` (`SettledIsRecorded`): the rows of a message that took effect stay
in the store under the number of its first delivery, and a sum counts at least the
messages of its bucket (`StoreInv`), since a redelivery may add again and never takes away. A message that the handler refuses
is failed on, which the property says.

**`RowServicesProofs`.** Ten theorems, one for each property of `records` and the types,
for all services, any number of requests, customers and ids. Each service has an
invariant of its own (`LoanInv`, `EmiInv`, ...: what its rows are and what a request
between two calls holds) and a lemma that its steps keep it; `RowInv` is the one of the
service that runs. What makes the properties inductive, for example: a loan about to
be written as disbursed has its posting in the ledger; all instalments before the one
a payer is about to mark are paid, and stay so; the copy of a recurring deposit that a
request holds agrees with itself (matured exactly when it is paid up), whichever
state of the row it was read in; the key of a payment about to be recorded is
posted; the object of a document whose row is about to go is gone; a wallet's balance
is a whole number of cents, and so adding a transaction to it changes it by what is
recorded, plus a cent when a spend ends in half of one (`StoredSum`).
`MaxCountAssumption`, `AmountAssumption` and `ServicesAssumption` are all that is assumed.

**`LifecycleProofs`.** `LifecycleTypeCorrect`, `TablesAreThere` (`QueriesFindTables`) and
`ReadyIsReachable` (`ReadyMeansReachable`), for any set of the services, and
whatever options are off. First, `Programs`: each of the 31 programs is
`Ordered` — migrations follow at once on the pool, nothing is opened after the first
server, relay or consumer is started, each server is started once, and what is opened is
checked. The invariant then speaks of the calls that are left: nothing runs
while something is to be opened (`QuietInv`); a pool whose tables are missing has
its migrations as the next call, or run() returns (`MigratedInv`); a store in use is
among the checks before a server answers (`CheckedInv`); and a probe that is still
healthy has reached every check that it no longer has before it (`ProbeInv`). A service whose run() were put
in another order would fail at `Programs`, not at the protocol. `ReadyIsReachable` speaks of what the
probe itself saw, not of the moment its answer arrives.

**`SumLemmas`.** What sums over finite sets do when an element comes, goes or changes. `Sum`
takes elements in the order of a `CHOOSE`, and the lemmas show that the order
does not matter; in place of induction they take a smallest set for which a lemma
would fail and remove one element of it. The module also has what rounding does:
`StoredNear` (by half a step at the most), `StoredAbove` (a whole bound stays one) and
`StoredSum`.

*Only model-checked:* what depends on fairness, which the provers do not
reach — the answers of `ledger_postgres_live` (`EveryPostAnswered`), `DepositsComplete`,
`EveryEventSent`, `EveryMessageSettled` and `StopsAfterSignal` — and that the four
violated statements are violated, for which a behaviour is the better witness.

## 5. What is not modelled

* Requests without an idempotency key (nothing to replay: each is a request of
  its own), and the in-memory repositories of transaction, payment and wallet,
  which are for development; wallet's does not look at the key in `Apply`.
* Currencies of postings: nothing in the code compares the currency of a posting with
  that of an account (listed as a hazard); one currency is modelled.
* Arithmetic: interest, instalment and maturity amounts, average prices and
  conversions are left out of the services' modules, and `pkg/money` is not called
  by any of them.
* Kafka's, Postgres', Redis' and S3's own guarantees are assumed as described in
  section 2 and marked `external` in the map.
* The gateway's routing, token check and rate limiter, the HTTP middleware, tokens'
  signatures, passwords, logging, metrics and tracing; generated code (`src/proto`).
* The expiry of refresh tokens and of other dates: `AuthService` deletes a token only on
  request, and no property is stated about tokens.
* Which row a customer creates first, and that there is only one: the unique column
  decides it in one statement, which is modelled as such and not stated as a property.
* That a payment whose posting is answered as a duplicate gets its row in the end: a
  retry may be answered `insufficient_funds`, as in transaction-service.
* Payments and transactions in one module: `PaymentService` has the other service's
  postings as `OtherPosting`; a key used with both is recorded as a completed payment
  that moved nothing, which `PaymentsArePosted` allows.

## 6. Plan

Every safety property of the runs has its theorem. What could be added, in this order:

1. Action properties that follow from the invariants already proved: an entry of the
   ledger, a recorded transaction and a sent event are never changed or removed
   (`LedgerPostgres`, `TransactionService`, `Outbox`), and `committed` of a consumer
   group moves back only after a rebalance (`Consumer`).
2. Abstract specifications of what a row service promises for one key
   (`WalletService`, `PaymentService`), as `MoneyMovement` is for `TransactionService`.
3. The safety half of the liveness properties: what is left to do while an event
   or a message is not settled (`Outbox`, `EventHandlers`), and which session waits for
   which (`LedgerPostgres`).
