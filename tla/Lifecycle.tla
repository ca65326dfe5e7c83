----------------------------- MODULE Lifecycle -----------------------------
(***************************************************************************)
(* One process of a service from its start to its exit, and again after a  *)
(* restart: run() of cmd/main.go call by call (Services has the program),  *)
(* the goroutines it starts (pkg/httpserver, pkg/grpcserver, the outbox    *)
(* relay, the Kafka consumers), readiness (pkg/health), migrations         *)
(* (pkg/postgres), SIGTERM, failing calls and dependencies that go down.   *)
(*                                                                         *)
(* Requests, the relay and the consumers are users of the database pool:   *)
(* one of each kind at a time, "idle" between two queries.  A probe is a   *)
(* request of /readyz, which pings the stores one after another.           *)
(***************************************************************************)
EXTENDS Services, Integers, FiniteSets

CONSTANTS
    Running,        \* the services whose programs are run, one per behaviour
    Neighbour       \* another service of the platform, in the same database

ASSUME RunningAssumption == Running \subseteq ServiceNames

Servers == {"http", "grpc"}
Background == {"relay", "consumers"}
Users == Servers \cup Background
Stores == {"postgres", "redis"}      \* those with a check; S3 and Kafka have none

VARIABLES
    service, options,           \* which program, and what its configuration enables
    phase, todo, deferred, outcome,     \* run(): its calls to come, its defers
    signalled, timeout,         \* ctx is done; the shutdown timeout
    clients, checks, ready,     \* open clients; what health.Checker holds
    probe,                      \* the request of /readyz that is being answered
    server, errCh,              \* the listeners, and the errors Start has sent
    user,                       \* what every user of the pool is doing
    up,                         \* stores that can be reached
    versions, tables            \* goose version tables filled; services with tables

main == <<phase, todo, deferred, outcome>>
signals == <<signalled, timeout>>
health == <<clients, checks, ready, probe>>
servers == <<server, errCh>>
database == <<versions, tables>>
config == <<service, options>>
vars == <<config, main, signals, health, servers, user, up, database>>

Enabled(call) == Needed(call) \subseteq options

NoProbe == [running |-> FALSE, healthy |-> FALSE, left |-> {}, reached |-> {}]

Fresh ==
    /\ phase' = "start"
    /\ todo' = Program(service).start
    /\ deferred' = <<>>
    /\ outcome' = "none"
    /\ signalled' = FALSE
    /\ timeout' = "off"
    /\ clients' = {}
    /\ checks' = {}
    /\ ready' = FALSE
    /\ probe' = NoProbe
    /\ server' = [s \in Servers |-> "off"]
    /\ errCh' = <<>>
    /\ user' = [u \in Users |-> "off"]

Init ==
    /\ service \in Running
    /\ options \in {Options, Options \ {"grpc", "kafka"}}
    /\ phase = "start"
    /\ todo = Program(service).start
    /\ deferred = <<>>
    /\ outcome = "none"
    /\ signalled = FALSE
    /\ timeout = "off"
    /\ clients = {}
    /\ checks = {}
    /\ ready = FALSE
    /\ probe = NoProbe
    /\ server = [s \in Servers |-> "off"]
    /\ errCh = <<>>
    /\ user = [u \in Users |-> "off"]
    /\ up = Stores
    /\ versions = {}
    /\ tables = {}

-----------------------------------------------------------------------------
(* The calls of run(). *)

Call(c) ==
    /\ phase \in {"start", "stop"}
    /\ todo # <<>>
    /\ Head(todo) = c
    /\ Enabled(c)
    /\ todo' = Tail(todo)
    /\ UNCHANGED <<config, phase, outcome, up>>

\* A block that the configuration switches off.
Skip ==
    /\ phase \in {"start", "stop"}
    /\ todo # <<>>
    /\ ~Enabled(Head(todo))
    /\ todo' = Tail(todo)
    /\ UNCHANGED <<config, phase, deferred, outcome, signals, health, servers, user, up, database>>

Defer(d) == deferred' = <<d>> \o deferred

\* run() returns: what it has deferred comes next, the last first.
Return(result) ==
    /\ phase' = "return"
    /\ outcome' = result
    /\ todo' = <<>>
    /\ UNCHANGED deferred

\* Calls that have no effect another part of the model could see.
Prepare ==
    /\ \E c \in {"load config", "new logger", "new proxy", "open s3", "setup telemetry",
                 "catch signals"} : Call(c)
    /\ UNCHANGED <<deferred, signals, health, servers, user, database>>

\* postgres.New and redis.New open a client and ping through it, under ctx.
OpenStore(d) ==
    /\ Call(IF d = "postgres" THEN "open postgres" ELSE "open redis")
    /\ d \in up
    /\ ~signalled
    /\ clients' = clients \cup {d}
    /\ Defer(d)
    /\ UNCHANGED <<signals, checks, ready, probe, servers, user, database>>

\* Bug variant of VersionTable: goose's default, one table for the platform.
VersionTableShared(s) == "goose_db_version"

VersionTable(s) == s

\* goose Up: the migrations that the service's version table does not list.
Migrated(s) ==
    /\ versions' = versions \cup {VersionTable(s)}
    /\ tables' = IF VersionTable(s) \in versions THEN tables ELSE tables \cup {s}

Migrate ==
    /\ Call("migrate")
    /\ "postgres" \in up
    /\ Migrated(service)
    /\ UNCHANGED <<deferred, signals, health, servers, user>>

Register(d) ==
    /\ Call(IF d = "postgres" THEN "check postgres" ELSE "check redis")
    /\ checks' = checks \cup {d}
    /\ UNCHANGED <<deferred, signals, clients, ready, probe, servers, user, database>>

\* The clients that connect when they are used.
OpenLazily ==
    /\ \E c \in {"open producer", "dial ledger"} : Call(c) /\ Defer(c)
    /\ UNCHANGED <<signals, health, servers, user, database>>

\* go relay.Run(ctx), go consumer.Run(ctx, svc.Handle): one consumer per topic.
StartBackground ==
    /\ \/ Call("start relay") /\ user' = [user EXCEPT !["relay"] = "idle"]
       \/ Call("start consumers") /\ user' = [user EXCEPT !["consumers"] = "idle"]
    /\ UNCHANGED <<deferred, signals, health, servers, database>>

\* authz-, admin- and currency-exchange-service write their default rows.
Seed ==
    /\ Call("seed")
    /\ "postgres" \in up
    /\ ~signalled
    /\ UNCHANGED <<deferred, signals, health, servers, user, database>>

SetReady ==
    /\ \/ Call("ready") /\ ready' = TRUE
       \/ Call("not ready") /\ ready' = FALSE
    /\ UNCHANGED <<deferred, signals, clients, checks, probe, servers, user, database>>

\* go func() { errCh <- srv.Start() }()
GoStart(s) ==
    /\ Call(IF s = "http" THEN "listen http" ELSE "listen grpc")
    /\ server' = [server EXCEPT ![s] = "starting"]
    /\ UNCHANGED <<deferred, signals, health, errCh, user, database>>

\* A call of the start answers an error, and run() returns it.  The stores' clients
\* and Seed fail when ctx is done.
StartFails ==
    /\ phase = "start"
    /\ todo # <<>>
    /\ Head(todo) \in {"load config", "new logger", "new proxy", "open s3", "open postgres",
                       "migrate", "open redis", "dial ledger", "seed"}
    /\ Enabled(Head(todo))
    /\ Return("error")
    /\ UNCHANGED <<config, signals, health, servers, user, up, database>>

\* select: an error of a server, or the signal.
Started ==
    /\ phase = "start"
    /\ todo = <<>>
    /\ \/ /\ errCh # <<>>
          /\ errCh' = Tail(errCh)
          /\ Return("error")
       \/ /\ signalled
          /\ phase' = "stop"
          /\ todo' = Program(service).stop
          /\ UNCHANGED <<deferred, outcome, errCh>>
    /\ UNCHANGED <<config, signals, health, server, user, up, database>>

-----------------------------------------------------------------------------
(* Shutdown. *)

StartTimeout ==
    /\ Call("start timeout")
    /\ timeout' = "running"
    /\ UNCHANGED <<deferred, signalled, health, servers, user, database>>

\* The consumers' ctx is done; closing a reader waits for no handler.
CloseConsumers ==
    /\ Call("close consumers")
    /\ UNCHANGED <<deferred, signals, health, servers, user, database>>

Stopping(s) ==
    /\ phase = "stop"
    /\ todo # <<>>
    /\ Head(todo) = IF s = "http" THEN "shutdown http" ELSE "shutdown grpc"
    /\ Enabled(Head(todo))

\* Server.Shutdown before Start has set s.http: nothing to shut down.
ShutdownUnstarted ==
    /\ Stopping("http")
    /\ server["http"] = "starting"
    /\ Call("shutdown http")
    /\ UNCHANGED <<deferred, signals, health, servers, user, database>>

\* The listener is closed.  http.Server.Shutdown has its own timeout, no later
\* than the one run() may have started before.
BeginShutdown(s) ==
    /\ Stopping(s)
    /\ server[s] \in IF s = "http" THEN {"built", "listening"} ELSE {"starting", "listening"}
    /\ server' = [server EXCEPT ![s] = "closing"]
    /\ timeout' = IF timeout = "off" THEN "running" ELSE timeout
    /\ UNCHANGED <<config, main, signalled, health, errCh, user, up, database>>

\* All requests have been answered.
Drained(s) ==
    /\ Stopping(s)
    /\ server[s] \in {"closing", "down"}
    /\ user[s] = "off"
    /\ s = "http" => ~probe.running
    /\ Call(Head(todo))
    /\ UNCHANGED <<deferred, signals, health, servers, user, database>>

\* Bug variant of DrainTimesOut: the calls get the background context.
DrainForever == FALSE

\* The gRPC server is then stopped hard, which cuts its calls; the HTTP server's
\* Shutdown is an error, which run() returns.
DrainTimesOut ==
    /\ timeout = "expired"
    /\ \/ /\ Stopping("grpc")
          /\ server["grpc"] \in {"closing", "down"}
          /\ Call("shutdown grpc")
          /\ user' = [user EXCEPT !["grpc"] = "off"]
          /\ UNCHANGED deferred
       \/ /\ Stopping("http")
          /\ server["http"] \in {"closing", "down"}
          /\ user["http"] # "off" \/ probe.running
          /\ Return("error")
          /\ UNCHANGED <<config, user, up>>
    /\ UNCHANGED <<signals, health, servers, database>>

Stopped ==
    /\ phase = "stop"
    /\ todo = <<>>
    /\ Return("stopped cleanly")
    /\ UNCHANGED <<config, signals, health, servers, user, up, database>>

\* A deferred call.  pool.Close refuses new queries and waits for those that run.
Deferred ==
    /\ phase = "return"
    /\ deferred # <<>>
    /\ clients' = clients \ {Head(deferred)}
    /\ IF Head(deferred) = "postgres" /\ \E u \in Users : user[u] = "querying"
       THEN UNCHANGED deferred
       ELSE deferred' = Tail(deferred)
    /\ UNCHANGED <<config, phase, todo, outcome, signals, checks, ready, probe, servers,
                   user, up, database>>

\* main returns or panics: every goroutine ends with it.
Exit ==
    /\ phase = "return"
    /\ deferred = <<>>
    /\ phase' = "exited"
    /\ UNCHANGED <<config, todo, deferred, outcome, signals, health, servers, user, up,
                   database>>

Run ==
    \/ Prepare \/ Skip
    \/ \E d \in Stores : OpenStore(d) \/ Register(d)
    \/ Migrate
    \/ OpenLazily
    \/ StartBackground
    \/ Seed
    \/ SetReady
    \/ \E s \in Servers : GoStart(s)
    \/ StartFails
    \/ Started
    \/ StartTimeout
    \/ CloseConsumers
    \/ ShutdownUnstarted
    \/ \E s \in Servers : BeginShutdown(s) \/ Drained(s)
    \/ DrainTimesOut
    \/ Stopped
    \/ Deferred
    \/ Exit

-----------------------------------------------------------------------------
(* The goroutines of the servers. *)

Alive == phase # "exited"

\* Server.Start of pkg/httpserver sets s.http before it listens.
Build ==
    /\ Alive
    /\ server["http"] = "starting"
    /\ server' = [server EXCEPT !["http"] = "built"]
    /\ UNCHANGED <<config, main, signals, health, errCh, user, up, database>>

Listen(s) ==
    /\ Alive
    /\ server[s] = IF s = "http" THEN "built" ELSE "starting"
    /\ \/ server' = [server EXCEPT ![s] = "listening"] /\ UNCHANGED errCh
       \/ server' = [server EXCEPT ![s] = "down"] /\ errCh' = Append(errCh, s)
    /\ UNCHANGED <<config, main, signals, health, user, up, database>>

\* Bug variant of StartReturns: the server counts as running, so that it returns again.
StartReturnsAgain(s) ==
    /\ Alive
    /\ server[s] = "closing"
    /\ errCh' = Append(errCh, s)
    /\ UNCHANGED <<config, main, signals, health, server, user, up, database>>

\* Serve returns after Shutdown: nil for HTTP, whose ErrServerClosed is dropped.
StartReturns(s) ==
    /\ Alive
    /\ server[s] = "closing"
    /\ server' = [server EXCEPT ![s] = "down"]
    /\ errCh' = Append(errCh, s)
    /\ UNCHANGED <<config, main, signals, health, user, up, database>>

(* Requests, relay and consumers. *)

Arrive(s) ==
    /\ Alive
    /\ server[s] = "listening"
    /\ user[s] = "off"
    /\ user' = [user EXCEPT ![s] = "idle"]
    /\ UNCHANGED <<config, main, signals, health, servers, up, database>>

Query(u) ==
    /\ Alive
    /\ user[u] = "idle"
    /\ "postgres" \in clients
    /\ user' = [user EXCEPT ![u] = "querying"]
    /\ UNCHANGED <<config, main, signals, health, servers, up, database>>

\* The query is answered, or fails.
QueryEnds(u) ==
    /\ Alive
    /\ user[u] = "querying"
    /\ user' = [user EXCEPT ![u] = "idle"]
    /\ UNCHANGED <<config, main, signals, health, servers, up, database>>

\* A request is answered; the relay and the consumers end when ctx is done, and the
\* consumers at an error of the reader.
Finish(u) ==
    /\ Alive
    /\ user[u] = "idle"
    /\ u \in {"http", "grpc", "consumers"} \/ signalled
    /\ user' = [user EXCEPT ![u] = "off"]
    /\ UNCHANGED <<config, main, signals, health, servers, up, database>>

(* Readiness: /readyz, and /startupz, which is the same handler. *)

\* The flag and the checks are copied under the read lock.
ProbeStarts ==
    /\ Alive
    /\ server["http"] = "listening"
    /\ ~probe.running
    /\ probe' = [running |-> TRUE, healthy |-> ready, left |-> checks, reached |-> {}]
    /\ UNCHANGED <<config, main, signals, clients, checks, ready, servers, user, up, database>>

\* Bug variant of Healthy: the verdict is that of the last check.
HealthyLast(before, passes) == passes

Healthy(before, passes) == before /\ passes

\* The next check, in the order of a Go map.  A ping fails when its store cannot be
\* reached or its client is closed, and may fail else: it has three seconds, and ends
\* with the request.
ProbePings(d) ==
    /\ Alive
    /\ probe.running
    /\ d \in probe.left
    /\ \E passes \in BOOLEAN :
          /\ passes => d \in up \cap clients
          /\ probe' = [probe EXCEPT !.left = @ \ {d},
                                   !.healthy = Healthy(@, passes),
                                   !.reached = @ \cup ({d} \cap up \cap clients)]
    /\ UNCHANGED <<config, main, signals, clients, checks, ready, servers, user, up, database>>

\* 200 if AnswersReady, or else 503.
ProbeAnswers ==
    /\ Alive
    /\ probe.running
    /\ probe.left = {}
    /\ probe' = NoProbe
    /\ UNCHANGED <<config, main, signals, clients, checks, ready, servers, user, up, database>>

(* The environment. *)

\* SIGTERM ends the process unless it is caught.
Signal ==
    /\ Alive
    /\ ~signalled
    /\ IF phase = "start" /\ \E i \in DOMAIN todo : todo[i] = "catch signals"
       THEN phase' = "exited" /\ UNCHANGED signalled
       ELSE signalled' = TRUE /\ UNCHANGED phase
    /\ UNCHANGED <<config, todo, deferred, outcome, timeout, health, servers, user, up, database>>

Expire ==
    /\ timeout = "running"
    /\ timeout' = "expired"
    /\ UNCHANGED <<config, main, signalled, health, servers, user, up, database>>

\* SIGKILL, or a panic outside the handlers.
Kill ==
    /\ Alive
    /\ phase' = "exited"
    /\ outcome' = "killed"
    /\ UNCHANGED <<config, todo, deferred, signals, health, servers, user, up, database>>

Restart ==
    /\ phase = "exited"
    /\ Fresh
    /\ UNCHANGED <<config, up, database>>

StoreChanges(d) ==
    /\ up' = IF d \in up THEN up \ {d} ELSE up \cup {d}
    /\ UNCHANGED <<config, main, signals, health, servers, user, database>>

NeighbourMigrates ==
    /\ "postgres" \in up
    /\ Neighbour \notin tables
    /\ Migrated(Neighbour)
    /\ UNCHANGED <<config, main, signals, health, servers, user, up>>

Next ==
    \/ Run
    \/ Build
    \/ \E s \in Servers : Listen(s) \/ StartReturns(s) \/ Arrive(s)
    \/ \E u \in Users : Query(u) \/ QueryEnds(u) \/ Finish(u)
    \/ ProbeStarts
    \/ \E d \in Stores : ProbePings(d)
    \/ ProbeAnswers
    \/ Signal
    \/ Expire
    \/ Kill
    \/ Restart
    \/ \E d \in Stores : StoreChanges(d)
    \/ NeighbourMigrates

Spec == Init /\ [][Next]_vars

\* run() is scheduled, time passes, and the database ends the queries it was sent;
\* nothing says that a request is ever answered.
FairSpec ==
    /\ Spec
    /\ WF_vars(Run)
    /\ WF_vars(Expire)
    /\ \A u \in Users : WF_vars(QueryEnds(u))

-----------------------------------------------------------------------------
TypeOK ==
    /\ service \in Running
    /\ options \subseteq Options
    /\ phase \in {"start", "stop", "return", "exited"}
    /\ outcome \in {"none", "error", "stopped cleanly", "killed"}
    /\ signalled \in BOOLEAN
    /\ timeout \in {"off", "running", "expired"}
    /\ clients \subseteq Stores
    /\ checks \subseteq Stores
    /\ ready \in BOOLEAN
    /\ probe \in [running : BOOLEAN, healthy : BOOLEAN, left : SUBSET Stores,
                  reached : SUBSET Stores]
    /\ server \in [Servers -> {"off", "starting", "built", "listening", "closing", "down"}]
    /\ Len(errCh) <= Cardinality(Servers)
    /\ user \in [Users -> {"off", "idle", "querying"}]
    /\ up \subseteq Stores
    /\ tables \subseteq Running \cup {Neighbour}

\* A query is sent only to a database in which the service's own tables exist,
\* whichever service has migrated the shared database first
\* (pkg/postgres/migrate.go:16).
QueriesFindTables ==
    \A u \in Users : user[u] = "querying" /\ Alive => service \in tables

\* The probe is about to be answered 200.
AnswersReady == probe.running /\ probe.left = {} /\ probe.healthy

Uses(d) ==
    LET call == IF d = "postgres" THEN "open postgres" ELSE "open redis"
    IN  /\ Enabled(call)
        /\ \E i \in DOMAIN Program(service).start : Program(service).start[i] = call

\* A probe that is answered 200 has itself reached, through an open client, each of
\* Postgres and Redis that the service uses, whatever was opened, lost, closed or
\* drained while it ran.  Not more: a store may be lost again, and the flag withdrawn,
\* before the answer (pkg/health/health.go:56).
ReadyMeansReachable ==
    AnswersReady => \A d \in Stores : Uses(d) => d \in probe.reached

\* A process that has caught the signal ends: requests that are never answered are
\* given up after the timeout, and closing the pool waits for queries only
\* (cmd/main.go, after the select).
StopsAfterSignal == signalled ~> ~Alive
=============================================================================
