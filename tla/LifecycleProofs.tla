--------------------------- MODULE LifecycleProofs ---------------------------
(***************************************************************************)
(* Proofs about Lifecycle, for every service of the platform and whatever  *)
(* its configuration switches off: its types, that a query finds the       *)
(* tables it needs, and that a probe answered "ready" has itself reached   *)
(* Postgres and Redis.                                                     *)
(*                                                                         *)
(* All three rest on the order of the calls in run(), which is stated once *)
(* (WellOrdered) and proved of the programs in Services.                   *)
(***************************************************************************)
EXTENDS Lifecycle, FiniteSetTheorems, TLAPS

CallNames ==
    {"load config", "new logger", "catch signals", "setup telemetry", "open postgres", "migrate",
     "check postgres", "open producer", "start relay", "dial ledger", "open redis", "check redis",
     "seed", "open s3", "new proxy", "start consumers", "ready", "listen http", "listen grpc",
     "not ready", "start timeout", "close consumers", "shutdown http", "shutdown grpc"}

\* The calls that must be over before a query can be sent or /readyz asked, and those
\* that begin to serve.
Openers == {"open postgres", "migrate", "check postgres", "check redis"}
Listens == {"listen http", "listen grpc"}
Starters == Listens \cup {"start relay", "start consumers"}

Of(p) == {p[i] : i \in DOMAIN p}

\* The migrations follow the opening of the pool at once, nothing is opened after the
\* first thing served, and each server is started once.
WellOrdered(p) ==
    /\ p \in Seq(CallNames)
    /\ \A i \in DOMAIN p : p[i] = "open postgres" => i + 1 \in DOMAIN p /\ p[i + 1] = "migrate"
    /\ \A i, j \in DOMAIN p : i < j /\ p[i] \in Starters => p[j] \notin Openers
    /\ \A i, j \in DOMAIN p : i < j /\ p[i] \in Listens => p[j] # p[i]

OpenCall(d) == IF d = "postgres" THEN "open postgres" ELSE "open redis"
CheckCall(d) == IF d = "postgres" THEN "check postgres" ELSE "check redis"

\* What the proofs need of a program.
Ordered(program) ==
    /\ WellOrdered(program.start)
    /\ \A d \in Stores : OpenCall(d) \in Of(program.start) => CheckCall(d) \in Of(program.start)
    /\ WellOrdered(program.stop)
    /\ Of(program.stop) \cap (Openers \cup Starters) = {}

-----------------------------------------------------------------------------
(* The programs. *)

\* The elements of two sequences one after the other.
LEMMA Concat ==
    ASSUME NEW s \in Seq(CallNames), NEW t \in Seq(CallNames)
    PROVE  /\ s \o t \in Seq(CallNames) /\ Len(s \o t) = Len(s) + Len(t)
           /\ \A i \in 1..Len(s) : (s \o t)[i] = s[i]
           /\ \A i \in 1..Len(t) : (s \o t)[i + Len(s)] = t[i]
           /\ DOMAIN s = 1..Len(s) /\ DOMAIN t = 1..Len(t)
           /\ DOMAIN (s \o t) = 1..(Len(s) + Len(t))
  OBVIOUS

\* Two well ordered parts make one, unless the first begins to serve what the second
\* opens or starts again.
LEMMA Joined ==
    ASSUME NEW s, NEW t, WellOrdered(s), WellOrdered(t),
           Of(s) \cap Starters = {} \/ Of(t) \cap Openers = {},
           Of(s) \cap Listens = {} \/ Of(t) \cap Listens = {}
    PROVE  WellOrdered(s \o t) /\ Of(s \o t) = Of(s) \cup Of(t)
  <1> DEFINE p == s \o t
             m == Len(s)
             n == Len(t)
  <1>1. /\ p \in Seq(CallNames) /\ DOMAIN s = 1..m /\ DOMAIN t = 1..n /\ DOMAIN p = 1..(m + n)
        /\ \A i \in 1..m : p[i] = s[i]
        /\ \A i \in 1..n : p[i + m] = t[i]
        /\ m \in Nat /\ n \in Nat
    <2>1. s \in Seq(CallNames) /\ t \in Seq(CallNames)
      BY DEF WellOrdered
    <2>2. QED  BY <2>1, Concat
  <1> HIDE DEF p, m, n
  <1>2. \A i \in DOMAIN p : \/ i \in 1..m /\ p[i] = s[i] /\ p[i] \in Of(s)
                            \/ i - m \in 1..n /\ p[i] = t[i - m] /\ p[i] \in Of(t)
    <2> SUFFICES ASSUME NEW i \in 1..(m + n)
                 PROVE  \/ i \in 1..m /\ p[i] = s[i] /\ p[i] \in Of(s)
                        \/ i - m \in 1..n /\ p[i] = t[i - m] /\ p[i] \in Of(t)
      BY <1>1
    <2>1. CASE i <= m
      BY <1>1, <2>1 DEF Of
    <2>2. CASE i > m
      <3>1. i - m \in 1..n /\ (i - m) + m = i
        BY <1>1, <2>2
      <3>2. p[i] = t[i - m]
        BY <1>1, <3>1
      <3>3. QED  BY <1>1, <3>1, <3>2 DEF Of
    <2>3. QED  BY <1>1, <2>1, <2>2
  <1>3. Of(p) = Of(s) \cup Of(t)
    <2>1. ASSUME NEW i \in 1..m PROVE s[i] \in Of(p)
      BY <1>1, <2>1 DEF Of
    <2>2. ASSUME NEW i \in 1..n PROVE t[i] \in Of(p)
      <3>1. i + m \in DOMAIN p /\ p[i + m] = t[i]
        BY <1>1, <2>2
      <3>2. QED  BY <3>1 DEF Of
    <2>3. Of(s) \cup Of(t) \subseteq Of(p)
      BY <1>1, <2>1, <2>2 DEF Of
    <2>4. Of(p) \subseteq Of(s) \cup Of(t)
      BY <1>2 DEF Of
    <2>5. QED  BY <2>3, <2>4
  <1>4. ASSUME NEW i \in DOMAIN p, p[i] = "open postgres"
        PROVE  i + 1 \in DOMAIN p /\ p[i + 1] = "migrate"
    <2>1. CASE i \in 1..m /\ p[i] = s[i]
      <3>1. i + 1 \in 1..m /\ s[i + 1] = "migrate"
        BY <1>1, <1>4, <2>1 DEF WellOrdered
      <3>2. QED  BY <1>1, <3>1
    <2>2. CASE i - m \in 1..n /\ p[i] = t[i - m]
      <3>1. (i - m) + 1 \in 1..n /\ t[(i - m) + 1] = "migrate"
        BY <1>1, <1>4, <2>2 DEF WellOrdered
      <3>2. i + 1 = ((i - m) + 1) + m /\ i + 1 \in 1..(m + n)
        <4>1. i \in Int /\ m \in Nat /\ n \in Nat
          BY <1>1
        <4>2. QED  BY <3>1, <4>1
      <3>3. p[((i - m) + 1) + m] = t[(i - m) + 1]
        BY <1>1, <3>1
      <3>4. QED  BY <1>1, <3>1, <3>2, <3>3
    <2>3. QED  BY <1>2, <2>1, <2>2
  <1>5. ASSUME NEW i \in DOMAIN p, NEW j \in DOMAIN p, i < j
        PROVE  /\ p[i] \in Starters => p[j] \notin Openers
               /\ p[i] \in Listens => p[j] # p[i]
    <2>1. CASE i \in 1..m /\ j \in 1..m
      <3>1. p[i] = s[i] /\ p[j] = s[j]
        BY <1>1, <2>1
      <3>2. /\ s[i] \in Starters => s[j] \notin Openers
            /\ s[i] \in Listens => s[j] # s[i]
        BY <1>1, <1>5, <2>1 DEF WellOrdered
      <3>3. QED  BY <3>1, <3>2
    <2>2. CASE i - m \in 1..n /\ j - m \in 1..n
      <3>1. p[i] = t[i - m] /\ p[j] = t[j - m] /\ i - m < j - m
        <4>1. i \notin 1..m /\ j \notin 1..m
          BY <1>1, <2>2
        <4>2. QED  BY <1>1, <1>2, <1>5, <4>1
      <3>2. QED  BY <1>1, <2>2, <3>1 DEF WellOrdered
    <2>3. CASE i \in 1..m /\ j - m \in 1..n
      <3>1. p[i] \in Of(s) /\ p[j] \in Of(t)
        <4>1. i - m \notin 1..n /\ j \notin 1..m
          BY <1>1, <2>3
        <4>2. QED  BY <1>2, <4>1
      <3>2. QED  BY <3>1 DEF Starters
    <2>4. QED  BY <1>1, <1>2, <1>5, <2>1, <2>2, <2>3
  <1>6. QED
    BY <1>1, <1>3, <1>4, <1>5 DEF WellOrdered, p

\* Short sequences of calls.
LEMMA Short ==
    ASSUME NEW a \in CallNames, NEW b \in CallNames, NEW c \in CallNames, NEW d \in CallNames
    PROVE  /\ <<a>> \in Seq(CallNames) /\ DOMAIN <<a>> = 1..1 /\ <<a>>[1] = a
           /\ <<a, b>> \in Seq(CallNames) /\ DOMAIN <<a, b>> = 1..2
           /\ <<a, b>>[1] = a /\ <<a, b>>[2] = b
           /\ <<a, b, c>> \in Seq(CallNames) /\ DOMAIN <<a, b, c>> = 1..3
           /\ <<a, b, c>>[1] = a /\ <<a, b, c>>[2] = b /\ <<a, b, c>>[3] = c
           /\ <<a, b, c, d>> \in Seq(CallNames) /\ DOMAIN <<a, b, c, d>> = 1..4
           /\ <<a, b, c, d>>[1] = a /\ <<a, b, c, d>>[2] = b
           /\ <<a, b, c, d>>[3] = c /\ <<a, b, c, d>>[4] = d
  OBVIOUS

\* Different calls that open nothing.
LEMMA Plain ==
    ASSUME NEW p \in Seq(CallNames), Of(p) \cap Openers = {},
           \A i, j \in DOMAIN p : i < j => p[j] # p[i]
    PROVE  WellOrdered(p)
  <1>1. \A i \in DOMAIN p : p[i] \notin Openers
    BY DEF Of
  <1>2. \A i \in DOMAIN p : p[i] # "open postgres"
    BY <1>1 DEF Openers
  <1>3. QED
    BY <1>1, <1>2 DEF WellOrdered

\* One call that opens nothing.
LEMMA One ==
    ASSUME NEW a \in CallNames \ Openers
    PROVE  WellOrdered(<<a>>) /\ Of(<<a>>) = {a}
  <1> DEFINE p == <<a>>
  <1>1. /\ p \in Seq(CallNames) /\ DOMAIN p = 1..1
        /\ p[1] = a
    BY Short
  <1> HIDE DEF p
  <1>2. Of(p) = {a}
    BY <1>1 DEF Of
  <1>3. \A i, j \in DOMAIN p : i < j => p[j] # p[i]
    BY <1>1
  <1>4. WellOrdered(p)
    BY <1>1, <1>2, <1>3, Plain
  <1>5. QED  BY <1>2, <1>4 DEF p

\* Two different calls that open nothing.
LEMMA Two ==
    ASSUME NEW a \in CallNames \ Openers, NEW b \in CallNames \ Openers, a # b
    PROVE  WellOrdered(<<a, b>>) /\ Of(<<a, b>>) = {a, b}
  <1> DEFINE p == <<a, b>>
  <1>1. /\ p \in Seq(CallNames) /\ DOMAIN p = 1..2
        /\ p[1] = a /\ p[2] = b
    BY Short
  <1> HIDE DEF p
  <1>2. Of(p) = {a, b}
    BY <1>1 DEF Of
  <1>3. \A i, j \in DOMAIN p : i < j => p[j] # p[i]
    BY <1>1
  <1>4. WellOrdered(p)
    BY <1>1, <1>2, <1>3, Plain
  <1>5. QED  BY <1>2, <1>4 DEF p

\* Three different calls that open nothing.
LEMMA Three ==
    ASSUME NEW a \in CallNames \ Openers, NEW b \in CallNames \ Openers,
           NEW c \in CallNames \ Openers,
           a # b, b # c, a # c
    PROVE  WellOrdered(<<a, b, c>>) /\ Of(<<a, b, c>>) = {a, b, c}
  <1> DEFINE p == <<a, b, c>>
  <1>1. /\ p \in Seq(CallNames) /\ DOMAIN p = 1..3
        /\ p[1] = a /\ p[2] = b /\ p[3] = c
    BY Short
  <1> HIDE DEF p
  <1>2. Of(p) = {a, b, c}
    BY <1>1 DEF Of
  <1>3. \A i, j \in DOMAIN p : i < j => p[j] # p[i]
    BY <1>1
  <1>4. WellOrdered(p)
    BY <1>1, <1>2, <1>3, Plain
  <1>5. QED  BY <1>2, <1>4 DEF p

\* Four different calls that open nothing.
LEMMA Four ==
    ASSUME NEW a \in CallNames \ Openers, NEW b \in CallNames \ Openers,
           NEW c \in CallNames \ Openers, NEW d \in CallNames \ Openers, a # b, b # c, a # c,
           a # d, b # d, c # d
    PROVE  WellOrdered(<<a, b, c, d>>) /\ Of(<<a, b, c, d>>) = {a, b, c, d}
  <1> DEFINE p == <<a, b, c, d>>
  <1>1. /\ p \in Seq(CallNames) /\ DOMAIN p = 1..4
        /\ p[1] = a /\ p[2] = b /\ p[3] = c /\ p[4] = d
    BY Short
  <1> HIDE DEF p
  <1>2. Of(p) = {a, b, c, d}
    BY <1>1 DEF Of
  <1>3. \A i, j \in DOMAIN p : i < j => p[j] # p[i]
    BY <1>1
  <1>4. WellOrdered(p)
    BY <1>1, <1>2, <1>3, Plain
  <1>5. QED  BY <1>2, <1>4 DEF p

\* The parts of which the programs are put together.
LEMMA Boots ==
    /\ WellOrdered(Boot)
    /\ Of(Boot) = {"load config", "new logger", "catch signals", "setup telemetry"}
  <1> DEFINE a == "load config"
             b == "new logger"
             c == "catch signals"
             d == "setup telemetry"
  <1>1. /\ a \in CallNames \ Openers /\ b \in CallNames \ Openers
        /\ c \in CallNames \ Openers /\ d \in CallNames \ Openers
    BY DEF CallNames, Openers
  <1>2. a # b /\ b # c /\ a # c /\ a # d /\ b # d /\ c # d
    OBVIOUS
  <1> HIDE DEF a, b, c, d
  <1>3. WellOrdered(<<a, b, c, d>>) /\ Of(<<a, b, c, d>>) = {a, b, c, d}
    BY <1>1, <1>2, Four
  <1>4. QED  BY <1>3 DEF Boot, a, b, c, d

\* Every database is opened, migrated and checked, in this order.
LEMMA Databases ==
    WellOrdered(Database) /\ Of(Database) = {"open postgres", "migrate", "check postgres"}
  <1> DEFINE a == "open postgres"
             b == "migrate"
             c == "check postgres"
             p == <<a, b, c>>
  <1>1. a \in CallNames /\ b \in CallNames /\ c \in CallNames /\ {a, b, c} \cap Starters = {}
    BY DEF CallNames, Starters, Listens
  <1>2. a # b /\ b # c /\ a # c
    OBVIOUS
  <1> HIDE DEF a, b, c
  <1>3. p \in Seq(CallNames) /\ DOMAIN p = 1..3 /\ p[1] = a /\ p[2] = b /\ p[3] = c
    BY <1>1, Short
  <1> HIDE DEF p
  <1>4. Of(p) = {a, b, c}
    BY <1>3 DEF Of
  <1>5. \A i \in DOMAIN p : p[i] = a => i + 1 \in DOMAIN p /\ p[i + 1] = b
    BY <1>2, <1>3
  <1>6. \A i \in DOMAIN p : p[i] \notin Starters
    BY <1>1, <1>3
  <1>7. WellOrdered(p)
    BY <1>3, <1>5, <1>6 DEF WellOrdered, Starters, a, b
  <1>8. QED
    BY <1>4, <1>7 DEF Database, a, b, c, p

\* What is served, and when the process says that it is ready.
LEMMA Serves ==
    /\ WellOrdered(Serve) /\ Of(Serve) = {"ready", "listen http"}
    /\ WellOrdered(ServeBoth) /\ Of(ServeBoth) = {"ready", "listen http", "listen grpc"}
  <1> DEFINE a == "ready"
             b == "listen http"
             c == "listen grpc"
  <1>1. a \in CallNames \ Openers /\ b \in CallNames \ Openers /\ c \in CallNames \ Openers
    BY DEF CallNames, Openers
  <1>2. a # b /\ b # c /\ a # c
    OBVIOUS
  <1> HIDE DEF a, b, c
  <1>3. WellOrdered(<<a, b>>) /\ Of(<<a, b>>) = {a, b}
    BY <1>1, <1>2, Two
  <1>4. WellOrdered(<<a, b, c>>) /\ Of(<<a, b, c>>) = {a, b, c}
    BY <1>1, <1>2, Three
  <1>5. QED  BY <1>3, <1>4 DEF Serve, ServeBoth, a, b, c

\* How the servers are shut down.
LEMMA Drains ==
    /\ WellOrdered(Drain) /\ Of(Drain) = {"not ready", "start timeout", "shutdown http"}
    /\ WellOrdered(DrainBoth)
    /\ Of(DrainBoth) = {"not ready", "start timeout", "shutdown grpc", "shutdown http"}
  <1> DEFINE a == "not ready"
             b == "start timeout"
             c == "shutdown grpc"
             d == "shutdown http"
  <1>1. /\ a \in CallNames \ Openers /\ b \in CallNames \ Openers
        /\ c \in CallNames \ Openers /\ d \in CallNames \ Openers
    BY DEF CallNames, Openers
  <1>2. a # b /\ b # c /\ a # c /\ a # d /\ b # d /\ c # d
    OBVIOUS
  <1> HIDE DEF a, b, c, d
  <1>3. WellOrdered(<<a, b, d>>) /\ Of(<<a, b, d>>) = {a, b, d}
    BY <1>1, <1>2, Three
  <1>4. WellOrdered(<<a, b, c, d>>) /\ Of(<<a, b, c, d>>) = {a, b, c, d}
    BY <1>1, <1>2, Four
  <1>5. QED  BY <1>3, <1>4 DEF Drain, DrainBoth, a, b, c, d

\* What a program sets up before it serves, and its shutdown.
Setup(p) ==
    /\ WellOrdered(p)
    /\ Of(p) \cap Listens = {}
    /\ \A d \in Stores : OpenCall(d) \in Of(p) => CheckCall(d) \in Of(p)

Shutdown(p) == WellOrdered(p) /\ Of(p) \cap (Openers \cup Starters) = {}

\* A program that sets up, serves, and shuts down.
LEMMA MainIsOrdered ==
    ASSUME NEW setup, Setup(setup), NEW serve \in {Serve, ServeBoth}, NEW drain, Shutdown(drain)
    PROVE  Ordered(Main(setup, serve, drain))
  <1>1. WellOrdered(Boot \o setup) /\ Of(Boot \o setup) = Of(Boot) \cup Of(setup)
    BY Boots, Joined DEF Starters, Listens, Setup
  <1>2. /\ WellOrdered(serve) /\ Of(serve) \subseteq {"ready", "listen http", "listen grpc"}
    BY Serves
  <1>3. (Of(Boot) \cup Of(setup)) \cap Listens = {}
    BY Boots DEF Listens, Setup
  <1>4. /\ WellOrdered((Boot \o setup) \o serve)
        /\ Of((Boot \o setup) \o serve) = Of(Boot) \cup Of(setup) \cup Of(serve)
    <2>1. Of(serve) \cap Openers = {}
      BY <1>2 DEF Openers
    <2>2. Of(Boot \o setup) \cap Listens = {}
      BY <1>1, <1>3
    <2>3. QED  BY <1>1, <1>2, <2>1, <2>2, Joined
  <1>5. /\ Main(setup, serve, drain).start = (Boot \o setup) \o serve
        /\ Main(setup, serve, drain).stop = drain
    BY DEF Main
  <1>6. \A d \in Stores : OpenCall(d) \notin Of(Boot) \cup Of(serve)
    BY <1>2, Boots DEF OpenCall
  <1>7. QED
    BY <1>4, <1>5, <1>6 DEF Ordered, Setup, Shutdown

\* A setup goes on with calls that serve no requests and open no store.
LEMMA SetupGoesOn ==
    ASSUME NEW p, Setup(p), Of(p) \cap Starters = {}, NEW q, WellOrdered(q),
           Of(q) \cap Listens = {}, \A d \in Stores : OpenCall(d) \notin Of(q)
    PROVE  Setup(p \o q) /\ Of(p \o q) = Of(p) \cup Of(q)
  <1>1. WellOrdered(p \o q) /\ Of(p \o q) = Of(p) \cup Of(q)
    BY Joined DEF Setup
  <1>2. QED  BY <1>1 DEF Setup

\* The database alone.
LEMMA DatabaseIsSetup == Setup(Database) /\ Of(Database) \cap Starters = {}
  <1>1. \A d \in Stores : OpenCall(d) \in Of(Database) => CheckCall(d) \in Of(Database)
    BY Databases DEF OpenCall, CheckCall, Stores
  <1>2. Of(Database) \cap Starters = {}
    BY Databases DEF Starters, Listens
  <1>3. QED  BY <1>1, <1>2, Databases DEF Setup, Starters

\* The database and one call more.
LEMMA DatabaseAnd ==
    ASSUME NEW a \in {"dial ledger", "seed", "open s3", "start consumers"}
    PROVE  Setup(Database \o <<a>>)
  <1>1. a \in CallNames \ Openers
    BY DEF CallNames, Openers
  <1>2. a \notin Listens /\ \A d \in Stores : OpenCall(d) # a
    BY DEF Listens, OpenCall
  <1>3. WellOrdered(<<a>>) /\ Of(<<a>>) = {a}
    BY <1>1, One
  <1>4. QED  BY <1>2, <1>3, DatabaseIsSetup, SetupGoesOn

\* The database and the relay, with and without the ledger.
LEMMA DatabaseAndRelay ==
    Setup(Database \o Relay) /\ Setup((Database \o Relay) \o <<"dial ledger">>)
  <1> DEFINE a == "open producer"
             b == "start relay"
             c == "dial ledger"
  <1>1. /\ a \in CallNames \ Openers /\ b \in CallNames \ Openers /\ c \in CallNames \ Openers
        /\ {a, b, c} \cap Listens = {}
    BY DEF CallNames, Openers, Listens
  <1>2. a # b /\ \A d \in Stores : OpenCall(d) \notin {a, b, c}
    BY DEF OpenCall
  <1>3. Relay = <<a, b>>
    BY DEF Relay
  <1> HIDE DEF a, b, c
  <1>4. WellOrdered(Relay) /\ Of(Relay) = {a, b} /\ WellOrdered(<<c>>) /\ Of(<<c>>) = {c}
    BY <1>1, <1>2, <1>3, Two, One
  <1>5. Setup(Database \o Relay) /\ Of(Database \o Relay) = Of(Database) \cup {a, b}
    BY <1>1, <1>2, <1>4, DatabaseIsSetup, SetupGoesOn
  <1>6. Setup((Database \o Relay) \o <<c>>)
    <2>1. /\ WellOrdered((Database \o Relay) \o <<c>>)
          /\ Of((Database \o Relay) \o <<c>>) = Of(Database \o Relay) \cup {c}
      BY <1>1, <1>4, <1>5, Joined DEF Setup
    <2>2. QED  BY <1>1, <1>2, <1>4, <1>5, <2>1 DEF Setup
  <1>7. QED  BY <1>5, <1>6 DEF c

\* The database and Redis.
LEMMA DatabaseAndRedis == Setup(Database \o <<"open redis", "check redis">>)
  <1> DEFINE a == "open redis"
             b == "check redis"
             p == <<a, b>>
  <1>1. /\ a \in CallNames /\ b \in CallNames /\ {a, b} \cap Starters = {}
        /\ a # "open postgres" /\ b # "open postgres"
    BY DEF CallNames, Starters, Listens
  <1>2. {a, b} \cap Listens = {}
    BY <1>1 DEF Starters
  <1>3. \A d \in Stores :
            OpenCall(d) \in Of(Database) \cup {a, b} => CheckCall(d) \in Of(Database) \cup {a, b}
    BY Databases DEF Stores, OpenCall, CheckCall
  <1> HIDE DEF a, b
  <1>4. p \in Seq(CallNames) /\ DOMAIN p = 1..2 /\ p[1] = a /\ p[2] = b
    <2>1. a \in CallNames /\ b \in CallNames
      BY <1>1
    <2>2. QED  BY <2>1, Short
  <1> HIDE DEF p
  <1>5. Of(p) = {a, b}
    BY <1>4 DEF Of
  <1>6. \A i \in DOMAIN p : p[i] # "open postgres" /\ p[i] \notin Starters
    <2>1. \A i \in DOMAIN p : p[i] \in {a, b}
      BY <1>4
    <2>2. QED  BY <1>1, <2>1
  <1>7. WellOrdered(p)
    BY <1>4, <1>6 DEF WellOrdered, Starters
  <1>8. WellOrdered(Database \o p) /\ Of(Database \o p) = Of(Database) \cup {a, b}
    BY <1>2, <1>5, <1>7, DatabaseIsSetup, Joined DEF Setup
  <1>9. Setup(Database \o p)
    BY <1>2, <1>3, <1>8, DatabaseIsSetup DEF Setup
  <1>10. QED
    BY <1>9 DEF p, a, b

\* The gateway sets up its proxy.
LEMMA ProxyIsSetup == Setup(<<"new proxy">>)
  <1> DEFINE a == "new proxy"
  <1>1. a \in CallNames \ Openers /\ a \notin Listens /\ \A d \in Stores : OpenCall(d) # a
    BY DEF CallNames, Openers, Listens, OpenCall
  <1> HIDE DEF a
  <1>2. Setup(<<a>>)
    BY <1>1, One DEF Setup
  <1>3. QED  BY <1>2 DEF a

\* Every service's shutdown.
LEMMA Shutdowns ==
    /\ Shutdown(Drain) /\ Shutdown(DrainBoth)
    /\ Shutdown(<<"not ready", "close consumers", "start timeout", "shutdown http">>)
    /\ Shutdown(<<"not ready", "shutdown http">>)
  <1> DEFINE a == "not ready"
             b == "close consumers"
             c == "start timeout"
             d == "shutdown http"
  <1>1. /\ a \in CallNames \ Openers /\ b \in CallNames \ Openers
        /\ c \in CallNames \ Openers /\ d \in CallNames \ Openers
        /\ {a, b, c, d} \cap (Openers \cup Starters) = {}
    BY DEF CallNames, Openers, Starters, Listens
  <1>2. a # b /\ b # c /\ a # c /\ a # d /\ b # d /\ c # d
    OBVIOUS
  <1> HIDE DEF a, b, c, d
  <1>3. Shutdown(<<a, b, c, d>>)
    BY <1>1, <1>2, Four DEF Shutdown
  <1>4. Shutdown(<<a, d>>)
    BY <1>1, <1>2, Two DEF Shutdown
  <1>5. Shutdown(Drain) /\ Shutdown(DrainBoth)
    BY Drains DEF Shutdown, Openers, Starters, Listens
  <1>6. QED  BY <1>3, <1>4, <1>5 DEF a, b, c, d

\* Every program.
LEMMA Programs == ASSUME NEW s \in ServiceNames PROVE Ordered(Program(s))
  <1>1. /\ Ordered(Main(Database, Serve, Drain))
        /\ Ordered(Main(Database, ServeBoth, DrainBoth))
    BY DatabaseIsSetup, Shutdowns, MainIsOrdered
  <1>2. ASSUME NEW a \in {"dial ledger", "seed", "open s3", "start consumers"}
        PROVE  /\ Ordered(Main(Database \o <<a>>, Serve, Drain))
               /\ Ordered(Main(Database \o <<a>>, ServeBoth, DrainBoth))
    BY DatabaseAnd, Shutdowns, MainIsOrdered
  <1>3. Ordered(EventsMain)
    BY DatabaseAnd, Shutdowns, MainIsOrdered DEF EventsMain
  <1>4. Ordered(AuthMain)
    BY DatabaseAndRedis, Shutdowns, MainIsOrdered DEF AuthMain
  <1>5. Ordered(TransactionMain) /\ Ordered(PaymentMain) /\ Ordered(WalletMain)
    BY DatabaseAndRelay, Shutdowns, MainIsOrdered DEF TransactionMain, PaymentMain, WalletMain
  <1>6. Ordered(ApiGatewayMain)
    BY ProxyIsSetup, Shutdowns, MainIsOrdered DEF ApiGatewayMain
  <1>7. Ordered(LedgerMain) /\ Ordered(RowsMain)
    BY <1>1 DEF LedgerMain, RowsMain
  <1>8. /\ Ordered(AccountMain) /\ Ordered(AuthzMain) /\ Ordered(LoanMain)
        /\ Ordered(DocumentMain) /\ Ordered(AdminMain) /\ Ordered(CurrencyExchangeMain)
    BY <1>2 DEF AccountMain, AuthzMain, LoanMain, DocumentMain, AdminMain, CurrencyExchangeMain
  <1>9. Program(s) \in {LedgerMain, AccountMain, AuthMain, AuthzMain, TransactionMain, PaymentMain,
                        WalletMain, LoanMain, DocumentMain, AdminMain, CurrencyExchangeMain,
                        RowsMain, EventsMain, ApiGatewayMain}
    BY DEF Program, ServiceNames, BeneficiaryMain, CardMain, CustomerMain, EmailMain, EmiMain,
       FixedDepositMain, InvestmentMain, KycMain, ProfileMain, RecurringDepositMain, SmsMain,
       SupportMain, AnalyticsMain, AuditMain, FraudMain, NotificationMain, ReportsMain, SearchMain,
       StatementMain
  <1>10. QED
    BY <1>3, <1>4, <1>5, <1>6, <1>7, <1>8, <1>9

-----------------------------------------------------------------------------
(* Taking the next call. *)

\* What is left is as well ordered, and lacks the call that was taken.
LEMMA Tails ==
    ASSUME NEW p, WellOrdered(p), p # <<>>
    PROVE  /\ WellOrdered(Tail(p))
           /\ Head(p) \in CallNames /\ Head(p) \in Of(p)
           /\ Of(p) = {Head(p)} \cup Of(Tail(p))
           /\ Head(p) \in Starters => Of(Tail(p)) \cap Openers = {}
           /\ Head(p) \in Listens => Head(p) \notin Of(Tail(p))
           /\ Head(p) = "open postgres" => Tail(p) # <<>> /\ Head(Tail(p)) = "migrate"
  <1> DEFINE q == Tail(p)
             n == Len(p)
  <1>1. /\ p \in Seq(CallNames) /\ DOMAIN p = 1..n /\ n \in Nat /\ n > 0
        /\ q \in Seq(CallNames) /\ DOMAIN q = 1..(n - 1) /\ Len(q) = n - 1
        /\ \A i \in 1..(n - 1) : q[i] = p[i + 1]
        /\ Head(p) = p[1]
    <2>1. p \in Seq(CallNames)
      BY DEF WellOrdered
    <2>2. QED  BY <2>1
  <1>2. ASSUME NEW i \in 1..(n - 1)
        PROVE  i + 1 \in DOMAIN p /\ p[i + 1] = q[i]
    BY <1>1
  <1>3. q # <<>> => Head(q) = q[1]
    BY <1>1
  <1> HIDE DEF q, n
  <1>4. n > 1 => q # <<>>
    <2>1. Len(<<>>) = 0
      OBVIOUS
    <2>2. QED  BY <1>1, <2>1
  <1>5. ASSUME NEW i \in DOMAIN q, q[i] = "open postgres"
        PROVE  i + 1 \in DOMAIN q /\ q[i + 1] = "migrate"
    <2>1. (i + 1) + 1 \in DOMAIN p /\ p[(i + 1) + 1] = "migrate"
      BY <1>1, <1>2, <1>5 DEF WellOrdered
    <2>2. i + 1 \in 1..(n - 1)
      BY <1>1, <2>1
    <2>3. QED  BY <1>1, <1>2, <2>1, <2>2
  <1>6. ASSUME NEW i \in DOMAIN q, NEW j \in DOMAIN q, i < j
        PROVE  /\ q[i] \in Starters => q[j] \notin Openers
               /\ q[i] \in Listens => q[j] # q[i]
    <2>1. /\ i + 1 \in DOMAIN p /\ j + 1 \in DOMAIN p /\ i + 1 < j + 1
          /\ p[i + 1] = q[i] /\ p[j + 1] = q[j]
      BY <1>1, <1>2, <1>6
    <2>2. /\ p[i + 1] \in Starters => p[j + 1] \notin Openers
          /\ p[i + 1] \in Listens => p[j + 1] # p[i + 1]
      BY <2>1 DEF WellOrdered
    <2>3. QED  BY <2>1, <2>2
  <1>7. WellOrdered(q)
    BY <1>1, <1>5, <1>6 DEF WellOrdered
  <1>8. Of(p) = {p[1]} \cup Of(q)
    <2>1. ASSUME NEW i \in DOMAIN p, i # 1 PROVE p[i] \in Of(q)
      <3>1. i - 1 \in DOMAIN q /\ q[i - 1] = p[i]
        <4>1. i - 1 \in 1..(n - 1) /\ (i - 1) + 1 = i
          BY <1>1, <2>1
        <4>2. QED  BY <1>1, <4>1
      <3>2. QED  BY <3>1 DEF Of
    <2>2. ASSUME NEW i \in DOMAIN q PROVE q[i] \in Of(p)
      <3>1. i + 1 \in DOMAIN p /\ q[i] = p[i + 1]
        BY <1>1, <1>2
      <3>2. QED  BY <3>1 DEF Of
    <2>3. 1 \in DOMAIN p
      BY <1>1
    <2>4. QED  BY <2>1, <2>2, <2>3 DEF Of
  <1>9. ASSUME NEW x \in Of(q)
        PROVE  \E j \in DOMAIN p : 1 < j /\ x = p[j]
    <2>1. PICK i \in DOMAIN q : x = q[i]
      BY <1>9 DEF Of
    <2>2. i + 1 \in DOMAIN p /\ 1 < i + 1 /\ x = p[i + 1]
      BY <1>1, <1>2, <2>1
    <2>3. QED  BY <2>2
  <1>10. 1 \in DOMAIN p
    BY <1>1
  <1>11. /\ p[1] \in Starters => Of(q) \cap Openers = {}
         /\ p[1] \in Listens => p[1] \notin Of(q)
    <2>1. ASSUME NEW x \in Of(q)
          PROVE  /\ p[1] \in Starters => x \notin Openers
                 /\ p[1] \in Listens => x # p[1]
      <3>1. PICK j \in DOMAIN p : 1 < j /\ x = p[j]
        BY <1>9
      <3>2. /\ p[1] \in Starters => p[j] \notin Openers
            /\ p[1] \in Listens => p[j] # p[1]
        BY <1>10, <3>1 DEF WellOrdered
      <3>3. QED  BY <3>1, <3>2
    <2>2. QED  BY <2>1
  <1>12. ASSUME p[1] = "open postgres" PROVE q # <<>> /\ Head(q) = "migrate"
    <2>1. 1 + 1 \in DOMAIN p /\ p[1 + 1] = "migrate"
      BY <1>10, <1>12 DEF WellOrdered
    <2>2. n > 1 /\ 1 \in 1..(n - 1)
      BY <1>1, <2>1
    <2>3. QED  BY <1>2, <1>3, <1>4, <2>1, <2>2
  <1>13. p[1] \in CallNames
    BY <1>1, <1>10
  <1>14. QED
    BY <1>1, <1>7, <1>8, <1>11, <1>12, <1>13 DEF q

\* Nothing is left.
LEMMA Nothing == WellOrdered(<<>>) /\ Of(<<>>) = {}
  <1> DEFINE p == <<>>
  <1>1. p \in Seq(CallNames) /\ DOMAIN p = {}
    OBVIOUS
  <1> HIDE DEF p
  <1>2. WellOrdered(p) /\ Of(p) = {}
    BY <1>1 DEF WellOrdered, Of
  <1>3. QED  BY <1>2 DEF p

-----------------------------------------------------------------------------
(* What a step does to the state that the invariant speaks of. *)

ListenCall(s) == IF s = "http" THEN "listen http" ELSE "listen grpc"

Popped ==
    /\ phase \in {"start", "stop"} /\ UNCHANGED phase
    /\ todo # <<>> /\ todo' = Tail(todo)

\* A call that opens nothing the invariant speaks of, or one that is switched off.
Passes ==
    /\ Popped
    /\ Head(todo) \in Openers \cup Starters => ~Enabled(Head(todo))
    /\ \A d \in {"postgres"} : d \in clients' => d \in clients
    /\ \A u \in Users : user'[u] \in {user[u], "off"}
    /\ UNCHANGED <<server, errCh, checks, database>>
OpensPool ==
    /\ Popped /\ Head(todo) = "open postgres" /\ Enabled("open postgres")
    /\ UNCHANGED <<server, errCh, checks, user, database>>
Migrates ==
    /\ Popped /\ Head(todo) = "migrate" /\ Migrated(service)
    /\ UNCHANGED <<clients, server, errCh, checks, user>>
Registers(d) ==
    /\ Popped /\ Head(todo) = CheckCall(d) /\ checks' = checks \cup {d}
    /\ UNCHANGED <<clients, server, errCh, user, database>>
Begins ==
    /\ Popped /\ Head(todo) \in {"start relay", "start consumers"}
    /\ \A u \in Users : user'[u] \in {user[u], "idle"}
    /\ \A u \in Users : user'[u] = "querying" => user[u] = "querying"
    /\ UNCHANGED <<clients, checks, server, errCh, database>>
BeginsToListen(s) ==
    /\ Popped /\ Head(todo) = ListenCall(s) /\ server' = [server EXCEPT ![s] = "starting"]
    /\ UNCHANGED <<clients, checks, errCh, user, database>>
Returns ==
    /\ phase \in {"start", "stop"} /\ phase' = "return" /\ todo' = <<>>
    /\ \/ UNCHANGED errCh
       \/ errCh # <<>> /\ errCh' = Tail(errCh)
    /\ UNCHANGED <<clients, checks, server, user, database>>
BeginsToStop ==
    /\ phase = "start" /\ todo = <<>> /\ phase' = "stop" /\ todo' = Program(service).stop
    /\ UNCHANGED <<clients, checks, server, errCh, user, database>>
Ends ==
    /\ phase' \in {"return", "exited"}
    /\ phase' = "return" => phase = "return"
    /\ clients' \subseteq clients
    /\ UNCHANGED <<todo, checks, server, errCh, user, database>>
ServerMoves(s) ==
    /\ server[s] # "off"
    /\ \E x \in {"built", "listening", "closing", "down"} :
          /\ server' = [server EXCEPT ![s] = x]
          /\ server[s] # "down"
          /\ IF x = "down" THEN errCh' = Append(errCh, s) ELSE UNCHANGED errCh
    /\ UNCHANGED <<phase, todo, clients, checks, user, database>>
UserMoves(u) ==
    /\ \E x \in {"off", "idle", "querying"} :
          /\ user' = [user EXCEPT ![u] = x]
          /\ x = "querying" => "postgres" \in clients
    /\ \/ user[u] # "off"
       \/ u \in Servers /\ server[u] # "off"
    /\ UNCHANGED <<phase, todo, clients, checks, server, errCh, database>>
Elsewhere == UNCHANGED <<phase, todo, clients, checks, server, errCh, user, database>>
OthersMigrate ==
    /\ Migrated(Neighbour)
    /\ UNCHANGED <<phase, todo, clients, checks, server, errCh, user>>

\* Every step has one of these effects, and none changes the configuration.
LEMMA Effects ==
    ASSUME TypeOK, [Next]_vars
    PROVE  /\ UNCHANGED config
           /\ \/ Passes \/ OpensPool \/ Migrates \/ Begins \/ Returns \/ BeginsToStop \/ Ends
              \/ Elsewhere \/ OthersMigrate
              \/ Fresh /\ UNCHANGED database
              \/ \E d \in Stores : Registers(d)
              \/ \E s \in Servers : BeginsToListen(s) \/ ServerMoves(s)
              \/ \E u \in Users : UserMoves(u)
  <1> DEFINE Goal == /\ UNCHANGED config
                     /\ \/ Passes \/ OpensPool \/ Migrates \/ Begins
                        \/ Returns \/ BeginsToStop \/ Ends
                        \/ Elsewhere \/ OthersMigrate
                        \/ Fresh /\ UNCHANGED database
                        \/ \E d \in Stores : Registers(d)
                        \/ \E s \in Servers : BeginsToListen(s) \/ ServerMoves(s)
                        \/ \E u \in Users : UserMoves(u)
  <1> USE DEF servers, health, signals, main
  <1>1. ASSUME Prepare \/ OpenLazily \/ Seed \/ SetReady \/ StartTimeout \/ CloseConsumers
               \/ ShutdownUnstarted \/ Skip
        PROVE  UNCHANGED config /\ Passes
    BY <1>1 DEF Prepare, OpenLazily, Seed, SetReady, StartTimeout, CloseConsumers, Skip, Call,
       ShutdownUnstarted, Passes, Popped, Openers, Starters, Listens
  <1>2. ASSUME NEW d \in Stores, OpenStore(d)
        PROVE  UNCHANGED config /\ (Passes \/ OpensPool)
    BY <1>2 DEF OpenStore, Stores, Call, Passes, OpensPool, Popped, Openers, Starters, Listens
  <1>3. ASSUME NEW d \in Stores, Register(d)
        PROVE  UNCHANGED config /\ Registers(d)
    BY <1>3 DEF Register, Call, Registers, CheckCall, Popped
  <1>4. ASSUME Migrate PROVE UNCHANGED config /\ Migrates
    BY <1>4 DEF Migrate, Call, Migrates, Popped
  <1>5. ASSUME StartBackground PROVE UNCHANGED config /\ Begins
    BY <1>5 DEF StartBackground, Call, Begins, Popped, TypeOK
  <1>6. ASSUME NEW s \in Servers, GoStart(s) PROVE UNCHANGED config /\ BeginsToListen(s)
    BY <1>6 DEF GoStart, Call, BeginsToListen, ListenCall, Popped
  <1>7. ASSUME StartFails \/ Stopped PROVE UNCHANGED config /\ Returns
    BY <1>7 DEF StartFails, Stopped, Returns, Return
  <1>8. ASSUME Started PROVE UNCHANGED config /\ (Returns \/ BeginsToStop)
    BY <1>8 DEF Started, Returns, Return, BeginsToStop
  <1>9. ASSUME NEW s \in Servers, Drained(s) PROVE UNCHANGED config /\ Passes
    BY <1>9 DEF Drained, Stopping, Call, Passes, Popped, Openers, Starters, Listens
  <1>10. ASSUME DrainTimesOut PROVE UNCHANGED config /\ (Passes \/ Returns)
    BY <1>10 DEF DrainTimesOut, Stopping, Call, Passes, Popped, Returns, Return, TypeOK,
       Openers, Starters, Listens
  <1>11. ASSUME Deferred \/ Exit \/ Kill PROVE UNCHANGED config /\ Ends
    BY <1>11 DEF Deferred, Exit, Kill, Ends
  <1>12. ASSUME Signal PROVE UNCHANGED config /\ (Ends \/ Elsewhere)
    BY <1>12 DEF Signal, Ends, Elsewhere
  <1>13. ASSUME NEW s \in Servers, BeginShutdown(s) \/ Listen(s) \/ StartReturns(s)
         PROVE  UNCHANGED config /\ ServerMoves(s)
    BY <1>13 DEF BeginShutdown, Listen, StartReturns, ServerMoves
  <1>14. ASSUME Build PROVE UNCHANGED config /\ ServerMoves("http")
    BY <1>14 DEF Build, ServerMoves
  <1>15. ASSUME NEW s \in Servers, Arrive(s) PROVE UNCHANGED config /\ UserMoves(s)
    BY <1>15 DEF Arrive, UserMoves
  <1>16. ASSUME NEW u \in Users, Query(u) \/ QueryEnds(u) \/ Finish(u)
         PROVE  UNCHANGED config /\ UserMoves(u)
    BY <1>16 DEF Query, QueryEnds, Finish, UserMoves
  <1>17. ASSUME \/ Expire \/ ProbeStarts \/ ProbeAnswers
                \/ \E d \in Stores : StoreChanges(d) \/ ProbePings(d)
         PROVE  UNCHANGED config /\ Elsewhere
    BY <1>17 DEF Expire, ProbeStarts, ProbeAnswers, StoreChanges, ProbePings, Elsewhere
  <1>18. ASSUME Restart PROVE UNCHANGED config /\ Fresh /\ UNCHANGED database
    BY <1>18 DEF Restart
  <1>19. ASSUME NeighbourMigrates PROVE UNCHANGED config /\ OthersMigrate
    BY <1>19 DEF NeighbourMigrates, OthersMigrate
  <1>20. CASE UNCHANGED vars
    BY <1>20 DEF vars, Elsewhere
  <1>21. ASSUME Run PROVE Goal
    BY <1>1, <1>2, <1>3, <1>4, <1>5, <1>6, <1>7, <1>8, <1>9, <1>10, <1>11, <1>13, <1>21 DEF Run
  <1>22. QED
    BY <1>12, <1>11, <1>13, <1>14, <1>15, <1>16, <1>17, <1>18, <1>19, <1>20, <1>21
       DEF Next, Users, Servers

-----------------------------------------------------------------------------
(* The inductive invariant. *)

Off == \A s \in Servers : server[s] = "off"
Quiet == Off /\ \A u \in Users : user[u] = "off"

\* The calls to come are in order; the shutdown opens and starts nothing.
TodoInv ==
    /\ WellOrdered(todo)
    /\ phase = "stop" => Of(todo) \cap (Openers \cup Starters) = {}

\* Nothing runs while something is still to be opened.
QuietInv ==
    (phase \in {"start", "stop"} /\ Of(todo) \cap Openers # {}) => Quiet

\* The pool is open and the migrations are not done: they are next, or they have failed
\* and run() returns.
Unmigrated ==
    /\ Quiet
    /\ "postgres" \in options
    /\ phase # "stop"
    /\ phase = "start" => todo # <<>> /\ Head(todo) = "migrate"

MigratedInv ==
    /\ versions \subseteq tables
    /\ "postgres" \in clients => service \in tables \/ Unmigrated
    /\ QueriesFindTables

\* A store that the service uses is among the checks before a server runs.
CheckedInv ==
    \A d \in Stores : Uses(d) =>
        \/ d \in checks
        \/ Off /\ phase # "stop" /\ (phase = "start" => CheckCall(d) \in Of(todo))

\* A server that has been started is not started again.
ListenInv ==
    \A s \in Servers : server[s] # "off" /\ phase = "start" => ListenCall(s) \notin Of(todo)

\* Start returns once: a server is down after it has sent its error.
Down(s) == IF server[s] = "down" THEN 1 ELSE 0
ErrInv == errCh \in Seq(Servers) /\ Len(errCh) <= Down("http") + Down("grpc")

\* A probe whose checks have all passed so far has each store that the service uses
\* behind it or before it.
ProbeInv ==
    probe.running /\ probe.healthy =>
        \A d \in Stores : Uses(d) => d \in probe.left \cup probe.reached

LifecycleInv ==
    TypeOK /\ TodoInv /\ QuietInv /\ MigratedInv /\ CheckedInv /\ ListenInv /\ ErrInv /\ ProbeInv

-----------------------------------------------------------------------------
(* It holds at first, and every step keeps it. *)

\* The program of the service is in order.
LEMMA OwnProgram == ASSUME TypeOK PROVE Ordered(Program(service))
  BY RunningAssumption, Programs DEF TypeOK

\* A store in use is one whose opening the program has, and so its check.
LEMMA UsedIsChecked ==
    ASSUME TypeOK, NEW d \in Stores, Uses(d)
    PROVE  CheckCall(d) \in Of(Program(service).start) /\ Enabled(CheckCall(d))
  <1>1. OpenCall(d) \in Of(Program(service).start) /\ Enabled(OpenCall(d))
    BY DEF Uses, OpenCall, Of
  <1>2. CheckCall(d) \in Of(Program(service).start)
    BY <1>1, OwnProgram DEF Ordered
  <1>3. Enabled(CheckCall(d))
    BY <1>1 DEF Enabled, Needed, OpenCall, CheckCall, Stores
  <1>4. QED  BY <1>2, <1>3

\* What is left when a call has been taken.
LEMMA PoppedIs ==
    ASSUME TodoInv, Popped
    PROVE  /\ WellOrdered(todo') /\ Of(todo) = {Head(todo)} \cup Of(todo')
           /\ Head(todo) \in Starters => Of(todo') \cap Openers = {} /\ phase = "start"
           /\ Head(todo) \in Openers => phase = "start"
           /\ Head(todo) \in Listens => Head(todo) \notin Of(todo')
           /\ Head(todo) = "open postgres" => todo' # <<>> /\ Head(todo') = "migrate"
           /\ phase' = phase /\ phase \in {"start", "stop"} /\ todo # <<>>
  <1>1. WellOrdered(todo) /\ todo # <<>> /\ todo' = Tail(todo)
    BY DEF TodoInv, Popped
  <1>2. /\ WellOrdered(todo') /\ Head(todo) \in Of(todo) /\ Of(todo) = {Head(todo)} \cup Of(todo')
        /\ Head(todo) \in Starters => Of(todo') \cap Openers = {}
        /\ Head(todo) \in Listens => Head(todo) \notin Of(todo')
        /\ Head(todo) = "open postgres" => todo' # <<>> /\ Head(todo') = "migrate"
    BY <1>1, Tails
  <1>3. phase = "stop" => Head(todo) \notin Openers \cup Starters
    BY <1>2 DEF TodoInv
  <1>4. QED  BY <1>1, <1>2, <1>3 DEF Popped

\* Every effect that takes a call.
LEMMA Takes ==
    /\ Passes \/ OpensPool \/ Migrates \/ Begins => Popped
    /\ \A d \in Stores : Registers(d) => Popped
    /\ \A s \in Servers : BeginsToListen(s) => Popped
  BY DEF Passes, OpensPool, Migrates, Begins, Registers, BeginsToListen

\* Every step leaves the calls to come in order.
LEMMA TodoStep == LifecycleInv /\ [Next]_vars => TodoInv'
  <1> SUFFICES ASSUME TypeOK, TodoInv, [Next]_vars PROVE TodoInv'
    BY DEF LifecycleInv
  <1>1. CASE Popped
    BY <1>1, PoppedIs DEF TodoInv
  <1>2. CASE Returns
    BY <1>2, Nothing DEF TodoInv, Returns
  <1>3. CASE BeginsToStop
    BY <1>3, OwnProgram DEF TodoInv, BeginsToStop, Ordered
  <1>4. CASE Fresh
    BY <1>4, OwnProgram, Effects DEF TodoInv, Fresh, Ordered
  <1>5. CASE Ends
    BY <1>5 DEF TodoInv, Ends
  <1>6. CASE UNCHANGED <<phase, todo>>
    BY <1>6 DEF TodoInv
  <1>7. QED
    BY <1>1, <1>2, <1>3, <1>4, <1>5, <1>6, Effects, Takes
       DEF Elsewhere, OthersMigrate, ServerMoves, UserMoves

\* Every step leaves everything off while something is still to be opened.
LEMMA QuietStep == LifecycleInv /\ [Next]_vars => QuietInv'
  <1> SUFFICES ASSUME TypeOK, TodoInv, QuietInv, [Next]_vars PROVE QuietInv'
    BY DEF LifecycleInv
  <1> USE DEF QuietInv, Quiet, Off
  <1>1. CASE Passes
    BY <1>1, PoppedIs DEF Passes
  <1>2. CASE OpensPool \/ Migrates \/ \E d \in Stores : Registers(d)
    BY <1>2, PoppedIs, Takes DEF OpensPool, Migrates, Registers
  <1>3. CASE Begins \/ \E s \in Servers : BeginsToListen(s)
    <2>1. Head(todo) \in Starters
      BY <1>3 DEF Begins, BeginsToListen, Starters, Listens, ListenCall
    <2>2. QED  BY <1>3, <2>1, PoppedIs, Takes
  <1>4. CASE Returns
    BY <1>4 DEF Returns
  <1>5. CASE BeginsToStop
    BY <1>5, OwnProgram DEF BeginsToStop, Ordered
  <1>6. CASE Ends
    BY <1>6 DEF Ends
  <1>7. CASE Fresh
    BY <1>7 DEF Fresh
  <1>8. CASE Elsewhere \/ OthersMigrate
    BY <1>8 DEF Elsewhere, OthersMigrate
  <1>9. ASSUME NEW s \in Servers, ServerMoves(s) PROVE QuietInv'
    BY <1>9 DEF ServerMoves
  <1>10. ASSUME NEW u \in Users, UserMoves(u) PROVE QuietInv'
    BY <1>10 DEF UserMoves
  <1>11. QED
    BY <1>1, <1>2, <1>3, <1>4, <1>5, <1>6, <1>7, <1>8, <1>9, <1>10, Effects

\* Migrations leave tables for every version they list.
LEMMA MigratedIs ==
    ASSUME versions \subseteq tables, NEW s, Migrated(s)
    PROVE  versions' \subseteq tables' /\ tables \subseteq tables' /\ s \in tables'
  BY DEF Migrated, VersionTable

\* Every step leaves the tables in place before a query can be sent.
LEMMA MigratedStep == LifecycleInv /\ [Next]_vars => MigratedInv'
  <1> SUFFICES ASSUME TypeOK, TodoInv, QuietInv, MigratedInv, [Next]_vars PROVE MigratedInv'
    BY DEF LifecycleInv
  <1> USE DEF MigratedInv, QueriesFindTables, Alive, database
  <1>0. UNCHANGED <<service, options>>
    BY Effects DEF config
  <1>1. CASE Passes
    <2>1. Unmigrated => FALSE
      <3> SUFFICES ASSUME Unmigrated PROVE FALSE
        OBVIOUS
      <3>1. phase = "start" /\ Head(todo) = "migrate" /\ "postgres" \in options
        BY <1>1 DEF Unmigrated, Passes, Popped
      <3>2. Enabled("migrate")
        BY <3>1 DEF Enabled, Needed
      <3>3. QED  BY <1>1, <3>1, <3>2 DEF Passes, Openers
    <2>2. \A u \in Users : user'[u] = "querying" => user[u] = "querying"
      BY <1>1 DEF Passes
    <2>3. QED  BY <1>0, <1>1, <2>1, <2>2 DEF Passes, Popped
  <1>2. CASE OpensPool
    <2>1. phase = "start" /\ phase' = phase /\ todo' # <<>> /\ Head(todo') = "migrate"
          /\ Head(todo) \in Of(todo)
      BY <1>2, PoppedIs, Takes DEF OpensPool, Openers
    <2>2. Quiet
      BY <1>2, <2>1 DEF OpensPool, QuietInv, Openers
    <2>3. "postgres" \in options
      BY <1>2 DEF OpensPool, Enabled, Needed
    <2>4. Unmigrated'
      BY <1>0, <1>2, <2>1, <2>2, <2>3 DEF Unmigrated, Quiet, Off, OpensPool
    <2>5. QED  BY <1>0, <1>2, <2>1, <2>4 DEF OpensPool
  <1>3. CASE Migrates
    BY <1>0, <1>3, MigratedIs DEF Migrates, Popped
  <1>4. CASE \/ Begins \/ \E d \in Stores : Registers(d)
             \/ \E s \in Servers : BeginsToListen(s)
    <2>1. Popped /\ Head(todo) # "migrate"
      BY <1>4, Takes DEF Begins, Registers, BeginsToListen, CheckCall, ListenCall
    <2>2. ~Unmigrated
      <3>1. Head(todo) \in Openers \cup Starters
        BY <1>4 DEF Begins, Registers, BeginsToListen, CheckCall, ListenCall, Openers, Starters,
           Listens
      <3>2. phase = "start"
        BY <2>1, <3>1, PoppedIs
      <3>3. QED  BY <2>1, <3>2 DEF Unmigrated
    <2>3. /\ clients' = clients /\ UNCHANGED <<versions, tables, phase>>
          /\ \A u \in Users : user'[u] = "querying" => user[u] = "querying"
      BY <1>4 DEF Begins, Registers, BeginsToListen, Popped
    <2>4. QED  BY <1>0, <2>2, <2>3
  <1>5. CASE Returns \/ Ends
    BY <1>0, <1>5 DEF Returns, Ends, Unmigrated, Quiet, Off
  <1>6. CASE BeginsToStop
    <2>1. ~Unmigrated
      BY <1>6 DEF BeginsToStop, Unmigrated
    <2>2. QED  BY <1>0, <1>6, <2>1 DEF BeginsToStop
  <1>7. CASE Elsewhere
    BY <1>0, <1>7 DEF Elsewhere, Unmigrated, Quiet, Off
  <1>8. CASE OthersMigrate
    <2>1. versions' \subseteq tables' /\ tables \subseteq tables'
      BY <1>8, MigratedIs DEF OthersMigrate
    <2>2. Unmigrated => Unmigrated'
      BY <1>0, <1>8 DEF OthersMigrate, Unmigrated, Quiet, Off
    <2>3. QED  BY <1>0, <1>8, <2>1, <2>2 DEF OthersMigrate
  <1>9. CASE Fresh /\ UNCHANGED database
    BY <1>0, <1>9 DEF Fresh
  <1>10. ASSUME NEW s \in Servers, ServerMoves(s) PROVE MigratedInv'
    <2>1. ~Unmigrated
      BY <1>10 DEF ServerMoves, Unmigrated, Quiet, Off
    <2>2. QED  BY <1>0, <1>10, <2>1 DEF ServerMoves
  <1>11. ASSUME NEW u \in Users, UserMoves(u) PROVE MigratedInv'
    <2>1. ~Unmigrated
      BY <1>11 DEF UserMoves, Unmigrated, Quiet, Off
    <2>2. PICK x \in {"off", "idle", "querying"} :
              user' = [user EXCEPT ![u] = x] /\ (x = "querying" => "postgres" \in clients)
      BY <1>11 DEF UserMoves
    <2>3. UNCHANGED <<phase, clients, versions, tables>>
      BY <1>11 DEF UserMoves
    <2>4. ASSUME NEW v \in Users, user'[v] = "querying", phase # "exited"
          PROVE  service \in tables
      BY <2>1, <2>2, <2>4 DEF TypeOK
    <2>5. QED  BY <1>0, <2>1, <2>3, <2>4
  <1>12. QED
    BY <1>1, <1>2, <1>3, <1>4, <1>5, <1>6, <1>7, <1>8, <1>9, <1>10, <1>11, Effects

\* A server is started only when every store in use is among the checks.
LEMMA CheckedStep == LifecycleInv /\ [Next]_vars => CheckedInv'
  <1> SUFFICES ASSUME TypeOK, TodoInv, CheckedInv, [Next]_vars, NEW d \in Stores, Uses(d)'
               PROVE  \/ d \in checks'
                      \/ Off' /\ phase' # "stop" /\ (phase' = "start" => CheckCall(d) \in Of(todo'))
    BY DEF LifecycleInv, CheckedInv, CheckCall
  <1>0. UNCHANGED <<service, options>> /\ Uses(d)
    BY Effects DEF config, Uses, Enabled
  <1>1. \/ d \in checks
        \/ Off /\ phase # "stop" /\ (phase = "start" => CheckCall(d) \in Of(todo))
    BY <1>0 DEF CheckedInv
  <1>2. CheckCall(d) \in Openers /\ CheckCall(d) \notin Starters
    BY DEF CheckCall, Openers, Starters, Listens
  <1>3. CASE Passes
    <2>1. Head(todo) # CheckCall(d)
      BY <1>0, <1>2, <1>3, UsedIsChecked DEF Passes
    <2>2. QED  BY <1>1, <1>3, <2>1, PoppedIs DEF Passes, Off
  <1>4. CASE OpensPool \/ Migrates \/ Begins
    <2>1. Head(todo) # CheckCall(d)
      BY <1>4 DEF OpensPool, Migrates, Begins, CheckCall
    <2>2. QED  BY <1>1, <1>4, <2>1, PoppedIs, Takes DEF OpensPool, Migrates, Begins, Off
  <1>5. ASSUME NEW e \in Stores, Registers(e)
        PROVE  \/ d \in checks'
               \/ Off' /\ phase' # "stop" /\ (phase' = "start" => CheckCall(d) \in Of(todo'))
    <2>1. Head(todo) = CheckCall(d) => d = e
      BY <1>5 DEF Registers, CheckCall, Stores
    <2>2. QED  BY <1>1, <1>5, <2>1, PoppedIs, Takes DEF Registers, Off
  <1>6. ASSUME NEW s \in Servers, BeginsToListen(s) PROVE d \in checks'
    <2>1. Head(todo) \in Starters
      BY <1>6 DEF BeginsToListen, ListenCall, Starters, Listens
    <2>2. phase = "start" /\ CheckCall(d) \notin Of(todo)
      BY <1>2, <1>6, <2>1, PoppedIs, Takes
    <2>3. QED  BY <1>1, <1>6, <2>2 DEF BeginsToListen
  <1>7. CASE Returns
    BY <1>1, <1>7 DEF Returns, Off
  <1>8. CASE BeginsToStop
    BY <1>1, <1>8, Nothing DEF BeginsToStop
  <1>9. CASE Ends
    BY <1>1, <1>9 DEF Ends, Off
  <1>10. CASE Elsewhere \/ OthersMigrate
    BY <1>1, <1>10 DEF Elsewhere, OthersMigrate, Off
  <1>11. CASE Fresh
    BY <1>0, <1>11, UsedIsChecked DEF Fresh, Off
  <1>12. ASSUME NEW s \in Servers, ServerMoves(s) PROVE d \in checks'
    BY <1>1, <1>12 DEF ServerMoves, Off
  <1>13. ASSUME NEW u \in Users, UserMoves(u)
         PROVE  \/ d \in checks'
                \/ Off' /\ phase' # "stop" /\ (phase' = "start" => CheckCall(d) \in Of(todo'))
    BY <1>1, <1>13 DEF UserMoves, Off
  <1>14. QED
    BY <1>3, <1>4, <1>5, <1>6, <1>7, <1>8, <1>9, <1>10, <1>11, <1>12, <1>13, Effects

\* Only these steps concern the probe.
LEMMA ProbeMoves ==
    ASSUME [Next]_vars
    PROVE  \/ UNCHANGED probe \/ ProbeStarts \/ ProbeAnswers \/ probe' = NoProbe
           \/ \E d \in Stores : ProbePings(d)
  <1> USE DEF health, main, servers, signals
  <1>1. ASSUME Run PROVE UNCHANGED probe
    BY <1>1 DEF Run, Prepare, Skip, OpenStore, Register, Migrate, OpenLazily, StartBackground, Seed,
       SetReady, GoStart, StartFails, Started, StartTimeout, CloseConsumers, ShutdownUnstarted,
       BeginShutdown, Drained, DrainTimesOut, Stopped, Deferred, Exit
  <1>2. ASSUME \/ Build \/ Signal \/ Expire \/ Kill \/ NeighbourMigrates
               \/ \E s \in Servers : Listen(s) \/ StartReturns(s) \/ Arrive(s)
               \/ \E u \in Users : Query(u) \/ QueryEnds(u) \/ Finish(u)
               \/ \E d \in Stores : StoreChanges(d)
        PROVE  UNCHANGED probe
    BY <1>2 DEF Build, Signal, Expire, Kill, NeighbourMigrates, Listen, StartReturns, Arrive, Query,
       QueryEnds, Finish, StoreChanges
  <1>3. ASSUME Restart PROVE probe' = NoProbe
    BY <1>3 DEF Restart, Fresh
  <1>4. QED
    BY <1>1, <1>2, <1>3 DEF Next, vars

\* A probe starts with every store in use among its checks, and leaves a store behind
\* only with a ping, which is known to fail if the store was not reached.
LEMMA ProbeStep == LifecycleInv /\ [Next]_vars => ProbeInv'
  <1> SUFFICES ASSUME TypeOK, CheckedInv, ProbeInv, [Next]_vars,
                      (probe.running /\ probe.healthy)', NEW d \in Stores, Uses(d)'
               PROVE  d \in probe'.left \cup probe'.reached
    BY DEF LifecycleInv, ProbeInv
  <1>1. Uses(d)
    BY Effects DEF config, Uses, Enabled
  <1>2. CASE UNCHANGED probe
    BY <1>1, <1>2 DEF ProbeInv
  <1>3. CASE ProbeStarts
    <2>1. d \in checks
      BY <1>1, <1>3 DEF CheckedInv, ProbeStarts, Off, Servers
    <2>2. QED  BY <1>3, <2>1 DEF ProbeStarts
  <1>4. CASE ProbeAnswers \/ probe' = NoProbe
    BY <1>4 DEF ProbeAnswers, NoProbe
  <1>5. ASSUME NEW e \in Stores, ProbePings(e)
        PROVE  d \in probe'.left \cup probe'.reached
    <2>1. PICK passes \in BOOLEAN :
              /\ passes => e \in up \cap clients
              /\ probe' = [probe EXCEPT !.left = @ \ {e},
                                       !.healthy = Healthy(@, passes),
                                       !.reached = @ \cup ({e} \cap up \cap clients)]
      BY <1>5 DEF ProbePings
    <2>2. /\ probe'.left = probe.left \ {e}
          /\ probe'.healthy = (probe.healthy /\ passes)
          /\ probe'.reached = probe.reached \cup ({e} \cap up \cap clients)
      BY <2>1 DEF TypeOK, Healthy
    <2>3. d \in probe.left \cup probe.reached
      BY <1>1, <1>5, <2>2 DEF ProbeInv, ProbePings
    <2>4. QED  BY <2>1, <2>2, <2>3
  <1>6. QED
    BY <1>2, <1>3, <1>4, <1>5, ProbeMoves

\* A server is started from "off" only.
LEMMA StartsOff ==
    ASSUME TodoInv, ListenInv, NEW s \in Servers, BeginsToListen(s)
    PROVE  server[s] = "off" /\ phase = "start" /\ ListenCall(s) \notin Of(todo')
  <1>1. Head(todo) = ListenCall(s) /\ Head(todo) \in Listens /\ Head(todo) \in Starters
    BY DEF BeginsToListen, ListenCall, Listens, Starters
  <1>2. QED
    BY <1>1, PoppedIs, Takes DEF ListenInv

\* Every step leaves a started server not to be started again.
LEMMA ListenStep == LifecycleInv /\ [Next]_vars => ListenInv'
  <1> SUFFICES ASSUME TypeOK, TodoInv, ListenInv, [Next]_vars,
                      NEW s \in Servers, server'[s] # "off", phase' = "start"
               PROVE  ListenCall(s) \notin Of(todo')
    BY DEF LifecycleInv, ListenInv, ListenCall
  <1>1. ASSUME Popped, server[s] # "off" PROVE ListenCall(s) \notin Of(todo')
    BY <1>1, PoppedIs DEF ListenInv
  <1>2. CASE Passes \/ OpensPool \/ Migrates \/ Begins \/ \E d \in Stores : Registers(d)
    BY <1>1, <1>2, Takes DEF Passes, OpensPool, Migrates, Begins, Registers
  <1>3. ASSUME NEW r \in Servers, BeginsToListen(r) PROVE ListenCall(s) \notin Of(todo')
    <2>1. CASE r = s
      BY <1>3, <2>1, StartsOff
    <2>2. CASE r # s
      BY <1>1, <1>3, <2>2, Takes DEF BeginsToListen, TypeOK
    <2>3. QED  BY <2>1, <2>2
  <1>4. CASE Fresh
    BY <1>4 DEF Fresh
  <1>5. CASE Returns \/ BeginsToStop \/ Ends
    BY <1>5 DEF Returns, BeginsToStop, Ends
  <1>6. CASE Elsewhere \/ OthersMigrate \/ \E u \in Users : UserMoves(u)
    BY <1>6 DEF Elsewhere, OthersMigrate, UserMoves, ListenInv
  <1>7. ASSUME NEW r \in Servers, ServerMoves(r) PROVE ListenCall(s) \notin Of(todo')
    BY <1>7 DEF ServerMoves, ListenInv, TypeOK
  <1>8. QED
    BY <1>2, <1>3, <1>4, <1>5, <1>6, <1>7, Effects

\* Every step leaves one error at most of each server that is down.
LEMMA ErrStep == LifecycleInv /\ [Next]_vars => ErrInv'
  <1> SUFFICES ASSUME TypeOK, TodoInv, ListenInv, ErrInv, [Next]_vars PROVE ErrInv'
    BY DEF LifecycleInv
  <1> USE DEF ErrInv, Down
  <1>1. CASE UNCHANGED <<server, errCh>>
    BY <1>1
  <1>2. ASSUME NEW s \in Servers, BeginsToListen(s) PROVE ErrInv'
    <2>1. server[s] = "off" /\ server' = [server EXCEPT ![s] = "starting"] /\ errCh' = errCh
      BY <1>2, StartsOff DEF BeginsToListen
    <2>2. QED  BY <2>1 DEF TypeOK, Servers
  <1>3. CASE Returns
    BY <1>3 DEF Returns
  <1>4. CASE Fresh
    BY <1>4 DEF Fresh, Servers
  <1>5. ASSUME NEW s \in Servers, ServerMoves(s) PROVE ErrInv'
    <2>1. PICK x \in {"built", "listening", "closing", "down"} :
              /\ server' = [server EXCEPT ![s] = x]
              /\ server[s] # "down"
              /\ IF x = "down" THEN errCh' = Append(errCh, s) ELSE UNCHANGED errCh
      BY <1>5 DEF ServerMoves
    <2>2. CASE x = "down"
      <3>1. errCh' \in Seq(Servers) /\ Len(errCh') = Len(errCh) + 1 /\ Len(errCh) \in Nat
        BY <2>1, <2>2
      <3>2. Down("http")' + Down("grpc")' = Down("http") + Down("grpc") + 1
        <4>1. \A r \in Servers : server'[r] = IF r = s THEN "down" ELSE server[r]
          BY <2>1, <2>2 DEF TypeOK
        <4>2. CASE s = "http"
          BY <2>1, <4>1, <4>2 DEF Servers
        <4>3. CASE s = "grpc"
          BY <2>1, <4>1, <4>3 DEF Servers
        <4>4. QED  BY <4>2, <4>3 DEF Servers
      <3>3. QED  BY <3>1, <3>2
    <2>3. CASE x # "down"
      BY <2>1, <2>3 DEF TypeOK, Servers
    <2>4. QED  BY <2>2, <2>3
  <1>6. QED
    BY <1>1, <1>2, <1>3, <1>4, <1>5, Effects
       DEF Passes, OpensPool, Migrates, Begins, Registers, BeginsToStop, Ends, Elsewhere,
           OthersMigrate, UserMoves

\* There are two servers.
LEMMA TwoServers == Cardinality(Servers) = 2
  <1> DEFINE h == "http"
             g == "grpc"
  <1>1. h # g /\ Servers = {h} \cup {g}
    BY DEF Servers
  <1> HIDE DEF h, g
  <1>2. IsFiniteSet({h}) /\ Cardinality({h}) = 1
    BY FS_Singleton
  <1>3. g \notin {h}
    BY <1>1
  <1>4. Cardinality({h} \cup {g}) = Cardinality({h}) + 1
    BY <1>2, <1>3, FS_AddElement
  <1>5. QED  BY <1>1, <1>2, <1>4

ProbeStates ==
    [running : BOOLEAN, healthy : BOOLEAN, left : SUBSET Stores, reached : SUBSET Stores]

\* The types of a step, once the errors sent are known to be few.
LEMMA TypeStep == LifecycleInv /\ ErrInv' /\ [Next]_vars => TypeOK'
  <1> SUFFICES ASSUME TypeOK, ErrInv', [Next]_vars PROVE TypeOK'
    BY DEF LifecycleInv
  <1>1. Len(errCh') <= Cardinality(Servers)
    <2>1. Down("http")' + Down("grpc")' <= 2 /\ Down("http")' \in Int /\ Down("grpc")' \in Int
      BY DEF Down
    <2>2. QED  BY <2>1, TwoServers DEF ErrInv
  <1> USE <1>1 DEF servers, health, signals, main, database, config
  <1>2. ASSUME Prepare \/ OpenLazily \/ Seed \/ SetReady \/ StartTimeout \/ CloseConsumers
               \/ ShutdownUnstarted \/ Skip
        PROVE  TypeOK'
    BY <1>2 DEF Prepare, OpenLazily, Seed, SetReady, StartTimeout, CloseConsumers, Skip, Call,
       ShutdownUnstarted, TypeOK
  <1>3. ASSUME NEW d \in Stores, OpenStore(d) \/ Register(d) PROVE TypeOK'
    BY <1>3 DEF OpenStore, Register, Call, TypeOK
  <1>4. ASSUME Migrate \/ NeighbourMigrates PROVE TypeOK'
    BY <1>4 DEF Migrate, NeighbourMigrates, Migrated, Call, TypeOK
  <1>5. ASSUME StartBackground PROVE TypeOK'
    BY <1>5 DEF StartBackground, Call, TypeOK
  <1>6. ASSUME NEW s \in Servers, GoStart(s) \/ Drained(s) \/ BeginShutdown(s) PROVE TypeOK'
    BY <1>6 DEF GoStart, Drained, BeginShutdown, Call, TypeOK
  <1>7. ASSUME StartFails \/ Stopped \/ Started \/ DrainTimesOut PROVE TypeOK'
    BY <1>7 DEF StartFails, Stopped, Started, DrainTimesOut, Return, Call, TypeOK
  <1>8. ASSUME Deferred \/ Exit \/ Kill \/ Signal \/ Expire \/ Build PROVE TypeOK'
    BY <1>8 DEF Deferred, Exit, Kill, Signal, Expire, Build, TypeOK
  <1>9. ASSUME NEW s \in Servers, Listen(s) \/ StartReturns(s) PROVE TypeOK'
    BY <1>9 DEF Listen, StartReturns, TypeOK
  <1>10. ASSUME NEW s \in Servers, Arrive(s) PROVE TypeOK'
    BY <1>10 DEF Arrive, TypeOK
  <1>11. ASSUME NEW u \in Users, Query(u) \/ QueryEnds(u) \/ Finish(u) PROVE TypeOK'
    BY <1>11 DEF Query, QueryEnds, Finish, TypeOK
  <1>12. ASSUME NEW d \in Stores, StoreChanges(d) PROVE TypeOK'
    BY <1>12 DEF StoreChanges, TypeOK
  <1>13. ASSUME Restart PROVE TypeOK'
    BY <1>13 DEF Restart, Fresh, NoProbe, TypeOK
  <1>14. CASE UNCHANGED vars
    BY <1>14 DEF vars, TypeOK
  <1>15. ASSUME ProbeStarts \/ ProbeAnswers \/ \E d \in Stores : ProbePings(d) PROVE TypeOK'
    <2>1. probe' \in ProbeStates
      <3>1. CASE ProbeStarts \/ ProbeAnswers
        <4>1. ready \in BOOLEAN /\ checks \subseteq Stores
          BY DEF TypeOK
        <4>2. \A b \in BOOLEAN, c \in BOOLEAN, l \in SUBSET Stores, q \in SUBSET Stores :
                  [running |-> b, healthy |-> c, left |-> l, reached |-> q] \in ProbeStates
          BY DEF ProbeStates
        <4>3. TRUE \in BOOLEAN /\ FALSE \in BOOLEAN
              /\ {} \in SUBSET Stores /\ checks \in SUBSET Stores
          BY <4>1
        <4>4. \/ probe' = [running |-> TRUE, healthy |-> ready, left |-> checks, reached |-> {}]
              \/ probe' = [running |-> FALSE, healthy |-> FALSE, left |-> {}, reached |-> {}]
          BY <3>1, Zenon DEF ProbeStarts, ProbeAnswers, NoProbe
        <4>5. QED  BY <4>1, <4>2, <4>3, <4>4, Zenon
      <3>2. CASE \E d \in Stores : ProbePings(d)
        <4>1. PICK d \in Stores, passes \in BOOLEAN :
                  probe' = [probe EXCEPT !.left = @ \ {d},
                                         !.healthy = Healthy(@, passes),
                                         !.reached = @ \cup ({d} \cap up \cap clients)]
          BY <3>2 DEF ProbePings
        <4>2. probe \in ProbeStates
          BY DEF TypeOK, ProbeStates
        <4>3. (probe.healthy /\ passes) \in BOOLEAN
          OBVIOUS
        <4>4. QED  BY <4>1, <4>2, <4>3 DEF Healthy, ProbeStates
      <3>3. QED  BY <1>15, <3>1, <3>2
    <2>2. UNCHANGED <<config, main, signals, clients, checks, ready, servers, user, up, database>>
      BY <1>15 DEF ProbeStarts, ProbeAnswers, ProbePings
    <2>3. QED  BY <2>1, <2>2 DEF TypeOK, ProbeStates
  <1>16. QED
    BY <1>2, <1>3, <1>4, <1>5, <1>6, <1>7, <1>8, <1>9, <1>10, <1>11, <1>12, <1>13, <1>14, <1>15
       DEF Next, Run

\* A process that has not begun.
LEMMA LifecycleInit == Init => LifecycleInv
  <1> SUFFICES ASSUME Init PROVE LifecycleInv
    OBVIOUS
  <1>1. TypeOK
    <2>1. Len(errCh) <= Cardinality(Servers)
      BY TwoServers DEF Init
    <2>2. /\ server \in [Servers -> {"off", "starting", "built", "listening", "closing", "down"}]
          /\ user \in [Users -> {"off", "idle", "querying"}]
      BY DEF Init
    <2>3. service \in Running /\ options \subseteq Options
      BY DEF Init
    <2>4. probe \in [running : BOOLEAN, healthy : BOOLEAN, left : SUBSET Stores,
                      reached : SUBSET Stores]
      BY DEF Init, NoProbe
    <2>5. QED  BY <2>1, <2>2, <2>3, <2>4 DEF Init, TypeOK
  <1>2. WellOrdered(todo)
    BY <1>1, OwnProgram DEF Init, Ordered
  <1>3. Quiet /\ TodoInv /\ QuietInv /\ MigratedInv /\ ListenInv
    BY <1>2 DEF Init, Quiet, Off, TodoInv, QuietInv, MigratedInv, QueriesFindTables, ListenInv
  <1>4. CheckedInv
    BY <1>1, UsedIsChecked DEF Init, CheckedInv, Off
  <1>5. ErrInv
    BY DEF Init, ErrInv, Down, Servers
  <1>6. ProbeInv
    BY DEF Init, NoProbe, ProbeInv
  <1>7. QED  BY <1>1, <1>3, <1>4, <1>5, <1>6 DEF LifecycleInv

\* The invariant holds in every reachable state.
LEMMA LifecycleInvariance == Spec => []LifecycleInv
  <1>1. LifecycleInv /\ [Next]_vars => LifecycleInv'
    BY TodoStep, QuietStep, MigratedStep, CheckedStep, ListenStep, ErrStep, ProbeStep, TypeStep
       DEF LifecycleInv
  <1>2. QED  BY <1>1, LifecycleInit, PTL DEF Spec

-----------------------------------------------------------------------------
\* The types of a process's state; each server sends at most one error.
THEOREM LifecycleTypeCorrect == Spec => []TypeOK
  BY LifecycleInvariance, PTL DEF LifecycleInv

\* A query of any service is sent only to a database with that service's tables, although
\* others migrate the same database and run() can fail, be killed and start again anywhere.
THEOREM TablesAreThere == Spec => []QueriesFindTables
  BY LifecycleInvariance, PTL DEF LifecycleInv, MigratedInv

\* A probe answered 200 has reached Postgres and Redis, each as far as the service uses
\* it, although the flag, the clients and the stores change while it pings them in turn.
THEOREM ReadyIsReachable == Spec => []ReadyMeansReachable
  <1>1. ProbeInv => ReadyMeansReachable
    BY DEF ProbeInv, ReadyMeansReachable, AnswersReady
  <1>2. QED  BY <1>1, LifecycleInvariance, PTL DEF LifecycleInv
=============================================================================
