------------------------------ MODULE Lifecycle ------------------------------
(* The life of one process of a service: run() in its main.go opens resources *)
(* whose deferred closes run in reverse, and App.Run in its bootstrap starts  *)
(* servers and tasks, waits for a signal, stops the servers and joins tasks.  *)
(* net/http, grpc-go, the tasks' own code and the runtime's timers are        *)
(* external: here they are running, returned or late.                         *)
EXTENDS Integers, Sequences, SequencesExt

CONSTANTS
    Services,   \* the services whose processes are looked at
    MaxFailures \* bound: resources that do not open, servers that fail

(* run() of every main.go: what it opens with a deferred close, in order. A   *)
(* task of App.Run has the name of the resource it works with.                *)
Wallet == <<"db", "relay">>
Order == <<"db", "redis", "catalogConn", "temporal", "relay">>
OrderWorker == <<"db", "walletConn", "catalogConn", "temporal">>
Search == <<"bulkIndexer", "consumer", "retryConsumer">>
Analytics == <<"clickhouse", "consumers">>
Media == <<"shards", "redis", "relay">>
Catalog ==
    <<"redis", "mediaConn", "producer", "uploaded", "thumbnail",
      "uploadedRetry", "thumbnailRetry", "relay", "viewBatcher">>
Thumbnail == <<"shards", "redis", "consumer", "retryConsumer", "relay">>

(* NewApp and Run of every bootstrap: the tasks Run joins, in order, and those *)
(* it only starts; one timer for each join, or one for all of them, and what   *)
(* happens when it fires; what a failure of the gRPC server means.             *)
Shape(joins, loose, timer, grpc) ==
    [joins |-> joins, loose |-> loose, timer |-> timer, grpc |-> grpc]
WalletRun == Shape(<<"relay">>, {}, "each", "fatal")
OrderRun == Shape(<<"relay">>, {}, "each", "fatal")
OrderWorkerRun == Shape(<<"worker">>, {}, "none", "none")
SearchRun == Shape(<<"consumer", "retryConsumer">>, {}, "shared", "fatal")
AnalyticsRun == Shape(<<"views", "purchases">>, {}, "shared", "fatal")
MediaRun == Shape(<<"relay">>, {}, "each", "logged")
CatalogRun ==
    Shape(<<"uploaded", "thumbnail">>, {"uploadedRetry", "thumbnailRetry", "relay"},
          "returns", "logged")
ThumbnailRun == Shape(<<"consumer", "retryConsumer", "relay">>, {}, "each", "none")

Known == {"wallet", "order", "orderWorker", "search", "analytics", "media", "catalog", "thumbnail"}
Main(s) ==
    CASE s = "wallet" -> Wallet [] s = "order" -> Order [] s = "orderWorker" -> OrderWorker
      [] s = "search" -> Search [] s = "analytics" -> Analytics [] s = "media" -> Media
      [] s = "catalog" -> Catalog [] s = "thumbnail" -> Thumbnail
App(s) ==
    CASE s = "wallet" -> WalletRun [] s = "order" -> OrderRun [] s = "orderWorker" -> OrderWorkerRun
      [] s = "search" -> SearchRun [] s = "analytics" -> AnalyticsRun [] s = "media" -> MediaRun
      [] s = "catalog" -> CatalogRun [] s = "thumbnail" -> ThumbnailRun
Uses(t) ==
    IF t \in {"views", "purchases"} THEN "consumers" ELSE IF t = "worker" THEN "temporal" ELSE t

LifecycleAssumption == Services \subseteq Known /\ MaxFailures \in Nat

VARIABLES
    service,
    phase,      \* where run() is
    opened,     \* how many resources are open: a prefix of Main(service)
    signalled,  \* the context is cancelled
    ready,      \* /readyz and the gRPC health service say yes
    server,     \* the servers
    active,     \* the servers that have a request in progress
    task,       \* the tasks
    joined,     \* how many joins are over
    rang,       \* the timer that all joins share has fired
    expired,    \* the servers and the tasks that were not waited for to the end
    failures
vars == <<service, phase, opened, signalled, ready, server, active, task, joined, rang,
          expired, failures>>

Joins == App(service).joins
Tasks == ToSet(Joins) \cup App(service).loose
Servers == IF App(service).grpc = "none" THEN {"http"} ELSE {"http", "grpc"}
HasServers == service # "orderWorker"

TypeOK ==
    /\ service \in Services
    /\ phase \in {"open", "run", "drain", "http", "grpc", "join", "close", "exited"}
    /\ opened \in 0..Len(Main(service))
    /\ signalled \in BOOLEAN /\ ready \in BOOLEAN /\ rang \in BOOLEAN
    /\ server \in [Servers -> {"down", "up", "failed", "stopped"}]
    /\ active \subseteq Servers
    /\ task \in [Tasks -> {"none", "running", "returned"}]
    /\ joined \in 0..Len(Joins)
    /\ expired \subseteq Servers \cup Tasks
    /\ failures \in 0..MaxFailures

Init ==
    /\ service \in Services
    /\ phase = "open" /\ opened = 0 /\ joined = 0
    /\ signalled = FALSE /\ ready = FALSE /\ rang = FALSE
    /\ server = [s \in Servers |-> "down"] /\ active = {}
    /\ task = [t \in Tasks |-> "none"]
    /\ expired = {}
    /\ failures = 0

Fail == failures < MaxFailures /\ failures' = failures + 1
Goto(p) == phase' = p
Keep(vs) == UNCHANGED <<service, vs>>

\* One resource, or the return that runs the deferred closes of those before it.
Open ==
    /\ phase = "open" /\ opened < Len(Main(service))
    /\ \/ opened' = opened + 1 /\ Keep(<<phase, failures>>)
       \/ Fail /\ Goto("close") /\ Keep(opened)
    /\ Keep(<<signalled, ready, server, active, task, joined, rang, expired>>)

\* NewApp, and Run up to its select.
Start ==
    /\ phase = "open" /\ opened = Len(Main(service))
    /\ Goto("run") /\ ready' = TRUE
    /\ server' = [s \in Servers |-> IF HasServers THEN "up" ELSE "down"]
    /\ task' = [t \in Tasks |-> "running"]
    /\ Keep(<<opened, signalled, active, joined, rang, expired, failures>>)

Signal ==
    /\ phase # "exited" /\ ~signalled /\ signalled' = TRUE
    /\ Keep(<<phase, opened, ready, server, active, task, joined, rang, expired, failures>>)
\* A server cannot listen or stops serving.
ServerFails(s) ==
    /\ server[s] = "up" /\ Fail
    /\ server' = [server EXCEPT ![s] = "failed"]
    /\ Keep(<<phase, opened, signalled, ready, active, task, joined, rang, expired>>)
Accept(s) ==
    /\ server[s] = "up" /\ active' = active \cup {s}
    /\ Keep(<<phase, opened, signalled, ready, server, task, joined, rang, expired, failures>>)
Finish(s) ==
    /\ active' = active \ {s}
    /\ Keep(<<phase, opened, signalled, ready, server, task, joined, rang, expired, failures>>)
\* The Run of a relay, a consumer or a worker ends when the context does; a consumer
\* also when its client is closed, and the worker when it cannot start.
Closed(r) ==
    /\ phase \in {"close", "exited"}
    /\ \E i \in DOMAIN Main(service) : Main(service)[i] = r /\ i > opened
TaskReturns(t) ==
    /\ task[t] = "running"
    /\ \/ signalled /\ UNCHANGED failures
       \/ t # "relay" /\ Closed(Uses(t)) /\ UNCHANGED failures
       \/ t = "worker" /\ Fail
    /\ task' = [task EXCEPT ![t] = "returned"]
    /\ Keep(<<phase, opened, signalled, ready, server, active, joined, rang, expired>>)

\* Run's select: a signal, a fatal failure of the gRPC server, the end of the worker.
Leave ==
    /\ phase = "run"
    /\ \/ signalled
       \/ App(service).grpc = "fatal" /\ server["grpc"] = "failed"
       \/ service = "orderWorker" /\ task["worker"] = "returned"
    /\ ready' = FALSE
    /\ IF HasServers THEN Goto("drain") ELSE Goto("join")
    /\ Keep(<<opened, signalled, server, active, task, joined, rang, expired, failures>>)
Stopped(s) == [server EXCEPT ![s] = "stopped"]
\* The pause, in which the balancer learns that the process is not ready.
Drain ==
    /\ phase = "drain" /\ Goto("http")
    /\ server' = Stopped("http")
    /\ Keep(<<opened, signalled, ready, active, task, joined, rang, expired, failures>>)
\* httpx.Shutdown: requests in progress end, or the time is over.
Expire(late) == expired' = expired \cup late
HttpDown ==
    /\ phase = "http"
    /\ Expire(active \cap {"http"})
    /\ IF "grpc" \in Servers
       THEN Goto("grpc") /\ server' = Stopped("grpc")
       ELSE Goto("join") /\ UNCHANGED server
    /\ Keep(<<opened, signalled, ready, active, task, joined, rang, failures>>)
\* grpcx.Shutdown: GracefulStop, or Stop when the time is over.
GrpcDown ==
    /\ phase = "grpc" /\ Goto("join")
    /\ Expire(active \cap {"grpc"})
    /\ Keep(<<opened, signalled, ready, server, active, task, joined, rang, failures>>)

\* A turn of the joins: the task has returned, or the timer fires. A timer that all
\* turns share fires once (time.After delivers one value).
Next1 == joined' = joined + 1
JoinReturned ==
    /\ phase = "join" /\ joined < Len(Joins) /\ task[Joins[joined + 1]] = "returned"
    /\ Next1
    /\ Keep(<<phase, opened, signalled, ready, server, active, task, rang, expired, failures>>)
JoinExpired ==
    /\ phase = "join" /\ joined < Len(Joins) /\ ~rang
    /\ App(service).timer # "none"
    /\ rang' = (App(service).timer = "shared")
    /\ Expire({Joins[joined + 1]})
    /\ IF App(service).timer = "returns"
       THEN Goto("close") /\ UNCHANGED joined ELSE Next1 /\ UNCHANGED phase
    /\ Keep(<<opened, signalled, ready, server, active, task, failures>>)
JoinsOver ==
    /\ phase = "join" /\ joined = Len(Joins) /\ Goto("close")
    /\ Keep(<<opened, signalled, ready, server, active, task, joined, rang, expired, failures>>)

\* The deferred closes.
Close ==
    /\ phase = "close"
    /\ IF opened = 0 THEN Goto("exited") /\ Keep(opened)
       ELSE opened' = opened - 1 /\ Keep(phase)
    /\ Keep(<<signalled, ready, server, active, task, joined, rang, expired, failures>>)

Process ==
    \/ Open \/ Start \/ Leave \/ Drain \/ HttpDown \/ GrpcDown
    \/ JoinReturned \/ JoinExpired \/ JoinsOver \/ Close
Next ==
    \/ Process \/ Signal
    \/ \E s \in Servers : ServerFails(s) \/ Accept(s) \/ Finish(s)
    \/ \E t \in Tasks : TaskReturns(t)
Spec == Init /\ [][Next]_vars

JoinedReturns == \E t \in ToSet(Joins) : TaskReturns(t)
\* Resources open or not and timers fire; a task returns once its context is done;
\* requests may last.
FairSpec ==
    /\ Spec
    /\ WF_vars(Process)
    /\ WF_vars(JoinedReturns)

-----------------------------------------------------------------------------
\* What a task that Run joins, or a request, works with is closed only when it has
\* ended or the time to wait for it was over, on every way out of Run.
EndedBeforeClosed ==
    \A r \in ToSet(Main(service)) : Closed(r) =>
        /\ \A t \in ToSet(Joins) :
              Uses(t) = r /\ task[t] = "running" => ToSet(Joins) \cap expired # {}
        /\ active \subseteq expired

\* A process that is told to stop, at whatever moment, exits.
Exits == signalled ~> phase = "exited"

\* "blocks until ctx is cancelled or the first fatal failure of the gRPC server, then
\* shuts down" (services/search/internal/bootstrap/app.go:150-152, and wallet's).
FatalEnds == App(service).grpc = "fatal" /\ "grpc" \in Servers /\ server["grpc"] = "failed"
                 ~> phase = "exited"
=============================================================================
