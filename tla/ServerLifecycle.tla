-------------------------- MODULE ServerLifecycle --------------------------
(***************************************************************************)
(* One process of the server from its environment to its exit: main.go,     *)
(* config.Load, NewServer, Start and Stop (internal/startup/server.go), the *)
(* two listeners (internal/server), the pool (internal/database), and the   *)
(* goroutines that Stop has to end or to wait for.                          *)
(*                                                                          *)
(* Who uses the pool: RPC handlers, and the runs of the cron goroutine and  *)
(* of the Redis consumer, which hold r.mu.  A run is reduced to a number of *)
(* statements, an RPC to at most one query; ScraperRunner, ScraperConsumer  *)
(* and LotteryManager model them in detail.                                 *)
(***************************************************************************)
EXTENDS Naturals, FiniteSets

CONSTANTS
    Requests,       \* requests clients send, over REST or gRPC
    MaxStatements,  \* statements and transactions of one run (bound)
    Nil

ASSUME BoundAssumption == MaxStatements \in Nat
ASSUME NilAssumption == Nil \notin {"cron", "consumer"}

VARIABLES
    cfg,          \* the environment, and once loaded the configuration
    main,         \* the step main.go, NewServer or Stop has reached
    pool,         \* the pgx pool
    grpc, http,   \* the two listeners
    conn,         \* the gateway's client connection to the gRPC server
    scraperStop,  \* has the channel been closed
    tick,         \* is there a tick in ticker.C
    run,          \* where the cron and the consumer goroutine stand
    left,         \* statements their run still has to make
    mu,           \* who holds r.mu of the runner
    req, via,     \* each request, and the listener that took it
    expired       \* have the 10 s of Stop passed

servers == <<grpc, http, conn>>
runs == <<tick, run, left, mu>>
clients == <<req, via>>
vars == <<cfg, main, pool, servers, scraperStop, runs, clients, expired>>

Actors == {"cron", "consumer"}
Booting == {"load", "database", "seed", "gateway", "consumer", "cron", "start", "notify"}
Stopping == {"stopCron", "stopConsumer", "stopGRPC", "drainGRPC", "closeConn",
             "shutdown", "drainHTTP", "closePool", "waitPool"}
Over == {"failed", "killed", "exited"}
Alive == main \notin Over

\* Stages of a request whose handler runs inside the gRPC server.
InHandler == {"handler", "query", "compute"}

\* Acquired connections: Close waits until all of them are back.
PoolUsers == {r \in Requests : req[r] = "query"} \cup {a \in Actors : run[a] = "statement"}

-----------------------------------------------------------------------------
(* Boot. *)

Environments == [cron : {"", "0 * * * *"}, redis : {"", "bad", "good"},
                 seed : {"", "true", "false", "junk"}]

Init ==
    /\ cfg \in Environments
    /\ main = "load"
    /\ pool = "none" /\ grpc = "off" /\ http = "off" /\ conn = "none"
    /\ scraperStop = FALSE /\ tick = FALSE /\ expired = FALSE
    /\ run = [a \in Actors |-> "off"] /\ left = [a \in Actors |-> 0] /\ mu = Nil
    /\ req = [r \in Requests |-> "new"] /\ via = [r \in Requests |-> "none"]

GetEnv(value, default) == IF value # "" THEN value ELSE default

GetEnvAsBool(value, default) == IF value \in {"true", "false"} THEN value ELSE default

\* An empty LOTTERY_SCRAPER_CRON becomes the default schedule, too.
Load ==
    /\ main = "load"
    /\ cfg' = [cron |-> GetEnv(cfg.cron, "0 3 * * *"),
               redis |-> GetEnv(cfg.redis, ""),
               seed |-> GetEnvAsBool(cfg.seed, "true")]
    /\ main' = "database"
    /\ UNCHANGED <<pool, servers, scraperStop, runs, clients, expired>>

\* A pool that cannot be pinged is not closed; the process exits.
NewDatabase ==
    /\ main = "database"
    /\ \/ /\ pool' = "open"
          /\ main' = IF cfg.seed = "true" THEN "seed" ELSE "gateway"
       \/ /\ pool' \in {"none", "open"}
          /\ main' = "failed"
    /\ UNCHANGED <<cfg, servers, scraperStop, runs, clients, expired>>

\* Seeding and the first backfill: whatever they report, the boot goes on.
SeedOnBoot ==
    /\ main = "seed"
    /\ main' = "gateway"
    /\ UNCHANGED <<cfg, pool, servers, scraperStop, runs, clients, expired>>

NewGatewayServer ==
    /\ main = "gateway"
    /\ \/ conn' = "open" /\ main' = "consumer" /\ UNCHANGED pool
       \/ conn' = "none" /\ main' = "failed" /\ pool' = "closed"
    /\ UNCHANGED <<cfg, grpc, http, scraperStop, runs, clients, expired>>

StartConsumer ==
    /\ main = "consumer"
    /\ run' = [run EXCEPT !["consumer"] = IF cfg.redis = "good" THEN "waiting" ELSE "off"]
    /\ main' = "cron"
    /\ UNCHANGED <<cfg, pool, servers, scraperStop, tick, left, mu, clients, expired>>

\* Every non-empty schedule yields a positive interval.
StartCron ==
    /\ main = "cron"
    /\ run' = [run EXCEPT !["cron"] = IF cfg.cron # "" THEN "waiting" ELSE "off"]
    /\ main' = "start"
    /\ UNCHANGED <<cfg, pool, servers, scraperStop, tick, left, mu, clients, expired>>

\* Start spawns the goroutines of the listeners and returns nil.
Start ==
    /\ main = "start"
    /\ grpc' = "new" /\ http' = "new"
    /\ main' = "notify"
    /\ UNCHANGED <<cfg, pool, conn, scraperStop, runs, clients, expired>>

Notify ==
    /\ main = "notify"
    /\ main' = "serving"
    /\ UNCHANGED <<cfg, pool, servers, scraperStop, runs, clients, expired>>

\* Before signal.Notify a signal ends the process where it stands.
Signal ==
    /\ \/ main \in Booting /\ main' = "killed"
       \/ main = "serving" /\ main' = "stopCron"
    /\ UNCHANGED <<cfg, pool, servers, scraperStop, runs, clients, expired>>

\* The goroutines of Start.  A failed listen is logged, and nothing else.
ServeGRPC ==
    /\ Alive /\ grpc = "new"
    /\ grpc' \in {"serving", "failed"}
    /\ UNCHANGED <<cfg, main, pool, http, conn, scraperStop, runs, clients, expired>>

ServeHTTP ==
    /\ Alive /\ http = "new"
    /\ http' \in {"serving", "failed"}
    /\ UNCHANGED <<cfg, main, pool, grpc, conn, scraperStop, runs, clients, expired>>

-----------------------------------------------------------------------------
(* Stop. *)

CloseScraperStop ==
    /\ main = "stopCron"
    /\ scraperStop' = TRUE
    /\ main' = "stopConsumer"
    /\ UNCHANGED <<cfg, pool, servers, runs, clients, expired>>

\* Stop of the consumer: close stopCh, then wait for doneCh.
ConsumerStopped == run["consumer"] \in {"off", "ended"}

StopConsumer ==
    /\ main = "stopConsumer"
    /\ ConsumerStopped
    /\ main' = "stopGRPC"
    /\ UNCHANGED <<cfg, pool, servers, scraperStop, runs, clients, expired>>

\* The timer of ctx starts here; GracefulStop does not look at it.
StopGRPC ==
    /\ main = "stopGRPC"
    /\ grpc' = IF grpc = "serving" THEN "draining" ELSE "stopped"
    /\ main' = "drainGRPC"
    /\ UNCHANGED <<cfg, pool, http, conn, scraperStop, runs, clients, expired>>

HandlersDone == \A r \in Requests : req[r] \notin InHandler

\* Mutant: the servers are stopped without waiting for their handlers.
GracefulStopAtOnce ==
    /\ main = "drainGRPC"
    /\ grpc' = "stopped"
    /\ main' = "closeConn"
    /\ UNCHANGED <<cfg, pool, http, conn, scraperStop, runs, clients, expired>>

GracefulStop ==
    /\ main = "drainGRPC"
    /\ HandlersDone
    /\ grpc' = "stopped"
    /\ main' = "closeConn"
    /\ UNCHANGED <<cfg, pool, http, conn, scraperStop, runs, clients, expired>>

CloseConn ==
    /\ main = "closeConn"
    /\ conn' = "closed"
    /\ main' = "shutdown"
    /\ UNCHANGED <<cfg, pool, grpc, http, scraperStop, runs, clients, expired>>

Shutdown ==
    /\ main = "shutdown"
    /\ http' = "shutdown"
    /\ main' = "drainHTTP"
    /\ UNCHANGED <<cfg, pool, grpc, conn, scraperStop, runs, clients, expired>>

\* A REST request that has not been answered yet.
OpenREST(r) == via[r] = "rest" /\ req[r] \in InHandler \cup {"gateway", "answering"}

\* Mutant: the listener is closed and open requests are not waited for.
ShutdownReturnsAtOnce ==
    /\ main = "drainHTTP"
    /\ main' = "closePool"
    /\ UNCHANGED <<cfg, pool, servers, scraperStop, runs, clients, expired>>

ShutdownReturns ==
    /\ main = "drainHTTP"
    /\ expired \/ \A r \in Requests : ~OpenREST(r)
    /\ main' = "closePool"
    /\ UNCHANGED <<cfg, pool, servers, scraperStop, runs, clients, expired>>

ClosePool ==
    /\ main = "closePool"
    /\ pool' = "closing"
    /\ main' = "waitPool"
    /\ UNCHANGED <<cfg, servers, scraperStop, runs, clients, expired>>

PoolClosed ==
    /\ main = "waitPool"
    /\ PoolUsers = {}
    /\ pool' = "closed"
    /\ main' = "exited"
    /\ UNCHANGED <<cfg, servers, scraperStop, runs, clients, expired>>

Expire ==
    /\ main \in {"drainGRPC", "closeConn", "shutdown", "drainHTTP"}
    /\ ~expired
    /\ expired' = TRUE
    /\ UNCHANGED <<cfg, main, pool, servers, scraperStop, runs, clients>>

-----------------------------------------------------------------------------
(* The cron and the consumer goroutine. *)

Tick ==
    /\ Alive /\ run["cron"] \notin {"off", "ended"} /\ ~tick
    /\ tick' = TRUE
    /\ UNCHANGED <<cfg, main, pool, servers, scraperStop, run, left, mu, clients, expired>>

\* The select of the scheduler: with both channels ready either case is taken.
CronRefresh ==
    /\ Alive /\ run["cron"] = "waiting" /\ tick
    /\ tick' = FALSE
    /\ run' = [run EXCEPT !["cron"] = "locking"]
    /\ UNCHANGED <<cfg, main, pool, servers, scraperStop, left, mu, clients, expired>>

CronLeave ==
    /\ Alive /\ run["cron"] = "waiting" /\ scraperStop
    /\ run' = [run EXCEPT !["cron"] = "ended"]
    /\ UNCHANGED <<cfg, main, pool, servers, scraperStop, tick, left, mu, clients, expired>>

\* stopCh is closed from the moment Stop waits for the loop.
StopRequested == main \in Stopping \ {"stopCron"}

\* Mutant: the loop reads again without looking at stopCh.
ConsumerLoopUnstoppable ==
    /\ Alive /\ run["consumer"] = "waiting"
    /\ run' = [run EXCEPT !["consumer"] = "reading"]
    /\ UNCHANGED <<cfg, main, pool, servers, scraperStop, tick, left, mu, clients, expired>>

ConsumerLoop ==
    /\ Alive /\ run["consumer"] = "waiting"
    /\ run' = [run EXCEPT !["consumer"] = IF StopRequested THEN "ended" ELSE "reading"]
    /\ UNCHANGED <<cfg, main, pool, servers, scraperStop, tick, left, mu, clients, expired>>

\* A blocking read that began before the stop may still deliver a message.
ConsumerRead ==
    /\ Alive /\ run["consumer"] = "reading"
    /\ \E next \in {"waiting", "locking"} : run' = [run EXCEPT !["consumer"] = next]
    /\ UNCHANGED <<cfg, main, pool, servers, scraperStop, tick, left, mu, clients, expired>>

\* RunOnce.
Lock(a) ==
    /\ Alive /\ run[a] = "locking" /\ mu = Nil
    /\ mu' = a
    /\ run' = [run EXCEPT ![a] = "working"]
    /\ left' = [left EXCEPT ![a] = MaxStatements]
    /\ UNCHANGED <<cfg, main, pool, servers, scraperStop, tick, clients, expired>>

\* On a pool that is being closed a statement fails; the run may go on.
Statement(a) ==
    /\ Alive /\ run[a] = "working" /\ left[a] > 0
    /\ run' = [run EXCEPT ![a] = IF pool = "open" THEN "statement" ELSE "working"]
    /\ left' = [left EXCEPT ![a] = @ - 1]
    /\ UNCHANGED <<cfg, main, pool, servers, scraperStop, tick, mu, clients, expired>>

StatementEnds(a) ==
    /\ Alive /\ run[a] = "statement"
    /\ run' = [run EXCEPT ![a] = "working"]
    /\ UNCHANGED <<cfg, main, pool, servers, scraperStop, tick, left, mu, clients, expired>>

\* Mutant: an early return leaves r.mu locked.
RunEndsLocked(a) ==
    /\ Alive /\ run[a] = "working"
    /\ run' = [run EXCEPT ![a] = "waiting"]
    /\ left' = [left EXCEPT ![a] = 0]
    /\ UNCHANGED <<cfg, main, pool, servers, scraperStop, tick, mu, clients, expired>>

RunEnds(a) ==
    /\ Alive /\ run[a] = "working"
    /\ mu' = Nil
    /\ run' = [run EXCEPT ![a] = "waiting"]
    /\ left' = [left EXCEPT ![a] = 0]
    /\ UNCHANGED <<cfg, main, pool, servers, scraperStop, tick, clients, expired>>

-----------------------------------------------------------------------------
(* Requests. *)

Stage(r, to) ==
    /\ Alive
    /\ req' = [req EXCEPT ![r] = to]
    /\ UNCHANGED <<cfg, main, pool, servers, scraperStop, runs, expired>>

Arrive(r) ==
    /\ req[r] = "new"
    /\ \/ http = "serving" /\ Stage(r, "gateway") /\ via' = [via EXCEPT ![r] = "rest"]
       \/ grpc = "serving" /\ Stage(r, "handler") /\ via' = [via EXCEPT ![r] = "grpc"]

\* /health, preflights, and tokens the middleware refuses.
AnswerLocally(r) ==
    /\ req[r] = "gateway"
    /\ Stage(r, "answered")
    /\ UNCHANGED via

\* The gateway's client does not wait for a server that is not there.
Forward(r) ==
    /\ req[r] = "gateway"
    /\ Stage(r, IF conn = "open" /\ grpc = "serving" THEN "handler" ELSE "unavailable")
    /\ UNCHANGED via

Query(r) ==
    /\ req[r] = "handler"
    /\ Stage(r, IF pool = "open" THEN "query" ELSE "nopool")
    /\ UNCHANGED via

QueryReturns(r) ==
    /\ req[r] = "query"
    /\ Stage(r, "compute")
    /\ UNCHANGED via

\* From "handler" at once when the archive is cached or the token is refused.
HandlerReturns(r) ==
    /\ req[r] \in {"handler", "compute"}
    /\ Stage(r, IF via[r] = "rest" THEN "answering" ELSE "answered")
    /\ UNCHANGED via

\* The gateway reads the answer; a closed connection may have dropped it.
Deliver(r) ==
    /\ req[r] = "answering"
    /\ \/ Stage(r, "answered")
       \/ conn = "closed" /\ Stage(r, "unavailable")
    /\ UNCHANGED via

-----------------------------------------------------------------------------

Boot == Load \/ NewDatabase \/ SeedOnBoot \/ NewGatewayServer \/ StartConsumer
        \/ StartCron \/ Start \/ Notify

Stop == CloseScraperStop \/ StopConsumer \/ StopGRPC \/ GracefulStop \/ CloseConn
        \/ Shutdown \/ ShutdownReturns \/ ClosePool \/ PoolClosed

RunStep(a) == Statement(a) \/ StatementEnds(a) \/ RunEnds(a)

HandlerStep(r) == Query(r) \/ QueryReturns(r) \/ HandlerReturns(r) \/ Deliver(r)

Next ==
    \/ Boot \/ Signal \/ Stop \/ Expire
    \/ ServeGRPC \/ ServeHTTP
    \/ Tick \/ CronRefresh \/ CronLeave \/ ConsumerLoop \/ ConsumerRead
    \/ \E a \in Actors : Lock(a) \/ RunStep(a)
    \/ \E r \in Requests : Arrive(r) \/ AnswerLocally(r) \/ Forward(r) \/ HandlerStep(r)

\* Goroutines go on, queries return, timers fire, and Go's mutex serves a
\* starving waiter.  A REST client may keep its request in the gateway.
Fairness ==
    /\ WF_vars(Stop) /\ WF_vars(Expire)
    /\ WF_vars(ConsumerLoop) /\ WF_vars(ConsumerRead)
    /\ \A a \in Actors : SF_vars(Lock(a)) /\ WF_vars(RunStep(a))
    /\ \A r \in Requests : WF_vars(HandlerStep(r))

Spec == Init /\ [][Next]_vars /\ Fairness

-----------------------------------------------------------------------------

\* Every variable is of its type, and r.mu is held by whoever is inside a run.
TypeOK ==
    /\ main \in Booting \cup Stopping \cup Over \cup {"serving"}
    /\ pool \in {"none", "open", "closing", "closed"}
    /\ grpc \in {"off", "new", "serving", "failed", "draining", "stopped"}
    /\ http \in {"off", "new", "serving", "failed", "shutdown"}
    /\ conn \in {"none", "open", "closed"}
    /\ scraperStop \in BOOLEAN /\ tick \in BOOLEAN /\ expired \in BOOLEAN
    /\ run \in [Actors -> {"off", "waiting", "reading", "locking", "working", "statement", "ended"}]
    /\ left \in [Actors -> 0..MaxStatements]
    /\ mu \in Actors \cup {Nil}
    /\ \A a \in Actors : run[a] \in {"working", "statement"} <=> mu = a
    /\ req \in [Requests -> InHandler \cup {"new", "gateway", "answering", "answered",
                                            "unavailable", "nopool"}]
    /\ via \in [Requests -> {"none", "rest", "grpc"}]

\* Stop closes the pool last: by then no RPC handler runs, none ever finds the
\* pool closed, and the consumer's loop has ended.  The cron goroutine is not
\* part of this: nobody waits for it, so its run may meet a closed pool.
PoolOutlivesUsers ==
    /\ \A r \in Requests : req[r] # "nopool"
    /\ pool \in {"closing", "closed"} => HandlersDone /\ ConsumerStopped

\* When Stop has returned, every RPC that reached the gRPC server has been
\* answered and no statement is under way.  A REST request can be left open, but
\* only one still in the gateway or unread there, and only when the 10 s are over.
CutOffOnlyByDeadline ==
    main = "exited" =>
        /\ PoolUsers = {}
        /\ \A r \in Requests :
              /\ via[r] = "grpc" => req[r] = "answered"
              /\ OpenREST(r) => expired /\ req[r] \in {"gateway", "answering"}

\* Stop returns, though the consumer may first wait for the cron's run, a message
\* may arrive after the stop, and clients may hold their requests open.
StopReturns == main = "stopCron" ~> main = "exited"

=============================================================================
