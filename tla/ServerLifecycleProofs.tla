----------------------- MODULE ServerLifecycleProofs -----------------------
(***************************************************************************)
(* Proofs about ServerLifecycle for any set of requests and any length of   *)
(* the runs: the type invariant, and that Stop takes nothing away from the  *)
(* RPC handlers, the consumer and the statements under way.                 *)
(***************************************************************************)
EXTENDS ServerLifecycle, TLAPS

\* Before the listeners have been started, and while they may be serving.
Early == {"load", "database", "seed", "gateway", "consumer", "cron", "start"}
Up == {"notify", "serving", "stopCron", "stopConsumer", "stopGRPC"}
Opened == {"seed", "gateway", "consumer", "cron", "start", "drainGRPC", "closeConn",
           "shutdown", "drainHTTP"} \cup Up

\* How far the goroutines and the listeners are at each step of main.
Goroutines ==
    /\ main \in Early => grpc = "off" /\ http = "off"
    /\ main \in Early \ {"start"} => run["cron"] = "off"
    /\ main \in Early \ {"start", "cron"} => run["consumer"] = "off"
    /\ main = "failed" => grpc = "off" /\ run["consumer"] = "off"
    /\ grpc \in {"new", "serving"} => main \in Up \cup {"killed"}
    /\ grpc = "draining" => main = "drainGRPC"
    /\ main \in (Stopping \ {"stopCron", "stopConsumer"}) \cup {"exited"} => ConsumerStopped

\* Handlers run only while the server is there, and the server only while the
\* pool is open.
Handlers ==
    /\ ~HandlersDone => grpc \in {"serving", "draining"}
    /\ \A r \in Requests : req[r] # "nopool"
    /\ main \in Opened => pool = "open"
    /\ pool \in {"closing", "closed"} => main \in {"failed", "waitPool", "exited"}

\* What is left of the REST requests once Shutdown has been called.
Leftovers ==
    /\ main \in {"drainHTTP", "closePool", "waitPool", "exited"} => http = "shutdown"
    /\ \A r \in Requests :
        /\ req[r] = "new" => via[r] = "none"
        /\ req[r] \in {"gateway", "answering"} => via[r] = "rest"
        /\ via[r] = "grpc" => req[r] \in InHandler \cup {"answered"}
        /\ main \in {"closePool", "waitPool", "exited"} /\ OpenREST(r) => expired
    /\ main = "exited" => PoolUsers = {}

IInv == TypeOK /\ Goroutines /\ Handlers /\ Leftovers

USE DEF Booting, Stopping, Over, Alive, Actors

-----------------------------------------------------------------------------
(* Type correctness and the goroutines.                                     *)

LEMMA InitInv == Init => IInv
<1> SUFFICES ASSUME Init PROVE IInv
    OBVIOUS
<1> USE DEF Init
<1>1. TypeOK
    <2>1. /\ run \in [Actors -> {"off", "waiting", "reading", "locking", "working", "statement", "ended"}]
          /\ left \in [Actors -> 0..MaxStatements]
          /\ \A a \in Actors : run[a] \in {"working", "statement"} <=> mu = a
        BY BoundAssumption, NilAssumption
    <2> QED
        BY <2>1 DEF TypeOK, InHandler
<1>2. Goroutines
    BY DEF Goroutines, Early, Up, ConsumerStopped
<1>3. Handlers
    BY DEF Handlers, Opened, Up, HandlersDone, InHandler
<1>4. Leftovers
    BY DEF Leftovers, OpenREST, InHandler, PoolUsers
<1> QED
    BY <1>1, <1>2, <1>3, <1>4 DEF IInv

\* One step keeps the types, and r.mu with whoever is inside a run.
LEMMA TypeStep ==
    ASSUME TypeOK, Goroutines, [Next]_vars
    PROVE  TypeOK'
<1> USE BoundAssumption, NilAssumption DEF TypeOK, Goroutines, Early, InHandler, GetEnv, GetEnvAsBool, servers, runs, clients
<1>1. CASE Load
    BY <1>1 DEF Load
<1>2. CASE NewDatabase
    BY <1>2 DEF NewDatabase
<1>3. CASE SeedOnBoot
    BY <1>3 DEF SeedOnBoot
<1>4. CASE NewGatewayServer
    BY <1>4 DEF NewGatewayServer
<1>5. CASE StartConsumer
    BY <1>5 DEF StartConsumer
<1>6. CASE StartCron
    BY <1>6 DEF StartCron
<1>7. CASE Start
    BY <1>7 DEF Start
<1>8. CASE Notify
    BY <1>8 DEF Notify
<1>9. CASE Signal
    BY <1>9 DEF Signal
<1>10. CASE CloseScraperStop
    BY <1>10 DEF CloseScraperStop
<1>11. CASE StopConsumer
    BY <1>11 DEF StopConsumer
<1>12. CASE StopGRPC
    BY <1>12 DEF StopGRPC
<1>13. CASE GracefulStop
    BY <1>13 DEF GracefulStop
<1>14. CASE CloseConn
    BY <1>14 DEF CloseConn
<1>15. CASE Shutdown
    BY <1>15 DEF Shutdown
<1>16. CASE ShutdownReturns
    BY <1>16 DEF ShutdownReturns
<1>17. CASE ClosePool
    BY <1>17 DEF ClosePool
<1>18. CASE PoolClosed
    BY <1>18 DEF PoolClosed
<1>19. CASE Expire
    BY <1>19 DEF Expire
<1>20. CASE ServeGRPC
    BY <1>20 DEF ServeGRPC
<1>21. CASE ServeHTTP
    BY <1>21 DEF ServeHTTP
<1>22. CASE Tick
    BY <1>22 DEF Tick
<1>23. CASE CronRefresh
    <2>1. /\ run' \in [Actors -> {"off", "waiting", "reading", "locking", "working", "statement", "ended"}]
          /\ \A a \in Actors : run'[a] \in {"working", "statement"} <=> mu' = a
          /\ UNCHANGED <<main, pool, grpc, http, conn, scraperStop, expired, left, mu, req, via>>
        BY <1>23 DEF CronRefresh
    <2>2. tick' \in BOOLEAN
        BY <1>23, Zenon DEF CronRefresh
    <2> QED
        BY <2>1, <2>2
<1>24. CASE CronLeave
    BY <1>24 DEF CronLeave
<1>25. CASE ConsumerLoop
    BY <1>25 DEF ConsumerLoop
<1>26. CASE ConsumerRead
    BY <1>26 DEF ConsumerRead
<1>27. ASSUME NEW a \in Actors, Lock(a)  PROVE TypeOK'
    BY <1>27 DEF Lock
<1>28. ASSUME NEW a \in Actors, Statement(a)  PROVE TypeOK'
    BY <1>28 DEF Statement
<1>29. ASSUME NEW a \in Actors, StatementEnds(a)  PROVE TypeOK'
    BY <1>29 DEF StatementEnds
<1>30. ASSUME NEW a \in Actors, RunEnds(a)  PROVE TypeOK'
    BY <1>30 DEF RunEnds
<1>31. ASSUME NEW r \in Requests, Arrive(r)  PROVE TypeOK'
    BY <1>31 DEF Arrive, Stage
<1>32. ASSUME NEW r \in Requests, AnswerLocally(r)  PROVE TypeOK'
    BY <1>32 DEF AnswerLocally, Stage
<1>33. ASSUME NEW r \in Requests, Forward(r)  PROVE TypeOK'
    BY <1>33 DEF Forward, Stage
<1>34. ASSUME NEW r \in Requests, Query(r)  PROVE TypeOK'
    BY <1>34 DEF Query, Stage
<1>35. ASSUME NEW r \in Requests, QueryReturns(r)  PROVE TypeOK'
    BY <1>35 DEF QueryReturns, Stage
<1>36. ASSUME NEW r \in Requests, HandlerReturns(r)  PROVE TypeOK'
    BY <1>36 DEF HandlerReturns, Stage
<1>37. ASSUME NEW r \in Requests, Deliver(r)  PROVE TypeOK'
    BY <1>37 DEF Deliver, Stage
<1>38. CASE UNCHANGED vars
    BY <1>38 DEF vars
<1> QED
    BY <1>1, <1>2, <1>3, <1>4, <1>5, <1>6, <1>7, <1>8, <1>9, <1>10, <1>11, <1>12,
       <1>13, <1>14, <1>15, <1>16, <1>17, <1>18, <1>19, <1>20, <1>21, <1>22, <1>23,
       <1>24, <1>25, <1>26, <1>27, <1>28, <1>29, <1>30, <1>31, <1>32, <1>33, <1>34,
       <1>35, <1>36, <1>37, <1>38
    DEF Next, Boot, Stop, RunStep, HandlerStep

\* The listeners and the consumer follow the steps of main.
LEMMA GoroutinesStep ==
    ASSUME TypeOK, Goroutines, [Next]_vars
    PROVE  Goroutines'
<1> USE DEF TypeOK, Goroutines, Early, Up, HandlersDone, InHandler, ConsumerStopped, StopRequested, servers, runs, clients
<1>1. CASE Load
    BY <1>1 DEF Load
<1>2. CASE NewDatabase
    BY <1>2 DEF NewDatabase
<1>3. CASE SeedOnBoot
    BY <1>3 DEF SeedOnBoot
<1>4. CASE NewGatewayServer
    BY <1>4 DEF NewGatewayServer
<1>5. CASE StartConsumer
    BY <1>5 DEF StartConsumer
<1>6. CASE StartCron
    BY <1>6 DEF StartCron
<1>7. CASE Start
    BY <1>7 DEF Start
<1>8. CASE Notify
    BY <1>8 DEF Notify
<1>9. CASE Signal
    BY <1>9 DEF Signal
<1>10. CASE CloseScraperStop
    BY <1>10 DEF CloseScraperStop
<1>11. CASE StopConsumer
    BY <1>11 DEF StopConsumer
<1>12. CASE StopGRPC
    BY <1>12 DEF StopGRPC
<1>13. CASE GracefulStop
    BY <1>13 DEF GracefulStop
<1>14. CASE CloseConn
    BY <1>14 DEF CloseConn
<1>15. CASE Shutdown
    BY <1>15 DEF Shutdown
<1>16. CASE ShutdownReturns
    BY <1>16 DEF ShutdownReturns
<1>17. CASE ClosePool
    BY <1>17 DEF ClosePool
<1>18. CASE PoolClosed
    BY <1>18 DEF PoolClosed
<1>19. CASE Expire
    BY <1>19 DEF Expire
<1>20. CASE ServeGRPC
    BY <1>20 DEF ServeGRPC
<1>21. CASE ServeHTTP
    BY <1>21 DEF ServeHTTP
<1>22. CASE Tick
    BY <1>22 DEF Tick
<1>23. CASE CronRefresh
    BY <1>23 DEF CronRefresh
<1>24. CASE CronLeave
    BY <1>24 DEF CronLeave
<1>25. CASE ConsumerLoop
    BY <1>25 DEF ConsumerLoop
<1>26. CASE ConsumerRead
    BY <1>26 DEF ConsumerRead
<1>27. ASSUME NEW a \in Actors, Lock(a)  PROVE Goroutines'
    BY <1>27 DEF Lock
<1>28. ASSUME NEW a \in Actors, Statement(a)  PROVE Goroutines'
    BY <1>28 DEF Statement
<1>29. ASSUME NEW a \in Actors, StatementEnds(a)  PROVE Goroutines'
    BY <1>29 DEF StatementEnds
<1>30. ASSUME NEW a \in Actors, RunEnds(a)  PROVE Goroutines'
    BY <1>30 DEF RunEnds
<1>31. ASSUME NEW r \in Requests, Arrive(r)  PROVE Goroutines'
    BY <1>31 DEF Arrive, Stage
<1>32. ASSUME NEW r \in Requests, AnswerLocally(r)  PROVE Goroutines'
    BY <1>32 DEF AnswerLocally, Stage
<1>33. ASSUME NEW r \in Requests, Forward(r)  PROVE Goroutines'
    BY <1>33 DEF Forward, Stage
<1>34. ASSUME NEW r \in Requests, Query(r)  PROVE Goroutines'
    BY <1>34 DEF Query, Stage
<1>35. ASSUME NEW r \in Requests, QueryReturns(r)  PROVE Goroutines'
    BY <1>35 DEF QueryReturns, Stage
<1>36. ASSUME NEW r \in Requests, HandlerReturns(r)  PROVE Goroutines'
    BY <1>36 DEF HandlerReturns, Stage
<1>37. ASSUME NEW r \in Requests, Deliver(r)  PROVE Goroutines'
    BY <1>37 DEF Deliver, Stage
<1>38. CASE UNCHANGED vars
    BY <1>38 DEF vars
<1> QED
    BY <1>1, <1>2, <1>3, <1>4, <1>5, <1>6, <1>7, <1>8, <1>9, <1>10, <1>11, <1>12,
       <1>13, <1>14, <1>15, <1>16, <1>17, <1>18, <1>19, <1>20, <1>21, <1>22, <1>23,
       <1>24, <1>25, <1>26, <1>27, <1>28, <1>29, <1>30, <1>31, <1>32, <1>33, <1>34,
       <1>35, <1>36, <1>37, <1>38
    DEF Next, Boot, Stop, RunStep, HandlerStep

\* The pool stays open as long as a handler can run.
LEMMA HandlersStep ==
    ASSUME TypeOK, Goroutines, Handlers, [Next]_vars
    PROVE  Handlers'
<1> USE DEF TypeOK, Goroutines, Handlers, Early, Up, Opened, HandlersDone, InHandler, servers, runs, clients
<1>1. CASE Load
    BY <1>1 DEF Load
<1>2. CASE NewDatabase
    BY <1>2 DEF NewDatabase
<1>3. CASE SeedOnBoot
    BY <1>3 DEF SeedOnBoot
<1>4. CASE NewGatewayServer
    BY <1>4 DEF NewGatewayServer
<1>5. CASE StartConsumer
    BY <1>5 DEF StartConsumer
<1>6. CASE StartCron
    BY <1>6 DEF StartCron
<1>7. CASE Start
    BY <1>7 DEF Start
<1>8. CASE Notify
    BY <1>8 DEF Notify
<1>9. CASE Signal
    BY <1>9 DEF Signal
<1>10. CASE CloseScraperStop
    BY <1>10 DEF CloseScraperStop
<1>11. CASE StopConsumer
    BY <1>11 DEF StopConsumer
<1>12. CASE StopGRPC
    BY <1>12 DEF StopGRPC
<1>13. CASE GracefulStop
    BY <1>13 DEF GracefulStop
<1>14. CASE CloseConn
    BY <1>14 DEF CloseConn
<1>15. CASE Shutdown
    BY <1>15 DEF Shutdown
<1>16. CASE ShutdownReturns
    BY <1>16 DEF ShutdownReturns
<1>17. CASE ClosePool
    BY <1>17 DEF ClosePool
<1>18. CASE PoolClosed
    BY <1>18 DEF PoolClosed
<1>19. CASE Expire
    BY <1>19 DEF Expire
<1>20. CASE ServeGRPC
    BY <1>20 DEF ServeGRPC
<1>21. CASE ServeHTTP
    BY <1>21 DEF ServeHTTP
<1>22. CASE Tick
    BY <1>22 DEF Tick
<1>23. CASE CronRefresh
    BY <1>23 DEF CronRefresh
<1>24. CASE CronLeave
    BY <1>24 DEF CronLeave
<1>25. CASE ConsumerLoop
    BY <1>25 DEF ConsumerLoop
<1>26. CASE ConsumerRead
    BY <1>26 DEF ConsumerRead
<1>27. ASSUME NEW a \in Actors, Lock(a)  PROVE Handlers'
    BY <1>27 DEF Lock
<1>28. ASSUME NEW a \in Actors, Statement(a)  PROVE Handlers'
    BY <1>28 DEF Statement
<1>29. ASSUME NEW a \in Actors, StatementEnds(a)  PROVE Handlers'
    BY <1>29 DEF StatementEnds
<1>30. ASSUME NEW a \in Actors, RunEnds(a)  PROVE Handlers'
    BY <1>30 DEF RunEnds
<1>31. ASSUME NEW r \in Requests, Arrive(r)  PROVE Handlers'
    BY <1>31 DEF Arrive, Stage
<1>32. ASSUME NEW r \in Requests, AnswerLocally(r)  PROVE Handlers'
    BY <1>32 DEF AnswerLocally, Stage
<1>33. ASSUME NEW r \in Requests, Forward(r)  PROVE Handlers'
    BY <1>33 DEF Forward, Stage
<1>34. ASSUME NEW r \in Requests, Query(r)  PROVE Handlers'
    BY <1>34 DEF Query, Stage
<1>35. ASSUME NEW r \in Requests, QueryReturns(r)  PROVE Handlers'
    BY <1>35 DEF QueryReturns, Stage
<1>36. ASSUME NEW r \in Requests, HandlerReturns(r)  PROVE Handlers'
    BY <1>36 DEF HandlerReturns, Stage
<1>37. ASSUME NEW r \in Requests, Deliver(r)  PROVE Handlers'
    BY <1>37 DEF Deliver, Stage
<1>38. CASE UNCHANGED vars
    BY <1>38 DEF vars
<1> QED
    BY <1>1, <1>2, <1>3, <1>4, <1>5, <1>6, <1>7, <1>8, <1>9, <1>10, <1>11, <1>12,
       <1>13, <1>14, <1>15, <1>16, <1>17, <1>18, <1>19, <1>20, <1>21, <1>22, <1>23,
       <1>24, <1>25, <1>26, <1>27, <1>28, <1>29, <1>30, <1>31, <1>32, <1>33, <1>34,
       <1>35, <1>36, <1>37, <1>38
    DEF Next, Boot, Stop, RunStep, HandlerStep

\* What Shutdown has not waited for was cut off by the deadline.
LEMMA LeftoversStep ==
    ASSUME IInv, [Next]_vars
    PROVE  Leftovers'
<1> USE DEF IInv, TypeOK, Goroutines, Handlers, Leftovers, Early, Up, Opened, HandlersDone, InHandler, OpenREST, PoolUsers, servers, runs, clients
<1>1. CASE Load
    BY <1>1 DEF Load
<1>2. CASE NewDatabase
    BY <1>2 DEF NewDatabase
<1>3. CASE SeedOnBoot
    BY <1>3 DEF SeedOnBoot
<1>4. CASE NewGatewayServer
    BY <1>4 DEF NewGatewayServer
<1>5. CASE StartConsumer
    BY <1>5 DEF StartConsumer
<1>6. CASE StartCron
    BY <1>6 DEF StartCron
<1>7. CASE Start
    BY <1>7 DEF Start
<1>8. CASE Notify
    BY <1>8 DEF Notify
<1>9. CASE Signal
    BY <1>9 DEF Signal
<1>10. CASE CloseScraperStop
    BY <1>10 DEF CloseScraperStop
<1>11. CASE StopConsumer
    BY <1>11 DEF StopConsumer
<1>12. CASE StopGRPC
    BY <1>12 DEF StopGRPC
<1>13. CASE GracefulStop
    BY <1>13 DEF GracefulStop
<1>14. CASE CloseConn
    BY <1>14 DEF CloseConn
<1>15. CASE Shutdown
    BY <1>15 DEF Shutdown
<1>16. CASE ShutdownReturns
    BY <1>16 DEF ShutdownReturns
<1>17. CASE ClosePool
    BY <1>17 DEF ClosePool
<1>18. CASE PoolClosed
    BY <1>18 DEF PoolClosed
<1>19. CASE Expire
    BY <1>19 DEF Expire
<1>20. CASE ServeGRPC
    BY <1>20 DEF ServeGRPC
<1>21. CASE ServeHTTP
    BY <1>21 DEF ServeHTTP
<1>22. CASE Tick
    BY <1>22 DEF Tick
<1>23. CASE CronRefresh
    BY <1>23 DEF CronRefresh
<1>24. CASE CronLeave
    BY <1>24 DEF CronLeave
<1>25. CASE ConsumerLoop
    BY <1>25 DEF ConsumerLoop
<1>26. CASE ConsumerRead
    BY <1>26 DEF ConsumerRead
<1>27. ASSUME NEW a \in Actors, Lock(a)  PROVE Leftovers'
    BY <1>27 DEF Lock
<1>28. ASSUME NEW a \in Actors, Statement(a)  PROVE Leftovers'
    BY <1>28 DEF Statement
<1>29. ASSUME NEW a \in Actors, StatementEnds(a)  PROVE Leftovers'
    BY <1>29 DEF StatementEnds
<1>30. ASSUME NEW a \in Actors, RunEnds(a)  PROVE Leftovers'
    BY <1>30 DEF RunEnds
<1>31. ASSUME NEW r \in Requests, Arrive(r)  PROVE Leftovers'
    BY <1>31 DEF Arrive, Stage
<1>32. ASSUME NEW r \in Requests, AnswerLocally(r)  PROVE Leftovers'
    BY <1>32 DEF AnswerLocally, Stage
<1>33. ASSUME NEW r \in Requests, Forward(r)  PROVE Leftovers'
    BY <1>33 DEF Forward, Stage
<1>34. ASSUME NEW r \in Requests, Query(r)  PROVE Leftovers'
    BY <1>34 DEF Query, Stage
<1>35. ASSUME NEW r \in Requests, QueryReturns(r)  PROVE Leftovers'
    BY <1>35 DEF QueryReturns, Stage
<1>36. ASSUME NEW r \in Requests, HandlerReturns(r)  PROVE Leftovers'
    BY <1>36 DEF HandlerReturns, Stage
<1>37. ASSUME NEW r \in Requests, Deliver(r)  PROVE Leftovers'
    BY <1>37 DEF Deliver, Stage
<1>38. CASE UNCHANGED vars
    BY <1>38 DEF vars
<1> QED
    BY <1>1, <1>2, <1>3, <1>4, <1>5, <1>6, <1>7, <1>8, <1>9, <1>10, <1>11, <1>12,
       <1>13, <1>14, <1>15, <1>16, <1>17, <1>18, <1>19, <1>20, <1>21, <1>22, <1>23,
       <1>24, <1>25, <1>26, <1>27, <1>28, <1>29, <1>30, <1>31, <1>32, <1>33, <1>34,
       <1>35, <1>36, <1>37, <1>38
    DEF Next, Boot, Stop, RunStep, HandlerStep

-----------------------------------------------------------------------------

\* The inductive invariant: where the goroutines, the listeners, the pool and
\* the requests are at each step of main.
THEOREM LifecycleInvariant == Spec => []IInv
<1>1. IInv /\ [Next]_vars => IInv'
    BY TypeStep, GoroutinesStep, HandlersStep, LeftoversStep DEF IInv
<1> QED
    BY <1>1, InitInv, PTL DEF Spec

\* Every variable keeps its type and r.mu is held by whoever is inside a run
\* (RunOnce of the cron and the consumer).
THEOREM TypeCorrect == Spec => []TypeOK
<1>1. IInv => TypeOK
    BY DEF IInv
<1> QED
    BY <1>1, LifecycleInvariant, PTL

\* Stop closes the pool when no handler runs and the consumer has ended; no
\* handler ever finds the pool closed.
THEOREM PoolOutlives == Spec => []PoolOutlivesUsers
<1>1. IInv => PoolOutlivesUsers
    BY DEF IInv, Goroutines, Handlers, PoolOutlivesUsers, Up, ConsumerStopped
<1> QED
    BY <1>1, LifecycleInvariant, PTL

\* A request is cut off by Stop only in the gateway and only by the deadline.
THEOREM OnlyDeadlineCutsOff == Spec => []CutOffOnlyByDeadline
<1>1. IInv => CutOffOnlyByDeadline
    BY DEF IInv, TypeOK, Goroutines, Handlers, Leftovers, CutOffOnlyByDeadline, Up, HandlersDone,
           InHandler, OpenREST
<1> QED
    BY <1>1, LifecycleInvariant, PTL
=============================================================================
