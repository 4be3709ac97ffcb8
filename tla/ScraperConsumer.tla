--------------------------- MODULE ScraperConsumer ---------------------------
(***************************************************************************)
(* The Redis consumer of scrape requests                                    *)
(* (internal/services/scrape_consumer.go): the server instances that read   *)
(* the stream scraper:requests, all under the consumer name                 *)
(* "lottery-worker-1", and the statuses and events they write for whoever   *)
(* asked.                                                                   *)
(*                                                                          *)
(* A message is its position in the stream.  One step is one Redis command, *)
(* or one RunOnce.  Commands whose error the code ignores may get lost, and *)
(* an instance may die between any two of them.                             *)
(***************************************************************************)
EXTENDS Naturals, FiniteSets, Sequences

CONSTANTS
    Instances,     \* server processes (docker compose up --scale lottery=2)
    Messages,      \* how many requests are ever added (bound)
    RequestIds,    \* ids the askers put into a message's request_id field
    DrainCount,    \* Count of the XREADGROUP in DrainPending
    MaxTroubles,   \* crashes, stops and lost commands in a behaviour (bound)
    Nil

Msgs == 1..Messages

ASSUME MessagesAssumption == Messages \in Nat /\ MaxTroubles \in Nat
ASSUME DrainCountAssumption == DrainCount \in Nat \ {0}
ASSUME NilAssumption == Nil \notin Msgs \union RequestIds /\ RequestIds \intersect Msgs = {}

VARIABLES
    \* ---- Redis
    asked,      \* the stream: each message's request id, or Nil
    group,      \* scraper-workers exists
    delivered,  \* last-delivered id of the group
    pending,    \* delivered and not acknowledged
    status,     \* scraper:status:<key>, its field status
    latest,     \* scraper:latest
    events,     \* messages whose done or error event was appended
    \* ---- each instance
    pc,
    todo,       \* messages DrainPending has still to mark
    cur,        \* the message in hand
    stopping,   \* stopCh is closed
    \* ---- history
    troubles,
    runs,       \* how often RunOnce was called for a message
    muted,      \* messages a lost command or a missing id has kept untold
    stolen      \* messages drained while another instance had them in hand

redis == <<asked, group, delivered, pending, status, latest, events>>
proc == <<pc, todo, cur, stopping>>
ghosts == <<troubles, runs, muted, stolen>>
vars == <<redis, proc, ghosts>>

Settled == {"done", "error", "interrupted"}

\* ProcessMessage falls back to the message's own id, DrainPending does not.
Named(m) == asked[m] # Nil
Key(m) == IF Named(m) THEN asked[m] ELSE m
RequestKeys == RequestIds \union Msgs
added == Len(asked)

Init ==
    /\ asked = <<>>
    /\ group = FALSE /\ delivered = 0 /\ pending = {}
    /\ status = [k \in RequestKeys |-> "none"]
    /\ latest = Nil /\ events = {}
    /\ pc = [i \in Instances |-> "down"]
    /\ todo = [i \in Instances |-> {}]
    /\ cur = [i \in Instances |-> Nil]
    /\ stopping = [i \in Instances |-> FALSE]
    /\ troubles = 0 /\ runs = [m \in Msgs |-> 0] /\ muted = {} /\ stolen = {}

-----------------------------------------------------------------------------
Go(i, next) == pc' = [pc EXCEPT ![i] = next]

\* A command about m is carried out, or its error is ignored.
Sent == UNCHANGED <<troubles, muted>>
Lost(ms) ==
    /\ troubles < MaxTroubles
    /\ troubles' = troubles + 1
    /\ muted' = muted \union ms

\* XADD by whoever asks for a scrape, or asks again.
Add(id) ==
    /\ added < Messages
    /\ asked' = Append(asked, id)
    /\ UNCHANGED <<group, delivered, pending, status, latest, events, proc, ghosts>>

-----------------------------------------------------------------------------
(* Start.                                                                   *)

\* Mutant: the group begins at "$", the requests to come.
StartFromNow(i) ==
    /\ pc[i] = "down"
    /\ Go(i, "drain")
    /\ \/ Sent /\ group' = TRUE /\ delivered' = IF group THEN delivered ELSE added
       \/ Lost({}) /\ UNCHANGED <<group, delivered>>
    /\ UNCHANGED <<asked, pending, status, latest, events,
                   todo, cur, stopping, runs, stolen>>

\* XGROUP CREATE at "0"; BUSYGROUP is fine, any other error is only logged.
Start(i) ==
    /\ pc[i] = "down"
    /\ Go(i, "drain")
    /\ \/ Sent /\ group' = TRUE
       \/ Lost({}) /\ UNCHANGED group
    /\ UNCHANGED <<asked, delivered, pending, status, latest, events,
                   todo, cur, stopping, runs, stolen>>

\* The first DrainCount of what the consumer name has pending, whichever
\* instance they were delivered to.  An error ends DrainPending.
DrainPending(i) ==
    /\ pc[i] = "drain"
    /\ Go(i, "mark")
    /\ \/ /\ group /\ Sent
          /\ todo' = [todo EXCEPT ![i] =
                {m \in pending : Cardinality({x \in pending : x < m}) < DrainCount}]
       \/ ~group /\ Sent /\ UNCHANGED todo
       \/ Lost(pending) /\ UNCHANGED todo
    /\ UNCHANGED <<redis, cur, stopping, runs, stolen>>

NextPending(i, m) == m \in todo[i] /\ \A x \in todo[i] : m <= x

\* A message without a request id gets no status.
MarkInterrupted(i, m) ==
    /\ pc[i] = "mark" /\ NextPending(i, m)
    /\ Go(i, "drainAck")
    /\ \/ Named(m) /\ Sent /\ status' = [status EXCEPT ![Key(m)] = "interrupted"]
       \/ Named(m) /\ Lost({m}) /\ UNCHANGED status
       \/ ~Named(m) /\ muted' = muted \union {m} /\ UNCHANGED <<status, troubles>>
    /\ stolen' = IF \E j \in Instances : cur[j] = m THEN stolen \union {m} ELSE stolen
    /\ UNCHANGED <<asked, group, delivered, pending, latest, events,
                   todo, cur, stopping, runs>>

DrainAck(i, m) ==
    /\ pc[i] = "drainAck" /\ NextPending(i, m)
    /\ Go(i, "mark")
    /\ todo' = [todo EXCEPT ![i] = @ \ {m}]
    /\ \/ Sent /\ pending' = pending \ {m}
       \/ Lost({}) /\ UNCHANGED pending
    /\ UNCHANGED <<asked, group, delivered, status, latest, events,
                   cur, stopping, runs, stolen>>

EndDrain(i) ==
    /\ pc[i] = "mark" /\ todo[i] = {}
    /\ Go(i, "loop")
    /\ UNCHANGED <<redis, todo, cur, stopping, ghosts>>

-----------------------------------------------------------------------------
(* loop.                                                                    *)

\* Mutant: stopCh is only looked at after a failed read.
LoopHeadUnchecked(i) ==
    /\ pc[i] = "loop"
    /\ Go(i, "read")
    /\ UNCHANGED <<redis, todo, cur, stopping, ghosts>>

\* The loop ends when stopCh is closed; Stop returns and the process exits.
LoopHead(i) ==
    /\ pc[i] = "loop"
    /\ Go(i, IF stopping[i] THEN "down" ELSE "read")
    /\ stopping' = [stopping EXCEPT ![i] = FALSE]
    /\ UNCHANGED <<redis, todo, cur, ghosts>>

\* XREADGROUP ">" answers with nothing within 2 s, or with an error.
ReadNothing(i) ==
    /\ pc[i] = "read"
    /\ \/ (~group \/ delivered = added) /\ Sent
       \/ Lost({})
    /\ Go(i, "loop")
    /\ UNCHANGED <<redis, todo, cur, stopping, runs, stolen>>

\* Mutant: the loop reads from "0", what is pending, before it asks for more.
ReadPendingFirst(i) ==
    /\ pc[i] = "read"
    /\ group
    /\ \E m \in IF pending # {} THEN pending ELSE {delivered + 1} \intersect 1..added :
        /\ delivered' = IF m > delivered THEN m ELSE delivered
        /\ pending' = pending \union {m}
        /\ cur' = [cur EXCEPT ![i] = m]
    /\ Go(i, "received")
    /\ UNCHANGED <<asked, group, status, latest, events, todo, stopping, ghosts>>

\* The next message becomes pending; its reply may get lost on the way back.
ReadMessage(i) ==
    /\ pc[i] = "read"
    /\ group /\ delivered < added
    /\ delivered' = delivered + 1
    /\ pending' = pending \union {delivered'}
    /\ \/ Sent /\ cur' = [cur EXCEPT ![i] = delivered'] /\ Go(i, "received")
       \/ Lost({delivered'}) /\ UNCHANGED cur /\ Go(i, "loop")
    /\ UNCHANGED <<asked, group, status, latest, events,
                   todo, stopping, runs, stolen>>

-----------------------------------------------------------------------------
(* ProcessMessage.                                                          *)

SetLatest(i) ==
    /\ pc[i] = "received"
    /\ Go(i, "latest")
    /\ \/ Sent /\ latest' = Key(cur[i])
       \/ Lost({}) /\ UNCHANGED latest
    /\ UNCHANGED <<asked, group, delivered, pending, status, events,
                   todo, cur, stopping, runs, stolen>>

MarkRunning(i) ==
    /\ pc[i] = "latest"
    /\ Go(i, "run")
    /\ \/ Sent /\ status' = [status EXCEPT ![Key(cur[i])] = "running"]
       \/ Lost({}) /\ UNCHANGED status
    /\ UNCHANGED <<asked, group, delivered, pending, latest, events,
                   todo, cur, stopping, runs, stolen>>

\* RunOnce returns; the phases it reports on the way change no status.
RunOnce(i) ==
    /\ pc[i] = "run"
    /\ Go(i, "finish")
    /\ runs' = [runs EXCEPT ![cur[i]] = @ + 1]
    /\ UNCHANGED <<redis, todo, cur, stopping, troubles, muted, stolen>>

\* Mutant: the status is skipped on an error, only the event says so.
FinishDoneOnly(i) ==
    /\ pc[i] = "finish"
    /\ Go(i, "event")
    /\ Sent
    /\ status' \in {status, [status EXCEPT ![Key(cur[i])] = "done"]}
    /\ UNCHANGED <<asked, group, delivered, pending, latest, events,
                   todo, cur, stopping, runs, stolen>>

\* The status that RunOnce's result or error calls for.
Finish(i) ==
    /\ pc[i] = "finish"
    /\ Go(i, "event")
    /\ \/ /\ Sent
          /\ \E r \in {"done", "error"} : status' = [status EXCEPT ![Key(cur[i])] = r]
       \/ Lost({cur[i]}) /\ UNCHANGED status
    /\ UNCHANGED <<asked, group, delivered, pending, latest, events,
                   todo, cur, stopping, runs, stolen>>

AppendEvent(i) ==
    /\ pc[i] = "event"
    /\ Go(i, "ack")
    /\ \/ Sent /\ events' = events \union {cur[i]}
       \/ Lost({}) /\ UNCHANGED events
    /\ UNCHANGED <<asked, group, delivered, pending, status, latest,
                   todo, cur, stopping, runs, stolen>>

Ack(i) ==
    /\ pc[i] = "ack"
    /\ Go(i, "loop")
    /\ cur' = [cur EXCEPT ![i] = Nil]
    /\ \/ Sent /\ pending' = pending \ {cur[i]}
       \/ Lost({}) /\ UNCHANGED pending
    /\ UNCHANGED <<asked, group, delivered, status, latest, events,
                   todo, stopping, runs, stolen>>

-----------------------------------------------------------------------------
\* Mutant: Stop does not wait for the loop to close doneCh.
StopAtOnce(i) ==
    /\ pc[i] \notin {"down", "drain", "mark", "drainAck"}
    /\ ~stopping[i]
    /\ Lost({})
    /\ pc' = [pc EXCEPT ![i] = "down"]
    /\ UNCHANGED <<redis, stopping, todo, cur, runs, stolen>>

\* Server.Stop, which waits for the loop; a signal during NewServer kills.
Stop(i) ==
    /\ pc[i] \notin {"down", "drain", "mark", "drainAck"}
    /\ ~stopping[i]
    /\ Lost({})
    /\ stopping' = [stopping EXCEPT ![i] = TRUE]
    /\ UNCHANGED <<redis, pc, todo, cur, runs, stolen>>

\* The process dies; Redis keeps what it has.
Crash(i) ==
    /\ pc[i] # "down"
    /\ Lost({})
    /\ Go(i, "down")
    /\ todo' = [todo EXCEPT ![i] = {}]
    /\ cur' = [cur EXCEPT ![i] = Nil]
    /\ stopping' = [stopping EXCEPT ![i] = FALSE]
    /\ UNCHANGED <<redis, runs, stolen>>

Loop(i) ==
    \/ DrainPending(i)
    \/ \E m \in Msgs : MarkInterrupted(i, m) \/ DrainAck(i, m)
    \/ EndDrain(i)
    \/ LoopHead(i)
    \/ ReadNothing(i)
    \/ ReadMessage(i)
    \/ SetLatest(i)
    \/ MarkRunning(i)
    \/ RunOnce(i)
    \/ Finish(i)
    \/ AppendEvent(i)
    \/ Ack(i)

Next ==
    \/ \E id \in RequestIds \union {Nil} : Add(id)
    \/ \E i \in Instances : Start(i) \/ Loop(i) \/ Stop(i) \/ Crash(i)

\* A live goroutine is scheduled, every Redis command and RunOnce return
\* (ScraperRunner!CallsReturn).  Nothing makes a process start again.
Spec == Init /\ [][Next]_vars /\ \A i \in Instances : WF_vars(Loop(i))

-----------------------------------------------------------------------------
(* Properties.                                                              *)

TypeOK ==
    /\ asked \in Seq(RequestIds \union {Nil}) /\ added <= Messages /\ delivered \in 0..added
    /\ group \in BOOLEAN /\ pending \subseteq 1..delivered
    /\ status \in [RequestKeys -> Settled \union {"none", "running"}]
    /\ latest \in RequestKeys \union {Nil} /\ events \subseteq Msgs
    /\ pc \in [Instances -> {"down", "drain", "mark", "drainAck", "loop", "read", "received",
                             "latest", "run", "finish", "event", "ack"}]
    /\ todo \in [Instances -> SUBSET Msgs]
    /\ cur \in [Instances -> Msgs \union {Nil}]
    /\ stopping \in [Instances -> BOOLEAN]
    /\ troubles \in 0..MaxTroubles /\ runs \in [Msgs -> Nat]
    /\ muted \subseteq Msgs /\ stolen \subseteq Msgs
    /\ \A i \in Instances :
        cur[i] # Nil <=> pc[i] \in {"received", "latest", "run", "finish", "event", "ack"}

\* A request is scraped at most once, whatever crashes, restarts, lost
\* acknowledgements and however many instances share the consumer name.
RunAtMostOnce == \A m \in Msgs : runs[m] <= 1

\* A command about this request, or another with the same id, was lost; or it
\* was drained under the hands of a live instance.
Excused(m) == \E x \in muted \union stolen : Key(x) = Key(m)

\* Whoever has seen the terminal event of a request, or finds its message
\* acknowledged, finds a terminal status, until the id is used again.
AnswersStand ==
    \A m \in 1..added :
        m \in events \/ (m <= delivered /\ m \notin pending) =>
            \/ status[Key(m)] \in Settled
            \/ Excused(m)
            \/ \E x \in pending : x # m /\ Key(x) = Key(m)

\* Stop returns: it waits for the request in hand and for no other.
StopReturns == \A i \in Instances : stopping[i] ~> pc[i] = "down"

\* Every request is settled, those that were in hand in a crash included, once
\* every instance has come back up and the group exists.
Served == \A i \in Instances : <>[](pc[i] # "down")
RequestsSettle ==
    Served => \A m \in Msgs :
        group /\ m <= added
            ~> m <= added /\ (status[Key(m)] \in Settled \/ Excused(m))
=============================================================================
