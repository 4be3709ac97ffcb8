------------------------- MODULE ScraperConsumerProofs -------------------------
(***************************************************************************)
(* Proofs about ScraperConsumer for any number of instances, requests,      *)
(* request ids and faults: the type invariant, that no request is run       *)
(* twice, and that an answered request stays answered.                      *)
(***************************************************************************)
EXTENDS ScraperConsumer, SequenceTheorems, TLAPS

\* i has marked m and is about to acknowledge it.
Marked(i, m) == pc[i] = "drainAck" /\ NextPending(i, m)

\* A message in hand was delivered to this instance alone, and leaves pending
\* under its hands only.
HandsApart ==
    \A i \in Instances : cur[i] # Nil =>
        /\ cur[i] <= delivered
        /\ cur[i] \in pending \union stolen
        /\ \A j \in Instances : cur[j] = cur[i] => i = j

\* A message is run by the hands it was delivered to, and only once.
RunsCounted ==
    /\ \A m \in Msgs : runs[m] <= 1 /\ (m > delivered => runs[m] = 0)
    /\ \A i \in Instances : pc[i] \in {"received", "latest", "run"} => runs[cur[i]] = 0

\* Only delivered messages are drained, lost or stolen; one that is drained
\* while it is in hand counts as stolen.
DrainsSeen ==
    /\ muted \union stolen \subseteq 1..delivered
    /\ \A i \in Instances : todo[i] \subseteq 1..delivered
    /\ \A i, j \in Instances : Marked(i, cur[j]) => cur[j] \in stolen

\* The event is the last thing written about a message in hand.
EventsLast ==
    /\ events \subseteq 1..delivered
    /\ \A i \in Instances :
        pc[i] \in {"received", "latest", "run", "finish", "event"} => cur[i] \notin events

\* Nothing more is going to be written to m's status.
Over(m) ==
    \/ m \in events
    \/ m \in 1..delivered /\ m \notin pending
    \/ \E i \in Instances : Marked(i, m) \/ (pc[i] \in {"event", "ack"} /\ cur[i] = m)

\* Some message of the key was lost or stolen.
Forgiven(k) == \E x \in muted \union stolen : Key(x) = k

\* A message that is over has written its key's status.
OverAnswered ==
    \A m \in 1..delivered : Over(m) => status[Key(m)] # "none" \/ Forgiven(Key(m))

\* Behind every status "running" there is a message that is not over.
RunningOpen ==
    \A k \in RequestKeys : status[k] = "running" =>
        Forgiven(k) \/ \E w \in pending : Key(w) = k /\ ~Over(w)

\* TypeOK in four parts: the stream, what Redis keeps else, the instances, and
\* the history.
StreamOK ==
    asked \in Seq(RequestIds \union {Nil}) /\ added \in 0..Messages /\ delivered \in 0..added
RedisOK ==
    /\ group \in BOOLEAN /\ pending \subseteq 1..delivered
    /\ status \in [RequestKeys -> Settled \union {"none", "running"}]
    /\ latest \in RequestKeys \union {Nil} /\ events \subseteq Msgs
ProcOK ==
    /\ pc \in [Instances -> {"down", "drain", "mark", "drainAck", "loop", "read", "received",
                             "latest", "run", "finish", "event", "ack"}]
    /\ todo \in [Instances -> SUBSET Msgs]
    /\ cur \in [Instances -> Msgs \union {Nil}]
    /\ stopping \in [Instances -> BOOLEAN]
    /\ \A i \in Instances :
        cur[i] # Nil <=> pc[i] \in {"received", "latest", "run", "finish", "event", "ack"}
GhostsOK ==
    /\ troubles \in 0..MaxTroubles /\ runs \in [Msgs -> Nat]
    /\ muted \subseteq Msgs /\ stolen \subseteq Msgs

IInv ==
    TypeOK /\ HandsApart /\ RunsCounted /\ DrainsSeen /\ EventsLast /\ OverAnswered /\ RunningOpen

-----------------------------------------------------------------------------
(* Lemmas about the operators.                                              *)

\* The four parts are TypeOK.
LEMMA TypeSplit == TypeOK <=> StreamOK /\ RedisOK /\ ProcOK /\ GhostsOK
<1>1. asked \in Seq(RequestIds \union {Nil}) => added \in Nat
    BY LenProperties DEF added
<1>2. added \in Nat => (added \in 0..Messages <=> added <= Messages)
    BY MessagesAssumption
<1> QED
    BY <1>1, <1>2 DEF TypeOK, StreamOK, RedisOK, ProcOK, GhostsOK

\* Every message in the stream has one of the keys.
LEMMA KeyType ==
    ASSUME StreamOK, NEW m \in 1..added
    PROVE  Key(m) \in RequestKeys /\ m \in Msgs
<1>1. asked[m] \in RequestIds \union {Nil}
    BY ElementOfSeq DEF StreamOK, added
<1>2. m \in Msgs
    BY MessagesAssumption DEF Msgs, StreamOK
<1> QED
    BY <1>1, <1>2 DEF Key, Named, RequestKeys

\* A new request changes no other's key.
LEMMA AddKeeps ==
    ASSUME StreamOK, NEW id \in RequestIds \union {Nil}, Add(id)
    PROVE  /\ StreamOK'
           /\ \A m \in 1..delivered : Key(m)' = Key(m)
           /\ UNCHANGED <<group, delivered, pending, status, latest, events, proc, ghosts>>
<1>1. asked \in Seq(RequestIds \union {Nil}) /\ delivered \in 0..Len(asked)
    BY DEF StreamOK, added
<1>2. Len(asked) \in Nat
    BY <1>1, LenProperties
<1>3. asked' = Append(asked, id)
    BY DEF Add
<1>4. /\ asked' \in Seq(RequestIds \union {Nil})
      /\ Len(asked') = Len(asked) + 1
      /\ \A m \in 1..Len(asked) : asked'[m] = asked[m]
    BY <1>1, <1>3, AppendProperties
<1>5. \A m \in 1..delivered : asked'[m] = asked[m]
    BY <1>1, <1>2, <1>4
<1>6. Len(asked) < Messages
    BY DEF Add, added
<1>7. UNCHANGED <<group, delivered, pending, status, latest, events, proc, ghosts>>
    BY DEF Add
<1>8. StreamOK'
    BY <1>1, <1>2, <1>4, <1>6, <1>7, MessagesAssumption DEF StreamOK, added
<1>9. \A m \in 1..delivered : Key(m)' = Key(m)
    BY <1>5 DEF Key, Named
<1> QED
    BY <1>7, <1>8, <1>9

\* Nothing but the stream changes.
LEMMA AddQuiet ==
    ASSUME NEW id \in RequestIds \union {Nil}, Add(id)
    PROVE  UNCHANGED <<delivered, pending, events, pc, todo, cur, stopping, troubles, runs, muted, stolen>>
BY DEF Add, proc, ghosts

\* The message in hand is one of the stream's, and of its key.
LEMMA HandType ==
    ASSUME StreamOK, ProcOK, HandsApart, NEW i \in Instances, cur[i] # Nil
    PROVE  cur[i] \in 1..delivered /\ cur[i] \in 1..added /\ Key(cur[i]) \in RequestKeys
<1>1. cur[i] \in Msgs /\ cur[i] <= delivered
    BY DEF ProcOK, HandsApart
<1>2. cur[i] \in 1..delivered /\ cur[i] \in 1..added
    BY <1>1, MessagesAssumption DEF Msgs, StreamOK
<1> QED
    BY <1>2, KeyType

\* The next message is the stream's, too.
LEMMA NextType ==
    ASSUME StreamOK, delivered < added
    PROVE  delivered + 1 \in Msgs /\ delivered \in Nat
BY MessagesAssumption DEF StreamOK, Msgs

-----------------------------------------------------------------------------

\* The invariant holds at the start.
LEMMA InitInv == Init => IInv
<1> SUFFICES ASSUME Init PROVE IInv
    OBVIOUS
<1>1. asked \in Seq(RequestIds \union {Nil}) /\ added = 0
    BY EmptySeq DEF Init, added
<1>2. StreamOK
    BY <1>1, MessagesAssumption DEF Init, StreamOK
<1>3. RedisOK /\ ProcOK /\ GhostsOK
    <2>1. RedisOK
        BY DEF Init, RedisOK, Settled
    <2>2. ProcOK
        BY NilAssumption DEF Init, ProcOK
    <2>3. GhostsOK
        BY MessagesAssumption DEF Init, GhostsOK
    <2> QED
        BY <2>1, <2>2, <2>3
<1>4. HandsApart /\ RunsCounted /\ DrainsSeen /\ EventsLast
    BY NilAssumption DEF Init, HandsApart, RunsCounted, DrainsSeen, EventsLast, Marked
<1>5. OverAnswered /\ RunningOpen
    BY DEF Init, OverAnswered, RunningOpen
<1> QED
    BY <1>2, <1>3, <1>4, <1>5, TypeSplit DEF IInv

\* A request is delivered after it was added.
LEMMA StreamStep ==
    ASSUME StreamOK, [Next]_vars
    PROVE  StreamOK'
<1> USE DEF StreamOK, added, redis, proc, ghosts, Sent, Lost, Go
<1>1. ASSUME NEW id \in RequestIds \union {Nil}, Add(id)  PROVE StreamOK'
    BY <1>1, AddKeeps
<1>2. ASSUME NEW i \in Instances, Start(i)  PROVE StreamOK'
    BY <1>2 DEF Start
<1>3. ASSUME NEW i \in Instances, DrainPending(i)  PROVE StreamOK'
    BY <1>3 DEF DrainPending
<1>4. ASSUME NEW i \in Instances, NEW m \in Msgs, MarkInterrupted(i, m)  PROVE StreamOK'
    BY <1>4 DEF MarkInterrupted
<1>5. ASSUME NEW i \in Instances, NEW m \in Msgs, DrainAck(i, m)  PROVE StreamOK'
    BY <1>5 DEF DrainAck
<1>6. ASSUME NEW i \in Instances, EndDrain(i)  PROVE StreamOK'
    BY <1>6 DEF EndDrain
<1>7. ASSUME NEW i \in Instances, LoopHead(i)  PROVE StreamOK'
    BY <1>7 DEF LoopHead
<1>8. ASSUME NEW i \in Instances, ReadNothing(i)  PROVE StreamOK'
    BY <1>8 DEF ReadNothing
<1>9. ASSUME NEW i \in Instances, ReadMessage(i)  PROVE StreamOK'
    BY <1>9 DEF ReadMessage, StreamOK
<1>10. ASSUME NEW i \in Instances, SetLatest(i)  PROVE StreamOK'
    BY <1>10 DEF SetLatest
<1>11. ASSUME NEW i \in Instances, MarkRunning(i)  PROVE StreamOK'
    BY <1>11 DEF MarkRunning
<1>12. ASSUME NEW i \in Instances, RunOnce(i)  PROVE StreamOK'
    BY <1>12 DEF RunOnce
<1>13. ASSUME NEW i \in Instances, Finish(i)  PROVE StreamOK'
    BY <1>13 DEF Finish
<1>14. ASSUME NEW i \in Instances, AppendEvent(i)  PROVE StreamOK'
    BY <1>14 DEF AppendEvent
<1>15. ASSUME NEW i \in Instances, Ack(i)  PROVE StreamOK'
    BY <1>15 DEF Ack
<1>16. ASSUME NEW i \in Instances, Stop(i)  PROVE StreamOK'
    BY <1>16 DEF Stop
<1>17. ASSUME NEW i \in Instances, Crash(i)  PROVE StreamOK'
    BY <1>17 DEF Crash
<1>18. CASE UNCHANGED vars
    BY <1>18 DEF vars
<1> QED
    BY <1>1, <1>2, <1>3, <1>4, <1>5, <1>6, <1>7, <1>8, <1>9, <1>10, <1>11, <1>12,
       <1>13, <1>14, <1>15, <1>16, <1>17, <1>18
    DEF Next, Loop

\* One step keeps the types of what Redis keeps.
LEMMA RedisStep ==
    ASSUME StreamOK, RedisOK, ProcOK, HandsApart, [Next]_vars
    PROVE  RedisOK'
<1> USE NilAssumption DEF RedisOK, Settled, redis, proc, ghosts, Sent, Lost, Go
<1>1. ASSUME NEW id \in RequestIds \union {Nil}, Add(id)  PROVE RedisOK'
    BY <1>1, AddKeeps DEF proc, ghosts
<1>2. ASSUME NEW i \in Instances, Start(i)  PROVE RedisOK'
    BY <1>2 DEF Start
<1>3. ASSUME NEW i \in Instances, DrainPending(i)  PROVE RedisOK'
    BY <1>3 DEF DrainPending
<1>4. ASSUME NEW i \in Instances, NEW m \in Msgs, MarkInterrupted(i, m)  PROVE RedisOK'
    BY <1>4 DEF MarkInterrupted
<1>5. ASSUME NEW i \in Instances, NEW m \in Msgs, DrainAck(i, m)  PROVE RedisOK'
    BY <1>5 DEF DrainAck
<1>6. ASSUME NEW i \in Instances, EndDrain(i)  PROVE RedisOK'
    BY <1>6 DEF EndDrain
<1>7. ASSUME NEW i \in Instances, LoopHead(i)  PROVE RedisOK'
    BY <1>7 DEF LoopHead
<1>8. ASSUME NEW i \in Instances, ReadNothing(i)  PROVE RedisOK'
    BY <1>8 DEF ReadNothing
<1>9. ASSUME NEW i \in Instances, ReadMessage(i)  PROVE RedisOK'
    <2> DEFINE n == delivered + 1
    <2>1. /\ n \in Msgs /\ n \notin 1..delivered /\ 1..delivered \subseteq 1..n /\ n \in 1..n
          /\ \A m \in 1..n : m = n \/ m \in 1..delivered
          /\ \A m \in Msgs : (m > n => m > delivered) /\ (m <= delivered => m <= n)
          /\ n <= n /\ n > delivered /\ ~(n <= delivered)
        BY <1>9, NextType DEF ReadMessage, Msgs
    <2>2. delivered' = n /\ pending' = pending \union {n} /\ n \notin pending
        BY <1>9, <2>1 DEF ReadMessage, RedisOK
    <2>3. \/ cur' = [cur EXCEPT ![i] = n] /\ Go(i, "received") /\ muted' = muted
          \/ cur' = cur /\ Go(i, "loop") /\ muted' = muted \union {n}
        BY <1>9 DEF ReadMessage
    <2>4. UNCHANGED <<asked, group, status, latest, events, todo, stopping, runs, stolen>>
        BY <1>9 DEF ReadMessage
    <2> HIDE DEF n
    <2> QED
        BY <1>9, <2>1, <2>2, <2>3, <2>4 DEF Go
<1>10. ASSUME NEW i \in Instances, SetLatest(i)  PROVE RedisOK'
    BY <1>10, HandType DEF SetLatest, ProcOK
<1>11. ASSUME NEW i \in Instances, MarkRunning(i)  PROVE RedisOK'
    BY <1>11, HandType DEF MarkRunning, ProcOK
<1>12. ASSUME NEW i \in Instances, RunOnce(i)  PROVE RedisOK'
    BY <1>12 DEF RunOnce
<1>13. ASSUME NEW i \in Instances, Finish(i)  PROVE RedisOK'
    BY <1>13, HandType DEF Finish, ProcOK
<1>14. ASSUME NEW i \in Instances, AppendEvent(i)  PROVE RedisOK'
    BY <1>14, HandType DEF AppendEvent, ProcOK
<1>15. ASSUME NEW i \in Instances, Ack(i)  PROVE RedisOK'
    BY <1>15, HandType DEF Ack, ProcOK
<1>16. ASSUME NEW i \in Instances, Stop(i)  PROVE RedisOK'
    BY <1>16 DEF Stop
<1>17. ASSUME NEW i \in Instances, Crash(i)  PROVE RedisOK'
    BY <1>17 DEF Crash
<1>18. CASE UNCHANGED vars
    BY <1>18 DEF vars
<1> QED
    BY <1>1, <1>2, <1>3, <1>4, <1>5, <1>6, <1>7, <1>8, <1>9, <1>10, <1>11, <1>12,
       <1>13, <1>14, <1>15, <1>16, <1>17, <1>18
    DEF Next, Loop

\* A message is in hand between its read and its XACK.
LEMMA ProcStep ==
    ASSUME StreamOK, RedisOK, ProcOK, [Next]_vars
    PROVE  ProcOK'
<1> USE NilAssumption DEF ProcOK, redis, proc, ghosts, Sent, Lost, Go
<1>1. ASSUME NEW id \in RequestIds \union {Nil}, Add(id)  PROVE ProcOK'
    BY <1>1, AddQuiet
<1>2. ASSUME NEW i \in Instances, Start(i)  PROVE ProcOK'
    BY <1>2 DEF Start
<1>3. ASSUME NEW i \in Instances, DrainPending(i)  PROVE ProcOK'
    <2> DEFINE First == {m \in pending : Cardinality({x \in pending : x < m}) < DrainCount}
    <2>1. /\ First \subseteq pending /\ pending \subseteq 1..delivered /\ pending \subseteq Msgs
        BY MessagesAssumption DEF StreamOK, RedisOK, Msgs
    <2>2. todo' \in {todo, [todo EXCEPT ![i] = First]} /\ muted' \in {muted, muted \union pending}
        BY <1>3 DEF DrainPending
    <2>3. Go(i, "mark") /\ pc[i] = "drain" /\ UNCHANGED <<redis, cur, stopping, runs, stolen>>
        BY <1>3 DEF DrainPending
    <2> HIDE DEF First
    <2> QED
        BY <2>1, <2>2, <2>3 DEF redis, Go
<1>4. ASSUME NEW i \in Instances, NEW m \in Msgs, MarkInterrupted(i, m)  PROVE ProcOK'
    BY <1>4 DEF MarkInterrupted
<1>5. ASSUME NEW i \in Instances, NEW m \in Msgs, DrainAck(i, m)  PROVE ProcOK'
    BY <1>5 DEF DrainAck
<1>6. ASSUME NEW i \in Instances, EndDrain(i)  PROVE ProcOK'
    BY <1>6 DEF EndDrain
<1>7. ASSUME NEW i \in Instances, LoopHead(i)  PROVE ProcOK'
    BY <1>7 DEF LoopHead
<1>8. ASSUME NEW i \in Instances, ReadNothing(i)  PROVE ProcOK'
    BY <1>8 DEF ReadNothing
<1>9. ASSUME NEW i \in Instances, ReadMessage(i)  PROVE ProcOK'
    BY <1>9, NextType DEF ReadMessage
<1>10. ASSUME NEW i \in Instances, SetLatest(i)  PROVE ProcOK'
    BY <1>10 DEF SetLatest
<1>11. ASSUME NEW i \in Instances, MarkRunning(i)  PROVE ProcOK'
    BY <1>11 DEF MarkRunning
<1>12. ASSUME NEW i \in Instances, RunOnce(i)  PROVE ProcOK'
    BY <1>12 DEF RunOnce
<1>13. ASSUME NEW i \in Instances, Finish(i)  PROVE ProcOK'
    BY <1>13 DEF Finish
<1>14. ASSUME NEW i \in Instances, AppendEvent(i)  PROVE ProcOK'
    BY <1>14 DEF AppendEvent
<1>15. ASSUME NEW i \in Instances, Ack(i)  PROVE ProcOK'
    BY <1>15 DEF Ack
<1>16. ASSUME NEW i \in Instances, Stop(i)  PROVE ProcOK'
    BY <1>16 DEF Stop
<1>17. ASSUME NEW i \in Instances, Crash(i)  PROVE ProcOK'
    BY <1>17 DEF Crash
<1>18. CASE UNCHANGED vars
    BY <1>18 DEF vars
<1> QED
    BY <1>1, <1>2, <1>3, <1>4, <1>5, <1>6, <1>7, <1>8, <1>9, <1>10, <1>11, <1>12,
       <1>13, <1>14, <1>15, <1>16, <1>17, <1>18
    DEF Next, Loop

\* One step keeps the types of the history.
LEMMA GhostsStep ==
    ASSUME StreamOK, RedisOK, ProcOK, GhostsOK, HandsApart, [Next]_vars
    PROVE  GhostsOK'
<1> USE MessagesAssumption, NilAssumption DEF GhostsOK, redis, proc, ghosts, Sent, Lost, Go
<1>1. ASSUME NEW id \in RequestIds \union {Nil}, Add(id)  PROVE GhostsOK'
    BY <1>1, AddQuiet
<1>2. ASSUME NEW i \in Instances, Start(i)  PROVE GhostsOK'
    BY <1>2 DEF Start
<1>3. ASSUME NEW i \in Instances, DrainPending(i)  PROVE GhostsOK'
    <2>1. pending \subseteq Msgs
        BY MessagesAssumption DEF StreamOK, RedisOK, Msgs
    <2>2. \/ Sent
          \/ Lost(pending)
        BY <1>3 DEF DrainPending
    <2> QED
        BY <1>3, <2>1, <2>2 DEF DrainPending
<1>4. ASSUME NEW i \in Instances, NEW m \in Msgs, MarkInterrupted(i, m)  PROVE GhostsOK'
    BY <1>4 DEF MarkInterrupted
<1>5. ASSUME NEW i \in Instances, NEW m \in Msgs, DrainAck(i, m)  PROVE GhostsOK'
    BY <1>5 DEF DrainAck
<1>6. ASSUME NEW i \in Instances, EndDrain(i)  PROVE GhostsOK'
    BY <1>6 DEF EndDrain
<1>7. ASSUME NEW i \in Instances, LoopHead(i)  PROVE GhostsOK'
    BY <1>7 DEF LoopHead
<1>8. ASSUME NEW i \in Instances, ReadNothing(i)  PROVE GhostsOK'
    BY <1>8 DEF ReadNothing
<1>9. ASSUME NEW i \in Instances, ReadMessage(i)  PROVE GhostsOK'
    BY <1>9, NextType DEF ReadMessage
<1>10. ASSUME NEW i \in Instances, SetLatest(i)  PROVE GhostsOK'
    BY <1>10 DEF SetLatest
<1>11. ASSUME NEW i \in Instances, MarkRunning(i)  PROVE GhostsOK'
    BY <1>11 DEF MarkRunning
<1>12. ASSUME NEW i \in Instances, RunOnce(i)  PROVE GhostsOK'
    BY <1>12 DEF RunOnce, ProcOK
<1>13. ASSUME NEW i \in Instances, Finish(i)  PROVE GhostsOK'
    BY <1>13 DEF Finish, ProcOK
<1>14. ASSUME NEW i \in Instances, AppendEvent(i)  PROVE GhostsOK'
    BY <1>14 DEF AppendEvent
<1>15. ASSUME NEW i \in Instances, Ack(i)  PROVE GhostsOK'
    BY <1>15 DEF Ack
<1>16. ASSUME NEW i \in Instances, Stop(i)  PROVE GhostsOK'
    BY <1>16 DEF Stop
<1>17. ASSUME NEW i \in Instances, Crash(i)  PROVE GhostsOK'
    BY <1>17 DEF Crash
<1>18. CASE UNCHANGED vars
    BY <1>18 DEF vars
<1> QED
    BY <1>1, <1>2, <1>3, <1>4, <1>5, <1>6, <1>7, <1>8, <1>9, <1>10, <1>11, <1>12,
       <1>13, <1>14, <1>15, <1>16, <1>17, <1>18
    DEF Next, Loop

\* Two instances are never handed the same message.
LEMMA HandsStep ==
    ASSUME StreamOK, RedisOK, ProcOK, GhostsOK, HandsApart, DrainsSeen, [Next]_vars
    PROVE  HandsApart'
<1> USE NilAssumption DEF RedisOK, ProcOK, GhostsOK, HandsApart, DrainsSeen, Marked, redis, proc, ghosts, Sent, Lost, Go
<1>1. ASSUME NEW id \in RequestIds \union {Nil}, Add(id)  PROVE HandsApart'
    BY <1>1, AddQuiet
<1>2. ASSUME NEW i \in Instances, Start(i)  PROVE HandsApart'
    BY <1>2 DEF Start
<1>3. ASSUME NEW i \in Instances, DrainPending(i)  PROVE HandsApart'
    BY <1>3 DEF DrainPending
<1>4. ASSUME NEW i \in Instances, NEW m \in Msgs, MarkInterrupted(i, m)  PROVE HandsApart'
    BY <1>4 DEF MarkInterrupted
<1>5. ASSUME NEW i \in Instances, NEW m \in Msgs, DrainAck(i, m)  PROVE HandsApart'
    BY <1>5 DEF DrainAck
<1>6. ASSUME NEW i \in Instances, EndDrain(i)  PROVE HandsApart'
    BY <1>6 DEF EndDrain
<1>7. ASSUME NEW i \in Instances, LoopHead(i)  PROVE HandsApart'
    BY <1>7 DEF LoopHead
<1>8. ASSUME NEW i \in Instances, ReadNothing(i)  PROVE HandsApart'
    BY <1>8 DEF ReadNothing
<1>9. ASSUME NEW i \in Instances, ReadMessage(i)  PROVE HandsApart'
    <2> DEFINE n == delivered + 1
    <2>1. /\ n \in Msgs /\ n \notin 1..delivered /\ 1..delivered \subseteq 1..n /\ n \in 1..n
          /\ \A m \in 1..n : m = n \/ m \in 1..delivered
          /\ \A m \in Msgs : (m > n => m > delivered) /\ (m <= delivered => m <= n)
          /\ n <= n /\ n > delivered /\ ~(n <= delivered)
        BY <1>9, NextType DEF ReadMessage, Msgs
    <2>2. delivered' = n /\ pending' = pending \union {n} /\ n \notin pending
        BY <1>9, <2>1 DEF ReadMessage, RedisOK
    <2>3. \/ cur' = [cur EXCEPT ![i] = n] /\ Go(i, "received") /\ muted' = muted
          \/ cur' = cur /\ Go(i, "loop") /\ muted' = muted \union {n}
        BY <1>9 DEF ReadMessage
    <2>4. UNCHANGED <<asked, group, status, latest, events, todo, stopping, runs, stolen>>
        BY <1>9 DEF ReadMessage
    <2> HIDE DEF n
    <2> QED
        BY <1>9, <2>1, <2>2, <2>3, <2>4 DEF Go
<1>10. ASSUME NEW i \in Instances, SetLatest(i)  PROVE HandsApart'
    BY <1>10 DEF SetLatest
<1>11. ASSUME NEW i \in Instances, MarkRunning(i)  PROVE HandsApart'
    BY <1>11 DEF MarkRunning
<1>12. ASSUME NEW i \in Instances, RunOnce(i)  PROVE HandsApart'
    BY <1>12 DEF RunOnce
<1>13. ASSUME NEW i \in Instances, Finish(i)  PROVE HandsApart'
    BY <1>13 DEF Finish
<1>14. ASSUME NEW i \in Instances, AppendEvent(i)  PROVE HandsApart'
    BY <1>14 DEF AppendEvent
<1>15. ASSUME NEW i \in Instances, Ack(i)  PROVE HandsApart'
    BY <1>15 DEF Ack
<1>16. ASSUME NEW i \in Instances, Stop(i)  PROVE HandsApart'
    BY <1>16 DEF Stop
<1>17. ASSUME NEW i \in Instances, Crash(i)  PROVE HandsApart'
    BY <1>17 DEF Crash
<1>18. CASE UNCHANGED vars
    BY <1>18 DEF vars
<1> QED
    BY <1>1, <1>2, <1>3, <1>4, <1>5, <1>6, <1>7, <1>8, <1>9, <1>10, <1>11, <1>12,
       <1>13, <1>14, <1>15, <1>16, <1>17, <1>18
    DEF Next, Loop

\* A message is run only on its way from the read.
LEMMA RunsStep ==
    ASSUME StreamOK, RedisOK, ProcOK, GhostsOK, HandsApart, RunsCounted, [Next]_vars
    PROVE  RunsCounted'
<1> USE NilAssumption DEF RedisOK, ProcOK, GhostsOK, HandsApart, RunsCounted, Msgs, redis, proc, ghosts, Sent, Lost, Go
<1>1. ASSUME NEW id \in RequestIds \union {Nil}, Add(id)  PROVE RunsCounted'
    <2>1. UNCHANGED <<delivered, pc, cur, runs>>
        BY <1>1, AddQuiet
    <2> QED
        BY <2>1
<1>2. ASSUME NEW i \in Instances, Start(i)  PROVE RunsCounted'
    BY <1>2 DEF Start
<1>3. ASSUME NEW i \in Instances, DrainPending(i)  PROVE RunsCounted'
    BY <1>3 DEF DrainPending
<1>4. ASSUME NEW i \in Instances, NEW m \in Msgs, MarkInterrupted(i, m)  PROVE RunsCounted'
    BY <1>4 DEF MarkInterrupted
<1>5. ASSUME NEW i \in Instances, NEW m \in Msgs, DrainAck(i, m)  PROVE RunsCounted'
    BY <1>5 DEF DrainAck
<1>6. ASSUME NEW i \in Instances, EndDrain(i)  PROVE RunsCounted'
    BY <1>6 DEF EndDrain
<1>7. ASSUME NEW i \in Instances, LoopHead(i)  PROVE RunsCounted'
    BY <1>7 DEF LoopHead
<1>8. ASSUME NEW i \in Instances, ReadNothing(i)  PROVE RunsCounted'
    BY <1>8 DEF ReadNothing
<1>9. ASSUME NEW i \in Instances, ReadMessage(i)  PROVE RunsCounted'
    <2> DEFINE n == delivered + 1
    <2>1. /\ n \in Msgs /\ n \notin 1..delivered /\ 1..delivered \subseteq 1..n /\ n \in 1..n
          /\ \A m \in 1..n : m = n \/ m \in 1..delivered
          /\ \A m \in Msgs : (m > n => m > delivered) /\ (m <= delivered => m <= n)
          /\ n <= n /\ n > delivered /\ ~(n <= delivered)
        BY <1>9, NextType DEF ReadMessage, Msgs
    <2>2. delivered' = n /\ pending' = pending \union {n} /\ n \notin pending
        BY <1>9, <2>1 DEF ReadMessage, RedisOK
    <2>3. \/ cur' = [cur EXCEPT ![i] = n] /\ Go(i, "received") /\ muted' = muted
          \/ cur' = cur /\ Go(i, "loop") /\ muted' = muted \union {n}
        BY <1>9 DEF ReadMessage
    <2>4. UNCHANGED <<asked, group, status, latest, events, todo, stopping, runs, stolen>>
        BY <1>9 DEF ReadMessage
    <2> HIDE DEF n
    <2> QED
        BY <1>9, <2>1, <2>2, <2>3, <2>4 DEF Go
<1>10. ASSUME NEW i \in Instances, SetLatest(i)  PROVE RunsCounted'
    BY <1>10 DEF SetLatest
<1>11. ASSUME NEW i \in Instances, MarkRunning(i)  PROVE RunsCounted'
    BY <1>11 DEF MarkRunning
<1>12. ASSUME NEW i \in Instances, RunOnce(i)  PROVE RunsCounted'
    <2>1. cur[i] \in Msgs /\ cur[i] # Nil /\ cur[i] <= delivered /\ ~(cur[i] > delivered) /\ runs[cur[i]] = 0
        BY <1>12, HandType DEF RunOnce, StreamOK
    <2>2. runs' = [runs EXCEPT ![cur[i]] = 1] /\ Go(i, "finish")
        BY <1>12, <2>1 DEF RunOnce
    <2> QED
        BY <1>12, <2>1, <2>2 DEF RunOnce
<1>13. ASSUME NEW i \in Instances, Finish(i)  PROVE RunsCounted'
    BY <1>13 DEF Finish
<1>14. ASSUME NEW i \in Instances, AppendEvent(i)  PROVE RunsCounted'
    BY <1>14 DEF AppendEvent
<1>15. ASSUME NEW i \in Instances, Ack(i)  PROVE RunsCounted'
    BY <1>15 DEF Ack
<1>16. ASSUME NEW i \in Instances, Stop(i)  PROVE RunsCounted'
    BY <1>16 DEF Stop
<1>17. ASSUME NEW i \in Instances, Crash(i)  PROVE RunsCounted'
    BY <1>17 DEF Crash
<1>18. CASE UNCHANGED vars
    BY <1>18 DEF vars
<1> QED
    BY <1>1, <1>2, <1>3, <1>4, <1>5, <1>6, <1>7, <1>8, <1>9, <1>10, <1>11, <1>12,
       <1>13, <1>14, <1>15, <1>16, <1>17, <1>18
    DEF Next, Loop

\* What is drained was delivered.
LEMMA DrainsStep ==
    ASSUME StreamOK, RedisOK, ProcOK, GhostsOK, HandsApart, DrainsSeen, [Next]_vars
    PROVE  DrainsSeen'
<1> USE NilAssumption DEF RedisOK, ProcOK, GhostsOK, HandsApart, DrainsSeen, Marked, NextPending, redis, proc, ghosts, Sent, Lost, Go
<1>1. ASSUME NEW id \in RequestIds \union {Nil}, Add(id)  PROVE DrainsSeen'
    BY <1>1, AddQuiet
<1>2. ASSUME NEW i \in Instances, Start(i)  PROVE DrainsSeen'
    BY <1>2 DEF Start
<1>3. ASSUME NEW i \in Instances, DrainPending(i)  PROVE DrainsSeen'
    <2> DEFINE First == {m \in pending : Cardinality({x \in pending : x < m}) < DrainCount}
    <2>1. /\ First \subseteq pending /\ pending \subseteq 1..delivered /\ pending \subseteq Msgs
        BY MessagesAssumption DEF StreamOK, RedisOK, Msgs
    <2>2. todo' \in {todo, [todo EXCEPT ![i] = First]} /\ muted' \in {muted, muted \union pending}
        BY <1>3 DEF DrainPending
    <2>3. Go(i, "mark") /\ pc[i] = "drain" /\ UNCHANGED <<redis, cur, stopping, runs, stolen>>
        BY <1>3 DEF DrainPending
    <2> HIDE DEF First
    <2>4. /\ pc' = [pc EXCEPT ![i] = "mark"] /\ UNCHANGED <<delivered, pending, cur, stolen>>
          /\ todo'[i] \in {todo[i], First} /\ \A j \in Instances \ {i} : todo'[j] = todo[j]
        BY <2>2, <2>3 DEF redis, Go
    <2>5. muted' \union stolen' \subseteq 1..delivered'
        BY <2>1, <2>2, <2>4
    <2>6. \A j \in Instances : todo'[j] \subseteq 1..delivered'
        BY <2>1, <2>4
    <2>7. \A j, k \in Instances : Marked(j, cur[k])' => Marked(j, cur[k])
        BY <2>4
    <2> QED
        BY <2>4, <2>5, <2>6, <2>7
<1>4. ASSUME NEW i \in Instances, NEW m \in Msgs, MarkInterrupted(i, m)  PROVE DrainsSeen'
    BY <1>4 DEF MarkInterrupted
<1>5. ASSUME NEW i \in Instances, NEW m \in Msgs, DrainAck(i, m)  PROVE DrainsSeen'
    BY <1>5 DEF DrainAck
<1>6. ASSUME NEW i \in Instances, EndDrain(i)  PROVE DrainsSeen'
    BY <1>6 DEF EndDrain
<1>7. ASSUME NEW i \in Instances, LoopHead(i)  PROVE DrainsSeen'
    BY <1>7 DEF LoopHead
<1>8. ASSUME NEW i \in Instances, ReadNothing(i)  PROVE DrainsSeen'
    BY <1>8 DEF ReadNothing
<1>9. ASSUME NEW i \in Instances, ReadMessage(i)  PROVE DrainsSeen'
    <2> DEFINE n == delivered + 1
    <2>1. /\ n \in Msgs /\ n \notin 1..delivered /\ 1..delivered \subseteq 1..n /\ n \in 1..n
          /\ \A m \in 1..n : m = n \/ m \in 1..delivered
          /\ \A m \in Msgs : (m > n => m > delivered) /\ (m <= delivered => m <= n)
          /\ n <= n /\ n > delivered /\ ~(n <= delivered)
        BY <1>9, NextType DEF ReadMessage, Msgs
    <2>2. delivered' = n /\ pending' = pending \union {n} /\ n \notin pending
        BY <1>9, <2>1 DEF ReadMessage, RedisOK
    <2>3. \/ cur' = [cur EXCEPT ![i] = n] /\ Go(i, "received") /\ muted' = muted
          \/ cur' = cur /\ Go(i, "loop") /\ muted' = muted \union {n}
        BY <1>9 DEF ReadMessage
    <2>4. UNCHANGED <<asked, group, status, latest, events, todo, stopping, runs, stolen>>
        BY <1>9 DEF ReadMessage
    <2> HIDE DEF n
    <2> QED
        BY <1>9, <2>1, <2>2, <2>3, <2>4 DEF Go
<1>10. ASSUME NEW i \in Instances, SetLatest(i)  PROVE DrainsSeen'
    BY <1>10 DEF SetLatest
<1>11. ASSUME NEW i \in Instances, MarkRunning(i)  PROVE DrainsSeen'
    BY <1>11 DEF MarkRunning
<1>12. ASSUME NEW i \in Instances, RunOnce(i)  PROVE DrainsSeen'
    BY <1>12 DEF RunOnce
<1>13. ASSUME NEW i \in Instances, Finish(i)  PROVE DrainsSeen'
    <2>1. cur[i] \in 1..delivered
        BY <1>13, HandType DEF Finish
    <2>2. /\ Go(i, "event") /\ muted' \in {muted, muted \union {cur[i]}}
          /\ UNCHANGED <<delivered, pending, cur, todo, stolen>>
        BY <1>13 DEF Finish
    <2>3. \A j, k \in Instances : Marked(j, cur[k])' => Marked(j, cur[k])
        BY <2>2
    <2> QED
        BY <2>1, <2>2, <2>3
<1>14. ASSUME NEW i \in Instances, AppendEvent(i)  PROVE DrainsSeen'
    BY <1>14 DEF AppendEvent
<1>15. ASSUME NEW i \in Instances, Ack(i)  PROVE DrainsSeen'
    BY <1>15 DEF Ack
<1>16. ASSUME NEW i \in Instances, Stop(i)  PROVE DrainsSeen'
    BY <1>16 DEF Stop
<1>17. ASSUME NEW i \in Instances, Crash(i)  PROVE DrainsSeen'
    BY <1>17 DEF Crash
<1>18. CASE UNCHANGED vars
    BY <1>18 DEF vars
<1> QED
    BY <1>1, <1>2, <1>3, <1>4, <1>5, <1>6, <1>7, <1>8, <1>9, <1>10, <1>11, <1>12,
       <1>13, <1>14, <1>15, <1>16, <1>17, <1>18
    DEF Next, Loop

\* A message gets one event, and no status after it.
LEMMA EventsStep ==
    ASSUME StreamOK, RedisOK, ProcOK, GhostsOK, HandsApart, EventsLast, [Next]_vars
    PROVE  EventsLast'
<1> USE NilAssumption DEF RedisOK, ProcOK, GhostsOK, HandsApart, EventsLast, redis, proc, ghosts, Sent, Lost, Go
<1>1. ASSUME NEW id \in RequestIds \union {Nil}, Add(id)  PROVE EventsLast'
    BY <1>1, AddQuiet
<1>2. ASSUME NEW i \in Instances, Start(i)  PROVE EventsLast'
    BY <1>2 DEF Start
<1>3. ASSUME NEW i \in Instances, DrainPending(i)  PROVE EventsLast'
    BY <1>3 DEF DrainPending
<1>4. ASSUME NEW i \in Instances, NEW m \in Msgs, MarkInterrupted(i, m)  PROVE EventsLast'
    BY <1>4 DEF MarkInterrupted
<1>5. ASSUME NEW i \in Instances, NEW m \in Msgs, DrainAck(i, m)  PROVE EventsLast'
    BY <1>5 DEF DrainAck
<1>6. ASSUME NEW i \in Instances, EndDrain(i)  PROVE EventsLast'
    BY <1>6 DEF EndDrain
<1>7. ASSUME NEW i \in Instances, LoopHead(i)  PROVE EventsLast'
    BY <1>7 DEF LoopHead
<1>8. ASSUME NEW i \in Instances, ReadNothing(i)  PROVE EventsLast'
    BY <1>8 DEF ReadNothing
<1>9. ASSUME NEW i \in Instances, ReadMessage(i)  PROVE EventsLast'
    <2> DEFINE n == delivered + 1
    <2>1. /\ n \in Msgs /\ n \notin 1..delivered /\ 1..delivered \subseteq 1..n /\ n \in 1..n
          /\ \A m \in 1..n : m = n \/ m \in 1..delivered
          /\ \A m \in Msgs : (m > n => m > delivered) /\ (m <= delivered => m <= n)
          /\ n <= n /\ n > delivered /\ ~(n <= delivered)
        BY <1>9, NextType DEF ReadMessage, Msgs
    <2>2. delivered' = n /\ pending' = pending \union {n} /\ n \notin pending
        BY <1>9, <2>1 DEF ReadMessage, RedisOK
    <2>3. \/ cur' = [cur EXCEPT ![i] = n] /\ Go(i, "received") /\ muted' = muted
          \/ cur' = cur /\ Go(i, "loop") /\ muted' = muted \union {n}
        BY <1>9 DEF ReadMessage
    <2>4. UNCHANGED <<asked, group, status, latest, events, todo, stopping, runs, stolen>>
        BY <1>9 DEF ReadMessage
    <2> HIDE DEF n
    <2> QED
        BY <1>9, <2>1, <2>2, <2>3, <2>4 DEF Go
<1>10. ASSUME NEW i \in Instances, SetLatest(i)  PROVE EventsLast'
    BY <1>10 DEF SetLatest
<1>11. ASSUME NEW i \in Instances, MarkRunning(i)  PROVE EventsLast'
    BY <1>11 DEF MarkRunning
<1>12. ASSUME NEW i \in Instances, RunOnce(i)  PROVE EventsLast'
    BY <1>12 DEF RunOnce
<1>13. ASSUME NEW i \in Instances, Finish(i)  PROVE EventsLast'
    BY <1>13 DEF Finish
<1>14. ASSUME NEW i \in Instances, AppendEvent(i)  PROVE EventsLast'
    BY <1>14, HandType DEF AppendEvent
<1>15. ASSUME NEW i \in Instances, Ack(i)  PROVE EventsLast'
    BY <1>15 DEF Ack
<1>16. ASSUME NEW i \in Instances, Stop(i)  PROVE EventsLast'
    BY <1>16 DEF Stop
<1>17. ASSUME NEW i \in Instances, Crash(i)  PROVE EventsLast'
    BY <1>17 DEF Crash
<1>18. CASE UNCHANGED vars
    BY <1>18 DEF vars
<1> QED
    BY <1>1, <1>2, <1>3, <1>4, <1>5, <1>6, <1>7, <1>8, <1>9, <1>10, <1>11, <1>12,
       <1>13, <1>14, <1>15, <1>16, <1>17, <1>18
    DEF Next, Loop

\* A message is over only after its status was written or lost.
LEMMA AnsweredStep ==
    ASSUME StreamOK, RedisOK, ProcOK, GhostsOK, HandsApart, DrainsSeen, EventsLast, OverAnswered, [Next]_vars
    PROVE  OverAnswered'
<1> USE NilAssumption DEF RedisOK, ProcOK, GhostsOK, HandsApart, DrainsSeen, EventsLast, OverAnswered, Over, Forgiven, Marked, NextPending, Key, Named, Settled, redis, proc, ghosts, Sent, Lost, Go
<1>1. ASSUME NEW id \in RequestIds \union {Nil}, Add(id)  PROVE OverAnswered'
    BY <1>1, AddKeeps DEF proc, ghosts
<1>2. ASSUME NEW i \in Instances, Start(i)  PROVE OverAnswered'
    BY <1>2 DEF Start
<1>3. ASSUME NEW i \in Instances, DrainPending(i)  PROVE OverAnswered'
    BY <1>3 DEF DrainPending
<1>4. ASSUME NEW i \in Instances, NEW m \in Msgs, MarkInterrupted(i, m)  PROVE OverAnswered'
    <2> SUFFICES ASSUME NEW x \in 1..delivered', Over(x)'
                 PROVE  status'[Key(x)] # "none" \/ \E y \in muted' \union stolen' : Key(y) = Key(x)
        BY <1>4 DEF MarkInterrupted
    <2>1. Key(x) \in RequestKeys
        BY <1>4, KeyType DEF MarkInterrupted, StreamOK
    <2>2. CASE x = m
        BY <1>4, <2>1, <2>2 DEF MarkInterrupted
    <2>3. CASE x # m
        <3>1. \A j \in Instances : Marked(j, x)' => Marked(j, x)
            <4> SUFFICES ASSUME NEW j \in Instances, Marked(j, x)' PROVE Marked(j, x)
                OBVIOUS
            <4>1. todo[j] \subseteq Nat /\ m \in Nat
                BY DEF Msgs
            <4> QED
                BY <1>4, <2>3, <4>1 DEF MarkInterrupted
        <3>2. \A j \in Instances : pc'[j] \in {"event", "ack"} => pc[j] \in {"event", "ack"}
            BY <1>4 DEF MarkInterrupted
        <3>3. Over(x)
            BY <1>4, <3>1, <3>2 DEF MarkInterrupted
        <3> QED
            BY <1>4, <2>1, <3>3 DEF MarkInterrupted
    <2> QED
        BY <2>2, <2>3
<1>5. ASSUME NEW i \in Instances, NEW m \in Msgs, DrainAck(i, m)  PROVE OverAnswered'
    BY <1>5 DEF DrainAck
<1>6. ASSUME NEW i \in Instances, EndDrain(i)  PROVE OverAnswered'
    BY <1>6 DEF EndDrain
<1>7. ASSUME NEW i \in Instances, LoopHead(i)  PROVE OverAnswered'
    BY <1>7 DEF LoopHead
<1>8. ASSUME NEW i \in Instances, ReadNothing(i)  PROVE OverAnswered'
    BY <1>8 DEF ReadNothing
<1>9. ASSUME NEW i \in Instances, ReadMessage(i)  PROVE OverAnswered'
    <2>0. PICK n : n = delivered + 1
        OBVIOUS
    <2>1. n \in Msgs /\ n \notin 1..delivered /\ 1..n = 1..delivered \union {n}
        <3>1. delivered \in Nat /\ n \in Msgs
            BY <2>0, <1>9, NextType DEF ReadMessage
        <3> QED
            BY <2>0, <3>1
    <2>2. \A j \in Instances : cur[j] # n /\ n \notin todo[j]
        BY <2>1, HandType, NilAssumption
    <2>3. delivered' = n /\ pending' = pending \union {n}
        BY <1>9, <2>0 DEF ReadMessage
    <2>4. \/ cur' = [cur EXCEPT ![i] = n] /\ Go(i, "received") /\ muted' = muted
          \/ cur' = cur /\ Go(i, "loop") /\ muted' = muted \union {n}
        BY <1>9, <2>0 DEF ReadMessage
    <2>5. UNCHANGED <<asked, status, events, todo, stolen>> /\ pc[i] = "read"
        BY <1>9 DEF ReadMessage
    <2>6. ~Over(n)'
        <3>1. n \notin events' /\ n \in pending'
            BY <2>1, <2>3, <2>5
        <3>2. \A j \in Instances : n \notin todo'[j]
            BY <2>2, <2>5
        <3>3. \A j \in Instances : pc'[j] \in {"event", "ack"} => cur'[j] # n
            BY <2>2, <2>4 DEF Go
        <3> QED
            BY <3>1, <3>2, <3>3
    <2>7. ASSUME NEW x \in 1..delivered, Over(x)'  PROVE Over(x)
        BY <2>1, <2>3, <2>4, <2>5, <2>7 DEF Go
    <2> QED
        BY <2>1, <2>3, <2>4, <2>5, <2>6, <2>7
<1>10. ASSUME NEW i \in Instances, SetLatest(i)  PROVE OverAnswered'
    BY <1>10 DEF SetLatest
<1>11. ASSUME NEW i \in Instances, MarkRunning(i)  PROVE OverAnswered'
    <2> SUFFICES ASSUME NEW x \in 1..delivered', Over(x)'
                 PROVE  status'[Key(x)] # "none" \/ \E y \in muted' \union stolen' : Key(y) = Key(x)
        BY <1>11 DEF MarkRunning
    <2>1. Key(x) \in RequestKeys
        BY <1>11, KeyType DEF MarkRunning, StreamOK
    <2>2. Over(x)
        BY <1>11 DEF MarkRunning
    <2> QED
        BY <1>11, <2>1, <2>2 DEF MarkRunning
<1>12. ASSUME NEW i \in Instances, RunOnce(i)  PROVE OverAnswered'
    BY <1>12 DEF RunOnce
<1>13. ASSUME NEW i \in Instances, Finish(i)  PROVE OverAnswered'
    <2> SUFFICES ASSUME NEW x \in 1..delivered', Over(x)'
                 PROVE  status'[Key(x)] # "none" \/ \E y \in muted' \union stolen' : Key(y) = Key(x)
        BY <1>13 DEF Finish
    <2>1. Key(x) \in RequestKeys
        BY <1>13, KeyType DEF Finish, StreamOK
    <2>2. CASE x = cur[i]
        BY <1>13, <2>1, <2>2 DEF Finish
    <2>3. CASE x # cur[i]
        <3>1. Over(x)
            BY <1>13, <2>3 DEF Finish
        <3> QED
            BY <1>13, <2>1, <3>1 DEF Finish
    <2> QED
        BY <2>2, <2>3
<1>14. ASSUME NEW i \in Instances, AppendEvent(i)  PROVE OverAnswered'
    BY <1>14 DEF AppendEvent
<1>15. ASSUME NEW i \in Instances, Ack(i)  PROVE OverAnswered'
    BY <1>15 DEF Ack
<1>16. ASSUME NEW i \in Instances, Stop(i)  PROVE OverAnswered'
    BY <1>16 DEF Stop
<1>17. ASSUME NEW i \in Instances, Crash(i)  PROVE OverAnswered'
    BY <1>17 DEF Crash
<1>18. CASE UNCHANGED vars
    BY <1>18 DEF vars
<1> QED
    BY <1>1, <1>2, <1>3, <1>4, <1>5, <1>6, <1>7, <1>8, <1>9, <1>10, <1>11, <1>12,
       <1>13, <1>14, <1>15, <1>16, <1>17, <1>18
    DEF Next, Loop

\* A status that says running belongs to a message that is not over.
LEMMA OpenStep ==
    ASSUME StreamOK, RedisOK, ProcOK, GhostsOK, HandsApart, DrainsSeen, EventsLast, RunningOpen, [Next]_vars
    PROVE  RunningOpen'
<1> USE NilAssumption DEF RedisOK, ProcOK, GhostsOK, HandsApart, DrainsSeen, EventsLast, RunningOpen, Over, Forgiven, Marked, NextPending, Key, Named, Settled, redis, proc, ghosts, Sent, Lost, Go
<1>1. ASSUME NEW id \in RequestIds \union {Nil}, Add(id)  PROVE RunningOpen'
    <2> SUFFICES ASSUME NEW k \in RequestKeys, status[k] = "running"
                 PROVE  Forgiven(k)' \/ \E w \in pending : Key(w)' = k /\ ~Over(w)'
        BY <1>1, AddKeeps
    <2>1. Forgiven(k) => Forgiven(k)'
        BY <1>1, AddKeeps DEF ghosts
    <2>2. \A w : Over(w)' = Over(w)
        BY <1>1, AddKeeps DEF proc
    <2>3. \A w \in pending : Key(w)' = Key(w)
        BY <1>1, AddKeeps
    <2> QED
        BY <2>1, <2>2, <2>3
<1>2. ASSUME NEW i \in Instances, Start(i)  PROVE RunningOpen'
    BY <1>2 DEF Start
<1>3. ASSUME NEW i \in Instances, DrainPending(i)  PROVE RunningOpen'
    <2> DEFINE First == {m \in pending : Cardinality({x \in pending : x < m}) < DrainCount}
    <2>1. /\ First \subseteq pending /\ pending \subseteq 1..delivered /\ pending \subseteq Msgs
        BY MessagesAssumption DEF StreamOK, RedisOK, Msgs
    <2>2. todo' \in {todo, [todo EXCEPT ![i] = First]} /\ muted' \in {muted, muted \union pending}
        BY <1>3 DEF DrainPending
    <2>3. Go(i, "mark") /\ pc[i] = "drain" /\ UNCHANGED <<redis, cur, stopping, runs, stolen>>
        BY <1>3 DEF DrainPending
    <2> HIDE DEF First
    <2> QED
        BY <2>1, <2>2, <2>3 DEF redis, Go
<1>4. ASSUME NEW i \in Instances, NEW m \in Msgs, MarkInterrupted(i, m)  PROVE RunningOpen'
    BY <1>4 DEF MarkInterrupted
<1>5. ASSUME NEW i \in Instances, NEW m \in Msgs, DrainAck(i, m)  PROVE RunningOpen'
    BY <1>5 DEF DrainAck
<1>6. ASSUME NEW i \in Instances, EndDrain(i)  PROVE RunningOpen'
    BY <1>6 DEF EndDrain
<1>7. ASSUME NEW i \in Instances, LoopHead(i)  PROVE RunningOpen'
    BY <1>7 DEF LoopHead
<1>8. ASSUME NEW i \in Instances, ReadNothing(i)  PROVE RunningOpen'
    BY <1>8 DEF ReadNothing
<1>9. ASSUME NEW i \in Instances, ReadMessage(i)  PROVE RunningOpen'
    BY <1>9 DEF ReadMessage
<1>10. ASSUME NEW i \in Instances, SetLatest(i)  PROVE RunningOpen'
    BY <1>10 DEF SetLatest
<1>11. ASSUME NEW i \in Instances, MarkRunning(i)  PROVE RunningOpen'
    BY <1>11, HandType DEF MarkRunning
<1>12. ASSUME NEW i \in Instances, RunOnce(i)  PROVE RunningOpen'
    BY <1>12 DEF RunOnce
<1>13. ASSUME NEW i \in Instances, Finish(i)  PROVE RunningOpen'
    BY <1>13 DEF Finish
<1>14. ASSUME NEW i \in Instances, AppendEvent(i)  PROVE RunningOpen'
    BY <1>14 DEF AppendEvent
<1>15. ASSUME NEW i \in Instances, Ack(i)  PROVE RunningOpen'
    BY <1>15 DEF Ack
<1>16. ASSUME NEW i \in Instances, Stop(i)  PROVE RunningOpen'
    BY <1>16 DEF Stop
<1>17. ASSUME NEW i \in Instances, Crash(i)  PROVE RunningOpen'
    BY <1>17 DEF Crash
<1>18. CASE UNCHANGED vars
    BY <1>18 DEF vars
<1> QED
    BY <1>1, <1>2, <1>3, <1>4, <1>5, <1>6, <1>7, <1>8, <1>9, <1>10, <1>11, <1>12,
       <1>13, <1>14, <1>15, <1>16, <1>17, <1>18
    DEF Next, Loop

-----------------------------------------------------------------------------

\* The inductive invariant.
THEOREM ConsumerInvariant == Spec => []IInv
<1>1. IInv /\ [Next]_vars => IInv'
    <2>1. TypeOK' <=> StreamOK' /\ RedisOK' /\ ProcOK' /\ GhostsOK'
        BY TypeSplit, PTL
    <2> QED
        BY <2>1, TypeSplit, StreamStep, RedisStep, ProcStep, GhostsStep,
           HandsStep, RunsStep, DrainsStep, EventsStep, AnsweredStep, OpenStep DEF IInv
<1> QED
    BY <1>1, InitInv, PTL DEF Spec

\* Every variable keeps its type, and a message is in hand exactly from its read
\* to its acknowledgement.
THEOREM TypeCorrect == Spec => []TypeOK
<1>1. IInv => TypeOK
    BY DEF IInv
<1> QED
    BY <1>1, ConsumerInvariant, PTL

\* No request is scraped twice, whatever crashes, restarts and gets lost.
THEOREM RunsOnce == Spec => []RunAtMostOnce
<1>1. IInv => RunAtMostOnce
    BY DEF IInv, RunsCounted, RunAtMostOnce
<1> QED
    BY <1>1, ConsumerInvariant, PTL

\* A request whose event was seen, or whose message is acknowledged, has a
\* terminal status, or its id is in use again.
THEOREM AnswersLast == Spec => []AnswersStand
<1>1. ASSUME IInv PROVE AnswersStand
    <2> SUFFICES ASSUME NEW m \in 1..added, m \in events \/ (m <= delivered /\ m \notin pending)
                 PROVE  \/ status[Key(m)] \in Settled
                        \/ Excused(m)
                        \/ \E x \in pending : x # m /\ Key(x) = Key(m)
        BY DEF AnswersStand
    <2>1. m \in 1..delivered /\ Over(m) /\ Key(m) \in RequestKeys
        BY <1>1, KeyType, TypeSplit DEF IInv, EventsLast, Over, StreamOK
    <2>2. Forgiven(Key(m)) => Excused(m)
        BY DEF Forgiven, Excused
    <2>3. status[Key(m)] \in Settled \union {"none", "running"}
        BY <1>1, <2>1 DEF IInv, TypeOK
    <2>4. status[Key(m)] # "none" \/ Excused(m)
        BY <1>1, <2>1, <2>2 DEF IInv, OverAnswered
    <2>5. status[Key(m)] = "running" =>
              Excused(m) \/ \E x \in pending : x # m /\ Key(x) = Key(m)
        BY <1>1, <2>1, <2>2 DEF IInv, RunningOpen
    <2> QED
        BY <2>3, <2>4, <2>5
<1> QED
    BY <1>1, ConsumerInvariant, PTL
=============================================================================
