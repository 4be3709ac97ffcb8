-------------------------- MODULE JwksCacheProofs --------------------------
(***************************************************************************)
(* Proofs about JwksCache for any number of calls, keys and cache objects,  *)
(* any TTL and any time a fetch may take: the type invariant, that          *)
(* withdrawn keys expire and published ones arrive, and that the fetches of *)
(* a cache lie apart.                                                       *)
(***************************************************************************)
EXTENDS JwksCache, TLAPS

\* A call works on a cache object that exists and a key its token names, and a
\* lock has one holder.
Holding ==
    /\ lock \in [Caches -> Callers \union {Nil}]
    /\ \A c \in Callers :
        pc[c] \in {"get", "refresh", "fetch", "parse", "again"} => obj[c] \in created
    /\ \A c \in Callers : pc[c] # "idle" => kid[c] \in Kids

\* A fetch is under way no longer than its timeout, for a cache that had no
\* keys or was too old when it began; the second look-up meets a cache that was
\* young enough when the call began.
Timely ==
    \A c \in Callers :
        /\ pc[c] \in {"fetch", "parse"} =>
            /\ now <= asked[c] + FetchTime
            /\ keys[obj[c]] = {} \/ asked[c] >= fetchedAt[obj[c]] + Ttl
        /\ pc[c] = "again" => keys[obj[c]] # {} /\ began[c] < fetchedAt[obj[c]] + Ttl

\* A response, and a cache, differ from what is published now only in keys that
\* were withdrawn or published since the key server was asked.
BodyRecent ==
    \A c \in Callers, k \in Kids : pc[c] = "parse" =>
        /\ k \in body[c] \ published => gone[k] # Nil /\ gone[k] >= asked[c]
        /\ k \in published \ body[c] => since[k] >= asked[c]

KeysRecent ==
    \A o \in Caches, k \in Kids :
        /\ k \in keys[o] \ published => gone[k] # Nil /\ gone[k] + FetchTime >= fetchedAt[o]
        /\ keys[o] # {} /\ k \in published \ keys[o] => since[k] + FetchTime >= fetchedAt[o]

IInv ==
    /\ TypeOK /\ Holding /\ Timely /\ BodyRecent /\ KeysRecent
    /\ WithdrawnKeysExpire /\ PublishedKeysArrive

-----------------------------------------------------------------------------

\* The invariant holds at the start.
LEMMA InitInv == Init => IInv
<1> SUFFICES ASSUME Init PROVE IInv
    OBVIOUS
<1> USE TimesAssumption, NilAssumption DEF Init
<1>1. TypeOK
    BY DEF TypeOK
<1>2. Holding
    BY DEF Holding
<1>3. Timely /\ BodyRecent /\ KeysRecent
    BY DEF Timely, BodyRecent, KeysRecent
<1>4. WithdrawnKeysExpire /\ PublishedKeysArrive
    BY DEF WithdrawnKeysExpire, PublishedKeysArrive
<1> QED
    BY <1>1, <1>2, <1>3, <1>4 DEF IInv

\* One step keeps the types; the lock is released by its holder only.
LEMMA TypeStep ==
    ASSUME TypeOK, Holding, [Next]_vars
    PROVE  TypeOK'
<1> USE TimesAssumption, NilAssumption DEF TypeOK, Holding, realm, caches, calls
<1>1. CASE Tick
    BY <1>1 DEF Tick
<1>2. ASSUME NEW K \in SUBSET Kids, Rotate(K)  PROVE TypeOK'
    BY <1>2 DEF Rotate
<1>3. ASSUME NEW c \in Callers, NEW k \in Kids, Validate(c, k)  PROVE TypeOK'
    BY <1>3 DEF Validate, Go
<1>4. ASSUME NEW c \in Callers, keyFunc(c)  PROVE TypeOK'
    BY <1>4 DEF keyFunc, Go
<1>5. ASSUME NEW c \in Callers, NEW o \in Caches, newJWKSCache(c, o)  PROVE TypeOK'
    BY <1>5 DEF newJWKSCache, Go
<1>6. ASSUME NEW c \in Callers, get(c)  PROVE TypeOK'
    BY <1>6 DEF get, Go, Young
<1>7. ASSUME NEW c \in Callers, refresh(c)  PROVE TypeOK'
    BY <1>7 DEF refresh, Go, Young
<1>8. ASSUME NEW c \in Callers, FetchAnswered(c)  PROVE TypeOK'
    BY <1>8 DEF FetchAnswered, Go
<1>9. ASSUME NEW c \in Callers, FetchFailed(c)  PROVE TypeOK'
    BY <1>9 DEF FetchFailed, Go, Unlock
<1>10. ASSUME NEW c \in Callers, StoreKeys(c)  PROVE TypeOK'
    BY <1>10 DEF StoreKeys, Go, Unlock
<1>11. ASSUME NEW c \in Callers, getAgain(c)  PROVE TypeOK'
    BY <1>11 DEF getAgain, Go
<1>12. ASSUME NEW c \in Callers, Finish(c)  PROVE TypeOK'
    BY <1>12 DEF Finish, Go
<1>13. CASE UNCHANGED vars
    BY <1>13 DEF vars
<1> QED
    BY <1>1, <1>2, <1>3, <1>4, <1>5, <1>6, <1>7, <1>8, <1>9, <1>10, <1>11, <1>12,
       <1>13
    DEF Next, Inside

\* No call loses its cache object.
LEMMA HoldingStep ==
    ASSUME TypeOK, Holding, [Next]_vars
    PROVE  Holding'
<1> USE TimesAssumption, NilAssumption DEF TypeOK, Holding, realm, caches, calls
<1>1. CASE Tick
    BY <1>1 DEF Tick
<1>2. ASSUME NEW K \in SUBSET Kids, Rotate(K)  PROVE Holding'
    BY <1>2 DEF Rotate
<1>3. ASSUME NEW c \in Callers, NEW k \in Kids, Validate(c, k)  PROVE Holding'
    BY <1>3 DEF Validate, Go
<1>4. ASSUME NEW c \in Callers, keyFunc(c)  PROVE Holding'
    BY <1>4 DEF keyFunc, Go
<1>5. ASSUME NEW c \in Callers, NEW o \in Caches, newJWKSCache(c, o)  PROVE Holding'
    BY <1>5 DEF newJWKSCache, Go
<1>6. ASSUME NEW c \in Callers, get(c)  PROVE Holding'
    BY <1>6 DEF get, Go, Young
<1>7. ASSUME NEW c \in Callers, refresh(c)  PROVE Holding'
    BY <1>7 DEF refresh, Go, Young
<1>8. ASSUME NEW c \in Callers, FetchAnswered(c)  PROVE Holding'
    BY <1>8 DEF FetchAnswered, Go
<1>9. ASSUME NEW c \in Callers, FetchFailed(c)  PROVE Holding'
    BY <1>9 DEF FetchFailed, Go, Unlock
<1>10. ASSUME NEW c \in Callers, StoreKeys(c)  PROVE Holding'
    BY <1>10 DEF StoreKeys, Go, Unlock
<1>11. ASSUME NEW c \in Callers, getAgain(c)  PROVE Holding'
    BY <1>11 DEF getAgain, Go
<1>12. ASSUME NEW c \in Callers, Finish(c)  PROVE Holding'
    BY <1>12 DEF Finish, Go
<1>13. CASE UNCHANGED vars
    BY <1>13 DEF vars
<1> QED
    BY <1>1, <1>2, <1>3, <1>4, <1>5, <1>6, <1>7, <1>8, <1>9, <1>10, <1>11, <1>12,
       <1>13
    DEF Next, Inside

\* While a call holds the lock nobody else stores keys.
LEMMA TimelyStep ==
    ASSUME TypeOK, Holding, Timely, [Next]_vars
    PROVE  Timely'
<1> USE TimesAssumption, NilAssumption DEF TypeOK, Holding, Timely, realm, caches, calls
<1>1. CASE Tick
    BY <1>1 DEF Tick
<1>2. ASSUME NEW K \in SUBSET Kids, Rotate(K)  PROVE Timely'
    BY <1>2 DEF Rotate
<1>3. ASSUME NEW c \in Callers, NEW k \in Kids, Validate(c, k)  PROVE Timely'
    BY <1>3 DEF Validate, Go
<1>4. ASSUME NEW c \in Callers, keyFunc(c)  PROVE Timely'
    BY <1>4 DEF keyFunc, Go
<1>5. ASSUME NEW c \in Callers, NEW o \in Caches, newJWKSCache(c, o)  PROVE Timely'
    BY <1>5 DEF newJWKSCache, Go
<1>6. ASSUME NEW c \in Callers, get(c)  PROVE Timely'
    BY <1>6 DEF get, Go, Young
<1>7. ASSUME NEW c \in Callers, refresh(c)  PROVE Timely'
    BY <1>7 DEF refresh, Go, Young
<1>8. ASSUME NEW c \in Callers, FetchAnswered(c)  PROVE Timely'
    BY <1>8 DEF FetchAnswered, Go
<1>9. ASSUME NEW c \in Callers, FetchFailed(c)  PROVE Timely'
    BY <1>9 DEF FetchFailed, Go, Unlock
<1>10. ASSUME NEW c \in Callers, StoreKeys(c)  PROVE Timely'
    BY <1>10 DEF StoreKeys, Go, Unlock
<1>11. ASSUME NEW c \in Callers, getAgain(c)  PROVE Timely'
    BY <1>11 DEF getAgain, Go
<1>12. ASSUME NEW c \in Callers, Finish(c)  PROVE Timely'
    BY <1>12 DEF Finish, Go
<1>13. CASE UNCHANGED vars
    BY <1>13 DEF vars
<1> QED
    BY <1>1, <1>2, <1>3, <1>4, <1>5, <1>6, <1>7, <1>8, <1>9, <1>10, <1>11, <1>12,
       <1>13
    DEF Next, Inside

\* A rotation is dated after the requests that were made before it.
LEMMA BodyStep ==
    ASSUME TypeOK, Holding, BodyRecent, [Next]_vars
    PROVE  BodyRecent'
<1> USE TimesAssumption, NilAssumption DEF TypeOK, Holding, BodyRecent, realm, caches, calls
<1>1. CASE Tick
    BY <1>1 DEF Tick
<1>2. ASSUME NEW K \in SUBSET Kids, Rotate(K)  PROVE BodyRecent'
    BY <1>2 DEF Rotate
<1>3. ASSUME NEW c \in Callers, NEW k \in Kids, Validate(c, k)  PROVE BodyRecent'
    BY <1>3 DEF Validate, Go
<1>4. ASSUME NEW c \in Callers, keyFunc(c)  PROVE BodyRecent'
    BY <1>4 DEF keyFunc, Go
<1>5. ASSUME NEW c \in Callers, NEW o \in Caches, newJWKSCache(c, o)  PROVE BodyRecent'
    BY <1>5 DEF newJWKSCache, Go
<1>6. ASSUME NEW c \in Callers, get(c)  PROVE BodyRecent'
    BY <1>6 DEF get, Go, Young
<1>7. ASSUME NEW c \in Callers, refresh(c)  PROVE BodyRecent'
    BY <1>7 DEF refresh, Go, Young
<1>8. ASSUME NEW c \in Callers, FetchAnswered(c)  PROVE BodyRecent'
    BY <1>8 DEF FetchAnswered, Go
<1>9. ASSUME NEW c \in Callers, FetchFailed(c)  PROVE BodyRecent'
    BY <1>9 DEF FetchFailed, Go, Unlock
<1>10. ASSUME NEW c \in Callers, StoreKeys(c)  PROVE BodyRecent'
    BY <1>10 DEF StoreKeys, Go, Unlock
<1>11. ASSUME NEW c \in Callers, getAgain(c)  PROVE BodyRecent'
    BY <1>11 DEF getAgain, Go
<1>12. ASSUME NEW c \in Callers, Finish(c)  PROVE BodyRecent'
    BY <1>12 DEF Finish, Go
<1>13. CASE UNCHANGED vars
    BY <1>13 DEF vars
<1> QED
    BY <1>1, <1>2, <1>3, <1>4, <1>5, <1>6, <1>7, <1>8, <1>9, <1>10, <1>11, <1>12,
       <1>13
    DEF Next, Inside

\* Keys are stored within a fetch of the request that brought them.
LEMMA KeysStep ==
    ASSUME TypeOK, Holding, Timely, BodyRecent, KeysRecent, [Next]_vars
    PROVE  KeysRecent'
<1> USE TimesAssumption, NilAssumption DEF TypeOK, Holding, Timely, BodyRecent, KeysRecent, realm, caches, calls
<1>1. CASE Tick
    BY <1>1 DEF Tick
<1>2. ASSUME NEW K \in SUBSET Kids, Rotate(K)  PROVE KeysRecent'
    BY <1>2 DEF Rotate
<1>3. ASSUME NEW c \in Callers, NEW k \in Kids, Validate(c, k)  PROVE KeysRecent'
    BY <1>3 DEF Validate, Go
<1>4. ASSUME NEW c \in Callers, keyFunc(c)  PROVE KeysRecent'
    BY <1>4 DEF keyFunc, Go
<1>5. ASSUME NEW c \in Callers, NEW o \in Caches, newJWKSCache(c, o)  PROVE KeysRecent'
    BY <1>5 DEF newJWKSCache, Go
<1>6. ASSUME NEW c \in Callers, get(c)  PROVE KeysRecent'
    BY <1>6 DEF get, Go, Young
<1>7. ASSUME NEW c \in Callers, refresh(c)  PROVE KeysRecent'
    BY <1>7 DEF refresh, Go, Young
<1>8. ASSUME NEW c \in Callers, FetchAnswered(c)  PROVE KeysRecent'
    BY <1>8 DEF FetchAnswered, Go
<1>9. ASSUME NEW c \in Callers, FetchFailed(c)  PROVE KeysRecent'
    BY <1>9 DEF FetchFailed, Go, Unlock
<1>10. ASSUME NEW c \in Callers, StoreKeys(c)  PROVE KeysRecent'
    BY <1>10 DEF StoreKeys, Go, Unlock
<1>11. ASSUME NEW c \in Callers, getAgain(c)  PROVE KeysRecent'
    BY <1>11 DEF getAgain, Go
<1>12. ASSUME NEW c \in Callers, Finish(c)  PROVE KeysRecent'
    BY <1>12 DEF Finish, Go
<1>13. CASE UNCHANGED vars
    BY <1>13 DEF vars
<1> QED
    BY <1>1, <1>2, <1>3, <1>4, <1>5, <1>6, <1>7, <1>8, <1>9, <1>10, <1>11, <1>12,
       <1>13
    DEF Next, Inside

\* A key is served within the TTL and a fetch of its withdrawal.
LEMMA WithdrawnStep ==
    ASSUME IInv, [Next]_vars
    PROVE  WithdrawnKeysExpire'
<1> USE TimesAssumption, NilAssumption DEF IInv, TypeOK, Holding, Timely, KeysRecent, WithdrawnKeysExpire, realm, caches, calls
<1>1. CASE Tick
    BY <1>1 DEF Tick
<1>2. ASSUME NEW K \in SUBSET Kids, Rotate(K)  PROVE WithdrawnKeysExpire'
    BY <1>2 DEF Rotate
<1>3. ASSUME NEW c \in Callers, NEW k \in Kids, Validate(c, k)  PROVE WithdrawnKeysExpire'
    BY <1>3 DEF Validate, Go
<1>4. ASSUME NEW c \in Callers, keyFunc(c)  PROVE WithdrawnKeysExpire'
    BY <1>4 DEF keyFunc, Go
<1>5. ASSUME NEW c \in Callers, NEW o \in Caches, newJWKSCache(c, o)  PROVE WithdrawnKeysExpire'
    BY <1>5 DEF newJWKSCache, Go
<1>6. ASSUME NEW c \in Callers, get(c)  PROVE WithdrawnKeysExpire'
    BY <1>6 DEF get, Go, Young
<1>7. ASSUME NEW c \in Callers, refresh(c)  PROVE WithdrawnKeysExpire'
    BY <1>7 DEF refresh, Go, Young
<1>8. ASSUME NEW c \in Callers, FetchAnswered(c)  PROVE WithdrawnKeysExpire'
    BY <1>8 DEF FetchAnswered, Go
<1>9. ASSUME NEW c \in Callers, FetchFailed(c)  PROVE WithdrawnKeysExpire'
    BY <1>9 DEF FetchFailed, Go, Unlock
<1>10. ASSUME NEW c \in Callers, StoreKeys(c)  PROVE WithdrawnKeysExpire'
    BY <1>10 DEF StoreKeys, Go, Unlock
<1>11. ASSUME NEW c \in Callers, getAgain(c)  PROVE WithdrawnKeysExpire'
    BY <1>11 DEF getAgain, Go
<1>12. ASSUME NEW c \in Callers, Finish(c)  PROVE WithdrawnKeysExpire'
    BY <1>12 DEF Finish, Go
<1>13. CASE UNCHANGED vars
    BY <1>13 DEF vars
<1> QED
    BY <1>1, <1>2, <1>3, <1>4, <1>5, <1>6, <1>7, <1>8, <1>9, <1>10, <1>11, <1>12,
       <1>13
    DEF Next, Inside

\* A key is unknown within the TTL and a fetch of its publication.
LEMMA PublishedStep ==
    ASSUME IInv, [Next]_vars
    PROVE  PublishedKeysArrive'
<1> USE TimesAssumption, NilAssumption DEF IInv, TypeOK, Holding, Timely, KeysRecent, PublishedKeysArrive, realm, caches, calls
<1>1. CASE Tick
    BY <1>1 DEF Tick
<1>2. ASSUME NEW K \in SUBSET Kids, Rotate(K)  PROVE PublishedKeysArrive'
    BY <1>2 DEF Rotate
<1>3. ASSUME NEW c \in Callers, NEW k \in Kids, Validate(c, k)  PROVE PublishedKeysArrive'
    BY <1>3 DEF Validate, Go
<1>4. ASSUME NEW c \in Callers, keyFunc(c)  PROVE PublishedKeysArrive'
    BY <1>4 DEF keyFunc, Go
<1>5. ASSUME NEW c \in Callers, NEW o \in Caches, newJWKSCache(c, o)  PROVE PublishedKeysArrive'
    BY <1>5 DEF newJWKSCache, Go
<1>6. ASSUME NEW c \in Callers, get(c)  PROVE PublishedKeysArrive'
    BY <1>6 DEF get, Go, Young
<1>7. ASSUME NEW c \in Callers, refresh(c)  PROVE PublishedKeysArrive'
    BY <1>7 DEF refresh, Go, Young
<1>8. ASSUME NEW c \in Callers, FetchAnswered(c)  PROVE PublishedKeysArrive'
    BY <1>8 DEF FetchAnswered, Go
<1>9. ASSUME NEW c \in Callers, FetchFailed(c)  PROVE PublishedKeysArrive'
    BY <1>9 DEF FetchFailed, Go, Unlock
<1>10. ASSUME NEW c \in Callers, StoreKeys(c)  PROVE PublishedKeysArrive'
    BY <1>10 DEF StoreKeys, Go, Unlock
<1>11. ASSUME NEW c \in Callers, getAgain(c)  PROVE PublishedKeysArrive'
    BY <1>11 DEF getAgain, Go
<1>12. ASSUME NEW c \in Callers, Finish(c)  PROVE PublishedKeysArrive'
    BY <1>12 DEF Finish, Go
<1>13. CASE UNCHANGED vars
    BY <1>13 DEF vars
<1> QED
    BY <1>1, <1>2, <1>3, <1>4, <1>5, <1>6, <1>7, <1>8, <1>9, <1>10, <1>11, <1>12,
       <1>13
    DEF Next, Inside

-----------------------------------------------------------------------------

\* The inductive invariant.
THEOREM CacheInvariant == Spec => []IInv
<1>1. IInv /\ [Next]_vars => IInv'
    BY TypeStep, HoldingStep, TimelyStep, BodyStep, KeysStep, WithdrawnStep, PublishedStep DEF IInv
<1> QED
    BY <1>1, InitInv, PTL DEF Spec

\* Every variable keeps its type, and a write lock is held exactly by the call
\* that is asking the key server.
THEOREM TypeCorrect == Spec => []TypeOK
<1>1. IInv => TypeOK
    BY DEF IInv
<1> QED
    BY <1>1, CacheInvariant, PTL

\* A withdrawn key is accepted only for calls that begin within the TTL and the
\* time of a fetch.
THEOREM WithdrawnExpire == Spec => []WithdrawnKeysExpire
<1>1. IInv => WithdrawnKeysExpire
    BY DEF IInv
<1> QED
    BY <1>1, CacheInvariant, PTL

\* A published key is unknown only to calls that begin within that time.
THEOREM PublishedArrive == Spec => []PublishedKeysArrive
<1>1. IInv => PublishedKeysArrive
    BY DEF IInv
<1> QED
    BY <1>1, CacheInvariant, PTL

\* A cache that has keys is not filled again before the TTL is over.
THEOREM FetchesLieApart == Spec => FetchesApart
<1> DEFINE Apart == \A o \in Caches :
        fetchedAt'[o] # fetchedAt[o] /\ keys[o] # {} => fetchedAt'[o] >= fetchedAt[o] + Ttl
<1>1. IInv /\ [Next]_vars => [Apart]_vars
    <2> SUFFICES ASSUME IInv, [Next]_vars PROVE [Apart]_vars
        OBVIOUS
    <2> USE TimesAssumption DEF IInv, TypeOK, Holding, Timely
    <2>1. ASSUME NEW c \in Callers, StoreKeys(c)  PROVE Apart
        BY <2>1 DEF StoreKeys
    <2>2. CASE UNCHANGED fetchedAt
        BY <2>2
    <2>3. UNCHANGED fetchedAt \/ \E c \in Callers : StoreKeys(c)
        BY DEF Next, Inside, vars, realm, caches, calls, Tick, Rotate, Validate, keyFunc,
               newJWKSCache, get, refresh, FetchAnswered, FetchFailed, getAgain, Finish
    <2> QED
        BY <2>1, <2>2, <2>3
<1> QED
    BY <1>1, CacheInvariant, PTL DEF Spec, FetchesApart
=============================================================================
