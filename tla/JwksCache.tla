------------------------------ MODULE JwksCache ------------------------------
(***************************************************************************)
(* The cache of signing keys behind AuthMiddleware                          *)
(* (internal/middleware/auth.go): requests over REST and gRPC look up the   *)
(* key their token names, and refresh the cache under its write lock, which *)
(* is held while the key server is asked.                                   *)
(*                                                                          *)
(* Time is counted in ticks.  A token is the id of its key; signature,      *)
(* issuer and audience are left out.  Sections under the read lock are one  *)
(* step.                                                                    *)
(***************************************************************************)
EXTENDS Naturals, TLC

CONSTANTS
    Callers,        \* requests being authenticated
    Kids,           \* key ids
    Caches,         \* jwksCache objects a behaviour may create (bound)
    Ttl,            \* c.ttl
    FetchTime,      \* timeout of the request to the key server
    MaxTime,        \* where the clock stops (bound)
    MaxRotations,   \* changes of the published keys (bound)
    Nil

ASSUME TimesAssumption ==
    /\ Ttl \in Nat \ {0} /\ FetchTime \in Nat
    /\ MaxTime \in Nat /\ MaxRotations \in Nat
ASSUME NilAssumption == Nil \notin Callers \union Caches \union Nat

VARIABLES
    now,
    \* ---- the realm
    published,  \* usable signing keys in the JWKS document
    rotations,
    \* ---- AuthMiddleware and the cache objects it created
    jwks,       \* am.jwks
    created,
    keys, fetchedAt,
    lock,       \* holder of a cache's write lock
    \* ---- the requests
    pc, obj, kid,
    body,       \* keys in the response in hand
    asked,      \* when the request to the key server was made
    \* ---- history
    began,      \* when the call began
    gone,       \* when a key was published last, for keys that are not
    since       \* since when a key has been published, for keys that are

realm == <<published, rotations, gone, since>>
caches == <<jwks, created, keys, fetchedAt, lock>>
calls == <<pc, obj, kid, body, asked, began>>
vars == <<now, realm, caches, calls>>

Init ==
    /\ now = 0
    /\ published \in SUBSET Kids /\ rotations = 0
    /\ gone = [k \in Kids |-> Nil] /\ since = [k \in Kids |-> 0]
    /\ jwks = Nil /\ created = {}
    /\ keys = [o \in Caches |-> {}]
    /\ fetchedAt = [o \in Caches |-> 0]
    /\ lock = [o \in Caches |-> Nil]
    /\ pc = [c \in Callers |-> "idle"]
    /\ obj = [c \in Callers |-> Nil]
    /\ kid = [c \in Callers |-> Nil]
    /\ body = [c \in Callers |-> {}]
    /\ asked = [c \in Callers |-> 0] /\ began = [c \in Callers |-> 0]

-----------------------------------------------------------------------------
(* The world.                                                               *)

\* No fetch outlives its timeout, reading the body included.
Tick ==
    /\ now < MaxTime
    /\ \A c \in Callers : pc[c] \in {"fetch", "parse"} => now < asked[c] + FetchTime
    /\ now' = now + 1
    /\ UNCHANGED <<realm, caches, calls>>

Rotate(K) ==
    /\ rotations < MaxRotations
    /\ K # published
    /\ published' = K
    /\ rotations' = rotations + 1
    /\ gone' = [k \in Kids |-> IF k \in published \ K THEN now ELSE IF k \in K THEN Nil ELSE gone[k]]
    /\ since' = [k \in Kids |-> IF k \in K \ published THEN now ELSE IF k \in K THEN since[k] ELSE 0]
    /\ UNCHANGED <<now, caches, calls>>

-----------------------------------------------------------------------------
Go(c, next) == pc' = [pc EXCEPT ![c] = next]

\* validateTokenString on a token that names key k.
Validate(c, k) ==
    /\ pc[c] = "idle"
    /\ Go(c, "keyFunc")
    /\ kid' = [kid EXCEPT ![c] = k]
    /\ began' = [began EXCEPT ![c] = now]
    /\ UNCHANGED <<now, realm, caches, obj, body, asked>>

\* keyFunc reads am.jwks without a lock, once to compare it with nil and once
\* to return it; a build may keep the value of the first read or the store.
keyFunc(c) ==
    /\ pc[c] = "keyFunc"
    /\ IF jwks = Nil
       THEN Go(c, "create") /\ UNCHANGED obj
       ELSE Go(c, "get") /\ obj' = [obj EXCEPT ![c] = jwks]
    /\ UNCHANGED <<now, realm, caches, kid, body, asked, began>>

newJWKSCache(c, o) ==
    /\ pc[c] = "create"
    /\ o \notin created
    /\ created' = created \union {o}
    /\ jwks' = o
    /\ \/ Go(c, "get") /\ obj' = [obj EXCEPT ![c] = o]
       \/ Go(c, "keyFunc") /\ UNCHANGED obj
    /\ UNCHANGED <<now, realm, keys, fetchedAt, lock, kid, body, asked, began>>

Young(o) == now < fetchedAt[o] + Ttl

\* get: a key that is there and young enough is returned.
get(c) ==
    /\ pc[c] = "get"
    /\ lock[obj[c]] = Nil
    /\ Go(c, IF kid[c] \in keys[obj[c]] /\ Young(obj[c]) THEN "served" ELSE "refresh")
    /\ UNCHANGED <<now, realm, caches, obj, kid, body, asked, began>>

\* Mutant: no second look once the lock is held.
refreshAlways(c) ==
    /\ pc[c] = "refresh"
    /\ lock[obj[c]] = Nil
    /\ Go(c, "fetch")
    /\ lock' = [lock EXCEPT ![obj[c]] = c]
    /\ asked' = [asked EXCEPT ![c] = now]
    /\ UNCHANGED <<now, realm, jwks, created, keys, fetchedAt, obj, kid, body, began>>

\* Mutant: keys that are there count as fresh whatever their age.
refreshOnce(c) ==
    /\ pc[c] = "refresh"
    /\ lock[obj[c]] = Nil
    /\ IF keys[obj[c]] # {}
       THEN Go(c, "again") /\ UNCHANGED <<lock, asked>>
       ELSE /\ Go(c, "fetch")
            /\ lock' = [lock EXCEPT ![obj[c]] = c]
            /\ asked' = [asked EXCEPT ![c] = now]
    /\ UNCHANGED <<now, realm, jwks, created, keys, fetchedAt, obj, kid, body, began>>

\* refresh: with the write lock held, nothing is fetched if somebody else has
\* just done so; otherwise the lock is kept and the key server asked.
refresh(c) ==
    /\ pc[c] = "refresh"
    /\ lock[obj[c]] = Nil
    /\ IF keys[obj[c]] # {} /\ Young(obj[c])
       THEN Go(c, "again") /\ UNCHANGED <<lock, asked>>
       ELSE /\ Go(c, "fetch")
            /\ lock' = [lock EXCEPT ![obj[c]] = c]
            /\ asked' = [asked EXCEPT ![c] = now]
    /\ UNCHANGED <<now, realm, jwks, created, keys, fetchedAt, obj, kid, body, began>>

\* The key server answers with what it publishes at that moment.
FetchAnswered(c) ==
    /\ pc[c] = "fetch"
    /\ Go(c, "parse")
    /\ body' = [body EXCEPT ![c] = published]
    /\ UNCHANGED <<now, realm, caches, obj, kid, asked, began>>

Unlock(c) == lock' = [lock EXCEPT ![obj[c]] = Nil]

\* Mutant: an error path keeps the lock.
FetchFailedLocked(c) ==
    /\ pc[c] \in {"fetch", "parse"}
    /\ Go(c, "failed")
    /\ body' = [body EXCEPT ![c] = {}] /\ asked' = [asked EXCEPT ![c] = 0]
    /\ UNCHANGED <<now, realm, caches, obj, kid, began>>

\* No connection, no time left, a bad status or a body that does not parse.
FetchFailed(c) ==
    /\ pc[c] \in {"fetch", "parse"}
    /\ Go(c, "failed")
    /\ Unlock(c)
    /\ body' = [body EXCEPT ![c] = {}] /\ asked' = [asked EXCEPT ![c] = 0]
    /\ UNCHANGED <<now, realm, jwks, created, keys, fetchedAt, obj, kid, began>>

\* Mutant: keys that are published no more stay in the map.
StoreKeysMerged(c) ==
    /\ pc[c] = "parse"
    /\ IF body[c] = {}
       THEN Go(c, "failed") /\ UNCHANGED <<keys, fetchedAt>>
       ELSE /\ Go(c, "again")
            /\ keys' = [keys EXCEPT ![obj[c]] = @ \union body[c]]
            /\ fetchedAt' = [fetchedAt EXCEPT ![obj[c]] = now]
    /\ Unlock(c)
    /\ body' = [body EXCEPT ![c] = {}] /\ asked' = [asked EXCEPT ![c] = 0]
    /\ UNCHANGED <<now, realm, jwks, created, obj, kid, began>>

\* The keys of the response replace the cached ones, unless there are none.
StoreKeys(c) ==
    /\ pc[c] = "parse"
    /\ IF body[c] = {}
       THEN Go(c, "failed") /\ UNCHANGED <<keys, fetchedAt>>
       ELSE /\ Go(c, "again")
            /\ keys' = [keys EXCEPT ![obj[c]] = body[c]]
            /\ fetchedAt' = [fetchedAt EXCEPT ![obj[c]] = now]
    /\ Unlock(c)
    /\ body' = [body EXCEPT ![c] = {}] /\ asked' = [asked EXCEPT ![c] = 0]
    /\ UNCHANGED <<now, realm, jwks, created, obj, kid, began>>

\* The second look-up of get does not ask for the age.
getAgain(c) ==
    /\ pc[c] = "again"
    /\ lock[obj[c]] = Nil
    /\ Go(c, IF kid[c] \in keys[obj[c]] THEN "served" ELSE "unknown")
    /\ UNCHANGED <<now, realm, caches, obj, kid, body, asked, began>>

\* The request goes on to its handler, or is refused.
Finish(c) ==
    /\ pc[c] \in {"served", "unknown", "failed"}
    /\ Go(c, "idle")
    /\ obj' = [obj EXCEPT ![c] = Nil]
    /\ kid' = [kid EXCEPT ![c] = Nil]
    /\ began' = [began EXCEPT ![c] = 0]
    /\ UNCHANGED <<now, realm, caches, body, asked>>

Inside(c) ==
    \/ keyFunc(c)
    \/ \E o \in Caches : newJWKSCache(c, o)
    \/ get(c)
    \/ refresh(c)
    \/ FetchAnswered(c)
    \/ FetchFailed(c)
    \/ StoreKeys(c)
    \/ getAgain(c)
    \/ Finish(c)

Next ==
    \/ Tick
    \/ \E K \in SUBSET Kids : Rotate(K)
    \/ \E c \in Callers : Inside(c) \/ \E k \in Kids : Validate(c, k)

Spec == Init /\ [][Next]_vars

Symmetry == Permutations(Callers) \union Permutations(Kids) \union Permutations(Caches)

-----------------------------------------------------------------------------
(* Properties.                                                              *)

\* The write lock is held exactly by the call that is asking the key server.
TypeOK ==
    /\ now \in 0..MaxTime /\ rotations \in 0..MaxRotations
    /\ published \subseteq Kids
    /\ gone \in [Kids -> 0..now \union {Nil}] /\ since \in [Kids -> 0..now]
    /\ jwks \in created \union {Nil} /\ created \subseteq Caches
    /\ keys \in [Caches -> SUBSET Kids] /\ fetchedAt \in [Caches -> 0..now]
    /\ pc \in [Callers -> {"idle", "keyFunc", "create", "get", "refresh", "fetch",
                           "parse", "again", "served", "unknown", "failed"}]
    /\ obj \in [Callers -> created \union {Nil}]
    /\ kid \in [Callers -> Kids \union {Nil}] /\ body \in [Callers -> SUBSET Kids]
    /\ asked \in [Callers -> 0..now] /\ began \in [Callers -> 0..now]
    /\ \A o \in Caches, c \in Callers :
        lock[o] = c <=> obj[c] = o /\ pc[c] \in {"fetch", "parse"}

\* A key that the realm has withdrawn is accepted for calls that begin within
\* the TTL and the time of a fetch, whoever refreshed what meanwhile, although
\* the second look-up does not ask for the age.
WithdrawnKeysExpire ==
    \A c \in Callers : pc[c] = "served" =>
        \/ kid[c] \in published
        \/ gone[kid[c]] # Nil /\ began[c] < gone[kid[c]] + Ttl + FetchTime

\* A key that the realm has published for that long is never unknown.
PublishedKeysArrive ==
    \A c \in Callers : pc[c] = "unknown" /\ kid[c] \in published =>
        began[c] < since[kid[c]] + Ttl + FetchTime

\* However many calls find a cache stale at once, its keys are fetched once and
\* not again for the TTL.
FetchesApart ==
    [][\A o \in Caches :
        fetchedAt'[o] # fetchedAt[o] /\ keys[o] # {} => fetchedAt'[o] >= fetchedAt[o] + Ttl]_vars
=============================================================================
