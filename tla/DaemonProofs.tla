---------------------------- MODULE DaemonProofs ----------------------------
(***************************************************************************)
(* Proofs about Daemon, for every set of connections and requests, every   *)
(* clock bound and every TTL.                                              *)
(***************************************************************************)
EXTENDS Daemon, TLAPS

USE DEF handlers, history, Steps, Respond, NoResponse, Failure, Answer

-----------------------------------------------------------------------------
(***************************************************************************)
(* Type correctness.                                                       *)
(***************************************************************************)
\* A request in Requests has the fields of a Request.
LEMMA RequestFields ==
    ASSUME NEW r \in Requests
    PROVE  /\ r.op \in {"read", "status", "lock"}
           /\ r.project \in Project
           /\ r.name \in Name \cup {Empty}
           /\ r.field \in Field \cup {Empty}
           /\ r.vault \in Vault \cup {Empty}
           /\ r.ttl \in Int
           /\ r.items \subseteq Name
           /\ KeyOf(r) \in Key
BY RequestsAssumption DEF Request, KeyOf, Key

\* What a handler fetches for an allowed read is a value.
LEMMA FetchedValue ==
    ASSUME NEW r \in Requests, r.vault \in Vault, r.name \in r.items
    PROVE  [vault |-> r.vault, name |-> r.name,
            field |-> SecretField(r.field)] \in Value
BY RequestFields, NamesAssumption DEF Value, SecretField

\* Every TTL is a natural number; the one in effect is the promised one when
\* the backend's default is what it is applied to.
LEMMA TTLs ==
    ASSUME NEW r \in Requests
    PROVE  /\ BackendTTL(r.mode) \in Nat
           /\ PromisedTTL(r) \in Nat
           /\ EffectiveTTL(r, BackendTTL(r.mode)) = PromisedTTL(r)
           /\ \A d \in Nat : EffectiveTTL(r, d) \in Nat
BY RequestFields, TTLAssumption DEF BackendTTL, PromisedTTL, EffectiveTTL

\* Set stores an entry that expires the TTL after now.
LEMMA SetEntry ==
    ASSUME NEW v \in Value, NEW d \in Nat, clock \in Time
    PROVE  /\ [value |-> v, expires |-> Add(clock, d)] \in Entry
           /\ Add(clock, d).mono = clock.mono + d
BY DEF Entry, Add, Time

\* The initial state is well typed.
LEMMA TypeInit == Init => TypeOK
BY DEF Init, TypeOK, HandlersOK, Response, Time

\* Every step keeps the types.
LEMMA TypeStep == TypeOK /\ [Next]_vars => TypeOK'
<1> SUFFICES ASSUME TypeOK, [Next]_vars PROVE TypeOK'
  OBVIOUS
<1> USE NothingAssumption DEF TypeOK, HandlersOK, Response, Allowed
<1>1. ASSUME NEW c \in Conn, Accept(c) PROVE TypeOK'
  BY <1>1 DEF Accept
<1>2. ASSUME NEW c \in Conn, RefusePeer(c) PROVE TypeOK'
  BY <1>2 DEF RefusePeer
<1>3. ASSUME NEW c \in Conn, NEW r \in Requests, Receive(c, r) PROVE TypeOK'
  BY <1>3 DEF Receive
<1>4. ASSUME NEW c \in Conn, HangUp(c) PROVE TypeOK'
  BY <1>4 DEF HangUp
<1>5. ASSUME NEW c \in Conn, Lock(c) PROVE TypeOK'
  BY <1>5 DEF Lock, Evict
<1>6. ASSUME NEW c \in Conn, Status(c) PROVE TypeOK'
  BY <1>6 DEF Status
<1>7. ASSUME NEW c \in Conn, Deny(c) PROVE TypeOK'
  BY <1>7 DEF Deny, Reads
<1>8. ASSUME NEW c \in Conn, Hit(c) PROVE TypeOK'
  BY <1>8, RequestFields DEF Hit, Reads, Live, Entry
<1>9. ASSUME NEW c \in Conn, Miss(c) PROVE TypeOK'
  BY <1>9, RequestFields DEF Miss, Reads
<1>10. ASSUME NEW c \in Conn, BackendResolves(c) PROVE TypeOK'
  <2>1. req[c] \in Requests /\ req[c].name \in req[c].items
    BY <1>10 DEF BackendResolves
  <2>2. got' \in [Conn -> Fetch \cup {Nothing}]
    BY <1>10, <2>1, FetchedValue, TTLs DEF BackendResolves, Fetch
  <2>3. HandlersOK'
    BY <1>10, <2>1, FetchedValue, TTLs DEF BackendResolves, Fetch
  <2>4. QED
    BY <1>10, <2>2, <2>3 DEF BackendResolves
<1>11. ASSUME NEW c \in Conn, BackendFails(c) PROVE TypeOK'
  BY <1>11 DEF BackendFails
<1>12. ASSUME NEW c \in Conn, Store(c) PROVE TypeOK'
  <2>1. /\ req[c] \in Requests
        /\ KeyOf(req[c]) \in Key
        /\ got[c] \in Fetch
    BY <1>12, RequestFields DEF Store
  <2>2. got[c].value \in Value /\ got[c].ttl \in Nat
    BY <2>1 DEF Fetch
  <2>3. cache' \in [Key -> Entry \cup {Nothing}]
    BY <1>12, <2>1, <2>2, TTLs, SetEntry DEF Store, Set
  <2>4. promise' \in [Key -> Int]
    BY <1>12, <2>1, TTLs DEF Store, Time
  <2>5. /\ pc' \in [Conn -> Steps]
        /\ got' \in [Conn -> Fetch \cup {Nothing}]
        /\ resp' \in [Conn -> Response]
        /\ survivors' \in SUBSET Key
        /\ preLock' \in SUBSET Conn
    BY <1>12, <2>1, <2>2 DEF Store
  <2>6. HandlersOK'
    BY <1>12 DEF Store
  <2>7. QED
    BY <1>12, <2>3, <2>4, <2>5, <2>6 DEF Store
<1>13. ASSUME NEW c \in Conn, Reply(c) PROVE TypeOK'
  BY <1>13 DEF Reply
<1>14. CASE Tick
  BY <1>14 DEF Tick, Add, Time
<1>15. CASE Sleep
  BY <1>15 DEF Sleep, Time
<1>16. CASE Restart
  BY <1>16 DEF Restart
<1>17. CASE UNCHANGED vars
  BY <1>17 DEF vars
<1>18. QED
  BY <1>1, <1>2, <1>3, <1>4, <1>5, <1>6, <1>7, <1>8, <1>9, <1>10, <1>11,
     <1>12, <1>13, <1>14, <1>15, <1>16, <1>17 DEF Next, Resolve, Backend

\* Every reachable state is well typed: in particular only an allowed read
\* ever reaches the backend or the cache.
THEOREM TypeCorrect == Spec => []TypeOK
BY TypeInit, TypeStep, PTL DEF Spec


-----------------------------------------------------------------------------
(***************************************************************************)
(* Isolation.  A response is right because the value was right wherever it *)
(* has been: in the handler that fetched it and, under a key that says     *)
(* what it is, in the cache.                                               *)
(***************************************************************************)
\* v is what a read of key k may be answered with.
From(k, v) == /\ v.name = k.name
              /\ v.field = IF k.field = Empty THEN DefaultField ELSE k.field
              /\ \E s \in Requests : /\ s.project = k.project
                                     /\ s.name = k.name
                                     /\ s.vault = v.vault

CacheFrom == \A k \in Key : cache[k] # Nothing => From(k, cache[k].value)

FetchFrom == \A c \in Conn : got[c] # Nothing => From(KeyOf(req[c]), got[c].value)

ReplyFrom == \A c \in Conn :
    pc[c] = "reply" /\ resp[c].value # Nothing =>
        /\ req[c] # Nothing
        /\ Allowed(c)
        /\ From(KeyOf(req[c]), resp[c].value)

Provenance == CacheFrom /\ FetchFrom /\ ReplyFrom

\* What the backend returns for a request is from the request's key.
LEMMA FetchedFrom ==
    ASSUME NEW r \in Requests
    PROVE  From(KeyOf(r), [vault |-> r.vault, name |-> r.name,
                           field |-> SecretField(r.field)])
BY DEF From, KeyOf, SecretField

\* Every step keeps the provenance of every value.
LEMMA ProvenanceStep == TypeOK /\ Provenance /\ [Next]_vars => Provenance'
<1> SUFFICES ASSUME TypeOK, Provenance, [Next]_vars PROVE Provenance'
  OBVIOUS
<1> USE NothingAssumption DEF TypeOK, HandlersOK, Response, Allowed, Provenance,
        CacheFrom, FetchFrom, ReplyFrom
<1>1. ASSUME NEW c \in Conn, Accept(c) PROVE Provenance'
  BY <1>1 DEF Accept
<1>2. ASSUME NEW c \in Conn, RefusePeer(c) PROVE Provenance'
  BY <1>2 DEF RefusePeer
<1>3. ASSUME NEW c \in Conn, NEW r \in Requests, Receive(c, r) PROVE Provenance'
  BY <1>3 DEF Receive
<1>4. ASSUME NEW c \in Conn, HangUp(c) PROVE Provenance'
  BY <1>4 DEF HangUp
<1>5. ASSUME NEW c \in Conn, Lock(c) PROVE Provenance'
  BY <1>5 DEF Lock, Evict
<1>6. ASSUME NEW c \in Conn, Status(c) PROVE Provenance'
  BY <1>6 DEF Status
<1>7. ASSUME NEW c \in Conn, Deny(c) PROVE Provenance'
  BY <1>7 DEF Deny, Reads
<1>8. ASSUME NEW c \in Conn, Hit(c) PROVE Provenance'
  BY <1>8, RequestFields DEF Hit, Reads, Live
<1>9. ASSUME NEW c \in Conn, Miss(c) PROVE Provenance'
  BY <1>9, RequestFields DEF Miss, Reads
<1>10. ASSUME NEW c \in Conn, BackendResolves(c) PROVE Provenance'
  <2>1. req[c] \in Requests
    BY <1>10 DEF BackendResolves
  <2>2. FetchFrom'
    BY <1>10, <2>1, FetchedFrom DEF BackendResolves
  <2>3. QED
    BY <1>10, <2>2 DEF BackendResolves
<1>11. ASSUME NEW c \in Conn, BackendFails(c) PROVE Provenance'
  BY <1>11 DEF BackendFails
<1>12. ASSUME NEW c \in Conn, Store(c) PROVE Provenance'
  <2>1. /\ KeyOf(req[c]) \in Key
        /\ From(KeyOf(req[c]), got[c].value)
    BY <1>12, RequestFields DEF Store
  <2>2. CacheFrom'
    BY <1>12, <2>1 DEF Store, Set
  <2>3. FetchFrom' /\ ReplyFrom'
    BY <1>12, <2>1 DEF Store
  <2>4. QED
    BY <2>2, <2>3
<1>13. ASSUME NEW c \in Conn, Reply(c) PROVE Provenance'
  BY <1>13 DEF Reply
<1>14. CASE Tick
  BY <1>14 DEF Tick
<1>15. CASE Sleep
  BY <1>15 DEF Sleep
<1>16. CASE Restart
  BY <1>16 DEF Restart
<1>17. CASE UNCHANGED vars
  BY <1>17 DEF vars
<1>18. QED
  BY <1>1, <1>2, <1>3, <1>4, <1>5, <1>6, <1>7, <1>8, <1>9, <1>10, <1>11,
     <1>12, <1>13, <1>14, <1>15, <1>16, <1>17 DEF Next, Resolve, Backend

\* No interleaving ever answers a request with a value of another item or
\* field, of an item outside its allow-list, or from a vault its project does
\* not read that item from.
THEOREM ServesOnlyItsOwn == Spec => []Isolation
<1>1. Init => Provenance
  BY DEF Init, Provenance, CacheFrom, FetchFrom, ReplyFrom
<1>2. TypeOK /\ Provenance => Isolation
  BY DEF Provenance, ReplyFrom, From, Isolation, Allowed, KeyOf
<1>3. QED
  BY <1>1, <1>2, ProvenanceStep, TypeCorrect, PTL DEF Spec

-----------------------------------------------------------------------------
(***************************************************************************)
(* The warm window.  For a key whose requests agree on the TTL, no promise *)
(* reaches further than a store made now would, so a store never shortens  *)
(* the window another store opened.                                        *)
(***************************************************************************)
PromiseKept == \A k \in Key :
    k \in OneTTL /\ clock.mono <= promise[k] =>
        cache[k] # Nothing /\ promise[k] <= cache[k].expires.mono

PromiseBounded == \A k \in OneTTL :
    \A r \in Requests : r.op = "read" /\ KeyOf(r) = k
        => promise[k] <= clock.mono + PromisedTTL(r)

FetchTTL == \A c \in Conn : got[c] # Nothing => got[c].ttl = BackendTTL(req[c].mode)

Windows == PromiseKept /\ PromiseBounded /\ FetchTTL

\* Every step keeps the windows open.
LEMMA WindowsStep == TypeOK /\ Windows /\ [Next]_vars => Windows'
<1> SUFFICES ASSUME TypeOK, Windows, [Next]_vars PROVE Windows'
  OBVIOUS
<1>a. OneTTL \subseteq Key
  BY DEF OneTTL
<1> USE NothingAssumption, <1>a DEF TypeOK, HandlersOK, Windows, PromiseKept,
        PromiseBounded, FetchTTL, Time
<1>1. ASSUME NEW c \in Conn, Accept(c) PROVE Windows'
  BY <1>1 DEF Accept
<1>2. ASSUME NEW c \in Conn, RefusePeer(c) PROVE Windows'
  BY <1>2 DEF RefusePeer
<1>3. ASSUME NEW c \in Conn, NEW r \in Requests, Receive(c, r) PROVE Windows'
  BY <1>3 DEF Receive
<1>4. ASSUME NEW c \in Conn, HangUp(c) PROVE Windows'
  BY <1>4 DEF HangUp
<1>5. ASSUME NEW c \in Conn, Lock(c) PROVE Windows'
  BY <1>5, TTLs DEF Lock, Evict
<1>6. ASSUME NEW c \in Conn, Status(c) PROVE Windows'
  BY <1>6 DEF Status
<1>7. ASSUME NEW c \in Conn, Deny(c) PROVE Windows'
  BY <1>7 DEF Deny
<1>8. ASSUME NEW c \in Conn, Hit(c) PROVE Windows'
  BY <1>8 DEF Hit
<1>9. ASSUME NEW c \in Conn, Miss(c) PROVE Windows'
  <2>1. KeyOf(req[c]) \in Key
    BY <1>9, RequestFields DEF Miss, Reads
  <2>2. PromiseKept'
    BY <1>9, <2>1 DEF Miss, Live, After, Entry
  <2>3. QED
    BY <1>9, <2>2 DEF Miss
<1>10. ASSUME NEW c \in Conn, BackendResolves(c) PROVE Windows'
  BY <1>10 DEF BackendResolves
<1>11. ASSUME NEW c \in Conn, BackendFails(c) PROVE Windows'
  BY <1>11 DEF BackendFails
<1>12. ASSUME NEW c \in Conn, Store(c) PROVE Windows'
  <2> DEFINE k == KeyOf(req[c])
             P == PromisedTTL(req[c])
  <2>1. /\ req[c] \in Requests /\ req[c].op = "read"
        /\ k \in Key /\ P \in Nat
        /\ EffectiveTTL(req[c], got[c].ttl) = P
        /\ clock.mono \in Nat
    BY <1>12, RequestFields, TTLs DEF Store
  <2>2. /\ cache' = [cache EXCEPT ![k] = [value |-> got[c].value,
                                         expires |-> Add(clock, P)]]
        /\ cache'[k] # Nothing
        /\ cache'[k].expires.mono = clock.mono + P
    <3>1. got[c].value \in Value
      BY <1>12 DEF Store, Fetch
    <3>2. QED
      BY <1>12, <2>1, <3>1, SetEntry DEF Store, Set
  <2>3. promise' = [promise EXCEPT ![k] = IF clock.mono + P > @
                                          THEN clock.mono + P ELSE @]
    BY <1>12 DEF Store
  <2>4. k \in OneTTL => promise[k] <= clock.mono + P
    BY <2>1
  <2>5. clock' = clock
    BY <1>12 DEF Store
  <2> HIDE DEF k, P
  <2>6. PromiseKept'
    BY <2>1, <2>2, <2>3, <2>4, <2>5
  <2>7. PromiseBounded'
    <3> SUFFICES ASSUME NEW j \in OneTTL, NEW r \in Requests,
                        r.op = "read", KeyOf(r) = j
                 PROVE  promise'[j] <= clock.mono + PromisedTTL(r)
      BY <2>5
    <3>1. CASE j = k
      <4>1. PromisedTTL(r) = P
        BY <3>1, <2>1 DEF OneTTL, P, k
      <4>2. QED
        BY <3>1, <4>1, <2>1, <2>3, <2>4
    <3>2. CASE j # k
      BY <3>2, <2>3
    <3>3. QED
      BY <3>1, <3>2
  <2>8. FetchTTL'
    BY <1>12 DEF Store
  <2>9. QED
    BY <2>6, <2>7, <2>8
<1>13. ASSUME NEW c \in Conn, Reply(c) PROVE Windows'
  BY <1>13 DEF Reply
<1>14. CASE Tick
  BY <1>14, TTLs DEF Tick, Add
<1>15. CASE Sleep
  BY <1>15 DEF Sleep
<1>16. CASE Restart
  BY <1>16, TTLs DEF Restart
<1>17. CASE UNCHANGED vars
  BY <1>17 DEF vars
<1>18. QED
  BY <1>1, <1>2, <1>3, <1>4, <1>5, <1>6, <1>7, <1>8, <1>9, <1>10, <1>11,
     <1>12, <1>13, <1>14, <1>15, <1>16, <1>17 DEF Next, Resolve, Backend

\* A key whose requests agree on the TTL stays warm for every window a store
\* of it opens, until its own project locks or the daemon ends.
THEOREM StaysWarm == Spec => []WarmWindow
<1>1. Init => Windows
  BY TTLs DEF Init, Windows, PromiseKept, PromiseBounded, FetchTTL, OneTTL
<1>2. TypeOK /\ Windows => WarmWindow
  BY DEF TypeOK, Windows, PromiseKept, WarmWindow, OneTTL, Live, After, Entry, Time
<1>3. QED
  BY <1>1, <1>2, WindowsStep, TypeCorrect, PTL DEF Spec

-----------------------------------------------------------------------------
(***************************************************************************)
(* Eviction.                                                               *)
(***************************************************************************)
\* A lock leaves behind no value fetched before it; only a handler already
\* past the backend can bring one back.
THEOREM LockEvictsAll == Spec => OnlyInFlightSurvivesLock
<1> DEFINE Step == \A k \in survivors' \ survivors :
                      \E c \in preLock : /\ pc[c] = "store" /\ pc'[c] = "reply"
                                         /\ req[c].project = k.project
<1>1. TypeOK /\ [Next]_vars => [Step]_vars
  <2> SUFFICES ASSUME TypeOK, Next PROVE Step
    OBVIOUS
  <2>1. ASSUME NEW c \in Conn, Lock(c) PROVE Step
    BY <2>1 DEF Lock, Evict
  <2>2. ASSUME NEW c \in Conn, Store(c) PROVE Step
    BY <2>2 DEF Store, TypeOK, KeyOf
  <2>3. CASE survivors' \subseteq survivors
    BY <2>3
  <2>4. QED
    BY <2>1, <2>2, <2>3 DEF Next, Resolve, Backend, Accept, RefusePeer, Receive,
       HangUp, Status, Deny, Hit, Miss, BackendResolves, BackendFails, Reply,
       Tick, Sleep, Restart
<1>2. QED
  BY <1>1, TypeCorrect, PTL DEF Spec, OnlyInFlightSurvivesLock

\* Nothing but its own expiry, a lock of its own project or the end of the
\* daemon removes an entry.
THEOREM NoForeignEviction == Spec => EntriesLeaveForAReason
<1> DEFINE Step == \A k \in Key : cache[k] # Nothing /\ cache'[k] = Nothing
                                      => LeavesForAReason(k)
<1>1. TypeOK /\ [Next]_vars => [Step]_vars
  <2> SUFFICES ASSUME TypeOK, Next PROVE Step
    OBVIOUS
  <2> USE DEF TypeOK, LeavesForAReason
  <2>1. ASSUME NEW c \in Conn, Lock(c) PROVE Step
    BY <2>1 DEF Lock, Evict
  <2>2. ASSUME NEW c \in Conn, Miss(c) PROVE Step
    BY <2>2 DEF Miss, Live
  <2>3. ASSUME NEW c \in Conn, Store(c) PROVE Step
    <3>1. req[c] \in Requests /\ got[c] \in Fetch
      BY <2>3 DEF Store, HandlersOK
    <3>2. got[c].value \in Value /\ got[c].ttl \in Nat
      BY <3>1 DEF Fetch
    <3>3. cache'[KeyOf(req[c])] # Nothing
      BY <2>3, <3>1, <3>2, RequestFields, TTLs, SetEntry, NothingAssumption
         DEF Store, Set
    <3>4. QED
      BY <2>3, <3>3 DEF Store, Set
  <2>4. CASE Restart
    BY <2>4 DEF Restart
  <2>5. CASE cache' = cache
    BY <2>5
  <2>6. QED
    BY <2>1, <2>2, <2>3, <2>4, <2>5 DEF Next, Resolve, Backend, Accept,
       RefusePeer, Receive, HangUp, Status, Deny, Hit, BackendResolves,
       BackendFails, Reply, Tick, Sleep
<1>2. QED
  BY <1>1, TypeCorrect, PTL DEF Spec, EntriesLeaveForAReason
-----------------------------------------------------------------------------
(***************************************************************************)
(* The refinement of SecretWindow.                                         *)
(***************************************************************************)
\* What a handler has fetched is what its request asked for.
FetchExact == \A c \in Conn : got[c] # Nothing =>
    /\ got[c].value = SecretFor[req[c]]
    /\ got[c].ttl = BackendTTL(req[c].mode)

LEMMA FetchExactStep == TypeOK /\ FetchExact /\ [Next]_vars => FetchExact'
<1> SUFFICES ASSUME TypeOK, FetchExact, [Next]_vars PROVE FetchExact'
  OBVIOUS
<1> USE NothingAssumption DEF TypeOK, HandlersOK, FetchExact
<1>1. ASSUME NEW c \in Conn, NEW r \in Requests, Receive(c, r) PROVE FetchExact'
  BY <1>1 DEF Receive
<1>2. ASSUME NEW c \in Conn, BackendResolves(c) PROVE FetchExact'
  <2>1. req[c] \in Requests /\ req' = req
    BY <1>2 DEF BackendResolves
  <2>2. got' = [got EXCEPT ![c] = [value |-> SecretFor[req[c]],
                                   ttl |-> BackendTTL(req[c].mode)]]
    BY <1>2, <2>1 DEF BackendResolves, SecretFor, SecretField
  <2>3. QED
    BY <2>1, <2>2
<1>3. ASSUME NEW c \in Conn, Store(c) PROVE FetchExact'
  BY <1>3 DEF Store
<1>4. ASSUME NEW c \in Conn, Reply(c) PROVE FetchExact'
  BY <1>4 DEF Reply
<1>5. CASE Restart
  BY <1>5 DEF Restart
<1>6. CASE got' = got /\ req' = req
  BY <1>6
<1>7. QED
  BY <1>1, <1>2, <1>3, <1>4, <1>5, <1>6 DEF Next, Resolve, Backend, Accept,
     RefusePeer, HangUp, Lock, Status, Deny, Hit, Miss, BackendFails, Tick,
     Sleep, vars

\* The functions SecretWindow is given, applied.
LEMMA Given ==
    /\ Window!Key = Key
    /\ \A k \in Key : OwnerOf[k] = k.project
    /\ \A r \in Requests : /\ KeyFor[r] = KeyOf(r) /\ KeyOf(r) \in Key
                           /\ ProjectOf[r] = r.project
                           /\ WindowFor[r] = PromisedTTL(r)
BY RequestFields DEF Window!Key, OwnerOf, KeyFor, ProjectOf, WindowFor

\* Something is remembered exactly where there is a live entry.
LEMMA RememberedLive ==
    ASSUME TypeOK, NEW k \in Key
    PROVE  /\ Remembered[k] # Nothing <=> Live(k)
           /\ Live(k) => /\ Remembered[k].value = cache[k].value
                         /\ Remembered[k].until = cache[k].expires.mono
           /\ cache[k] # Nothing => cache[k].expires.mono \in Nat
BY NothingAssumption DEF TypeOK, Remembered, Live, Entry, Time, Memory

\* Steps that leave cache and clock alone leave the Remembered alone.
LEMMA SameMemory ==
    ASSUME UNCHANGED <<cache, clock>>
    PROVE  Remembered' = Remembered
BY DEF Remembered, Live

\* Where a client is, by its handler's step; memory is a function on Key.
LEMMA Views ==
    ASSUME TypeOK
    PROVE  /\ \A c \in Conn : /\ pc[c] \in {"idle", "open"} => Stages[c] = "away"
                              /\ pc[c] = "resolve" => Stages[c] = "asked"
                              /\ pc[c] \in {"backend", "store"} => Stages[c] = "prompting"
                              /\ pc[c] = "reply" => Stages[c] = "told"
           /\ Remembered = [k \in Key |-> Remembered[k]]
           /\ Remembered' = [k \in Key |-> Remembered'[k]]
BY DEF TypeOK, Stages, StageOf, Remembered

\* A response tells the client its value.
LEMMA Told ==
    ASSUME TypeOK, TypeOK', NEW c \in Conn,
           pc' = [pc EXCEPT ![c] = "reply"],
           \A d \in Conn \ {c} : resp'[d] = resp[d]
    PROVE  /\ Stages' = [Stages EXCEPT ![c] = "told"]
           /\ Answers' = [Answers EXCEPT ![c] = resp'[c].value]
BY DEF TypeOK, StageOf, Stages, Answers

\* Every step of the daemon is a step of the window, or none.
LEMMA WindowStep ==
    ASSUME TypeOK, TypeOK', FetchExact, [Next]_vars
    PROVE  [Window!Next]_(Window!vars)
<1> USE DEF TypeOK, Window!vars
<1>m. UNCHANGED <<cache, clock>> => Remembered' = Remembered
  BY SameMemory
<1>1. ASSUME NEW c \in Conn, Accept(c) PROVE UNCHANGED Window!vars
  BY <1>1, <1>m DEF Accept, Stages, Answers, StageOf
<1>2. ASSUME NEW c \in Conn, RefusePeer(c) PROVE Window!TurnAway(c)
  <2>1. /\ Stages' = [Stages EXCEPT ![c] = "told"]
        /\ Answers' = [Answers EXCEPT ![c] = Nothing]
    <3>1. /\ pc' = [pc EXCEPT ![c] = "reply"]
          /\ resp'[c].value = Nothing
          /\ \A d \in Conn \ {c} : resp'[d] = resp[d]
      BY <1>2 DEF RefusePeer
    <3>2. QED
      BY <3>1, Told
  <2>2. Stages[c] = "away" /\ UNCHANGED <<clock, Remembered, req>>
    BY <1>2, <1>m, Views DEF RefusePeer
  <2>3. QED
    BY <2>1, <2>2 DEF Window!TurnAway, Window!Tell
<1>3. ASSUME NEW c \in Conn, NEW r \in Requests, Receive(c, r) PROVE Window!Come(c, r)
  <2>1. Stages' = [Stages EXCEPT ![c] = "asked"]
    BY <1>3 DEF Receive, Stages, StageOf
  <2>2. QED
    BY <1>3, <1>m, <2>1 DEF Receive, Window!Come, Stages, Answers, StageOf
<1>4. ASSUME NEW c \in Conn, HangUp(c) PROVE UNCHANGED Window!vars
  BY <1>4, <1>m DEF HangUp, Stages, Answers, StageOf
<1>5. ASSUME NEW c \in Conn, Lock(c) PROVE Window!Forget(c)
  <2>1. req[c] \in Locking /\ req[c] \in Requests
    BY <1>5 DEF Lock, Locking, HandlersOK
  <2>2. \A k \in Key : Remembered'[k] = IF k.project = req[c].project
                                        THEN Nothing ELSE Remembered[k]
    BY <1>5 DEF Lock, Evict, Remembered, Live
  <2>3. Remembered' = [k \in Key |-> IF OwnerOf[k] = ProjectOf[req[c]]
                                 THEN Nothing ELSE Remembered[k]]
    BY <2>1, <2>2, Given, Views
  <2>4. /\ Stages' = [Stages EXCEPT ![c] = "told"]
        /\ Answers' = [Answers EXCEPT ![c] = Nothing]
    <3>1. /\ pc' = [pc EXCEPT ![c] = "reply"]
          /\ resp'[c].value = Nothing
          /\ \A d \in Conn \ {c} : resp'[d] = resp[d]
      BY <1>5 DEF Lock
    <3>2. QED
      BY <3>1, Told
  <2>5. Stages[c] = "asked" /\ UNCHANGED <<clock, req>>
    BY <1>5, Views DEF Lock
  <2>6. QED
    BY <2>1, <2>3, <2>4, <2>5, Given DEF Window!Forget, Window!Tell
<1>6. ASSUME NEW c \in Conn, Status(c) PROVE Window!Decline(c)
  <2>1. /\ Stages' = [Stages EXCEPT ![c] = "told"]
        /\ Answers' = [Answers EXCEPT ![c] = Nothing]
    <3>1. /\ pc' = [pc EXCEPT ![c] = "reply"]
          /\ resp'[c].value = Nothing
          /\ \A d \in Conn \ {c} : resp'[d] = resp[d]
      BY <1>6 DEF Status
    <3>2. QED
      BY <3>1, Told
  <2>2. Stages[c] = "asked" /\ UNCHANGED <<clock, Remembered, req>>
    BY <1>6, <1>m, Views DEF Status
  <2>3. req[c] \notin Permitted \cup Locking
    BY <1>6 DEF Status, Permitted, Locking
  <2>4. QED
    BY <2>1, <2>2, <2>3 DEF Window!Decline, Window!Tell
<1>7. ASSUME NEW c \in Conn, Deny(c) PROVE Window!Decline(c)
  <2>1. /\ Stages' = [Stages EXCEPT ![c] = "told"]
        /\ Answers' = [Answers EXCEPT ![c] = Nothing]
    <3>1. /\ pc' = [pc EXCEPT ![c] = "reply"]
          /\ resp'[c].value = Nothing
          /\ \A d \in Conn \ {c} : resp'[d] = resp[d]
      BY <1>7 DEF Deny
    <3>2. QED
      BY <3>1, Told
  <2>2. Stages[c] = "asked" /\ UNCHANGED <<clock, Remembered, req>>
    BY <1>7, <1>m, Views DEF Deny, Reads
  <2>3. req[c] \notin Permitted \cup Locking
    BY <1>7 DEF Deny, Reads, Allowed, Permitted, Locking
  <2>4. QED
    BY <2>1, <2>2, <2>3 DEF Window!Decline, Window!Tell
<1>8. ASSUME NEW c \in Conn, Hit(c) PROVE Window!Recall(c)
  <2>1. /\ req[c] \in Requests /\ req[c] \in Permitted
        /\ KeyFor[req[c]] \in Key
        /\ Remembered[KeyFor[req[c]]] # Nothing
        /\ Remembered[KeyFor[req[c]]].value = cache[KeyOf(req[c])].value
    BY <1>8, Given, RememberedLive DEF Hit, Reads, Allowed, HandlersOK, Permitted
  <2>2. /\ Stages' = [Stages EXCEPT ![c] = "told"]
        /\ Answers' = [Answers EXCEPT ![c] = cache[KeyOf(req[c])].value]
    <3>1. /\ pc' = [pc EXCEPT ![c] = "reply"]
          /\ resp'[c].value = cache[KeyOf(req[c])].value
          /\ \A d \in Conn \ {c} : resp'[d] = resp[d]
      BY <1>8 DEF Hit
    <3>2. QED
      BY <3>1, Told
  <2>3. Stages[c] = "asked" /\ UNCHANGED <<clock, Remembered, req>>
    BY <1>8, <1>m, Views DEF Hit, Reads
  <2>4. QED
    BY <2>1, <2>2, <2>3 DEF Window!Recall, Window!Tell
<1>9. ASSUME NEW c \in Conn, Miss(c) PROVE Window!Prompt(c)
  <2>1. /\ req[c] \in Requests /\ req[c] \in Permitted
        /\ KeyFor[req[c]] = KeyOf(req[c]) /\ KeyOf(req[c]) \in Key
        /\ Remembered[KeyFor[req[c]]] = Nothing
    BY <1>9, Given, RememberedLive DEF Miss, Reads, Allowed, HandlersOK, Permitted
  <2>2. Remembered' = Remembered
    BY <1>9, <2>1 DEF Miss, Remembered, Live
  <2>3. Stages' = [Stages EXCEPT ![c] = "prompting"]
    BY <1>9 DEF Miss, Reads, Stages, StageOf
  <2>4. Stages[c] = "asked" /\ UNCHANGED <<clock, req, Answers>>
    BY <1>9, Views DEF Miss, Reads, Answers
  <2>5. QED
    BY <2>1, <2>2, <2>3, <2>4 DEF Window!Prompt
<1>10. ASSUME NEW c \in Conn, BackendResolves(c) PROVE UNCHANGED Window!vars
  BY <1>10, <1>m DEF BackendResolves, Stages, Answers, StageOf
<1>11. ASSUME NEW c \in Conn, BackendFails(c) PROVE Window!Fail(c)
  <2>1. /\ Stages' = [Stages EXCEPT ![c] = "told"]
        /\ Answers' = [Answers EXCEPT ![c] = Nothing]
    <3>1. /\ pc' = [pc EXCEPT ![c] = "reply"]
          /\ resp'[c].value = Nothing
          /\ \A d \in Conn \ {c} : resp'[d] = resp[d]
      BY <1>11 DEF BackendFails
    <3>2. QED
      BY <3>1, Told
  <2>2. Stages[c] = "prompting" /\ UNCHANGED <<clock, Remembered, req>>
    BY <1>11, <1>m, Views DEF BackendFails
  <2>3. QED
    BY <2>1, <2>2 DEF Window!Fail, Window!Tell
<1>12. ASSUME NEW c \in Conn, Store(c) PROVE Window!Learn(c)
  <2> DEFINE r == req[c]
             k == KeyOf(r)
             e == [value |-> SecretFor[r], expires |-> Add(clock, PromisedTTL(r))]
  <2>1. /\ r \in Requests /\ k \in Key
        /\ KeyFor[r] = k /\ WindowFor[r] = PromisedTTL(r)
        /\ got[c] # Nothing /\ got[c] \in Fetch
    BY <1>12, Given DEF Store, HandlersOK
  <2>2. /\ SecretFor[r] \in Value
        /\ got[c].value = SecretFor[r]
        /\ cache' = [cache EXCEPT ![k] = e]
    BY <1>12, <2>1, TTLs DEF Store, Set, FetchExact, Fetch
  <2>3. e \in Entry /\ e.expires.mono = clock.mono + PromisedTTL(r)
    BY <2>1, <2>2, TTLs, SetEntry
  <2>4. clock' = clock /\ clock.mono \in Nat /\ PromisedTTL(r) \in Nat
    BY <1>12, <2>1, TTLs DEF Store, Time
  <2> HIDE DEF e, k
  <2>5. \A j \in Key : Remembered'[j] =
           IF j = k THEN [value |-> SecretFor[r], until |-> clock.mono + PromisedTTL(r)]
                    ELSE Remembered[j]
    <3>1. Remembered'[k] = [value |-> SecretFor[r], until |-> clock.mono + PromisedTTL(r)]
      <4>1. cache'[k] = e /\ e # Nothing /\ e.value = SecretFor[r]
        BY <2>1, <2>2, <2>3, NothingAssumption DEF e
      <4>2. QED
        <5>1. cache'[k] # Nothing /\ ~After(clock', cache'[k].expires)
          BY <4>1, <2>3, <2>4 DEF After
        <5>2. QED
          BY <4>1, <5>1, <2>1, <2>3 DEF Remembered, Live
    <3>2. \A j \in Key : j # k => Remembered'[j] = Remembered[j]
      BY <2>1, <2>2, <2>4 DEF Remembered, Live
    <3>3. QED
      BY <3>1, <3>2
  <2>6. Remembered' = [Remembered EXCEPT ![k] =
                      [value |-> SecretFor[r], until |-> clock.mono + PromisedTTL(r)]]
    BY <2>1, <2>5, Views
  <2>7. /\ Stages' = [Stages EXCEPT ![c] = "told"]
        /\ Answers' = [Answers EXCEPT ![c] = SecretFor[r]]
    <3>1. /\ pc' = [pc EXCEPT ![c] = "reply"]
          /\ resp'[c].value = SecretFor[r]
          /\ \A d \in Conn \ {c} : resp'[d] = resp[d]
      BY <1>12, <2>2 DEF Store
    <3>2. QED
      BY <3>1, Told
  <2>8. Stages[c] = "prompting" /\ UNCHANGED <<clock, req>>
    BY <1>12, Views DEF Store
  <2>9. QED
    BY <2>1, <2>6, <2>7, <2>8 DEF Window!Learn, Window!Tell
<1>13. ASSUME NEW c \in Conn, Reply(c) PROVE Window!Leave(c)
  <2>1. Stages' = [Stages EXCEPT ![c] = "away"]
    BY <1>13 DEF Reply, Stages, StageOf
  <2>2. Answers' = [Answers EXCEPT ![c] = Nothing]
    BY <1>13 DEF Reply, Answers
  <2>3. /\ Stages[c] = "told"
        /\ req' = [req EXCEPT ![c] = Nothing]
        /\ UNCHANGED <<clock, Remembered>>
    BY <1>13, <1>m, Views DEF Reply
  <2>4. QED
    BY <2>1, <2>2, <2>3 DEF Window!Leave
<1>14. CASE Tick
  <2>1. /\ clock.mono \in Nat /\ clock'.mono = clock.mono + 1
        /\ cache' = cache
    BY <1>14 DEF Tick, Add, Time
  <2>2. \A k \in Key : Remembered'[k] =
           IF Remembered[k] # Nothing /\ clock.mono + 1 <= Remembered[k].until
           THEN Remembered[k] ELSE Nothing
    <3> TAKE k \in Key
    <3>1. Live(k)' <=> Live(k) /\ clock.mono + 1 <= cache[k].expires.mono
      BY <2>1, RememberedLive DEF Live, After
    <3>2. QED
      BY <2>1, <3>1, RememberedLive DEF Remembered
  <2>3. QED
    <3>1. Remembered' = [k \in Window!Key |->
                       IF Remembered[k] # Nothing /\ clock.mono + 1 <= Remembered[k].until
                       THEN Remembered[k] ELSE Nothing]
      BY <2>2, Given, Views
    <3>2. Stages' = Stages /\ Answers' = Answers /\ req' = req
      BY <1>14 DEF Tick, Stages, Answers
    <3>3. QED
      BY <2>1, <3>1, <3>2 DEF Window!Pass, Window!Next
<1>15. CASE Sleep
  <2>1. clock'.mono = clock.mono /\ cache' = cache
    BY <1>15 DEF Sleep, Time
  <2>2. Remembered' = Remembered
    BY <2>1 DEF Remembered, Live, After
  <2>3. QED
    BY <1>15, <2>1, <2>2 DEF Sleep, Stages, Answers
<1>16. CASE Restart
  <2>1. \A k \in Key : Remembered'[k] = Nothing
    BY <1>16 DEF Restart, Remembered, Live
  <2>2. QED
    <3>1. Remembered' = [k \in Window!Key |-> Nothing]
      BY <2>1, Given, Views
    <3>2. /\ Stages' = [c \in Conn |-> "away"]
          /\ Answers' = [c \in Conn |-> Nothing]
          /\ req' = [c \in Conn |-> Nothing]
          /\ clock' = clock
      BY <1>16 DEF Restart, Stages, Answers, StageOf
    <3>3. QED
      BY <3>1, <3>2 DEF Window!Quit, Window!Next
<1>17. CASE UNCHANGED vars
  BY <1>17, <1>m DEF vars, Stages, Answers
<1>18. QED
  BY <1>1, <1>2, <1>3, <1>4, <1>5, <1>6, <1>7, <1>8, <1>9, <1>10, <1>11,
     <1>12, <1>13, <1>14, <1>15, <1>16, <1>17
     DEF Next, Resolve, Backend, Window!Next

\* Handlers, cache and backend implement SecretWindow, for every number of
\* connections, every set of requests and all TTLs: no interleaving prompts
\* for a secret whose window is open, or changes, lengthens or ends a window
\* but by a new reading, a lock, time, or the end of the daemon.
THEOREM KeepsTheWindow == Spec => Implements
<1>1. Init => Window!Init
  BY DEF Init, Window!Init, StageOf, Stages, Answers, Remembered, Live, Window!Key, OwnerOf
<1>2. Init => FetchExact
  BY DEF Init, FetchExact
<1>3. Spec => []FetchExact
  BY <1>2, FetchExactStep, TypeCorrect, PTL DEF Spec
<1>4. TypeOK /\ TypeOK' /\ FetchExact /\ [Next]_vars => [Window!Next]_(Window!vars)
  BY WindowStep
<1>5. QED
  BY <1>1, <1>3, <1>4, TypeCorrect, PTL DEF Spec, Implements, Window!Spec

=============================================================================
