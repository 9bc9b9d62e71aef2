------------------------------- MODULE Daemon -------------------------------
(***************************************************************************)
(* timesharedd answering requests: every accepted connection runs its own  *)
(* handler goroutine (internal/daemon/server.go, HandleConn and resolve),  *)
(* and the handlers share one TTL cache (internal/cache/cache.go) in front *)
(* of one backend that reads 1Password (internal/backend, dispatch.go).    *)
(*                                                                         *)
(* A handler touches shared state only in Cache.Get, Cache.Set and         *)
(* Cache.Evict, each under the cache mutex; the backend call between Get   *)
(* and Set holds no lock.  The actions are cut exactly there.              *)
(*                                                                         *)
(* Abstractions: a secret's payload is the reference [vault, name, field]  *)
(* it was read from; durations are small integers; Empty stands for Go's   *)
(* empty string; the cache key "project NUL name NUL field" is a record,   *)
(* which is what the string is as long as no part contains a NUL.          *)
(***************************************************************************)
EXTENDS Integers

CONSTANTS
    Conn,               \* connections that can be open at the same time
    Requests,           \* the requests clients send
    Project, Name, Field, Vault,
    Tokens,             \* vaults the token store has a token for
    Empty,              \* the empty string
    DefaultField,       \* the field "password"
    Nothing,            \* an absent cache entry, value or fetch
    BiometricTTL, ServiceAccountTTL,
    MaxClock,           \* bound: the clocks stop here
    Stuck               \* connections whose backend call need not return

Mode == {"biometric", "service-account"}

Request == [op: {"read", "status", "lock"}, project: Project,
            name: Name \cup {Empty}, field: Field \cup {Empty},
            vault: Vault \cup {Empty}, mode: Mode \cup {Empty},
            ttl: Int, items: SUBSET Name]

Key      == [project: Project, name: Name \cup {Empty}, field: Field \cup {Empty}]
Value    == [vault: Vault, name: Name, field: Field]
Time     == [wall: Nat, mono: Nat]
Entry    == [value: Value, expires: Time]
Fetch    == [value: Value, ttl: Nat]
Memory   == [value: Value, until: Nat]
Response == [error: BOOLEAN, value: Value \cup {Nothing}]

ASSUME RequestsAssumption == Requests \subseteq Request
ASSUME NamesAssumption    == DefaultField \in Field
ASSUME NothingAssumption  == /\ Nothing \notin Value
                             /\ Nothing \notin Entry
                             /\ Nothing \notin Fetch
                             /\ Nothing \notin Memory
                             /\ Nothing \notin Requests
ASSUME TTLAssumption      == BiometricTTL \in Nat /\ ServiceAccountTTL \in Nat
ASSUME BoundsAssumption   == MaxClock \in Nat /\ Stuck \subseteq Conn

VARIABLES
    pc,         \* where the handler of a connection is
    req,        \* the request it read; Nothing before it is read
    got,        \* what its backend call returned: a value and a default TTL
    resp,       \* the response it is about to write
    cache,      \* Cache.entries; Nothing where the map has no entry
    clock,      \* what time.Now reads: the wall clock and the monotonic clock
    promise,    \* history: until when the configured TTL keeps a key cached
    preLock,    \* history: handlers whose fetched value predates a lock
    survivors   \* history: keys whose cached value predates a lock

handlers == <<pc, req, got, resp>>
history  == <<promise, preLock, survivors>>
vars     == <<pc, req, got, resp, cache, clock, promise, preLock, survivors>>

Steps == {"idle", "open", "resolve", "backend", "store", "reply"}

NoResponse == [error |-> FALSE, value |-> Nothing]
Failure    == [error |-> TRUE, value |-> Nothing]
Answer(v)  == [error |-> FALSE, value |-> v]

Init == /\ pc = [c \in Conn |-> "idle"]
        /\ req = [c \in Conn |-> Nothing]
        /\ got = [c \in Conn |-> Nothing]
        /\ resp = [c \in Conn |-> NoResponse]
        /\ cache = [k \in Key |-> Nothing]
        /\ clock = [wall |-> 0, mono |-> 0]
        /\ promise = [k \in Key |-> -1]
        /\ preLock = {}
        /\ survivors = {}

-----------------------------------------------------------------------------
(***************************************************************************)
(* Time.  A Time that comes from time.Now carries both clock readings, Add *)
(* moves both, and After compares the monotonic ones when both have them.  *)
(***************************************************************************)
Add(t, d)   == [wall |-> t.wall + d, mono |-> t.mono + d]
After(t, u) == t.mono > u.mono

(***************************************************************************)
(* The cache.                                                              *)
(***************************************************************************)
KeyOf(r) == [project |-> r.project, name |-> r.name, field |-> r.field]

Live(k) == cache[k] # Nothing /\ ~After(clock, cache[k].expires)

Set(k, v, d) == [cache EXCEPT ![k] = [value |-> v, expires |-> Add(clock, d)]]

\* Mutant: eviction that overlooks items with a field override.
EvictBareItems(p)  == [k \in Key |-> IF k.project = p /\ k.field = Empty
                                     THEN Nothing ELSE cache[k]]

Evict(p) == [k \in Key |-> IF k.project = p THEN Nothing ELSE cache[k]]

(***************************************************************************)
(* The backend: which field it reads, and how long the daemon keeps it.    *)
(***************************************************************************)
\* Mutant: the request's field is passed on as it is.
FieldAsSent(f) == f

SecretField(f) == IF f = Empty THEN DefaultField ELSE f

BackendTTL(m) == IF m = "biometric" THEN BiometricTTL ELSE ServiceAccountTTL

\* Mutant: the backend's TTL is a ceiling.
CappedTTL(r, d) == IF r.ttl > 0 /\ r.ttl < d THEN r.ttl ELSE d

EffectiveTTL(r, d) == IF r.ttl > 0 THEN r.ttl ELSE d

-----------------------------------------------------------------------------
(***************************************************************************)
(* A handler.                                                              *)
(***************************************************************************)
Respond(c, r) == /\ pc' = [pc EXCEPT ![c] = "reply"]
                 /\ resp' = [resp EXCEPT ![c] = r]

\* Serve starts a handler for an accepted connection.
Accept(c) == /\ pc[c] = "idle"
             /\ pc' = [pc EXCEPT ![c] = "open"]
             /\ UNCHANGED <<req, got, resp, cache, clock, history>>

\* VerifyPeer refuses the client: an error is all it gets.
RefusePeer(c) == /\ pc[c] = "open"
                 /\ Respond(c, Failure)
                 /\ UNCHANGED <<req, got, cache, clock, history>>

Receive(c, r) == /\ pc[c] = "open"
                 /\ pc' = [pc EXCEPT ![c] = "resolve"]
                 /\ req' = [req EXCEPT ![c] = r]
                 /\ UNCHANGED <<got, resp, cache, clock, history>>

\* ReadMessage fails: end of file (PingSocket closes at once) or bad JSON.
HangUp(c) == /\ pc[c] = "open"
             /\ pc' = [pc EXCEPT ![c] = "idle"]
             /\ UNCHANGED <<req, got, resp, cache, clock, history>>

Lock(c) ==
    LET p == req[c].project IN
    /\ pc[c] = "resolve"
    /\ req[c].op = "lock"
    /\ cache' = Evict(p)
    /\ Respond(c, NoResponse)
    /\ promise' = [k \in Key |-> IF k.project = p THEN -1 ELSE promise[k]]
    /\ preLock' = preLock \cup {d \in Conn : pc[d] = "store" /\ req[d].project = p}
    /\ survivors' = {k \in Key : cache'[k] # Nothing /\ (k \in survivors \/ k.project = p)}
    /\ UNCHANGED <<req, got, clock>>

Status(c) == /\ pc[c] = "resolve"
             /\ req[c].op = "status"
             /\ Respond(c, NoResponse)
             /\ UNCHANGED <<req, got, cache, clock, history>>

Reads(c)   == pc[c] = "resolve" /\ req[c].op = "read"

\* Mutant: the allow-list is consulted only where the backend is.
AllowedIfCold(c) == ~Live(KeyOf(req[c])) => req[c].name \in req[c].items

Allowed(c) == req[c].name \in req[c].items

Deny(c) == /\ Reads(c)
           /\ ~Allowed(c)
           /\ Respond(c, Failure)
           /\ UNCHANGED <<req, got, cache, clock, history>>

\* Mutant: a hit begins a new window.
HitAndRenew(c) == LET r == req[c] IN
          /\ Reads(c)
          /\ Allowed(c)
          /\ Live(KeyOf(r))
          /\ Respond(c, Answer(cache[KeyOf(r)].value))
          /\ cache' = Set(KeyOf(r), cache[KeyOf(r)].value, EffectiveTTL(r, BackendTTL(r.mode)))
          /\ UNCHANGED <<req, got, clock, history>>

Hit(c) == /\ Reads(c)
          /\ Allowed(c)
          /\ Live(KeyOf(req[c]))
          /\ Respond(c, Answer(cache[KeyOf(req[c])].value))
          /\ UNCHANGED <<req, got, cache, clock, history>>

\* Mutant: a lock held over the backend call.
MissAlone(c) == LET k == KeyOf(req[c]) IN
           /\ Reads(c)
           /\ Allowed(c)
           /\ ~Live(k)
           /\ \A d \in Conn : pc[d] # "backend"
           /\ cache' = [cache EXCEPT ![k] = Nothing]
           /\ pc' = [pc EXCEPT ![c] = "backend"]
           /\ survivors' = survivors \ {k}
           /\ UNCHANGED <<req, got, resp, clock, promise, preLock>>

\* Get finds nothing, or an expired entry which it deletes.
Miss(c) == LET k == KeyOf(req[c]) IN
           /\ Reads(c)
           /\ Allowed(c)
           /\ ~Live(k)
           /\ cache' = [cache EXCEPT ![k] = Nothing]
           /\ pc' = [pc EXCEPT ![c] = "backend"]
           /\ survivors' = survivors \ {k}
           /\ UNCHANGED <<req, got, resp, clock, promise, preLock>>

\* The item exists and the vault's credentials work.  The mode picks the
\* backend; a service account needs a stored token.
BackendResolves(c) ==
    LET r == req[c] IN
    /\ pc[c] = "backend"
    /\ r.vault \in Vault
    /\ \/ r.mode = "biometric"
       \/ r.mode = "service-account" /\ r.vault \in Tokens
    /\ got' = [got EXCEPT ![c] =
                  [value |-> [vault |-> r.vault, name |-> r.name,
                              field |-> SecretField(r.field)],
                   ttl   |-> BackendTTL(r.mode)]]
    /\ pc' = [pc EXCEPT ![c] = "store"]
    /\ UNCHANGED <<req, resp, cache, clock, history>>

\* Not found, authentication failed, no token or an unknown mode.
BackendFails(c) == /\ pc[c] = "backend"
                   /\ Respond(c, Failure)
                   /\ UNCHANGED <<req, got, cache, clock, history>>

\* What the configured TTL promises from now on: the request's own TTL, or
\* the backend's default where the request has none.
PromisedTTL(r) == IF r.ttl > 0 THEN r.ttl ELSE BackendTTL(r.mode)

Store(c) ==
    LET k     == KeyOf(req[c])
        until == clock.mono + PromisedTTL(req[c])
    IN
    /\ pc[c] = "store"
    /\ cache' = Set(k, got[c].value, EffectiveTTL(req[c], got[c].ttl))
    /\ Respond(c, Answer(got[c].value))
    /\ got' = [got EXCEPT ![c] = Nothing]
    /\ promise' = [promise EXCEPT ![k] = IF until > @ THEN until ELSE @]
    /\ survivors' = IF c \in preLock THEN survivors \cup {k} ELSE survivors \ {k}
    /\ preLock' = preLock \ {c}
    /\ UNCHANGED <<req, clock>>

\* WriteMessage, or its failure when the client is gone; then Close.
Reply(c) == /\ pc[c] = "reply"
            /\ pc' = [pc EXCEPT ![c] = "idle"]
            /\ req' = [req EXCEPT ![c] = Nothing]
            /\ resp' = [resp EXCEPT ![c] = NoResponse]
            /\ UNCHANGED <<got, cache, clock, history>>

-----------------------------------------------------------------------------
(***************************************************************************)
(* The environment.                                                        *)
(***************************************************************************)
Tick == /\ clock.wall < MaxClock
        /\ clock' = Add(clock, 1)
        /\ UNCHANGED <<handlers, cache, history>>

\* The machine sleeps: the monotonic clock stands still.
Sleep == /\ clock.wall < MaxClock
         /\ clock' = [clock EXCEPT !.wall = @ + 1]
         /\ UNCHANGED <<handlers, cache, history>>

\* The daemon process ends (idle exit, crash, reboot): its handlers die and
\* the next one starts with an empty cache.
Restart == /\ pc' = [c \in Conn |-> "idle"]
           /\ req' = [c \in Conn |-> Nothing]
           /\ got' = [c \in Conn |-> Nothing]
           /\ resp' = [c \in Conn |-> NoResponse]
           /\ cache' = [k \in Key |-> Nothing]
           /\ promise' = [k \in Key |-> -1]
           /\ preLock' = {}
           /\ survivors' = {}
           /\ UNCHANGED clock

Resolve(c) == Lock(c) \/ Status(c) \/ Deny(c) \/ Hit(c) \/ Miss(c)
Backend(c) == BackendResolves(c) \/ BackendFails(c)

Next == \/ \E c \in Conn : \/ Accept(c) \/ RefusePeer(c) \/ HangUp(c)
                           \/ \E r \in Requests : Receive(c, r)
                           \/ Resolve(c) \/ Backend(c) \/ Store(c) \/ Reply(c)
        \/ Tick \/ Sleep \/ Restart

(***************************************************************************)
(* Goroutines run: a handler that can take its next step takes it, but the *)
(* backend answers only the connections that are not Stuck, and nothing    *)
(* makes a client send its request.                                        *)
(***************************************************************************)
Fairness == \A c \in Conn : /\ WF_vars(Resolve(c))
                            /\ WF_vars(Store(c))
                            /\ WF_vars(Reply(c))
                            /\ c \notin Stuck => WF_vars(Backend(c))

Spec     == Init /\ [][Next]_vars
FairSpec == Spec /\ Fairness

-----------------------------------------------------------------------------
(***************************************************************************)
(* Properties.                                                             *)
(***************************************************************************)
\* A handler's data fits where it is: past the reading of the request it has
\* one, only an allowed read gets as far as the backend, and a fetched value
\* exists from the backend's return to the end of Cache.Set.
HandlersOK ==
    \A c \in Conn :
        /\ pc[c] \in {"resolve", "backend", "store"} => req[c] # Nothing
        /\ pc[c] \in {"backend", "store"} => req[c].op = "read" /\ Allowed(c)
        /\ pc[c] = "store" <=> got[c] # Nothing

\* Every variable has its type, and a handler's data fits where it is.
TypeOK ==
    /\ pc \in [Conn -> Steps]
    /\ req \in [Conn -> Requests \cup {Nothing}]
    /\ got \in [Conn -> Fetch \cup {Nothing}]
    /\ resp \in [Conn -> Response]
    /\ cache \in [Key -> Entry \cup {Nothing}]
    /\ clock \in Time
    /\ promise \in [Key -> Int]
    /\ preLock \in SUBSET Conn
    /\ survivors \in SUBSET Key
    /\ HandlersOK

\* Whatever interleaving of projects, items and fields shares the cache, a
\* value the daemon is about to send is of the item and the field that were
\* asked for, the item is in the sender's allow-list, and the value comes
\* from a vault the sender's own project reads that item from.
Isolation ==
    \A c \in Conn : pc[c] = "reply" /\ resp[c].value # Nothing =>
        LET r == req[c]
            v == resp[c].value
        IN /\ r # Nothing
           /\ r.name \in r.items
           /\ v.name = r.name
           /\ v.field = IF r.field = Empty THEN DefaultField ELSE r.field
           /\ \E s \in Requests : /\ s.project = r.project
                                  /\ s.name = r.name
                                  /\ s.vault = v.vault

\* The keys whose requests all ask for the same time.
OneTTL == {k \in Key : \A r, s \in Requests :
    r.op = "read" /\ s.op = "read" /\ KeyOf(r) = k /\ KeyOf(s) = k
        => PromisedTTL(r) = PromisedTTL(s)}

\* README: one prompt opens a window, and until the configured TTL is over
\* reads are warm.  A key whose requests agree on the TTL stays cached for
\* the whole of the longest window any store of it opened since the last
\* lock, whatever other handlers and other projects do meanwhile.
WarmWindow ==
    \A k \in OneTTL : clock.mono <= promise[k] => Live(k)

\* A value fetched before a `timeshare lock` of its project can be in the
\* cache after it in one way only: its handler was between the backend call
\* and Cache.Set when the lock came.  Eviction itself leaves none behind.
OnlyInFlightSurvivesLock ==
    [][\A k \in survivors' \ survivors :
          \E c \in preLock : /\ pc[c] = "store" /\ pc'[c] = "reply"
                             /\ req[c].project = k.project]_vars

\* An entry leaves the cache only by expiry, by a lock of its own project or
\* with the daemon: no read and no lock elsewhere costs a project its window.
LeavesForAReason(k) ==
    \/ After(clock, cache[k].expires)
    \/ \E c \in Conn : /\ pc[c] = "resolve" /\ pc'[c] = "reply"
                       /\ req[c].op = "lock" /\ req[c].project = k.project
    \/ \A c \in Conn : pc'[c] = "idle"

EntriesLeaveForAReason ==
    [][\A k \in Key : cache[k] # Nothing /\ cache'[k] = Nothing
                          => LeavesForAReason(k)]_vars

-----------------------------------------------------------------------------
(***************************************************************************)
(* What the daemon is for: SecretWindow.  Its memory is what the cache has *)
(* and time has not expired, its clock is the monotonic one, and a client  *)
(* is prompting from the miss to the end of Cache.Set.                     *)
(***************************************************************************)
StageOf == [idle |-> "away", open |-> "away", resolve |-> "asked",
            backend |-> "prompting", store |-> "prompting", reply |-> "told"]

Permitted == {r \in Requests : r.op = "read" /\ r.name \in r.items}
Locking   == {r \in Requests : r.op = "lock"}
KeyFor    == [r \in Requests |-> KeyOf(r)]
SecretFor == [r \in Requests |-> [vault |-> r.vault, name |-> r.name,
                                  field |-> IF r.field = Empty THEN DefaultField
                                                               ELSE r.field]]
WindowFor == [r \in Requests |-> PromisedTTL(r)]
ProjectOf == [r \in Requests |-> r.project]
OwnerOf   == [k \in Key |-> k.project]

Remembered == [k \in Key |->
    IF Live(k) THEN [value |-> cache[k].value, until |-> cache[k].expires.mono]
               ELSE Nothing]
Stages  == [c \in Conn |-> StageOf[pc[c]]]
Answers == [c \in Conn |-> resp[c].value]

Window == INSTANCE SecretWindow
    WITH Client <- Conn, Request <- Requests, now <- clock.mono,
         memory <- Remembered, stage <- Stages, ask <- req, answer <- Answers

\* The handlers, the cache with its expired entries, and the backend call that
\* holds no lock implement SecretWindow: a prompt only for what is not
\* remembered, a window of exactly the project's TTL from the moment the value
\* came, and no other way to lose or to change what is remembered.
Implements == Window!Spec

-----------------------------------------------------------------------------
\* Every request whose backend call returns is answered, however many other
\* handlers hang in theirs.
Answered == \A c \in Conn \ Stuck : pc[c] = "resolve" ~> pc[c] = "idle"

-----------------------------------------------------------------------------
(***************************************************************************)
(* What the documentation says and the code does not keep.                 *)
(***************************************************************************)
\* README, command table: lock evicts this project's cached secrets.  After
\* it, nothing that was fetched before it is cached.
LockForgets == survivors = {}

\* SECURITY.md: the TTL is wall-clock, expiry survives sleep and resume.  No
\* read is answered from an entry whose wall-clock expiry has passed.
WallClockTTL ==
    [][\A c \in Conn :
          Reads(c) /\ pc'[c] = "reply" /\ resp'[c].value # Nothing
              => clock.wall <= cache[KeyOf(req[c])].expires.wall]_vars

=============================================================================
