----------------------------- MODULE AgentProxy -----------------------------
(***************************************************************************)
(* The filtering ssh-agent proxy (internal/sshagent/proxy.go): Serve gives *)
(* each connection a goroutine, whose requests List, Sign and              *)
(* SignWithFlags filter by allow-list and deadline and forward to the      *)
(* upstream agent.  All connections share one upstream agent.Client, which *)
(* does one call at a time under a mutex: the wait for it lies between the *)
(* look at the deadline and the forwarding.                                *)
(*                                                                         *)
(* The deadline is a countdown, left, of the clock that time.Now compares. *)
(* A connection slot is reused after its connection ended.  The proxy has  *)
(* its beginning and end, and its specification, in RunCommand.            *)
(***************************************************************************)
EXTENDS Integers

CONSTANTS
    Conn,       \* connections to the proxy that can be open at the same time
    Key,        \* keys, by fingerprint
    Allowed,    \* the fingerprints given to NewProxy
    TTL,        \* ticks from NewProxy to the deadline; a configured ttl of
                \* zero or less is 0 here, a deadline that has passed already
    Silent      \* connections whose client need not read its answers

ASSUME AllowedAssumption == Allowed \subseteq Key
ASSUME TTLAssumption     == TTL \in Nat
ASSUME SilentAssumption  == Silent \subseteq Conn

Request == [op : {"list", "unsupported"}] \cup [op : {"sign"}, key : Key]
NoRequest == [op |-> "unsupported"]
Failure == [kind |-> "failure"]
Keys(S) == [kind |-> "keys", keys |-> S]
Answers == {Failure} \cup [kind : {"keys"}, keys : SUBSET Key]
                     \cup [kind : {"signature"}, key : Key]

VARIABLES
    left,       \* ticks until the deadline
    listener,   \* "none", "bound", "served" (Serve accepts), "deserted" (Serve
                \* has returned and nobody accepts), or "closed"
    upstream,   \* "open", "hung" (it takes requests and answers none), or
                \* "closed" (by us, or by the upstream agent)
    pc,         \* where a connection's goroutine is
    ask,        \* the request it works on, or NoRequest
    answer      \* its answer, or Failure while there is none

proxyVars == <<left, listener, upstream, pc, ask, answer>>

ProxyInit(l, u) == /\ left = TTL
                   /\ listener = l
                   /\ upstream = u
                   /\ pc = [c \in Conn |-> "none"]
                   /\ ask = [c \in Conn |-> NoRequest]
                   /\ answer = [c \in Conn |-> Failure]

\* The goroutine is done with its request.
Forget(c) == /\ ask' = [ask EXCEPT ![c] = NoRequest]
             /\ answer' = [answer EXCEPT ![c] = Failure]

Go(c, s) == pc' = [pc EXCEPT ![c] = s]
Respond(c, a) == /\ answer' = [answer EXCEPT ![c] = a]
                 /\ Go(c, "reply")

\* Requests past the guard: with the upstream agent, or waiting to be sent there.
Calling  == {c \in Conn : pc[c] = "call"}
InFlight == {c \in Conn : pc[c] \in {"wait", "call"}}

-----------------------------------------------------------------------------
(***************************************************************************)
(* Connections.                                                            *)
(***************************************************************************)
Connect(c) == /\ listener \in {"bound", "served", "deserted"}
              /\ pc[c] = "none"
              /\ Go(c, "queued")
              /\ UNCHANGED <<left, listener, upstream, ask, answer>>

\* Mutant: connections are served one after the other.
AcceptOne(c) == /\ listener = "served"
                /\ pc[c] = "queued"
                /\ \A e \in Conn : pc[e] \in {"none", "queued"}
                /\ Go(c, "ready")
                /\ UNCHANGED <<left, listener, upstream, ask, answer>>

Accept(c) == /\ listener = "served"
             /\ pc[c] = "queued"
             /\ Go(c, "ready")
             /\ UNCHANGED <<left, listener, upstream, ask, answer>>

\* peercred.Verify refuses the peer.
RefusePeer(c) == /\ listener = "served"
                 /\ pc[c] = "queued"
                 /\ Go(c, "none")
                 /\ UNCHANGED <<left, listener, upstream, ask, answer>>

\* Any error of Accept, one that would pass included, is Serve's return, which
\* run ignores: the socket stays, and connections to it wait in its queue.
AcceptFails == /\ listener = "served"
               /\ listener' = "deserted"
               /\ UNCHANGED <<left, upstream, pc, ask, answer>>

Ask(c) == /\ pc[c] = "ready"
          /\ \E r \in Request : ask' = [ask EXCEPT ![c] = r]
          /\ Go(c, "asked")
          /\ UNCHANGED <<left, listener, upstream, answer>>

\* The client is gone: ServeAgent meets end of file, or cannot write.  While
\* a request is under way it does not look.
HangUp(c) == /\ pc[c] \in {"ready", "reply"}
             /\ Go(c, "none")
             /\ Forget(c)
             /\ UNCHANGED <<left, listener, upstream>>

Reply(c) == /\ pc[c] = "reply"
            /\ Go(c, "ready")
            /\ Forget(c)
            /\ UNCHANGED <<left, listener, upstream>>

-----------------------------------------------------------------------------
(***************************************************************************)
(* The proxy's methods.                                                    *)
(***************************************************************************)
\* Mutants: no allow-list; no deadline.
PermitsAnyKey(r) == left > 0 /\ r.op \in {"list", "sign"}

PermitsForever(r) == \/ r.op = "list"
                     \/ r.op = "sign" /\ r.key \in Allowed

\* What guard lets through, and List before its deadline.
Permits(r) == /\ left > 0
              /\ \/ r.op = "list"
                 \/ r.op = "sign" /\ r.key \in Allowed

Pass(c) == /\ pc[c] = "asked"
           /\ Permits(ask[c])
           /\ Go(c, "wait")
           /\ UNCHANGED <<left, listener, upstream, ask, answer>>

\* Mutant: managing keys is refused, but reported as done.
RefuseQuietly(c) == /\ pc[c] = "asked"
                    /\ ~Permits(ask[c])
                    /\ Respond(c, IF ask[c].op = "list" THEN Keys({})
                                  ELSE IF ask[c].op = "sign" THEN Failure
                                  ELSE [kind |-> "success"])
                    /\ UNCHANGED <<left, listener, upstream, ask>>

\* guard's two errors, List's empty list, and what is not supported.
Refuse(c) == /\ pc[c] = "asked"
             /\ ~Permits(ask[c])
             /\ Respond(c, IF ask[c].op = "list" THEN Keys({}) ELSE Failure)
             /\ UNCHANGED <<left, listener, upstream, ask>>

\* Mutant: calls are not serialized.
CallUnlocked(c) == /\ pc[c] = "wait"
                   /\ upstream # "closed"
                   /\ Go(c, "call")
                   /\ UNCHANGED <<left, listener, upstream, ask, answer>>

\* The goroutine gets the client's mutex, and its request goes upstream.
Call(c) == /\ pc[c] = "wait"
           /\ upstream # "closed"
           /\ Calling = {}
           /\ Go(c, "call")
           /\ UNCHANGED <<left, listener, upstream, ask, answer>>

\* What an agent answers: a failure, the keys it has, or a signature.
AnswersTo(r) ==
    {Failure} \cup (CASE r.op = "list" -> {Keys(S) : S \in SUBSET Key}
                      [] r.op = "sign" -> {[kind |-> "signature", key |-> r.key]}
                      [] OTHER         -> {})

\* Mutant: List relays what upstream answered.
Unfiltered(S) == S

Filtered(S) == S \cap Allowed

Relayed(a) == IF a.kind = "keys" THEN Keys(Filtered(a.keys)) ELSE a

\* Answers name no request: who reads one takes it for its own, to whichever of
\* the requests sent it is.
UpstreamAnswers(c) ==
    /\ c \in Calling
    /\ upstream = "open"
    /\ \E d \in Calling : \E a \in AnswersTo(ask[d]) : Respond(c, Relayed(a))
    /\ UNCHANGED <<left, listener, upstream, ask>>

\* The connection to it is closed.
CallFails(c) == /\ c \in InFlight
                /\ upstream = "closed"
                /\ Calling \subseteq {c}
                /\ Respond(c, Failure)
                /\ UNCHANGED <<left, listener, upstream, ask>>

UpstreamHangs == /\ upstream = "open"
                 /\ upstream' = "hung"
                 /\ UNCHANGED <<left, listener, pc, ask, answer>>

UpstreamCloses == /\ upstream # "closed"
                  /\ upstream' = "closed"
                  /\ UNCHANGED <<left, listener, pc, ask, answer>>

Tick == /\ left > 0
        /\ left' = left - 1
        /\ UNCHANGED <<listener, upstream, pc, ask, answer>>

Goroutine(c) == Accept(c) \/ Pass(c) \/ Refuse(c) \/ CallFails(c)

ProxyStep == \/ \E c \in Conn : \/ Connect(c) \/ RefusePeer(c) \/ Ask(c)
                                \/ HangUp(c) \/ Reply(c) \/ Goroutine(c)
                                \/ Call(c) \/ UpstreamAnswers(c)
             \/ AcceptFails \/ UpstreamHangs \/ UpstreamCloses

-----------------------------------------------------------------------------
(***************************************************************************)
(* Properties.                                                             *)
(***************************************************************************)
\* Every variable has its type.
TypeOK == /\ left \in 0..TTL
          /\ listener \in {"none", "bound", "served", "deserted", "closed"}
          /\ upstream \in {"open", "hung", "closed"}
          /\ pc \in [Conn -> {"none", "queued", "ready", "asked", "wait",
                              "call", "reply"}]
          /\ ask \in [Conn -> Request]
          /\ answer \in [Conn -> Answers]

\* proxy.go, package comment: an answer shows allow-listed keys only, and a
\* signature is made with an allowed key, by the one this connection asked
\* for; and it is the answer to this connection's request, though all share one
\* upstream connection on which answers name no request.
OnlyAllowed ==
    \A c \in Conn : pc[c] = "reply" =>
        /\ answer[c].kind = "signature" =>
               ask[c].op = "sign" /\ answer[c].key = ask[c].key /\ ask[c].key \in Allowed
        /\ answer[c].kind = "keys" => ask[c].op = "list" /\ answer[c].keys \subseteq Allowed

\* The proxy as a grant: a request is permitted when the guard has let it through,
\* and the upstream agent is used from the moment it is forwarded.
ListRequest == [op |-> "list"]
SignRequest(k) == [op |-> "sign", key |-> k]
AtStep(s) == [c \in Conn |-> IF pc[c] = s THEN ask[c] ELSE [op |-> "none"]]

AsGrant == INSTANCE Grant
             WITH Granted <- {SignRequest(k) : k \in Allowed},
                  Listing <- ListRequest,
                  NoUse   <- [op |-> "none"],
                  lapsed  <- left = 0,
                  permit  <- AtStep("wait"),
                  use     <- AtStep("call")

\* The upstream agent is used for one permitted request at a time, and for each
\* once; and nothing is permitted past the deadline or with another key, in
\* whatever order goroutines, deadline and the ends of run and upstream come.
Implements == AsGrant!Spec

\* proxy.go, package comment: requests are forwarded only before the deadline.
\* They are not: the guard looks at it before the wait for the mutex.
ForwardsInTime ==
    [][\A c \in Conn : c \notin Calling /\ pc'[c] = "call" => left > 0]_proxyVars

\* proxy.go, Serve: one slow or stuck client cannot block another.  While Serve
\* accepts, every client gets to its goroutine, and every request to its answer
\* or, if it is let through, to an upstream agent that hangs; whether others read
\* their answers does not matter.
Answered == \A c \in Conn :
    /\ pc[c] = "queued" ~> pc[c] # "queued" \/ listener = "deserted"
    /\ pc[c] = "asked"  ~> \/ pc[c] \in {"none", "ready", "reply"}
                           \/ c \in InFlight /\ upstream = "hung"

\* The grant ends: from some point on after the deadline an upstream agent that
\* answers is left alone, however many connections stay open and go on asking.
GrantEnds == <>[](InFlight = {} \/ upstream = "hung")

=============================================================================
