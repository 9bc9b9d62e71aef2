-------------------------- MODULE RunCommandProofs --------------------------
(***************************************************************************)
(* Proofs about RunCommand and the AgentProxy in it: for every number of   *)
(* clients of the proxy, every set of keys and allow-list, every list of   *)
(* items and every TTL, whatever fails and whenever a signal comes.        *)
(***************************************************************************)
EXTENDS RunCommand, TLAPS

USE DEF Go, Respond, Forget, Calling, InFlight

-----------------------------------------------------------------------------
(***************************************************************************)
(* The proxy's invariant.                                                  *)
(***************************************************************************)
\* What is past the guard was permitted; an answer is to its request.
Permitted == \A c \in InFlight :
    \/ ask[c].op = "list"
    \/ ask[c].op = "sign" /\ ask[c].key \in Allowed

\* The mutex of the one upstream client.
OneCall == \A c, d \in Calling : c = d

IInv == TypeOK /\ Permitted /\ OneCall /\ OnlyAllowed

\* Types of the values the actions build.
LEMMA Values == /\ Failure \in Answers
                /\ \A S \in SUBSET Key : Keys(S) \in Answers
                /\ \A k \in Key : [kind |-> "signature", key |-> k] \in Answers
                /\ NoRequest \in Request
                /\ \A r \in Request : r.op = "sign" => r.key \in Key
BY DEF Failure, Answers, Keys, Request, NoRequest

\* The kinds of the answers that are no signature.
LEMMA Kinds == /\ Failure.kind = "failure"
               /\ \A S : Keys(S).kind = "keys" /\ Keys(S).keys = S
BY DEF Failure, Keys

\* What a connection makes of what the upstream agent answered to its request.
LEMMA AnswerTo ==
    ASSUME NEW r \in Request, r.op = "list" \/ (r.op = "sign" /\ r.key \in Allowed),
           NEW a \in AnswersTo(r)
    PROVE  /\ Relayed(a) \in Answers
           /\ Relayed(a).kind = "signature" =>
                  r.op = "sign" /\ Relayed(a).key = r.key /\ r.key \in Allowed
           /\ Relayed(a).kind = "keys" =>
                  r.op = "list" /\ Relayed(a).keys \subseteq Allowed
<1>1. CASE a = Failure
  BY <1>1, Values, Kinds DEF Relayed
<1>2. ASSUME r.op = "list", NEW S \in SUBSET Key, a = Keys(S)
      PROVE  /\ Relayed(a) \in Answers
             /\ Relayed(a).kind = "keys" /\ Relayed(a).keys \subseteq Allowed
  <2>1. Relayed(a) = Keys(Filtered(S))
    BY <1>2, Kinds DEF Relayed
  <2>2. Filtered(S) \in SUBSET Key /\ Filtered(S) \subseteq Allowed
    BY DEF Filtered
  <2>3. QED
    BY <2>1, <2>2, Values, Kinds
<1>3. CASE r.op = "sign" /\ a = [kind |-> "signature", key |-> r.key]
  <2>1. a.kind = "signature" /\ a.key = r.key
    BY <1>3
  <2>2. Relayed(a) = a
    BY <2>1 DEF Relayed
  <2>3. QED
    BY <1>3, <2>1, <2>2, Values
<1>4. QED
  BY <1>1, <1>2, <1>3 DEF AnswersTo

\* A connection's step keeps the invariant.
LEMMA InvConn ==
    ASSUME IInv, NEW c \in Conn,
           \/ Connect(c) \/ RefusePeer(c) \/ Ask(c) \/ HangUp(c) \/ Reply(c)
           \/ Goroutine(c) \/ Call(c) \/ UpstreamAnswers(c)
    PROVE  IInv'
<1> USE DEF IInv, TypeOK, Permitted, OneCall, OnlyAllowed
<1>1. CASE Connect(c)
  BY <1>1 DEF Connect
<1>2. CASE RefusePeer(c)
  BY <1>2 DEF RefusePeer
<1>3. CASE Ask(c)
  BY <1>3 DEF Ask
<1>4. CASE HangUp(c)
  BY <1>4, Values DEF HangUp
<1>5. CASE Reply(c)
  BY <1>5, Values DEF Reply
<1>6. CASE Accept(c)
  BY <1>6 DEF Accept
<1>7. CASE Pass(c)
  BY <1>7 DEF Pass, Permits
<1>8. CASE Refuse(c)
  BY <1>8, Values, Kinds DEF Refuse
<1>9. CASE CallFails(c)
  BY <1>9, Values, Kinds DEF CallFails
<1>10. CASE Call(c)
  BY <1>10 DEF Call
<1>11. CASE UpstreamAnswers(c)
  <2>1. PICK d \in Calling : \E a \in AnswersTo(ask[d]) : Respond(c, Relayed(a))
    BY <1>11 DEF UpstreamAnswers
  <2>0. PICK a \in AnswersTo(ask[d]) : Respond(c, Relayed(a))
    BY <2>1
  <2>2. d = c /\ c \in InFlight
    BY <1>11 DEF UpstreamAnswers
  <2>3. /\ ask[c] \in Request
        /\ ask[c].op = "list" \/ (ask[c].op = "sign" /\ ask[c].key \in Allowed)
    BY <2>2
  <2>4. /\ Relayed(a) \in Answers
        /\ Relayed(a).kind = "signature" =>
               /\ ask[c].op = "sign" /\ Relayed(a).key = ask[c].key
               /\ ask[c].key \in Allowed
        /\ Relayed(a).kind = "keys" =>
               ask[c].op = "list" /\ Relayed(a).keys \subseteq Allowed
    BY <2>2, <2>3, AnswerTo
  <2>5. QED
    BY <1>11, <2>0, <2>4 DEF UpstreamAnswers
<1>12. QED
  BY <1>1, <1>2, <1>3, <1>4, <1>5, <1>6, <1>7, <1>8, <1>9, <1>10, <1>11
     DEF Goroutine

\* So does every step of the proxy.
LEMMA InvStep == IInv /\ [ProxyStep \/ Tick]_proxyVars => IInv'
<1> SUFFICES ASSUME IInv, [ProxyStep \/ Tick]_proxyVars PROVE IInv'
  OBVIOUS
<1> USE DEF IInv, TypeOK, Permitted, OneCall, OnlyAllowed
<1>1. CASE AcceptFails
  BY <1>1 DEF AcceptFails
<1>2. CASE UpstreamHangs \/ UpstreamCloses
  BY <1>2 DEF UpstreamHangs, UpstreamCloses
<1>3. CASE Tick
  BY <1>3, TTLAssumption DEF Tick
<1>4. CASE UNCHANGED proxyVars
  BY <1>4 DEF proxyVars
<1>5. QED
  BY <1>1, <1>2, <1>3, <1>4, InvConn DEF ProxyStep

-----------------------------------------------------------------------------
(***************************************************************************)
(* The proxy's steps are steps of Grant.                                   *)
(***************************************************************************)
\* A connection whose request, if it is past the guard, stays where it is.
Stays(c) == IF pc[c] \in {"wait", "call"} THEN pc'[c] = pc[c] /\ ask'[c] = ask[c]
            ELSE pc'[c] \notin {"wait", "call"}

\* A step that leaves the requests past the guard where they are.
LEMMA GrantKept ==
    ASSUME IInv, UNCHANGED left, \A c \in Conn : Stays(c)
    PROVE  UNCHANGED AsGrant!vars
<1>1. AtStep("wait")' = AtStep("wait") /\ AtStep("call")' = AtStep("call")
  BY DEF AtStep, Stays
<1>2. QED
  BY <1>1 DEF AsGrant!vars

\* The end of requests past the guard, whatever their answers.
LEMMA GrantEndsFor ==
    ASSUME IInv, UNCHANGED left, NEW C \in SUBSET InFlight, C # {},
           \A c \in C : pc'[c] \notin {"wait", "call"},
           \A c \in Conn \ C : Stays(c)
    PROVE  AsGrant!Next
<1>1. /\ AtStep("wait")' =
             [c \in Conn |-> IF c \in C THEN [op |-> "none"] ELSE AtStep("wait")[c]]
      /\ AtStep("call")' =
             [c \in Conn |-> IF c \in C THEN [op |-> "none"] ELSE AtStep("call")[c]]
  BY DEF AtStep, Stays
<1>2. C \in SUBSET Conn
  OBVIOUS
<1>3. AsGrant!End(C)
  BY <1>1 DEF AsGrant!End
<1>4. QED
  BY <1>2, <1>3 DEF AsGrant!Next

\* A request that passes the guard is permitted, by what is granted.
LEMMA GuardPermits ==
    ASSUME IInv, NEW c \in Conn, Pass(c)
    PROVE  AsGrant!Permit(c)
<1>1. left # 0 /\ pc[c] = "asked"
  BY DEF Pass, Permits, IInv, TypeOK
<1>2. ask[c] \in {SignRequest(k) : k \in Allowed} \cup {ListRequest}
  <2>1. ask[c] \in Request
    BY DEF IInv, TypeOK
  <2>2. CASE ask[c].op = "list"
    BY <2>1, <2>2 DEF Request, ListRequest
  <2>3. CASE ask[c].op = "sign" /\ ask[c].key \in Allowed
    BY <2>1, <2>3 DEF Request, SignRequest
  <2>4. QED
    BY <2>2, <2>3 DEF Pass, Permits
<1>3. /\ AtStep("wait")' = [AtStep("wait") EXCEPT ![c] = ask[c]]
      /\ AtStep("wait")[c] = [op |-> "none"] /\ AtStep("call")[c] = [op |-> "none"]
  BY <1>1 DEF Pass, AtStep, IInv, TypeOK
<1>4. AtStep("call")' = AtStep("call")
  BY <1>1 DEF Pass, AtStep, IInv, TypeOK
<1>5. UNCHANGED left
  BY DEF Pass
<1>6. QED
  BY <1>1, <1>2, <1>3, <1>4, <1>5 DEF AsGrant!Permit

\* The forwarding begins a use of what was permitted, when there is no other.
LEMMA CallBegins ==
    ASSUME IInv, NEW c \in Conn, Call(c)
    PROVE  AsGrant!Begin(c)
<1>1. pc[c] = "wait" /\ \A d \in Conn : pc[d] # "call"
  BY DEF Call
<1>2. ask[c] # [op |-> "none"]
  BY <1>1 DEF IInv, Permitted
<1>3. AtStep("wait")[c] = ask[c] /\ \A d \in Conn : AtStep("call")[d] = [op |-> "none"]
  BY <1>1 DEF AtStep
<1>4. /\ AtStep("wait")' = [AtStep("wait") EXCEPT ![c] = [op |-> "none"]]
      /\ AtStep("call")' = [AtStep("call") EXCEPT ![c] = ask[c]]
  BY <1>1 DEF Call, AtStep, IInv, TypeOK
<1>5. UNCHANGED left
  BY DEF Call
<1>6. QED
  BY <1>2, <1>3, <1>4, <1>5 DEF AsGrant!Begin

\* Every step is a step of the grant, or none.
LEMMA StepImplements ==
    IInv /\ [ProxyStep \/ Tick]_proxyVars => [AsGrant!Next]_(AsGrant!vars)
<1> SUFFICES ASSUME IInv, [ProxyStep \/ Tick]_proxyVars
             PROVE [AsGrant!Next]_(AsGrant!vars)
  OBVIOUS
<1>1. ASSUME NEW c \in Conn, Pass(c) \/ Call(c) PROVE AsGrant!Next
  BY <1>1, GuardPermits, CallBegins DEF AsGrant!Next
<1>2. ASSUME NEW c \in Conn, UpstreamAnswers(c) \/ CallFails(c)
      PROVE  AsGrant!Next
  <2>1. c \in InFlight /\ UNCHANGED <<left, ask>> /\ pc' = [pc EXCEPT ![c] = "reply"]
    BY <1>2 DEF UpstreamAnswers, CallFails
  <2>2. pc \in [Conn -> {"none", "queued", "ready", "asked", "wait", "call", "reply"}]
    BY DEF IInv, TypeOK
  <2>3. {c} \in SUBSET InFlight /\ pc'[c] = "reply"
    BY <2>1, <2>2
  <2>4. \A d \in Conn \ {c} : Stays(d)
    BY <2>1, <2>2 DEF Stays
  <2>5. QED
    BY <2>1, <2>3, <2>4, GrantEndsFor
<1>3. ASSUME NEW c \in Conn,
             \/ Connect(c) \/ RefusePeer(c) \/ Ask(c) \/ HangUp(c) \/ Reply(c)
             \/ Accept(c) \/ Refuse(c)
      PROVE  UNCHANGED AsGrant!vars
  <2>1. UNCHANGED left /\ c \notin InFlight
    BY <1>3 DEF Connect, RefusePeer, Ask, HangUp, Reply, Accept, Refuse
  <2>2. \E s \in {"none", "queued", "ready", "asked", "reply"} : pc' = [pc EXCEPT ![c] = s]
    BY <1>3 DEF Connect, RefusePeer, Ask, HangUp, Reply, Accept, Refuse
  <2>3. \E r : ask' = [ask EXCEPT ![c] = r] \/ ask' = ask
    BY <1>3 DEF Connect, RefusePeer, Ask, HangUp, Reply, Accept, Refuse
  <2>4. \A e \in Conn : Stays(e)
    BY <2>1, <2>2, <2>3 DEF Stays, IInv, TypeOK
  <2>5. QED
    BY <2>1, <2>4, GrantKept
<1>4. CASE AcceptFails \/ UpstreamHangs \/ UpstreamCloses \/ UNCHANGED proxyVars
  BY <1>4, GrantKept DEF Stays, AcceptFails, UpstreamHangs, UpstreamCloses, proxyVars
<1>5. CASE Tick
  <2>1. AtStep("wait")' = AtStep("wait") /\ AtStep("call")' = AtStep("call")
    BY <1>5 DEF Tick, AtStep
  <2>2. CASE left' = 0
    <3>1. left # 0
      BY <1>5 DEF Tick, IInv, TypeOK
    <3>2. (left' = 0) = TRUE
      BY <2>2
    <3>3. AsGrant!Lapse
      BY <2>1, <3>1, <3>2, Zenon DEF AsGrant!Lapse
    <3>4. QED
      BY <3>3 DEF AsGrant!Next
  <2>3. CASE left' # 0
    <3>1. left # 0
      BY <1>5 DEF Tick, IInv, TypeOK
    <3>2. (left' = 0) = (left = 0)
      BY <2>3, <3>1
    <3>3. QED
      BY <2>1, <3>2, Zenon DEF AsGrant!vars
  <2>4. QED
    BY <2>2, <2>3
<1>6. QED
  BY <1>1, <1>2, <1>3, <1>4, <1>5 DEF ProxyStep, Goroutine

-----------------------------------------------------------------------------
(***************************************************************************)
(* The command: the proxy's invariant holds through all of it.             *)
(***************************************************************************)
NoClients == \A c \in Conn : pc[c] = "none"

\* What has been read, and what the command's environment gets.
Progress ==
    /\ phase \in {"read", "resolve", "listen", "chmod", "failed"} => ~injected
    /\ phase \in {"resolve", "listen", "chmod"} => withKeys
    /\ phase \in {"start", "wait", "cleanup", "hangup", "remove", "over", "exited"}
           => (withKeys <=> injected)
    /\ phase \notin {"read", "failed", "killed"} => todo = 0
    /\ child # "none" => /\ todo = 0 /\ (withKeys <=> injected)
                         /\ phase \in {"wait", "cleanup", "hangup", "remove",
                                       "over", "exited", "killed"}

\* What is open, step by step.
Resources ==
    /\ phase \in {"read", "resolve", "listen"} => listener = "none" /\ ~file /\ NoClients
    /\ phase = "read" => upstream = "closed"
    /\ phase = "chmod" => /\ listener = "bound" /\ file
                          /\ \A c \in Conn : pc[c] \in {"none", "queued"}
    /\ phase \in {"start", "wait", "cleanup"} =>
           IF injected THEN listener \in {"served", "deserted"} /\ file
           ELSE listener = "none" /\ ~file /\ upstream = "closed" /\ NoClients
    /\ phase \in {"hangup", "remove", "over"} =>
           ~file /\ listener = IF injected THEN "closed" ELSE "none"
    /\ phase \in {"remove", "over"} => upstream = "closed"

RunInv == RunTypeOK /\ IInv /\ Progress /\ Resources /\ NothingLeft

LEMMA RunInvInit == RunInit => RunInv
<1> SUFFICES ASSUME RunInit PROVE RunInv
  OBVIOUS
<1> USE DEF RunInit, ProxyInit
<1>1. IInv
  <2>1. TypeOK
    BY Values, TTLAssumption DEF TypeOK
  <2>2. \A c \in Conn : pc[c] = "none"
    OBVIOUS
  <2>3. Permitted /\ OneCall /\ OnlyAllowed
    BY <2>2 DEF Permitted, OneCall, OnlyAllowed
  <2>4. QED
    BY <2>1, <2>3 DEF IInv
<1>2. RunTypeOK
  BY <1>1, MaxItemsAssumption DEF RunTypeOK, IInv
<1>3. Progress /\ Resources /\ NothingLeft
  BY DEF Progress, Resources, NothingLeft, NoClients
<1>4. QED
  BY <1>1, <1>2, <1>3 DEF RunInv

\* A step of run itself: it ends requests, and neither asks nor answers any.
RunStep == Prepare \/ ChildEnds \/ Cleanup \/ Killed

LEMMA RunStepFrame ==
    ASSUME RunStep
    PROVE  /\ UNCHANGED left
           /\ \/ (UNCHANGED pc \/ ResetQueued) /\ UNCHANGED <<ask, answer>>
              \/ /\ pc' = [c \in Conn |-> "none"]
                 /\ ask' = [c \in Conn |-> NoRequest]
                 /\ answer' = [c \in Conn |-> Failure]
           /\ upstream' \in {upstream, "open", "closed"}
           /\ listener' \in {listener, "none", "bound", "served", "closed"}
<1> USE DEF proxyVars, EndOfProcess
<1>1. CASE Prepare
  BY <1>1 DEF Prepare, ReadItem, ReadFails, NoKeys, DialAgent, Resolve, ResolveFails,
     Listen, ListenFails, Chmod, ChmodFails, Start, StartFails
<1>2. CASE ChildEnds
  BY <1>2 DEF ChildEnds
<1>3. CASE Cleanup
  BY <1>3 DEF Cleanup, ChildReaped, CloseListener, CloseUpstream, RemoveFile, Exit
<1>4. CASE Killed
  BY <1>4 DEF Killed
<1>5. QED
  BY <1>1, <1>2, <1>3, <1>4 DEF RunStep

\* The proxy's invariant holds in whatever state run's steps put it.
LEMMA ProxyKept == IInv /\ [RunNext]_vars => IInv'
<1> SUFFICES ASSUME IInv, [RunNext]_vars PROVE IInv'
  OBVIOUS
<1>1. CASE RunStep
  <2>1. pc' \in [Conn -> {"none", "queued", "ready", "asked", "wait", "call", "reply"}]
    BY <1>1, RunStepFrame DEF ResetQueued, IInv, TypeOK
  <2>2. \A c \in Conn : pc'[c] \in {"wait", "call", "reply"} =>
            pc'[c] = pc[c] /\ ask'[c] = ask[c] /\ answer'[c] = answer[c]
    BY <1>1, RunStepFrame DEF ResetQueued, IInv, TypeOK
  <2>3. ask' \in [Conn -> Request] /\ answer' \in [Conn -> Answers]
    BY <1>1, RunStepFrame, Values DEF IInv, TypeOK
  <2>4. TypeOK'
    BY <1>1, <2>1, <2>3, RunStepFrame DEF IInv, TypeOK
  <2>5. Permitted' /\ OneCall'
    BY <2>2 DEF IInv, Permitted, OneCall
  <2>6. OnlyAllowed'
    BY <2>2 DEF IInv, OnlyAllowed
  <2>7. QED
    BY <2>4, <2>5, <2>6 DEF IInv
<1>2. CASE ProxyStep \/ Tick
  BY <1>2, InvStep
<1>3. CASE UNCHANGED vars
  BY <1>3, InvStep DEF vars, proxyVars
<1>4. QED
  BY <1>1, <1>2, <1>3 DEF RunNext, RunStep, Beside, Deadline

-----------------------------------------------------------------------------
(***************************************************************************)
(* run's own steps.                                                        *)
(***************************************************************************)
LEMMA PrepareKeeps ==
    ASSUME RunInv, Prepare
    PROVE  (RunTypeOK /\ Progress /\ Resources /\ NothingLeft)'
<1> USE DEF RunInv, RunTypeOK, Progress, Resources, NothingLeft, NoClients, To,
        Ended, proxyVars
<1>0. TypeOK'
  BY ProxyKept DEF RunNext, IInv
<1>1. CASE ReadItem
  BY <1>0, <1>1, MaxItemsAssumption DEF ReadItem
<1>2. CASE ReadFails
  BY <1>0, <1>2 DEF ReadFails
<1>3. CASE NoKeys
  BY <1>0, <1>3 DEF NoKeys
<1>4. CASE DialAgent
  BY <1>0, <1>4 DEF DialAgent
<1>5. CASE Resolve
  BY <1>0, <1>5 DEF Resolve
<1>6. CASE ResolveFails
  BY <1>0, <1>6 DEF ResolveFails
<1>7. CASE Listen
  BY <1>0, <1>7 DEF Listen
<1>8. CASE ListenFails
  BY <1>0, <1>8 DEF ListenFails
<1>9. CASE Chmod
  BY <1>0, <1>9 DEF Chmod
<1>10. CASE ChmodFails
  BY <1>0, <1>10 DEF ChmodFails, ResetQueued
<1>11. CASE Start
  BY <1>0, <1>11 DEF Start
<1>12. CASE StartFails
  BY <1>0, <1>12 DEF StartFails
<1>13. QED
  BY <1>1, <1>2, <1>3, <1>4, <1>5, <1>6, <1>7, <1>8, <1>9, <1>10, <1>11, <1>12
     DEF Prepare

LEMMA EndKeeps ==
    ASSUME RunInv, ChildEnds \/ Cleanup \/ Killed
    PROVE  (RunTypeOK /\ Progress /\ Resources /\ NothingLeft)'
<1> USE DEF RunInv, RunTypeOK, Progress, Resources, NothingLeft, NoClients, To,
        Ended, proxyVars
<1>0. TypeOK'
  BY ProxyKept DEF RunNext, IInv
<1>1. CASE ChildEnds
  BY <1>0, <1>1 DEF ChildEnds
<1>2. CASE ChildReaped
  BY <1>0, <1>2 DEF ChildReaped
<1>3. CASE CloseListener
  BY <1>0, <1>3 DEF CloseListener, ResetQueued
<1>4. CASE CloseUpstream
  BY <1>0, <1>4 DEF CloseUpstream
<1>5. CASE RemoveFile
  BY <1>0, <1>5 DEF RemoveFile
<1>6. CASE Exit
  BY <1>0, <1>6 DEF Exit, EndOfProcess
<1>7. CASE Killed
  BY <1>0, <1>7 DEF Killed, EndOfProcess
<1>8. QED
  BY <1>1, <1>2, <1>3, <1>4, <1>5, <1>6, <1>7 DEF Cleanup

-----------------------------------------------------------------------------
(***************************************************************************)
(* The proxy's steps, beside run's.                                        *)
(***************************************************************************)
\* Without a listener nobody comes; before Serve nobody is let in.
LEMMA ProxyStepFrame ==
    ASSUME TypeOK, ProxyStep \/ Tick
    PROVE  /\ listener' = listener \/ (listener = "served" /\ listener' = "deserted")
           /\ upstream = "closed" => upstream' = "closed"
           /\ \A c \in Conn :
                 /\ pc[c] = "none" /\ pc'[c] # "none" =>
                        /\ listener \in {"bound", "served", "deserted"}
                        /\ pc'[c] = "queued"
                 /\ pc[c] = "queued" /\ pc'[c] # "queued" => listener = "served"
<1> USE DEF TypeOK
<1>1. ASSUME NEW c \in Conn,
             \/ Connect(c) \/ RefusePeer(c) \/ Ask(c) \/ HangUp(c) \/ Reply(c)
             \/ Goroutine(c) \/ Call(c) \/ UpstreamAnswers(c)
      PROVE  /\ UNCHANGED <<listener, upstream>>
             /\ \A e \in Conn :
                   /\ pc[e] = "none" /\ pc'[e] # "none" =>
                          /\ listener \in {"bound", "served", "deserted"}
                          /\ pc'[e] = "queued"
                   /\ pc[e] = "queued" /\ pc'[e] # "queued" => listener = "served"
  <2>1. UNCHANGED <<listener, upstream>>
    BY <1>1 DEF Connect, RefusePeer, Ask, HangUp, Reply, Goroutine, Accept, Pass,
       Refuse, CallFails, Call, UpstreamAnswers
  <2>2. \/ pc[c] = "none" /\ listener \in {"bound", "served", "deserted"}
           /\ pc' = [pc EXCEPT ![c] = "queued"]
        \/ pc[c] = "queued" /\ listener = "served"
        \/ pc[c] \notin {"none", "queued"}
    BY <1>1 DEF Connect, RefusePeer, Ask, HangUp, Reply, Goroutine, Accept, Pass,
       Refuse, CallFails, Call, UpstreamAnswers
  <2>3. \E s : pc' = [pc EXCEPT ![c] = s]
    BY <1>1 DEF Connect, RefusePeer, Ask, HangUp, Reply, Goroutine, Accept, Pass,
       Refuse, CallFails, Call, UpstreamAnswers
  <2>4. \A e \in Conn \ {c} : pc'[e] = pc[e]
    BY <2>3
  <2>5. QED
    BY <2>1, <2>2, <2>4
<1>2. CASE AcceptFails \/ UpstreamHangs \/ UpstreamCloses \/ Tick
  BY <1>2 DEF AcceptFails, UpstreamHangs, UpstreamCloses, Tick
<1>3. QED
  BY <1>1, <1>2 DEF ProxyStep

LEMMA ProxyStepKeeps ==
    ASSUME RunInv, (Alive /\ ProxyStep) \/ Deadline, UNCHANGED runVars
    PROVE  (RunTypeOK /\ Progress /\ Resources /\ NothingLeft)'
<1>1. TypeOK'
  BY ProxyKept DEF RunNext, Beside, RunInv, IInv
<1>2. TypeOK /\ UNCHANGED <<phase, todo, withKeys, injected, child, file>>
  BY DEF RunInv, IInv, runVars
<1>3. RunTypeOK' /\ Progress'
  BY <1>1, <1>2 DEF RunInv, RunTypeOK, Progress
<1>4. CASE Alive /\ ProxyStep
  <2>1. phase \notin {"failed", "exited", "killed"}
    BY <1>4 DEF Alive, Ended
  <2>2. Resources'
    <3>1. /\ listener' = listener \/ (listener = "served" /\ listener' = "deserted")
          /\ upstream = "closed" => upstream' = "closed"
      BY <1>2, <1>4, ProxyStepFrame
    <3>2. listener = "none" /\ NoClients => NoClients'
      BY <1>2, <1>4, ProxyStepFrame DEF NoClients
    <3>3. /\ listener = "bound"
          /\ \A c \in Conn : pc[c] \in {"none", "queued"}
          => \A c \in Conn : pc'[c] \in {"none", "queued"}
      BY <1>2, <1>4, ProxyStepFrame
    <3>4. QED
      BY <1>2, <3>1, <3>2, <3>3 DEF RunInv, Resources
  <2>3. NothingLeft'
    BY <1>2, <2>1 DEF NothingLeft
  <2>4. QED
    BY <1>3, <2>2, <2>3
<1>5. CASE Deadline
  <2>1. UNCHANGED <<listener, upstream, pc>>
    BY <1>5 DEF Deadline, Tick
  <2>2. Resources' /\ NothingLeft'
    BY <1>2, <2>1 DEF RunInv, Resources, NothingLeft, NoClients
  <2>3. QED
    BY <1>3, <2>2
<1>6. QED
  BY <1>4, <1>5

-----------------------------------------------------------------------------
\* The invariant is inductive.
LEMMA RunInvStep == RunInv /\ [RunNext]_vars => RunInv'
<1> SUFFICES ASSUME RunInv, [RunNext]_vars PROVE RunInv'
  OBVIOUS
<1>1. IInv'
  BY ProxyKept DEF RunInv
<1>2. CASE Prepare
  BY <1>1, <1>2, PrepareKeeps DEF RunInv
<1>3. CASE ChildEnds \/ Cleanup \/ Killed
  BY <1>1, <1>3, EndKeeps DEF RunInv
<1>4. CASE ((Alive /\ ProxyStep) \/ Deadline) /\ UNCHANGED runVars
  BY <1>1, <1>4, ProxyStepKeeps DEF RunInv
<1>5. CASE UNCHANGED vars
  BY <1>5, <1>1 DEF vars, runVars, proxyVars, RunInv, IInv, RunTypeOK, Progress, Resources,
     NothingLeft, NoClients
<1>6. QED
  BY <1>2, <1>3, <1>4, <1>5 DEF RunNext, Beside

LEMMA RunInvariance == RunSpec => []RunInv
BY RunInvInit, RunInvStep, PTL DEF RunSpec

\* Every state of run is well typed.
THEOREM RunTypeCorrect == RunSpec => []RunTypeOK
BY RunInvariance, PTL DEF RunInv

\* The command runs with every item and, if there are keys, with the proxy's socket,
\* which is there and takes connections until the command is over; or it does not
\* run.  Whether the socket is served rests on no Accept having failed.
THEOREM RunsWithEverything == RunSpec => []AllOrNothing
<1>1. RunInv => AllOrNothing
  BY DEF RunInv, Progress, Resources, AllOrNothing
<1>2. QED
  BY <1>1, RunInvariance, PTL

\* At whatever step something fails, run leaves neither a socket nor a client
\* nor the connection to the upstream agent.
THEOREM LeavesNothing == RunSpec => []NothingLeft
BY RunInvariance, PTL DEF RunInv

\* Whoever asks, at whatever point of run, sees and gets signatures of allow-listed
\* keys only, and the answer to its own request: at the end of run the answers on
\* their way are lost, not confused.
THEOREM RunShowsOnlyAllowed == RunSpec => []OnlyAllowed
BY RunInvariance, PTL DEF RunInv, IInv

-----------------------------------------------------------------------------
(***************************************************************************)
(* run as a whole keeps the grant: the deadline set by NewProxy is never   *)
(* set back, and the end of the process only ends uses.                    *)
(***************************************************************************)
\* A step of run itself ends the uses and permits there are, all of them or none.
LEMMA RunStepImplements ==
    ASSUME IInv, RunStep
    PROVE  AsGrant!Next \/ UNCHANGED AsGrant!vars
<1>1. UNCHANGED left
  BY RunStepFrame
<1>2. CASE (UNCHANGED pc \/ ResetQueued) /\ UNCHANGED ask
  BY <1>1, <1>2, GrantKept DEF Stays, ResetQueued, IInv, TypeOK
<1>3. CASE pc' = [c \in Conn |-> "none"] /\ InFlight # {}
  BY <1>1, <1>3, GrantEndsFor DEF Stays
<1>4. CASE pc' = [c \in Conn |-> "none"] /\ InFlight = {}
  BY <1>1, <1>4, GrantKept DEF Stays
<1>5. QED
  BY <1>2, <1>3, <1>4, RunStepFrame

\* Whatever run does and in whatever order everything happens, the upstream agent is
\* used for one permitted request at a time, for each once, and past the deadline or
\* for another key nothing is permitted.  What begins late was permitted before.
THEOREM RunKeepsTheGrant == RunSpec => Implements
<1>1. RunInit => AsGrant!Init
  BY DEF RunInit, ProxyInit, AsGrant!Init, AtStep
<1>2. IInv /\ [RunNext]_vars => [AsGrant!Next]_(AsGrant!vars)
  <2> SUFFICES ASSUME IInv, [RunNext]_vars PROVE [AsGrant!Next]_(AsGrant!vars)
    OBVIOUS
  <2>1. CASE RunStep
    BY <2>1, RunStepImplements
  <2>2. CASE ProxyStep \/ Tick \/ UNCHANGED proxyVars
    BY <2>2, StepImplements
  <2>3. QED
    BY <2>1, <2>2 DEF RunNext, RunStep, Beside, Deadline, vars
<1>3. QED
  BY <1>1, <1>2, RunInvariance, PTL DEF RunSpec, RunInv, Implements, AsGrant!Spec
=============================================================================
