-------------------------- MODULE LifecycleProofs ---------------------------
(***************************************************************************)
(* Proofs about Lifecycle, for every number of clients and processes, with *)
(* any number of spawns, crashes and unlinked sockets.                     *)
(***************************************************************************)
EXTENDS Lifecycle, TLAPS

USE DEF Go, Advance, Listening, Reachable, Refused

\* A client is connected to the holder of the flock, which listens.
Sessions == \A c \in Client : peer[c] # NoProc =>
                /\ peer[c] = lockHolder
                /\ proc[peer[c]] \in Listening

IInv == TypeOK /\ OneDaemonHoldsSocket /\ Sessions

\* The initial state satisfies the invariant.
LEMMA InvInit == Init => IInv
BY ProcAssumption DEF Init, IInv, TypeOK, OneDaemonHoldsSocket, Sessions

\* The end of a process, whichever it is and whyever it ends, keeps it.
LEMMA InvEnd ==
    ASSUME IInv, NEW d \in Proc, EndProcess(d)
    PROVE  IInv'
<1> USE ProcAssumption DEF IInv, TypeOK, OneDaemonHoldsSocket, Sessions, EndProcess
<1>1. TypeOK'
  OBVIOUS
<1>2. OneDaemonHoldsSocket'
  <2>1. ASSUME NEW e \in Proc, proc'[e] \notin {"off", "started"}
        PROVE  lockHolder' = e
    BY <2>1
  <2>2. path' \in Proc => /\ path' = lockHolder'
                          /\ proc'[path'] \in {"bound", "listening", "serving"}
    OBVIOUS
  <2>3. ASSUME NEW e \in Proc, proc'[e] = "cleared" PROVE path' = Absent
    BY <2>3
  <2>4. ASSUME NEW e \in Proc, proc'[e] \in {"bound", "listening", "serving"}
        PROVE  path' \in {e, Absent}
    BY <2>4
  <2>5. QED
    BY <2>1, <2>2, <2>3, <2>4
<1>3. Sessions'
  OBVIOUS
<1>4. QED
  BY <1>1, <1>2, <1>3

\* A client's step keeps it: the only shared state it changes is the path,
\* which it can but make absent, and a process slot it starts.
LEMMA InvClient ==
    ASSUME IInv, NEW c \in Client,
           Invoke(c) \/ DialStep(c) \/ PollTimeout(c) \/ Done(c)
    PROVE  IInv'
<1> USE ProcAssumption DEF IInv, TypeOK, OneDaemonHoldsSocket, Sessions
<1>1. CASE Invoke(c)
  BY <1>1 DEF Invoke
<1>2. CASE Connect(c)
  BY <1>2 DEF Connect
<1>3. CASE GiveUp(c)
  BY <1>3 DEF GiveUp
<1>4. CASE DialRefused(c)
  BY <1>4 DEF DialRefused
<1>5. CASE DialAbsent(c)
  BY <1>5 DEF DialAbsent
<1>6. CASE Remove(c)
  BY <1>6 DEF Remove
<1>7. CASE Spawn(c)
  BY <1>7 DEF Spawn
<1>8. CASE SpawnFails(c)
  BY <1>8 DEF SpawnFails
<1>9. CASE PollTimeout(c)
  BY <1>9 DEF PollTimeout
<1>10. CASE Done(c)
  BY <1>10 DEF Done
<1>11. QED
  BY <1>1, <1>2, <1>3, <1>4, <1>5, <1>6, <1>7, <1>8, <1>9, <1>10 DEF DialStep

\* A daemon's step keeps it.
LEMMA InvDaemon ==
    ASSUME IInv, NEW d \in Proc, Startup(d) \/ StopServing(d) \/ Crash(d)
    PROVE  IInv'
<1> USE ProcAssumption DEF IInv, TypeOK, OneDaemonHoldsSocket, Sessions
<1>1. CASE Flock(d)
  BY <1>1 DEF Flock
<1>2. CASE ClearPath(d)
  BY <1>2 DEF ClearPath
<1>3. CASE Bind(d)
  <2>1. /\ lockHolder = d /\ lockHolder' = d /\ path' = d
        /\ proc' = [proc EXCEPT ![d] = "bound"]
    BY <1>3 DEF Bind
  <2>2. TypeOK'
    BY <1>3, <2>1 DEF Bind
  <2>3. OneDaemonHoldsSocket'
    <3>1. \A e \in Proc \ {d} : proc'[e] = proc[e] /\ proc[e] \in {"off", "started"}
      BY <2>1
    <3>2. proc'[d] = "bound"
      BY <2>1
    <3>3. \A e \in Proc : proc'[e] \notin {"off", "started"} => e = d
      BY <3>1
    <3>4. \A e \in Proc : proc'[e] # "cleared"
      BY <3>1, <3>2
    <3>5. QED
      BY <2>1, <3>2, <3>3, <3>4
  <2>4. Sessions'
    BY <1>3, <2>1 DEF Bind
  <2>5. QED
    BY <2>2, <2>3, <2>4
<1>4. CASE Listen(d)
  BY <1>4 DEF Listen
<1>5. CASE Chmod(d)
  BY <1>5 DEF Chmod
<1>6. CASE EndProcess(d)
  BY <1>6, InvEnd
<1>7. QED
  BY <1>1, <1>2, <1>3, <1>4, <1>5, <1>6
     DEF Startup, FlockFails, ChmodFails, StopServing, Crash

\* The invariant is inductive.
LEMMA InvStep == IInv /\ [Next]_vars => IInv'
<1> SUFFICES ASSUME IInv, [Next]_vars PROVE IInv'
  OBVIOUS
<1>1. CASE UNCHANGED vars
  BY <1>1 DEF vars, IInv, TypeOK, OneDaemonHoldsSocket, Sessions
<1>2. QED
  BY <1>1, InvClient, InvDaemon DEF Next

LEMMA Invariance == Spec => []IInv
BY InvInit, InvStep, PTL DEF Spec

-----------------------------------------------------------------------------
\* Every state of any number of clients and daemons is well typed.
THEOREM TypeCorrect == Spec => []TypeOK
BY Invariance, PTL DEF IInv

\* One daemon past the lock, and the socket at the path is its own: under any
\* crashes, and clients unlinking the path at any time.
THEOREM SocketIsHolders == Spec => []OneDaemonHoldsSocket
BY Invariance, PTL DEF IInv

\* No two clients ever use two daemons.
THEOREM NeverTwoCaches == Spec => []OneCache
<1>1. IInv => OneCache
  BY DEF IInv, Sessions, OneCache
<1>2. QED
  BY <1>1, Invariance, PTL

-----------------------------------------------------------------------------
(***************************************************************************)
(* Lifecycle implements OneDaemon.                                         *)
(***************************************************************************)
\* The end of a process is the end of the daemon or, if it had no flock,
\* nothing.
LEMMA EndImplements ==
    ASSUME IInv, NEW d \in Proc, EndProcess(d)
    PROVE  Service!End \/ UNCHANGED Service!vars
<1> USE DEF IInv, TypeOK, Sessions, EndProcess
<1>1. CASE lockHolder = d
  BY <1>1, ProcAssumption DEF Service!End
<1>2. CASE lockHolder # d
  BY <1>2, ProcAssumption DEF Service!vars
<1>3. QED
  BY <1>1, <1>2

\* Every step is a step of the one daemon, or none.
LEMMA StepImplements == IInv /\ [Next]_vars => [Service!Next]_(Service!vars)
<1> SUFFICES ASSUME IInv, [Next]_vars PROVE [Service!Next]_(Service!vars)
  OBVIOUS
<1>1. ASSUME NEW c \in Client, Connect(c) PROVE Service!Open(c)
  BY <1>1, ProcAssumption DEF Connect, IInv, TypeOK, OneDaemonHoldsSocket,
     Service!Open
<1>2. ASSUME NEW c \in Client, Done(c) PROVE Service!Close(c)
  BY <1>2 DEF Done, IInv, TypeOK, Service!Close
<1>3. ASSUME NEW d \in Proc, Flock(d) PROVE Service!Begin(d)
  BY <1>3 DEF Flock, Service!Begin
<1>4. ASSUME NEW d \in Proc, EndProcess(d)
      PROVE  Service!End \/ UNCHANGED Service!vars
  BY <1>4, EndImplements
<1>5. CASE UNCHANGED <<lockHolder, peer>>
  BY <1>5 DEF Service!vars
<1>6. QED
  BY <1>1, <1>2, <1>3, <1>4, <1>5
     DEF Service!Next, Next, vars, DialStep, Startup, Invoke, GiveUp, DialRefused,
         DialAbsent, Remove, Spawn, SpawnFails, PollTimeout, FlockFails,
         ClearPath, Bind, Listen, Chmod, ChmodFails, StopServing, Crash

\* All processes and clients together behave as one daemon that comes and
\* goes, whose successor finds no session of its own.
THEOREM BehavesAsOne == Spec => Implements
<1>1. Init => Service!Init
  BY DEF Init, Service!Init
<1>2. QED
  BY <1>1, StepImplements, Invariance, PTL
     DEF Spec, Implements, Service!Spec

-----------------------------------------------------------------------------
(***************************************************************************)
(* Recovery.  Where no start takes two seconds and only one client spawns, *)
(* its unlink meets no daemon's socket, whatever the others do and however *)
(* often the daemon ends: between a dial that fails and the spawn there is *)
(* no process at all, and from then on until it serves there is one, which *)
(* nobody else starts, stops or unlinks.  With a second spawner the run    *)
(* life_race shows the contrary.                                           *)
(***************************************************************************)
OneSpawner == Healthy /\ \A c, e \in Spawner : c = e

Coming == {"started", "locked", "cleared", "bound"}

Waiting == {"remove", "spawn", "poll"}

\* One process at a time; a socket once bound is at the path.
OneProcess ==
    /\ \A d, e \in Proc : proc[d] # "off" /\ proc[e] # "off" => d = e
    /\ lockHolder \in Proc => proc[lockHolder] \notin {"off", "started"}
    /\ \A d \in Proc : proc[d] \in {"bound", "listening", "serving"} => path = d

\* What the spawner does while a process comes up, and the other way round.
Attended ==
    /\ \A c \in Client \ Spawner : cl[c] \notin Waiting
    /\ \A c \in Spawner :
          /\ cl[c] \in {"remove", "spawn"} => \A d \in Proc : proc[d] = "off"
          /\ cl[c] = "poll" => \E d \in Proc : proc[d] # "off"
    /\ \A d \in Proc :
          /\ proc[d] \in Coming => \E c \in Spawner : cl[c] = "poll"
          /\ proc[d] = "listening" => \E c \in Spawner : cl[c] \in {"poll", "connected"}

RInv == OneProcess /\ Attended /\ RecoveryReliable

LEMMA RInvInit == Init => RInv
BY ClientsAssumption, ProcAssumption
   DEF Init, RInv, OneProcess, Attended, RecoveryReliable, Coming, Waiting

\* Only a process that serves ends, and nobody waits for it.
LEMMA EndKeepsR ==
    ASSUME IInv, RInv, NEW d \in Proc, EndProcess(d), proc[d] = "serving", NobodyWaits
    PROVE  RInv'
<1> USE ClientsAssumption, ProcAssumption DEF TypeOK
<1>1. /\ proc' = [proc EXCEPT ![d] = "off"] /\ TypeOK /\ path = d
      /\ \A e \in Proc : proc[e] # "off" => e = d
  BY DEF IInv, EndProcess, RInv, OneProcess
<1>2. \A e \in Proc : proc'[e] = "off"
  BY <1>1
<1>3. \A c \in Client : cl'[c] \in {cl[c], "lost"}
  BY DEF EndProcess
<1>4. OneProcess'
  <2>1. lockHolder' \notin Proc
    BY <1>1 DEF EndProcess, RInv, OneProcess, IInv, OneDaemonHoldsSocket
  <2>2. QED
    BY <1>2, <2>1 DEF OneProcess
<1>5. Attended'
  <2>1. \A c \in Client : cl'[c] \notin Waiting
    BY <1>3 DEF NobodyWaits, Waiting
  <2>2. QED
    BY <1>2, <2>1 DEF Attended, Coming, Waiting
<1>6. RecoveryReliable'
  BY <1>3 DEF RInv, RecoveryReliable
<1>7. QED
  BY <1>4, <1>5, <1>6 DEF RInv

LEMMA ClientKeepsR ==
    ASSUME OneSpawner, IInv, RInv, NEW c \in Client,
           Invoke(c) \/ DialStep(c) \/ PollTimeout(c) \/ Done(c)
    PROVE  RInv'
<1> USE ClientsAssumption, ProcAssumption
    DEF OneSpawner, IInv, TypeOK, RInv, OneProcess, Attended, RecoveryReliable,
        Coming, Waiting
<1>1. CASE Invoke(c)
  BY <1>1 DEF Invoke
<1>2. CASE Connect(c)
  BY <1>2 DEF Connect
<1>3. CASE GiveUp(c)
  BY <1>3 DEF GiveUp
<1>4. CASE DialRefused(c)
  BY <1>4 DEF DialRefused
<1>5. CASE DialAbsent(c)
  BY <1>5 DEF DialAbsent
<1>6. CASE Remove(c)
  BY <1>6 DEF Remove
<1>7. CASE Spawn(c)
  BY <1>7 DEF Spawn
<1>8. CASE SpawnFails(c)
  BY <1>8 DEF SpawnFails
<1>9. CASE PollTimeout(c)
  BY <1>9 DEF PollTimeout
<1>10. CASE Done(c)
  BY <1>10 DEF Done
<1>11. QED
  BY <1>1, <1>2, <1>3, <1>4, <1>5, <1>6, <1>7, <1>8, <1>9, <1>10 DEF DialStep

LEMMA DaemonKeepsR ==
    ASSUME OneSpawner, IInv, RInv, NEW d \in Proc,
           Startup(d) \/ StopServing(d) \/ Crash(d)
    PROVE  RInv'
<1> USE ClientsAssumption, ProcAssumption
    DEF OneSpawner, IInv, TypeOK, RInv, OneProcess, Attended, RecoveryReliable,
        Coming, Waiting
<1>1. CASE Flock(d)
  BY <1>1 DEF Flock
<1>2. ~FlockFails(d)
  BY DEF FlockFails
<1>3. CASE ClearPath(d)
  BY <1>3 DEF ClearPath
<1>4. CASE Bind(d)
  BY <1>4 DEF Bind
<1>5. CASE Listen(d)
  BY <1>5 DEF Listen
<1>6. CASE Chmod(d)
  BY <1>6 DEF Chmod
<1>7. ~ChmodFails(d)
  BY DEF ChmodFails
<1>8. CASE StopServing(d) \/ Crash(d)
  BY <1>8, EndKeepsR DEF StopServing, Crash
<1>9. QED
  BY <1>1, <1>2, <1>3, <1>4, <1>5, <1>6, <1>7, <1>8 DEF Startup

LEMMA RInvStep == ASSUME OneSpawner PROVE IInv /\ RInv /\ [Next]_vars => RInv'
<1> SUFFICES ASSUME IInv, RInv, [Next]_vars PROVE RInv'
  OBVIOUS
<1>1. CASE UNCHANGED vars
  BY <1>1 DEF vars, RInv, OneProcess, Attended, RecoveryReliable
<1>2. QED
  BY <1>1, ClientKeepsR, DaemonKeepsR DEF Next

LEMMA Recovery == ASSUME OneSpawner PROVE Spec => []RInv
BY RInvInit, RInvStep, Invariance, PTL DEF Spec

\* A client that spawned never ends with "did not become reachable", after
\* any number of ends of the daemon and from any file at the path.
THEOREM RecoversAlone == ASSUME OneSpawner PROVE Spec => []RecoveryReliable
BY Recovery, PTL DEF RInv

\* Nobody unlinks the socket of a daemon that serves.
THEOREM ServesReachably == ASSUME OneSpawner PROVE Spec => []LiveDaemonReachable
<1>1. RInv => LiveDaemonReachable
  BY DEF RInv, OneProcess, LiveDaemonReachable
<1>2. QED
  BY <1>1, Recovery, PTL
=============================================================================
