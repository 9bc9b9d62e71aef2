----------------------------- MODULE Lifecycle ------------------------------
(***************************************************************************)
(* How clients find, spawn and lose the daemon: internal/client/client.go  *)
(* (dial, spawnDaemon, PingSocket) against the startup and the end of      *)
(* cmd/timesharedd/main.go.                                                *)
(*                                                                         *)
(* They share the socket path and the flock on the file beside it.  The    *)
(* path is absent, or a socket file; the file is the socket of a living    *)
(* process or, once that process is gone, a stale one, because neither     *)
(* os.Exit nor a crash removes it.  Dialling a stale file, or a socket     *)
(* that is bound but does not listen yet, is refused.                      *)
(*                                                                         *)
(* A process slot is reused after its process ended, a client slot after   *)
(* its invocation ended.                                                   *)
(***************************************************************************)
EXTENDS Integers, FiniteSets

CONSTANTS
    Client,
    Spawner,    \* clients with a DaemonBinary; the others only look
    Proc,       \* daemon processes that can exist at the same time
    Absent,     \* there is no file at the path
    Stale,      \* the file of a process that is gone
    NoProc,
    Healthy     \* see PollTimeout and Crash

ASSUME ClientsAssumption == Spawner \subseteq Client
ASSUME ProcAssumption    == Proc \cap {Absent, Stale, NoProc} = {} /\ Absent # Stale
ASSUME HealthyAssumption == Healthy \in BOOLEAN

VARIABLES
    cl,         \* where a client's invocation is
    peer,       \* the process a client is connected to
    proc,       \* how far a daemon process has come
    lockHolder, \* who has the flock
    path        \* what is at the socket path

vars == <<cl, peer, proc, lockHolder, path>>

Listening == {"listening", "serving"}

Init == /\ cl = [c \in Client |-> "idle"]
        /\ peer = [c \in Client |-> NoProc]
        /\ proc = [d \in Proc |-> "off"]
        /\ lockHolder = NoProc
        /\ path \in {Absent, Stale}

-----------------------------------------------------------------------------
(***************************************************************************)
(* The clients.                                                            *)
(***************************************************************************)
Reachable == path \in Proc /\ proc[path] \in Listening
Refused   == path # Absent /\ ~Reachable

Go(c, s) == cl' = [cl EXCEPT ![c] = s]

\* A command is run.
Invoke(c) == /\ cl[c] \in {"idle", "unreachable", "lost"}
             /\ Go(c, "dial")
             /\ UNCHANGED <<peer, proc, lockHolder, path>>

Connect(c) == /\ cl[c] \in {"dial", "poll"}
              /\ Reachable
              /\ Go(c, "connected")
              /\ peer' = [peer EXCEPT ![c] = path]
              /\ UNCHANGED <<proc, lockHolder, path>>

\* The first dial of a client that cannot spawn is its last.
GiveUp(c) == /\ cl[c] = "dial" /\ c \notin Spawner
             /\ ~Reachable
             /\ Go(c, "unreachable")
             /\ UNCHANGED <<peer, proc, lockHolder, path>>

DialRefused(c) == /\ cl[c] = "dial" /\ c \in Spawner
                  /\ Refused
                  /\ Go(c, "remove")
                  /\ UNCHANGED <<peer, proc, lockHolder, path>>

\* Mutant: only a refused dial leads to a spawn.
AbsentIsFinal(c) == /\ cl[c] = "dial" /\ c \in Spawner
                    /\ path = Absent
                    /\ Go(c, "unreachable")
                    /\ UNCHANGED <<peer, proc, lockHolder, path>>

DialAbsent(c) == /\ cl[c] = "dial" /\ c \in Spawner
                 /\ path = Absent
                 /\ Go(c, "spawn")
                 /\ UNCHANGED <<peer, proc, lockHolder, path>>

\* Mutant: the path is unlinked before every dial of the poll as well.
RemoveWhilePolling(c) == /\ cl[c] \in {"remove", "poll"}
                         /\ path' = Absent
                         /\ Go(c, IF cl[c] = "remove" THEN "spawn" ELSE "poll")
                         /\ UNCHANGED <<peer, proc, lockHolder>>

\* The path is unlinked, whatever is there by now.
Remove(c) == /\ cl[c] = "remove"
             /\ path' = Absent
             /\ Go(c, "spawn")
             /\ UNCHANGED <<peer, proc, lockHolder>>

Spawn(c) == /\ cl[c] = "spawn"
            /\ \E d \in Proc : /\ proc[d] = "off"
                               /\ proc' = [proc EXCEPT ![d] = "started"]
            /\ Go(c, "poll")
            /\ UNCHANGED <<peer, lockHolder, path>>

\* MkdirAll or Start fails.
SpawnFails(c) == /\ cl[c] = "spawn" /\ ~Healthy
                 /\ Go(c, "unreachable")
                 /\ UNCHANGED <<peer, proc, lockHolder, path>>

\* Mutant: the deadline is looked at after a refused dial only.
TimeoutIfRefused(c) == /\ cl[c] = "poll"
                       /\ Refused
                       /\ Go(c, "unreachable")
                       /\ UNCHANGED <<peer, proc, lockHolder, path>>

\* Two seconds of polling are over.  Where Healthy, nothing else takes that
\* long: by then every spawn under way has led to a daemon or its exit, and a
\* reachable daemon would have been reached.
PollTimeout(c) == /\ cl[c] = "poll"
                  /\ Healthy => /\ ~Reachable
                                /\ \A d \in Proc : proc[d] \in {"off", "serving"}
                                /\ \A e \in Client : cl[e] \notin {"remove", "spawn"}
                  /\ Go(c, "unreachable")
                  /\ UNCHANGED <<peer, proc, lockHolder, path>>

\* Mutant: the connection stays open.
DoneLeavingOpen(c) == /\ cl[c] = "connected"
                      /\ proc[peer[c]] = "serving"
                      /\ Go(c, "idle")
                      /\ UNCHANGED <<peer, proc, lockHolder, path>>

\* The answer is read (see Daemon) and the connection closed.
Done(c) == /\ cl[c] = "connected"
           /\ proc[peer[c]] = "serving"
           /\ Go(c, "idle")
           /\ peer' = [peer EXCEPT ![c] = NoProc]
           /\ UNCHANGED <<proc, lockHolder, path>>

-----------------------------------------------------------------------------
(***************************************************************************)
(* A daemon process.                                                       *)
(***************************************************************************)
Advance(d, s) == proc' = [proc EXCEPT ![d] = s]

\* Mutants: an exit that clients never hear of; a lock that outlives its
\* process, as a file with a process id in it would.
ExitUnheard(d) ==
    /\ Advance(d, "off")
    /\ lockHolder' = IF lockHolder = d THEN NoProc ELSE lockHolder
    /\ path' = IF path = d THEN Stale ELSE path
    /\ UNCHANGED <<cl, peer>>

ExitKeepingLock(d) ==
    /\ Advance(d, "off")
    /\ path' = IF path = d THEN Stale ELSE path
    /\ cl' = [c \in Client |-> IF peer[c] = d THEN "lost" ELSE cl[c]]
    /\ peer' = [c \in Client |-> IF peer[c] = d THEN NoProc ELSE peer[c]]
    /\ UNCHANGED lockHolder

\* The kernel closes its descriptors: the flock is free, its clients read end
\* of file, its socket file, if still there, is stale.
EndProcess(d) ==
    /\ Advance(d, "off")
    /\ lockHolder' = IF lockHolder = d THEN NoProc ELSE lockHolder
    /\ path' = IF path = d THEN Stale ELSE path
    /\ cl' = [c \in Client |-> IF peer[c] = d THEN "lost" ELSE cl[c]]
    /\ peer' = [c \in Client |-> IF peer[c] = d THEN NoProc ELSE peer[c]]

\* Mutant: no lock.
FlockAlways(d) == /\ proc[d] = "started"
                  /\ lockHolder' = d
                  /\ Advance(d, "locked")
                  /\ UNCHANGED <<cl, peer, path>>

Flock(d) == /\ proc[d] = "started"
            /\ lockHolder = NoProc
            /\ lockHolder' = d
            /\ Advance(d, "locked")
            /\ UNCHANGED <<cl, peer, path>>

FlockFails(d) == /\ proc[d] = "started"
                 /\ lockHolder # NoProc
                 /\ EndProcess(d)

\* Mutant: the old socket file is left where it is.
ClearNothing(d) == /\ proc[d] = "locked"
                   /\ Advance(d, "cleared")
                   /\ UNCHANGED <<cl, peer, lockHolder, path>>

ClearPath(d) == /\ proc[d] = "locked"
                /\ path' = Absent
                /\ Advance(d, "cleared")
                /\ UNCHANGED <<cl, peer, lockHolder>>

\* net.Listen is bind and then listen.  Bind finds the path free, as
\* OneDaemonHoldsSocket says: only the holder of the flock binds.
Bind(d) == /\ proc[d] = "cleared"
           /\ path = Absent
           /\ path' = d
           /\ Advance(d, "bound")
           /\ UNCHANGED <<cl, peer, lockHolder>>

Listen(d) == /\ proc[d] = "bound"
             /\ Advance(d, "listening")
             /\ UNCHANGED <<cl, peer, lockHolder, path>>

\* Chmod of the path, and Serve; it is fatal if the path is gone.
Chmod(d) == /\ proc[d] = "listening"
            /\ path # Absent
            /\ Advance(d, "serving")
            /\ UNCHANGED <<cl, peer, lockHolder, path>>

ChmodFails(d) == /\ proc[d] = "listening"
                 /\ path = Absent
                 /\ EndProcess(d)

\* No client is waiting for a daemon to come up.
NobodyWaits == \A c \in Client : cl[c] \notin {"remove", "spawn", "poll"}

\* Serve returned: idle (see ServeLoop) or an accept error.
StopServing(d) == /\ proc[d] = "serving"
                  /\ Healthy => NobodyWaits
                  /\ EndProcess(d)

\* Killed, or out of memory.  Where Healthy, not while it starts nor while
\* a client waits for it.
Crash(d) == /\ proc[d] # "off"
            /\ Healthy => proc[d] = "serving" /\ NobodyWaits
            /\ EndProcess(d)

DialStep(c) == Connect(c) \/ GiveUp(c) \/ DialRefused(c) \/ DialAbsent(c)
                   \/ Remove(c) \/ Spawn(c) \/ SpawnFails(c)
Startup(d)  == Flock(d) \/ FlockFails(d) \/ ClearPath(d) \/ Bind(d)
                   \/ Listen(d) \/ Chmod(d) \/ ChmodFails(d)

Next == \/ \E c \in Client : Invoke(c) \/ DialStep(c) \/ PollTimeout(c) \/ Done(c)
        \/ \E d \in Proc : Startup(d) \/ StopServing(d) \/ Crash(d)

(***************************************************************************)
(* Processes run and deadlines pass.  Nobody has to run a command, and no  *)
(* daemon has to stop or crash.                                            *)
(***************************************************************************)
Fairness == /\ \A c \in Client : WF_vars(DialStep(c)) /\ WF_vars(PollTimeout(c))
            /\ \A d \in Proc : WF_vars(Startup(d))

Spec     == Init /\ [][Next]_vars
FairSpec == Spec /\ Fairness

-----------------------------------------------------------------------------
(***************************************************************************)
(* Properties.                                                             *)
(***************************************************************************)
\* Every variable has its type, and a client has a peer while connected.
TypeOK ==
    /\ cl \in [Client -> {"idle", "dial", "remove", "spawn", "poll",
                          "connected", "unreachable", "lost"}]
    /\ peer \in [Client -> Proc \cup {NoProc}]
    /\ proc \in [Proc -> {"off", "started", "locked", "cleared", "bound",
                          "listening", "serving"}]
    /\ lockHolder \in Proc \cup {NoProc}
    /\ path \in Proc \cup {Absent, Stale}
    /\ \A c \in Client : cl[c] = "connected" <=> peer[c] # NoProc

\* main.go, the lock file: only one daemon ever holds the socket.  Whoever
\* got past the flock holds it, the file at the path is that daemon's own or
\* nobody's, so that its bind meets no file and its chmod no other's, and
\* this under crashes at any point and clients unlinking at any time.
OneDaemonHoldsSocket ==
    /\ \A d \in Proc : proc[d] \notin {"off", "started"} => lockHolder = d
    /\ path \in Proc => /\ path = lockHolder
                        /\ proc[path] \in {"bound", "listening", "serving"}
    /\ \A d \in Proc : proc[d] = "cleared" => path = Absent
    /\ \A d \in Proc : proc[d] \in {"bound", "listening", "serving"}
                           => path \in {d, Absent}

\* Secrets are cached in one place: two clients are never connected to two
\* daemons, even if the socket of one was unlinked under it, and a client's
\* daemon is alive.
OneCache ==
    \A c, e \in Client : peer[c] # NoProc /\ peer[e] # NoProc =>
        peer[c] = peer[e] /\ proc[peer[c]] \in Listening

\* The daemon, for its clients: whoever has the flock.
Service == INSTANCE OneDaemon WITH holder <- lockHolder, session <- peer

\* Start to end, all processes and clients behave like one daemon that comes
\* and goes: no successor before the predecessor and all its sessions ended.
Implements == Service!Spec

\* No command hangs in dial: it ends connected or with an error.
DialEnds == \A c \in Client :
    cl[c] = "dial" ~> cl[c] \in {"connected", "unreachable", "lost"}

\* client.go, dial: unlinking a stale file makes recovery reliable.  A client
\* that spawned does not end with "did not become reachable".
RecoveryReliable == \A c \in Spawner : cl[c] # "unreachable"

\* A serving daemon can be dialled.
LiveDaemonReachable == \A d \in Proc : proc[d] = "serving" => path = d

\* A command ends up connected, whatever the last daemon left behind.
Reconnects == \A c \in Spawner : cl[c] = "dial" ~> cl[c] = "connected"

=============================================================================
