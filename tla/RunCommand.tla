----------------------------- MODULE RunCommand -----------------------------
(***************************************************************************)
(* `timeshare run` (internal/cli/run.go): read every item, start the ssh   *)
(* agent proxy where the configuration has ssh_keys, run the command, and  *)
(* clean up.  The proxy's own steps are AgentProxy's; this module gives it *)
(* its beginning and its end.                                              *)
(***************************************************************************)
EXTENDS AgentProxy

CONSTANT MaxItems   \* the longest list of items

ASSUME MaxItemsAssumption == MaxItems \in Nat

VARIABLES
    phase,      \* where RunE is; "failed" and "exited" are ends of its own,
                \* "killed" is the end by a signal
    todo,       \* items still to be read
    withKeys,   \* the configuration has ssh_keys
    injected,   \* SSH_AUTH_SOCK is in the command's environment
    child,      \* the command: "none", "running" or "over"
    file        \* the proxy's socket file exists

runVars == <<phase, todo, withKeys, injected, child, file>>
vars    == <<proxyVars, runVars>>

Ended == {"failed", "exited", "killed"}

\* Load accepts no configuration that has neither items nor ssh_keys.
RunInit == /\ ProxyInit("none", "closed")
           /\ phase = "read"
           /\ todo \in 0..MaxItems
           /\ withKeys \in BOOLEAN
           /\ todo > 0 \/ withKeys
           /\ injected = FALSE
           /\ child = "none"
           /\ file = FALSE

To(p) == phase' = p

-----------------------------------------------------------------------------
(***************************************************************************)
(* Before the command.                                                     *)
(***************************************************************************)
\* Mutants: an item that cannot be read is left out; one too many is read.
SkipItem == /\ phase = "read" /\ todo > 0
            /\ To("start")
            /\ UNCHANGED <<proxyVars, todo, withKeys, injected, child, file>>

ReadOneMore == /\ phase = "read" /\ todo >= 0
               /\ todo' = todo - 1
               /\ UNCHANGED <<proxyVars, phase, withKeys, injected, child, file>>

ReadItem == /\ phase = "read" /\ todo > 0
            /\ todo' = todo - 1
            /\ UNCHANGED <<proxyVars, phase, withKeys, injected, child, file>>

ReadFails == /\ phase = "read" /\ todo > 0
             /\ To("failed")
             /\ UNCHANGED <<proxyVars, todo, withKeys, injected, child, file>>

NoKeys == /\ phase = "read" /\ todo = 0 /\ ~withKeys
          /\ To("start")
          /\ UNCHANGED <<proxyVars, todo, withKeys, injected, child, file>>

DialAgent == /\ phase = "read" /\ todo = 0 /\ withKeys
             /\ \/ upstream' = "open" /\ To("resolve")
                \/ UNCHANGED upstream /\ To("failed")
             /\ UNCHANGED <<left, listener, pc, ask, answer, todo, withKeys,
                            injected, child, file>>

\* ResolveFingerprints; NewProxy, from where the deadline runs.
Resolve == /\ phase = "resolve"
           /\ To("listen")
           /\ UNCHANGED <<proxyVars, todo, withKeys, injected, child, file>>

\* The upstream connection is closed on the way out of this and the next.
ResolveFails == /\ phase = "resolve"
                /\ upstream' = "closed"
                /\ To("failed")
                /\ UNCHANGED <<left, listener, pc, ask, answer, todo, withKeys,
                               injected, child, file>>

Listen == /\ phase = "listen"
          /\ listener' = "bound"
          /\ file' = TRUE
          /\ To("chmod")
          /\ UNCHANGED <<left, upstream, pc, ask, answer, todo, withKeys,
                         injected, child>>

ListenFails == /\ phase = "listen"
               /\ upstream' = "closed"
               /\ To("failed")
               /\ UNCHANGED <<left, listener, pc, ask, answer, todo, withKeys,
                              injected, child, file>>

\* Clients the listener has not handed to Serve are reset with it.
ResetQueued == pc' = [c \in Conn |-> IF pc[c] = "queued" THEN "none" ELSE pc[c]]

\* Chmod, the Serve goroutine, and SSH_AUTH_SOCK.
Chmod == /\ phase = "chmod"
         /\ listener' = "served"
         /\ injected' = TRUE
         /\ To("start")
         /\ UNCHANGED <<left, upstream, pc, ask, answer, todo, withKeys, child, file>>

ChmodFails == /\ phase = "chmod"
              /\ listener' = "closed"
              /\ ResetQueued
              /\ upstream' = "closed"
              /\ file' = FALSE
              /\ To("failed")
              /\ UNCHANGED <<left, ask, answer, todo, withKeys, injected, child>>

-----------------------------------------------------------------------------
(***************************************************************************)
(* The command, and cleanup.                                               *)
(***************************************************************************)
Start == /\ phase = "start"
         /\ child' = "running"
         /\ To("wait")
         /\ UNCHANGED <<proxyVars, todo, withKeys, injected, file>>

\* The command cannot be run: an error that is not its exit status.
StartFails == /\ phase = "start"
              /\ To("cleanup")
              /\ UNCHANGED <<proxyVars, todo, withKeys, injected, child, file>>

ChildEnds == /\ child = "running"
             /\ child' = "over"
             /\ UNCHANGED <<proxyVars, phase, todo, withKeys, injected, file>>

\* Mutant: os.Exit without the explicit cleanup.
ExitAtOnce == /\ phase = "wait" /\ child = "over"
              /\ phase' \in {"cleanup", "over"}
              /\ UNCHANGED <<proxyVars, todo, withKeys, injected, child, file>>

\* Status zero, where cleanup is deferred, or an exit status, where it is
\* called before os.Exit.
ChildReaped == /\ phase = "wait" /\ child = "over"
               /\ To("cleanup")
               /\ UNCHANGED <<proxyVars, todo, withKeys, injected, child, file>>

\* Mutant: cleanup first waits for its clients to leave.
CloseWhenIdle == /\ phase = "cleanup"
                 /\ \A c \in Conn : pc[c] \in {"none", "queued"}
                 /\ listener' = IF injected THEN "closed" ELSE listener
                 /\ ResetQueued
                 /\ To("hangup")
                 /\ UNCHANGED <<left, upstream, ask, answer, todo, withKeys,
                                injected, child, file>>

\* cleanup does nothing where there is no proxy.  Closing a unix listener
\* unlinks its file.
CloseListener == /\ phase = "cleanup"
                 /\ IF injected THEN listener' = "closed" /\ file' = FALSE
                                ELSE UNCHANGED <<listener, file>>
                 /\ ResetQueued
                 /\ To("hangup")
                 /\ UNCHANGED <<left, upstream, ask, answer, todo, withKeys,
                                injected, child>>

CloseUpstream == /\ phase = "hangup"
                 /\ upstream' = "closed"
                 /\ To("remove")
                 /\ UNCHANGED <<left, listener, pc, ask, answer, todo, withKeys,
                                injected, child, file>>

\* os.Remove finds no file any more, and its error is ignored.
RemoveFile == /\ phase = "remove"
              /\ file' = FALSE
              /\ To("over")
              /\ UNCHANGED <<proxyVars, todo, withKeys, injected, child>>

\* The kernel closes what the process has open; a file stays.
EndOfProcess(p) ==
    /\ To(p)
    /\ listener' = IF listener = "none" THEN "none" ELSE "closed"
    /\ upstream' = "closed"
    /\ pc' = [c \in Conn |-> "none"]
    /\ ask' = [c \in Conn |-> NoRequest]
    /\ answer' = [c \in Conn |-> Failure]
    /\ UNCHANGED <<left, todo, withKeys, injected, child, file>>

Exit == phase = "over" /\ EndOfProcess("exited")

\* A signal ends the process where it is: it handles none.  The command may
\* outlive it.
Killed == phase \notin Ended /\ EndOfProcess("killed")

-----------------------------------------------------------------------------
Prepare == \/ ReadItem \/ ReadFails \/ NoKeys \/ DialAgent
           \/ Resolve \/ ResolveFails \/ Listen \/ ListenFails
           \/ Chmod \/ ChmodFails \/ Start \/ StartFails
Cleanup == ChildReaped \/ CloseListener \/ CloseUpstream \/ RemoveFile \/ Exit

\* The deadline is set by NewProxy.
Deadline == phase \notin {"read", "resolve"} /\ Tick

Alive == phase \notin Ended

\* A step of the proxy while run is there, beside run's own.
Beside(A) == Alive /\ A /\ UNCHANGED runVars

RunNext == \/ Prepare \/ ChildEnds \/ Cleanup \/ Killed
           \/ Beside(ProxyStep)
           \/ (Deadline /\ UNCHANGED runVars)

(***************************************************************************)
(* RunE and the proxy's goroutines run, the upstream client's mutex is     *)
(* fair to its waiters, the upstream agent answers in the end unless it    *)
(* hangs, clients that are not Silent read their answers, and time passes. *)
(* The command need not end, no signal need come, no Accept need fail.     *)
(***************************************************************************)
RunFairness ==
    /\ WF_vars(Prepare)
    /\ WF_vars(Cleanup)
    /\ \A c \in Conn : /\ WF_vars(Beside(Goroutine(c)))
                       /\ SF_vars(Beside(Call(c)))
                       /\ WF_vars(Beside(UpstreamAnswers(c)))
    /\ \A c \in Conn \ Silent : WF_vars(Beside(Reply(c) \/ HangUp(c)))
    /\ WF_vars(Deadline /\ UNCHANGED runVars)

RunSpec     == RunInit /\ [][RunNext]_vars
FairRunSpec == RunSpec /\ RunFairness

-----------------------------------------------------------------------------
(***************************************************************************)
(* Properties.                                                             *)
(***************************************************************************)
\* Every variable has its type.
RunTypeOK == /\ TypeOK
             /\ phase \in {"read", "resolve", "listen", "chmod", "start", "wait",
                           "cleanup", "hangup", "remove", "over"} \cup Ended
             /\ todo \in 0..MaxItems
             /\ withKeys \in BOOLEAN
             /\ injected \in BOOLEAN
             /\ child \in {"none", "running", "over"}
             /\ file \in BOOLEAN

\* The command runs with everything or not at all: each item was read, and if
\* there are keys its SSH_AUTH_SOCK names the proxy's socket, which takes
\* connections for as long as run is there and the command is not over.  It is
\* also served, unless an Accept has failed.
AllOrNothing ==
    /\ child # "none" => todo = 0 /\ (withKeys <=> injected)
    /\ phase = "wait" /\ child = "running" /\ withKeys
           => listener \in {"served", "deserted"} /\ file

\* run.go, startSSHProxy: cleanup stops the proxy and removes the socket file.
\* No end but by a signal leaves a file, a listener, a client or the upstream
\* connection, at whatever step something failed.
NothingLeft == phase \in {"failed", "exited"} =>
    /\ ~file
    /\ listener \in {"none", "closed"}
    /\ upstream = "closed"
    /\ \A c \in Conn : pc[c] = "none"

\* Cleanup is never held up: once the command is over so is run, though proxy
\* clients stay connected, do not read, or wait for an upstream agent that
\* never answers.
RunEnds == child = "over" ~> phase \in Ended

=============================================================================
