----------------------------- MODULE ServeLoop ------------------------------
(***************************************************************************)
(* The daemon's accept loop (internal/daemon/server.go, Serve) and what    *)
(* cmd/timesharedd makes of its return.  A goroutine accepts from the      *)
(* listener and hands each connection over an unbuffered channel to the    *)
(* loop, which starts a handler and a new idle timer; the loop's select    *)
(* also watches the accept error and the timer, and picks any that is      *)
(* ready.                                                                  *)
(*                                                                         *)
(* Time is the idle timer's countdown, in ticks.  A connection that is     *)
(* over can be reused: it stands for the next client.                      *)
(***************************************************************************)
EXTENDS Integers, Sequences

CONSTANTS
    Conn,           \* clients that can be connected at the same time
    IdleTimeout,    \* Server.IdleTimeout in ticks; 0 means never self-exit
    None

ASSUME IdleTimeoutAssumption == IdleTimeout \in Nat
ASSUME NoneAssumption        == None \notin Conn /\ None \notin Nat

VARIABLES
    backlog,    \* connections in the listener's queue, oldest first
    held,       \* the connection the accept goroutine is sending, or None
    accepting,  \* the accept goroutine has not met an error
    errCh,      \* the accept error is in the channel
    serving,    \* connections a handler has
    lost,       \* connections that ended unanswered with the process
    loop,       \* "running", or how Serve returned, or "exited"
    timer,      \* ticks until the idle timer fires; None without a timer
    quiet       \* history: ticks since the loop last received a connection

conns == <<backlog, held, serving, lost>>
vars  == <<backlog, held, accepting, errCh, serving, lost, loop, timer, quiet>>

Queued == {backlog[i] : i \in 1..Len(backlog)}
Open   == Queued \cup serving \cup lost \cup {held}

NewIdleTimer == IF IdleTimeout <= 0 THEN None ELSE IdleTimeout

Init == /\ backlog = <<>>
        /\ held = None
        /\ accepting = TRUE
        /\ errCh = FALSE
        /\ serving = {}
        /\ lost = {}
        /\ loop = "running"
        /\ timer = NewIdleTimer
        /\ quiet = 0

-----------------------------------------------------------------------------
(***************************************************************************)
(* Clients and the accept goroutine.                                       *)
(***************************************************************************)
Connect(c) == /\ loop # "exited"
              /\ c \notin Open
              /\ backlog' = Append(backlog, c)
              /\ UNCHANGED <<held, accepting, errCh, serving, lost, loop, timer, quiet>>

\* Mutant: the hand-over does not wait for the loop.
AcceptOrDrop == /\ loop # "exited"
                /\ accepting /\ held = None /\ backlog # <<>>
                /\ held' \in {None, Head(backlog)}
                /\ backlog' = Tail(backlog)
                /\ UNCHANGED <<accepting, errCh, serving, lost, loop, timer, quiet>>

AcceptConn == /\ loop # "exited"
              /\ accepting /\ held = None /\ backlog # <<>>
              /\ held' = Head(backlog)
              /\ backlog' = Tail(backlog)
              /\ UNCHANGED <<accepting, errCh, serving, lost, loop, timer, quiet>>

\* The process is out of descriptors, or the listener is gone.
AcceptFails == /\ loop # "exited"
               /\ accepting /\ held = None
               /\ accepting' = FALSE
               /\ errCh' = TRUE
               /\ UNCHANGED <<conns, loop, timer, quiet>>

-----------------------------------------------------------------------------
(***************************************************************************)
(* The select of the loop.                                                 *)
(***************************************************************************)
\* Mutants: the old timer is stopped and not replaced; the old timer runs on;
\* the connection is handled and still offered.
ReceiveAndStop == /\ loop = "running"
                  /\ held # None
                  /\ serving' = serving \cup {held}
                  /\ held' = None
                  /\ timer' = None
                  /\ quiet' = 0
                  /\ UNCHANGED <<backlog, accepting, errCh, lost, loop>>

ReceiveAndKeep == /\ loop = "running"
                  /\ held # None
                  /\ serving' = serving \cup {held}
                  /\ held' = None
                  /\ quiet' = 0
                  /\ UNCHANGED <<backlog, accepting, errCh, lost, loop, timer>>

ReceiveTwice == /\ loop = "running"
                /\ held # None
                /\ serving' = serving \cup {held}
                /\ timer' = NewIdleTimer
                /\ quiet' = 0
                /\ UNCHANGED <<backlog, held, accepting, errCh, lost, loop>>

Receive == /\ loop = "running"
           /\ held # None
           /\ serving' = serving \cup {held}
           /\ held' = None
           /\ timer' = NewIdleTimer
           /\ quiet' = 0
           /\ UNCHANGED <<backlog, accepting, errCh, lost, loop>>

ReturnError == /\ loop = "running"
               /\ errCh
               /\ errCh' = FALSE
               /\ loop' = "failed"
               /\ UNCHANGED <<conns, accepting, timer, quiet>>

ReturnIdle == /\ loop = "running"
              /\ timer = 0
              /\ loop' = "idle"
              /\ UNCHANGED <<conns, accepting, errCh, timer, quiet>>

-----------------------------------------------------------------------------
\* HandleConn is done and closes the connection.
Finish(c) == /\ loop # "exited"
             /\ c \in serving
             /\ serving' = serving \ {c}
             /\ UNCHANGED <<backlog, held, accepting, errCh, lost, loop, timer, quiet>>

\* main ends the process, and every connection with it.
Exit == /\ loop \in {"idle", "failed"}
        /\ loop' = "exited"
        /\ lost' = lost \cup Queued \cup serving \cup ({held} \ {None})
        /\ backlog' = <<>>
        /\ held' = None
        /\ serving' = {}
        /\ UNCHANGED <<accepting, errCh, timer, quiet>>

\* A fired timer waits in its channel: time goes on, the countdown is over.
Tick == /\ loop = "running"
        /\ timer' = IF timer \in {0, None} THEN timer ELSE timer - 1
        /\ quiet' = IF quiet < IdleTimeout THEN quiet + 1 ELSE quiet
        /\ UNCHANGED <<conns, accepting, errCh, loop>>

Next == \/ \E c \in Conn : Connect(c) \/ Finish(c)
        \/ AcceptConn \/ AcceptFails \/ Receive
        \/ ReturnError \/ ReturnIdle \/ Exit \/ Tick

(***************************************************************************)
(* The accept goroutine and the loop run, and time passes.  Clients need   *)
(* not connect, accepting need not fail, and handlers need not finish.     *)
(***************************************************************************)
Fairness == /\ WF_vars(AcceptConn)
            /\ WF_vars(Receive \/ ReturnError \/ ReturnIdle)
            /\ WF_vars(Exit)
            /\ WF_vars(Tick)

Spec     == Init /\ [][Next]_vars
FairSpec == Spec /\ Fairness

-----------------------------------------------------------------------------
(***************************************************************************)
(* Properties.                                                             *)
(***************************************************************************)
\* A connection is in the queue, in the accept goroutine's hand or with a
\* handler, in one of these places only, and is lost with the process only.
OnePlace ==
    /\ held \notin serving \cup Queued
    /\ serving \cap Queued = {}
    /\ \A i, j \in 1..Len(backlog) : backlog[i] = backlog[j] => i = j
    /\ lost # {} => loop = "exited"

\* Every variable has its type, and every connection its place.
TypeOK == /\ backlog \in Seq(Conn)
          /\ held \in Conn \cup {None}
          /\ accepting \in BOOLEAN
          /\ errCh \in BOOLEAN
          /\ serving \in SUBSET Conn
          /\ lost \in SUBSET Conn
          /\ loop \in {"running", "idle", "failed", "exited"}
          /\ timer \in (0..IdleTimeout) \cup {None}
          /\ quiet \in 0..IdleTimeout
          /\ OnePlace

\* The daemon gives up as idle only when the loop has received no connection
\* for the whole IdleTimeout, however connections and timer interleave; with
\* IdleTimeout zero it never does.
IdleExitAfterQuiet ==
    loop = "idle" => IdleTimeout > 0 /\ quiet = IdleTimeout

\* A client that got through to the listener is handed to a handler, or the
\* process ends: none waits for ever, not even behind handlers that hang.
Admitted == \A c \in Conn :
    c \in Queued \cup {held} ~> c \in serving \/ loop = "exited"

\* When clients stop coming the daemon ends by itself.
QuietDaemonExits ==
    <>[](backlog = <<>> /\ held = None) => <>(loop = "exited")

=============================================================================
