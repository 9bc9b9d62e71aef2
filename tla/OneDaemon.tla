----------------------------- MODULE OneDaemon ------------------------------
(***************************************************************************)
(* What the lock file, the socket and dialling promise together: there is  *)
(* at most one daemon, a client's session is with that daemon, and a new   *)
(* daemon comes only after the old one ended with all its sessions.        *)
(* Lifecycle implements this; see Lifecycle!Implements.                    *)
(***************************************************************************)
CONSTANTS Client, Proc, NoProc

VARIABLES
    holder,     \* the daemon, or NoProc
    session     \* the daemon each client has a session with, or NoProc

vars == <<holder, session>>

Init == /\ holder = NoProc
        /\ session = [c \in Client |-> NoProc]

Begin(d) == /\ holder = NoProc
            /\ holder' = d
            /\ UNCHANGED session

End == /\ holder # NoProc
       /\ holder' = NoProc
       /\ session' = [c \in Client |-> NoProc]

Open(c) == /\ holder # NoProc
           /\ session[c] = NoProc
           /\ session' = [session EXCEPT ![c] = holder]
           /\ UNCHANGED holder

Close(c) == /\ session[c] # NoProc
            /\ session' = [session EXCEPT ![c] = NoProc]
            /\ UNCHANGED holder

Next == \/ \E d \in Proc : Begin(d)
        \/ End
        \/ \E c \in Client : Open(c) \/ Close(c)

Spec == Init /\ [][Next]_vars
=============================================================================
