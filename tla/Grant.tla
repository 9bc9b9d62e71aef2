------------------------------- MODULE Grant --------------------------------
(***************************************************************************)
(* What the ssh agent proxy promises the owner of the keys: the upstream   *)
(* agent is used with the granted keys only, or to list identities, for    *)
(* one request at a time, and nothing is permitted once the grant has      *)
(* lapsed.  What was permitted before may still begin, once: this is the   *)
(* promise the code keeps, weaker than "only before a fixed deadline"; see *)
(* AgentProxy!Implements and AgentProxy!ForwardsInTime.                    *)
(***************************************************************************)
CONSTANTS Conn, Granted, Listing, NoUse

VARIABLES
    lapsed,     \* the grant is over
    permit,     \* what each connection may have the upstream agent do, once
    use         \* what each connection has the upstream agent do, or NoUse

vars == <<lapsed, permit, use>>

Init == /\ lapsed \in BOOLEAN
        /\ permit = [c \in Conn |-> NoUse]
        /\ use = [c \in Conn |-> NoUse]

Permit(c) == /\ ~lapsed
             /\ permit[c] = NoUse /\ use[c] = NoUse
             /\ \E u \in Granted \cup {Listing} : permit' = [permit EXCEPT ![c] = u]
             /\ UNCHANGED <<lapsed, use>>

Begin(c) == /\ permit[c] # NoUse
            /\ \A d \in Conn : use[d] = NoUse
            /\ permit' = [permit EXCEPT ![c] = NoUse]
            /\ use' = [use EXCEPT ![c] = permit[c]]
            /\ UNCHANGED lapsed

\* Of uses, and of permits that are not used.
End(C) == /\ C # {}
          /\ permit' = [c \in Conn |-> IF c \in C THEN NoUse ELSE permit[c]]
          /\ use' = [c \in Conn |-> IF c \in C THEN NoUse ELSE use[c]]
          /\ UNCHANGED lapsed

Lapse == /\ ~lapsed
         /\ lapsed' = TRUE
         /\ UNCHANGED <<permit, use>>

Next == \/ \E c \in Conn : Permit(c) \/ Begin(c)
        \/ \E C \in SUBSET Conn : End(C)
        \/ Lapse

Spec == Init /\ [][Next]_vars
=============================================================================
