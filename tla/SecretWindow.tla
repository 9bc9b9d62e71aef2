--------------------------- MODULE SecretWindow ---------------------------
(***************************************************************************)
(* What timesharedd promises the projects that read through it, without    *)
(* its cache and its handlers' steps: one memory of secrets in which every *)
(* one has a window.  A person is prompted for a secret only when it is    *)
(* not remembered; what was read is remembered for the project's own TTL,  *)
(* not longer and not shorter; and it is forgotten early in two ways only: *)
(* the project locks, or the daemon ends.                                  *)
(***************************************************************************)
EXTENDS Integers

CONSTANTS
    Client,
    Request,
    Permitted,      \* the requests that may read what they ask for
    Locking,        \* the requests that lock their project
    KeyFor,         \* function: what a request is remembered under
    SecretFor,      \* function: what 1Password holds for a request
    WindowFor,      \* function: how long its project remembers it
    ProjectOf,      \* function: the project of a request
    OwnerOf,        \* function: the project of a key
    Nothing

VARIABLES now, memory, stage, ask, answer

vars == <<now, memory, stage, ask, answer>>

Key == DOMAIN OwnerOf

Init == /\ now = 0
        /\ memory = [k \in Key |-> Nothing]
        /\ stage = [c \in Client |-> "away"]
        /\ ask = [c \in Client |-> Nothing]
        /\ answer = [c \in Client |-> Nothing]

\* The client is answered with v, or told no.
Tell(c, v) == /\ stage' = [stage EXCEPT ![c] = "told"]
              /\ answer' = [answer EXCEPT ![c] = v]

Come(c, r) == /\ stage[c] = "away"
              /\ stage' = [stage EXCEPT ![c] = "asked"]
              /\ ask' = [ask EXCEPT ![c] = r]
              /\ UNCHANGED <<now, memory, answer>>

TurnAway(c) == stage[c] = "away" /\ Tell(c, Nothing) /\ UNCHANGED <<now, memory, ask>>

Decline(c) == /\ stage[c] = "asked"
              /\ ask[c] \notin Permitted \cup Locking
              /\ Tell(c, Nothing)
              /\ UNCHANGED <<now, memory, ask>>

Recall(c) == LET k == KeyFor[ask[c]] IN
             /\ stage[c] = "asked"
             /\ ask[c] \in Permitted
             /\ memory[k] # Nothing
             /\ Tell(c, memory[k].value)
             /\ UNCHANGED <<now, memory, ask>>

\* Nobody is prompted for a secret whose window is open.
Prompt(c) == /\ stage[c] = "asked"
             /\ ask[c] \in Permitted
             /\ memory[KeyFor[ask[c]]] = Nothing
             /\ stage' = [stage EXCEPT ![c] = "prompting"]
             /\ UNCHANGED <<now, memory, ask, answer>>

Learn(c) == LET r == ask[c] IN
            /\ stage[c] = "prompting"
            /\ memory' = [memory EXCEPT ![KeyFor[r]] =
                             [value |-> SecretFor[r], until |-> now + WindowFor[r]]]
            /\ Tell(c, SecretFor[r])
            /\ UNCHANGED <<now, ask>>

Fail(c) == stage[c] = "prompting" /\ Tell(c, Nothing) /\ UNCHANGED <<now, memory, ask>>

Forget(c) == /\ stage[c] = "asked"
             /\ ask[c] \in Locking
             /\ memory' = [k \in Key |-> IF OwnerOf[k] = ProjectOf[ask[c]]
                                         THEN Nothing ELSE memory[k]]
             /\ Tell(c, Nothing)
             /\ UNCHANGED <<now, ask>>

Leave(c) == /\ stage[c] = "told"
            /\ stage' = [stage EXCEPT ![c] = "away"]
            /\ ask' = [ask EXCEPT ![c] = Nothing]
            /\ answer' = [answer EXCEPT ![c] = Nothing]
            /\ UNCHANGED <<now, memory>>

\* Time passes, and closes windows.
Pass == /\ now' = now + 1
        /\ memory' = [k \in Key |-> IF memory[k] # Nothing /\ now + 1 <= memory[k].until
                                    THEN memory[k] ELSE Nothing]
        /\ UNCHANGED <<stage, ask, answer>>

Quit == /\ memory' = [k \in Key |-> Nothing]
        /\ stage' = [c \in Client |-> "away"]
        /\ ask' = [c \in Client |-> Nothing]
        /\ answer' = [c \in Client |-> Nothing]
        /\ UNCHANGED now

Next == \/ \E c \in Client : \/ \E r \in Request : Come(c, r)
                             \/ TurnAway(c) \/ Decline(c) \/ Recall(c)
                             \/ Prompt(c) \/ Learn(c) \/ Fail(c)
                             \/ Forget(c) \/ Leave(c)
        \/ Pass \/ Quit

Spec == Init /\ [][Next]_vars
=============================================================================
