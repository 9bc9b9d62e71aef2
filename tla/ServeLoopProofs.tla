-------------------------- MODULE ServeLoopProofs ---------------------------
(***************************************************************************)
(* Proofs about ServeLoop, for every set of clients and every timeout.     *)
(***************************************************************************)
EXTENDS ServeLoop, TLAPS

\* The countdown and the quiet time add up to the timeout, at least.
Countdown == timer # None => /\ IdleTimeout > 0
                             /\ quiet + timer >= IdleTimeout

IInv == TypeOK /\ Countdown /\ IdleExitAfterQuiet

\* The initial state satisfies the invariant.
LEMMA InvInit == Init => IInv
<1> SUFFICES ASSUME Init PROVE IInv
  OBVIOUS
<1> USE IdleTimeoutAssumption, NoneAssumption DEF Init, NewIdleTimer
<1>1. backlog \in Seq(Conn)
  OBVIOUS
<1>2. quiet \in 0..IdleTimeout /\ timer \in (0..IdleTimeout) \cup {None}
  OBVIOUS
<1>3. serving \in SUBSET Conn /\ lost \in SUBSET Conn
  OBVIOUS
<1>4. OnePlace
  BY DEF OnePlace, Queued
<1>5. TypeOK
  BY <1>1, <1>2, <1>3, <1>4 DEF TypeOK
<1>6. Countdown /\ IdleExitAfterQuiet
  BY DEF Countdown, IdleExitAfterQuiet
<1>7. QED
  BY <1>5, <1>6 DEF IInv

\* Who joins the queue was nowhere, and who leaves it is at its head.
LEMMA PlaceKept == IInv /\ [Next]_vars => OnePlace'
<1> SUFFICES ASSUME IInv, [Next]_vars PROVE OnePlace'
  OBVIOUS
<1> USE NoneAssumption DEF IInv, TypeOK, OnePlace, Queued, conns
<1>1. ASSUME NEW c \in Conn, Connect(c) PROVE OnePlace'
  <2>1. /\ backlog' = Append(backlog, c)
        /\ Len(backlog') = Len(backlog) + 1
        /\ \A i \in 1..Len(backlog) : backlog'[i] = backlog[i]
        /\ backlog'[Len(backlog) + 1] = c
    BY <1>1 DEF Connect
  <2>2. c \notin Queued /\ c # held /\ c \notin serving
    BY <1>1 DEF Connect, Open
  <2>3. QED
    BY <1>1, <2>1, <2>2 DEF Connect
<1>2. ASSUME NEW c \in Conn, Finish(c) PROVE OnePlace'
  BY <1>2 DEF Finish
<1>3. CASE AcceptConn
  <2>1. /\ Len(backlog) > 0 /\ held' = backlog[1]
        /\ Len(backlog') = Len(backlog) - 1
        /\ \A i \in 1..Len(backlog') : backlog'[i] = backlog[i + 1]
    BY <1>3 DEF AcceptConn
  <2>2. QED
    BY <1>3, <2>1 DEF AcceptConn
<1>4. CASE AcceptFails
  BY <1>4 DEF AcceptFails
<1>5. CASE Receive
  BY <1>5 DEF Receive
<1>6. CASE ReturnError
  BY <1>6 DEF ReturnError
<1>7. CASE ReturnIdle
  BY <1>7 DEF ReturnIdle
<1>8. CASE Exit
  BY <1>8 DEF Exit
<1>9. CASE Tick
  BY <1>9 DEF Tick
<1>10. CASE UNCHANGED vars
  BY <1>10 DEF vars
<1>11. QED
  BY <1>1, <1>2, <1>3, <1>4, <1>5, <1>6, <1>7, <1>8, <1>9, <1>10 DEF Next

\* The invariant is inductive.
LEMMA InvStep == IInv /\ [Next]_vars => IInv'
<1> SUFFICES ASSUME IInv, [Next]_vars PROVE IInv'
  OBVIOUS
<1>0. OnePlace'
  BY PlaceKept
<1> USE IdleTimeoutAssumption, NoneAssumption, <1>0
    DEF IInv, TypeOK, Countdown, IdleExitAfterQuiet, conns
<1>1. ASSUME NEW c \in Conn, Connect(c) PROVE IInv'
  BY <1>1 DEF Connect
<1>2. ASSUME NEW c \in Conn, Finish(c) PROVE IInv'
  BY <1>2 DEF Finish
<1>3. CASE AcceptConn
  BY <1>3 DEF AcceptConn
<1>4. CASE AcceptFails
  BY <1>4 DEF AcceptFails
<1>5. CASE Receive
  BY <1>5 DEF Receive, NewIdleTimer
<1>6. CASE ReturnError
  BY <1>6 DEF ReturnError
<1>7. CASE ReturnIdle
  BY <1>7 DEF ReturnIdle
<1>8. CASE Exit
  BY <1>8 DEF Exit, Queued
<1>9. CASE Tick
  BY <1>9 DEF Tick
<1>10. CASE UNCHANGED vars
  BY <1>10 DEF vars
<1>11. QED
  BY <1>1, <1>2, <1>3, <1>4, <1>5, <1>6, <1>7, <1>8, <1>9, <1>10 DEF Next

\* Of any number of clients, none is ever in two places, or dropped by a
\* process that lives.
THEOREM KeepsEveryConnection == Spec => []TypeOK
<1>1. IInv => TypeOK
  BY DEF IInv
<1>2. QED
  BY <1>1, InvInit, InvStep, PTL DEF Spec

\* The loop never gives up within the timeout after a connection, and never
\* at all without one.
THEOREM GivesUpOnlyWhenQuiet == Spec => []IdleExitAfterQuiet
<1>1. IInv => IdleExitAfterQuiet
  BY DEF IInv
<1>2. QED
  BY <1>1, InvInit, InvStep, PTL DEF Spec
=============================================================================
