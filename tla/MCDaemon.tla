------------------------------ MODULE MCDaemon ------------------------------
(***************************************************************************)
(* Small instances of Daemon: the requests a few projects send.            *)
(***************************************************************************)
EXTENDS Daemon

CONSTANTS c1, c2, p1, p2, dsn, password, body, v1, v2

P == INSTANCE ProjectConfig

File(v, m, t, items) == [vault |-> v, mode |-> m, ttl |-> t, items |-> items, keys |-> <<>>]

Item(n, f) == [name |-> n, field |-> f]

SentByRun(f, p) == LET s == P!RunRequests(f, p) IN {s[i] : i \in DOMAIN s}

\* p1 lists dsn twice, once with a field of its own.
First  == File(v1, "biometric", 2, <<Item(dsn, Empty), Item(dsn, body)>>)

\* p2 has an item of the same name elsewhere, and leaves its TTL to the daemon.
Second == File(v2, "service-account", 0, <<Item(dsn, Empty)>>)

\* What both projects' commands send; and what the daemon's own tests send it
\* besides: a read of an item that is not listed, and a status request.
TwoProjects ==
    LET read == P!ReadRequest(Second, p2, dsn, Nothing)
    IN  SentByRun(First, p1)
        \cup {read, [read EXCEPT !.items = {}],
              P!Bare("lock", p1), P!Bare("status", p2)}

\* One project reads one item, and locks.
OneProject ==
    SentByRun(File(v1, "biometric", 1, <<Item(dsn, Empty)>>), p1)
    \cup {P!Bare("lock", p1)}
=============================================================================
