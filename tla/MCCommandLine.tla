---------------------------- MODULE MCCommandLine ----------------------------
(***************************************************************************)
(* One repository and two vaults whose names differ in punctuation only;   *)
(* titles that are short, alike, ambiguous, or have a slash.               *)
(***************************************************************************)
EXTENDS CommandLine

CONSTANTS out, top, sub, password, body, fingerprint, tv, tw

Directories == [d \in {out, top, sub} |-> IF d = sub THEN top ELSE out]

Lowers == [c \in {"a", "b", "A", "1", "2", "3", "4", "5", "-", ".", "/"} |->
              IF c = "A" THEN "a" ELSE c]

v == <<"a", "-">>
w == <<"A", ".">>
Vaults == {v, w}

login  == [id |-> <<"1">>, title |-> <<"a", "b">>, fields |-> {password, body}]
twin   == [id |-> <<"2">>, title |-> <<"a", "b">>, fields |-> {password}]
slashy == [id |-> <<"3">>, title |-> <<"A", "/", "b">>, fields |-> {fingerprint}]
sshkey == [id |-> <<"4">>, title |-> <<"b">>, fields |-> {password, fingerprint}]
long   == [id |-> <<"5">>, title |-> <<"a", "a", "A", "b">>, fields |-> {fingerprint}]

Catalogue == {login, twin, slashy, sshkey, long}

AtFirst == [x \in Vaults |-> IF x = v THEN Catalogue \ {twin} ELSE {twin, sshkey}]

References == {login.title, sshkey.title, twin.id, Empty}

TokenOpens == [t \in {tv, tw} |-> IF t = tv THEN {v} ELSE {w}]

Listing(n, f) == [name |-> n, field |-> f, null |-> FALSE]
Null == [name |-> Empty, field |-> Empty, null |-> TRUE]

Key1(n) == v \o <<Slash>> \o n

File(vault, mode, items, keys) ==
    [vault |-> vault, mode |-> mode, ttl |-> 1, items |-> items, keys |-> keys]

Both    == File(v, "biometric", <<Listing(login.title, Empty), Listing(sshkey.title, Empty)>>,
                <<Key1(sshkey.title)>>)
Twice   == File(v, "service-account",
                <<Listing(login.title, Empty), Listing(login.title, body),
                  Listing(sshkey.title, password)>>, <<>>)
ById    == File(w, "service-account", <<Listing(twin.id, Empty)>>, <<>>)
NoField == File(v, "biometric", <<Listing(sshkey.title, Empty), Listing(login.title, fingerprint)>>, <<>>)
Wrong   == {File(Empty, "biometric", <<Listing(login.title, Empty)>>, <<>>),
            File(v, "biometric", <<Listing(Empty, body)>>, <<>>), Nothing}
Nameless == File(v, "biometric", <<Listing(login.title, body), Null>>, <<>>)

\* References to keys: what was meant, or nearly, and one that cannot be split.
Queries == {slashy.title, <<"a", "b">>, <<"b", "b">>, <<"A", "b", "b">>}
KeysOnly == {File(v, "biometric", <<>>, <<Key1(q)>>) : q \in Queries}
            \cup {File(v, "biometric", <<>>, <<Key1(sshkey.title), sshkey.title>>)}

AllFiles == {Both, Twice, ById, NoField, Nameless} \cup Wrong \cup KeysOnly
=============================================================================
