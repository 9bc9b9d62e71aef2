--------------------------- MODULE ProjectConfig ---------------------------
(***************************************************************************)
(* .timeshare.yml (internal/config), the project a directory belongs to    *)
(* (internal/projectid, LoadProjectContext) and the requests that read,    *)
(* run and lock build from both for the daemon.                            *)
(*                                                                         *)
(* A file that YAML can parse is a record of the five keys; a list entry   *)
(* is a name and a field, Empty where the file has none, which is what the *)
(* two forms of an entry unmarshal to; null if it is YAML's null, as the   *)
(* entry `- ` is, which the library unmarshals to an Item of zero values   *)
(* without a call of UnmarshalYAML.  A ttl is the duration it parses to,   *)
(* or Nothing.  The allow-list of a request is a set: the daemon only      *)
(* looks for one name in it.                                               *)
(***************************************************************************)
EXTENDS Integers, Sequences

CONSTANTS
    Empty,      \* the empty string
    Nothing     \* no file, no directory, no duration

Modes == {"biometric", "service-account"}

\* UnmarshalYAML: an entry without a name is an error, in either form.
EntryOK(e) == e.null \/ e.name # Empty

\* Load's checks, in any order: it returns the file's content or an error.
Loads(f) == /\ f # Nothing
            /\ \A i \in DOMAIN f.items : EntryOK(f.items[i])
            /\ f.vault # Empty
            /\ f.mode \in Modes
            /\ f.ttl # Nothing
            /\ f.items # <<>> \/ f.keys # <<>>

ItemNames(f) == {f.items[i].name : i \in DOMAIN f.items}

Allows(f, n) == n \in ItemNames(f)

\* The first entry of a name counts.
FieldFor(f, n) ==
    IF ~Allows(f, n) THEN Empty
    ELSE f.items[CHOOSE i \in DOMAIN f.items :
                    /\ f.items[i].name = n
                    /\ \A j \in 1..(i - 1) : f.items[j].name # n].field

-----------------------------------------------------------------------------
\* The nearest directory upwards that has a .git directory, or Nothing at the
\* root; parent maps the root to itself.
FindGitRoot(parent, git, cwd) ==
    LET root[d \in DOMAIN parent] == IF d \in git THEN d
                                     ELSE IF parent[d] = d THEN Nothing
                                     ELSE root[parent[d]]
    IN  root[cwd]

-----------------------------------------------------------------------------
Request(o, p, f, n, field, ttl) ==
    [op |-> o, project |-> p, name |-> n, field |-> field,
     vault |-> f.vault, mode |-> f.mode, ttl |-> ttl, items |-> ItemNames(f)]

\* Mutant: the configured field is not sent.
ReadRequestBare(f, p, n, ttl) ==
    Request("read", p, f, n, Empty, IF ttl = Nothing THEN f.ttl ELSE ttl)

\* `timeshare read`: the field of the first entry; --ttl replaces the file's.
ReadRequest(f, p, n, ttl) ==
    Request("read", p, f, n, FieldFor(f, n), IF ttl = Nothing THEN f.ttl ELSE ttl)

\* `timeshare run`: one read per entry, each with its own field.
RunRequests(f, p) ==
    [i \in DOMAIN f.items |->
        Request("read", p, f, f.items[i].name, f.items[i].field, f.ttl)]

\* `timeshare lock` sends the project and nothing else.
Bare(o, p) == [op |-> o, project |-> p, name |-> Empty, field |-> Empty,
               vault |-> Empty, mode |-> Empty, ttl |-> 0, items |-> {}]
=============================================================================
