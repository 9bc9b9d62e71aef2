----------------------------- MODULE CommandLine -----------------------------
(***************************************************************************)
(* The commands of `timeshare` other than init, one after the other, in    *)
(* the world they share: .timeshare.yml, 1Password, the keychain and the   *)
(* exported variables (internal/tokenstore), the op CLI, the ssh agent,    *)
(* and a daemon with its cache.                                            *)
(*                                                                         *)
(* A command is one action here: what commands do to each other while they *)
(* run is the matter of Daemon, Lifecycle and RunCommand.  The daemon can  *)
(* always be spawned, entries expire whenever they like, and any call of   *)
(* op or the SDK may fail by itself.  Strings are sequences of characters; *)
(* a secret's payload is the item and the field it was read from.          *)
(***************************************************************************)
EXTENDS ProjectConfig, Suggestions, SequencesExt

CONSTANTS
    Parent,         \* function: every directory's parent
    Git,            \* the directories that are git roots
    Files,          \* what a .timeshare.yml can hold
    Vault, Item,    \* 1Password: vault names; records [id, title, fields]
    Name, Field,    \* item references, the empty one included; field names
    DefaultField, FingerprintField,
    Token, Opens,   \* tokens, and function: the vaults each one opens
    Alnum,          \* letters, lower case, and digits
    Slash, Underscore,
    Held,           \* the items in every vault at the start
    MaxEdits        \* bound: changes to the world between the commands

\* SecretReference does not escape the vault's name.
ASSUME VaultAssumption == \A v \in Vault : \A i \in DOMAIN v : v[i] # Slash
ASSUME HeldAssumption  == /\ Held \in [Vault -> SUBSET Item]
                          /\ \A v \in Vault : IsFiniteSet(Held[v])

\* Where "did you mean" looks, everything is a string.
ASSUME TitleAssumption == \A i \in Item : i.title \in Seq(DOMAIN LowerOf)

\* Upwards every path ends: at the root, which is its own parent.
ASSUME ParentAssumption ==
    /\ Parent \in [DOMAIN Parent -> DOMAIN Parent]
    /\ \A S \in SUBSET DOMAIN Parent :
          S # {} => \E d \in S : Parent[d] = d \/ Parent[d] \notin S

ASSUME NamesAssumption == Empty \in Name /\ DefaultField \in Field

\* An entry of a list; null has neither name nor field.
Entry == {e \in [name : Name, field : Field \cup {Empty}, null : BOOLEAN] :
             e.null => e.name = Empty /\ e.field = Empty}

ASSUME FilesAssumption ==
    \A f \in Files \ {Nothing} : f.items \in Seq(Entry) /\ f.keys \in Seq(Seq(DOMAIN LowerOf))

ASSUME EditsAssumption == MaxEdits \in Nat

VARIABLES
    file,       \* the .timeshare.yml of every git root
    held,       \* the items in every vault
    keychain,   \* the token stored for every vault
    shell,      \* the tokens exported in the user's shells, by variable
    op, agent,  \* the op CLI is installed; the ssh agent answers
    daemon,     \* the exported tokens the daemon was spawned with, or Nothing
    memory,     \* its cache
    last,       \* the command that has just ended
    clean,      \* history: projects whose doctor found nothing, nothing having
                \* changed since
    given,      \* history: what the last successful run gave its command,
                \* nothing having taken it from the cache since
    edits

world == <<file, held, keychain, shell, op, agent>>
vars  == <<world, daemon, memory, last, clean, given, edits>>

Key   == [project : Git, name : Name, field : Field \cup {Empty}]
Value == [id : {i.id : i \in Item}, field : Field]

\* tokenstore.envVarName, after its prefix.
EnvName(v) ==
    FoldLeft(LAMBDA s, c : IF LowerOf[c] \in Alnum THEN Append(s, LowerOf[c])
                           ELSE IF s # <<>> /\ Last(s) = Underscore THEN s
                           ELSE Append(s, Underscore),
             <<>>, v)

Variables == {EnvName(v) : v \in Vault}

\* No project, no payload and no environment are none of these.
ASSUME NothingAssumption ==
    Nothing \notin Git \cup Value \cup [Variables -> Token \cup {Nothing}]

Outcome(c, why) == [cmd |-> c, why |-> why, root |-> Nothing, name |-> Empty,
                    value |-> Nothing, warm |-> FALSE, ref |-> <<>>, hints |-> <<>>]
Silence == Outcome("none", "ok")

Init == /\ file \in [Git -> Files]
        /\ held = Held
        /\ keychain = [v \in Vault |-> Nothing]
        /\ shell = [x \in Variables |-> Nothing]
        /\ op = TRUE /\ agent = TRUE
        /\ daemon = Nothing
        /\ memory = [k \in Key |-> Nothing]
        /\ last = Silence
        /\ clean = {}
        /\ given = [p \in Git |-> [n \in Name |-> Nothing]]
        /\ edits = 0

-----------------------------------------------------------------------------
(***************************************************************************)
(* Where a command starts, and what 1Password answers.                     *)
(***************************************************************************)
Root(cwd) == FindGitRoot(Parent, Git, cwd)

\* LoadProjectContext: the configuration, or Nothing.
Context(cwd) == IF Root(cwd) # Nothing /\ Loads(file[Root(cwd)])
                THEN file[Root(cwd)] ELSE Nothing

ItemsIn(v) == IF v \in Vault THEN held[v] ELSE {}

\* A title or an ID, of exactly one item.
Matching(v, ref) == {i \in ItemsIn(v) : ref \in {i.id, i.title}}
Found(v, ref)    == Cardinality(Matching(v, ref)) = 1
TheItem(v, ref)  == CHOOSE i \in Matching(v, ref) : TRUE

\* The environment the daemon has, once a client has dialled it.
Spawned == IF daemon = Nothing THEN shell ELSE daemon

Lookup(v) == IF Spawned[EnvName(v)] # Nothing THEN Spawned[EnvName(v)] ELSE keychain[v]

FieldOf(r) == IF r.field = Empty THEN DefaultField ELSE r.field

\* Why the backend cannot answer a request, or "ok".
Refusal(r) ==
    CASE r.mode = "service-account" /\ Lookup(r.vault) = Nothing        -> "no token"
      [] r.mode = "service-account" /\ Lookup(r.vault) # Nothing
         /\ r.vault \notin Opens[Lookup(r.vault)]                        -> "denied"
      [] r.mode = "biometric" /\ ~op                                     -> "no op"
      [] OTHER -> IF ~Found(r.vault, r.name) THEN "no item"
                  ELSE IF FieldOf(r) \notin TheItem(r.vault, r.name).fields
                  THEN "no field" ELSE "ok"

Answer(r) == [id |-> TheItem(r.vault, r.name).id, field |-> FieldOf(r)]

-----------------------------------------------------------------------------
(***************************************************************************)
(* A command's requests to the daemon, in order; the first error ends it.  *)
(***************************************************************************)
KeyOf(r) == [project |-> r.project, name |-> r.name, field |-> r.field]

\* The i-th of the requests s finds nothing in the cache.
Cold(s, i) == /\ memory[KeyOf(s[i])] = Nothing
              /\ \A j \in 1..(i - 1) : KeyOf(s[j]) # KeyOf(s[i])

Answerable(s, n) == \A i \in 1..n : Cold(s, i) => Refusal(s[i]) = "ok"

\* The cache after the first n.
Filled(s, n) ==
    [k \in Key |-> IF \E i \in 1..n : KeyOf(s[i]) = k /\ Cold(s, i)
                   THEN Answer(s[CHOOSE i \in 1..n : KeyOf(s[i]) = k])
                   ELSE memory[k]]

Sent(s, n) == /\ daemon' = IF s = <<>> THEN daemon ELSE Spawned
              /\ memory' = Filled(s, n)

\* The first n are answered and the next one is not, for one of these reasons.
Stops(s, n) == Cold(s, n + 1) /\ Answerable(s, n) /\ Sent(s, n)

WhyNot(r) == {Refusal(r), "call failed"} \ {"ok"}

Ends(o) == last' = o /\ UNCHANGED <<world, edits>>

NoProject(c, cwd) == /\ Context(cwd) = Nothing
                     /\ Ends(Outcome(c, "no project"))
                     /\ UNCHANGED <<daemon, memory, clean, given>>

ReadOutcome(cwd, n, why) == [Outcome("read", why) EXCEPT !.root = Root(cwd), !.name = n]

Read(cwd, n) ==
    LET f == Context(cwd)
        s == <<ReadRequest(f, Root(cwd), n, Nothing)>>
    IN  /\ f # Nothing
        /\ UNCHANGED <<clean, given>>
        /\ \/ /\ ~Allows(f, n)
              /\ Ends(ReadOutcome(cwd, n, "not listed"))
              /\ UNCHANGED <<daemon, memory>>
           \/ /\ Allows(f, n)
              /\ \/ /\ Answerable(s, 1)
                    /\ Sent(s, 1)
                    /\ Ends([ReadOutcome(cwd, n, "ok") EXCEPT
                                !.value = memory'[KeyOf(s[1])], !.warm = ~Cold(s, 1)])
                 \/ /\ Stops(s, 0)
                    /\ \E why \in WhyNot(s[1]) : Ends(ReadOutcome(cwd, n, why))

-----------------------------------------------------------------------------
(***************************************************************************)
(* ssh_keys: <vault>/<item>, split at the last slash.                      *)
(***************************************************************************)
Slashes(ref) == {i \in DOMAIN ref : ref[i] = Slash}
VaultOf(ref) == SubSeq(ref, 1, Max(Slashes(ref)) - 1)
NameOf(ref)  == SubSeq(ref, Max(Slashes(ref)) + 1, Len(ref))

\* Why a reference has no fingerprint, or "ok".
KeyRefusal(ref) ==
    IF Slashes(ref) = {} THEN "bad ref"
    ELSE IF ~op THEN "no op"
    ELSE IF Found(VaultOf(ref), NameOf(ref))
            /\ FingerprintField \in TheItem(VaultOf(ref), NameOf(ref)).fields
    THEN "ok" ELSE "no key"

\* suggestionText; the list may fail like any other call.
Hints(ref) ==
    {<<>>} \cup IF Slashes(ref) = {} \/ ~op \/ VaultOf(ref) \notin Vault THEN {}
                ELSE SuggestMatches(NameOf(ref), held[VaultOf(ref)], 3)

\* startSSHProxy: the agent first, then the references in order.
KeyFailures(f) ==
    IF f.keys = <<>> THEN {}
    ELSE IF ~agent THEN [why : {"no agent"}, ref : {<<>>}, hints : {<<>>}]
    ELSE UNION {LET ref == f.keys[i]
                    may == IF Slashes(ref) = {} THEN {} ELSE {"call failed"}
                IN  [why : ({KeyRefusal(ref)} \cup may) \ {"ok"}, ref : {ref},
                     hints : Hints(ref)] :
                i \in {n \in DOMAIN f.keys :
                          \A j \in 1..(n - 1) : KeyRefusal(f.keys[j]) = "ok"}}

KeysResolve(f) == f.keys # <<>> =>
                      agent /\ \A i \in DOMAIN f.keys : KeyRefusal(f.keys[i]) = "ok"

RunOutcome(cwd, why) == [Outcome("run", why) EXCEPT !.root = Root(cwd)]

\* Where entries of one name have different fields, `read` and `run` differ.
OneField(f, n) == \A i, j \in DOMAIN f.items :
    f.items[i].name = n /\ f.items[j].name = n => f.items[i].field = f.items[j].field

Run(cwd) ==
    LET f == Context(cwd)
        s == RunRequests(f, Root(cwd))
    IN  /\ f # Nothing
        /\ UNCHANGED clean
        /\ \/ \E n \in 0..(Len(s) - 1) :
                 /\ Stops(s, n)
                 /\ \E why \in WhyNot(s[n + 1]) : Ends(RunOutcome(cwd, why))
                 /\ UNCHANGED given
           \/ /\ Answerable(s, Len(s))
              /\ Sent(s, Len(s))
              /\ \/ \E x \in KeyFailures(f) :
                        /\ Ends([RunOutcome(cwd, x.why) EXCEPT !.ref = x.ref,
                                                               !.hints = x.hints])
                        /\ UNCHANGED given
                 \/ /\ KeysResolve(f)
                    /\ Ends(RunOutcome(cwd, "ok"))
                    /\ given' = [given EXCEPT ![Root(cwd)] =
                          [n \in Name |->
                              IF Allows(f, n) /\ OneField(f, n)
                              THEN memory'[[project |-> Root(cwd), name |-> n,
                                            field |-> FieldFor(f, n)]]
                              ELSE Nothing]]

-----------------------------------------------------------------------------
(***************************************************************************)
(* lock, status, doctor, token.                                            *)
(***************************************************************************)
Forget(p) == /\ memory' = [k \in Key |-> IF k.project = p THEN Nothing ELSE memory[k]]
             /\ given' = [given EXCEPT ![p] = [n \in Name |-> Nothing]]

Lock(cwd) == /\ Context(cwd) # Nothing
             /\ daemon' = Spawned
             /\ Forget(Root(cwd))
             /\ Ends(Outcome("lock", "ok"))
             /\ UNCHANGED clean

\* A probe only: a daemon that is not there is not spawned.
Status(cwd) == /\ Context(cwd) # Nothing
               /\ Ends(Outcome("status", IF daemon # Nothing THEN "ok" ELSE "no daemon"))
               /\ UNCHANGED <<daemon, memory, clean, given>>

\* Mutant: a reference is split at its first slash.
KeyCheckFromLeft(ref) ==
    /\ Slashes(ref) # {} /\ op
    /\ LET at == Min(Slashes(ref)) IN
       Found(SubSeq(ref, 1, at - 1), SubSeq(ref, at + 1, Len(ref)))

KeyCheck(ref) ==
    /\ Slashes(ref) # {} /\ op
    /\ Found(VaultOf(ref), NameOf(ref))
    /\ FingerprintField \in TheItem(VaultOf(ref), NameOf(ref)).fields

\* Every check is made; without a configuration there is nothing to look up.
AllChecksPass(cwd) ==
    LET f == Context(cwd) IN
    /\ op
    /\ daemon # Nothing
    /\ f # Nothing
    /\ f.keys # <<>> => agent
    /\ \A i \in DOMAIN f.items : Found(f.vault, f.items[i].name)
    /\ \A i \in DOMAIN f.keys : KeyCheck(f.keys[i])

Doctor(cwd) == /\ \/ /\ AllChecksPass(cwd)
                     /\ Ends(Outcome("doctor", "ok"))
                     /\ clean' = clean \cup {Root(cwd)}
                  \/ /\ Ends(Outcome("doctor", "checks failed"))
                     /\ UNCHANGED clean
               /\ UNCHANGED <<daemon, memory, given>>

Change(c, why) == /\ edits < MaxEdits
                  /\ edits' = edits + 1
                  /\ last' = Outcome(c, why)

TokenStore(v, t) == /\ Change("token store", IF t = Empty THEN "empty token" ELSE "ok")
                    /\ keychain' = IF t = Empty THEN keychain
                                   ELSE [keychain EXCEPT ![v] = t]
                    /\ UNCHANGED <<file, held, shell, op, agent, daemon, memory,
                                   clean, given>>

TokenDelete(v) ==
    /\ Change("token delete", IF keychain[v] = Nothing THEN "no token" ELSE "ok")
    /\ keychain' = [keychain EXCEPT ![v] = Nothing]
    /\ UNCHANGED <<file, held, shell, op, agent, daemon, memory, clean, given>>

-----------------------------------------------------------------------------
(***************************************************************************)
(* What changes between the commands.                                      *)
(***************************************************************************)
Edit(p, f) == /\ f # file[p]
              /\ Change("none", "ok")
              /\ file' = [file EXCEPT ![p] = f]
              /\ clean' = clean \ {p}
              /\ given' = [given EXCEPT ![p] = [n \in Name |-> Nothing]]
              /\ UNCHANGED <<held, keychain, shell, op, agent, daemon, memory>>

\* An item comes to a vault or leaves it.
Rearrange(v, i) ==
    /\ Change("none", "ok")
    /\ held' = [held EXCEPT ![v] = IF i \in @ THEN @ \ {i} ELSE @ \cup {i}]
    /\ clean' = {}
    /\ UNCHANGED <<file, keychain, shell, op, agent, daemon, memory, given>>

Export(x, t) == /\ t # shell[x]
                /\ Change("none", "ok")
                /\ shell' = [shell EXCEPT ![x] = t]
                /\ UNCHANGED <<file, held, keychain, op, agent, daemon, memory,
                               clean, given>>

Install == /\ Change("none", "ok")
           /\ op' = ~op
           /\ clean' = {}
           /\ UNCHANGED <<file, held, keychain, shell, agent, daemon, memory, given>>

AgentComesOrGoes ==
    /\ Change("none", "ok")
    /\ agent' = ~agent
    /\ clean' = {}
    /\ UNCHANGED <<file, held, keychain, shell, op, daemon, memory, given>>

\* Mutant: a new daemon would find what the old one had.
CacheStays == /\ daemon # Nothing
              /\ daemon' = Nothing
              /\ last' = Silence
              /\ UNCHANGED <<world, memory, clean, given, edits>>

\* Idle, or killed.
DaemonExits == /\ daemon # Nothing
               /\ daemon' = Nothing
               /\ memory' = [k \in Key |-> Nothing]
               /\ given' = [p \in Git |-> [n \in Name |-> Nothing]]
               /\ last' = Silence
               /\ UNCHANGED <<world, clean, edits>>

Expire(k) == /\ memory[k] # Nothing
             /\ memory' = [memory EXCEPT ![k] = Nothing]
             /\ given' = [given EXCEPT ![k.project][k.name] = Nothing]
             /\ last' = Silence
             /\ UNCHANGED <<world, daemon, clean, edits>>

Next == \/ \E cwd \in DOMAIN Parent :
              \/ \E n \in Name : Read(cwd, n)
              \/ Run(cwd) \/ Lock(cwd) \/ Status(cwd) \/ Doctor(cwd)
              \/ \E c \in {"read", "run", "lock", "status"} : NoProject(c, cwd)
        \/ \E v \in Vault : \/ \E t \in Token \cup {Empty} : TokenStore(v, t)
                            \/ TokenDelete(v)
                            \/ \E i \in Item : Rearrange(v, i)
        \/ \E p \in Git, f \in Files : Edit(p, f)
        \/ \E x \in Variables, t \in Token \cup {Nothing} : Export(x, t)
        \/ Install \/ AgentComesOrGoes \/ DaemonExits
        \/ \E k \in Key : Expire(k)

Spec == Init /\ [][Next]_vars

-----------------------------------------------------------------------------
\* Every variable has its type, and secrets are only in a daemon that runs.
TypeOK == /\ file \in [Git -> Files]
          /\ held \in [Vault -> SUBSET Item]
          /\ keychain \in [Vault -> Token \cup {Nothing}]
          /\ shell \in [Variables -> Token \cup {Nothing}]
          /\ op \in BOOLEAN /\ agent \in BOOLEAN
          /\ daemon \in [Variables -> Token \cup {Nothing}] \cup {Nothing}
          /\ memory \in [Key -> Value \cup {Nothing}]
          /\ daemon = Nothing => \A k \in Key : memory[k] = Nothing
          /\ last.value \in Value \cup {Nothing}
          /\ clean \subseteq Git
          /\ given \in [Git -> [Name -> Value \cup {Nothing}]]
          /\ edits \in 0..MaxEdits

\* doctor.go: what doctor checks fails there "instead of mid-run".  While
\* nothing changes after a doctor that found nothing, a run can fail only at
\* what doctor does not look at: the items' fields and the token; or at a call.
CleanDoctorRuns ==
    last.cmd = "run" /\ last.root \in clean =>
        last.why \in {"ok", "no field", "no token", "denied", "call failed"}

\* After a run, a read of a listed item needs neither 1Password nor a token,
\* and prints what the command was given, until the entry expires, the project
\* is locked or edited, or the daemon ends; whatever happens in 1Password.
WarmAfterRun ==
    last.cmd = "read" /\ last.root # Nothing =>
        \/ given[last.root][last.name] = Nothing
        \/ last.why = "ok" /\ last.warm /\ last.value = given[last.root][last.name]

\* fuzzy.go: the hints of a failed run are at most three items of the vault,
\* each with the query in its title or at most half the longer one's length of
\* edits from it; the former before the latter, the shorter titles and the
\* fewer edits first; and no item left out is better than one of them.
SuggestsBest ==
    LET q == Lower(NameOf(last.ref))
        Title(i) == Lower(i.title)
        Near(i, n) == Title(i) \in Within(q, n, Range(Title(i)))
        half(i) == Longer(q, Title(i)) \div 2
        Fits(i) == Occurs(q, Title(i)) \/ Near(i, half(i))
        Better(i, j) == IF Occurs(q, Title(i))
                        THEN Occurs(q, Title(j)) => Len(Title(i)) < Len(Title(j))
                        ELSE ~Occurs(q, Title(j))
                             /\ \E n \in 0..half(j) : Near(i, n) /\ ~Near(j, n)
        s == last.hints
    IN  s # <<>> =>
          /\ Len(s) <= 3 /\ IsInjective(s)
          /\ \A i \in DOMAIN s : s[i] \in held[VaultOf(last.ref)] /\ Fits(s[i])
          /\ \A i, j \in DOMAIN s : i < j => ~Better(s[j], s[i])
          /\ \A c \in held[VaultOf(last.ref)] \ Range(s) :
                Fits(c) => Len(s) = 3 /\ \A i \in DOMAIN s : ~Better(c, s[i])

=============================================================================
