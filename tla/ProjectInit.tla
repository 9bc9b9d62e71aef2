---------------------------- MODULE ProjectInit -----------------------------
(***************************************************************************)
(* `timeshare init` (internal/cli/init.go and wizard*.go): from flags, or  *)
(* from a wizard or a menu that asks for what is missing, to a dedicated   *)
(* vault with the project's items in it and a .timeshare.yml that lists    *)
(* them.  Any `op` call may fail and end the command where it is, and one  *)
(* that failed may have had its effect all the same.                       *)
(*                                                                         *)
(* Items are taken from one vault, Source.  The dedicated vault is named   *)
(* by --vault; names are not unique, so there may be several of its name:  *)
(* 1..made, oldest first.  `op` finds a vault by name, whichever it takes. *)
(***************************************************************************)
EXTENDS Integers, Sequences

CONSTANTS
    Item, Title, TitleOf,   \* items, by ID, and their titles
    ItemList,               \* the order in which `op item list` lists them
    Source,
    Pick,                   \* a --from-item that names no item
    NoFile, Broken,         \* no .timeshare.yml; one that is no YAML
    Inputs,                 \* command lines
    MaxVaults,              \* bounds: vaults of that name, and how often one
    MaxCopies               \* of them has an item

Modes == {"service-account", "biometric"}
TTLs  == {"1h", "4h"}       \* that ParseDuration accepts

Config == [mode : Modes \cup {"other"}, ttl : TTLs, items : Seq(Title),
           keys : BOOLEAN]

\* A wizardState.  vault, keys: one is given; given: the flags passed.
Input == [vault : BOOLEAN, mode : Modes \cup {"other"}, ttl : TTLs \cup {"bad"},
          from : BOOLEAN, names : Seq(Title), specs : Seq(Item \cup {Pick}),
          keys : BOOLEAN, force : BOOLEAN, move : BOOLEAN,
          given : SUBSET {"vault", "mode", "item", "ssh-key", "ttl"}]

\* runExistingConfigMenu's seed for starting over.
Blank == [vault |-> TRUE, mode |-> "biometric", ttl |-> "4h", from |-> FALSE,
          names |-> <<>>, specs |-> <<>>, keys |-> FALSE, force |-> FALSE,
          move |-> FALSE, given |-> {}]

ASSUME TitleAssumption  == TitleOf \in [Item -> Title]
ASSUME ListAssumption   == ItemList \in Seq(Item) /\ Pick \notin Item
ASSUME BoundsAssumption == Source \notin Nat /\ {MaxVaults, MaxCopies} \subseteq Nat \ {0}
ASSUME FileAssumption   == NoFile # Broken /\ {NoFile, Broken} \cap Config = {}

\* A flag that was not passed has no value: --item, --from or --from-item.
ASSUME InputsAssumption ==
    /\ Inputs \subseteq Input
    /\ \A i \in Inputs : i.from \/ i.names # <<>> \/ i.specs # <<>> => "item" \in i.given

VARIABLES
    place,      \* how often each vault has each item
    made,       \* vaults of the dedicated vault's name
    file,       \* .timeshare.yml
    step,       \* where the command is
    st,         \* its wizardState
    items,      \* the allow-list so far
    queue,      \* what transferInto has still to transfer
    specs,      \* the --from-item still to come
    cmd         \* history: the command's kind and flags, the titles it listed
                \* to begin with, what it has transferred, how its write went,
                \* and what Source held when it began

world == <<place, made, file>>
local == <<st, items, queue, specs>>
vars  == <<place, made, file, step, st, items, queue, specs, cmd>>

Vault == {Source} \cup 1..MaxVaults
Has(v) == {i \in Item : place[v][i] > 0}
\* The items of S, in the order of ItemList.
InOrder(S) ==
    LET first[n \in 0..Len(ItemList)] ==
            IF n = 0 THEN <<>>
            ELSE IF ItemList[n] \in S THEN Append(first[n - 1], ItemList[n])
            ELSE first[n - 1]
    IN  first[Len(ItemList)]

Listed(v) == InOrder(Has(v))
Picked(S) == InOrder(Has(Source) \cap S)
Titles(s) == [n \in DOMAIN s |-> TitleOf[s[n]]]
Members(s) == {s[n] : n \in DOMAIN s}

Command(kind, i) == [kind |-> kind, input |-> i, before |-> i.names, done |-> <<>>,
                     write |-> "none", source |-> place[Source]]

Init == /\ place \in {[v \in Vault |-> [i \in Item |->
                          IF v = Source \/ (v = 1 /\ i \in S) THEN 1 ELSE 0]]
                        : S \in SUBSET Item}
        /\ made \in 0..1
        /\ Has(1) # {} => made = 1
        /\ file = NoFile
        /\ step = "idle"
        /\ st = Blank
        /\ items = <<>> /\ queue = <<>> /\ specs = <<>>
        /\ cmd = Command("none", Blank)

\* The command ends; what it had in memory is gone.
Stop == /\ step' = "idle"
        /\ st' = Blank
        /\ items' = <<>> /\ queue' = <<>> /\ specs' = <<>>

Fail == Stop /\ UNCHANGED <<world, cmd>>

\* os.WriteFile truncates the file before it writes.
Save(cfg, kind) == \/ /\ file' = cfg
                      /\ cmd' = [cmd EXCEPT !.kind = kind, !.write = "ok"]
                   \/ /\ file' \in {file, Broken}
                      /\ cmd' = [cmd EXCEPT !.kind = kind, !.write = "failed"]

-----------------------------------------------------------------------------
(***************************************************************************)
(* config.Load, and what is asked of the user.                             *)
(***************************************************************************)
Loads(f) == /\ f \notin {NoFile, Broken}
            /\ f.mode \in Modes
            /\ f.items # <<>> \/ f.keys

\* What was not given with a flag is asked.
Asked(flag, value, answers) == IF flag \in st.given THEN {value} ELSE answers

NonInteractive(i) ==
    /\ step = "idle"
    /\ step' = "validate"
    /\ st' = i
    /\ cmd' = Command("flags", i)
    /\ UNCHANGED <<world, items, queue, specs>>

\* The menu is told the file and no flags.
Interactive(i) ==
    /\ step = "idle"
    /\ file = NoFile \/ Loads(file)
    /\ step' = IF file = NoFile THEN "wizard" ELSE "menu"
    /\ st' = IF file = NoFile THEN i ELSE Blank
    /\ cmd' = Command(IF file = NoFile THEN "wizard" ELSE "menu", i)
    /\ UNCHANGED <<world, items, queue, specs>>

\* Maybe no vault name, maybe a TTL that is none, any of the items; the picker
\* of a vault without items is an error.  --move is forgotten.  Starting over is
\* asked for, so it sets Force.
Wizard ==
    /\ step = "wizard"
    /\ "item" \in st.given \/ Has(Source) # {}
    /\ \E v \in Asked("vault", st.vault, BOOLEAN),
          m \in Asked("mode", st.mode, Modes),
          p \in Asked("item", st.specs, {Picked(S) : S \in SUBSET Item}),
          k \in Asked("ssh-key", st.keys, BOOLEAN),
          t \in Asked("ttl", st.ttl, TTLs \cup {"bad"}) :
          st' = [st EXCEPT !.vault = v, !.mode = m, !.specs = p, !.keys = k, !.ttl = t,
                           !.move = FALSE, !.force = @ \/ cmd.kind = "over"]
    /\ step' = "validate"
    /\ UNCHANGED <<world, items, queue, specs, cmd>>

\* A prompt is cancelled, or `op` cannot list.
Cancel == step \in {"wizard", "menu"} /\ Fail

MenuAdd == /\ step = "menu"
           /\ Has(Source) # {}
           /\ \E S \in SUBSET Item : queue' = Picked(S)
           /\ items' = file.items
           /\ step' = "add"
           /\ cmd' = [cmd EXCEPT !.kind = "add", !.before = file.items]
           /\ UNCHANGED <<world, st, specs>>

MenuTTL == /\ step = "menu"
           /\ \E t \in TTLs : Save([file EXCEPT !.ttl = t], "ttl")
           /\ Stop
           /\ UNCHANGED <<place, made>>

\* Confirmed: everything is asked again.
MenuOver == /\ step = "menu"
            /\ st' = Blank
            /\ step' = "wizard"
            /\ cmd' = Command("over", Blank)
            /\ UNCHANGED <<world, items, queue, specs>>

-----------------------------------------------------------------------------
(***************************************************************************)
(* runInit.                                                                *)
(***************************************************************************)
\* Mutants: any TTL; nothing to list.
CompleteAnyTTL(s) == /\ s.vault
                     /\ s.from \/ s.names # <<>> \/ s.specs # <<>> \/ s.keys

CompleteAnyItems(s) == s.vault /\ s.ttl \in TTLs

\* validateComplete.
Complete(s) == /\ s.vault
               /\ s.from \/ s.names # <<>> \/ s.specs # <<>> \/ s.keys
               /\ s.ttl \in TTLs

\* Mutant: nobody looks for a file.
ValidateOnly == /\ step = "validate"
                /\ IF Complete(st) THEN step' = "create" /\ UNCHANGED local
                                   ELSE Stop
                /\ UNCHANGED <<world, cmd>>

Validate == /\ step = "validate"
            /\ IF Complete(st) /\ (file = NoFile \/ st.force)
               THEN step' = "create" /\ UNCHANGED local
               ELSE Stop
            /\ UNCHANGED <<world, cmd>>

\* Whether there is one of that name already is not asked.
CreateVault == /\ step = "create"
               /\ made < MaxVaults
               /\ made' = made + 1
               /\ items' = st.names
               /\ specs' = st.specs
               /\ step' = IF st.from THEN "from" ELSE "next"
               /\ UNCHANGED <<place, file, st, queue, cmd>>

FromVault == /\ step = "from"
             /\ queue' = Listed(Source)
             /\ step' = "next"
             /\ UNCHANGED <<world, st, items, specs, cmd>>

\* `op item create` from an item, and `op item move`.
Copied(i, v) == [place EXCEPT ![v][i] = @ + 1]
Moved(i, v)  == [place EXCEPT ![v][i] = @ + 1, ![Source][i] = @ - 1]

\* Mutant: --move the other way round.
TransferOther(i, v) ==
    /\ place' = [place EXCEPT ![v][i] = @ + 1, ![Source][i] = IF st.move THEN @ ELSE @ - 1]
    /\ items' = Append(items, TitleOf[i])
    /\ cmd' = [cmd EXCEPT !.done = Append(@, i)]

\* copyItem or moveItem of one item, and its title.
TransferItem(i, v) ==
    /\ place' = IF st.move THEN Moved(i, v) ELSE Copied(i, v)
    /\ items' = Append(items, TitleOf[i])
    /\ cmd' = [cmd EXCEPT !.done = Append(@, i)]

\* transferInto's loop, in runInit or for the menu, which never moves.
Transfer == /\ step \in {"next", "add"}
            /\ queue # <<>> /\ Head(queue) \in Has(Source)
            /\ \E v \in 1..made : /\ place[v][Head(queue)] < MaxCopies
                                 /\ TransferItem(Head(queue), v)
            /\ queue' = Tail(queue)
            /\ UNCHANGED <<made, file, step, st, specs>>

\* What a transfer that failed may have done of the item it was about: nothing,
\* a copy, with which a move begins as well, or all of it.
HalfDone ==
    \/ UNCHANGED place
    \/ /\ Head(queue) \in Has(Source)
       /\ \E v \in 1..made :
             /\ place[v][Head(queue)] < MaxCopies
             /\ \/ place' = Copied(Head(queue), v)
                \/ st.move /\ place' = Moved(Head(queue), v)

\* Mutant: the menu stops as runInit does.
AddStops == /\ step = "add" /\ queue # <<>>
            /\ HalfDone
            /\ Stop
            /\ UNCHANGED <<made, file, cmd>>

\* A transfer fails: the menu writes what it has so far, runInit does not.
AddFails == /\ step = "add" /\ queue # <<>>
            /\ HalfDone
            /\ queue' = <<>>
            /\ UNCHANGED <<made, file, step, st, items, specs, cmd>>

\* The next --from-item: one item, or a picker.
NextSpec == /\ step = "next" /\ queue = <<>> /\ specs # <<>>
            /\ IF Head(specs) = Pick
               THEN /\ \E S \in SUBSET Item : queue' = Picked(S)
                    /\ Has(Source) # {}
               ELSE queue' = <<Head(specs)>>
            /\ specs' = Tail(specs)
            /\ UNCHANGED <<world, step, st, items, cmd>>

\* Any `op` call in runInit fails: the vault's creation, perhaps with one made;
\* a list, an item's look-up or its picker; a transfer.
OpFails == /\ \/ /\ step = "create"
                 /\ made' \in {made, made + 1} \cap 0..MaxVaults
                 /\ UNCHANGED place
              \/ /\ step = "from" \/ (step = "next" /\ queue = <<>> /\ specs # <<>>)
                 /\ UNCHANGED <<place, made>>
              \/ /\ step = "next" /\ queue # <<>>
                 /\ HalfDone
                 /\ UNCHANGED made
           /\ Stop
           /\ UNCHANGED <<file, cmd>>

Write == /\ step = "next" /\ queue = <<>> /\ specs = <<>>
         /\ Save([mode |-> st.mode, ttl |-> st.ttl, items |-> items,
                  keys |-> st.keys], cmd.kind)
         /\ Stop
         /\ UNCHANGED <<place, made>>

AddWrite == /\ step = "add" /\ queue = <<>>
            /\ Save([file EXCEPT !.items = items], "add")
            /\ Stop
            /\ UNCHANGED <<place, made>>

Next == \/ \E i \in Inputs : NonInteractive(i) \/ Interactive(i)
        \/ Wizard \/ Cancel \/ MenuAdd \/ MenuTTL \/ MenuOver
        \/ Validate \/ CreateVault \/ FromVault \/ NextSpec \/ Transfer
        \/ AddFails \/ OpFails \/ Write \/ AddWrite

Spec == Init /\ [][Next]_vars

-----------------------------------------------------------------------------
(***************************************************************************)
(* Properties.                                                             *)
(***************************************************************************)
\* Every variable has its type.
TypeOK ==
    /\ place \in [Vault -> [Item -> 0..MaxCopies]]
    /\ made \in 0..MaxVaults
    /\ file \in {NoFile, Broken} \/ file \in Config
    /\ step \in {"idle", "wizard", "menu", "add", "validate", "create", "from",
                "next"}
    /\ st \in Input
    /\ items \in Seq(Title)
    /\ queue \in Seq(Item)
    /\ specs \in Seq(Item \cup {Pick})

\* README, quickstart, and init.go, --move: whoever fails, originals leave their
\* vault only if --move was given; a script's --move has taken every item it
\* transferred from where it was; and, as `op` copies before it removes, no item
\* is in no vault.  What --move does in the wizard, which forgets it, and for the
\* menu, which never moves, is not said here.
OriginalsStay ==
    /\ place[Source] # cmd.source => cmd.input.move
    /\ cmd.kind = "flags" /\ cmd.input.move =>
          \A i \in Members(cmd.done) : place[Source][i] < cmd.source[i]
    /\ \A i \in Item : \E v \in Vault : place[v][i] > 0

\* wizard_summary.go, init.go: the file tells what really happened.  A file
\* that init wrote lists what was asked for and what was transferred, in this
\* order, and nothing else; and when items are added it does so even if some
\* transfer failed.  An item whose transfer was reported as failed is not
\* listed, wherever it is now.
FileTells ==
    step = "idle" /\ \/ cmd.kind \in {"flags", "wizard", "over"} /\ cmd.write = "ok"
                     \/ cmd.kind = "add" /\ cmd.write # "failed"
        => file.items = cmd.before \o Titles(cmd.done)

\* The menu keeps a file that loads one that loads, and the wizard, where no
\* flags are given, writes one that does.
WizardLoads ==
    step = "idle" /\ cmd.write = "ok" /\ cmd.kind # "flags"
                  /\ (cmd.kind = "wizard" => cmd.input.given = {})
        => Loads(file)

\* init.go, --force: without it a command that finds a file leaves it, and
\* everything in 1Password, as they are.
NeverOverwrites ==
    [][file # NoFile /\ step # "idle" /\ ~cmd.input.force
         /\ cmd.kind \in {"flags", "wizard"} => UNCHANGED world]_vars

=============================================================================
